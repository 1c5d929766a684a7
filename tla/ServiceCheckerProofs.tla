------------------------ MODULE ServiceCheckerProofs ------------------------
(***************************************************************************)
(* What is true of a service's checker (ServiceChecker.tla) for any number *)
(* of pids and processes and any thresholds, and that it implements        *)
(* Checker.tla; and what it reports after what the service went through    *)
(* (ServiceHistory.tla), for all thresholds from 1 up to the point at      *)
(* which the counters saturate.                                            *)
(***************************************************************************)
EXTENDS ServiceHistory, TLAPS

LEMMA BumpType == ASSUME NEW n \in 0..MaxCount PROVE Bump(n) \in 1..MaxCount
  BY ThresholdsAssumption DEF Bump

LEMMA NoProcIsNone == NoProc \notin Proc /\ NoPid \notin Pids
  BY ServiceAssumption

(***************************************************************************)
(* The invariant.  A process sits behind its own pid; the unit's has the   *)
(* unit's parent and name.  A call of Status works on the process it       *)
(* holds, or else on none.  The start time ProcInfo took belongs to the    *)
(* process whose stat file it holds open, if that one is still there: once *)
(* it is gone no other process can pass for it.                            *)
(***************************************************************************)
MachineInv ==
  /\ \A p \in Pids : procfs[p] # NoProc => procfs[p].pid = p
  /\ mainPid # NoPid => procfs[mainPid] # NoProc /\ procfs[mainPid].own

ProbeInv ==
  /\ pc = "systemctl" => process = NoProc
  /\ pc \in {"open", "stat", "read"} =>
       target \in Pids /\ (process # NoProc => target = process.pid)
  /\ pc \in {"stat", "read"} => opened \in Proc /\ opened.pid = target
  /\ pc = "read" => start \in Starts
  /\ pc = "read" /\ procfs[target] = opened => start = opened.start

IInv == TypeOK /\ MachineInv /\ ProbeInv /\ SuccessMeansHeld

-----------------------------------------------------------------------------
(* The three ways in which a call of Status ends *)

\* What a call leaves in the fields of the checker is well-formed.
LEMMA SettleType ==
  ASSUME TypeOK, NEW ok \in BOOLEAN, NEW charged \in 0..MaxCount, Settle(ok, charged)
  PROVE  /\ failed' \in {0, charged} /\ failed' \in 0..MaxCount
         /\ success' \in 0..MaxCount /\ checked' \in 0..MaxCount
         /\ status' \in States /\ report' \in States
         /\ pc' = "idle" /\ target' = NoPid /\ opened' = NoProc /\ start' = NoProc
<1>1. Bump(success) \in 0..MaxCount /\ Bump(checked) \in 0..MaxCount
  BY BumpType, ThresholdsAssumption DEF TypeOK
<1>2. success' \in 0..MaxCount /\ checked' \in 0..MaxCount /\ failed' \in {0, charged}
  BY <1>1, ThresholdsAssumption DEF Settle
<1>3. status' \in States /\ report' \in States
  BY DEF Settle, States
<1> QED BY <1>2, <1>3, ThresholdsAssumption DEF Settle, Return

LEMMA EndKeepsInv ==
  ASSUME IInv, UNCHANGED machine,
         pc' = "idle", target' = NoPid, opened' = NoProc, start' = NoProc,
         process' \in Proc \cup {NoProc}, SuccessMeansHeld',
         failed' \in 0..MaxCount, success' \in 0..MaxCount, checked' \in 0..MaxCount,
         status' \in States, report' \in States
  PROVE  IInv'
  BY DEF IInv, TypeOK, MachineInv, ProbeInv, machine, ControlPoints

LEMMA LostKeepsInv == ASSUME IInv, Lost PROVE IInv'
<1>1. Bump(failed) \in 1..MaxCount /\ Bump(failed) \in 0..MaxCount
  BY BumpType, ThresholdsAssumption DEF IInv, TypeOK
<1>2. /\ success' \in 0..MaxCount /\ checked' \in 0..MaxCount /\ failed' \in 0..MaxCount
      /\ status' \in States /\ report' \in States
      /\ pc' = "idle" /\ target' = NoPid /\ opened' = NoProc /\ start' = NoProc
  BY <1>1, SettleType DEF IInv, Lost
<1>3. report' # "success"
  BY <1>1 DEF Lost, Settle
<1>4. process' = NoProc /\ UNCHANGED machine
  BY DEF Lost
<1> QED BY <1>2, <1>3, <1>4, EndKeepsInv DEF SuccessMeansHeld

LEMMA HoldingKeepsInv ==
  ASSUME IInv, NEW seen \in Proc, Holding(seen) PROVE IInv'
<1>1. failed \in 0..MaxCount
  BY DEF IInv, TypeOK
<1>2. /\ success' \in 0..MaxCount /\ checked' \in 0..MaxCount /\ failed' \in 0..MaxCount
      /\ status' \in States /\ report' \in States
      /\ pc' = "idle" /\ target' = NoPid /\ opened' = NoProc /\ start' = NoProc
  BY <1>1, SettleType DEF IInv, Holding
<1>3. process' = seen /\ process' # NoProc /\ UNCHANGED machine
  BY NoProcIsNone DEF Holding
<1> QED BY <1>2, <1>3, EndKeepsInv DEF SuccessMeansHeld

LEMMA GiveUpKeepsInv == ASSUME IInv, GiveUp PROVE IInv'
<1>1. /\ failed' = 0 /\ success' = 0 /\ checked' = 0 /\ 0 \in 0..MaxCount
      /\ report' = "unknown" /\ status' \in States /\ report' \in States
  BY ThresholdsAssumption DEF GiveUp, IInv, TypeOK, States
<1>2. /\ pc' = "idle" /\ target' = NoPid /\ opened' = NoProc /\ start' = NoProc
      /\ process' \in Proc \cup {NoProc} /\ UNCHANGED machine
  BY DEF GiveUp, Return, IInv, TypeOK
<1> QED BY <1>1, <1>2, EndKeepsInv DEF SuccessMeansHeld

\* What ProcInfo makes up from the open file and the start time is the process
\* behind the pid at that moment.
LEMMA SeenIsReal ==
  ASSUME IInv, pc = "read", procfs[target] = opened
  PROVE  /\ [pid |-> target, start |-> start, own |-> opened.own] = procfs[target]
         /\ procfs[target] \in Proc /\ target \in Pids
  BY DEF IInv, ProbeInv, Proc

-----------------------------------------------------------------------------

\* What a held or adopted process is: the one behind its pid at that moment,
\* and the one held already or else the unit's.
Found(seen) ==
  seen = procfs[seen.pid] /\ (seen = process \/ (process = NoProc /\ seen.own))

\* A step of a call of Status leaves the call open, and the checker as it is,
\* or ends it in one of three ways.
LEMMA StepOfACall ==
  ASSUME IInv, Status
  PROVE  /\ UNCHANGED machine
         /\ \/ pc' # "idle" /\ UNCHANGED results
            \/ /\ pc # "idle" /\ pc' = "idle"
               /\ Lost \/ GiveUp \/ \E seen \in Proc : Holding(seen) /\ Found(seen)
<1>1. CASE Begin \/ ServiceStarted \/ OpenStat \/ StatTimes
  BY <1>1 DEF Begin, ServiceStarted, OpenStat, StatTimes
<1>2. CASE ServiceDown \/ NotExist
  BY <1>2 DEF ServiceDown, NotExist, Lost, Settle, Return
<1>3. CASE ServiceUnknown \/ OpenFails \/ ReadFails
  BY <1>3 DEF ServiceUnknown, OpenFails, ReadFails, GiveUp, Return, machine
<1>4. CASE ReadStat
  <2> DEFINE seen == [pid |-> target, start |-> start, own |-> opened.own]
  <2>1. seen \in Proc /\ seen = procfs[target] /\ seen.pid = target
    BY <1>4, SeenIsReal DEF ReadStat
  <2>2. pc # "idle" /\ IF Accepted(seen) THEN Holding(seen) ELSE Lost
    BY <1>4 DEF ReadStat
  <2> HIDE DEF seen
  <2>3. CASE Accepted(seen)
    <3>1. Found(seen) /\ Holding(seen)
      BY <2>1, <2>2, <2>3 DEF Found, Accepted
    <3>2. pc' = "idle" /\ UNCHANGED machine
      BY <3>1 DEF Holding, Settle, Return
    <3> QED BY <2>1, <2>2, <3>1, <3>2
  <2>4. CASE ~Accepted(seen)
    BY <2>2, <2>4 DEF Lost, Settle, Return
  <2> QED BY <2>3, <2>4
<1> QED BY <1>1, <1>2, <1>3, <1>4 DEF Status

\* The machine leaves the call of Status alone.
LEMMA StepOfTheMachine == ASSUME Machine PROVE UNCHANGED <<results, pc, probe>>
  BY DEF Machine, UnitStarts, UnitExits, OtherStarts, OtherExits, Spawn

-----------------------------------------------------------------------------

LEMMA SpawnKeepsInv ==
  ASSUME IInv, NEW p \in Pids, NEW isOwn \in BOOLEAN, Spawn(p, isOwn),
         mainPid' = mainPid \/ (mainPid' = p /\ isOwn)
  PROVE  IInv'
<1>1. PICK s \in NewStarts :
        procfs' = [procfs EXCEPT ![p] = [pid |-> p, start |-> s, own |-> isOwn]]
  BY DEF Spawn
<1> DEFINE q == [pid |-> p, start |-> s, own |-> isOwn]
<1>2. /\ procfs[p] = NoProc /\ q \in Proc /\ q # NoProc
      /\ procfs \in [Pids -> Proc \cup {NoProc}]
      /\ procfs' = [procfs EXCEPT ![p] = q]
      /\ UNCHANGED <<results, pc, probe>>
  <2>1. s \in Starts
    BY DEF NewStarts
  <2>2. q \in Proc
    BY <2>1 DEF Proc
  <2> QED BY <1>1, <2>2, NoProcIsNone DEF Spawn, IInv, TypeOK
<1>3. opened # NoProc => q # opened
  BY <1>1 DEF NewStarts, Known
<1> HIDE DEF q
<1>4. q.pid = p /\ q.own = isOwn
  BY DEF q
<1>5. TypeOK'
  BY <1>2 DEF IInv, TypeOK, results, probe
<1>6. MachineInv'
  <2>1. mainPid \in Pids \cup {NoPid} /\ mainPid' \in Pids \cup {NoPid}
    BY DEF IInv, TypeOK
  <2>2. mainPid # NoPid => mainPid # p
    BY <1>2 DEF IInv, MachineInv
  <2> QED BY <1>2, <1>4, <2>1, <2>2, NoProcIsNone DEF IInv, MachineInv
<1>7. ProbeInv'
  BY <1>2, <1>3, NoProcIsNone DEF IInv, ProbeInv, results, probe
<1> QED BY <1>2, <1>5, <1>6, <1>7 DEF IInv, SuccessMeansHeld, results

LEMMA ExitKeepsInv ==
  ASSUME IInv, NEW p \in Pids, procfs' = [procfs EXCEPT ![p] = NoProc],
         UNCHANGED <<results, pc, probe>>,
         mainPid' = NoPid \/ (mainPid' = mainPid /\ p # mainPid)
  PROVE  IInv'
  BY NoProcIsNone
  DEF IInv, TypeOK, MachineInv, ProbeInv, SuccessMeansHeld, results, probe

LEMMA InvInit == Init => IInv
  BY NoProcIsNone, ThresholdsAssumption
  DEF Init, IInv, TypeOK, MachineInv, ProbeInv, SuccessMeansHeld, States, ControlPoints

LEMMA InvStep == IInv /\ [Next]_vars => IInv'
<1> SUFFICES ASSUME IInv, [Next]_vars PROVE IInv'
  OBVIOUS
<1>0. TypeOK /\ MachineInv /\ ProbeInv
  BY DEF IInv
<1>1. CASE Machine
  <2>1. CASE UnitStarts
    <3>1. PICK p \in Pids : Spawn(p, TRUE) /\ mainPid' = p
      BY <2>1 DEF UnitStarts
    <3> QED BY <3>1, SpawnKeepsInv
  <2>2. CASE UnitExits
    BY <1>0, <2>2, ExitKeepsInv DEF UnitExits, TypeOK
  <2>3. CASE OtherStarts
    <3>1. PICK p \in Pids : Spawn(p, FALSE) /\ mainPid' = mainPid
      BY <2>3 DEF OtherStarts
    <3> QED BY <3>1, SpawnKeepsInv
  <2>4. CASE OtherExits
    BY <2>4, ExitKeepsInv DEF OtherExits
  <2> QED BY <1>1, <2>1, <2>2, <2>3, <2>4 DEF Machine
<1>2. CASE Begin
  BY <1>0, <1>2, NoProcIsNone
  DEF IInv, Begin, TypeOK, MachineInv, ProbeInv, SuccessMeansHeld, machine, results,
      ControlPoints, Proc
<1>3. CASE ServiceDown \/ NotExist
  BY <1>3, LostKeepsInv DEF ServiceDown, NotExist
<1>4. CASE ServiceUnknown \/ OpenFails \/ ReadFails
  BY <1>4, GiveUpKeepsInv DEF ServiceUnknown, OpenFails, ReadFails
<1>5. CASE ServiceStarted
  BY <1>0, <1>5
  DEF IInv, ServiceStarted, TypeOK, MachineInv, ProbeInv, SuccessMeansHeld, machine,
      results, ControlPoints
<1>6. CASE OpenStat
  BY <1>0, <1>6
  DEF IInv, OpenStat, TypeOK, MachineInv, ProbeInv, SuccessMeansHeld, machine, results,
      ControlPoints
<1>7. CASE StatTimes
  <2>1. procfs[target] \in Proc /\ procfs[target].start \in Starts
    BY <1>0, <1>7 DEF StatTimes, TypeOK, ProbeInv, Proc
  <2> QED
    BY <1>0, <1>7, <2>1
    DEF IInv, StatTimes, TypeOK, MachineInv, ProbeInv, SuccessMeansHeld, machine, results,
        ControlPoints
<1>8. CASE ReadStat
  <2> DEFINE seen == [pid |-> target, start |-> start, own |-> opened.own]
  <2>1. seen \in Proc
    BY <1>8, SeenIsReal DEF ReadStat
  <2>2. Holding(seen) \/ Lost
    BY <1>8 DEF ReadStat
  <2> HIDE DEF seen
  <2> QED BY <2>1, <2>2, HoldingKeepsInv, LostKeepsInv
<1>9. CASE UNCHANGED vars
  BY <1>0, <1>9
  DEF IInv, vars, TypeOK, MachineInv, ProbeInv, SuccessMeansHeld, machine, results, probe
<1> QED BY <1>1, <1>2, <1>3, <1>4, <1>5, <1>6, <1>7, <1>8, <1>9 DEF Next, Status

LEMMA InvHolds == Spec => []IInv
  BY InvInit, InvStep, PTL DEF Spec

\* The state of the checker and of the machine keeps its type.
THEOREM ServiceTypeOK == Spec => []TypeOK
<1>1. IInv => TypeOK
  BY DEF IInv
<1> QED BY <1>1, InvHolds, PTL

\* Success is never reported without a process in hand, whatever becomes of
\* the processes and their pids (service.go:204-209, 226-248).
THEOREM ServiceSuccessMeansHeld == Spec => []SuccessMeansHeld
<1>1. IInv => SuccessMeansHeld
  BY DEF IInv
<1> QED BY <1>1, InvHolds, PTL

-----------------------------------------------------------------------------
(* What a single step may do *)

\* Only a process that exists at that moment and is the unit's is adopted
\* (process.go:22-52, service.go:231-252).
THEOREM ServiceAdoptsOnlyTheUnit == Spec => AdoptsOnlyTheUnit
<1>1. IInv /\ [Next]_vars =>
        [process' \notin {process, NoProc} =>
           process'.own /\ process' = procfs[process'.pid]]_vars
  <2> SUFFICES ASSUME IInv, Next, process' \notin {process, NoProc}
               PROVE  process'.own /\ process' = procfs[process'.pid]
    OBVIOUS
  <2>1. ReadStat /\ process' # process /\ process' # NoProc
    BY DEF Next, Machine, UnitStarts, UnitExits, OtherStarts, OtherExits, Spawn, Status, Begin,
       ServiceDown, ServiceUnknown, ServiceStarted, OpenStat, OpenFails, StatTimes, NotExist,
       ReadFails, GiveUp, Lost, results
  <2> DEFINE seen == [pid |-> target, start |-> start, own |-> opened.own]
  <2>2. Accepted(seen) /\ process' = seen
    BY <2>1 DEF ReadStat, Lost, Holding
  <2>3. seen = procfs[target] /\ seen.pid = target
    BY <2>1, SeenIsReal DEF ReadStat
  <2>4. process = NoProc /\ seen.own
    BY <2>1, <2>2 DEF Accepted
  <2> QED BY <2>2, <2>3, <2>4
<1> QED BY <1>1, InvHolds, PTL DEF Spec, AdoptsOnlyTheUnit

\* A service whose process is alive is not charged with a failure, whatever
\* happens to the pids around it (service.go:196-212).
THEOREM ServiceNoFalseAlarm == Spec => NoFalseAlarm
<1>1. IInv /\ [Next]_vars =>
        [process # NoProc /\ process \in {procfs[p] : p \in Pids}
           => failed' <= failed]_vars
  <2> SUFFICES ASSUME IInv, Next, process # NoProc, NEW p \in Pids, process = procfs[p]
               PROVE  failed' <= failed
    OBVIOUS
  <2>0. failed \in 0..MaxCount /\ MaxCount \in Nat
    BY ThresholdsAssumption DEF IInv, TypeOK
  <2>1. process = procfs[process.pid]
    BY DEF IInv, MachineInv
  <2>2. pc # "systemctl" /\ (pc \in {"open", "stat", "read"} => target = process.pid)
    BY DEF IInv, ProbeInv
  <2>3. CASE Machine
    BY <2>0, <2>3 DEF Machine, UnitStarts, UnitExits, OtherStarts, OtherExits, Spawn, results
  <2>4. CASE Begin \/ ServiceStarted \/ OpenStat \/ StatTimes
    BY <2>0, <2>4 DEF Begin, ServiceStarted, OpenStat, StatTimes, results
  <2>5. CASE ServiceDown \/ ServiceUnknown \/ NotExist
    BY <2>1, <2>2, <2>5 DEF ServiceDown, ServiceUnknown, NotExist
  <2>6. CASE OpenFails \/ ReadFails
    BY <2>0, <2>6 DEF OpenFails, ReadFails, GiveUp
  <2>7. CASE ReadStat
    <3> DEFINE seen == [pid |-> target, start |-> start, own |-> opened.own]
    <3>1. seen = process
      BY <2>1, <2>2, <2>7, SeenIsReal DEF ReadStat
    <3>2. Holding(seen)
      BY <2>7, <3>1 DEF ReadStat, Accepted
    <3>3. failed' \in {0, failed}
      BY <2>0, <3>2, SettleType DEF Holding, IInv
    <3> QED BY <2>0, <3>3
  <2> QED BY <2>3, <2>4, <2>5, <2>6, <2>7 DEF Next, Status
<1> QED BY <1>1, InvHolds, PTL DEF Spec, NoFalseAlarm

-----------------------------------------------------------------------------
(* The checker implements Checker.tla *)

\* The arithmetic at the end of ServiceChecker.Status is the one that
\* NetworkChecker.Status writes differently.
LEMMA SettleIsCheck ==
  ASSUME TypeOK, NEW ok \in BOOLEAN, NEW charged \in 0..MaxCount, Settle(ok, charged),
         charged = IF ok THEN failed ELSE Bump(failed)
  PROVE  C!Pass \/ C!Fail
<1> DEFINE c == [failed |-> failed, success |-> success, checked |-> checked]
           new == [failed |-> failed', success |-> success', checked |-> checked']
<1>0. /\ failed \in 0..MaxCount /\ success \in 0..MaxCount /\ checked \in 0..MaxCount
      /\ MaxCount \in Nat
  BY ThresholdsAssumption DEF TypeOK
<1>1. failed' \in 0..MaxCount
  BY SettleType
<1>2. report' = Verdict(new)
  BY <1>1, ThresholdsAssumption DEF Settle, Verdict
<1>3. CASE ok
  <2>1. new = Passed(c)
    BY <1>0, <1>3, ThresholdsAssumption DEF Settle, Passed
  <2> QED BY <1>2, <2>1 DEF C!Pass, C!Passed, C!Bump, C!Verdict, Passed, Bump, Verdict
<1>4. CASE ~ok
  <2>1. new = Failing(c)
    BY <1>0, <1>4 DEF Settle, Failing
  <2> QED BY <1>2, <2>1 DEF C!Fail, C!Failing, C!Bump, C!Verdict, Failing, Bump, Verdict
<1> QED BY <1>3, <1>4

\* Every call of Status counts as one check of an abstract checker, its other
\* steps as none (service.go:189-285 against network.go:218-245).
THEOREM ServiceChecksLikeAChecker == Spec => ChecksLikeAChecker
<1>1. Init => C!Init
  BY DEF Init, C!Init, C!Fresh
<1>2. IInv /\ [Next]_vars => [C!Next]_(C!vars)
  <2> SUFFICES ASSUME IInv, [Next]_vars PROVE C!Next \/ UNCHANGED C!vars
    OBVIOUS
  <2>0. TypeOK /\ failed \in 0..MaxCount /\ Bump(failed) \in 0..MaxCount
    BY BumpType, ThresholdsAssumption DEF IInv, TypeOK
  <2>1. CASE UNCHANGED results
    BY <2>1 DEF results, C!vars
  <2>2. CASE Lost
    BY <2>0, <2>2, SettleIsCheck DEF Lost, C!Next
  <2>3. ASSUME NEW seen, Holding(seen) PROVE C!Next
    BY <2>0, <2>3, SettleIsCheck DEF Holding, C!Next
  <2>4. CASE GiveUp
    BY <2>4 DEF GiveUp, C!Next, C!GiveUp, C!Fresh
  <2>5. UNCHANGED results \/ Lost \/ GiveUp \/ \E seen : Holding(seen)
    BY StepOfACall, StepOfTheMachine DEF Next, vars
  <2> QED BY <2>1, <2>2, <2>3, <2>4, <2>5
<1> QED BY <1>1, <1>2, InvHolds, PTL DEF Spec, ChecksLikeAChecker, C!Spec
-----------------------------------------------------------------------------
(* The metric of a service *)

-----------------------------------------------------------------------------
(* The record of what the service went through *)

LEMMA CountType ==
  ASSUME NEW n \in 0..MaxCalls
  PROVE  /\ Count(n) \in 0..MaxCalls /\ Count(n) <= n + 1
         /\ Count(n) = n + 1 \/ (Count(n) = n /\ n = MaxCalls)
  BY CallsAssumption DEF Count

(* The record watches: everything ServiceChecker.tla says stays true. *)

LEMMA HistoryRefines == HistorySpec => Spec
<1>1. HistoryInit => Init
  BY DEF HistoryInit
<1>2. [HistoryNext]_historyVars => [Next]_vars
  BY DEF HistoryNext, Records, historyVars
<1> QED BY <1>1, <1>2, PTL DEF HistorySpec, Spec

LEMMA HistoryInvHolds == HistorySpec => []IInv
  BY HistoryRefines, InvHolds, PTL

-----------------------------------------------------------------------------
(***************************************************************************)
(* The unit's own process is systemd's main process and no other is, so    *)
(* the one held is the main process as long as it lives.  A call during    *)
(* which the service was up knows it.                                      *)
(***************************************************************************)
OwnInv ==
  /\ \A p \in Pids : procfs[p] # NoProc /\ procfs[p].own => p = mainPid
  /\ process # NoProc => process.own
  /\ mainPid # NoPid => wasUp
  /\ downFor \in 0..MaxCalls /\ age \in 0..MaxCalls /\ restless \in 0..MaxCalls

\* A process that is found is the unit's, which is up.
LEMMA FoundIsUp ==
  ASSUME IInv, OwnInv, NEW seen \in Proc, Found(seen)
  PROVE  seen.own /\ mainPid # NoPid /\ seen # NoProc
<1>1. seen.pid \in Pids /\ seen # NoProc
  BY NoProcIsNone DEF Proc
<1>2. seen.own
  BY <1>1 DEF Found, OwnInv
<1>3. procfs[seen.pid] = seen
  BY DEF Found
<1>4. seen.pid = mainPid
  BY <1>1, <1>2, <1>3 DEF OwnInv
<1> QED BY <1>1, <1>2, <1>4, NoProcIsNone

\* The machine leaves every process to itself but the one that starts or ends,
\* and the unit's starts and ends with the record of it.
LEMMA MachineKeepsOwn ==
  ASSUME IInv, OwnInv, Machine
  PROVE  \A p \in Pids : procfs'[p] # NoProc /\ procfs'[p].own => p = mainPid'
<1>0. procfs \in [Pids -> Proc \cup {NoProc}] /\ mainPid \in Pids \cup {NoPid}
  BY DEF IInv, TypeOK
<1>1. CASE UnitStarts
  <2>1. PICK p \in Pids : Spawn(p, TRUE) /\ mainPid' = p
    BY <1>1 DEF UnitStarts
  <2>2. PICK s \in NewStarts :
          procfs' = [procfs EXCEPT ![p] = [pid |-> p, start |-> s, own |-> TRUE]]
    BY <2>1 DEF Spawn
  <2>3. mainPid = NoPid
    BY <1>1 DEF UnitStarts
  <2> QED BY <1>0, <2>1, <2>2, <2>3, NoProcIsNone DEF OwnInv
<1>2. CASE UnitExits
  BY <1>0, <1>2 DEF UnitExits, OwnInv
<1>3. CASE OtherStarts
  <2>1. PICK p \in Pids : Spawn(p, FALSE) /\ mainPid' = mainPid
    BY <1>3 DEF OtherStarts
  <2>2. PICK s \in NewStarts :
          procfs' = [procfs EXCEPT ![p] = [pid |-> p, start |-> s, own |-> FALSE]]
    BY <2>1 DEF Spawn
  <2> QED BY <1>0, <2>1, <2>2 DEF OwnInv
<1>4. CASE OtherExits
  BY <1>0, <1>4 DEF OtherExits, OwnInv
<1> QED BY <1>1, <1>2, <1>3, <1>4 DEF Machine

\* The record keeps its type in every step.
LEMMA RecordStep ==
  ASSUME OwnInv, HistoryNext
  PROVE  /\ mainPid' # NoPid => wasUp'
         /\ downFor' \in 0..MaxCalls /\ age' \in 0..MaxCalls /\ restless' \in 0..MaxCalls
<1>1. mainPid' # NoPid => wasUp'
  BY DEF HistoryNext, Records
<1>2. 0 \in 0..MaxCalls /\ \A n \in 0..MaxCalls : Count(n) \in 0..MaxCalls
  BY CountType, CallsAssumption
<1>3. age' \in {0, age, Count(age)}
  BY DEF HistoryNext, Records
<1>4. downFor' \in {0, downFor, Count(downFor)}
  BY DEF HistoryNext, Records
<1>5. restless' \in {0, restless, Count(restless)}
  BY DEF HistoryNext, Records
<1> QED BY <1>1, <1>2, <1>3, <1>4, <1>5 DEF OwnInv

LEMMA OwnStep == IInv /\ OwnInv /\ [HistoryNext]_historyVars => OwnInv'
<1> SUFFICES ASSUME IInv, OwnInv, [HistoryNext]_historyVars PROVE OwnInv'
  OBVIOUS
<1>1. CASE HistoryNext /\ Machine
  <2>1. process' = process
    BY <1>1, StepOfTheMachine DEF results
  <2> QED BY <1>1, <2>1, MachineKeepsOwn, RecordStep DEF OwnInv
<1>2. CASE HistoryNext /\ Status
  <2>1. UNCHANGED machine
    BY <1>2, StepOfACall
  <2>2. process' # NoProc => process'.own
    <3>1. CASE UNCHANGED results \/ Lost \/ GiveUp
      BY <3>1 DEF OwnInv, results, Lost, GiveUp
    <3>2. ASSUME NEW seen \in Proc, Holding(seen), Found(seen)
          PROVE  process'.own
      BY <3>2, FoundIsUp DEF Holding
    <3> QED BY <1>2, <3>1, <3>2, StepOfACall
  <2> QED BY <1>2, <2>1, <2>2, RecordStep DEF OwnInv, machine
<1>3. CASE UNCHANGED historyVars
  BY <1>3 DEF historyVars, vars, machine, results, record, OwnInv
<1> QED BY <1>1, <1>2, <1>3 DEF HistoryNext, Records, Next

LEMMA OwnInit == HistoryInit => OwnInv
  BY CallsAssumption DEF HistoryInit, Init, OwnInv

LEMMA OwnHolds == HistorySpec => []OwnInv
  BY OwnInit, OwnStep, HistoryInvHolds, PTL DEF HistorySpec

-----------------------------------------------------------------------------
(* How a call of Status ends, with its counters *)

Tallies == [failed |-> failed, success |-> success, checked |-> checked]

LEMMA LostCounts ==
  ASSUME IInv, Lost
  PROVE  /\ failed' = Bump(failed) /\ success' = 0 /\ process' = NoProc
         /\ report' = Verdict(Tallies') /\ report' # "unknown"
<1>1. Bump(failed) \in 1..MaxCount /\ Bump(failed) # 0
  BY BumpType, ThresholdsAssumption DEF IInv, TypeOK
<1>2. failed' = Bump(failed) /\ success' = 0 /\ checked' = Bump(checked)
  BY DEF Lost, Settle
<1>3. report' = IF Bump(checked) < CheckCount THEN "collecting"
                ELSE IF Bump(failed) > 0
                THEN IF Bump(failed) >= FailCount THEN "error" ELSE "warn"
                ELSE "success"
  BY DEF Lost, Settle
<1> QED BY <1>1, <1>2, <1>3, ThresholdsAssumption DEF Verdict, Tallies, Lost

LEMMA HoldingCounts ==
  ASSUME IInv, NEW seen, Holding(seen)
  PROVE  /\ success' = Bump(success) /\ process' = seen
         /\ failed' = failed \/ (failed' = 0 /\ success' >= ResetCount)
         /\ report' = Verdict(Tallies') /\ report' # "unknown"
<1>1. failed \in 0..MaxCount
  BY DEF IInv, TypeOK
<1>2. /\ success' = Bump(success) /\ checked' = Bump(checked) /\ process' = seen
      /\ failed' = IF failed > 0 /\ Bump(success) >= ResetCount THEN 0 ELSE failed
  BY DEF Holding, Settle
<1>3. report' = IF checked' < CheckCount THEN "collecting"
                ELSE IF failed' > 0
                THEN IF failed' >= FailCount THEN "error" ELSE "warn"
                ELSE "success"
  BY DEF Holding, Settle
<1>4. failed' \in 0..MaxCount
  BY <1>1, <1>2, ThresholdsAssumption
<1> QED BY <1>2, <1>3, <1>4, ThresholdsAssumption DEF Verdict, Tallies

-----------------------------------------------------------------------------
(* An outage is reported *)

\* Every call during which the service was down is one more failure, and none
\* of them is forgiven before the service is found up again.
OutageInv ==
  /\ downFor <= failed \/ failed = MaxCount
  /\ downFor > 0 => report = Verdict(Tallies)

LEMMA OutageStep ==
  IInv /\ OwnInv /\ OutageInv /\ [HistoryNext]_historyVars => OutageInv'
<1> SUFFICES ASSUME IInv, OwnInv, OutageInv, [HistoryNext]_historyVars PROVE OutageInv'
  OBVIOUS
<1>0. /\ failed \in 0..MaxCount /\ MaxCount \in Nat /\ downFor \in 0..MaxCalls /\ MaxCalls \in Nat
      /\ Count(downFor) <= downFor + 1 /\ Count(downFor) \in 0..MaxCalls
  BY ThresholdsAssumption, CallsAssumption, CountType DEF IInv, TypeOK, OwnInv
<1>1. CASE HistoryNext /\ pc' # "idle" /\ UNCHANGED results
  BY <1>1 DEF HistoryNext, Records, Returns, results, OutageInv, Tallies, Verdict
<1>2. CASE HistoryNext /\ Machine
  <2>1. UNCHANGED results /\ pc' = pc
    BY <1>2, StepOfTheMachine
  <2> QED BY <1>2, <2>1 DEF HistoryNext, Records, Returns, results, OutageInv, Tallies, Verdict
<1>3. CASE HistoryNext /\ pc # "idle" /\ pc' = "idle" /\ Lost
  <2>1. downFor' \in {0, Count(downFor)}
    BY <1>3 DEF HistoryNext, Records, Returns
  <2>2. failed' = Bump(failed) /\ report' = Verdict(Tallies')
    BY <1>3, LostCounts
  <2>3. downFor' <= failed' \/ failed' = MaxCount
    BY <1>0, <2>1, <2>2 DEF OutageInv, Bump
  <2> QED BY <2>2, <2>3 DEF OutageInv
<1>4. CASE HistoryNext /\ pc # "idle" /\ pc' = "idle" /\ GiveUp
  <2>1. downFor' = 0 /\ failed' = 0
    BY <1>4 DEF HistoryNext, Records, Returns, GiveUp
  <2> QED BY <2>1 DEF OutageInv
<1>5. ASSUME HistoryNext, pc # "idle", pc' = "idle", NEW seen \in Proc, Holding(seen), Found(seen)
      PROVE  OutageInv'
  <2>1. downFor' = 0
    BY <1>5, FoundIsUp DEF HistoryNext, Records, Returns, OwnInv
  <2>2. failed' \in 0..MaxCount
    BY <1>0, <1>5, HoldingCounts
  <2> QED BY <2>1, <2>2 DEF OutageInv
<1>6. CASE UNCHANGED historyVars
  BY <1>6 DEF historyVars, vars, results, record, OutageInv, Tallies, Verdict
<1> QED BY <1>1, <1>2, <1>3, <1>4, <1>5, <1>6, StepOfACall DEF HistoryNext, Records, Next

LEMMA OutageMeansError ==
  ASSUME FailCount \in 1..MaxCount
  PROVE  IInv /\ OwnInv /\ OutageInv => OutageReported
<1> SUFFICES ASSUME IInv, OwnInv, OutageInv, downFor >= FailCount, checked >= CheckCount
             PROVE  report = "error"
  BY DEF OutageReported
<1>1. failed \in 0..MaxCount /\ checked \in 0..MaxCount /\ downFor \in 0..MaxCalls
  BY DEF IInv, TypeOK, OwnInv
<1>2. failed >= FailCount /\ failed # 0 /\ downFor > 0
  BY <1>1, ThresholdsAssumption, CallsAssumption DEF OutageInv
<1>3. Verdict(Tallies) = "error"
  BY <1>1, <1>2, ThresholdsAssumption DEF Verdict, Tallies
<1> QED BY <1>2, <1>3 DEF OutageInv

\* An outage of fail_count calls is reported as an error, whatever the checker
\* held, whichever processes came and went in its place and which of the two
\* checks each call made (service.go:194-281).
THEOREM ServiceOutageReported ==
  ASSUME FailCount \in 1..MaxCount
  PROVE  HistorySpec => []OutageReported
<1>1. HistoryInit => OutageInv
  BY ThresholdsAssumption DEF HistoryInit, Init, OutageInv
<1>2. IInv /\ OwnInv /\ OutageInv => OutageReported
  BY OutageMeansError
<1> QED BY <1>1, <1>2, OutageStep, HistoryInvHolds, OwnHolds, PTL DEF HistorySpec

-----------------------------------------------------------------------------
(***************************************************************************)
(* A crash loop is reported.  The successes in a row are all of one        *)
(* process, which has lived through as many calls; so as long as no        *)
(* process lives through reset_count of them no failure is forgiven, and   *)
(* of any reset_count calls in a row one at least fails.                   *)
(***************************************************************************)
Alive == process # NoProc /\ procfs[process.pid] = process

CrashInv ==
  /\ process = NoProc => success = 0
  /\ Alive => success <= age \/ age = MaxCalls
  /\ restless > 0 => success < ResetCount /\ report = Verdict(Tallies)
  /\ restless <= failed * ResetCount + success \/ failed = MaxCount

\* The numbers of a state, and what the record makes of them at the end of a
\* call.
LEMMA Numbers ==
  ASSUME IInv, OwnInv
  PROVE  /\ failed \in Nat /\ success \in Nat /\ age \in Nat /\ restless \in Nat
         /\ failed \in 0..MaxCount /\ success \in 0..MaxCount
         /\ MaxCount \in Nat /\ MaxCalls \in Nat /\ restless <= MaxCalls
         /\ Count(restless) \in Nat /\ Count(restless) <= restless + 1
         /\ Count(age) \in Nat /\ (Count(age) = age + 1 \/ (Count(age) = age /\ age = MaxCalls))
  BY ThresholdsAssumption, CallsAssumption, CountType DEF IInv, TypeOK, OwnInv

\* A product of natural numbers is one.
LEMMA ProductIsNat == ASSUME NEW k \in Nat, NEW r \in Nat PROVE k * r \in Nat
  OBVIOUS

\* One more failure pays for the successes before it and for itself.
LEMMA OneMoreFailure ==
  ASSUME NEW n \in Nat, NEW k \in Nat, NEW s \in Nat, NEW r \in Nat,
         n <= k * r + s, s < r
  PROVE  n + 1 <= (k + 1) * r
<1>1. k * r \in Nat /\ (k + 1) * r = k * r + r
  OBVIOUS
<1> QED BY <1>1

\* So many calls without rest amount to so many failures.
LEMMA EnoughFailures ==
  ASSUME NEW k \in Nat, NEW s \in Nat, NEW r \in Nat, NEW f \in Nat,
         f * r <= k * r + s, s < r
  PROVE  f <= k
<1> SUFFICES ASSUME k + 1 <= f PROVE FALSE
  OBVIOUS
<1>1. /\ k * r \in Nat /\ (k + 1) * r = k * r + r
  OBVIOUS
<1>2. (k + 1) * r <= f * r
  <2>1. PICK d \in Nat : f = (k + 1) + d
    <3>1. f - (k + 1) \in Nat /\ f = (k + 1) + (f - (k + 1))
      OBVIOUS
    <3> QED BY <3>1
  <2>2. f * r = (k + 1) * r + d * r /\ d * r \in Nat /\ (k + 1) * r \in Nat
    BY <2>1
  <2> QED BY <2>2
<1>3. f * r \in Nat
  OBVIOUS
<1> QED BY <1>1, <1>2, <1>3

LEMMA MachineKeepsCrash ==
  ASSUME IInv, OwnInv, CrashInv, HistoryNext, Machine
  PROVE  CrashInv'
<1>1. UNCHANGED <<results, pc, probe>> /\ UNCHANGED restless
  BY StepOfTheMachine DEF HistoryNext, Records, Returns
<1>2. Alive' => Alive /\ age' = age
  <2> SUFFICES ASSUME Alive' PROVE Alive /\ age' = age
    OBVIOUS
  <2>1. process # NoProc /\ process \in Proc /\ process.pid \in Pids /\ procfs'[process.pid] = process
    BY <1>1, NoProcIsNone DEF Alive, results, IInv, TypeOK, Proc
  <2>2. mainPid' # NoPid
    <3>1. process.own
      BY <2>1 DEF OwnInv
    <3>2. process.pid = mainPid'
      BY <2>1, <3>1, MachineKeepsOwn
    <3> QED BY <2>1, <3>2, NoProcIsNone
  <2>3. age' = age
    BY <1>1, <2>2 DEF HistoryNext, Records, Returns
  <2>4. procfs[process.pid] = process
    <3>0. procfs \in [Pids -> Proc \cup {NoProc}] /\ mainPid \in Pids \cup {NoPid}
      BY DEF IInv, TypeOK
    <3>1. ASSUME NEW p \in Pids, NEW b \in BOOLEAN, Spawn(p, b)
          PROVE  procfs[process.pid] = process
      <4>1. PICK s \in NewStarts :
              procfs' = [procfs EXCEPT ![p] = [pid |-> p, start |-> s, own |-> b]]
        BY <3>1 DEF Spawn
      <4>2. process.start \notin NewStarts
        BY <2>1 DEF NewStarts, Known
      <4>3. process.pid # p
        BY <2>1, <3>0, <4>1, <4>2
      <4> QED BY <2>1, <3>0, <4>1, <4>3
    <3>2. CASE UnitExits \/ OtherExits
      BY <2>1, <3>0, <3>2 DEF UnitExits, OtherExits
    <3> QED BY <3>1, <3>2 DEF Machine, UnitStarts, OtherStarts
  <2> QED BY <2>1, <2>3, <2>4 DEF Alive
<1> QED BY <1>1, <1>2 DEF CrashInv, results, Tallies, Verdict

LEMMA LostKeepsCrash ==
  ASSUME ResetCount \in 1..MaxCount,
         IInv, OwnInv, CrashInv, HistoryNext, pc # "idle", pc' = "idle", Lost
  PROVE  CrashInv'
<1>1. /\ failed' = Bump(failed) /\ success' = 0 /\ process' = NoProc
      /\ report' = Verdict(Tallies')
  BY LostCounts
<1>2. restless' \in {0, Count(restless)} /\ restless' \in Nat
  BY Numbers DEF HistoryNext, Records, Returns
<1>3. restless' <= failed' * ResetCount \/ failed' = MaxCount
  <2>1. CASE failed' = MaxCount
    BY <2>1
  <2>2. CASE failed' # MaxCount
    <3>1. failed' = failed + 1 /\ failed # MaxCount
      BY <1>1, <2>2, Numbers DEF Bump
    <3>2. restless <= failed * ResetCount + success /\ (restless > 0 => success < ResetCount)
      BY <3>1 DEF CrashInv
    <3>3. (failed + 1) * ResetCount \in Nat /\ 1 <= (failed + 1) * ResetCount
      <4>1. ResetCount \in Nat /\ 1 <= ResetCount /\ failed * ResetCount \in Nat
        BY Numbers, ThresholdsAssumption
      <4>2. (failed + 1) * ResetCount = failed * ResetCount + ResetCount
        BY <4>1, Numbers
      <4> QED BY <4>1, <4>2
    <3>4. Count(restless) <= (failed + 1) * ResetCount
      <4>1. CASE restless = 0
        BY <3>3, <4>1, Numbers
      <4>2. CASE restless > 0
        <5>1. restless + 1 <= (failed + 1) * ResetCount
          BY <3>2, <4>2, OneMoreFailure, Numbers, ThresholdsAssumption
        <5> QED BY <3>3, <5>1, Numbers
      <4> QED BY <4>1, <4>2, Numbers
    <3> QED BY <1>2, <3>1, <3>3, <3>4
  <2> QED BY <2>1, <2>2
<1>4. failed' \in Nat /\ failed' * ResetCount + 0 = failed' * ResetCount
  BY <1>1, Numbers, ThresholdsAssumption DEF Bump
<1> QED BY <1>1, <1>2, <1>3, <1>4, ThresholdsAssumption DEF CrashInv, Alive

LEMMA HoldingKeepsCrash ==
  ASSUME ResetCount \in 1..MaxCount, ResetCount <= MaxCalls,
         IInv, OwnInv, CrashInv, HistoryNext, pc # "idle", pc' = "idle", UNCHANGED machine,
         NEW seen \in Proc, Holding(seen), Found(seen)
  PROVE  CrashInv'
<1>1. /\ success' = Bump(success) /\ process' = seen
      /\ failed' = failed \/ (failed' = 0 /\ success' >= ResetCount)
      /\ report' = Verdict(Tallies')
  BY HoldingCounts
<1>2. seen # NoProc /\ mainPid' # NoPid
  BY FoundIsUp DEF machine
<1>3. age' = Count(age)
  BY <1>2 DEF HistoryNext, Records, Returns
<1>4. success' \in Nat /\ success' <= success + 1
      /\ (success' = success + 1 \/ success' = MaxCount)
  BY <1>1, Numbers DEF Bump
<1>5. success' <= age' \/ age' = MaxCalls
  <2>1. CASE process = NoProc
    BY <1>3, <1>4, <2>1, Numbers DEF CrashInv
  <2>2. CASE process # NoProc
    <3>1. Alive
      BY <2>2 DEF Found, Alive
    <3>2. success <= age \/ age = MaxCalls
      BY <3>1 DEF CrashInv
    <3> QED BY <1>3, <1>4, <3>2, Numbers DEF Count
  <2> QED BY <2>1, <2>2
<1>6. CASE restless' = 0
  <2>1. failed' \in Nat /\ failed' * ResetCount \in Nat
    <3>1. failed' \in Nat
      BY <1>1, Numbers
    <3>2. ResetCount \in Nat
      BY ThresholdsAssumption
    <3> QED BY <3>1, <3>2, ProductIsNat, Zenon
  <2> QED BY <1>1, <1>2, <1>4, <1>5, <1>6, <2>1 DEF CrashInv
<1>7. CASE restless' # 0
  <2>1. restless' = Count(restless) /\ age' < ResetCount
    BY <1>3, <1>7, Numbers, ThresholdsAssumption DEF HistoryNext, Records, Returns
  <2>2. success' < ResetCount /\ failed' = failed /\ success' = success + 1
    BY <1>1, <1>3, <1>4, <1>5, <2>1, Numbers, ThresholdsAssumption
  <2>3. restless' <= failed' * ResetCount + success' \/ failed' = MaxCount
    <3>1. failed * ResetCount \in Nat
      BY Numbers, ThresholdsAssumption
    <3> QED BY <2>1, <2>2, <3>1, Numbers DEF CrashInv
  <2> QED BY <1>1, <1>2, <1>5, <2>2, <2>3 DEF CrashInv
<1> QED BY <1>6, <1>7

LEMMA CrashStep ==
  ASSUME ResetCount \in 1..MaxCount, ResetCount <= MaxCalls
  PROVE  IInv /\ OwnInv /\ CrashInv /\ [HistoryNext]_historyVars => CrashInv'
<1> SUFFICES ASSUME IInv, OwnInv, CrashInv, [HistoryNext]_historyVars PROVE CrashInv'
  OBVIOUS
<1>1. CASE HistoryNext /\ Machine
  BY <1>1, MachineKeepsCrash
<1>2. CASE HistoryNext /\ Status
  <2>0. UNCHANGED machine
    BY <1>2, StepOfACall
  <2>1. CASE pc' # "idle" /\ UNCHANGED results
    <3>1. UNCHANGED restless /\ (mainPid # NoPid => age' = age)
      BY <1>2, <2>0, <2>1 DEF HistoryNext, Records, Returns, machine
    <3>2. Alive' => Alive /\ mainPid # NoPid
      <4> SUFFICES ASSUME Alive' PROVE Alive /\ mainPid # NoPid
        OBVIOUS
      <4>1. Alive /\ process \in Proc
        BY <2>0, <2>1 DEF Alive, machine, results, IInv, TypeOK
      <4>2. Found(process)
        BY <4>1 DEF Alive, Found
      <4> QED BY <4>1, <4>2, FoundIsUp
    <3> QED BY <2>1, <3>1, <3>2 DEF CrashInv, results, Tallies, Verdict
  <2>2. CASE pc # "idle" /\ pc' = "idle" /\ Lost
    BY <1>2, <2>2, LostKeepsCrash
  <2>3. CASE pc # "idle" /\ pc' = "idle" /\ GiveUp
    <3>1. restless' = 0 /\ success' = 0 /\ failed' = 0
      BY <1>2, <2>3 DEF HistoryNext, Records, Returns, GiveUp
    <3>2. age' \in Nat
      BY <1>2, Numbers, CountType, RecordStep
    <3>3. 0 * ResetCount + 0 = 0
      BY ThresholdsAssumption
    <3> QED BY <3>1, <3>2, <3>3, ThresholdsAssumption DEF CrashInv
  <2>4. ASSUME pc # "idle", pc' = "idle", NEW seen \in Proc, Holding(seen), Found(seen)
        PROVE  CrashInv'
    BY <1>2, <2>0, <2>4, HoldingKeepsCrash
  <2> QED BY <1>2, <2>1, <2>2, <2>3, <2>4, StepOfACall
<1>3. CASE UNCHANGED historyVars
  BY <1>3 DEF historyVars, vars, machine, results, record, CrashInv, Alive, Tallies, Verdict
<1> QED BY <1>1, <1>2, <1>3 DEF HistoryNext, Records, Next

LEMMA ManyCalls ==
  ASSUME FailCount \in 1..MaxCount, ResetCount \in 1..MaxCount
  PROVE  FailCount * ResetCount \in Nat /\ ResetCount <= FailCount * ResetCount
         /\ ResetCount \in Nat
<1>1. FailCount - 1 \in Nat /\ ResetCount \in Nat /\ FailCount = (FailCount - 1) + 1
  BY ThresholdsAssumption
<1>2. \A a, b \in Nat : a * b \in Nat /\ (a + 1) * b = a * b + b
  OBVIOUS
<1>3. (FailCount - 1) * ResetCount \in Nat
      /\ FailCount * ResetCount = (FailCount - 1) * ResetCount + ResetCount
  BY <1>1, <1>2
<1> QED BY <1>1, <1>3

LEMMA CrashLoopMeansError ==
  ASSUME FailCount \in 1..MaxCount, ResetCount \in 1..MaxCount
  PROVE  IInv /\ OwnInv /\ CrashInv => CrashLoopReported
<1> SUFFICES ASSUME IInv, OwnInv, CrashInv, restless >= FailCount * ResetCount,
                    checked >= CheckCount
             PROVE  report = "error"
  BY DEF CrashLoopReported
<1>1. restless > 0 /\ success < ResetCount /\ report = Verdict(Tallies)
  BY ManyCalls, Numbers DEF CrashInv
<1>2. FailCount <= failed
  <2>1. CASE failed = MaxCount
    BY <2>1
  <2>2. CASE failed # MaxCount
    <3>1. restless <= failed * ResetCount + success /\ failed * ResetCount \in Nat
      BY <2>2, ManyCalls, Numbers DEF CrashInv
    <3>2. FailCount * ResetCount <= failed * ResetCount + success
      BY <3>1, ManyCalls, Numbers
    <3> QED BY <1>1, <3>2, ManyCalls, EnoughFailures, Numbers
  <2> QED BY <2>1, <2>2
<1>3. Verdict(Tallies) = "error"
  <2>1. failed # 0 /\ checked \in Nat /\ failed \in Nat
    BY <1>2, Numbers DEF IInv, TypeOK
  <2> QED BY <1>2, <2>1, ThresholdsAssumption DEF Verdict, Tallies
<1> QED BY <1>1, <1>3

\* A record that is too short never counts so many calls.
LEMMA ShortRecord ==
  ASSUME FailCount \in 1..MaxCount, ResetCount \in 1..MaxCount, ~(ResetCount <= MaxCalls)
  PROVE  IInv /\ OwnInv => CrashLoopReported
  BY ManyCalls, Numbers DEF CrashLoopReported

\* A service none of whose processes lives through reset_count calls is
\* reported as an error after reset_count * fail_count of them, although it may
\* be up whenever it is looked at (service.go:204-209, 262-281).
THEOREM ServiceCrashLoopReported ==
  ASSUME FailCount \in 1..MaxCount, ResetCount \in 1..MaxCount
  PROVE  HistorySpec => []CrashLoopReported
<1>1. CASE ResetCount <= MaxCalls
  <2>1. HistoryInit => CrashInv
    BY ThresholdsAssumption DEF HistoryInit, Init, CrashInv, Alive
  <2>2. IInv /\ OwnInv /\ CrashInv => CrashLoopReported
    BY CrashLoopMeansError
  <2> QED BY <1>1, <2>1, <2>2, CrashStep, HistoryInvHolds, OwnHolds, PTL DEF HistorySpec
<1>2. CASE ~(ResetCount <= MaxCalls)
  <2>1. IInv /\ OwnInv => CrashLoopReported
    BY <1>2, ShortRecord
  <2> QED BY <2>1, HistoryInvHolds, OwnHolds, PTL
<1> QED BY <1>1, <1>2
=============================================================================
