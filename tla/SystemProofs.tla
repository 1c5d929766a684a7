---------------------------- MODULE SystemProofs ----------------------------
(***************************************************************************)
(* The daemon with the real checker of a unit (System.tla) implements the  *)
(* daemon over an abstract one (Relaymon.tla), and the addresses follow    *)
(* what the unit went through (SystemHistory.tla), for any number of pids, *)
(* processes and addresses and any thresholds.                             *)
(***************************************************************************)
EXTENDS SystemHistory, ServiceCheckerProofs

\* The one checker is a service.
LEMMA OneChecker == D!Checks = 1 /\ D!Checkers = {1} /\ ~D!IsNet(1)
  BY DEF D!Checks, D!Checkers, D!IsNet

LEMMA OnlyEntry == ASSUME NEW a, NEW b PROVE [<<a>> EXCEPT ![1] = b] = <<b>>
  OBVIOUS

(***************************************************************************)
(* The invariant, besides the checker's own: what the loop has counted in  *)
(* this round is the report of its one checker, and stands until the next. *)
(***************************************************************************)
LoopInv ==
  /\ loop = "check" => next = 1 /\ step = "collecting" /\ successes = 0
  /\ loop = "decide" =>
       /\ step \in {"collecting", "error"} /\ successes \in {0, 1}
       /\ successes = 1 => report = "success"
  /\ loop \in {"list", "addrs"} /\ step = "success" => report = "success"

SystemInv == IInv /\ LoopInv

LEMMA RestartIsFresh ==
  ASSUME SystemInv, Restart PROVE SystemInv'
<1>1. /\ process' = NoProc /\ failed' = 0 /\ success' = 0 /\ checked' = 0
      /\ status' \in States /\ report' \in States /\ report' # "success"
      /\ pc' = "idle" /\ target' = NoPid /\ opened' = NoProc /\ start' = NoProc
      /\ UNCHANGED machine /\ 0 \in 0..MaxCount
  BY ThresholdsAssumption DEF Restart, Return, States
<1>2. IInv'
  BY <1>1, EndKeepsInv DEF SystemInv, SuccessMeansHeld
<1>3. loop' = "pause"
  BY DEF Restart, D!Restart
<1> QED BY <1>2, <1>3 DEF SystemInv, LoopInv

LEMMA SystemInvInit == SystemInit => SystemInv
  BY InvInit DEF SystemInit, SystemInv, LoopInv

LEMMA SystemInvStep == SystemInv /\ [SystemNext]_systemVars => SystemInv'
<1> SUFFICES ASSUME SystemInv, [SystemNext]_systemVars PROVE SystemInv'
  OBVIOUS
<1>0. IInv /\ LoopInv
  BY DEF SystemInv
<1>1. CASE MachineStep
  <2>1. IInv'
    BY <1>0, <1>1, InvStep DEF MachineStep, Next
  <2>2. UNCHANGED <<loop, next, step, successes, report>>
    BY <1>1 DEF MachineStep, daemon, Machine, UnitStarts, UnitExits, OtherStarts, OtherExits,
       Spawn, results
  <2> QED BY <1>0, <2>1, <2>2 DEF SystemInv, LoopInv
<1>2. CASE Check
  <2>1. IInv'
    BY <1>0, <1>2, InvStep DEF Check, Next
  <2>2. CASE pc' # "idle"
    BY <1>0, <1>2, <2>1, <2>2 DEF Check, SystemInv, LoopInv
  <2>3. CASE pc' = "idle"
    BY <1>0, <1>2, <2>1, <2>3 DEF Check, SystemInv, LoopInv
  <2> QED BY <2>2, <2>3
<1>3. CASE Act
  <2>1. IInv' /\ UNCHANGED report
    BY <1>0, <1>3, InvStep DEF Act, vars, results
  <2>2. CASE D!Wake \/ D!RunCommand
    BY <1>0, <2>1, <2>2 DEF SystemInv, LoopInv, D!Wake, D!RunCommand
  <2>3. CASE D!Decide
    BY <1>0, <2>1, <2>3, OneChecker DEF SystemInv, LoopInv, D!Decide
  <2>4. CASE D!ListAddrs
    BY <1>0, <2>1, <2>4 DEF SystemInv, LoopInv, D!ListAddrs, D!round
  <2>5. CASE D!AddAddr \/ D!DelAddr
    <3>1. loop = "addrs" /\ UNCHANGED step /\ loop' \in {"addrs", "command"}
      BY <2>5 DEF D!AddAddr, D!DelAddr, D!NextAddr, D!AddrsDone, D!round
    <3> QED BY <1>0, <2>1, <3>1 DEF SystemInv, LoopInv
  <2> QED BY <1>3, <2>2, <2>3, <2>4, <2>5 DEF Act
<1>4. CASE StopStep \/ CancelStep
  <2>1. IInv' /\ UNCHANGED report
    BY <1>0, <1>4, InvStep DEF StopStep, CancelStep, vars, results
  <2>2. UNCHANGED <<loop, next, step, successes>>
    BY <1>4 DEF StopStep, CancelStep, D!Stop, D!Cancel, D!round
  <2> QED BY <1>0, <2>1, <2>2 DEF SystemInv, LoopInv
<1>5. CASE Restart
  BY <1>5, RestartIsFresh
<1>6. CASE UNCHANGED systemVars
  <2>1. IInv' /\ UNCHANGED <<loop, next, step, successes, report>>
    BY <1>0, <1>6, InvStep DEF systemVars, vars, results, daemon
  <2> QED BY <1>0, <2>1 DEF SystemInv, LoopInv
<1> QED BY <1>1, <1>2, <1>3, <1>4, <1>5, <1>6 DEF SystemNext

LEMMA SystemInvHolds == SystemSpec => []SystemInv
  BY SystemInvInit, SystemInvStep, PTL DEF SystemSpec

-----------------------------------------------------------------------------

\* No address is brought up without a process of the unit in hand
\* (main.go:258-263, 323-327; service.go:204-252).
THEOREM SystemUpWithAProcess == SystemSpec => UpWithAProcess
<1>1. SystemInv /\ [SystemNext]_systemVars =>
        [iface' \ iface # {} => process # NoProc]_systemVars
  <2> SUFFICES ASSUME SystemInv, SystemNext, iface' \ iface # {} PROVE process # NoProc
    OBVIOUS
  <2>1. D!AddAddr
    BY DEF SystemNext, MachineStep, daemon, Check, Act, StopStep, CancelStep, Restart,
       D!Wake, D!Decide, D!ListAddrs, D!DelAddr, D!RunCommand, D!Stop, D!Cancel, D!Restart
  <2>2. report = "success"
    BY <2>1 DEF SystemInv, LoopInv, D!AddAddr
  <2> QED BY <2>2 DEF SystemInv, IInv, SuccessMeansHeld
<1> QED BY <1>1, SystemInvHolds, PTL DEF SystemSpec, UpWithAProcess

-----------------------------------------------------------------------------
(* The refinement *)

\* A call that ends is one check of the abstract checker, counted by the loop
\* as the abstract loop counts it.
LEMMA ReturnIsACheck ==
  ASSUME SystemInv, Check, pc' = "idle"
  PROVE  D!CheckPasses \/ D!CheckFails \/ D!CheckGivesUp
<1> DEFINE old == [failed |-> failed, success |-> success, checked |-> checked]
           new == [failed |-> failed', success |-> success', checked |-> checked']
<1>0. /\ loop = "check" /\ next = 1 /\ IInv /\ TypeOK
      /\ failed \in 0..MaxCount /\ Bump(failed) \in 0..MaxCount
  BY BumpType, ThresholdsAssumption DEF Check, SystemInv, LoopInv, IInv, TypeOK
<1>1. ASSUME NEW rep, report' = rep
      PROVE  D!Returned(new, rep)
  <2>1. [<<old>> EXCEPT ![next] = new] = <<new>> /\ [<<report>> EXCEPT ![next] = rep] = <<rep>>
    BY <1>0, OnlyEntry
  <2>2. /\ loop' = "decide" /\ next' = 0
        /\ step' = IF rep = "error" THEN "error" ELSE step
        /\ successes' = IF rep = "success" THEN successes + 1 ELSE successes
        /\ UNCHANGED <<direction, <<listed, errs>>, iface, <<cancelled, running>>>>
    BY <1>1 DEF Check
  <2> QED BY <1>0, <1>1, <2>1, <2>2, OneChecker DEF D!Returned, D!netconf, D!signals
<1>2. <<old>>[next] = old
  BY <1>0
<1>3. CASE C!Pass
  <2>1. new = D!Passed(old) /\ report' = D!Verdict(new)
    BY <1>3 DEF C!Pass, C!Passed, C!Bump, C!Verdict, D!Passed, D!Bump, D!Verdict
  <2> QED BY <1>0, <1>1, <1>2, <2>1, OneChecker DEF D!CheckPasses
<1>4. CASE C!Fail
  <2>1. new = D!Failing(old) /\ report' = D!Verdict(new)
    BY <1>4 DEF C!Fail, C!Failing, C!Bump, C!Verdict, D!Failing, D!Bump, D!Verdict
  <2> QED BY <1>0, <1>1, <1>2, <2>1, OneChecker DEF D!CheckFails
<1>5. CASE GiveUp
  <2>1. new = D!Fresh /\ report' = "unknown"
    BY <1>5 DEF GiveUp, D!Fresh
  <2> QED BY <1>0, <1>1, <2>1, OneChecker DEF D!CheckGivesUp
<1>6. CASE Lost
  <2>1. C!Pass \/ C!Fail
    BY <1>0, <1>6, SettleIsCheck DEF Lost
  <2> QED BY <2>1, <1>3, <1>4
<1>7. ASSUME NEW seen, Holding(seen) PROVE C!Pass \/ C!Fail
  BY <1>0, <1>7, SettleIsCheck DEF Holding
<1> QED BY <1>0, <1>3, <1>4, <1>5, <1>6, <1>7, StepOfACall DEF Check

\* The daemon with the real checker implements the daemon over an abstract
\* one: machine steps and the steps inside a call are stutters, a call that
\* ends is a check (main.go:248-362 over service.go:189-285).
THEOREM SystemImplementsRelaymon == SystemSpec => ImplementsRelaymon
<1>1. SystemInit => D!Init
  <2> SUFFICES ASSUME SystemInit PROVE D!Init
    OBVIOUS
  <2>1. /\ <<[failed |-> failed, success |-> success, checked |-> checked]>>
             = [c \in D!Checkers |-> D!Fresh]
        /\ <<report>> = [c \in D!Checkers |-> "collecting"]
    BY OneChecker DEF SystemInit, Init, D!Fresh
  <2> QED BY <2>1 DEF SystemInit, D!Init
<1>2. SystemInv /\ [SystemNext]_systemVars => [D!Next]_(D!vars)
  <2> SUFFICES ASSUME SystemInv, [SystemNext]_systemVars PROVE D!Next \/ UNCHANGED D!vars
    OBVIOUS
  <2>1. CASE UNCHANGED <<results, daemon>>
    BY <2>1 DEF results, daemon, D!vars, D!checks, D!round, D!netconf, D!signals
  <2>2. CASE Check
    <3>1. CASE pc' = "idle"
      BY <2>2, <3>1, ReturnIsACheck DEF D!Next, D!Loop
    <3>2. CASE pc' # "idle"
      <4>1. UNCHANGED results
        BY <2>2, <3>2, StepOfACall DEF Check, SystemInv
      <4> QED BY <2>1, <2>2, <3>2, <4>1 DEF Check, daemon
    <3> QED BY <3>1, <3>2
  <2>3. CASE Act
    BY <2>3 DEF Act, D!Next, D!Loop
  <2>4. CASE StopStep \/ CancelStep \/ Restart
    BY <2>4 DEF StopStep, CancelStep, Restart, D!Next
  <2>5. CASE MachineStep
    BY <2>1, <2>5 DEF MachineStep, Machine, UnitStarts, UnitExits, OtherStarts, OtherExits, Spawn
  <2>6. CASE UNCHANGED systemVars
    BY <2>1, <2>6 DEF systemVars, vars
  <2> QED BY <2>2, <2>3, <2>4, <2>5, <2>6 DEF SystemNext
<1> QED BY <1>1, <1>2, SystemInvHolds, PTL DEF SystemSpec, ImplementsRelaymon, D!Spec
-----------------------------------------------------------------------------
(***************************************************************************)
(* From what the unit went through to the addresses.                       *)
(*                                                                         *)
(* From one end of a round to the other the addresses follow the report:   *)
(* while the daemon acts, what was listed and the addresses dealt with     *)
(* make up what is on the interface, so no ip command can fail; and        *)
(* whenever it does not act, its direction says what is there.             *)
(***************************************************************************)
Distinct == \A i, j \in DOMAIN IPs : IPs[i] = IPs[j] => i = j

Before(i) == {IPs[j] : j \in {k \in DOMAIN IPs : k < i}}

AddrsInv ==
  /\ ~errs
  /\ loop \in {"list", "addrs", "command"} =>
       step \in {"success", "error"} /\ direction = step /\ report = step
  /\ loop = "list" => IPs # <<>>
  /\ loop = "addrs" /\ step = "success" => iface = listed \cup Before(next)
  /\ loop = "addrs" /\ step = "error" => iface = listed \ Before(next)
  /\ loop = "addrs" => next \in DOMAIN IPs
  /\ loop \notin {"list", "addrs"} /\ direction = "success" => D!Configured \subseteq iface
  /\ loop \notin {"list", "addrs"} /\ direction = "error" => Clear
  /\ loop = "pause" /\ report \in {"success", "error"} => direction = report
  /\ loop = "decide" => (step = "error" <=> report = "error")
                        /\ (successes = 1 <=> report = "success")

(***************************************************************************)
(* A call that begins while a process of the unit lives through it is      *)
(* about that process, whatever the checker has held before, once a call   *)
(* has ended in its life; and the checks that could be made succeed.       *)
(***************************************************************************)
Steady == mainPid # NoPid /\ age >= 1

SteadyInv ==
  /\ mainPid = NoPid => age = 0
  /\ Steady => process = NoProc \/ Alive \/ checked = 0
  /\ Steady /\ (process = NoProc \/ Alive) /\ pc \in {"open", "stat", "read"} =>
       target = mainPid /\ (pc # "open" => opened = procfs[mainPid])
  /\ failed = 0 \/ success + 1 >= checked \/ success + 1 >= age
  /\ success > 0 /\ success >= ResetCount => failed = 0
  /\ checked > 0 => report = Verdict(Tallies)

CallInv == loop # "check" => pc = "idle"

PastInv == OwnInv /\ OutageInv /\ CrashInv /\ SteadyInv /\ CallInv

(* The record of a daemon that is started afresh is one of nothing. *)

LEMMA NumbersOfAFreshStart ==
  0 \in 0..MaxCount /\ 0 \in 0..MaxCalls /\ 0 * ResetCount = 0 /\ 0 * ResetCount + 0 = 0
  BY ThresholdsAssumption, CallsAssumption

LEMMA FreshStart ==
  ASSUME IInv, OwnInv, Restart, RecordsAfresh PROVE PastInv'
<1>1. /\ process' = NoProc /\ failed' = 0 /\ success' = 0 /\ checked' = 0
      /\ pc' = "idle" /\ UNCHANGED <<procfs, mainPid>>
      /\ wasUp' = (mainPid # NoPid) /\ downFor' = 0 /\ age' = 0 /\ restless' = 0
  BY DEF Restart, Return, RecordsAfresh, machine
<1>2. OwnInv'
  BY <1>1, NumbersOfAFreshStart DEF OwnInv
<1>3. OutageInv' /\ CrashInv'
  BY <1>1, NumbersOfAFreshStart DEF OutageInv, CrashInv, Alive
<1>4. SteadyInv'
  BY <1>1 DEF SteadyInv, Steady, Alive
<1> QED BY <1>1, <1>2, <1>3, <1>4 DEF PastInv, CallInv

\* Every other step of the daemon is one of the service with its record, or
\* leaves both alone.
LEMMA StepOfTheService ==
  ASSUME SystemHistoryNext
  PROVE  \/ MachineStep /\ HistoryNext
         \/ Check /\ HistoryNext
         \/ (Act \/ StopStep \/ CancelStep) /\ UNCHANGED historyVars
         \/ Restart /\ RecordsAfresh
  BY DEF SystemHistoryNext, MachineStep, Check, Act, StopStep, CancelStep, HistoryNext, Next,
     historyVars

LEMMA CallStep ==
  SystemInv /\ CallInv /\ [SystemNext]_systemVars => CallInv'
<1> SUFFICES ASSUME SystemInv, CallInv, [SystemNext]_systemVars PROVE CallInv'
  OBVIOUS
<1>1. CASE MachineStep
  <2>1. UNCHANGED <<loop, pc>>
    BY <1>1, StepOfTheMachine DEF MachineStep, daemon, SystemInv
  <2> QED BY <2>1 DEF CallInv
<1>2. CASE Check
  BY <1>2 DEF Check, CallInv
<1>3. CASE Act
  <2>1. pc' = pc /\ (loop = "check" => loop' = "check")
    BY <1>3 DEF Act, vars, D!Wake, D!Decide, D!ListAddrs, D!AddAddr, D!DelAddr, D!RunCommand
  <2>2. loop' = "check" \/ loop # "check"
    BY <2>1
  <2> QED BY <2>1, <2>2 DEF CallInv
<1>4. CASE StopStep \/ CancelStep
  BY <1>4 DEF StopStep, CancelStep, vars, D!Stop, D!Cancel, CallInv
<1>5. CASE Restart
  BY <1>5 DEF Restart, Return, CallInv
<1>6. CASE UNCHANGED systemVars
  BY <1>6 DEF systemVars, vars, daemon, CallInv
<1> QED BY <1>1, <1>2, <1>3, <1>4, <1>5, <1>6 DEF SystemNext

LEMMA MachineKeepsSteady ==
  ASSUME IInv, OwnInv, SteadyInv, HistoryNext, Machine
  PROVE  SteadyInv'
<1>0. procfs \in [Pids -> Proc \cup {NoProc}] /\ mainPid \in Pids \cup {NoPid}
  BY DEF IInv, TypeOK
<1>1. UNCHANGED <<process, failed, success, checked, report, pc, target, opened>>
  BY StepOfTheMachine DEF results, probe
<1>2. age' = IF mainPid' = NoPid THEN 0 ELSE age
  BY <1>1 DEF HistoryNext, Records, Returns
<1>3. failed = 0 \/ success' + 1 >= checked' \/ success' + 1 >= age'
  <2>1. success \in Nat /\ success + 1 >= 0
    BY Numbers
  <2> QED BY <1>1, <1>2, <2>1 DEF SteadyInv
<1>4. /\ mainPid' = NoPid => age' = 0
      /\ success' > 0 /\ success' >= ResetCount => failed' = 0
      /\ checked' > 0 => report' = Verdict(Tallies')
  BY <1>1, <1>2 DEF SteadyInv, Verdict, Tallies
<1>5. ASSUME Steady'
      PROVE  /\ Steady /\ mainPid' = mainPid /\ procfs'[mainPid] = procfs[mainPid]
             /\ Alive <=> Alive'
  <2>1. age \in Nat /\ mainPid' # NoPid /\ age' = age /\ age >= 1
    BY <1>2, <1>5, Numbers DEF Steady
  <2>2. mainPid # NoPid /\ mainPid \in Pids /\ procfs[mainPid] # NoProc
    BY <1>0, <2>1 DEF SteadyInv, IInv, MachineInv
  <2>3. PICK p \in Pids \ {mainPid} : \A q \in Pids \ {p} : procfs'[q] = procfs[q]
    <3>1. CASE OtherStarts
      <4>1. PICK p \in Pids : Spawn(p, FALSE)
        BY <3>1 DEF OtherStarts
      <4> QED BY <1>0, <2>2, <4>1 DEF Spawn
    <3>2. CASE OtherExits
      BY <1>0, <3>2 DEF OtherExits
    <3> QED BY <2>1, <2>2, <3>1, <3>2 DEF Machine, UnitStarts, UnitExits
  <2>4. mainPid' = mainPid
    BY <2>1, <2>2 DEF Machine, UnitStarts, UnitExits, OtherStarts, OtherExits
  <2>5. procfs'[mainPid] = procfs[mainPid]
    BY <2>2, <2>3
  <2>6. process # NoProc => process \in Proc /\ process.pid \in Pids /\ process.own
    BY DEF OwnInv, IInv, TypeOK, Proc
  <2>7. Alive => process.pid = mainPid
    BY <2>6 DEF Alive, OwnInv
  <2>8. Alive' => process.pid = mainPid
    BY <1>1, <2>4, <2>6, MachineKeepsOwn DEF Alive
  <2> QED BY <1>1, <2>1, <2>2, <2>4, <2>5, <2>7, <2>8 DEF Steady, Alive
<1> QED BY <1>1, <1>3, <1>4, <1>5 DEF SteadyInv

\* While the call goes on it comes no nearer to a failure.
LEMMA ProbeKeepsSteady ==
  ASSUME IInv, OwnInv, SteadyInv, HistoryNext, Status, pc' # "idle", UNCHANGED <<machine, results>>
  PROVE  SteadyInv'
<1>1. UNCHANGED <<process, failed, success, checked, report, procfs, mainPid>>
  BY DEF machine, results
<1>2. age' = age
  BY <1>1 DEF HistoryNext, Records, Returns, SteadyInv
<1>3. ASSUME Steady, process = NoProc \/ Alive
      PROVE  pc' \in {"open", "stat", "read"} =>
               target' = mainPid /\ (pc' # "open" => opened' = procfs[mainPid])
  <2>1. CASE Begin
    <3>1. Alive => process.pid = mainPid
      BY DEF Alive, OwnInv, IInv, TypeOK, Proc
    <3> QED BY <1>3, <2>1, <3>1 DEF Begin, Alive
  <2>2. CASE ServiceStarted
    BY <2>2 DEF ServiceStarted
  <2>3. CASE OpenStat
    BY <1>3, <2>3 DEF OpenStat, SteadyInv
  <2>4. CASE StatTimes
    BY <1>3, <2>4 DEF StatTimes, SteadyInv
  <2>5. CASE ServiceDown \/ NotExist
    BY <2>5 DEF ServiceDown, NotExist, Lost, Settle, Return
  <2>6. CASE ServiceUnknown \/ OpenFails \/ ReadFails
    BY <2>6 DEF ServiceUnknown, OpenFails, ReadFails, GiveUp, Return
  <2>7. CASE ReadStat
    BY <2>7 DEF ReadStat, Holding, Lost, Settle, Return
  <2> QED BY <2>1, <2>2, <2>3, <2>4, <2>5, <2>6, <2>7 DEF Status
<1> QED BY <1>1, <1>2, <1>3 DEF SteadyInv, Steady, Alive, Verdict, Tallies

\* In the steady state no check fails but one after a check that could not be
\* made.
LEMMA NoLossInTheSteadyState ==
  ASSUME "timeout" \notin Glitches, IInv, OwnInv, SteadyInv, Status, pc # "idle", pc' = "idle",
         Lost, Steady
  PROVE  checked = 0
<1> SUFFICES ASSUME process = NoProc \/ Alive PROVE FALSE
  BY DEF SteadyInv
<1>1. mainPid \in Pids /\ procfs[mainPid] # NoProc /\ procfs[mainPid].own
  BY DEF Steady, IInv, TypeOK, MachineInv
<1>2. process' = NoProc
  BY DEF Lost
<1>3. CASE ServiceDown
  BY <1>1, <1>3, NoProcIsNone DEF ServiceDown
<1>4. CASE NotExist
  BY <1>1, <1>4 DEF NotExist, SteadyInv
<1>5. CASE ReadStat
  <2> DEFINE seen == [pid |-> target, start |-> start, own |-> opened.own]
  <2>1. target = mainPid /\ seen \in Proc /\ seen = procfs[mainPid]
    BY <1>5, SeenIsReal DEF ReadStat, SteadyInv
  <2>2. Accepted(seen)
    <3>1. Alive => procfs[mainPid] = process
      BY DEF Alive, OwnInv, IInv, TypeOK, Proc
    <3> HIDE DEF seen
    <3> QED BY <1>1, <2>1, <3>1 DEF Accepted
  <2>3. process' = seen
    BY <1>5, <2>2 DEF ReadStat, Holding
  <2> HIDE DEF seen
  <2> QED BY <1>2, <2>1, <2>3, NoProcIsNone
<1>6. CASE ServiceUnknown \/ OpenFails \/ ReadFails
  <2>1. checked' = 0
    BY <1>6 DEF ServiceUnknown, OpenFails, ReadFails, GiveUp
  <2>2. checked' = Bump(checked) /\ Bump(checked) \in 1..MaxCount
    BY BumpType DEF Lost, Settle, IInv, TypeOK
  <2> QED BY <2>1, <2>2, ThresholdsAssumption
<1> QED BY <1>3, <1>4, <1>5, <1>6 DEF Status, Begin, ServiceStarted, OpenStat, StatTimes

LEMMA SteadyStep ==
  ASSUME "timeout" \notin Glitches
  PROVE  IInv /\ OwnInv /\ SteadyInv /\ [HistoryNext]_historyVars => SteadyInv'
<1> SUFFICES ASSUME IInv, OwnInv, SteadyInv, [HistoryNext]_historyVars PROVE SteadyInv'
  OBVIOUS
<1>0. /\ checked \in 0..MaxCount /\ success \in 0..MaxCount /\ MaxCount \in Nat
      /\ age \in Nat /\ (mainPid = NoPid => age = 0)
  BY Numbers, ThresholdsAssumption DEF IInv, TypeOK, SteadyInv
<1>1. CASE HistoryNext /\ Machine
  BY <1>1, MachineKeepsSteady
<1>2. CASE HistoryNext /\ Status
  <2>0. UNCHANGED machine
    BY <1>2, StepOfACall
  <2>1. CASE pc' # "idle" /\ UNCHANGED results
    BY <1>2, <2>0, <2>1, ProbeKeepsSteady
  <2>2. ASSUME pc # "idle", pc' = "idle"
        PROVE  age' = IF mainPid = NoPid THEN 0 ELSE Count(age)
    BY <1>2, <2>0, <2>2 DEF HistoryNext, Records, Returns, machine
  <2>3. CASE pc # "idle" /\ pc' = "idle" /\ Lost
    <3>1. success' = 0 /\ process' = NoProc /\ report' = Verdict(Tallies')
      BY <2>3, LostCounts
    <3>2. checked' = Bump(checked)
      BY <2>3 DEF Lost, Settle
    <3>3. checked' <= 1 \/ age' <= 1
      <4>1. CASE Steady
        <5>1. checked = 0
          BY <1>2, <2>3, <4>1, NoLossInTheSteadyState
        <5> QED BY <1>0, <3>2, <5>1 DEF Bump
      <4>2. CASE ~Steady
        <5>1. mainPid = NoPid \/ age = 0
          BY <1>0, <4>2 DEF Steady
        <5> QED BY <1>0, <2>2, <2>3, <5>1, Numbers
      <4> QED BY <4>1, <4>2
    <3>4. success' + 1 >= checked' \/ success' + 1 >= age'
      <4>1. checked' \in Nat /\ age' \in Nat
        BY <1>0, <2>2, <2>3, <3>2, Numbers DEF Bump
      <4> QED BY <3>1, <3>3, <4>1
    <3> QED BY <2>0, <2>2, <2>3, <3>1, <3>4 DEF SteadyInv, machine
  <2>4. CASE pc # "idle" /\ pc' = "idle" /\ GiveUp
    BY <2>0, <2>2, <2>4 DEF GiveUp, SteadyInv, machine
  <2>5. ASSUME pc # "idle", pc' = "idle", NEW seen \in Proc, Holding(seen), Found(seen)
        PROVE  SteadyInv'
    <3>1. /\ success' = Bump(success) /\ process' = seen /\ report' = Verdict(Tallies')
          /\ failed' = failed \/ failed' = 0
      BY <2>5, HoldingCounts
    <3>2. checked' = Bump(checked) /\ (success' >= ResetCount => failed' = 0)
      <4>1. /\ checked' = Bump(checked)
            /\ failed' = IF failed > 0 /\ Bump(success) >= ResetCount THEN 0 ELSE failed
        BY <2>5 DEF Holding, Settle
      <4>2. failed \in Nat
        BY Numbers
      <4> QED BY <3>1, <4>1, <4>2
    <3>3. seen # NoProc /\ mainPid # NoPid /\ Alive'
      BY <2>0, <2>5, <3>1, FoundIsUp DEF Alive, Found, machine
    <3>4. age' = Count(age)
      BY <2>2, <2>5, <3>3
    <3>5. failed' = 0 \/ success' + 1 >= checked' \/ success' + 1 >= age'
      <4>1. failed = 0 \/ success + 1 >= checked \/ success + 1 >= age
        BY DEF SteadyInv
      <4>2. CASE success = MaxCount
        BY <1>0, <3>1, <3>2, <4>2 DEF Bump
      <4>3. CASE success # MaxCount
        <5>1. success' = success + 1 /\ checked' <= checked + 1 /\ age' <= age + 1
              /\ checked' \in Nat /\ age' \in Nat
          BY <1>0, <3>1, <3>2, <3>4, <4>3, Numbers DEF Bump
        <5> QED BY <1>0, <3>1, <4>1, <5>1
      <4> QED BY <4>2, <4>3
    <3> QED BY <2>0, <2>5, <3>1, <3>2, <3>3, <3>5 DEF SteadyInv, machine
  <2> QED BY <1>2, <2>1, <2>3, <2>4, <2>5, StepOfACall
<1>3. CASE UNCHANGED historyVars
  BY <1>3 DEF historyVars, vars, machine, results, probe, record, SteadyInv, Steady, Alive,
     Tallies, Verdict
<1> QED BY <1>1, <1>2, <1>3 DEF HistoryNext, Next

LEMMA PastInit == SystemHistoryInit => PastInv
<1> SUFFICES ASSUME SystemHistoryInit PROVE PastInv
  OBVIOUS
<1>1. HistoryInit /\ Init /\ loop = "pause"
  BY DEF SystemHistoryInit, SystemInit, HistoryInit
<1>2. OwnInv
  BY <1>1, OwnInit
<1>3. OutageInv /\ CrashInv
  BY <1>1, NumbersOfAFreshStart DEF HistoryInit, Init, OutageInv, CrashInv, Alive
<1>4. SteadyInv /\ CallInv
  BY <1>1 DEF HistoryInit, Init, SteadyInv, Steady, Alive, CallInv
<1> QED BY <1>2, <1>3, <1>4 DEF PastInv

LEMMA OwnPast ==
  IInv /\ OwnInv /\ [SystemHistoryNext]_systemHistoryVars => OwnInv'
<1>1. ASSUME IInv, OwnInv, Restart, RecordsAfresh PROVE OwnInv'
  BY <1>1, FreshStart DEF PastInv
<1>2. UNCHANGED systemHistoryVars => UNCHANGED historyVars
  BY DEF systemHistoryVars, systemVars, historyVars
<1> QED BY <1>1, <1>2, OwnStep, StepOfTheService

LEMMA OutagePast ==
  IInv /\ OwnInv /\ OutageInv /\ [SystemHistoryNext]_systemHistoryVars => OutageInv'
<1>1. ASSUME IInv, OwnInv, Restart, RecordsAfresh PROVE OutageInv'
  BY <1>1, FreshStart DEF PastInv
<1>2. UNCHANGED systemHistoryVars => UNCHANGED historyVars
  BY DEF systemHistoryVars, systemVars, historyVars
<1> QED BY <1>1, <1>2, OutageStep, StepOfTheService

LEMMA CrashPast ==
  ASSUME ResetCount \in 1..MaxCount, ResetCount <= MaxCalls
  PROVE  IInv /\ OwnInv /\ CrashInv /\ [SystemHistoryNext]_systemHistoryVars => CrashInv'
<1>1. ASSUME IInv, OwnInv, Restart, RecordsAfresh PROVE CrashInv'
  BY <1>1, FreshStart DEF PastInv
<1>2. UNCHANGED systemHistoryVars => UNCHANGED historyVars
  BY DEF systemHistoryVars, systemVars, historyVars
<1> QED BY <1>1, <1>2, CrashStep, StepOfTheService

LEMMA SteadyPast ==
  ASSUME "timeout" \notin Glitches
  PROVE  IInv /\ OwnInv /\ SteadyInv /\ [SystemHistoryNext]_systemHistoryVars => SteadyInv'
<1>1. ASSUME IInv, OwnInv, Restart, RecordsAfresh PROVE SteadyInv'
  BY <1>1, FreshStart DEF PastInv
<1>2. UNCHANGED systemHistoryVars => UNCHANGED historyVars
  BY DEF systemHistoryVars, systemVars, historyVars
<1> QED BY <1>1, <1>2, SteadyStep, StepOfTheService

(* The addresses dealt with so far *)

LEMMA BeforeFirst == Before(1) = {}
<1>1. DOMAIN IPs = 1 .. Len(IPs)
  BY SystemAssumption
<1> QED BY <1>1 DEF Before

LEMMA BeforeMore ==
  ASSUME NEW i \in DOMAIN IPs
  PROVE  Before(i + 1) = Before(i) \cup {IPs[i]}
<1>1. DOMAIN IPs = 1 .. Len(IPs) /\ Len(IPs) \in Nat
  BY SystemAssumption
<1>2. {k \in DOMAIN IPs : k < i + 1} = {k \in DOMAIN IPs : k < i} \cup {i}
  BY <1>1
<1> QED BY <1>2 DEF Before

LEMMA BeforeAll == Before(Len(IPs) + 1) = D!Configured
<1>1. DOMAIN IPs = 1 .. Len(IPs) /\ Len(IPs) \in Nat
  BY SystemAssumption
<1>2. {k \in DOMAIN IPs : k < Len(IPs) + 1} = DOMAIN IPs
  BY <1>1
<1> QED BY <1>2 DEF Before, D!Configured

LEMMA NotBefore ==
  ASSUME Distinct, NEW i \in DOMAIN IPs
  PROVE  IPs[i] \notin Before(i)
<1>1. DOMAIN IPs = 1 .. Len(IPs)
  BY SystemAssumption
<1> QED BY <1>1 DEF Distinct, Before

\* An ip command that has its effect brings the daemon to the next address or,
\* after the last one, to the command.
LEMMA NextAddress ==
  ASSUME loop = "addrs", next \in DOMAIN IPs, D!NextAddr(FALSE), ~errs
  PROVE  /\ ~errs' /\ UNCHANGED <<step, direction>>
         /\ \/ loop' = "addrs" /\ next' = next + 1 /\ next' \in DOMAIN IPs /\ listed' = listed
            \/ loop' = "command" /\ Before(next + 1) = D!Configured
<1>1. DOMAIN IPs = 1 .. Len(IPs) /\ Len(IPs) \in Nat
  BY SystemAssumption
<1>2. CASE next = Len(IPs)
  BY <1>2, BeforeAll DEF D!NextAddr, D!AddrsDone, D!round
<1>3. CASE next # Len(IPs)
  <2>1. /\ next' = next + 1 /\ listed' = listed /\ ~errs' /\ loop' = loop
        /\ UNCHANGED <<step, direction>>
    BY <1>3, Zenon DEF D!NextAddr, D!round
  <2>2. next + 1 \in DOMAIN IPs
    BY <1>1, <1>3
  <2> QED BY <2>1, <2>2
<1> QED BY <1>2, <1>3

LEMMA AddrsInit == SystemInit => AddrsInv
  BY DEF SystemInit, Init, AddrsInv

LEMMA AddrsStep ==
  ASSUME Distinct
  PROVE  SystemInv /\ AddrsInv /\ [SystemNext]_systemVars => AddrsInv'
<1> SUFFICES ASSUME SystemInv, AddrsInv, [SystemNext]_systemVars PROVE AddrsInv'
  OBVIOUS
<1>0. LoopInv
  BY DEF SystemInv
<1>1. CASE MachineStep
  <2>1. UNCHANGED <<daemon, report>>
    BY <1>1, StepOfTheMachine DEF MachineStep, SystemInv, results
  <2> QED BY <2>1 DEF AddrsInv, daemon, Clear
<1>2. CASE Check
  <2>1. UNCHANGED <<direction, errs, iface>> /\ loop = "check" /\ loop' \in {"check", "decide"}
    BY <1>2 DEF Check
  <2>2. step = "collecting" /\ successes = 0
    BY <1>0, <2>1 DEF LoopInv
  <2>3. loop' = "decide" => (step' = "error" <=> report' = "error")
                            /\ (successes' = 1 <=> report' = "success")
    BY <1>2, <2>2 DEF Check
  <2> QED BY <2>1, <2>3 DEF AddrsInv, Clear
<1>3. CASE Act
  <2>0. report' = report
    BY <1>3 DEF Act, vars, results
  <2>1. CASE D!Wake
    BY <2>0, <2>1 DEF D!Wake, D!netconf, AddrsInv, Clear
  <2>2. CASE D!Decide
    <3>1. /\ loop = "decide" /\ UNCHANGED <<errs, iface>>
          /\ step' = IF successes = 1 THEN "success" ELSE step
      BY <2>2, OneChecker DEF D!Decide, D!netconf
    <3>2. step \in {"collecting", "error"}
      BY <1>0, <3>1 DEF LoopInv
    <3>3. /\ step' = "error" <=> report = "error"
          /\ step' = "success" <=> report = "success"
      BY <3>1, <3>2 DEF AddrsInv
    <3>4. CASE step' # direction /\ step' \in {"error", "success"}
      <4>1. direction' = step' /\ loop' = IF IPs = <<>> THEN "command" ELSE "list"
        BY <2>2, <3>4 DEF D!Decide
      <4>2. IPs = <<>> => D!Configured = {}
        BY DEF D!Configured
      <4> QED BY <2>0, <3>1, <3>3, <3>4, <4>1, <4>2 DEF AddrsInv, Clear
    <3>5. CASE ~(step' # direction /\ step' \in {"error", "success"})
      <4>1. loop' = "pause" /\ direction' = direction
        BY <2>2, <3>5 DEF D!Decide
      <4> QED BY <2>0, <3>1, <3>3, <3>5, <4>1 DEF AddrsInv, Clear
    <3> QED BY <3>4, <3>5
  <2>3. CASE D!ListAddrs
    <3>1. /\ loop = "list" /\ loop' = "addrs" /\ listed' = iface /\ next' = 1
          /\ UNCHANGED <<step, direction, errs, iface>>
      BY <2>3 DEF D!ListAddrs, D!round
    <3>2. 1 \in DOMAIN IPs
      BY <3>1, SystemAssumption DEF AddrsInv
    <3> QED BY <2>0, <3>1, <3>2, BeforeFirst DEF AddrsInv
  <2>4. CASE D!AddAddr \/ D!DelAddr
    <3>1. /\ loop = "addrs" /\ next \in DOMAIN IPs /\ ~errs
          /\ step \in {"success", "error"} /\ direction = step /\ report = step
      BY <2>4 DEF D!AddAddr, D!DelAddr, AddrsInv
    <3>2. /\ IPs[next] \notin Before(next)
          /\ Before(next + 1) = Before(next) \cup {IPs[next]}
      BY <3>1, BeforeMore, NotBefore
    <3>3. /\ D!NextAddr(FALSE)
          /\ step = "success" => iface' = listed \cup Before(next + 1)
          /\ step = "error" => iface' = listed \ Before(next + 1)
      <4>1. CASE D!AddAddr
        <5>1. step = "success" /\ iface = listed \cup Before(next)
          BY <4>1, <3>1 DEF D!AddAddr, AddrsInv
        <5>2. CASE IPs[next] \in listed
          BY <3>2, <4>1, <5>1, <5>2 DEF D!AddAddr
        <5>3. CASE IPs[next] \notin listed
          <6>1. IPs[next] \notin iface
            BY <3>2, <5>1, <5>3
          <6>2. iface' = iface \cup {IPs[next]} /\ D!NextAddr(IPs[next] \in iface)
            BY <4>1, <5>3 DEF D!AddAddr
          <6>3. D!NextAddr(FALSE)
            BY <6>1, <6>2 DEF D!NextAddr
          <6> QED BY <3>2, <5>1, <6>2, <6>3
        <5> QED BY <5>2, <5>3
      <4>2. CASE D!DelAddr
        <5>1. step = "error" /\ iface = listed \ Before(next)
          BY <4>2, <3>1 DEF D!DelAddr, AddrsInv
        <5>2. CASE IPs[next] \notin listed
          BY <3>2, <4>2, <5>1, <5>2 DEF D!DelAddr
        <5>3. CASE IPs[next] \in listed
          <6>1. IPs[next] \in iface
            BY <3>2, <5>1, <5>3
          <6>2. iface' = iface \ {IPs[next]} /\ D!NextAddr(IPs[next] \notin iface)
            BY <4>2, <5>3 DEF D!DelAddr
          <6>3. D!NextAddr(FALSE)
            BY <6>1, <6>2 DEF D!NextAddr
          <6> QED BY <3>2, <5>1, <6>2, <6>3
        <5> QED BY <5>2, <5>3
      <4> QED BY <2>4, <4>1, <4>2
    <3>4. CASE loop' = "addrs" /\ next' = next + 1 /\ next' \in DOMAIN IPs /\ listed' = listed
      BY <2>0, <3>1, <3>3, <3>4, NextAddress DEF AddrsInv
    <3>5. CASE loop' = "command" /\ Before(next + 1) = D!Configured
      BY <2>0, <3>1, <3>3, <3>5, NextAddress DEF AddrsInv, Clear
    <3> QED BY <3>1, <3>3, <3>4, <3>5, NextAddress
  <2>5. CASE D!RunCommand
    BY <2>0, <2>5 DEF D!RunCommand, D!round, D!netconf, AddrsInv, Clear
  <2> QED BY <1>3, <2>1, <2>2, <2>3, <2>4, <2>5 DEF Act
<1>4. CASE StopStep \/ CancelStep
  <2>1. UNCHANGED <<loop, next, step, successes, direction, listed, errs, iface, report>>
    BY <1>4 DEF StopStep, CancelStep, vars, results, D!Stop, D!Cancel, D!round, D!netconf
  <2> QED BY <2>1 DEF AddrsInv, Clear
<1>5. CASE Restart
  <2>1. report' = "collecting" /\ loop' = "pause" /\ direction' = "collecting" /\ ~errs'
    BY <1>5 DEF Restart, D!Restart
  <2> QED BY <2>1 DEF AddrsInv
<1>6. CASE UNCHANGED systemVars
  <2>1. UNCHANGED <<loop, next, step, successes, direction, listed, errs, iface, report>>
    BY <1>6 DEF systemVars, vars, results, daemon
  <2> QED BY <2>1 DEF AddrsInv, Clear
<1> QED BY <1>1, <1>2, <1>3, <1>4, <1>5, <1>6 DEF SystemNext

-----------------------------------------------------------------------------

LEMMA SystemHistoryRefines ==
  /\ SystemHistoryInit => SystemInit
  /\ [SystemHistoryNext]_systemHistoryVars => [SystemNext]_systemVars
  BY DEF SystemHistoryInit, SystemHistoryNext, SystemNext, systemHistoryVars

LEMMA SystemHistoryInvHolds == SystemHistorySpec => []SystemInv
<1>1. SystemHistoryInit => SystemInv
  BY SystemHistoryRefines, SystemInvInit
<1>2. SystemInv /\ [SystemHistoryNext]_systemHistoryVars => SystemInv'
  BY SystemHistoryRefines, SystemInvStep
<1> QED BY <1>1, <1>2, PTL DEF SystemHistorySpec

LEMMA OwnPastHolds == SystemHistorySpec => [](SystemInv /\ IInv /\ OwnInv /\ CallInv)
<1>1. SystemHistoryInit => OwnInv /\ CallInv
  BY PastInit DEF PastInv
<1>2. SystemInv => IInv
  BY DEF SystemInv
<1>3. SystemInv /\ CallInv /\ [SystemHistoryNext]_systemHistoryVars => CallInv'
  BY SystemHistoryRefines, CallStep
<1> QED BY <1>1, <1>2, <1>3, OwnPast, SystemHistoryInvHolds, PTL DEF SystemHistorySpec

LEMMA AddrsHold ==
  ASSUME Distinct PROVE SystemHistorySpec => []AddrsInv
<1>1. SystemHistoryInit => AddrsInv
  BY SystemHistoryRefines, AddrsInit
<1>2. SystemInv /\ AddrsInv /\ [SystemHistoryNext]_systemHistoryVars => AddrsInv'
  BY SystemHistoryRefines, AddrsStep
<1> QED BY <1>1, <1>2, OwnPastHolds, PTL DEF SystemHistorySpec

\* A unit that was down for fail_count calls, or none of whose processes has
\* lived through reset_count of the last fail_count * reset_count ones, has no
\* address left once the round is over (service.go:194-281, main.go:294-313).
THEOREM SystemTroubleClears ==
  ASSUME Distinct, FailCount \in 1..MaxCount, ResetCount \in 1..MaxCount
  PROVE  SystemHistorySpec => []TroubleClears
<1>1. SystemHistoryInit => OutageInv /\ CrashInv
  BY PastInit DEF PastInv
<1>2. SystemHistorySpec => []OutageReported
  <2>1. IInv /\ OwnInv /\ OutageInv => OutageReported
    BY OutageMeansError
  <2> QED BY <1>1, <2>1, OutagePast, OwnPastHolds, PTL DEF SystemHistorySpec
<1>3. SystemHistorySpec => []CrashLoopReported
  <2>1. CASE ResetCount <= MaxCalls
    <3>1. IInv /\ OwnInv /\ CrashInv => CrashLoopReported
      BY CrashLoopMeansError
    <3> QED BY <1>1, <2>1, <3>1, CrashPast, OwnPastHolds, PTL DEF SystemHistorySpec
  <2>2. CASE ~(ResetCount <= MaxCalls)
    <3>1. IInv /\ OwnInv => CrashLoopReported
      BY <2>2, ShortRecord
    <3> QED BY <3>1, OwnPastHolds, PTL
  <2> QED BY <2>1, <2>2
<1>4. CallInv /\ AddrsInv /\ OutageReported /\ CrashLoopReported => TroubleClears
  BY DEF CallInv, AddrsInv, OutageReported, CrashLoopReported, TroubleClears
<1> QED BY <1>2, <1>3, <1>4, OwnPastHolds, AddrsHold, PTL

\* A unit whose process has lived through more than reset_count calls, as many
\* of which could be made, has all its addresses once the round is over, when
\* systemctl answers in time (service.go:189-252, 262-281, main.go:323-345).
THEOREM SystemSteadyConfigures ==
  ASSUME Distinct, "timeout" \notin Glitches, ResetCount \in Nat \ {0}
  PROVE  SystemHistorySpec => []SteadyConfigures
<1>1. SystemHistoryInit => SteadyInv
  BY PastInit DEF PastInv
<1>2. IInv /\ OwnInv /\ SteadyInv /\ CallInv /\ AddrsInv => SteadyConfigures
  <2> SUFFICES ASSUME IInv, OwnInv, SteadyInv, AddrsInv, loop = "pause", checked >= CheckCount,
                      age > ResetCount, checked > ResetCount
               PROVE  Content
    BY DEF SteadyConfigures
  <2>1. /\ failed \in Nat /\ success \in Nat /\ age \in Nat /\ checked \in Nat /\ ResetCount \in Nat
        /\ ResetCount >= 1
    BY Numbers DEF IInv, TypeOK
  <2>2. failed = 0
    BY <2>1 DEF SteadyInv
  <2>3. Verdict(Tallies) = "success"
    BY <2>1, <2>2, ThresholdsAssumption DEF Verdict, Tallies
  <2>4. report = "success"
    BY <2>1, <2>3 DEF SteadyInv
  <2> QED BY <2>4 DEF AddrsInv, Content
<1> QED BY <1>1, <1>2, SteadyPast, OwnPastHolds, AddrsHold, PTL DEF SystemHistorySpec
=============================================================================
