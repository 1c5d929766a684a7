--------------------------- MODULE RelaymonProofs ---------------------------
(***************************************************************************)
(* What is true of the daemon (Relaymon.tla) for every number of services, *)
(* list of addresses and thresholds, and of its changes of direction       *)
(* (RelaymonHistory.tla).  Each theorem says which faults it rules out.    *)
(***************************************************************************)
EXTENDS RelaymonHistory, TLAPS

LEMMA ChecksType == Checks \in Nat \ {0}
  BY RelaymonAssumption DEF Checks

LEMMA AddressType == \A i \in DOMAIN IPs : IPs[i] \in Addrs
  BY RelaymonAssumption

LEMMA CountersType ==
  ASSUME NEW c \in Counters
  PROVE  Passed(c) \in Counters /\ Failing(c) \in Counters /\ Fresh \in Counters
<1>1. \A n \in 0..MaxCount : Bump(n) \in 0..MaxCount
  BY ThresholdsAssumption DEF Bump
<1> QED BY <1>1, ThresholdsAssumption DEF Counters, Passed, Failing, Fresh

LEMMA VerdictType == \A c : Verdict(c) \in States
  BY DEF Verdict, States

-----------------------------------------------------------------------------
(* The types, and how a round is kept count of *)

\* The checkers that have had their turn in the round that step is about.
Done == IF pc = "check" THEN 1 .. next - 1 ELSE Checkers

\* step is "error" exactly when one of them reported an error.
StepTells == step = "error" <=> \E c \in Done : reports[c] = "error"

\* Only when all of them reported success is the count of successes complete.
Tally ==
  pc \in {"check", "decide"} =>
    /\ step # "success"
    /\ LET n == IF pc = "check" THEN next - 1 ELSE Checks
       IN  /\ successes \in 0 .. n
           /\ successes = n => \A c \in Done : reports[c] = "success"

RoundInv == TypeOK /\ StepTells /\ Tally /\ ActsForAReason

\* What Returned, the common end of every check, does to the invariant.
LEMMA ReturnedKeepsRound ==
  ASSUME RoundInv, pc = "check", NEW new \in Counters, NEW rep \in States,
         Returned(new, rep)
  PROVE  RoundInv'
<1>0. /\ next \in 1 .. Checks /\ Checks \in Nat \ {0}
      /\ reports \in [Checkers -> States] /\ counters \in [Checkers -> Counters]
  BY ChecksType DEF RoundInv, TypeOK, Checkers
<1>1. /\ counters' \in [Checkers -> Counters]
      /\ reports' \in [Checkers -> States]
      /\ reports' = [reports EXCEPT ![next] = rep]
  BY <1>0 DEF Returned
<1>2. /\ step \in {"collecting", "error"}
      /\ step = "error" <=> \E c \in 1 .. next - 1 : reports[c] = "error"
      /\ successes \in 0 .. next - 1
      /\ successes = next - 1 => \A c \in 1 .. next - 1 : reports[c] = "success"
  BY DEF RoundInv, TypeOK, StepTells, Tally, Done
<1>3. /\ step' \in {"collecting", "error"}
      /\ step' = "error" <=> \E c \in 1 .. next : reports'[c] = "error"
  <2>1. \A c \in 1 .. next - 1 : reports'[c] = reports[c]
    BY <1>0, <1>1 DEF Checkers
  <2>2. reports'[next] = rep
    BY <1>0, <1>1 DEF Checkers
  <2>3. \A c \in 1 .. next : c = next \/ c \in 1 .. next - 1
    BY <1>0
  <2>4. \A c \in 1 .. next - 1 : c \in 1 .. next
    BY <1>0
  <2>5. next \in 1 .. next
    BY <1>0
  <2> QED BY <1>2, <2>1, <2>2, <2>3, <2>4, <2>5 DEF Returned
<1>4. /\ successes' \in 0 .. next
      /\ successes' = next => \A c \in 1 .. next : reports'[c] = "success"
  BY <1>0, <1>1, <1>2 DEF Returned, Checkers
<1>5. CASE next = Checks
  <2>1. pc' = "decide" /\ next' = 0 /\ Done' = 1 .. next
    BY <1>5 DEF Returned, Done, Checkers
  <2>2. TypeOK'
    BY <1>0, <1>1, <1>3, <1>4, <1>5, <2>1
    DEF RoundInv, TypeOK, Returned, ControlPoints, Checkers, netconf, signals
  <2> QED
    BY <1>3, <1>4, <1>5, <2>1, <2>2 DEF RoundInv, StepTells, Tally, ActsForAReason, Acting
<1>6. CASE next # Checks
  <2>1. pc' = "check" /\ next' = next + 1 /\ next' \in Checkers /\ Done' = 1 .. next
    BY <1>0, <1>6 DEF Returned, Done, Checkers
  <2>2. TypeOK'
    BY <1>0, <1>1, <1>3, <1>4, <1>6, <2>1
    DEF RoundInv, TypeOK, Returned, ControlPoints, Checkers, netconf, signals
  <2>3. next' - 1 = next
    BY <1>0, <2>1
  <2> QED
    BY <1>3, <1>4, <2>1, <2>2, <2>3 DEF RoundInv, StepTells, Tally, ActsForAReason, Acting
<1> QED BY <1>5, <1>6

\* What AddrsDone and NextAddr, the ends of every step of netconf, do to it.
LEMMA AddrsDoneKeepsRound ==
  ASSUME RoundInv, pc \in {"list", "addrs"}, NEW failed \in BOOLEAN,
         AddrsDone(failed), iface' \subseteq Addrs, UNCHANGED <<checks, round, signals>>
  PROVE  RoundInv'
  BY DEF RoundInv, TypeOK, StepTells, Tally, ActsForAReason, Acting, Done, AddrsDone,
         checks, round, signals, ControlPoints

LEMMA NextAddrKeepsRound ==
  ASSUME RoundInv, pc = "addrs", NEW failed \in BOOLEAN, NextAddr(failed),
         iface' \subseteq Addrs
  PROVE  RoundInv'
<1>1. CASE next = Len(IPs)
  <2>1. errs \/ failed \in BOOLEAN
    BY DEF RoundInv, TypeOK
  <2> QED BY <1>1, <2>1, AddrsDoneKeepsRound DEF NextAddr
<1>2. CASE next # Len(IPs)
  <2>1. next \in 1 .. Len(IPs) /\ DOMAIN IPs = 1 .. Len(IPs) /\ Len(IPs) \in Nat
    BY RelaymonAssumption DEF RoundInv, TypeOK
  <2>2. next' = next + 1
    BY <1>2 DEF NextAddr
  <2>3. next' \in DOMAIN IPs /\ next' \in Nat
    <3>1. \A n \in Nat : \A i \in 1 .. n : i # n => i + 1 \in 1 .. n /\ i + 1 \in Nat
      OBVIOUS
    <3>2. next + 1 \in 1 .. Len(IPs) /\ next + 1 \in Nat
      BY <1>2, <2>1, <3>1
    <3> QED BY <2>1, <2>2, <3>2
  <2> QED
    BY <1>2, <2>3 DEF NextAddr, RoundInv, TypeOK, StepTells, Tally, ActsForAReason,
                      Acting, Done, checks, round, signals, ControlPoints
<1> QED BY <1>1, <1>2

LEMMA RoundStep == RoundInv /\ [Next]_vars => RoundInv'
<1> SUFFICES ASSUME RoundInv, [Next]_vars PROVE RoundInv'
  OBVIOUS
<1> USE DEF RoundInv
<1>0. TypeOK
  OBVIOUS
<1>1. CASE Wake
  <2>1. CASE running
    <3>1. 1 \in Checkers /\ 1 .. 1 - 1 = {}
      BY ChecksType DEF Checkers
    <3>2. pc' = "check" /\ next' = 1 /\ step' = "collecting" /\ successes' = 0 /\ Done' = {}
      BY <1>1, <2>1, <3>1 DEF Wake, Done
    <3>3. TypeOK'
      BY <1>0, <1>1, <3>1, <3>2, ChecksType
      DEF Wake, TypeOK, checks, netconf, signals, ControlPoints
    <3> QED BY <3>2, <3>3 DEF StepTells, Tally, ActsForAReason, Acting
  <2>2. CASE ~running
    BY <1>0, <1>1, <2>2 DEF Wake, TypeOK, StepTells, Tally, ActsForAReason, Acting, Done,
       checks, round, netconf, signals, ControlPoints
  <2> QED BY <2>1, <2>2
<1>2. CASE CheckPasses \/ CheckFails \/ CheckGivesUp
  <2>1. pc = "check" /\ next \in Checkers /\ counters[next] \in Counters
    BY <1>0, <1>2 DEF CheckPasses, CheckFails, CheckGivesUp, TypeOK
  <2>2. PICK new \in Counters, rep \in States : Returned(new, rep)
    <3>1. CASE CheckPasses
      BY <2>1, <3>1, CountersType, VerdictType DEF CheckPasses
    <3>2. CASE CheckFails
      BY <2>1, <3>2, CountersType, VerdictType DEF CheckFails
    <3>3. CASE CheckGivesUp
      BY <2>1, <3>3, CountersType DEF CheckGivesUp, States
    <3> QED BY <1>2, <3>1, <3>2, <3>3
  <2> QED BY <2>1, <2>2, ReturnedKeepsRound
<1>3. CASE Decide
  <2>1. pc = "decide" /\ Done = Checkers /\ successes \in Nat /\ UNCHANGED <<checks, successes>>
    BY <1>0, <1>3 DEF Decide, Done, TypeOK
  <2>2. pc' \in {"pause", "command", "list"} /\ Done' = Checkers
    BY <1>3 DEF Decide, Done
  <2>3. CASE successes = Checks
    <3>1. step' = "success" /\ \A c \in Checkers : reports[c] = "success"
      BY <1>3, <2>1, <2>3 DEF Decide, Tally
    <3> QED
      BY <1>0, <1>3, <2>1, <2>2, <3>1
      DEF Decide, TypeOK, StepTells, Tally, ActsForAReason, Acting, checks, netconf, signals,
          ControlPoints
  <2>4. CASE successes # Checks
    <3>1. step' = step /\ step \in {"collecting", "error"}
      BY <1>0, <1>3, <2>1, <2>4 DEF Decide, Tally, TypeOK
    <3> QED
      BY <1>0, <1>3, <2>1, <2>2, <3>1
      DEF Decide, TypeOK, StepTells, Tally, ActsForAReason, Acting, checks, netconf, signals,
          ControlPoints
  <2> QED BY <2>3, <2>4
<1>4. CASE ListAddrs
  <2>1. 1 \in DOMAIN IPs
    BY <1>0, <1>4, RelaymonAssumption DEF ListAddrs, TypeOK
  <2> QED
    BY <1>0, <1>4, <2>1
    DEF ListAddrs, TypeOK, StepTells, Tally, ActsForAReason, Acting, Done, checks, round,
        signals, ControlPoints
<1>5. CASE ListFails
  BY <1>0, <1>5, AddrsDoneKeepsRound DEF ListFails, TypeOK
<1>6. CASE AddAddr \/ AddFails \/ DelAddr \/ DelFails
  <2>0. pc = "addrs"
    BY <1>6 DEF AddAddr, AddFails, DelAddr, DelFails
  <2>1. IPs[next] \in Addrs
    BY <1>0, <2>0, AddressType DEF TypeOK
  <2>2. iface' \subseteq Addrs
    BY <1>0, <1>6, <2>1 DEF AddAddr, AddFails, DelAddr, DelFails, TypeOK
  <2>3. PICK failed \in BOOLEAN : NextAddr(failed)
    <3>1. \A x, y : (x \in y) \in BOOLEAN /\ (x \notin y) \in BOOLEAN
      OBVIOUS
    <3>2. CASE AddAddr
      <4>1. CASE IPs[next] \in listed
        BY <3>2, <4>1 DEF AddAddr
      <4>2. CASE IPs[next] \notin listed
        <5>1. NextAddr(IPs[next] \in iface)
          BY <3>2, <4>2 DEF AddAddr
        <5> WITNESS (IPs[next] \in iface) \in BOOLEAN
        <5> QED BY <5>1
      <4> QED BY <4>1, <4>2
    <3>3. CASE DelAddr
      BY <3>1, <3>3 DEF DelAddr
    <3>4. CASE AddFails \/ DelFails
      BY <3>4 DEF AddFails, DelFails
    <3> QED BY <1>6, <3>2, <3>3, <3>4
  <2> QED BY <2>0, <2>1, <2>2, <2>3, NextAddrKeepsRound
<1>7. CASE RunCommand \/ CommandFails
  BY <1>0, <1>7 DEF RunCommand, CommandFails, TypeOK, StepTells, Tally, ActsForAReason, Acting,
     Done, checks, round, netconf, signals, ControlPoints
<1>8. CASE Stop \/ Cancel \/ ForeignAdd \/ ForeignDel
  <2>1. UNCHANGED <<pc, checks, next, round, status, netconf>>
    BY <1>8 DEF Stop, Cancel, ForeignAdd, ForeignDel
  <2>2. iface' \subseteq Addrs /\ cancelled' \in BOOLEAN /\ running' \in BOOLEAN
    BY <1>0, <1>8 DEF Stop, Cancel, ForeignAdd, ForeignDel, TypeOK, signals
  <2> QED
    BY <1>0, <2>1, <2>2 DEF TypeOK, StepTells, Tally, ActsForAReason, Acting, Done, checks,
       round, netconf
<1>9. CASE Restart
  <2>1. Fresh \in Counters
    BY ThresholdsAssumption DEF Fresh, Counters
  <2>2. /\ counters' \in [Checkers -> Counters] /\ reports' \in [Checkers -> States]
        /\ next' \in Nat /\ successes' \in 0 .. Checks
    BY <1>9, <2>1, ChecksType DEF Restart, States
  <2>3. TypeOK'
    BY <1>0, <1>9, <2>2 DEF Restart, TypeOK, ControlPoints
  <2> QED
    BY <1>9, <2>3 DEF Restart, StepTells, Tally, ActsForAReason, Acting, Done
<1>10. CASE UNCHANGED vars
  BY <1>0, <1>10 DEF vars, TypeOK, StepTells, Tally, ActsForAReason, Acting, Done, checks, round,
     netconf, signals
<1> QED BY <1>1, <1>2, <1>3, <1>4, <1>5, <1>6, <1>7, <1>8, <1>9, <1>10 DEF Next, Loop

LEMMA RoundInit == Init => RoundInv
<1> SUFFICES ASSUME Init PROVE RoundInv
  OBVIOUS
<1>1. Fresh \in Counters
  BY ThresholdsAssumption DEF Fresh, Counters
<1>2. /\ counters \in [Checkers -> Counters] /\ reports \in [Checkers -> States]
      /\ next \in Nat /\ successes \in 0 .. Checks
  BY <1>1, ChecksType DEF Init, States
<1>3. TypeOK
  BY <1>2 DEF Init, TypeOK, ControlPoints
<1> QED BY <1>3 DEF Init, RoundInv, StepTells, Tally, ActsForAReason, Acting, Done

LEMMA RoundHolds == Spec => []RoundInv
  BY RoundInit, RoundStep, PTL DEF Spec

\* The state of the daemon keeps its type; among others, the checker or the
\* address whose turn it is always exists.
THEOREM RelaymonTypeOK == Spec => []TypeOK
<1>1. RoundInv => TypeOK
  BY DEF RoundInv
<1> QED BY <1>1, RoundHolds, PTL

\* The daemon acts only in a round with a reason, for every number of services,
\* whatever goes wrong (main.go:249-300, 323).
THEOREM RelaymonActsForAReason == Spec => []ActsForAReason
<1>1. RoundInv => ActsForAReason
  BY DEF RoundInv
<1> QED BY <1>1, RoundHolds, PTL

-----------------------------------------------------------------------------
(* Success means that all addresses are configured *)

\* On the way up every address before the next one is configured, or an error
\* was noted; what was listed is still there.
UpInv ==
  /\ pc \in {"list", "addrs"} => status = step
  /\ pc = "command" /\ status = "success" => step = "success" /\ Configured \subseteq iface
  /\ pc = "addrs" /\ step = "success" =>
       /\ listed \subseteq iface
       /\ ~errs => \A i \in 1 .. next - 1 : IPs[i] \in iface
  /\ SuccessMeansConfigured

LEMMA NoIPsNothingConfigured == IPs = <<>> => Configured = {}
  BY RelaymonAssumption DEF Configured

LEMMA AddKeepsUp ==
  ASSUME RoundInv, UpInv, pc = "addrs", step = "success", NEW failed \in BOOLEAN,
         NextAddr(failed), iface \subseteq iface',
         failed \/ IPs[next] \in iface'
  PROVE  UpInv'
<1>1. next \in 1 .. Len(IPs) /\ DOMAIN IPs = 1 .. Len(IPs) /\ Len(IPs) \in Nat
  BY RelaymonAssumption DEF RoundInv, TypeOK
<1>2. /\ status = "success" /\ listed \subseteq iface
      /\ ~errs => \A i \in 1 .. next - 1 : IPs[i] \in iface
  BY DEF UpInv
<1>3. ~errs /\ ~failed => \A i \in 1 .. next : IPs[i] \in iface'
  BY <1>1, <1>2
<1>4. step' = step
  BY DEF NextAddr, round
<1>5. CASE next = Len(IPs)
  <2>1. pc' = "command" /\ status' = IF errs \/ failed THEN "error" ELSE status
    BY <1>5 DEF NextAddr, AddrsDone
  <2>2. status' = "success" => Configured \subseteq iface'
    BY <1>1, <1>3, <1>5, <2>1 DEF Configured
  <2> QED BY <1>4, <2>1, <2>2 DEF UpInv, SuccessMeansConfigured, Acting, Configured
<1>6. CASE next # Len(IPs)
  <2>1. next' = next + 1 /\ errs' = (errs \/ failed) /\ UNCHANGED <<pc, status, listed>>
    BY <1>6 DEF NextAddr
  <2>2. next' - 1 = next
    BY <1>1, <2>1
  <2> QED BY <1>2, <1>3, <1>4, <2>1, <2>2 DEF UpInv, SuccessMeansConfigured, Acting
<1> QED BY <1>5, <1>6

LEMMA UpStep ==
  ASSUME "foreignDel" \notin Faults, RoundInv, UpInv, [Next]_vars
  PROVE  UpInv'
<1>0. TypeOK
  BY DEF RoundInv
<1> USE DEF UpInv, SuccessMeansConfigured, Acting, Configured
<1>1. CASE Wake
  BY <1>1 DEF Wake, checks, round, netconf, signals
<1>2. CASE CheckPasses \/ CheckFails \/ CheckGivesUp
  <2>1. PICK new, rep : Returned(new, rep)
    BY <1>2 DEF CheckPasses, CheckFails, CheckGivesUp
  <2>2. pc = "check" /\ pc' \in {"check", "decide"} /\ UNCHANGED <<status, iface>>
    BY <1>2, <2>1 DEF Returned, CheckPasses, CheckFails, CheckGivesUp
  <2> QED BY <2>2
<1>3. CASE Decide
  <2>1. CASE pc' = "pause"
    BY <1>3, <2>1 DEF Decide
  <2>2. CASE pc' # "pause"
    BY <1>3, <2>2, NoIPsNothingConfigured DEF Decide
  <2> QED BY <2>1, <2>2
<1>4. CASE ListAddrs
  <2>1. pc' = "addrs" /\ next' = 1 /\ listed' = iface /\ UNCHANGED <<status, step, iface>>
    BY <1>4 DEF ListAddrs, round
  <2>2. 1 .. next' - 1 = {}
    BY <2>1
  <2> QED BY <1>4, <2>1, <2>2 DEF ListAddrs
<1>5. CASE ListFails
  BY <1>5 DEF ListFails, AddrsDone, round
<1>6. CASE AddAddr
  <2>1. CASE IPs[next] \in listed
    <3>1. NextAddr(FALSE) /\ iface' = iface /\ pc = "addrs" /\ step = "success"
      BY <1>6, <2>1 DEF AddAddr
    <3> QED BY <2>1, <3>1, AddKeepsUp
  <2>2. CASE IPs[next] \notin listed
    <3>1. NextAddr(IPs[next] \in iface)
      BY <1>6, <2>2 DEF AddAddr
    <3>2. iface' = iface \cup {IPs[next]} /\ pc = "addrs" /\ step = "success"
      BY <1>6, <2>2 DEF AddAddr
    <3>3. PICK failed \in BOOLEAN : NextAddr(failed)
      <4> WITNESS (IPs[next] \in iface) \in BOOLEAN
      <4> QED BY <3>1
    <3>4. IPs[next] \in iface' /\ iface \subseteq iface'
      BY <3>2
    <3> HIDE DEF UpInv
    <3> QED BY <3>2, <3>3, <3>4, AddKeepsUp
  <2> QED BY <2>1, <2>2
<1>7. CASE AddFails
  <2>1. NextAddr(TRUE) /\ iface \subseteq iface' /\ pc = "addrs" /\ step = "success"
    BY <1>7 DEF AddFails
  <2> HIDE DEF UpInv
  <2> QED BY <2>1, AddKeepsUp
<1>8. CASE DelAddr \/ DelFails
  <2>1. pc = "addrs" /\ step = "error" /\ status = "error" /\ step' = "error"
    BY <1>8 DEF DelAddr, DelFails, NextAddr, round
  <2>2. PICK failed \in BOOLEAN : NextAddr(failed)
    <3>1. CASE DelFails
      BY <3>1 DEF DelFails
    <3>2. CASE DelAddr
      <4>1. NextAddr(FALSE) \/ NextAddr(IPs[next] \notin iface)
        BY <3>2 DEF DelAddr
      <4>2. CASE NextAddr(IPs[next] \notin iface)
        <5> WITNESS (IPs[next] \notin iface) \in BOOLEAN
        <5> QED BY <4>2
      <4> QED BY <4>1, <4>2
    <3> QED BY <1>8, <3>1, <3>2
  <2>3. status' = "error" /\ pc' \in {"addrs", "command"}
    BY <2>1, <2>2 DEF NextAddr, AddrsDone
  <2> QED BY <2>1, <2>3
<1>9. CASE RunCommand \/ CommandFails
  BY <1>9 DEF RunCommand, CommandFails, round
<1>10. CASE Stop \/ Cancel \/ ForeignAdd
  BY <1>10 DEF Stop, Cancel, ForeignAdd, round, netconf
<1>11. CASE ForeignDel
  BY <1>11 DEF ForeignDel
<1>12. CASE Restart
  BY <1>12 DEF Restart
<1>13. CASE UNCHANGED vars
  BY <1>13 DEF vars, round, netconf
<1> QED BY <1>1, <1>2, <1>3, <1>4, <1>5, <1>6, <1>7, <1>8, <1>9, <1>10, <1>11, <1>12, <1>13
        DEF Next, Loop

\* A daemon that is content has all its addresses up, however many there are
\* and whatever failed on the way, unless somebody else removes one
\* (main.go:323-346, linuxnet.go:90-107).
THEOREM RelaymonSuccessMeansConfigured ==
  ASSUME "foreignDel" \notin Faults
  PROVE  Spec => []SuccessMeansConfigured
<1>1. Init => UpInv
  BY DEF Init, UpInv, SuccessMeansConfigured
<1>2. RoundInv /\ UpInv /\ [Next]_vars => UpInv'
  BY UpStep
<1>3. UpInv => SuccessMeansConfigured
  BY DEF UpInv
<1> QED BY <1>1, <1>2, <1>3, RoundHolds, PTL DEF Spec

-----------------------------------------------------------------------------
(* An error means that no address is configured *)

\* On the way down no address before the next one is configured and what is
\* left was listed; on the way up nothing fails, so that "error" is the state
\* of a daemon that went down.
DownInv ==
  /\ pc # "addrs" => ~errs
  /\ pc \in {"list", "addrs", "command"} => status = step
  /\ pc = "pause" /\ step = "error" => status = "error"
  /\ pc \in {"pause", "check", "decide", "command"} /\ status = "error" =>
       Configured \cap iface = {}
  /\ pc = "addrs" /\ step = "error" =>
       iface \subseteq listed /\ \A i \in 1 .. next - 1 : IPs[i] \notin iface
  /\ pc = "addrs" /\ step = "success" =>
       ~errs /\ \A i \in next .. Len(IPs) : IPs[i] \in iface => IPs[i] \in listed

Quiet == Faults \subseteq {"unknown", "foreignDel", "restart"}
Distinct == \A i, j \in DOMAIN IPs : IPs[i] = IPs[j] => i = j

LEMMA AddKeepsDown ==
  ASSUME Distinct, RoundInv, DownInv, AddAddr
  PROVE  DownInv'
<1>0. /\ pc = "addrs" /\ step = "success" /\ status = "success" /\ step' = "success"
      /\ ~errs
      /\ \A i \in next .. Len(IPs) : IPs[i] \in iface => IPs[i] \in listed
  BY DEF AddAddr, NextAddr, round, DownInv
<1>1. next \in 1 .. Len(IPs) /\ DOMAIN IPs = 1 .. Len(IPs) /\ Len(IPs) \in Nat
  BY <1>0, RelaymonAssumption DEF RoundInv, TypeOK
<1>2. IPs[next] \in iface => IPs[next] \in listed
  BY <1>0, <1>1
<1>3. NextAddr(FALSE) /\ iface' \subseteq iface \cup {IPs[next]}
  <2>1. CASE IPs[next] \in listed
    BY <2>1 DEF AddAddr
  <2>2. CASE IPs[next] \notin listed
    <3>1. NextAddr(IPs[next] \in iface) /\ iface' = iface \cup {IPs[next]}
      BY <2>2 DEF AddAddr
    <3>2. (IPs[next] \in iface) = FALSE
      BY <1>2, <2>2
    <3> QED BY <3>1, <3>2
  <2> QED BY <2>1, <2>2
<1>4. CASE next = Len(IPs)
  BY <1>0, <1>3, <1>4 DEF NextAddr, AddrsDone, DownInv
<1>5. CASE next # Len(IPs)
  <2>1. /\ next' = next + 1 /\ ~errs'
        /\ pc' = pc /\ status' = status /\ listed' = listed
    BY <1>0, <1>3, <1>5 DEF NextAddr
  <2>2. \A i \in next' .. Len(IPs) : IPs[i] \in iface' => IPs[i] \in listed'
    <3> SUFFICES ASSUME NEW i \in next + 1 .. Len(IPs), IPs[i] \in iface'
                 PROVE  IPs[i] \in listed
      BY <2>1
    <3>1. i \in next .. Len(IPs) /\ i \in DOMAIN IPs /\ next \in DOMAIN IPs /\ i # next
      BY <1>1
    <3>2. IPs[i] # IPs[next]
      BY <3>1 DEF Distinct
    <3> QED BY <1>0, <1>3, <3>1, <3>2
  <2> QED BY <1>0, <2>1, <2>2 DEF DownInv
<1> QED BY <1>4, <1>5

LEMMA DelKeepsDown ==
  ASSUME RoundInv, DownInv, DelAddr
  PROVE  DownInv'
<1>0. /\ pc = "addrs" /\ step = "error" /\ status = "error" /\ step' = "error"
      /\ iface \subseteq listed /\ \A i \in 1 .. next - 1 : IPs[i] \notin iface
  BY DEF DelAddr, NextAddr, round, DownInv
<1>1. next \in 1 .. Len(IPs) /\ DOMAIN IPs = 1 .. Len(IPs) /\ Len(IPs) \in Nat
  BY <1>0, RelaymonAssumption DEF RoundInv, TypeOK
<1>2. iface' \subseteq iface /\ IPs[next] \notin iface'
  BY <1>0 DEF DelAddr
<1>3. \A i \in 1 .. next : IPs[i] \notin iface'
  BY <1>0, <1>1, <1>2
<1>4. NextAddr(FALSE) \/ NextAddr(IPs[next] \notin iface)
  BY DEF DelAddr
<1>5. CASE next = Len(IPs)
  <2>1. pc' = "command" /\ status' = "error" /\ ~errs'
    BY <1>0, <1>4, <1>5 DEF NextAddr, AddrsDone
  <2>2. Configured' \cap iface' = {}
    BY <1>1, <1>3, <1>5 DEF Configured
  <2> QED BY <1>0, <2>1, <2>2 DEF DownInv
<1>6. CASE next # Len(IPs)
  <2>1. next' = next + 1 /\ pc' = pc /\ status' = status /\ listed' = listed
    BY <1>4, <1>6 DEF NextAddr
  <2>2. next' - 1 = next
    BY <1>1, <2>1
  <2> QED BY <1>0, <1>2, <1>3, <2>1, <2>2 DEF DownInv
<1> QED BY <1>5, <1>6

LEMMA DownStep ==
  ASSUME Quiet, Distinct, RoundInv, DownInv, [Next]_vars
  PROVE  DownInv'
<1> USE DEF DownInv, Configured
<1>1. CASE Wake
  BY <1>1 DEF Wake, checks, round, netconf, signals
<1>2. CASE CheckPasses \/ CheckFails \/ CheckGivesUp
  <2>1. PICK new, rep : Returned(new, rep)
    BY <1>2 DEF CheckPasses, CheckFails, CheckGivesUp
  <2>2. pc = "check" /\ pc' \in {"check", "decide"} /\ UNCHANGED <<status, iface, errs>>
    BY <1>2, <2>1 DEF Returned, netconf, CheckPasses, CheckFails, CheckGivesUp
  <2> QED BY <2>2
<1>3. CASE Decide
  <2>1. CASE step' = status \/ step' \notin {"error", "success"}
    BY <1>3, <2>1 DEF Decide, netconf
  <2>2. CASE step' # status /\ step' \in {"error", "success"}
    BY <1>3, <2>2, NoIPsNothingConfigured DEF Decide, netconf
  <2> QED BY <2>1, <2>2
<1>4. CASE ListAddrs
  <2>1. /\ pc' = "addrs" /\ next' = 1 /\ listed' = iface /\ pc = "list"
        /\ UNCHANGED <<status, step, iface, errs>>
    BY <1>4 DEF ListAddrs, round
  <2>2. 1 .. next' - 1 = {}
    BY <2>1
  <2> QED BY <2>1, <2>2
<1>5. CASE AddAddr
  BY <1>5, AddKeepsDown
<1>6. CASE DelAddr
  BY <1>6, DelKeepsDown
<1>7. CASE RunCommand
  BY <1>7 DEF RunCommand, round, netconf
<1>8. CASE ListFails \/ AddFails \/ DelFails \/ CommandFails \/ ForeignAdd
  BY <1>8 DEF Quiet, ListFails, AddFails, DelFails, CommandFails, ForeignAdd
<1>9. CASE Stop \/ Cancel \/ ForeignDel
  <2>1. UNCHANGED <<pc, next, step, status, listed, errs>> /\ iface' \subseteq iface
    BY <1>9 DEF Stop, Cancel, ForeignDel, round, netconf
  <2> QED BY <2>1
<1>10. CASE Restart
  BY <1>10 DEF Restart
<1>11. CASE UNCHANGED vars
  BY <1>11 DEF vars, round, netconf
<1> QED BY <1>1, <1>2, <1>3, <1>4, <1>5, <1>6, <1>7, <1>8, <1>9, <1>10, <1>11 DEF Next, Loop

\* After a round with an error no address is configured, whatever an earlier
\* run or a signal left behind, when no command fails, nobody adds an address
\* and none is listed twice (main.go:298-322, linuxnet.go:110-129).
THEOREM RelaymonDownWhenUnhealthy ==
  ASSUME Quiet, Distinct
  PROVE  Spec => []DownWhenUnhealthy
<1>1. Init => DownInv
  BY DEF Init, DownInv
<1>2. RoundInv /\ DownInv /\ [Next]_vars => DownInv'
  BY DownStep
<1>3. RoundInv /\ DownInv => DownWhenUnhealthy
  BY DEF RoundInv, StepTells, Done, DownInv, DownWhenUnhealthy
<1> QED BY <1>1, <1>2, <1>3, RoundHolds, PTL DEF Spec

-----------------------------------------------------------------------------
(* What the rest of the host sees of the daemon *)

LEMMA HostStep == RoundInv /\ [Next]_vars => [H!Next]_(H!host)
<1> SUFFICES ASSUME RoundInv, [Next]_vars PROVE [H!Next]_(H!host)
  OBVIOUS
<1> DEFINE alive == pc # "stopped"
<1>0. /\ UNCHANGED iface /\ alive' = alive => UNCHANGED H!host
      /\ UNCHANGED iface /\ alive /\ alive' = FALSE => H!DaemonEnds
      /\ UNCHANGED iface /\ ~alive /\ alive' = TRUE => H!DaemonStarts
  BY DEF H!host, H!DaemonEnds, H!DaemonStarts
<1>1. CASE Wake
  <2>1. UNCHANGED iface /\ alive /\ alive' \in BOOLEAN
    BY <1>1 DEF Wake
  <2> QED BY <1>0, <2>1 DEF H!Next
<1>2. CASE CheckPasses \/ CheckFails \/ CheckGivesUp \/ Decide \/ ListAddrs \/ ListFails
           \/ RunCommand \/ CommandFails \/ Stop \/ Cancel
  <2>1. UNCHANGED iface /\ alive' = alive
    BY <1>2 DEF CheckPasses, CheckFails, CheckGivesUp, Decide, ListAddrs, ListFails, RunCommand,
       CommandFails, Stop, Cancel, Returned, AddrsDone
  <2> QED BY <1>0, <2>1
<1>3. CASE AddAddr \/ AddFails \/ DelAddr \/ DelFails
  <2> DEFINE a == IPs[next]
  <2>1. pc = "addrs" /\ (iface' = iface \/ iface' = iface \cup {a} \/ iface' = iface \ {a})
    BY <1>3 DEF AddAddr, AddFails, DelAddr, DelFails
  <2>2. pc' \in {"addrs", "command"}
    BY <1>3, <2>1 DEF AddAddr, AddFails, DelAddr, DelFails, NextAddr, AddrsDone
  <2>3. a \in H!Own
    BY <2>1 DEF RoundInv, TypeOK, H!Own
  <2>4. alive /\ alive' = alive
    BY <2>1, <2>2
  <2> QED BY <1>0, <2>1, <2>3, <2>4 DEF H!Next, H!Configures
<1>4. CASE ForeignAdd
  BY <1>4 DEF ForeignAdd, H!Next, H!OthersAdd
<1>5. CASE ForeignDel
  <2>1. PICK a \in iface : iface' = iface \ {a}
    BY <1>5 DEF ForeignDel
  <2>2. a \in Addrs
    BY <2>1 DEF RoundInv, TypeOK
  <2> QED BY <1>5, <2>1, <2>2 DEF ForeignDel, H!Next, H!OthersRemove
<1>6. CASE Restart
  <2>1. UNCHANGED iface /\ alive' = TRUE /\ alive \in BOOLEAN
    BY <1>6 DEF Restart
  <2> QED BY <1>0, <2>1 DEF H!Next
<1>7. CASE UNCHANGED vars
  BY <1>0, <1>7 DEF vars
<1> QED BY <1>1, <1>2, <1>3, <1>4, <1>5, <1>6, <1>7 DEF Next, Loop

\* The daemon is what Host.tla says of it, for any addresses and whatever
\* fails: what the proofs about the host's tools assume of it
\* (main.go:298-362, linuxnet.go:90-129).
THEOREM RelaymonImplementsHost == Spec => ImplementsHost
<1>1. Init => H!Init
  BY DEF Init, H!Init
<1> QED BY <1>1, HostStep, RoundHolds, PTL DEF Spec, ImplementsHost, H!Spec

-----------------------------------------------------------------------------
(***************************************************************************)
(* The changes of direction.  What the counters of the checkers can have   *)
(* come to is bounded by the rounds since the last change.                 *)
(***************************************************************************)

\* 1 when the checker has been checked in the round that is not counted yet.
Turn(c) == IF pc = "decide" \/ (pc = "check" /\ c < next) THEN 1 ELSE 0

\* A report is the verdict of counters that have counted something.
ReportsFollow ==
  \A c \in Checkers :
    \/ counters[c].checked > 0 /\ reports[c] = Verdict(counters[c])
    \/ counters[c] = Fresh /\ reports[c] \in {"collecting", "unknown"}

\* After going up, a failure a round at most.
UpCount ==
  went = "up" =>
    rounds = MaxRounds \/ \A c \in Checkers : counters[c].failed <= rounds + Turn(c)

\* While no checker has lost its counters since the daemon went up, a daemon
\* that is content has seen no error but in the round under way, and that one
\* is fresh.
Sober ==
  wasUp =>
    /\ \A c \in Checkers : counters[c].checked > 0 /\ counters[c].checked >= CheckCount
    /\ status # "collecting"
    /\ status = "success" =>
         /\ pc = "pause" => \A c \in Checkers : reports[c] # "error"
         /\ pc \in {"check", "decide"} =>
              \A c \in Checkers : reports[c] = "error" =>
                Turn(c) = 1 /\ counters[c].success = 0 /\ counters[c].failed > 0
         /\ Acting => step = "success"

\* After going down, a success a round at most for one that has to recover.
DownCount ==
  went = "down" /\ wasUp =>
    \/ rounds = MaxRounds
    \/ \E c \in Checkers :
         \/ rounds + Turn(c) >= ResetCount
         \/ counters[c].failed > 0 /\ counters[c].success <= rounds + Turn(c)

RecordInv ==
  /\ rounds \in 0 .. MaxRounds /\ wasUp \in BOOLEAN
  /\ ReportsFollow /\ UpCount /\ Sober /\ DownCount

\* What one more result does to counters.
LEMMA PassedCounts ==
  ASSUME NEW c \in Counters
  PROVE  /\ Passed(c).checked > 0 /\ Passed(c).checked >= c.checked
         /\ Passed(c).checked \in Nat /\ Passed(c).failed \in Nat /\ Passed(c).success \in Nat
         /\ Passed(c).success <= c.success + 1
         /\ Passed(c).failed \in {0, c.failed} /\ Passed(c).failed <= c.failed + 1
         /\ Passed(c).success < ResetCount => Passed(c).failed = c.failed
  BY ThresholdsAssumption DEF Passed, Bump, Counters

LEMMA FailingCounts ==
  ASSUME NEW c \in Counters
  PROVE  /\ Failing(c).checked > 0 /\ Failing(c).checked >= c.checked
         /\ Failing(c).checked \in Nat /\ Failing(c).failed \in Nat
         /\ Failing(c).failed > 0 /\ Failing(c).failed <= c.failed + 1
         /\ Failing(c).success = 0
  BY ThresholdsAssumption DEF Failing, Bump, Counters

LEMMA VerdictTells ==
  ASSUME NEW c
  PROVE  /\ Verdict(c) = "error" => c.failed # 0 /\ c.failed >= FailCount
         /\ Verdict(c) = "success" => ~(c.checked < CheckCount) /\ c.failed = 0
  BY DEF Verdict

\* A success is no reason for an error that was not there before.
LEMMA NoErrorByPassing ==
  ASSUME NEW c \in Counters, c.checked >= CheckCount, Verdict(Passed(c)) = "error"
  PROVE  Verdict(c) = "error"
<1>1. Passed(c).failed = c.failed /\ c.failed # 0 /\ c.failed >= FailCount
  BY PassedCounts, VerdictTells
<1> QED BY <1>1, ThresholdsAssumption DEF Verdict, Counters

\* A round in which all checkers reported success.
LEMMA AllSuccess ==
  ASSUME RoundInv, ReportsFollow, \A c \in Checkers : reports[c] = "success"
  PROVE  \A c \in Checkers : /\ counters[c].checked > 0 /\ counters[c].checked >= CheckCount
                             /\ counters[c].failed = 0
<1> SUFFICES ASSUME NEW c \in Checkers
             PROVE  /\ counters[c].checked > 0 /\ counters[c].checked >= CheckCount
                    /\ counters[c].failed = 0
  OBVIOUS
<1>1. counters[c].checked > 0 /\ Verdict(counters[c]) = "success" /\ counters[c] \in Counters
  BY DEF ReportsFollow, RoundInv, TypeOK
<1> QED BY <1>1, VerdictTells, ThresholdsAssumption DEF Counters

\* What step amounts to when the round is over.
LEMMA DecideTells ==
  ASSUME RoundInv, ReportsFollow, Decide
  PROVE  /\ pc = "decide" /\ \A c : Turn(c) = 1
         /\ step' = "success" => \A c \in Checkers : reports[c] = "success"
         /\ (\E c \in Checkers : reports[c] = "error") <=> step' = "error"
         /\ pc' \in {"pause", "list", "command"} /\ (\A c : Turn(c)' = 0)
         /\ pc' # "pause" <=> step' # status /\ step' \in {"error", "success"}
         /\ status' = IF pc' # "pause" THEN step' ELSE status
         /\ UNCHANGED <<counters, reports>> /\ ~Forgets
<1>1. pc = "decide" /\ step # "success" /\ Done = Checkers /\ Checkers # {}
  <2>1. Checkers # {}
    BY ChecksType DEF Checkers
  <2> QED BY <2>1 DEF Decide, RoundInv, Tally, Done
<1>2. step' = "success" => \A c \in Checkers : reports[c] = "success"
  BY <1>1 DEF Decide, RoundInv, Tally
<1>3. (\E c \in Checkers : reports[c] = "error") <=> step' = "error"
  <2>1. CASE successes = Checks
    BY <1>1, <2>1 DEF Decide, RoundInv, Tally
  <2>2. CASE successes # Checks
    BY <1>1, <2>2 DEF Decide, RoundInv, StepTells
  <2> QED BY <2>1, <2>2
<1>4. UNCHANGED <<counters, reports>> /\ ~Forgets
  BY DEF Decide, checks, Forgets
<1>5. /\ pc' \in {"pause", "list", "command"}
      /\ pc' # "pause" <=> step' # status /\ step' \in {"error", "success"}
      /\ status' = IF pc' # "pause" THEN step' ELSE status
  BY DEF Decide
<1> QED BY <1>1, <1>2, <1>3, <1>4, <1>5 DEF Turn

\* The steps that are no part of a round of checks.
Aside ==
  \/ Wake \/ ListAddrs \/ ListFails \/ AddAddr \/ AddFails \/ DelAddr \/ DelFails
  \/ RunCommand \/ CommandFails \/ Stop \/ Cancel \/ ForeignAdd \/ ForeignDel

LEMMA AsideKeepsCount ==
  ASSUME RoundInv, RecordInv, HistoryNext, Aside
  PROVE  /\ UNCHANGED <<counters, reports, went, wasUp, rounds>>
         /\ \A c \in Checkers : Turn(c)' = Turn(c)
<1>1. UNCHANGED <<counters, reports>>
  BY DEF Aside, Wake, ListAddrs, ListFails, AddAddr, AddFails, DelAddr, DelFails, RunCommand,
         CommandFails, Stop, Cancel, ForeignAdd, ForeignDel, NextAddr, checks
<1>2. \/ pc = "pause" /\ pc' = "check" /\ next' = 1
      \/ pc = "pause" /\ pc' = "stopped"
      \/ pc \in {"list", "addrs", "command"} /\ pc' \in {"addrs", "command", "pause"}
      \/ pc' = pc /\ next' = next
  BY DEF Aside, Wake, ListAddrs, ListFails, AddAddr, AddFails, DelAddr, DelFails, RunCommand,
         CommandFails, Stop, Cancel, ForeignAdd, ForeignDel, NextAddr, AddrsDone
<1>3. \A c \in Checkers : Turn(c)' = Turn(c)
  <2>1. \A c \in Checkers : ~(c < 1)
    BY ChecksType DEF Checkers
  <2> QED BY <1>2, <2>1 DEF Turn
<1>4. ~Acts /\ ~Rests /\ ~Forgets
  BY <1>1, <1>2 DEF Acts, Rests, Forgets
<1> QED BY <1>1, <1>3, <1>4 DEF HistoryNext, RecordInv

\* Outside of them the daemon stays sober: it acts on a round without errors
\* when it goes up, and is no longer content when something fails.
LEMMA AsideKeepsSober ==
  ASSUME RoundInv, RecordInv, HistoryNext, Aside
  PROVE  Sober'
<1>0. /\ UNCHANGED <<counters, reports, went, wasUp, rounds>>
      /\ \A c \in Checkers : Turn(c)' = Turn(c)
  BY AsideKeepsCount
<1> SUFFICES ASSUME wasUp PROVE Sober'
  BY <1>0 DEF Sober
<1>1. /\ \A c \in Checkers : counters[c].checked > 0 /\ counters[c].checked >= CheckCount
      /\ status # "collecting"
  BY DEF RecordInv, Sober
<1>2. CASE Wake
  BY <1>0, <1>1, <1>2 DEF Wake, RecordInv, Sober, Acting
<1>3. CASE ListAddrs \/ ListFails \/ AddAddr \/ AddFails \/ DelAddr \/ DelFails
  <2>1. /\ Acting /\ pc' \in {"addrs", "command"} /\ step' = step
        /\ status' \in {status, "error"}
    BY <1>3 DEF ListAddrs, ListFails, AddAddr, AddFails, DelAddr, DelFails, NextAddr, AddrsDone,
                Acting, round
  <2> QED BY <1>0, <1>1, <2>1 DEF RecordInv, Sober, Acting
<1>4. CASE RunCommand \/ CommandFails
  <2>1. /\ pc = "command" /\ pc' = "pause" /\ step' = step
        /\ status' = status \/ status' = "error"
    BY <1>4 DEF RunCommand, CommandFails, round
  <2>2. status = "success" => \A c \in Checkers : reports[c] = "success"
    BY <2>1 DEF RecordInv, Sober, RoundInv, ActsForAReason, Acting
  <2> QED BY <1>0, <1>1, <2>1, <2>2 DEF Sober, Acting
<1>5. CASE Stop \/ Cancel \/ ForeignAdd \/ ForeignDel
  <2>1. UNCHANGED <<pc, status, step>>
    BY <1>5 DEF Stop, Cancel, ForeignAdd, ForeignDel, round
  <2> QED BY <1>0, <1>1, <2>1 DEF RecordInv, Sober, Acting
<1> QED BY <1>2, <1>3, <1>4, <1>5 DEF Aside

LEMMA AsideKeepsRecord ==
  ASSUME RoundInv, RecordInv, HistoryNext, Aside
  PROVE  RecordInv'
<1>1. /\ UNCHANGED <<counters, reports, went, wasUp, rounds>>
      /\ \A c \in Checkers : Turn(c)' = Turn(c)
  BY AsideKeepsCount
<1>2. ReportsFollow' /\ UpCount' /\ DownCount'
  BY <1>1 DEF RecordInv, ReportsFollow, UpCount, DownCount
<1> QED BY <1>1, <1>2, AsideKeepsSober DEF RecordInv

LEMMA RecordNumbers ==
  ASSUME RoundInv, RecordInv
  PROVE  /\ rounds \in Nat /\ MaxRounds \in Nat /\ rounds <= MaxRounds
         /\ rounds' = rounds \/ (rounds' = rounds + 1 /\ rounds < MaxRounds) \/ rounds' = 0
              => rounds' \in 0 .. MaxRounds
         /\ \A c \in Checkers : /\ counters[c] \in Counters
                                /\ counters[c].failed \in Nat /\ counters[c].success \in Nat
         /\ \A c : Turn(c) \in {0, 1}
<1>1. \A c \in Checkers : counters[c] \in Counters
  BY DEF RoundInv, TypeOK
<1>2. rounds \in Nat /\ MaxRounds \in Nat /\ rounds <= MaxRounds
  BY HistoryAssumption DEF RecordInv
<1>3. \A c \in Checkers : counters[c].failed \in Nat /\ counters[c].success \in Nat
  BY <1>1, ThresholdsAssumption DEF Counters
<1> QED BY <1>1, <1>2, <1>3 DEF Turn

LEMMA DecideKeepsRecord ==
  ASSUME RoundInv, RecordInv, HistoryNext, Decide
  PROVE  RecordInv'
<1>0. ReportsFollow /\ UpCount /\ Sober /\ DownCount /\ wasUp \in BOOLEAN
  BY DEF RecordInv
<1>1. /\ pc = "decide" /\ (\A c : Turn(c) = 1) /\ (\A c : Turn(c)' = 0)
      /\ UNCHANGED <<counters, reports>> /\ ~Forgets
      /\ pc' \in {"pause", "list", "command"}
      /\ Acts <=> pc' # "pause"
      /\ Rests <=> pc' = "pause"
  BY <1>0, DecideTells DEF Acts, Rests
<1>2. /\ step' = "success" => \A c \in Checkers : reports[c] = "success"
      /\ (\E c \in Checkers : reports[c] = "error") <=> step' = "error"
      /\ pc' # "pause" <=> step' # status /\ step' \in {"error", "success"}
      /\ status' = IF pc' # "pause" THEN step' ELSE status
  BY <1>0, DecideTells
<1>3. ReportsFollow'
  BY <1>0, <1>1 DEF ReportsFollow
<1>4. CASE Rests
  <2>1. /\ went' = went /\ wasUp' = wasUp /\ pc' = "pause"
        /\ rounds' = IF rounds < MaxRounds THEN rounds + 1 ELSE rounds
    BY <1>0, <1>1, <1>4 DEF HistoryNext
  <2>2. rounds' \in 0 .. MaxRounds /\ (rounds' = rounds + 1 \/ rounds' = MaxRounds)
    BY <2>1, RecordNumbers
  <2>3. UpCount'
    BY <1>0, <1>1, <2>1, <2>2, RecordNumbers DEF UpCount
  <2>4. Sober'
    BY <1>0, <1>1, <1>2, <2>1 DEF Sober, Acting
  <2>5. DownCount'
    BY <1>0, <1>1, <2>1, <2>2, RecordNumbers DEF DownCount
  <2> QED BY <1>0, <1>3, <2>1, <2>2, <2>3, <2>4, <2>5 DEF RecordInv
<1>5. CASE Acts /\ step' = "success"
  <2>1. went' = "up" /\ wasUp' = TRUE /\ rounds' = 0 /\ status' = "success" /\ pc' # "pause"
    BY <1>1, <1>2, <1>5 DEF HistoryNext
  <2>2. \A c \in Checkers : /\ counters[c].checked > 0 /\ counters[c].checked >= CheckCount
                            /\ counters[c].failed = 0
    BY <1>0, <1>2, <1>5, AllSuccess
  <2>3. UpCount' /\ DownCount'
    BY <1>1, <2>1, <2>2 DEF UpCount, DownCount
  <2>4. Sober'
    BY <1>1, <1>5, <2>1, <2>2 DEF Sober
  <2>5. rounds' \in 0 .. MaxRounds /\ wasUp' \in BOOLEAN
    BY <2>1, RecordNumbers
  <2> QED BY <1>3, <2>3, <2>4, <2>5 DEF RecordInv
<1>6. CASE Acts /\ step' = "error"
  <2>1. went' = "down" /\ wasUp' = wasUp /\ rounds' = 0 /\ status' = "error" /\ status # "error"
    BY <1>0, <1>1, <1>2, <1>6 DEF HistoryNext
  <2>2. UpCount'
    BY <2>1 DEF UpCount
  <2>3. Sober'
    BY <1>0, <1>1, <2>1 DEF Sober
  <2>4. DownCount'
    <3> SUFFICES ASSUME wasUp
                 PROVE  \E c \in Checkers : counters[c].failed > 0 /\ counters[c].success <= 0
      BY <1>1, <2>1 DEF DownCount
    <3>1. status = "success"
      BY <1>0, <2>1 DEF Sober, RoundInv, TypeOK
    <3>2. PICK c \in Checkers : reports[c] = "error"
      BY <1>2, <1>6
    <3> QED BY <1>0, <1>1, <3>1, <3>2 DEF Sober
  <2>5. rounds' \in 0 .. MaxRounds /\ wasUp' \in BOOLEAN
    BY <1>0, <2>1, RecordNumbers
  <2> QED BY <1>3, <2>2, <2>3, <2>4, <2>5 DEF RecordInv
<1> QED BY <1>1, <1>2, <1>4, <1>5, <1>6

LEMMA RestartKeepsRecord ==
  ASSUME RoundInv, RecordInv, HistoryNext, Restart
  PROVE  RecordInv'
<1>1. \A c \in Checkers : counters'[c] = Fresh /\ reports'[c] = "collecting" /\ Turn(c)' = 0
  BY DEF Restart, Turn
<1>2. /\ ~Acts /\ went' = went
      /\ rounds' = rounds \/ (rounds' = rounds + 1 /\ rounds < MaxRounds)
  BY DEF Restart, Acts, HistoryNext
<1>3. wasUp' = FALSE
  <2>1. CASE wasUp
    <3>1. 1 \in Checkers /\ counters[1].checked > 0
      BY <2>1, ChecksType DEF RecordInv, Sober, Checkers
    <3>2. counters[1] # Fresh /\ counters'[1] = Fresh
      BY <1>1, <3>1 DEF Fresh
    <3>3. Forgets
      BY <3>1, <3>2 DEF Forgets
    <3> QED BY <3>3 DEF HistoryNext
  <2>2. CASE ~wasUp
    BY <1>2, <2>2 DEF HistoryNext
  <2> QED BY <2>1, <2>2
<1>4. rounds' \in 0 .. MaxRounds
  BY <1>2, RecordNumbers
<1>5. UpCount'
  <2>1. Fresh.failed = 0
    BY DEF Fresh
  <2>2. rounds' \in Nat
    BY <1>4
  <2>3. \A n \in Nat : 0 <= n + 0
    OBVIOUS
  <2> QED BY <1>1, <2>1, <2>2, <2>3 DEF UpCount
<1>6. ReportsFollow' /\ Sober' /\ DownCount'
  BY <1>1, <1>3 DEF ReportsFollow, Sober, DownCount
<1> QED BY <1>3, <1>4, <1>5, <1>6 DEF RecordInv

\* What a check returns: its report and its counters.
LEMMA CheckReturns ==
  ASSUME RoundInv, HistoryNext, CheckPasses \/ CheckFails \/ CheckGivesUp
  PROVE  /\ pc = "check" /\ next \in Checkers /\ counters[next] \in Counters
         /\ counters' = [counters EXCEPT ![next] = counters'[next]]
         /\ reports' = [reports EXCEPT ![next] = reports'[next]]
         /\ \/ counters'[next] = Passed(counters[next])
               /\ reports'[next] = Verdict(counters'[next])
            \/ counters'[next] = Failing(counters[next])
               /\ reports'[next] = Verdict(counters'[next])
            \/ counters'[next] = Fresh /\ reports'[next] = "unknown"
         /\ pc' \in {"check", "decide"} /\ status' = status
         /\ \A c \in Checkers : Turn(c)' = IF c = next THEN 1 ELSE Turn(c)
         /\ Turn(next) = 0
         /\ went' = went /\ rounds' = rounds /\ wasUp' = (~Forgets /\ wasUp)
<1>1. /\ pc = "check" /\ next \in Checkers /\ counters[next] \in Counters
      /\ counters \in [Checkers -> Counters] /\ reports \in [Checkers -> States]
      /\ next \in Nat /\ Checkers \subseteq Nat /\ next \in 1 .. Checks
  BY ChecksType DEF RoundInv, TypeOK, CheckPasses, CheckFails, CheckGivesUp, Checkers
<1>2. PICK new, rep :
        /\ Returned(new, rep)
        /\ \/ new = Passed(counters[next]) /\ rep = Verdict(new)
           \/ new = Failing(counters[next]) /\ rep = Verdict(new)
           \/ new = Fresh /\ rep = "unknown"
  BY DEF CheckPasses, CheckFails, CheckGivesUp
<1>3. /\ counters' = [counters EXCEPT ![next] = new] /\ reports' = [reports EXCEPT ![next] = rep]
      /\ pc' \in {"check", "decide"} /\ status' = status
      /\ IF next = Checks THEN pc' = "decide" ELSE pc' = "check" /\ next' = next + 1
  BY <1>1, <1>2 DEF Returned
<1>4. counters'[next] = new /\ reports'[next] = rep
  BY <1>1, <1>3
<1>5. \A c \in Checkers : Turn(c)' = IF c = next THEN 1 ELSE Turn(c)
  <2>1. CASE next = Checks
    BY <1>1, <1>3, <2>1, ChecksType DEF Turn, Checkers
  <2>2. CASE next # Checks
    BY <1>1, <1>3, <2>2 DEF Turn
  <2> QED BY <2>1, <2>2
<1>6. Turn(next) = 0
  BY <1>1 DEF Turn
<1>7. went' = went /\ rounds' = rounds /\ wasUp' = (~Forgets /\ wasUp)
  BY <1>1 DEF HistoryNext, Acts, Rests
<1> QED BY <1>1, <1>2, <1>3, <1>4, <1>5, <1>6, <1>7

LEMMA CheckKeepsSober ==
  ASSUME RoundInv, RecordInv, HistoryNext, CheckPasses \/ CheckFails \/ CheckGivesUp
  PROVE  Sober'
<1> SUFFICES ASSUME wasUp' PROVE Sober'
  BY DEF Sober
<1> DEFINE old == counters[next]
           new == counters'[next]
<1>1. /\ pc = "check" /\ next \in Checkers /\ old \in Counters
      /\ counters' = [counters EXCEPT ![next] = new]
      /\ reports' = [reports EXCEPT ![next] = reports'[next]]
      /\ pc' \in {"check", "decide"} /\ status' = status /\ wasUp /\ ~Forgets
      /\ \A c \in Checkers : Turn(c)' = IF c = next THEN 1 ELSE Turn(c)
      /\ Turn(next) = 0
  BY CheckReturns
<1>2. /\ \A c \in Checkers : counters[c].checked > 0 /\ counters[c].checked >= CheckCount
      /\ status # "collecting"
      /\ status = "success" =>
           \A c \in Checkers : reports[c] = "error" =>
             Turn(c) = 1 /\ counters[c].success = 0 /\ counters[c].failed > 0
  BY <1>1 DEF RecordInv, Sober
<1>3. /\ new = Passed(old) \/ new = Failing(old)
      /\ reports'[next] = Verdict(new)
  <2>1. old # Fresh
    <3>1. old.checked > 0
      BY <1>1, <1>2
    <3> QED BY <3>1 DEF Fresh
  <2>2. new # Fresh
    BY <1>1, <2>1 DEF Forgets
  <2> QED BY <2>2, CheckReturns
<1>4. new.checked > 0 /\ new.checked >= CheckCount
  <2>1. old.checked \in Nat /\ old.checked >= CheckCount
    BY <1>1, <1>2 DEF Counters
  <2>2. new.checked \in Nat /\ new.checked > 0 /\ new.checked >= old.checked
    BY <1>1, <1>3, PassedCounts, FailingCounts
  <2> QED BY <2>1, <2>2, ThresholdsAssumption
<1>5. ASSUME status = "success", reports'[next] = "error"
      PROVE  new.success = 0 /\ new.failed > 0
  <2>1. CASE new = Failing(old)
    BY <1>1, <2>1, FailingCounts
  <2>2. CASE new = Passed(old)
    <3>1. Verdict(old) = "error"
      BY <1>1, <1>2, <1>3, <1>5, <2>2, NoErrorByPassing
    <3>2. reports[next] = "error"
      <4>1. old.checked > 0
        BY <1>1, <1>2
      <4>2. old # Fresh
        BY <4>1 DEF Fresh
      <4> QED BY <1>1, <3>1, <4>2 DEF RecordInv, ReportsFollow
    <3> QED BY <1>1, <1>2, <1>5, <3>2
  <2> QED BY <1>3, <2>1, <2>2
<1>6. \A c \in Checkers : /\ c # next => counters'[c] = counters[c] /\ reports'[c] = reports[c]
                          /\ c = next => counters'[c] = new
  BY <1>1 DEF RoundInv, TypeOK
<1> HIDE DEF old, new
<1> QED BY <1>1, <1>2, <1>4, <1>5, <1>6 DEF Sober, Acting

LEMMA CheckKeepsRecord ==
  ASSUME RoundInv, RecordInv, HistoryNext, CheckPasses \/ CheckFails \/ CheckGivesUp
  PROVE  RecordInv'
<1> DEFINE old == counters[next]
           new == counters'[next]
<1>1. /\ pc = "check" /\ next \in Checkers /\ old \in Counters
      /\ counters' = [counters EXCEPT ![next] = new]
      /\ reports' = [reports EXCEPT ![next] = reports'[next]]
      /\ \A c \in Checkers : Turn(c)' = IF c = next THEN 1 ELSE Turn(c)
      /\ Turn(next) = 0
      /\ went' = went /\ rounds' = rounds /\ wasUp' = (~Forgets /\ wasUp)
  BY CheckReturns
<1>2. \/ new = Passed(old) /\ reports'[next] = Verdict(new)
      \/ new = Failing(old) /\ reports'[next] = Verdict(new)
      \/ new = Fresh /\ reports'[next] = "unknown"
  BY CheckReturns
<1>3. \A c \in Checkers : c # next => counters'[c] = counters[c] /\ reports'[c] = reports[c]
  BY <1>1 DEF RoundInv, TypeOK
<1>4. old.failed \in Nat /\ old.success \in Nat /\ rounds \in Nat
  BY <1>1, RecordNumbers
<1>5. ReportsFollow'
  <2>1. \/ new.checked > 0 /\ reports'[next] = Verdict(new)
        \/ new = Fresh /\ reports'[next] \in {"collecting", "unknown"}
    BY <1>1, <1>2, PassedCounts, FailingCounts
  <2> HIDE DEF old, new
  <2>2. counters'[next] = new
    BY DEF new
  <2> QED BY <1>3, <2>1, <2>2 DEF RecordInv, ReportsFollow
<1>6. UpCount'
  <2>1. new.failed \in Nat /\ new.failed <= old.failed + 1
    <3>1. Fresh.failed = 0
      BY DEF Fresh
    <3> QED BY <1>1, <1>2, <1>4, <3>1, PassedCounts, FailingCounts
  <2>2. old.failed <= rounds + 0 => new.failed <= rounds + 1
    BY <1>4, <2>1
  <2>3. counters'[next] = new /\ counters[next] = old
    OBVIOUS
  <2> HIDE DEF old, new
  <2> QED BY <1>1, <1>3, <2>2, <2>3 DEF RecordInv, UpCount
<1>7. DownCount'
  <2> SUFFICES ASSUME went = "down", wasUp', rounds # MaxRounds PROVE DownCount'
    BY <1>1 DEF DownCount
  <2>1. wasUp /\ ~Forgets
    BY <1>1
  <2>2. PICK c \in Checkers :
          \/ rounds + Turn(c) >= ResetCount
          \/ counters[c].failed > 0 /\ counters[c].success <= rounds + Turn(c)
    BY <2>1 DEF RecordInv, DownCount
  <2>3. CASE c # next
    BY <1>1, <1>3, <2>2, <2>3 DEF DownCount
  <2>4. CASE c = next
    <3>1. new = Passed(old) \/ new = Failing(old)
      <4>1. old.checked > 0
        BY <1>1, <2>1 DEF RecordInv, Sober
      <4>2. new # Fresh
        BY <1>1, <2>1, <4>1 DEF Forgets, Fresh
      <4> QED BY <1>2, <4>2
    <3>2. \/ rounds + 0 >= ResetCount
          \/ old.failed > 0 /\ old.success <= rounds + 0
      BY <1>1, <2>2, <2>4
    <3>3. \/ rounds + 1 >= ResetCount
          \/ new.failed > 0 /\ new.success <= rounds + 1
      <4>1. CASE rounds + 0 >= ResetCount
        BY <1>4, <4>1, ThresholdsAssumption
      <4>2. CASE new = Failing(old)
        BY <1>1, <1>4, <4>2, FailingCounts
      <4>3. CASE new = Passed(old) /\ old.failed > 0 /\ old.success <= rounds + 0
        <5>1. /\ new.success \in Nat /\ new.success <= rounds + 1
              /\ new.success < ResetCount => new.failed > 0
          BY <1>1, <1>4, <4>3, PassedCounts
        <5> QED BY <1>4, <5>1, ThresholdsAssumption
      <4> QED BY <3>1, <3>2, <4>1, <4>2, <4>3
    <3> QED BY <1>1, <2>4, <3>3 DEF DownCount
  <2> QED BY <2>3, <2>4
<1>8. rounds' \in 0 .. MaxRounds /\ wasUp' \in BOOLEAN
  BY <1>1 DEF RecordInv
<1> QED BY <1>5, <1>6, <1>7, <1>8, CheckKeepsSober DEF RecordInv

LEMMA RecordStep == RoundInv /\ RecordInv /\ [HistoryNext]_historyVars => RecordInv'
<1> SUFFICES ASSUME RoundInv, RecordInv, [HistoryNext]_historyVars PROVE RecordInv'
  OBVIOUS
<1>1. CASE UNCHANGED historyVars
  BY <1>1 DEF historyVars, vars, checks, round, RecordInv, ReportsFollow, UpCount, Sober,
              DownCount, Turn, Acting
<1>2. CASE HistoryNext
  <2>1. Aside \/ Decide \/ Restart \/ CheckPasses \/ CheckFails \/ CheckGivesUp
    BY <1>2 DEF HistoryNext, Next, Loop, Aside
  <2> QED BY <1>2, <2>1, AsideKeepsRecord, DecideKeepsRecord, RestartKeepsRecord, CheckKeepsRecord
<1> QED BY <1>1, <1>2

LEMMA RecordInit == HistoryInit => RecordInv
<1> SUFFICES ASSUME HistoryInit PROVE RecordInv
  OBVIOUS
<1>1. wasUp \in BOOLEAN /\ rounds \in 0 .. MaxRounds
  <2>1. 0 \in 0 .. MaxRounds
    BY HistoryAssumption
  <2> QED BY <2>1 DEF HistoryInit
<1>2. ReportsFollow
  BY DEF HistoryInit, Init, ReportsFollow
<1> QED BY <1>1, <1>2 DEF HistoryInit, RecordInv, UpCount, Sober, DownCount

LEMMA RecordHolds == HistorySpec => [](RoundInv /\ RecordInv)
<1>1. HistoryInit => Init
  BY DEF HistoryInit
<1>2. [HistoryNext]_historyVars => [Next]_vars
  BY DEF HistoryNext, historyVars
<1> QED BY <1>1, <1>2, RoundInit, RoundStep, RecordInit, RecordStep, PTL DEF HistorySpec

\* The daemon changes direction in the decision at the end of a round only.
LEMMA ActsInDecide == ASSUME HistoryNext, Acts PROVE Decide
  BY DEF HistoryNext, Acts, Next, Loop, Wake, CheckPasses, CheckFails, CheckGivesUp, ListAddrs,
         ListFails, AddAddr, AddFails, DelAddr, DelFails, RunCommand, CommandFails, Stop, Cancel,
         ForeignAdd, ForeignDel, Restart

\* Once the daemon went up, it is at least fail_count rounds before it goes
\* down, whichever checkers fail and whatever else goes wrong, when rounds are
\* counted that far (main.go:298-303, service.go:275-278, network.go:239-242).
THEOREM RelaymonUpHolds ==
  ASSUME FailCount <= MaxRounds + 1
  PROVE  HistorySpec => UpHolds
<1>1. RoundInv /\ RecordInv /\ [HistoryNext]_historyVars =>
        [Acts /\ went = "up" /\ step' = "error" => rounds + 1 >= FailCount]_historyVars
  <2> SUFFICES ASSUME RoundInv, RecordInv, HistoryNext, Acts, went = "up", step' = "error"
               PROVE  rounds + 1 >= FailCount
    OBVIOUS
  <2>1. Decide
    BY ActsInDecide
  <2>2. PICK c \in Checkers : reports[c] = "error"
    BY <2>1, DecideTells DEF RecordInv
  <2>3. counters[c].failed >= FailCount
    <3>1. Verdict(counters[c]) = "error"
      BY <2>2 DEF RecordInv, ReportsFollow
    <3> QED BY <3>1, VerdictTells
  <2>4. Turn(c) = 1
    BY <2>1, DecideTells DEF RecordInv
  <2>5. rounds = MaxRounds \/ counters[c].failed <= rounds + 1
    BY <2>4 DEF RecordInv, UpCount
  <2> QED BY <2>3, <2>5, RecordNumbers, ThresholdsAssumption
<1> QED BY <1>1, RecordHolds, PTL DEF HistorySpec, UpHolds

\* Once the daemon went down after it was up, it is at least reset_count rounds
\* before it goes up again, however the failures overlap, when rounds are
\* counted that far (main.go:323-325, service.go:266-268, network.go:226-228).
THEOREM RelaymonDownHolds ==
  ASSUME ResetCount <= MaxRounds + 1
  PROVE  HistorySpec => DownHolds
<1>1. RoundInv /\ RecordInv /\ [HistoryNext]_historyVars =>
        [Acts /\ went = "down" /\ wasUp /\ step' = "success"
           => rounds + 1 >= ResetCount]_historyVars
  <2> SUFFICES ASSUME RoundInv, RecordInv, HistoryNext, Acts, went = "down", wasUp,
                      step' = "success"
               PROVE  rounds + 1 >= ResetCount
    OBVIOUS
  <2>1. Decide
    BY ActsInDecide
  <2>2. \A c \in Checkers : reports[c] = "success" /\ Turn(c) = 1
    BY <2>1, DecideTells DEF RecordInv
  <2>3. \A c \in Checkers : counters[c].failed = 0
    BY <2>2, AllSuccess DEF RecordInv
  <2>4. rounds = MaxRounds \/ rounds + 1 >= ResetCount
    BY <2>2, <2>3 DEF RecordInv, DownCount
  <2> QED BY <2>4, RecordNumbers, ThresholdsAssumption
<1> QED BY <1>1, RecordHolds, PTL DEF HistorySpec, DownHolds
=============================================================================
