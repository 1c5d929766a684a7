---------------------------- MODULE ToolsProofs -----------------------------
(***************************************************************************)
(* What the exit codes of the two tools say, for any addresses and         *)
(* netmasks and whatever the daemon and others do (Tools.tla).             *)
(***************************************************************************)
EXTENDS Tools, TLAPS

LEMMA AddressType == \A i \in DOMAIN IPs : IPs[i] \in Addrs
  BY HostAssumption

LEMMA Addresses ==
  /\ Len(IPs) \in Nat /\ DOMAIN IPs = 1 .. Len(IPs)
  /\ IPs = <<>> => Own = {}
  /\ IPs # <<>> => 1 \in DOMAIN IPs
  BY HostAssumption DEF Own

-----------------------------------------------------------------------------
(* Types *)

\* Each stage of the evicting adds at most one to the exit code.
RcInv ==
  /\ evict = "stop" => rc = 0
  /\ evict \in {"list", "remove"} => rc \in 0 .. 1 /\ IPs # <<>>
  /\ evict = "command" => rc \in 0 .. 2

TypeInv == TypeOK /\ RcInv

LEMMA HostKeepsType ==
  ASSUME iface \subseteq Addrs, alive \in BOOLEAN, Next
  PROVE  iface' \subseteq Addrs /\ alive' \in BOOLEAN
<1>1. CASE Configures
  <2>1. PICK a \in Own : iface' = iface \cup {a} \/ iface' = iface \ {a}
    BY <1>1 DEF Configures
  <2> QED BY <1>1, <2>1, AddressType DEF Configures, Own
<1>2. CASE DaemonEnds \/ DaemonStarts \/ OthersAdd \/ OthersRemove
  BY <1>2 DEF DaemonEnds, DaemonStarts, OthersAdd, OthersRemove
<1> QED BY <1>1, <1>2 DEF Next

LEMMA EvictKeepsType ==
  ASSUME EvictTypeOK, RcInv, EvictStep
  PROVE  /\ iface' \subseteq Addrs /\ alive' \in BOOLEAN
         /\ evict' \in {"stop", "list", "remove", "command", "exited"}
         /\ seen' \subseteq Addrs /\ errs' \in BOOLEAN /\ rc' \in 0 .. 3
         /\ evict' = "remove" => turn' \in DOMAIN IPs
         /\ RcInv'
<1> USE DEF EvictTypeOK, RcInv, host, removal
<1>1. CASE StopDone \/ StopFails
  BY <1>1 DEF StopDone, StopFails, AfterStop
<1>2. CASE ListAddrs
  BY <1>2, Addresses DEF ListAddrs
<1>3. CASE ListFails
  <2>1. evict' = "command" /\ rc' = rc + 1 /\ seen' = {} /\ errs' \in BOOLEAN
    BY <1>3, Zenon DEF ListFails, RemovalDone
  <2>2. rc \in 0 .. 1 /\ UNCHANGED <<iface, alive>>
    BY <1>3 DEF ListFails
  <2> QED BY <2>1, <2>2
<1>4. ASSUME evict = "remove", NEW failed \in BOOLEAN, Removed(failed)
      PROVE  /\ evict' \in {"remove", "command"} /\ seen' \subseteq Addrs
             /\ errs' \in BOOLEAN /\ rc' \in 0 .. 2
             /\ evict' = "remove" => turn' \in DOMAIN IPs /\ rc' \in 0 .. 1
  <2>1. CASE turn = Len(IPs)
    <3>1. RemovalDone(errs \/ failed)
      BY <1>4, <2>1 DEF Removed
    <3>2. evict' = "command" /\ seen' = {} /\ errs' \in BOOLEAN /\ rc' \in {rc, rc + 1}
      BY <3>1, Zenon DEF RemovalDone
    <3>3. rc \in 0 .. 1
      BY <1>4
    <3> QED BY <3>2, <3>3
  <2>2. CASE turn # Len(IPs)
    <3>1. turn + 1 \in DOMAIN IPs
      BY <1>4, <2>2, Addresses
    <3> QED BY <1>4, <2>2, <3>1 DEF Removed
  <2> QED BY <2>1, <2>2
<1>5. CASE DelAddr \/ DelFails
  <2>1. evict = "remove" /\ (iface' = iface \/ iface' = iface \ {IPs[turn]}) /\ UNCHANGED alive
    BY <1>5 DEF DelAddr, DelFails
  <2>2. \E failed \in BOOLEAN : Removed(failed)
    BY <1>5 DEF DelAddr, DelFails
  <2> QED BY <1>4, <2>1, <2>2
<1>6. CASE RunCommand \/ CommandFails
  BY <1>6 DEF RunCommand, CommandFails
<1> QED BY <1>1, <1>2, <1>3, <1>5, <1>6 DEF EvictStep

LEMMA WaitKeepsType ==
  ASSUME WaitTypeOK, WaitStep
  PROVE  /\ wait' \in {"look", "sleep", "exit 0", "exit 1", "exit 2"}
         /\ looked' \in 0 .. Len(IPs) /\ foundAll' \in BOOLEAN
<1>1. CASE Look
  BY <1>1, Addresses DEF Look, Found, WaitTypeOK
<1>2. CASE LookFails \/ PassEnds
  BY <1>2 DEF LookFails, PassEnds, WaitTypeOK
<1>3. CASE Wake
  BY <1>3, Addresses DEF Wake
<1> QED BY <1>1, <1>2, <1>3 DEF WaitStep

LEMMA TypeStep == TypeInv /\ [ToolsNext]_vars => TypeInv'
<1> SUFFICES ASSUME TypeInv, [ToolsNext]_vars PROVE TypeInv'
  OBVIOUS
<1> USE DEF TypeInv, TypeOK
<1>1. CASE UNCHANGED vars
  <2>1. EvictTypeOK' /\ RcInv'
    BY <1>1 DEF vars, EvictTypeOK, RcInv, host, tool, removal
  <2>2. WaitTypeOK'
    BY <1>1 DEF vars, WaitTypeOK, host, tool, removal, waiter, watch
  <2> QED BY <1>1, <2>1, <2>2 DEF vars
<1>2. CASE ToolsNext
  <2>0. undone' \in BOOLEAN
    BY <1>2 DEF ToolsNext, Noted, EvictTypeOK
  <2>1. iface' \subseteq Addrs =>
          lost' \subseteq Addrs /\ came' \subseteq Addrs
    BY <1>2 DEF ToolsNext, Remembered, WaitTypeOK
  <2>2. CASE EvictStep /\ UNCHANGED <<waiter, late>>
    BY <2>0, <2>1, <2>2, EvictKeepsType DEF EvictTypeOK, WaitTypeOK, waiter
  <2>3. CASE WaitStep /\ UNCHANGED <<host, tool, late>>
    BY <2>0, <2>1, <2>3, WaitKeepsType
    DEF EvictTypeOK, WaitTypeOK, RcInv, host, tool, removal
  <2>4. CASE Elapse /\ UNCHANGED <<host, tool>>
    BY <2>0, <2>1, <2>4 DEF Elapse, EvictTypeOK, WaitTypeOK, RcInv, host, tool, removal, waiter
  <2>5. CASE Next /\ UNCHANGED <<tool, waiter, late>>
    BY <2>0, <2>1, <2>5, HostKeepsType
    DEF EvictTypeOK, WaitTypeOK, RcInv, tool, removal, waiter
  <2> QED BY <1>2, <2>2, <2>3, <2>4, <2>5 DEF ToolsNext
<1> QED BY <1>1, <1>2

LEMMA TypeInit == ToolsInit => TypeInv
<1> SUFFICES ASSUME ToolsInit PROVE TypeInv
  OBVIOUS
<1>0. alive \in BOOLEAN /\ errs \in BOOLEAN /\ undone \in BOOLEAN /\ foundAll \in BOOLEAN
      /\ late \in BOOLEAN
  BY Zenon DEF ToolsInit, Init, EvictInit, WaitInit
<1>1. EvictTypeOK /\ RcInv
  BY <1>0 DEF ToolsInit, Init, EvictInit, EvictTypeOK, RcInv
<1>2. WaitTypeOK
  BY <1>0, Addresses DEF ToolsInit, Init, WaitInit, WaitTypeOK
<1> QED BY <1>1, <1>2 DEF TypeInv, TypeOK

\* Host and tools keep their types; the exit code of an evict is 0 to 3.
THEOREM ToolsTypeOK == ToolsSpec => []TypeOK
<1>1. TypeInv => TypeOK
  BY DEF TypeInv
<1> QED BY <1>1, TypeInit, TypeStep, PTL DEF ToolsSpec

-----------------------------------------------------------------------------
(***************************************************************************)
(* Evicting.  As long as nothing went wrong and nobody undid it, the       *)
(* daemon is gone, what was listed includes all that is still there, and   *)
(* the addresses before the one whose turn it is are away.                 *)
(***************************************************************************)
Fine == rc = 0 /\ ~undone

EvictInv ==
  Fine =>
    /\ evict # "stop" => ~alive
    /\ evict = "remove" /\ ~errs =>
         iface \subseteq seen /\ \A i \in 1 .. turn - 1 : IPs[i] \notin iface
    /\ evict \in {"command", "exited"} => Own \cap iface = {}

\* What others do behind an evict that is fine takes addresses away at most.
LEMMA FineStaysQuiet ==
  ASSUME Noted, ~undone', evict # "stop", ~alive
  PROVE  ~undone /\ ~alive' /\ iface' \subseteq iface
  BY DEF Noted

LEMMA EvictInvStep == TypeInv /\ EvictInv /\ [ToolsNext]_vars => EvictInv'
<1> SUFFICES ASSUME TypeInv, EvictInv, [ToolsNext]_vars, Fine'
             PROVE  /\ evict' # "stop" => ~alive'
                    /\ evict' = "remove" /\ ~errs' =>
                         iface' \subseteq seen' /\ \A i \in 1 .. turn' - 1 : IPs[i] \notin iface'
                    /\ evict' \in {"command", "exited"} => Own \cap iface' = {}
  BY DEF EvictInv
<1>0. /\ rc \in Nat /\ errs \in BOOLEAN /\ undone \in BOOLEAN
      /\ evict = "remove" => turn \in DOMAIN IPs /\ IPs # <<>>
  BY DEF TypeInv, TypeOK, EvictTypeOK, RcInv
<1>1. CASE UNCHANGED <<host, tool, undone>>
  BY <1>1 DEF EvictInv, Fine, host, tool, removal
<1>2. CASE ToolsNext /\ UNCHANGED tool
  <2>1. evict # "stop" => ~undone /\ ~alive' /\ iface' \subseteq iface
    BY <1>0, <1>2, FineStaysQuiet DEF ToolsNext, EvictInv, Fine, tool, Noted
  <2> QED BY <1>2, <2>1 DEF EvictInv, Fine, tool, removal
<1>3. CASE ToolsNext /\ EvictStep
  <2>0. UNCHANGED alive /\ Noted /\ ~undone
    BY <1>0, <1>3
    DEF ToolsNext, EvictStep, StopDone, StopFails, ListAddrs, ListFails, DelAddr, DelFails,
        RunCommand, CommandFails, host, Fine, Noted
  <2>1. CASE StopDone
    BY <2>0, <2>1, Addresses DEF StopDone, AfterStop, host
  <2>2. CASE StopFails \/ CommandFails
    BY <1>0, <2>2 DEF StopFails, CommandFails, Fine
  <2>3. CASE ListAddrs
    BY <2>0, <2>3 DEF ListAddrs, EvictInv, Fine, host
  <2>4. CASE ListFails
    BY <1>0, <2>4 DEF ListFails, RemovalDone, Fine
  <2>5. CASE DelAddr \/ DelFails
    <3> DEFINE a == IPs[turn]
    <3>1. /\ evict = "remove" /\ turn \in 1 .. Len(IPs) /\ Len(IPs) \in Nat
          /\ DOMAIN IPs = 1 .. Len(IPs)
      BY <1>0, <2>5, Addresses DEF DelAddr, DelFails
    <3>2. PICK failed \in BOOLEAN :
            /\ Removed(failed)
            /\ failed \/ (a \notin seen /\ iface' = iface) \/ iface' = iface \ {a}
      BY <2>5 DEF DelAddr, DelFails
    <3>3. iface' \subseteq iface
      BY <2>5 DEF DelAddr, DelFails
    <3>4. CASE turn = Len(IPs)
      <4>1. evict' = "command" /\ ~errs /\ ~failed /\ rc = 0
        BY <1>0, <3>2, <3>4 DEF Removed, RemovalDone, Fine
      <4>2. /\ ~alive /\ iface \subseteq seen
            /\ \A i \in 1 .. turn - 1 : IPs[i] \notin iface
        BY <2>0, <3>1, <4>1 DEF EvictInv, Fine
      <4>3. a \notin iface'
        BY <3>2, <4>1, <4>2
      <4>4. \A i \in DOMAIN IPs : IPs[i] \notin iface'
        <5> SUFFICES ASSUME NEW i \in DOMAIN IPs PROVE IPs[i] \notin iface'
          OBVIOUS
        <5>1. i = turn \/ i \in 1 .. turn - 1
          BY <3>1, <3>4
        <5> QED BY <3>3, <4>2, <4>3, <5>1
      <4> QED BY <2>0, <4>1, <4>2, <4>4 DEF Own
    <3>5. CASE turn # Len(IPs)
      <4>1. evict' = "remove" /\ turn' = turn + 1 /\ errs' = (errs \/ failed) /\ seen' = seen
            /\ rc = 0
        BY <1>0, <3>1, <3>2, <3>5 DEF Removed, Fine
      <4>2. ~alive
        BY <2>0, <3>1, <4>1 DEF EvictInv, Fine
      <4>3. ASSUME ~errs' PROVE iface' \subseteq seen' /\ \A i \in 1 .. turn' - 1 : IPs[i] \notin iface'
        <5>1. iface \subseteq seen /\ (\A i \in 1 .. turn - 1 : IPs[i] \notin iface) /\ ~failed
          BY <2>0, <3>1, <4>1, <4>3 DEF EvictInv, Fine
        <5>2. a \notin iface'
          BY <3>2, <5>1
        <5>3. \A i \in 1 .. turn' - 1 : i = turn \/ i \in 1 .. turn - 1
          BY <3>1, <4>1
        <5> QED BY <3>3, <4>1, <5>1, <5>2, <5>3
      <4> QED BY <2>0, <4>1, <4>2, <4>3
    <3> QED BY <3>4, <3>5
  <2>6. CASE RunCommand
    BY <2>0, <2>6 DEF RunCommand, EvictInv, Fine, host
  <2> QED BY <1>3, <2>1, <2>2, <2>3, <2>4, <2>5, <2>6 DEF EvictStep
<1> QED BY <1>1, <1>2, <1>3 DEF ToolsNext, Elapse, vars

LEMMA EvictInvInit == ToolsInit => EvictInv
  BY DEF ToolsInit, EvictInit, EvictInv

\* An evict that exits with zero leaves no daemon and no address behind
\* (main.go:147-180).
THEOREM ToolsEvictedMeansGone == ToolsSpec => []EvictedMeansGone
<1>1. EvictInv => EvictedMeansGone
  BY DEF EvictInv, Fine, EvictedMeansGone
<1> QED BY <1>1, TypeInit, TypeStep, EvictInvInit, EvictInvStep, PTL DEF ToolsSpec

-----------------------------------------------------------------------------
(***************************************************************************)
(* Waiting.  What is said of all addresses at the end of a pass is true of *)
(* those looked for so far.                                                *)
(***************************************************************************)
IsIn(S, a) == \E b \in S : Number[b] = Number[a]
Up == iface \cup lost     \* there during this pass
Gone == iface \ came      \* what must hold an address that never was away

WaitInv ==
  /\ wait = "look" =>
       IF foundAll THEN \A i \in 1 .. looked : IsIn(Up, IPs[i])
                   ELSE \E i \in 1 .. looked : ~IsIn(Gone, IPs[i])
  /\ wait = "exit 0" => \A a \in Own : IsIn(Up, a)
  /\ wait = "exit 1" => \E a \in Own : ~IsIn(Gone, a)

\* Nothing that happens to the interface makes a look in this pass untrue.
LEMMA LooksStayTrue ==
  ASSUME Remembered, wait # "sleep"
  PROVE  Up \subseteq Up' /\ Gone' \subseteq Gone
  BY DEF Remembered, Up, Gone

LEMMA InMore ==
  ASSUME NEW S, NEW T, S \subseteq T, NEW a, IsIn(S, a)
  PROVE  IsIn(T, a)
  BY DEF IsIn

LEMMA WaitInvStep == TypeInv /\ WaitInv /\ [ToolsNext]_vars => WaitInv'
<1> SUFFICES ASSUME TypeInv, WaitInv, [ToolsNext]_vars PROVE WaitInv'
  OBVIOUS
<1>0. looked \in 0 .. Len(IPs) /\ foundAll \in BOOLEAN /\ Len(IPs) \in Nat
  BY Addresses DEF TypeInv, TypeOK, WaitTypeOK
<1>1. CASE UNCHANGED vars
  BY <1>1 DEF WaitInv, Up, Gone, vars, host, waiter, watch
<1>2. CASE ToolsNext /\ wait = "sleep"
  <2>1. wait' = "sleep" \/ (wait' = "look" /\ looked' = 0 /\ foundAll')
    BY <1>2 DEF ToolsNext, WaitStep, Look, LookFails, PassEnds, Wake, Elapse, waiter
  <2>2. wait' = "look" => 1 .. looked' = {}
    BY <2>1
  <2> QED BY <2>1, <2>2 DEF WaitInv
<1>3. CASE ToolsNext /\ wait # "sleep"
  <2>0. Up \subseteq Up' /\ Gone' \subseteq Gone
    BY <1>3, LooksStayTrue DEF ToolsNext
  <2>1. \A a : (IsIn(Up, a) => IsIn(Up', a)) /\ (~IsIn(Gone, a) => ~IsIn(Gone', a))
    BY <2>0, InMore
  <2>2. CASE UNCHANGED waiter
    BY <2>1, <2>2 DEF WaitInv, waiter
  <2>3. CASE Look
    <3> DEFINE n == looked + 1
    <3>1. /\ wait = "look" /\ wait' = "look" /\ looked' = n /\ foundAll' = (foundAll /\ Found(IPs[n]))
      BY <2>3 DEF Look
    <3>2. 1 .. looked' = (1 .. looked) \cup {n} /\ n \in 1 .. looked'
      BY <1>0, <3>1
    <3>3. Found(IPs[n]) <=> IsIn(iface, IPs[n])
      BY DEF Found, IsIn
    <3>4. CASE foundAll /\ Found(IPs[n])
      <4>1. \A i \in 1 .. looked : IsIn(Up', IPs[i])
        BY <2>1, <3>1, <3>4 DEF WaitInv
      <4>2. IsIn(Up', IPs[n])
        BY <2>1, <3>3, <3>4, InMore DEF Up
      <4>3. \A i \in 1 .. looked' : IsIn(Up', IPs[i])
        BY <3>2, <4>1, <4>2
      <4> QED BY <3>1, <3>4, <4>3 DEF WaitInv
    <3>5. CASE foundAll /\ ~Found(IPs[n])
      <4>1. ~IsIn(Gone', IPs[n])
        <5>1. Gone \subseteq iface
          BY DEF Gone
        <5> QED BY <2>1, <3>3, <3>5, <5>1, InMore
      <4>2. ~foundAll'
        BY <3>1, <3>5
      <4> QED BY <3>1, <3>2, <4>1, <4>2 DEF WaitInv
    <3>6. CASE ~foundAll
      <4>1. PICK i \in 1 .. looked : ~IsIn(Gone', IPs[i])
        BY <2>1, <3>1, <3>6 DEF WaitInv
      <4>2. ~foundAll'
        BY <3>1, <3>6
      <4> QED BY <3>1, <3>2, <4>1, <4>2 DEF WaitInv
    <3> QED BY <3>4, <3>5, <3>6
  <2>4. CASE PassEnds
    <3>0. wait = "look" /\ 1 .. looked = DOMAIN IPs
      BY <2>4, Addresses DEF PassEnds
    <3>1. CASE foundAll
      <4>1. \A a \in Own : IsIn(Up', a)
        BY <2>1, <3>0, <3>1 DEF WaitInv, Own
      <4>2. wait' = "exit 0"
        BY <2>4, <3>1 DEF PassEnds
      <4> QED BY <4>1, <4>2 DEF WaitInv
    <3>2. CASE ~foundAll
      <4>1. \E a \in Own : ~IsIn(Gone', a)
        BY <2>1, <3>0, <3>2 DEF WaitInv, Own
      <4>2. wait' \in {"exit 1", "sleep"}
        BY <2>4, <3>2 DEF PassEnds
      <4> QED BY <4>1, <4>2 DEF WaitInv
    <3> QED BY <3>1, <3>2
  <2>5. CASE LookFails
    BY <2>5 DEF LookFails, WaitInv
  <2> QED BY <1>3, <2>2, <2>3, <2>4, <2>5 DEF ToolsNext, Elapse, WaitStep, Wake
<1> QED BY <1>1, <1>2, <1>3

LEMMA WaitInvInit == ToolsInit => WaitInv
  BY DEF ToolsInit, WaitInit, WaitInv

LEMMA WaitInvHolds == ToolsSpec => []WaitInv
  BY TypeInit, TypeStep, WaitInvInit, WaitInvStep, PTL DEF ToolsSpec

\* Exit code 0: each IP was there during the last pass (main.go:185-209).
THEOREM ToolsUpUnlessLost == ToolsSpec => []UpUnlessLost
<1>1. WaitInv => UpUnlessLost
  BY DEF WaitInv, UpUnlessLost, IsIn, Up
<1> QED BY <1>1, WaitInvHolds, PTL

\* Exit code 1: some IP was missing during the last pass (main.go:200-216).
THEOREM ToolsDownUnlessCame == ToolsSpec => []DownUnlessCame
<1>1. WaitInv => DownUnlessCame
  BY DEF WaitInv, DownUnlessCame, IsIn, Gone
<1> QED BY <1>1, WaitInvHolds, PTL
=============================================================================
