------------------------------- MODULE Tools --------------------------------
(***************************************************************************)
(* A host with its daemon, on which somebody evicts the addresses while    *)
(* somebody else waits for them.                                           *)
(***************************************************************************)
EXTENDS Evict, WaitIp

vars == <<host, tool, undone, waiter, late, watch>>

ToolsInit == Init /\ EvictInit /\ WaitInit

ToolsNext ==
  /\ \/ EvictStep /\ UNCHANGED <<waiter, late>>
     \/ WaitStep /\ UNCHANGED <<host, tool, late>>
     \/ Elapse /\ UNCHANGED <<host, tool>>
     \/ Next /\ UNCHANGED <<tool, waiter, late>>
  /\ Noted /\ Remembered

\* The waiting tool runs, a sleep ends and time passes.  Neither the daemon
\* nor the evicting tool need do anything.
ToolsFairness == WF_waiter(WaitStep) /\ WF_late(Elapse)

ToolsSpec == ToolsInit /\ [][ToolsNext]_vars /\ ToolsFairness

-----------------------------------------------------------------------------

TypeOK == EvictTypeOK /\ WaitTypeOK
=============================================================================
