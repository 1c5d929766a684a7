---------------------------- MODULE SystemHistory ----------------------------
(***************************************************************************)
(* The daemon over the real checker of a unit (System.tla), together with  *)
(* the record of what the unit really went through (ServiceHistory.tla).   *)
(* A new daemon starts a new record.                                       *)
(***************************************************************************)
EXTENDS System, ServiceHistory

systemHistoryVars == <<systemVars, record>>

SystemHistoryInit ==
  SystemInit /\ wasUp = FALSE /\ downFor = 0 /\ age = 0 /\ restless = 0

RecordsAfresh ==
  wasUp' = (mainPid # NoPid) /\ downFor' = 0 /\ age' = 0 /\ restless' = 0

SystemHistoryNext ==
  \/ (MachineStep \/ Check) /\ Records
  \/ (Act \/ StopStep \/ CancelStep) /\ UNCHANGED record
  \/ Restart /\ RecordsAfresh

SystemHistorySpec ==
  /\ SystemHistoryInit /\ [][SystemHistoryNext]_systemHistoryVars
  /\ WF_systemVars(Check \/ Act) /\ WF_systemVars(StopStep)

-----------------------------------------------------------------------------

\* A unit that was down during the last fail_count calls, or none of whose
\* processes has lived through reset_count of the last fail_count * reset_count
\* ones, has no address left once the round is over, whatever the checker held,
\* wherever the calls fell between its deaths and starts, and whatever an
\* earlier daemon had left on the interface (service.go:194-281, main.go:294-313).
TroubleClears ==
  /\ loop = "pause" /\ checked >= CheckCount
  /\ downFor >= FailCount \/ restless >= FailCount * ResetCount
  => Clear

\* A unit whose process has lived through more than reset_count calls has all
\* its addresses once the round is over, if as many checks could be made since
\* the last one that could not: whatever happened before is forgotten, and one
\* call at most is lost on the process before (service.go:189-252, 262-281,
\* main.go:323-345).
SteadyConfigures ==
  /\ loop = "pause" /\ checked >= CheckCount
  /\ age > ResetCount /\ checked > ResetCount
  => Content
=============================================================================
