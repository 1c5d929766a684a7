--------------------------- MODULE ServiceHistory ---------------------------
(***************************************************************************)
(* A service and its checker together with a record of what the service    *)
(* really went through, call of Status by call of Status.  The record has  *)
(* no part in what either does.                                            *)
(***************************************************************************)
EXTENDS ServiceChecker

CONSTANT MaxCalls   \* bound: calls are counted up to here

ASSUME CallsAssumption == MaxCalls \in Nat

VARIABLES
  wasUp,    \* whether the service was up at some time during this call
  downFor,  \* calls in a row during which it was down all the time
  age,      \* calls that ended during the life of its process
  restless  \* calls in a row without a process that lived through reset_count

record == <<wasUp, downFor, age, restless>>
historyVars == <<vars, record>>

HistoryInit == Init /\ wasUp = FALSE /\ downFor = 0 /\ age = 0 /\ restless = 0

Count(n) == IF n < MaxCalls THEN n + 1 ELSE n

\* A call of Status ends; nothing counts when it could not be made.
Returns == pc # "idle" /\ pc' = "idle"

Records ==
  /\ wasUp' = (mainPid' # NoPid \/ (pc' # "idle" /\ wasUp))
  /\ downFor' = IF ~Returns THEN downFor
                ELSE IF wasUp \/ report' = "unknown" THEN 0 ELSE Count(downFor)
  /\ age' = IF mainPid' = NoPid THEN 0 ELSE IF Returns THEN Count(age) ELSE age
  /\ restless' = IF ~Returns THEN restless
                 ELSE IF age' >= ResetCount \/ report' = "unknown" THEN 0
                 ELSE Count(restless)

HistoryNext == Next /\ Records

HistorySpec == HistoryInit /\ [][HistoryNext]_historyVars

-----------------------------------------------------------------------------

\* A service that was down during the last fail_count calls is reported as an
\* error, no matter what its checker held, which processes came and went in
\* its place and which of the two checks each call made (service.go:194-281).
OutageReported ==
  pc = "idle" /\ downFor >= FailCount /\ checked >= CheckCount => report = "error"

\* A service that is restarted over and over is reported as an error although
\* it may be up whenever it is looked at: unless some process of it lives
\* through reset_count calls, every reset_count calls leave one more failure
\* (service.go:204-209, 262-281).
CrashLoopReported ==
  pc = "idle" /\ restless >= FailCount * ResetCount /\ checked >= CheckCount
    => report = "error"
=============================================================================
