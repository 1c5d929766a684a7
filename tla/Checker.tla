------------------------------- MODULE Checker ------------------------------
(***************************************************************************)
(* What the main loop relies on from a checker.Checker: each call of       *)
(* Status ends in one of three ways (the check passed, it failed, or it    *)
(* could not be made), and the state it returns is the debounced one.      *)
(* ServiceChecker.tla and NetworkChecker.tla implement this specification; *)
(* Relaymon.tla runs its loop over checkers that behave this way.          *)
(***************************************************************************)
EXTENDS Thresholds

VARIABLES
  counters,  \* the three counters of the checker
  report     \* the state the last call of Status returned

vars == <<counters, report>>

Init == counters = Fresh /\ report = "collecting"

Pass == counters' = Passed(counters) /\ report' = Verdict(counters')

Fail == counters' = Failing(counters) /\ report' = Verdict(counters')

\* The check could not be made: everything known is forgotten.
GiveUp == counters' = Fresh /\ report' = "unknown"

Next == Pass \/ Fail \/ GiveUp

Spec == Init /\ [][Next]_vars

-----------------------------------------------------------------------------

TypeOK == counters \in Counters /\ report \in States

\* What is reported is what the counters amount to, unless nothing is known
\* yet or any more.  (The part of the invariant the proofs add to TypeOK.)
ReportFollowsCounters ==
  \/ counters = Fresh /\ report \in {"collecting", "unknown"}
  \/ report = Verdict(counters)

\* An error is never softened: a checker that reported an error goes on
\* reporting it until it reports success or can no longer check; a warning
\* is only ever a step on the way down (network.go:237-245).
ErrorIsSticky ==
  [][report = "error" => report' \in {"error", "success", "unknown"}]_vars
=============================================================================
