---------------------------- MODULE CheckerHistory --------------------------
(***************************************************************************)
(* A checker together with the results of its checks since it last knew    *)
(* nothing.  The counters of the code are an online computation over that  *)
(* history; here the state they lead to is defined from the history        *)
(* itself, without counters, and the two must agree.                       *)
(***************************************************************************)
EXTENDS Checker, Sequences, FiniteSets

CONSTANT MaxHistory   \* bound: the longest history explored

ASSUME HistoryAssumption == MaxHistory \in Nat

VARIABLE history

HistoryInit == Init /\ history = <<>>

Remember(action, result) ==
  /\ Len(history) < MaxHistory
  /\ action
  /\ history' = Append(history, result)

HistoryNext ==
  \/ Remember(Pass, "pass")
  \/ Remember(Fail, "fail")
  \/ GiveUp /\ history' = <<>>

HistorySpec == HistoryInit /\ [][HistoryNext]_<<vars, history>>

-----------------------------------------------------------------------------

\* The results at positions first, first + 1, ... , last are all "pass".
PassRun(first, last) == \A i \in first..last : history[i] = "pass"

\* A streak of reset_count successes (at least one) has followed position i.
Forgiven(i) ==
  \E j, k \in i + 1 .. Len(history) :
    j <= k /\ k - j + 1 >= ResetCount /\ PassRun(j, k)

Pending == {i \in DOMAIN history : history[i] = "fail" /\ ~Forgiven(i)}

\* The state the documentation of the thresholds asks for.
Expected ==
  IF Len(history) < CheckCount THEN "collecting"
  ELSE IF Pending = {} THEN "success"
  ELSE IF Cardinality(Pending) >= FailCount THEN "error" ELSE "warn"

\* The reported state is the one the history of results calls for: collecting
\* until check_count results are in, then an error once fail_count failures
\* are pending, where a failure stays pending until reset_count successes in
\* a row have followed it, however the failures and the successes alternate
\* (service.go:258-284, network.go:218-245).
ReportMatchesHistory ==
  history # <<>> => report = Expected
=============================================================================
