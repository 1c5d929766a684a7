--------------------------- MODULE NetworkHistory ---------------------------
(***************************************************************************)
(* The network checker together with a record of what its endpoints did,   *)
(* call of Status by call of Status.  The record looks at the connections  *)
(* only, not at what the collector makes of them, and has no part in what  *)
(* the checker does.                                                       *)
(***************************************************************************)
EXTENDS NetworkChecker

CONSTANT MaxCalls   \* bound: calls are counted up to here

ASSUME CallsAssumption == MaxCalls \in Nat

VARIABLES
  took,     \* the endpoints that took the test metric in this call
  outage,   \* calls in a row that found no way to relay metrics
  service   \* calls in a row that found one

record == <<took, outage, service>>
historyVars == <<vars, record>>

HistoryInit == Init /\ took = {} /\ outage = 0 /\ service = 0

Count(n) == IF n < MaxCalls THEN n + 1 ELSE n

\* The metric is written and the connection closed by nobody else before.
Takes(e) == worker[e] = "close" /\ worker'[e] = "none" /\ conn[e] = "open"

\* Some cluster can be relayed to, and so can every required one.
Serving ==
  /\ took # {}
  /\ \A i \in Required : Of(i) \cap took # {}

\* A call of Status ends.
Returns == pc' = "idle" /\ (Begin \/ ClusterDone)

Records ==
  /\ took' = IF pc' = "idle" THEN {} ELSE took \cup {e \in Endpoints : Takes(e)}
  /\ outage' = IF ~Returns THEN outage ELSE IF Serving THEN 0 ELSE Count(outage)
  /\ service' = IF ~Returns THEN service ELSE IF Serving THEN Count(service) ELSE 0

HistoryNext == Next /\ Records

HistorySpec ==
  /\ HistoryInit /\ [][HistoryNext]_historyVars
  /\ WF_vars(Collector)
  /\ \A e \in Endpoints : WF_vars(Worker(e))

-----------------------------------------------------------------------------

\* The reported state follows the endpoints over several calls: without a way
\* to relay metrics in the last fail_count calls it is error, with one in each
\* of the last reset_count calls it is success, whichever endpoints worked in
\* which of them, in whatever order they answered and whenever the context was
\* cancelled (network.go:104-117, 184-216, 218-245).
ReportFollowsEndpoints ==
  pc = "idle" /\ counters.checked >= CheckCount =>
    /\ outage >= FailCount => report = "error"
    /\ service >= ResetCount => report = "success"
=============================================================================
