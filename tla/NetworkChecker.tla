--------------------------- MODULE NetworkChecker ---------------------------
(***************************************************************************)
(* carbonnetwork.NetworkChecker: a call of Status checks the clusters one  *)
(* after the other; Cluster.Check starts a goroutine for each endpoint     *)
(* that dials it, writes a test metric and closes the connection, and      *)
(* collects their results over a buffered channel, which it closes when it *)
(* returns.  Beside each open connection a watcher waits for the context   *)
(* to be cancelled, to close the connection under the writer's hands.      *)
(*                                                                         *)
(* Left out: the text of errors and events (Cluster.Errors only decides    *)
(* which events are logged) and the four pieces a metric is written in.    *)
(***************************************************************************)
EXTENDS Thresholds, Sequences, FiniteSets

CONSTANTS
  Sizes,     \* the number of endpoints of each cluster
  Required   \* the clusters that are required

\* The parser drops a cluster without endpoints; it may drop all of them.
ASSUME NetworkAssumption ==
  /\ Sizes \in Seq(Nat \ {0})
  /\ Required \subseteq DOMAIN Sizes

Clusters == DOMAIN Sizes
Of(i) == {<<i, j>> : j \in 1 .. Sizes[i]}
Endpoints == UNION {Of(i) : i \in Clusters}

VARIABLES
  pc,        \* idle, or collecting the results of Cluster.Check
  cluster,   \* the cluster being checked
  worker,    \* the goroutine of each endpoint
  conn,      \* the connection of each endpoint, which its watcher may close
  out,       \* the channel of Cluster.Check
  checks,    \* checks: the results collected from it
  down,      \* Status.failed: clusters found down in this call
  fine,      \* Status.successCheck: no required cluster is down
  counters,  \* failed, success and checked of the NetworkChecker
  report,    \* the state the last call of Status returned
  metrics,   \* NetworkChecker.metrics, one for each endpoint
  cancelled  \* whether the context is cancelled

gathering == <<out, checks>>
verdict == <<down, fine>>
results == <<counters, report, metrics>>
vars == <<pc, cluster, worker, conn, gathering, verdict, results, cancelled>>

Stages == {"none", "dial", "write", "close"}

Init ==
  /\ pc = "idle" /\ cluster = 0
  /\ worker = [e \in Endpoints |-> "none"]
  /\ conn = [e \in Endpoints |-> "none"]
  /\ out = <<>> /\ checks = <<>>
  /\ down = 0 /\ fine = TRUE
  /\ counters = Fresh /\ report = "collecting"
  /\ metrics = [e \in Endpoints |-> "collecting"]
  /\ cancelled = FALSE

-----------------------------------------------------------------------------
(* Status and the collecting side of Cluster.Check *)

\* Cluster.Check(i) makes its channel and starts its goroutines.
CheckCluster(i) ==
  /\ cluster' = i
  /\ worker' = [e \in Endpoints |-> IF e[1] = i THEN "dial" ELSE worker[e]]
  /\ out' = <<>> /\ checks' = <<>>

\* The failures not yet forgiven, this call's included.
Losses(up) ==
  IF ~up THEN Bump(counters.failed)
  ELSE IF counters.failed > 0 /\ Bump(counters.success) >= ResetCount THEN 0
  ELSE counters.failed

\* The end of Status: up tells whether the check as a whole succeeded.
Settle(up) ==
  LET tries  == Bump(counters.checked)
      losses == Losses(up)
  IN  /\ counters' = [failed  |-> losses,
                      success |-> IF up THEN Bump(counters.success) ELSE 0,
                      checked |-> tries]
      /\ report' = IF tries < CheckCount THEN "collecting"
                   ELSE IF losses > 0
                   THEN IF losses >= FailCount THEN "error" ELSE "warn"
                   ELSE "success"
      /\ pc' = "idle" /\ cluster' = 0 /\ down' = 0 /\ fine' = TRUE
      /\ out' = <<>> /\ checks' = <<>>

\* With no cluster at all, "all clusters are down" holds.
Begin ==
  /\ pc = "idle"
  /\ IF Sizes = <<>>
     THEN Settle(FALSE) /\ UNCHANGED worker
     ELSE /\ CheckCluster(1) /\ pc' = "collect"
          /\ UNCHANGED <<verdict, counters, report>>
  /\ UNCHANGED <<conn, metrics, cancelled>>

Receive ==
  /\ pc = "collect" /\ out # <<>>
  /\ checks' = Append(checks, Head(out)) /\ out' = Tail(out)
  /\ UNCHANGED <<pc, cluster, worker, conn, verdict, results, cancelled>>

\* failed < count: no endpoint of the cluster works.
AllDown(answers) == \A k \in DOMAIN answers : answers[k].failed

\* A cluster that is down fails the check, required or not.
MutOverall(lost, good) == good /\ lost = 0
\* The check succeeds unless a required cluster, or every cluster, is down.
Overall(lost, good) == good /\ lost < Len(Sizes)

Answer(isFailed, e) == \E k \in DOMAIN checks : checks[k] = [n |-> e, failed |-> isFailed]

\* An endpoint that works again keeps its error metric.
MutPublish ==
  metrics' = [e \in Endpoints |-> IF Answer(TRUE, e) THEN "error" ELSE metrics[e]]

\* The metric of every endpoint of the cluster follows its result.
Publish ==
  metrics' = [e \in Endpoints |-> IF Answer(TRUE, e) THEN "error"
                                  ELSE IF Answer(FALSE, e) THEN "success"
                                  ELSE metrics[e]]

\* The collector goes by the first answer.
MutComplete == Len(checks) >= 1
\* Cluster.Check has as many results as endpoints and returns.
Complete == Len(checks) = Sizes[cluster]

\* It returns, its channel is closed, and Status goes on to the next cluster.
ClusterDone ==
  /\ pc = "collect" /\ Complete
  /\ LET lost == IF AllDown(checks) THEN down + 1 ELSE down
         good == fine /\ ~(AllDown(checks) /\ cluster \in Required)
     IN  IF cluster < Len(Sizes)
         THEN /\ CheckCluster(cluster + 1)
              /\ down' = lost /\ fine' = good
              /\ UNCHANGED <<pc, counters, report>>
         ELSE Settle(Overall(lost, good)) /\ UNCHANGED worker
  /\ Publish
  /\ UNCHANGED <<conn, cancelled>>

Collector == Begin \/ Receive \/ ClusterDone

-----------------------------------------------------------------------------
(* The goroutine of an endpoint, its watcher, and the endpoint itself *)

\* The goroutine sends its result and ends; so does its watcher.
Send(e, isFailed) ==
  /\ out' = Append(out, [n |-> e, failed |-> isFailed])
  /\ worker' = [worker EXCEPT ![e] = "none"]
  /\ conn' = [conn EXCEPT ![e] = "none"]
  /\ UNCHANGED <<pc, cluster, checks, verdict, results, cancelled>>

\* Refused, unreachable, net_timeout, or the context is cancelled.
DialFails(e) == worker[e] = "dial" /\ Send(e, TRUE)

\* The dial looks at the timeout only.
MutDialed(e) ==
  /\ worker[e] = "dial"
  /\ worker' = [worker EXCEPT ![e] = "write"]
  /\ conn' = [conn EXCEPT ![e] = "open"]
  /\ UNCHANGED <<pc, cluster, gathering, verdict, results, cancelled>>

\* A cancelled context makes every dial fail.
Dialed(e) ==
  /\ worker[e] = "dial" /\ ~cancelled
  /\ worker' = [worker EXCEPT ![e] = "write"]
  /\ conn' = [conn EXCEPT ![e] = "open"]
  /\ UNCHANGED <<pc, cluster, gathering, verdict, results, cancelled>>

WatcherCloses(e) ==
  /\ cancelled /\ conn[e] = "open"
  /\ conn' = [conn EXCEPT ![e] = "closed"]
  /\ UNCHANGED <<pc, cluster, worker, gathering, verdict, results, cancelled>>

\* The peer is gone, or the watcher closed the connection.
WriteFails(e) == worker[e] = "write" /\ Send(e, TRUE)

Written(e) ==
  /\ worker[e] = "write" /\ conn[e] = "open"
  /\ worker' = [worker EXCEPT ![e] = "close"]
  /\ UNCHANGED <<pc, cluster, conn, gathering, verdict, results, cancelled>>

\* Closing a connection that the watcher has closed already is an error.
Close(e) == worker[e] = "close" /\ Send(e, conn[e] = "closed")

\* A result that is a failure is lost.
MutWorker(e) == Dialed(e) \/ Written(e) \/ Close(e)
Worker(e) == DialFails(e) \/ Dialed(e) \/ WriteFails(e) \/ Written(e) \/ Close(e)

\* The signal handler of the daemon cancels the context.
Cancel ==
  /\ ~cancelled /\ cancelled' = TRUE
  /\ UNCHANGED <<pc, cluster, worker, conn, gathering, verdict, results>>

Next ==
  \/ Collector \/ Cancel
  \/ \E e \in Endpoints : Worker(e) \/ WatcherCloses(e)

Spec == Init /\ [][Next]_vars

\* A dial ends within net_timeout and the few bytes of a metric fit into the
\* socket's buffer, so every goroutine goes on.
FairSpec ==
  /\ Spec
  /\ WF_vars(Collector)
  /\ \A e \in Endpoints : WF_vars(Worker(e))

-----------------------------------------------------------------------------
(* Properties *)

Results == [n : Endpoints, failed : BOOLEAN]

TypeOK ==
  /\ pc \in {"idle", "collect"}
  /\ cluster \in Clusters \cup {0}
  /\ worker \in [Endpoints -> Stages]
  /\ conn \in [Endpoints -> {"none", "open", "closed"}]
  /\ out \in Seq(Results) /\ checks \in Seq(Results)
  /\ down \in 0 .. Len(Sizes) /\ fine \in BOOLEAN
  /\ counters \in Counters /\ report \in States
  /\ metrics \in [Endpoints -> {"collecting", "success", "error"}]
  /\ cancelled \in BOOLEAN

\* A goroutine that has yet to send its result finds the channel of its own
\* check open and with room left: Cluster.Check closes it on return and a send
\* would panic, and nobody would read a result of the previous check
\* (network.go:48-49, 62, 94, 104-116).
ChannelIsOpen ==
  \A e \in Endpoints : worker[e] # "none" =>
    pc = "collect" /\ cluster = e[1] /\ Len(out) + Len(checks) < Sizes[cluster]

\* The outcome of a call is explained by the metrics it leaves behind: it
\* counts as a success exactly when some cluster has an endpoint that works
\* and so has every required one (network.go:185-216).
Works(i) == \E e \in Of(i) : metrics[e] = "success"
OutcomeMatchesMetrics ==
  pc = "idle" /\ counters.checked > 0 =>
    (counters.success > 0 <=>
       (\E i \in Clusters : Works(i)) /\ (\A i \in Required : Works(i)))

\* The main loop's model takes this for granted: once the context is cancelled
\* no further call succeeds, although a watcher, a writer and a dial may each
\* notice it at a different time (network.go:55-60, 68-75).
NoSuccessOnceCancelled ==
  \A n \in 0 .. MaxCount :
    [](pc = "idle" /\ cancelled /\ counters.success <= n
         => [](counters.success <= n))

\* The network checker is a checker that can always make its checks: whatever
\* clusters a call goes through, it ends by moving the counters once, in the
\* order of statements of its own (network.go:218-245), as Checker.tla says.
C == INSTANCE Checker
ChecksLikeAChecker == C!Spec

\* Every call of Status returns: no goroutine waits for another for ever and
\* each delivers its result, whatever its endpoint does.
EveryCallReturns == pc = "collect" ~> pc = "idle"
=============================================================================
