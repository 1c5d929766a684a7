------------------------ MODULE NetworkCheckerProofs ------------------------
(***************************************************************************)
(* The network checker's goroutines find their channel open, its calls are *)
(* checks in the sense of Checker.tla, the outcome of a call is the one    *)
(* its metrics tell of, no call succeeds once the context is cancelled,    *)
(* and what is reported follows the endpoints over any number of calls,    *)
(* whatever the clusters are.                                              *)
(***************************************************************************)
EXTENDS NetworkHistory, SequenceTheorems, FiniteSetTheorems, TLAPS

-----------------------------------------------------------------------------
(***************************************************************************)
(* The channel of Cluster.Check.  Its goroutines still at work, the        *)
(* results in the channel and those collected are as many as the cluster   *)
(* has endpoints; so the last goroutine has ended when the last result is  *)
(* collected and the channel is closed.                                    *)
(***************************************************************************)
Active == {e \in Endpoints : worker[e] # "none"}

ChannelInv ==
  /\ pc = "idle" => Active = {} /\ down = 0
  /\ pc = "collect" =>
       /\ cluster \in Clusters /\ down < cluster
       /\ Active \subseteq Of(cluster)
       /\ Len(out) + Len(checks) + Cardinality(Active) = Sizes[cluster]

Inv == TypeOK /\ ChannelInv

LEMMA SizesType ==
  /\ Len(Sizes) \in Nat /\ Clusters = 1 .. Len(Sizes)
  /\ \A i \in Clusters : Sizes[i] \in Nat /\ 0 < Sizes[i] /\ Of(i) \subseteq Endpoints
  /\ Sizes # <<>> => 1 \in Clusters
<1>1. Len(Sizes) \in Nat /\ Clusters = 1 .. Len(Sizes)
  BY NetworkAssumption DEF Clusters
<1>2. \A i \in Clusters : Sizes[i] \in Nat \ {0}
  BY NetworkAssumption DEF Clusters
<1>3. Sizes # <<>> => 1 \in Clusters
  BY NetworkAssumption DEF Clusters
<1> QED BY <1>1, <1>2, <1>3 DEF Endpoints

LEMMA LenOfSeq == ASSUME NEW S, NEW s \in Seq(S) PROVE Len(s) \in Nat
  OBVIOUS

LEMMA BumpType == \A n \in 0 .. MaxCount : Bump(n) \in 0 .. MaxCount
  BY ThresholdsAssumption DEF Bump

\* What the last statements of Status leave in the counters and return.
LEMMA SettleType ==
  ASSUME NEW up \in BOOLEAN, counters \in Counters, Settle(up)
  PROVE  counters' \in Counters /\ report' \in States
<1>1. Losses(up) \in 0 .. MaxCount
  BY BumpType, ThresholdsAssumption DEF Losses, Counters
<1>2. counters' \in Counters
  BY <1>1, BumpType, ThresholdsAssumption DEF Settle, Counters
<1>3. report' \in States
  BY DEF Settle, States
<1> QED BY <1>2, <1>3

LEMMA FreshType == Fresh \in Counters
  BY ThresholdsAssumption DEF Fresh, Counters

\* As many endpoints as the cluster has.
LEMMA EndpointsOf ==
  ASSUME NEW i \in Clusters
  PROVE  IsFiniteSet(Of(i)) /\ Cardinality(Of(i)) = Sizes[i]
<1> DEFINE n == Sizes[i]
           f == [j \in 1 .. n |-> <<i, j>>]
<1>1. n \in Nat /\ 0 < n
  BY SizesType
<1>2. IsFiniteSet(1 .. n) /\ Cardinality(1 .. n) = n
  <2>1. /\ IsFiniteSet(1 .. n)
        /\ Cardinality(1 .. n) = IF 1 > n THEN 0 ELSE n - 1 + 1
    BY <1>1, FS_Interval
  <2> HIDE DEF n
  <2> QED BY <1>1, <2>1
<1>3. f \in Bijection(1 .. n, Of(i))
  <2>1. f \in [1 .. n -> Of(i)]
    BY DEF Of
  <2>2. \A a, b \in 1 .. n : f[a] = f[b] => a = b
    OBVIOUS
  <2>3. \A e \in Of(i) : \E j \in 1 .. n : f[j] = e
    BY DEF Of
  <2> HIDE DEF f
  <2> QED BY <2>1, <2>2, <2>3 DEF Bijection, Injection, IsInjective, Surjection
<1>4. ExistsBijection(1 .. n, Of(i))
  BY <1>3 DEF ExistsBijection
<1> QED BY <1>2, <1>4, FS_Bijection

\* The goroutines at work are finitely many, and there are some as long as
\* not all results are there.
LEMMA ActiveIsFinite ==
  ASSUME Inv
  PROVE  /\ IsFiniteSet(Active) /\ Cardinality(Active) \in Nat
         /\ Cardinality(Active) = 0 <=> Active = {}
         /\ Len(out) \in Nat /\ Len(checks) \in Nat
<1>1. IsFiniteSet(Active)
  <2>1. CASE pc = "idle"
    BY <2>1, FS_EmptySet DEF Inv, ChannelInv
  <2>2. CASE pc = "collect"
    BY <2>2, EndpointsOf, FS_Subset DEF Inv, ChannelInv
  <2> QED BY <2>1, <2>2 DEF Inv, TypeOK
<1>2. Len(out) \in Nat /\ Len(checks) \in Nat
  BY LenOfSeq DEF Inv, TypeOK
<1> QED BY <1>1, <1>2, FS_CardinalityType, FS_EmptySet

LEMMA OpenFromInv == Inv => ChannelIsOpen
<1> SUFFICES ASSUME Inv, NEW e \in Endpoints, worker[e] # "none"
             PROVE  pc = "collect" /\ cluster = e[1] /\ Len(out) + Len(checks) < Sizes[cluster]
  BY DEF ChannelIsOpen
<1>1. e \in Active
  BY DEF Active
<1>2. pc = "collect"
  BY <1>1 DEF Inv, ChannelInv, TypeOK
<1>3. e \in Of(cluster) /\ cluster \in Clusters
  BY <1>1, <1>2 DEF Inv, ChannelInv
<1>4. cluster = e[1]
  BY <1>3 DEF Of
<1>5. Len(out) + Len(checks) + Cardinality(Active) = Sizes[cluster]
  BY <1>2 DEF Inv, ChannelInv
<1>6. Cardinality(Active) \in Nat /\ Cardinality(Active) # 0
  BY <1>1, ActiveIsFinite
<1> QED BY <1>2, <1>3, <1>4, <1>5, <1>6, ActiveIsFinite, SizesType

\* What CheckCluster does: as many goroutines as endpoints, nothing collected.
LEMMA CheckClusterOpens ==
  ASSUME Inv, Active = {}, NEW i \in Clusters, CheckCluster(i), down' < i, pc' = "collect"
  PROVE  /\ ChannelInv'
         /\ worker' \in [Endpoints -> Stages] /\ cluster' \in Clusters
         /\ out' \in Seq(Results) /\ checks' \in Seq(Results)
<1>1. worker' = [e \in Endpoints |-> IF e[1] = i THEN "dial" ELSE worker[e]]
  BY DEF CheckCluster
<1>2. worker' \in [Endpoints -> Stages]
  BY <1>1 DEF Inv, TypeOK, Stages
<1>3. Active' = Of(i)
  <2>1. \A e \in Endpoints : e[1] = i <=> e \in Of(i)
    BY DEF Endpoints, Of
  <2>2. Of(i) \subseteq Endpoints
    BY SizesType
  <2>3. \A e \in Endpoints : worker'[e] # "none" <=> e[1] = i
    BY <1>1 DEF Active
  <2> QED BY <2>1, <2>2, <2>3 DEF Active
<1>4. Len(out') = 0 /\ Len(checks') = 0 /\ cluster' = i
      /\ out' \in Seq(Results) /\ checks' \in Seq(Results)
  BY DEF CheckCluster
<1>5. Len(out') + Len(checks') + Cardinality(Active') = Sizes[cluster']
  BY <1>3, <1>4, EndpointsOf, SizesType
<1> QED BY <1>2, <1>3, <1>4, <1>5 DEF ChannelInv

LEMMA SettleCloses ==
  ASSUME Inv, Active = {}, NEW up \in BOOLEAN, Settle(up), UNCHANGED worker
  PROVE  /\ ChannelInv'
         /\ pc' = "idle" /\ cluster' = 0 /\ down' = 0 /\ fine' \in BOOLEAN
         /\ out' \in Seq(Results) /\ checks' \in Seq(Results)
         /\ counters' \in Counters /\ report' \in States
<1>1. counters' \in Counters /\ report' \in States
  BY SettleType DEF Inv, TypeOK
<1>2. /\ pc' = "idle" /\ cluster' = 0 /\ down' = 0 /\ fine' \in BOOLEAN
      /\ out' \in Seq(Results) /\ checks' \in Seq(Results)
  BY DEF Settle
<1> QED BY <1>1, <1>2 DEF ChannelInv, Active

LEMMA BeginStep == ASSUME Inv, Begin PROVE Inv'
<1>0. pc = "idle" /\ Active = {} /\ down = 0 /\ UNCHANGED <<conn, metrics, cancelled>> /\ TypeOK
  BY DEF Begin, Inv, ChannelInv
<1>1. CASE Sizes = <<>>
  <2>1. Settle(FALSE) /\ UNCHANGED worker
    BY <1>1 DEF Begin
  <2> QED BY <1>0, <2>1, SettleCloses, SizesType DEF Inv, TypeOK
<1>2. CASE Sizes # <<>>
  <2>1. CheckCluster(1) /\ pc' = "collect" /\ UNCHANGED <<verdict, counters, report>>
    BY <1>2 DEF Begin
  <2>2. 1 \in Clusters /\ down' < 1
    BY <1>0, <1>2, <2>1, SizesType DEF verdict
  <2> QED BY <1>0, <2>1, <2>2, CheckClusterOpens DEF Inv, TypeOK, verdict
<1> QED BY <1>1, <1>2

LEMMA ReceiveStep == ASSUME Inv, Receive PROVE Inv'
<1>1. /\ out \in Seq(Results) /\ checks \in Seq(Results) /\ out # <<>>
      /\ checks' = Append(checks, Head(out)) /\ out' = Tail(out)
      /\ UNCHANGED <<pc, cluster, worker, conn, verdict, results, cancelled>>
  BY DEF Inv, TypeOK, Receive
<1>2. /\ checks' \in Seq(Results) /\ out' \in Seq(Results)
      /\ Len(checks') = Len(checks) + 1 /\ Len(out') = Len(out) - 1
  BY <1>1, HeadTailProperties, AppendProperties
<1>3. Len(out') + Len(checks') = Len(out) + Len(checks)
  BY <1>2, ActiveIsFinite
<1> QED
  BY <1>1, <1>2, <1>3 DEF Inv, TypeOK, ChannelInv, Active, verdict, results

LEMMA PublishType ==
  ASSUME TypeOK, Publish
  PROVE  metrics' \in [Endpoints -> {"collecting", "success", "error"}]
  BY DEF TypeOK, Publish

LEMMA ClusterDoneStep == ASSUME Inv, ClusterDone PROVE Inv'
<1>0. /\ pc = "collect" /\ Len(checks) = Sizes[cluster] /\ Publish /\ UNCHANGED <<conn, cancelled>>
      /\ cluster \in Clusters /\ down < cluster /\ TypeOK
      /\ Len(out) + Len(checks) + Cardinality(Active) = Sizes[cluster]
  BY DEF ClusterDone, Complete, Inv, ChannelInv
<1>1. Active = {}
  BY <1>0, ActiveIsFinite, SizesType
<1>2. cluster \in Nat /\ down \in Nat
  BY <1>0, SizesType DEF TypeOK
<1>3. metrics' \in [Endpoints -> {"collecting", "success", "error"}]
  BY <1>0, PublishType
<1> DEFINE lost == IF AllDown(checks) THEN down + 1 ELSE down
           good == fine /\ ~(AllDown(checks) /\ cluster \in Required)
<1>4. lost \in Nat /\ lost <= cluster /\ good \in BOOLEAN
  BY <1>0, <1>2 DEF TypeOK
<1>5. CASE cluster < Len(Sizes)
  <2>1. /\ CheckCluster(cluster + 1) /\ down' = lost /\ fine' = good
        /\ UNCHANGED <<pc, counters, report>>
    BY <1>5 DEF ClusterDone
  <2>2. cluster + 1 \in Clusters /\ down' < cluster + 1 /\ down' \in 0 .. Len(Sizes)
    BY <1>2, <1>4, <1>5, <2>1, SizesType
  <2>3. fine' \in BOOLEAN
    BY <1>4, <2>1
  <2> HIDE DEF lost, good
  <2> QED BY <1>0, <1>1, <1>3, <2>1, <2>2, <2>3, CheckClusterOpens DEF Inv, TypeOK
<1>6. CASE ~(cluster < Len(Sizes))
  <2>1. Settle(Overall(lost, good)) /\ UNCHANGED worker
    BY <1>6 DEF ClusterDone
  <2>2. Overall(lost, good) \in BOOLEAN
    BY DEF Overall
  <2>3. 0 \in 0 .. Len(Sizes)
    BY SizesType
  <2> HIDE DEF lost, good
  <2> QED BY <1>0, <1>1, <1>3, <2>1, <2>2, <2>3, SettleCloses DEF Inv, TypeOK
<1> QED BY <1>5, <1>6

LEMMA SendStep ==
  ASSUME Inv, NEW e \in Endpoints, worker[e] # "none", NEW isFailed \in BOOLEAN, Send(e, isFailed)
  PROVE  Inv'
<1>1. /\ out' = Append(out, [n |-> e, failed |-> isFailed])
      /\ worker' = [worker EXCEPT ![e] = "none"] /\ conn' = [conn EXCEPT ![e] = "none"]
      /\ UNCHANGED <<pc, cluster, checks, verdict, results, cancelled>>
  BY DEF Send
<1>2. /\ out' \in Seq(Results) /\ Len(out') = Len(out) + 1
  <2>1. [n |-> e, failed |-> isFailed] \in Results
    BY DEF Results
  <2>2. out \in Seq(Results)
    BY DEF Inv, TypeOK
  <2> QED BY <1>1, <2>1, <2>2, AppendProperties
<1>3. Active' = Active \ {e} /\ e \in Active
  BY <1>1 DEF Active, Inv, TypeOK
<1>4. pc = "collect" /\ Cardinality(Active') = Cardinality(Active) - 1
  <2>1. pc = "collect"
    BY <1>3 DEF Inv, TypeOK, ChannelInv
  <2> QED BY <1>3, <2>1, ActiveIsFinite, FS_RemoveElement
<1>5. TypeOK'
  BY <1>1, <1>2 DEF Inv, TypeOK, Stages, verdict, results
<1>6. Len(out') + Len(checks) + Cardinality(Active') = Len(out) + Len(checks) + Cardinality(Active)
  BY <1>2, <1>4, ActiveIsFinite
<1>7. ChannelInv'
  BY <1>1, <1>3, <1>4, <1>6 DEF Inv, ChannelInv, verdict
<1> QED BY <1>5, <1>7 DEF Inv

LEMMA WorkerStep ==
  ASSUME Inv, NEW e \in Endpoints, Worker(e) \/ WatcherCloses(e)
  PROVE  Inv'
<1>1. CASE DialFails(e) \/ WriteFails(e) \/ Close(e)
  <2>1. PICK isFailed \in BOOLEAN : Send(e, isFailed)
    BY <1>1 DEF DialFails, WriteFails, Close
  <2>2. worker[e] # "none"
    BY <1>1 DEF DialFails, WriteFails, Close
  <2> QED BY <2>1, <2>2, SendStep
<1>2. CASE Dialed(e) \/ Written(e) \/ WatcherCloses(e)
  <2>1. /\ worker' \in [Endpoints -> Stages] /\ Active' = Active
        /\ conn' \in [Endpoints -> {"none", "open", "closed"}]
    BY <1>2 DEF Dialed, Written, WatcherCloses, Inv, TypeOK, Stages, Active
  <2>2. UNCHANGED <<pc, cluster, gathering, verdict, results, cancelled>>
    BY <1>2 DEF Dialed, Written, WatcherCloses
  <2> QED BY <2>1, <2>2 DEF Inv, TypeOK, ChannelInv, gathering, verdict, results
<1> QED BY <1>1, <1>2 DEF Worker

LEMMA NetworkStep == Inv /\ [Next]_vars => Inv'
<1> SUFFICES ASSUME Inv, [Next]_vars PROVE Inv'
  OBVIOUS
<1>1. CASE Collector
  BY <1>1, BeginStep, ReceiveStep, ClusterDoneStep DEF Collector
<1>2. CASE \E e \in Endpoints : Worker(e) \/ WatcherCloses(e)
  BY <1>2, WorkerStep
<1>3. CASE Cancel
  BY <1>3 DEF Cancel, Inv, TypeOK, ChannelInv, Active, gathering, verdict, results
<1>4. CASE UNCHANGED vars
  BY <1>4 DEF vars, Inv, TypeOK, ChannelInv, Active, gathering, verdict, results
<1> QED BY <1>1, <1>2, <1>3, <1>4 DEF Next

LEMMA NetworkInit == Init => Inv
<1> SUFFICES ASSUME Init PROVE Inv
  OBVIOUS
<1>1. TypeOK
  <2>1. fine \in BOOLEAN /\ cancelled \in BOOLEAN
    BY Zenon DEF Init
  <2>2. 0 \in 0 .. Len(Sizes)
    BY SizesType
  <2> QED BY <2>1, <2>2, FreshType DEF Init, TypeOK, Stages, States
<1>2. Active = {}
  BY DEF Init, Active
<1> QED BY <1>1, <1>2 DEF Init, Inv, ChannelInv

LEMMA NetworkInvHolds == Spec => []Inv
  BY NetworkInit, NetworkStep, PTL DEF Spec

\* The network checker's state keeps its type, however many clusters and
\* endpoints there are.
THEOREM NetworkTypeOK == Spec => []TypeOK
<1>1. Inv => TypeOK
  BY DEF Inv
<1> QED BY <1>1, NetworkInvHolds, PTL

\* No goroutine sends on a channel that is closed, or waits because it is full
\* (network.go:48-49, 62, 94, 104-116).
THEOREM NetworkChannelIsOpen == Spec => []ChannelIsOpen
  BY OpenFromInv, NetworkInvHolds, PTL

-----------------------------------------------------------------------------
(***************************************************************************)
(* The thresholds.  NetworkChecker.Status counts and compares in its own   *)
(* order: it tests whether there is a failure to forgive before it forgets *)
(* the failures, and failed > 0 before failed >= failCount.  On counters   *)
(* that are in their range this is the arithmetic Checker.tla promises.    *)
(***************************************************************************)
LEMMA SettleIsCheck ==
  ASSUME NEW up \in BOOLEAN, counters \in Counters, Settle(up)
  PROVE  C!Pass \/ C!Fail
<1>1. /\ counters.failed \in Nat /\ \A n : C!Bump(n) = Bump(n)
      /\ up => Losses(up) = IF Bump(counters.success) >= ResetCount THEN 0 ELSE counters.failed
      /\ ~up => Losses(up) = Bump(counters.failed)
  BY ThresholdsAssumption DEF Losses, Counters, C!Bump, Bump
<1>2. /\ counters'.failed = Losses(up) /\ counters'.checked = Bump(counters.checked)
      /\ counters'.failed \in Nat
  BY SettleType DEF Settle, Counters
<1>3. report' = C!Verdict(counters')
  <2>1. report' = IF counters'.checked < CheckCount THEN "collecting"
                  ELSE IF counters'.failed > 0
                  THEN IF counters'.failed >= FailCount THEN "error" ELSE "warn"
                  ELSE "success"
    BY <1>2 DEF Settle
  <2>2. counters'.failed > 0 <=> counters'.failed # 0
    BY <1>2
  <2> QED BY <2>1, <2>2 DEF C!Verdict
<1>4. up => counters' = C!Passed(counters)
  BY <1>1 DEF Settle, C!Passed
<1>5. ~up => counters' = C!Failing(counters)
  BY <1>1 DEF Settle, C!Failing
<1> QED BY <1>3, <1>4, <1>5 DEF C!Pass, C!Fail

\* Every call of Status, however many clusters it goes through and goroutines
\* it waits for, moves the counters once, and its own statements count and
\* report what Checker.tla says (network.go:178-246).
THEOREM NetworkChecksLikeAChecker == Spec => ChecksLikeAChecker
<1>1. Init => C!Init
  BY DEF Init, C!Init, Fresh, C!Fresh
<1>2. Inv /\ [Next]_vars => [C!Next]_(C!vars)
  <2> SUFFICES ASSUME Inv, [Next]_vars PROVE C!Next \/ UNCHANGED C!vars
    OBVIOUS
  <2>0. counters \in Counters
    BY DEF Inv, TypeOK
  <2>1. CASE Begin
    <3>1. CASE Sizes = <<>>
      BY <2>0, <2>1, <3>1, SettleIsCheck DEF Begin, C!Next
    <3>2. CASE Sizes # <<>>
      BY <2>1, <3>2 DEF Begin, C!vars
    <3> QED BY <3>1, <3>2
  <2>2. CASE ClusterDone
    <3>1. CASE cluster < Len(Sizes)
      BY <2>2, <3>1 DEF ClusterDone, C!vars
    <3>2. CASE ~(cluster < Len(Sizes))
      <4>1. PICK lost, good : Settle(Overall(lost, good))
        BY <2>2, <3>2 DEF ClusterDone
      <4>2. Overall(lost, good) \in BOOLEAN
        BY DEF Overall
      <4> QED BY <2>0, <4>1, <4>2, SettleIsCheck DEF C!Next
    <3> QED BY <3>1, <3>2
  <2>3. CASE Receive \/ Cancel
    BY <2>3 DEF Receive, Cancel, results, C!vars
  <2>4. CASE \E e \in Endpoints : Worker(e) \/ WatcherCloses(e)
    <3>1. PICK e \in Endpoints : Worker(e) \/ WatcherCloses(e)
      BY <2>4
    <3>2. UNCHANGED results
      BY <3>1 DEF Worker, DialFails, Dialed, WriteFails, Written, Close, WatcherCloses, Send
    <3> QED BY <3>2 DEF results, C!vars
  <2>5. CASE UNCHANGED vars
    BY <2>5 DEF vars, results, C!vars
  <2> QED BY <2>1, <2>2, <2>3, <2>4, <2>5 DEF Next, Collector
<1> QED BY <1>1, <1>2, NetworkInvHolds, PTL DEF Spec, ChecksLikeAChecker, C!Spec

-----------------------------------------------------------------------------
(***************************************************************************)
(* The answers of a cluster's endpoints: each endpoint that is not at work *)
(* any more has answered, once, wherever its answer is by now.             *)
(***************************************************************************)
In(s) == {s[k] : k \in DOMAIN s}
Given == In(checks) \cup In(out)

AnswersInv ==
  pc = "collect" =>
    /\ \A a \in Given : a.n \in Of(cluster) \ Active
    /\ \A a, b \in Given : a.n = b.n => a = b
    /\ \A e \in Of(cluster) \ Active : \E a \in Given : a.n = e

\* What a call has found so far is what the metrics of the clusters it is done
\* with tell.
MetricsInv ==
  /\ pc = "idle" => fine
  /\ pc = "collect" =>
       /\ fine <=> \A i \in Required : i < cluster => Works(i)
       /\ down = cluster - 1 <=> \A i \in Clusters : i < cluster => ~Works(i)
  /\ OutcomeMatchesMetrics

LEMMA GivenType == ASSUME TypeOK PROVE Given \subseteq Results
  BY DEF TypeOK, Given, In

LEMMA InAppend ==
  ASSUME NEW S, NEW s \in Seq(S), NEW x \in S
  PROVE  In(Append(s, x)) = In(s) \cup {x}
<1>1. /\ DOMAIN s = 1 .. Len(s) /\ DOMAIN Append(s, x) = 1 .. Len(s) + 1 /\ Len(s) \in Nat
      /\ Append(s, x)[Len(s) + 1] = x
      /\ \A k \in 1 .. Len(s) : Append(s, x)[k] = s[k]
  OBVIOUS
<1> QED BY <1>1 DEF In

LEMMA InHeadTail ==
  ASSUME NEW S, NEW s \in Seq(S), s # <<>>
  PROVE  In(s) = {Head(s)} \cup In(Tail(s))
<1>1. /\ DOMAIN s = 1 .. Len(s) /\ DOMAIN Tail(s) = 1 .. Len(s) - 1
      /\ Len(s) \in Nat /\ Len(s) # 0 /\ Head(s) = s[1]
      /\ \A k \in 1 .. Len(s) - 1 : Tail(s)[k] = s[k + 1]
  OBVIOUS
<1>2. ASSUME NEW x \in In(s) PROVE x \in {Head(s)} \cup In(Tail(s))
  <2>1. PICK k \in 1 .. Len(s) : x = s[k]
    BY <1>1, <1>2 DEF In
  <2>2. CASE k = 1
    BY <1>1, <2>1, <2>2
  <2>3. CASE k # 1
    <3>1. k - 1 \in 1 .. Len(s) - 1 /\ (k - 1) + 1 = k
      BY <1>1, <2>3
    <3> QED BY <1>1, <2>1, <3>1 DEF In
  <2> QED BY <2>2, <2>3
<1>3. ASSUME NEW x \in {Head(s)} \cup In(Tail(s)) PROVE x \in In(s)
  <2>1. CASE x = Head(s)
    BY <1>1, <2>1 DEF In
  <2>2. CASE x \in In(Tail(s))
    <3>1. PICK k \in 1 .. Len(s) - 1 : x = Tail(s)[k]
      BY <1>1, <2>2 DEF In
    <3>2. k + 1 \in 1 .. Len(s) /\ x = s[k + 1]
      BY <1>1, <3>1
    <3> QED BY <1>1, <3>2 DEF In
  <2> QED BY <1>3, <2>1, <2>2
<1> QED BY <1>2, <1>3

LEMMA OfOne ==
  ASSUME NEW i, NEW j, i # j
  PROVE  Of(i) \cap Of(j) = {}
  BY DEF Of

\* All endpoints have answered when the collector is done with a cluster.
LEMMA DoneIsDone ==
  ASSUME Inv, AnswersInv, ClusterDone
  PROVE  /\ pc = "collect" /\ cluster \in Clusters /\ cluster \in Nat
         /\ down \in Nat /\ down < cluster /\ Active = {} /\ Given = In(checks)
         /\ checks \in Seq(Results) /\ Publish
<1>1. /\ pc = "collect" /\ Len(checks) = Sizes[cluster] /\ Publish
      /\ cluster \in Clusters /\ down < cluster /\ TypeOK
      /\ Len(out) + Len(checks) + Cardinality(Active) = Sizes[cluster]
  BY DEF ClusterDone, Complete, Inv, ChannelInv
<1>2. Active = {} /\ Len(out) = 0
  BY <1>1, ActiveIsFinite, SizesType
<1>3. out = <<>> /\ In(out) = {}
  BY <1>1, <1>2 DEF TypeOK, In
<1>4. cluster \in Nat /\ down \in Nat
  BY <1>1, SizesType DEF TypeOK
<1> QED BY <1>1, <1>2, <1>3, <1>4 DEF Given, TypeOK

\* The metrics of the cluster tell whether it is down; those of the others
\* stay as they are.
LEMMA PublishTells ==
  ASSUME Inv, AnswersInv, ClusterDone
  PROVE  /\ (\E e \in Of(cluster) : metrics'[e] = "success") <=> ~AllDown(checks)
         /\ \A i \in Clusters \ {cluster} : \A e \in Of(i) : metrics'[e] = metrics[e]
<1>1. /\ pc = "collect" /\ cluster \in Clusters /\ Active = {} /\ Given = In(checks)
      /\ Given \subseteq Results
      /\ metrics' = [e \in Endpoints |-> IF Answer(TRUE, e) THEN "error"
                                         ELSE IF Answer(FALSE, e) THEN "success"
                                         ELSE metrics[e]]
  BY DoneIsDone, GivenType DEF Publish, Inv
<1>2. /\ \A a \in Given : a.n \in Of(cluster)
      /\ \A a, b \in Given : a.n = b.n => a = b
      /\ \A e \in Of(cluster) : \E a \in Given : a.n = e
  BY <1>1 DEF AnswersInv
<1>3. \A f, e : Answer(f, e) <=> [n |-> e, failed |-> f] \in Given
  BY <1>1 DEF Answer, In
<1>4. \A a \in Given : a = [n |-> a.n, failed |-> a.failed] /\ a.failed \in BOOLEAN
  BY <1>1 DEF Results
<1>5. AllDown(checks) <=> \A a \in Given : a.failed
  BY <1>1 DEF AllDown, In
<1>6. \A i \in Clusters : Of(i) \subseteq Endpoints
  BY SizesType
<1>7. ASSUME AllDown(checks), NEW e \in Of(cluster) PROVE metrics'[e] # "success"
  <2>1. PICK a \in Given : a.n = e
    BY <1>2
  <2>2. Answer(TRUE, e)
    BY <1>3, <1>4, <1>5, <1>7, <2>1
  <2> QED BY <1>1, <1>6, <2>2
<1>8. ASSUME ~AllDown(checks) PROVE \E e \in Of(cluster) : metrics'[e] = "success"
  <2>1. PICK a \in Given : ~a.failed
    BY <1>5, <1>8
  <2>2. Answer(FALSE, a.n) /\ ~Answer(TRUE, a.n)
    BY <1>2, <1>3, <1>4, <2>1
  <2> QED BY <1>1, <1>2, <1>6, <2>1, <2>2
<1>9. ASSUME NEW i \in Clusters \ {cluster}, NEW e \in Of(i) PROVE metrics'[e] = metrics[e]
  <2>1. e \in Endpoints /\ e \notin Of(cluster)
    BY <1>1, <1>6, OfOne
  <2>2. ~Answer(TRUE, e) /\ ~Answer(FALSE, e)
    BY <1>2, <1>3, <2>1
  <2> QED BY <1>1, <2>1, <2>2
<1> QED BY <1>7, <1>8, <1>9

LEMMA SameAnswers ==
  ASSUME TypeOK, AnswersInv, UNCHANGED <<pc, cluster>>, Active' = Active, Given' = Given
  PROVE  AnswersInv'
  BY DEF AnswersInv

LEMMA OpenedAnswers ==
  ASSUME Inv, Active = {}, NEW i \in Clusters, CheckCluster(i)
  PROVE  AnswersInv'
<1>1. cluster' = i /\ Given' = {}
  BY DEF CheckCluster, Given, In
<1>2. \A e \in Of(i) : e \in Active'
  <2>1. Of(i) \subseteq Endpoints /\ \A e \in Of(i) : e[1] = i
    BY SizesType DEF Of
  <2> QED BY <2>1 DEF CheckCluster, Active
<1> QED BY <1>1, <1>2 DEF AnswersInv

LEMMA SentAnswers ==
  ASSUME Inv, AnswersInv, NEW e \in Endpoints, worker[e] # "none", NEW isFailed \in BOOLEAN,
         Send(e, isFailed)
  PROVE  AnswersInv'
<1> DEFINE new == [n |-> e, failed |-> isFailed]
<1>1. /\ out' = Append(out, new) /\ checks' = checks /\ pc' = pc /\ cluster' = cluster
      /\ new \in Results /\ out \in Seq(Results) /\ new.n = e
  BY DEF Send, Results, Inv, TypeOK
<1>2. Active' = Active \ {e} /\ e \in Active
  BY DEF Send, Active, Inv, TypeOK
<1>3. pc = "collect" /\ e \in Of(cluster)
  BY <1>2 DEF Inv, TypeOK, ChannelInv
<1> HIDE DEF new
<1>4. Given' = Given \cup {new}
  BY <1>1, InAppend DEF Given
<1> QED BY <1>1, <1>2, <1>3, <1>4 DEF AnswersInv

LEMMA AnswersStep == Inv /\ AnswersInv /\ [Next]_vars => AnswersInv'
<1> SUFFICES ASSUME Inv, AnswersInv, [Next]_vars PROVE AnswersInv'
  OBVIOUS
<1>1. CASE Begin
  <2>1. CASE Sizes = <<>>
    BY <1>1, <2>1 DEF Begin, Settle, AnswersInv
  <2>2. CASE Sizes # <<>>
    <3>1. Active = {} /\ CheckCluster(1) /\ 1 \in Clusters
      BY <1>1, <2>2, SizesType DEF Begin, Inv, ChannelInv
    <3> QED BY <3>1, OpenedAnswers
  <2> QED BY <2>1, <2>2
<1>2. CASE Receive
  <2>1. /\ out \in Seq(Results) /\ checks \in Seq(Results) /\ out # <<>> /\ Head(out) \in Results
        /\ checks' = Append(checks, Head(out)) /\ out' = Tail(out)
        /\ UNCHANGED <<pc, cluster, worker>>
    BY <1>2 DEF Receive, Inv, TypeOK
  <2>2. Given' = Given /\ Active' = Active
    BY <2>1, InAppend, InHeadTail DEF Given, Active
  <2> QED BY <2>1, <2>2, SameAnswers DEF Inv
<1>3. CASE ClusterDone
  <2>1. CASE cluster < Len(Sizes)
    <3>1. cluster + 1 \in Clusters /\ Active = {} /\ CheckCluster(cluster + 1)
      BY <1>3, <2>1, DoneIsDone, SizesType DEF ClusterDone
    <3> QED BY <3>1, OpenedAnswers
  <2>2. CASE ~(cluster < Len(Sizes))
    BY <1>3, <2>2 DEF ClusterDone, Settle, AnswersInv
  <2> QED BY <2>1, <2>2
<1>4. ASSUME NEW e \in Endpoints, Worker(e) \/ WatcherCloses(e) PROVE AnswersInv'
  <2>1. CASE DialFails(e) \/ WriteFails(e) \/ Close(e)
    <3>1. PICK isFailed \in BOOLEAN : Send(e, isFailed)
      BY <2>1 DEF DialFails, WriteFails, Close
    <3> QED BY <2>1, <3>1, SentAnswers DEF DialFails, WriteFails, Close
  <2>2. CASE Dialed(e) \/ Written(e) \/ WatcherCloses(e)
    <3>1. Active' = Active /\ UNCHANGED <<pc, cluster, out, checks>>
      BY <2>2 DEF Dialed, Written, WatcherCloses, Inv, TypeOK, Active, gathering
    <3> QED BY <3>1, SameAnswers DEF Inv, Given
  <2> QED BY <1>4, <2>1, <2>2 DEF Worker
<1>5. CASE Cancel \/ UNCHANGED vars
  <2>1. UNCHANGED <<pc, cluster, worker, out, checks>>
    BY <1>5 DEF Cancel, vars, gathering
  <2> QED BY <2>1, SameAnswers DEF Inv, Given, Active
<1> QED BY <1>1, <1>2, <1>3, <1>4, <1>5 DEF Next, Collector

\* What counts of the call that ends.
LEMMA SettleCounts ==
  ASSUME NEW up \in BOOLEAN, Settle(up), counters \in Counters
  PROVE  pc' = "idle" /\ fine' = TRUE /\ (counters'.success > 0 <=> up)
<1>1. Bump(counters.success) > 0
  BY ThresholdsAssumption DEF Bump, Counters
<1> QED BY <1>1 DEF Settle

LEMMA MetricsStep == Inv /\ AnswersInv /\ MetricsInv /\ [Next]_vars => MetricsInv'
<1> SUFFICES ASSUME Inv, AnswersInv, MetricsInv, [Next]_vars PROVE MetricsInv'
  OBVIOUS
<1>1. CASE Begin
  <2>1. CASE Sizes = <<>>
    <3>1. Settle(FALSE) /\ counters \in Counters
      BY <1>1, <2>1 DEF Begin, Inv, TypeOK
    <3>2. Clusters = {}
      BY <2>1, SizesType
    <3> QED BY <3>1, <3>2, SettleCounts DEF MetricsInv, OutcomeMatchesMetrics
  <2>2. CASE Sizes # <<>>
    <3>1. /\ pc = "idle" /\ pc' = "collect" /\ cluster' = 1 /\ fine' = fine /\ down' = 0
      BY <1>1, <2>2 DEF Begin, CheckCluster, verdict, Inv, ChannelInv
    <3>2. \A i \in Clusters : ~(i < 1)
      BY SizesType
    <3> QED BY <3>1, <3>2, NetworkAssumption DEF MetricsInv, OutcomeMatchesMetrics, Clusters
  <2> QED BY <2>1, <2>2
<1>2. CASE ClusterDone
  <2>0. /\ pc = "collect" /\ cluster \in Clusters /\ cluster \in Nat
        /\ down \in Nat /\ down < cluster /\ fine \in BOOLEAN /\ counters \in Counters
        /\ Required \subseteq Clusters /\ Clusters = 1 .. Len(Sizes) /\ Len(Sizes) \in Nat
    BY <1>2, DoneIsDone, SizesType, NetworkAssumption DEF Inv, TypeOK, Clusters
  <2> DEFINE lost == IF AllDown(checks) THEN down + 1 ELSE down
             good == fine /\ ~(AllDown(checks) /\ cluster \in Required)
  \* (Works(cluster)' would be about the next cluster.)
  <2> DEFINE Up(i) == \E e \in Of(i) : metrics'[e] = "success"
  <2>1. /\ Up(cluster) <=> ~AllDown(checks)
        /\ \A i \in Clusters \ {cluster} : Up(i) <=> Works(i)
    BY <1>2, PublishTells DEF Works
  <2>2. \A i \in Clusters : Works(i)' <=> Up(i)
    BY DEF Works
  <2> HIDE DEF Up
  <2>3. good <=> \A i \in Required : i < cluster + 1 => Up(i)
    <3>1. fine <=> \A i \in Required : i < cluster => Up(i)
      BY <2>0, <2>1 DEF MetricsInv
    <3>2. \A i \in Required : i < cluster + 1 <=> i < cluster \/ i = cluster
      BY <2>0
    <3> QED BY <2>1, <3>1, <3>2
  <2>4. lost = cluster <=> \A i \in Clusters : i < cluster + 1 => ~Up(i)
    <3>1. down = cluster - 1 <=> \A i \in Clusters : i < cluster => ~Up(i)
      BY <2>0, <2>1 DEF MetricsInv
    <3>2. \A i \in Clusters : i < cluster + 1 <=> i < cluster \/ i = cluster
      BY <2>0
    <3>3. lost = cluster <=> AllDown(checks) /\ down = cluster - 1
      BY <2>0
    <3> HIDE DEF lost
    <3> QED BY <2>0, <2>1, <3>1, <3>2, <3>3
  <2>5. lost \in Nat /\ lost <= cluster /\ good \in BOOLEAN
    BY <2>0
  <2>6. CASE cluster < Len(Sizes)
    <3>1. pc' = "collect" /\ cluster' = cluster + 1 /\ down' = lost /\ fine' = good
      BY <1>2, <2>0, <2>6 DEF ClusterDone, CheckCluster
    <3> HIDE DEF lost, good
    <3>2. fine' <=> \A i \in Required : i < cluster' => Works(i)'
      BY <2>0, <2>2, <2>3, <3>1
    <3>3. down' = cluster' - 1 <=> \A i \in Clusters : i < cluster' => ~Works(i)'
      BY <2>0, <2>2, <2>4, <2>5, <3>1
    <3> QED BY <3>1, <3>2, <3>3 DEF MetricsInv, OutcomeMatchesMetrics
  <2>7. CASE ~(cluster < Len(Sizes))
    <3>1. Settle(Overall(lost, good))
      BY <1>2, <2>7 DEF ClusterDone
    <3> HIDE DEF lost, good
    <3>2. Overall(lost, good) \in BOOLEAN /\ (Overall(lost, good) <=> good /\ lost # cluster)
      BY <2>0, <2>5, <2>7 DEF Overall
    <3>3. \A i \in Clusters : i < cluster + 1
      BY <2>0, <2>7
    <3>4. Overall(lost, good) <=> (\E i \in Clusters : Up(i)) /\ (\A i \in Required : Up(i))
      BY <2>0, <2>3, <2>4, <3>2, <3>3
    <3>5. pc' = "idle" /\ fine' /\ (counters'.success > 0 <=> Overall(lost, good))
      BY <2>0, <3>1, <3>2, SettleCounts
    <3>6. OutcomeMatchesMetrics'
      BY <2>0, <2>2, <3>4, <3>5 DEF OutcomeMatchesMetrics
    <3> QED BY <3>5, <3>6 DEF MetricsInv
  <2> QED BY <2>6, <2>7
<1>3. CASE Receive \/ Cancel \/ UNCHANGED vars
  <2>1. UNCHANGED <<pc, cluster, fine, down, counters, metrics>>
    BY <1>3 DEF Receive, Cancel, vars, verdict, results
  <2> QED BY <2>1 DEF MetricsInv, OutcomeMatchesMetrics, Works
<1>4. ASSUME NEW e \in Endpoints, Worker(e) \/ WatcherCloses(e) PROVE MetricsInv'
  <2>1. UNCHANGED <<pc, cluster, fine, down, counters, metrics>>
    BY <1>4 DEF Worker, DialFails, Dialed, WriteFails, Written, Close, WatcherCloses, Send,
                verdict, results
  <2> QED BY <2>1 DEF MetricsInv, OutcomeMatchesMetrics, Works
<1> QED BY <1>1, <1>2, <1>3, <1>4 DEF Next, Collector

\* The outcome of a call is the one the metrics it leaves behind tell of:
\* some cluster works, and so does every required one (network.go:185-216).
THEOREM NetworkOutcomeMatchesMetrics == Spec => []OutcomeMatchesMetrics
<1>1. Init => AnswersInv /\ MetricsInv
  BY DEF Init, AnswersInv, MetricsInv, OutcomeMatchesMetrics, Fresh
<1>2. MetricsInv => OutcomeMatchesMetrics
  BY DEF MetricsInv
<1> QED BY <1>1, <1>2, AnswersStep, MetricsStep, NetworkInvHolds, PTL DEF Spec

-----------------------------------------------------------------------------
(***************************************************************************)
(* Once the context is cancelled.  A call that begins after that dials in  *)
(* vain: it collects failures only, and finds every cluster down.          *)
(***************************************************************************)
Hopeless(n) ==
  /\ cancelled /\ counters.success <= n
  /\ pc = "collect" =>
       /\ \A e \in Endpoints : worker[e] \in {"none", "dial"}
       /\ \A a \in Given : a.failed
       /\ down = cluster - 1

LEMMA HopelessFrom ==
  ASSUME NEW n, Inv, pc = "idle", cancelled, counters.success <= n
  PROVE  Hopeless(n)
  BY DEF Hopeless

LEMMA HopelessCluster ==
  ASSUME Inv, Active = {}, NEW i \in Clusters, CheckCluster(i)
  PROVE  /\ \A e \in Endpoints : worker'[e] \in {"none", "dial"}
         /\ Given' = {} /\ cluster' = i
<1>1. \A e \in Endpoints : worker[e] = "none"
  BY DEF Active
<1> QED BY <1>1 DEF CheckCluster, Given, In

LEMMA HopelessStep ==
  ASSUME NEW n \in 0 .. MaxCount
  PROVE  Inv /\ Hopeless(n) /\ [Next]_vars => Hopeless(n)'
<1> SUFFICES ASSUME Inv, Hopeless(n), [Next]_vars PROVE Hopeless(n)'
  OBVIOUS
<1>0. cancelled /\ counters.success <= n /\ 0 <= n /\ n \in Nat /\ counters \in Counters
  BY ThresholdsAssumption DEF Hopeless, Inv, TypeOK
<1>1. CASE Begin
  <2>1. CASE Sizes = <<>>
    <3>1. pc' = "idle" /\ counters'.success = 0 /\ cancelled'
      BY <1>0, <1>1, <2>1 DEF Begin, Settle
    <3> QED BY <1>0, <3>1 DEF Hopeless
  <2>2. CASE Sizes # <<>>
    <3>1. /\ Active = {} /\ CheckCluster(1) /\ 1 \in Clusters
          /\ down' = 0 /\ cancelled' /\ counters' = counters
      BY <1>0, <1>1, <2>2, SizesType DEF Begin, Inv, ChannelInv, verdict
    <3>2. 0 = 1 - 1
      OBVIOUS
    <3> QED BY <1>0, <3>1, <3>2, HopelessCluster DEF Hopeless
  <2> QED BY <2>1, <2>2
<1>2. CASE Receive
  <2>1. /\ out \in Seq(Results) /\ checks \in Seq(Results) /\ out # <<>> /\ Head(out) \in Results
        /\ checks' = Append(checks, Head(out)) /\ out' = Tail(out)
        /\ UNCHANGED <<pc, cluster, worker, down, counters, cancelled>>
    BY <1>2 DEF Receive, Inv, TypeOK, verdict, results
  <2>2. Given' = Given
    BY <2>1, InAppend, InHeadTail DEF Given
  <2> QED BY <2>1, <2>2 DEF Hopeless
<1>3. CASE ClusterDone
  <2>1. /\ pc = "collect" /\ cluster \in Nat /\ Clusters = 1 .. Len(Sizes) /\ cluster \in Clusters
        /\ Active = {} /\ cancelled' = cancelled /\ Len(Sizes) \in Nat
    <3>1. /\ pc = "collect" /\ Len(checks) = Sizes[cluster] /\ cluster \in Clusters
          /\ Len(out) + Len(checks) + Cardinality(Active) = Sizes[cluster]
          /\ cancelled' = cancelled
      BY <1>3 DEF ClusterDone, Complete, Inv, ChannelInv
    <3> QED BY <3>1, ActiveIsFinite, SizesType
  <2>2. AllDown(checks) /\ down = cluster - 1
    BY <2>1 DEF Hopeless, AllDown, Given, In
  <2>3. down + 1 = cluster
    BY <2>1, <2>2
  <2>4. CASE cluster < Len(Sizes)
    <3>1. /\ CheckCluster(cluster + 1) /\ cluster + 1 \in Clusters
          /\ down' = cluster /\ counters' = counters
      BY <1>3, <2>1, <2>2, <2>3, <2>4 DEF ClusterDone
    <3>2. cluster = cluster + 1 - 1
      BY <2>1
    <3> QED BY <1>0, <2>1, <3>1, <3>2, HopelessCluster DEF Hopeless
  <2>5. CASE ~(cluster < Len(Sizes))
    <3>1. PICK good : Settle(Overall(cluster, good))
      BY <1>3, <2>2, <2>3, <2>5 DEF ClusterDone
    <3>2. ~Overall(cluster, good)
      BY <2>5 DEF Overall
    <3>3. pc' = "idle" /\ counters'.success = 0
      BY <3>1, <3>2 DEF Settle
    <3> QED BY <1>0, <2>1, <3>3 DEF Hopeless
  <2> QED BY <2>4, <2>5
<1>4. ASSUME NEW e \in Endpoints, Worker(e) \/ WatcherCloses(e) PROVE Hopeless(n)'
  <2>1. UNCHANGED <<pc, cluster, down, counters, cancelled>>
    BY <1>4 DEF Worker, DialFails, Dialed, WriteFails, Written, Close, WatcherCloses, Send,
                verdict, results
  <2>2. CASE pc = "idle"
    BY <1>0, <2>1, <2>2 DEF Hopeless
  <2>3. CASE pc = "collect"
    <3>0. worker[e] \in {"none", "dial"}
      BY <2>3 DEF Hopeless
    <3>1. CASE DialFails(e)
      <4> DEFINE new == [n |-> e, failed |-> TRUE]
      <4>1. /\ out' = Append(out, new) /\ checks' = checks /\ out \in Seq(Results)
            /\ new \in Results /\ new.failed = TRUE
            /\ worker' = [worker EXCEPT ![e] = "none"]
        BY <3>1 DEF DialFails, Send, Inv, TypeOK, Results
      <4> HIDE DEF new
      <4>2. Given' = Given \cup {new}
        BY <4>1, InAppend DEF Given
      <4>3. \A a \in Given' : a.failed
        BY <2>3, <4>1, <4>2 DEF Hopeless
      <4>4. \A d \in Endpoints : worker'[d] \in {"none", "dial"}
        BY <2>3, <4>1 DEF Hopeless, Inv, TypeOK
      <4> QED BY <1>0, <2>1, <2>3, <4>3, <4>4 DEF Hopeless
    <3>2. CASE WatcherCloses(e)
      BY <1>0, <2>1, <3>2 DEF WatcherCloses, Hopeless, Given, gathering
    <3> QED BY <1>0, <1>4, <3>0, <3>1, <3>2 DEF Worker, Dialed, WriteFails, Written, Close
  <2> QED BY <2>2, <2>3 DEF Inv, TypeOK
<1>5. CASE Cancel \/ UNCHANGED vars
  BY <1>0, <1>5 DEF Cancel, vars, gathering, verdict, results, Hopeless, Given
<1> QED BY <1>1, <1>2, <1>3, <1>4, <1>5 DEF Next, Collector

\* Once the context is cancelled no call succeeds, at whatever moment a dial,
\* a writer and a watcher notice it (network.go:55-60, 68-75).
THEOREM NetworkNoSuccessOnceCancelled == Spec => NoSuccessOnceCancelled
<1>1. ASSUME NEW n \in 0 .. MaxCount
      PROVE  Spec => [](pc = "idle" /\ cancelled /\ counters.success <= n
                          => [](counters.success <= n))
  <2>1. Inv /\ pc = "idle" /\ cancelled /\ counters.success <= n => Hopeless(n)
    BY HopelessFrom
  <2>2. Inv /\ Hopeless(n) /\ [Next]_vars => Hopeless(n)'
    BY HopelessStep
  <2>3. Hopeless(n) => counters.success <= n
    BY DEF Hopeless
  <2> QED BY <2>1, <2>2, <2>3, NetworkInvHolds, PTL DEF Spec
<1> QED BY <1>1 DEF NoSuccessOnceCancelled

-----------------------------------------------------------------------------
(***************************************************************************)
(* The record.  The endpoints that took the metric in this call are those  *)
(* whose answer is a success, and then those whose metric is one; so a     *)
(* call counts as a success exactly when metrics could be relayed, and the *)
(* counters follow the calls that could and could not.                     *)
(***************************************************************************)
Good(e) == [n |-> e, failed |-> FALSE] \in Given

TookInv ==
  /\ took \subseteq Endpoints
  /\ \A e \in Endpoints : worker[e] \in {"write", "close"} => conn[e] # "none"
  /\ pc = "idle" => took = {}
  /\ pc = "collect" =>
       /\ \A i \in Clusters : i < cluster =>
            \A e \in Of(i) : e \in took <=> metrics[e] = "success"
       /\ \A e \in Of(cluster) : e \in took <=> Good(e)
       /\ \A i \in Clusters : cluster < i => Of(i) \cap took = {}

CountInv ==
  /\ outage \in Nat /\ service \in Nat
  /\ outage <= counters.failed \/ MaxCount <= counters.failed
  /\ service <= counters.success \/ MaxCount <= counters.success
  /\ ResetCount <= counters.success => counters.failed = 0
  /\ CheckCount <= counters.checked =>
       /\ FailCount <= counters.failed => report = "error"
       /\ counters.failed = 0 /\ counters.success > 0 => report = "success"

\* What the answers of the cluster become when the collector publishes them.
LEMMA PublishGood ==
  ASSUME Inv, AnswersInv, ClusterDone, NEW e \in Of(cluster)
  PROVE  metrics'[e] = "success" <=> Good(e)
<1>1. /\ pc = "collect" /\ cluster \in Clusters /\ Active = {} /\ Given = In(checks)
      /\ Given \subseteq Results
      /\ metrics' = [d \in Endpoints |-> IF Answer(TRUE, d) THEN "error"
                                         ELSE IF Answer(FALSE, d) THEN "success"
                                         ELSE metrics[d]]
  BY DoneIsDone, GivenType DEF Publish, Inv
<1>2. e \in Endpoints
  BY <1>1, SizesType
<1>3. \A f : Answer(f, e) <=> [n |-> e, failed |-> f] \in Given
  BY <1>1 DEF Answer, In
<1>4. PICK a \in Given : a.n = e
  BY <1>1 DEF AnswersInv
<1>5. a = [n |-> e, failed |-> a.failed] /\ a.failed \in BOOLEAN
  BY <1>1, <1>4 DEF Results
<1>6. ASSUME NEW f \in BOOLEAN PROVE [n |-> e, failed |-> f] \in Given <=> f = a.failed
  <2> DEFINE b == [n |-> e, failed |-> f]
  <2>1. b.n = e /\ b.failed = f
    OBVIOUS
  <2>2. f = a.failed => b = a
    BY <1>5
  <2> HIDE DEF b
  <2>3. b \in Given => b = a
    BY <1>1, <1>4, <2>1 DEF AnswersInv
  <2>4. b \in Given <=> f = a.failed
    BY <1>4, <2>1, <2>2, <2>3
  <2> QED BY <2>4 DEF b
<1>7. (Answer(TRUE, e) <=> a.failed) /\ (Answer(FALSE, e) <=> ~a.failed)
  BY <1>3, <1>5, <1>6
<1>8. Good(e) <=> ~a.failed
  BY <1>5, <1>6 DEF Good
<1> QED BY <1>1, <1>2, <1>7, <1>8

\* When the collector is done with a cluster, took and the new metrics agree
\* on all clusters up to it.
LEMMA TookTells ==
  ASSUME Inv, AnswersInv, TookInv, ClusterDone, NEW i \in Clusters, i <= cluster,
         NEW e \in Of(i)
  PROVE  e \in took <=> metrics'[e] = "success"
<1>1. pc = "collect" /\ cluster \in Nat /\ i \in Nat
  BY DoneIsDone, SizesType
<1>2. CASE i = cluster
  BY <1>1, <1>2, PublishGood DEF TookInv
<1>3. CASE i # cluster
  <2>1. i < cluster
    BY <1>1, <1>3
  <2>2. metrics'[e] = metrics[e]
    BY <1>3, PublishTells
  <2> QED BY <1>1, <2>1, <2>2 DEF TookInv
<1> QED BY <1>2, <1>3

\* No endpoint takes the metric in a step of the collector.
LEMMA NoneTakes ==
  ASSUME Active = {} \/ UNCHANGED worker
  PROVE  {e \in Endpoints : Takes(e)} = {}
  BY DEF Takes, Active

\* A new cluster: none of its endpoints has answered or taken anything.
LEMMA TookOpened ==
  ASSUME Inv, TookInv, Active = {}, NEW i \in Clusters, CheckCluster(i), pc' = "collect",
         UNCHANGED <<conn, took>>,
         \A j \in Clusters : j < i => \A e \in Of(j) : e \in took <=> metrics'[e] = "success",
         \A j \in Clusters : i <= j => Of(j) \cap took = {}
  PROVE  TookInv'
<1>1. cluster' = i /\ Given' = {}
  BY DEF CheckCluster, Given, In
<1>2. \A e \in Endpoints : worker'[e] \notin {"write", "close"}
  BY DEF CheckCluster, Active
<1>3. \A e : ~Good(e)'
  BY <1>1 DEF Good
<1>4. \A e \in Of(i) : e \notin took
  BY SizesType
<1>5. \A j \in Clusters : i < j => Of(j) \cap took = {}
  BY SizesType
<1> QED BY <1>1, <1>2, <1>3, <1>4, <1>5 DEF TookInv

\* The goroutine of e answers.
LEMMA TookSent ==
  ASSUME Inv, AnswersInv, TookInv, NEW e \in Endpoints, worker[e] # "none",
         NEW isFailed \in BOOLEAN, Send(e, isFailed),
         took' = IF isFailed THEN took ELSE took \cup {e}
  PROVE  TookInv'
<1> DEFINE new == [n |-> e, failed |-> isFailed]
<1>1. /\ out' = Append(out, new) /\ checks' = checks /\ new \in Results /\ out \in Seq(Results)
      /\ worker' = [worker EXCEPT ![e] = "none"] /\ conn' = [conn EXCEPT ![e] = "none"]
      /\ UNCHANGED <<pc, cluster, metrics>>
  BY DEF Send, Results, Inv, TypeOK, results
<1>2. Given' = Given \cup {new}
  <2> HIDE DEF new
  <2> QED BY <1>1, InAppend DEF Given
<1>3. e \in Active /\ pc = "collect" /\ e \in Of(cluster) /\ cluster \in Clusters
  BY DEF Active, Inv, TypeOK, ChannelInv
<1>4. ~Good(e)
  BY <1>3 DEF AnswersInv, Good
<1>5. \A d : Good(d)' <=> Good(d) \/ (d = e /\ ~isFailed)
  BY <1>2 DEF Good
<1>6. \A d \in Endpoints : worker'[d] \in {"write", "close"} => conn'[d] # "none"
  BY <1>1 DEF TookInv, Inv, TypeOK
<1>7. \A d : d # e => (d \in took' <=> d \in took)
  OBVIOUS
<1>8. \A d \in Of(cluster) : d \in took' <=> Good(d)'
  BY <1>3, <1>4, <1>5, <1>7 DEF TookInv
<1>9. \A i \in Clusters : i # cluster => e \notin Of(i)
  BY <1>3, OfOne
<1>10. \A i \in Clusters : i < cluster =>
         \A d \in Of(i) : d \in took' <=> metrics[d] = "success"
  <2>1. \A i \in Clusters : i < cluster => i # cluster
    BY <1>3, SizesType
  <2> QED BY <1>3, <1>7, <1>9, <2>1 DEF TookInv
<1>11. \A i \in Clusters : cluster < i => Of(i) \cap took' = {}
  <2>1. \A i \in Clusters : cluster < i => i # cluster
    BY <1>3, SizesType
  <2> QED BY <1>3, <1>7, <1>9, <2>1 DEF TookInv
<1> QED BY <1>1, <1>3, <1>6, <1>8, <1>10, <1>11 DEF TookInv

\* The goroutine of e takes a step; e takes the metric when it closes a
\* connection that is still open.
LEMMA TookWorked ==
  ASSUME Inv, AnswersInv, TookInv, NEW e \in Endpoints, Worker(e) \/ WatcherCloses(e), Records
  PROVE  TookInv'
<1>0. /\ worker \in [Endpoints -> Stages] /\ conn \in [Endpoints -> {"none", "open", "closed"}]
      /\ pc = "idle" => took = {} /\ worker[e] = "none"
  BY DEF Inv, TypeOK, ChannelInv, Active, TookInv
<1>1. CASE DialFails(e) \/ WriteFails(e) \/ Close(e)
  <2>1. PICK isFailed \in BOOLEAN :
          Send(e, isFailed) /\ (~isFailed <=> worker[e] = "close" /\ conn[e] # "closed")
    BY <1>1 DEF DialFails, WriteFails, Close
  <2>2. worker[e] # "none" /\ worker' = [worker EXCEPT ![e] = "none"] /\ pc' = pc
    BY <1>1, <2>1 DEF DialFails, WriteFails, Close, Send
  <2>3. \A d \in Endpoints : Takes(d) <=> d = e /\ ~isFailed
    BY <1>0, <2>1, <2>2 DEF Takes, TookInv
  <2>4. took' = took \cup {d \in Endpoints : Takes(d)}
    BY <1>0, <2>2 DEF Records
  <2>5. took' = IF isFailed THEN took ELSE took \cup {e}
    BY <2>3, <2>4
  <2> QED BY <2>1, <2>2, <2>5, TookSent
<1>2. CASE Dialed(e) \/ Written(e) \/ WatcherCloses(e)
  <2>1. UNCHANGED <<pc, cluster, out, checks, metrics>>
    BY <1>2 DEF Dialed, Written, WatcherCloses, gathering, results
  <2>2. \A d \in Endpoints : ~Takes(d)
    BY <1>0, <1>2 DEF Dialed, Written, WatcherCloses, Takes
  <2>3. took' = took
    BY <1>0, <2>1, <2>2 DEF Records
  <2>4. \A d \in Endpoints : worker'[d] \in {"write", "close"} => conn'[d] # "none"
    BY <1>0, <1>2 DEF Dialed, Written, WatcherCloses, TookInv
  <2>5. \A d : Good(d)' <=> Good(d)
    BY <2>1 DEF Good, Given
  <2> QED BY <2>1, <2>3, <2>4, <2>5 DEF TookInv
<1> QED BY <1>1, <1>2 DEF Worker

\* The call returns: the record of it is closed.
LEMMA TookReturned ==
  ASSUME Inv, Active = {}, UNCHANGED <<worker, conn>>, pc' = "idle", took' = {}
  PROVE  TookInv'
  BY DEF TookInv, Active

LEMMA TookStep == Inv /\ AnswersInv /\ TookInv /\ [HistoryNext]_historyVars => TookInv'
<1> SUFFICES ASSUME Inv, AnswersInv, TookInv, [HistoryNext]_historyVars PROVE TookInv'
  OBVIOUS
<1>0. took \subseteq Endpoints /\ (pc = "idle" => took = {} /\ Active = {})
  BY DEF TookInv, Inv, ChannelInv
<1>1. CASE Begin /\ Records
  <2>1. pc = "idle" /\ Active = {} /\ UNCHANGED <<conn, metrics>> /\ took = {}
    BY <1>0, <1>1 DEF Begin
  <2>2. took' = {}
    BY <1>1, <2>1, NoneTakes DEF Records
  <2>3. CASE Sizes = <<>>
    BY <1>1, <2>1, <2>2, <2>3, TookReturned DEF Begin, Settle
  <2>4. CASE Sizes # <<>>
    <3>1. CheckCluster(1) /\ pc' = "collect" /\ 1 \in Clusters
      BY <1>1, <2>4, SizesType DEF Begin
    <3>2. \A j \in Clusters : ~(j < 1)
      BY SizesType
    <3> QED BY <2>1, <2>2, <3>1, <3>2, TookOpened
  <2> QED BY <2>3, <2>4
<1>2. CASE Receive /\ Records
  <2>1. /\ out \in Seq(Results) /\ checks \in Seq(Results) /\ out # <<>> /\ Head(out) \in Results
        /\ checks' = Append(checks, Head(out)) /\ out' = Tail(out) /\ pc = "collect"
        /\ UNCHANGED <<pc, cluster, worker, conn, metrics>>
    BY <1>2 DEF Receive, Inv, TypeOK, results
  <2>2. Given' = Given
    BY <2>1, InAppend, InHeadTail DEF Given
  <2>3. \A d : Good(d)' <=> Good(d)
    BY <2>2 DEF Good
  <2>4. took' = took
    BY <1>2, <2>1, NoneTakes DEF Records
  <2> QED BY <2>1, <2>3, <2>4 DEF TookInv
<1>3. CASE ClusterDone /\ Records
  <2>1. /\ pc = "collect" /\ cluster \in Nat /\ cluster \in Clusters /\ Active = {}
        /\ conn' = conn
    BY <1>3, DoneIsDone DEF ClusterDone
  <2>2. CASE cluster < Len(Sizes)
    <3>1. CheckCluster(cluster + 1) /\ pc' = "collect" /\ cluster + 1 \in Clusters
      BY <1>3, <2>1, <2>2, SizesType DEF ClusterDone
    <3>2. took' = took
      BY <1>3, <2>1, <3>1, NoneTakes DEF Records
    <3>3. \A j \in Clusters : j < cluster + 1 =>
            \A e \in Of(j) : e \in took <=> metrics'[e] = "success"
      <4>1. \A j \in Clusters : j < cluster + 1 => j <= cluster
        BY <2>1, SizesType
      <4> QED BY <1>3, <4>1, TookTells
    <3>4. \A j \in Clusters : cluster + 1 <= j => Of(j) \cap took = {}
      <4>1. \A j \in Clusters : cluster + 1 <= j => cluster < j
        BY <2>1, SizesType
      <4> QED BY <2>1, <4>1 DEF TookInv
    <3> QED BY <2>1, <3>1, <3>2, <3>3, <3>4, TookOpened
  <2>3. CASE ~(cluster < Len(Sizes))
    <3>1. pc' = "idle" /\ UNCHANGED worker
      BY <1>3, <2>3 DEF ClusterDone, Settle
    <3>2. took' = {}
      BY <1>3, <3>1 DEF Records
    <3> QED BY <2>1, <3>1, <3>2, TookReturned
  <2> QED BY <2>2, <2>3
<1>4. CASE (\E e \in Endpoints : Worker(e) \/ WatcherCloses(e)) /\ Records
  BY <1>4, TookWorked
<1>5. CASE Cancel /\ Records
  <2>1. UNCHANGED <<pc, cluster, worker, conn, out, checks, metrics>>
    BY <1>5 DEF Cancel, gathering, results
  <2>2. took' = took
    BY <1>0, <1>5, <2>1, NoneTakes DEF Records
  <2> QED BY <2>1, <2>2 DEF TookInv, Good, Given
<1>6. CASE UNCHANGED historyVars
  BY <1>6 DEF historyVars, vars, record, gathering, results, TookInv, Good, Given
<1> QED BY <1>1, <1>2, <1>3, <1>4, <1>5, <1>6 DEF HistoryNext, Next, Collector

\* The last cluster of a call: it counts as a success exactly when metrics
\* could be relayed.
LEMMA DoneIsServing ==
  ASSUME Inv, AnswersInv, MetricsInv, TookInv, ClusterDone, pc' = "idle", MetricsInv',
         NEW up \in BOOLEAN, Settle(up)
  PROVE  up <=> Serving
<1>1. /\ pc = "collect" /\ cluster \in Clusters /\ cluster \in Nat /\ counters \in Counters
      /\ Clusters = 1 .. Len(Sizes) /\ Len(Sizes) \in Nat /\ Required \subseteq Clusters
  BY DoneIsDone, SizesType, NetworkAssumption DEF Inv, TypeOK, Clusters
<1>2. ~(cluster < Len(Sizes))
  BY <1>1 DEF ClusterDone
<1>3. \A i \in Clusters : i <= cluster
  BY <1>1, <1>2
<1>4. \A i \in Clusters : \A e \in Of(i) : e \in took <=> metrics'[e] = "success"
  BY <1>3, TookTells
<1>5. \A i \in Clusters : Works(i)' <=> Of(i) \cap took # {}
  BY <1>4 DEF Works
<1>6. took # {} <=> \E i \in Clusters : Of(i) \cap took # {}
  <2>1. took \subseteq Endpoints
    BY DEF TookInv
  <2> QED BY <2>1 DEF Endpoints
<1>7. Serving <=> (\E i \in Clusters : Works(i)') /\ (\A i \in Required : Works(i)')
  BY <1>1, <1>5, <1>6 DEF Serving
<1>8. counters'.checked > 0
  BY <1>1, ThresholdsAssumption DEF Settle, Bump, Counters
<1>9. counters'.success > 0 <=> (\E i \in Clusters : Works(i)') /\ (\A i \in Required : Works(i)')
  BY <1>8 DEF MetricsInv, OutcomeMatchesMetrics
<1> QED BY <1>1, <1>7, <1>9, SettleCounts

\* One more call, on thresholds that the counters can reach.
LEMMA SettleKeepsCount ==
  ASSUME FailCount \in 1 .. MaxCount, ResetCount \in 1 .. MaxCount,
         counters \in Counters, CountInv, NEW up \in BOOLEAN, Settle(up),
         outage' = IF up THEN 0 ELSE Count(outage),
         service' = IF up THEN Count(service) ELSE 0
  PROVE  CountInv'
<1>0. /\ counters.failed \in 0 .. MaxCount /\ counters.success \in 0 .. MaxCount
      /\ outage \in Nat /\ service \in Nat /\ MaxCount \in Nat /\ 0 < MaxCount
      /\ CheckCount \in Int /\ counters' \in Counters
  BY SettleType, ThresholdsAssumption DEF CountInv, Counters
<1>1. /\ counters'.failed = Losses(up)
      /\ counters'.success = IF up THEN Bump(counters.success) ELSE 0
      /\ counters'.checked = Bump(counters.checked)
  BY DEF Settle
<1>2. outage' \in Nat /\ service' \in Nat
  BY <1>0, CallsAssumption DEF Count
<1>3. outage' <= counters'.failed \/ MaxCount <= counters'.failed
  <2>1. CASE up
    BY <1>0, <2>1 DEF Counters
  <2>2. CASE ~up
    <3>1. counters'.failed = Bump(counters.failed) /\ outage' = Count(outage)
      BY <1>1, <2>2 DEF Losses
    <3> QED BY <1>0, <3>1, CallsAssumption DEF Bump, Count, CountInv
  <2> QED BY <2>1, <2>2
<1>4. service' <= counters'.success \/ MaxCount <= counters'.success
  <2>1. CASE up
    <3>1. counters'.success = Bump(counters.success) /\ service' = Count(service)
      BY <1>1, <2>1
    <3> QED BY <1>0, <3>1, CallsAssumption DEF Bump, Count, CountInv
  <2>2. CASE ~up
    BY <1>0, <2>2 DEF Counters
  <2> QED BY <2>1, <2>2
<1>5. ResetCount <= counters'.success => counters'.failed = 0
  BY <1>0, <1>1 DEF Losses
<1>6. CheckCount <= counters'.checked =>
        /\ FailCount <= counters'.failed => report' = "error"
        /\ counters'.failed = 0 /\ counters'.success > 0 => report' = "success"
  <2> SUFFICES ASSUME CheckCount <= counters'.checked
               PROVE  /\ FailCount <= counters'.failed => report' = "error"
                      /\ counters'.failed = 0 /\ counters'.success > 0 => report' = "success"
    OBVIOUS
  <2>1. counters'.checked \in Int /\ counters'.failed \in Nat
    BY <1>0 DEF Counters
  <2>2. report' = IF counters'.failed > 0
                  THEN IF counters'.failed >= FailCount THEN "error" ELSE "warn"
                  ELSE "success"
    <3>1. ~(counters'.checked < CheckCount)
      BY <1>0, <2>1
    <3> QED BY <1>1, <3>1 DEF Settle
  <2> QED BY <2>1, <2>2
<1> QED BY <1>2, <1>3, <1>4, <1>5, <1>6 DEF CountInv

\* A step that does not end a call leaves the counts alone.
LEMMA CountSame ==
  ASSUME CountInv, Records, ~Returns, UNCHANGED <<counters, report>>
  PROVE  CountInv'
  BY DEF Records, CountInv

LEMMA CountStep ==
  ASSUME FailCount \in 1 .. MaxCount, ResetCount \in 1 .. MaxCount
  PROVE  /\ Inv /\ AnswersInv /\ MetricsInv /\ MetricsInv' /\ TookInv /\ CountInv
         /\ [HistoryNext]_historyVars
         => CountInv'
<1> SUFFICES ASSUME Inv, AnswersInv, MetricsInv, MetricsInv', TookInv, CountInv,
                    [HistoryNext]_historyVars
             PROVE  CountInv'
  OBVIOUS
<1>0. counters \in Counters
  BY DEF Inv, TypeOK
<1>1. CASE Begin /\ Records
  <2>1. CASE Sizes = <<>>
    <3>1. Settle(FALSE) /\ pc' = "idle" /\ took = {}
      BY <1>1, <2>1 DEF Begin, Settle, TookInv
    <3>2. Returns /\ ~Serving
      BY <1>1, <3>1 DEF Returns, Serving
    <3> QED BY <1>0, <1>1, <3>1, <3>2, SettleKeepsCount DEF Records
  <2>2. CASE Sizes # <<>>
    BY <1>1, <2>2, CountSame DEF Begin, Returns
  <2> QED BY <2>1, <2>2
<1>2. CASE ClusterDone /\ Records
  <2>1. CASE cluster < Len(Sizes)
    <3>1. pc' = "collect" /\ UNCHANGED <<counters, report>>
      BY <1>2, <2>1 DEF ClusterDone
    <3> QED BY <1>2, <3>1, CountSame DEF Returns
  <2>2. CASE ~(cluster < Len(Sizes))
    <3>1. PICK lost, good : Settle(Overall(lost, good))
      BY <1>2, <2>2 DEF ClusterDone
    <3>2. Overall(lost, good) \in BOOLEAN
      BY DEF Overall
    <3>3. PICK up \in BOOLEAN : Settle(up)
      BY <3>1, <3>2
    <3>4. pc' = "idle" /\ Returns
      BY <1>2, <3>3 DEF Settle, Returns
    <3>5. up <=> Serving
      BY <1>2, <3>3, <3>4, DoneIsServing
    <3>6. /\ outage' = IF up THEN 0 ELSE Count(outage)
          /\ service' = IF up THEN Count(service) ELSE 0
      BY <1>2, <3>4, <3>5 DEF Records
    <3> QED BY <1>0, <3>3, <3>6, SettleKeepsCount
  <2> QED BY <2>1, <2>2
<1>3. CASE Receive /\ Records
  <2>1. pc = "collect" /\ pc' = pc /\ UNCHANGED <<counters, report>>
    BY <1>3 DEF Receive, results
  <2> QED BY <1>3, <2>1, CountSame DEF Returns
<1>4. CASE (\E e \in Endpoints : Worker(e) \/ WatcherCloses(e)) /\ Records
  <2>1. PICK e \in Endpoints : Worker(e) \/ WatcherCloses(e)
    BY <1>4
  <2>2. UNCHANGED <<pc, counters, report>>
    BY <2>1 DEF Worker, DialFails, Dialed, WriteFails, Written, Close, WatcherCloses, Send, results
  <2>3. CASE pc = "collect"
    BY <1>4, <2>2, <2>3, CountSame DEF Returns
  <2>4. CASE pc = "idle"
    <3>1. worker[e] = "none" /\ conn \in [Endpoints -> {"none", "open", "closed"}]
      BY <2>4 DEF Inv, TypeOK, ChannelInv, Active
    <3>2. conn' # conn
      BY <2>1, <3>1 DEF Worker, DialFails, Dialed, WriteFails, Written, Close, WatcherCloses
    <3>3. ~Returns
      BY <2>4, <3>2 DEF Returns, Begin, ClusterDone
    <3> QED BY <1>4, <2>2, <3>3, CountSame
  <2> QED BY <2>3, <2>4 DEF Inv, TypeOK
<1>5. CASE Cancel /\ Records
  <2>1. cancelled' # cancelled /\ UNCHANGED <<counters, report>>
    BY <1>5 DEF Cancel, results
  <2>2. ~Returns
    BY <2>1 DEF Returns, Begin, ClusterDone
  <2> QED BY <1>5, <2>1, <2>2, CountSame
<1>6. CASE UNCHANGED historyVars
  BY <1>6 DEF historyVars, vars, record, results, CountInv
<1> QED BY <1>1, <1>2, <1>3, <1>4, <1>5, <1>6 DEF HistoryNext, Next, Collector

\* What is reported follows the endpoints: error after fail_count calls that
\* found no way to relay metrics, success after reset_count that did, for any
\* thresholds the counters can reach, any clusters and any order of answers
\* (network.go:104-117, 184-216, 218-245).
THEOREM NetworkReportFollowsEndpoints ==
  ASSUME FailCount \in 1 .. MaxCount, ResetCount \in 1 .. MaxCount
  PROVE  HistorySpec => []ReportFollowsEndpoints
<1>1. HistoryInit => Inv /\ AnswersInv /\ MetricsInv /\ TookInv /\ CountInv
  <2> SUFFICES ASSUME HistoryInit PROVE Inv /\ AnswersInv /\ MetricsInv /\ TookInv /\ CountInv
    OBVIOUS
  <2>1. Inv /\ pc = "idle" /\ Init
    BY NetworkInit DEF HistoryInit, Init
  <2>2. AnswersInv /\ MetricsInv
    BY <2>1 DEF Init, AnswersInv, MetricsInv, OutcomeMatchesMetrics, Fresh
  <2>3. TookInv
    BY DEF HistoryInit, Init, TookInv
  <2>4. /\ outage = 0 /\ service = 0 /\ counters.failed = 0 /\ counters.success = 0
        /\ counters.checked = 0
    BY DEF HistoryInit, Init, Fresh
  <2>5. CountInv
    BY <2>4, ThresholdsAssumption DEF CountInv
  <2> QED BY <2>1, <2>2, <2>3, <2>5
<1>2. [HistoryNext]_historyVars => [Next]_vars
  BY DEF HistoryNext, historyVars
<1>3. Inv /\ CountInv => ReportFollowsEndpoints
  <2> SUFFICES ASSUME Inv, CountInv, counters.checked >= CheckCount
               PROVE  /\ outage >= FailCount => report = "error"
                      /\ service >= ResetCount => report = "success"
    BY DEF ReportFollowsEndpoints
  <2>1. /\ counters.failed \in Nat /\ counters.success \in Nat /\ counters.checked \in Nat
        /\ outage \in Nat /\ service \in Nat /\ CheckCount \in Int /\ MaxCount \in Nat
    BY ThresholdsAssumption DEF Inv, TypeOK, Counters, CountInv
  <2> QED BY <2>1 DEF CountInv
<1> QED
  BY <1>1, <1>2, <1>3, NetworkStep, AnswersStep, MetricsStep, TookStep, CountStep,
     PTL DEF HistorySpec
=============================================================================
