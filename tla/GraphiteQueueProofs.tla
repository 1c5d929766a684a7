------------------------ MODULE GraphiteQueueProofs -------------------------
(***************************************************************************)
(* The sender of metrics loses, repeats and reorders nothing for any size  *)
(* of its queue and of its batches and any number of metrics               *)
(* (GraphiteQueue.tla).                                                    *)
(***************************************************************************)
EXTENDS GraphiteQueue, SequenceTheorems, TLAPS

(* Sequences, and the sets of what is in them *)

LEMMA SetOfNone == ToSet(<<>>) = {} /\ Increasing(<<>>)
  BY DEF ToSet, Increasing

LEMMA SetOfAppend ==
  ASSUME NEW S, NEW s \in Seq(S), NEW x
  PROVE  ToSet(Append(s, x)) = ToSet(s) \cup {x}
<1>1. /\ DOMAIN Append(s, x) = DOMAIN s \cup {Len(s) + 1}
      /\ Append(s, x)[Len(s) + 1] = x
      /\ \A i \in DOMAIN s : Append(s, x)[i] = s[i]
  OBVIOUS
<1> QED BY <1>1 DEF ToSet

LEMMA TailOf ==
  ASSUME NEW S, NEW s \in Seq(S), s # <<>>
  PROVE  /\ Tail(s) \in Seq(S) /\ Head(s) \in S /\ Len(Tail(s)) = Len(s) - 1 /\ Len(s) \in Nat
         /\ DOMAIN s = 1 .. Len(s) /\ DOMAIN Tail(s) = 1 .. Len(s) - 1
         /\ Head(s) = s[1] /\ \A i \in 1 .. Len(s) - 1 : Tail(s)[i] = s[i + 1]
  OBVIOUS

LEMMA SetOfTail ==
  ASSUME NEW S, NEW s \in Seq(S), s # <<>>
  PROVE  ToSet(s) = {Head(s)} \cup ToSet(Tail(s))
<1>1. 1 \in DOMAIN s /\ \A i \in DOMAIN s : i = 1 \/ i - 1 \in DOMAIN Tail(s)
  BY TailOf
<1>2. \A i \in DOMAIN Tail(s) : i + 1 \in DOMAIN s /\ Tail(s)[i] = s[i + 1]
  BY TailOf
<1>3. \A i \in DOMAIN s : i - 1 \in DOMAIN Tail(s) => Tail(s)[i - 1] = s[i]
  BY TailOf
<1> QED BY <1>1, <1>2, <1>3, TailOf DEF ToSet

LEMMA SetOfConcat ==
  ASSUME NEW S, NEW s \in Seq(S), NEW t \in Seq(S)
  PROVE  ToSet(s \o t) = ToSet(s) \cup ToSet(t)
<1>1. /\ DOMAIN (s \o t) = 1 .. Len(s) + Len(t)
      /\ DOMAIN s = 1 .. Len(s) /\ DOMAIN t = 1 .. Len(t)
      /\ Len(s) \in Nat /\ Len(t) \in Nat
      /\ \A i \in 1 .. Len(s) : (s \o t)[i] = s[i]
      /\ \A i \in 1 .. Len(t) : (s \o t)[Len(s) + i] = t[i]
  OBVIOUS
<1>2. \A i \in 1 .. Len(s) + Len(t) : i \in 1 .. Len(s) \/ \E j \in 1 .. Len(t) : i = Len(s) + j
  <2> SUFFICES ASSUME NEW i \in 1 .. Len(s) + Len(t), i \notin 1 .. Len(s)
               PROVE  \E j \in 1 .. Len(t) : i = Len(s) + j
    OBVIOUS
  <2>1. i - Len(s) \in 1 .. Len(t) /\ i = Len(s) + (i - Len(s))
    BY <1>1
  <2> QED BY <2>1
<1>3. \A i \in 1 .. Len(s) : i \in 1 .. Len(s) + Len(t)
  BY <1>1
<1>4. \A i \in 1 .. Len(t) : Len(s) + i \in 1 .. Len(s) + Len(t)
  BY <1>1
<1>5. ToSet(s \o t) \subseteq ToSet(s) \cup ToSet(t)
  <2> SUFFICES ASSUME NEW i \in 1 .. Len(s) + Len(t)
               PROVE  (s \o t)[i] \in ToSet(s) \cup ToSet(t)
    BY <1>1 DEF ToSet
  <2> QED BY <1>1, <1>2 DEF ToSet
<1>6. ToSet(s) \subseteq ToSet(s \o t) /\ ToSet(t) \subseteq ToSet(s \o t)
  BY <1>1, <1>3, <1>4 DEF ToSet
<1> QED BY <1>5, <1>6

LEMMA LenOfSeq ==
  ASSUME NEW S, NEW s \in Seq(S)
  PROVE  Len(s) \in Nat
  OBVIOUS

LEMMA SetOfSeq ==
  ASSUME NEW S, NEW s \in Seq(S)
  PROVE  ToSet(s) \subseteq S
  BY DEF ToSet

LEMMA IncreasingAppend ==
  ASSUME NEW s \in Seq(Nat), Increasing(s), NEW x \in Nat, \A m \in ToSet(s) : m < x
  PROVE  Increasing(Append(s, x))
<1>1. /\ DOMAIN Append(s, x) = 1 .. Len(s) + 1 /\ DOMAIN s = 1 .. Len(s) /\ Len(s) \in Nat
      /\ Append(s, x)[Len(s) + 1] = x
      /\ \A i \in 1 .. Len(s) : Append(s, x)[i] = s[i]
  OBVIOUS
<1> SUFFICES ASSUME NEW i \in 1 .. Len(s) + 1, NEW j \in 1 .. Len(s) + 1, i < j
             PROVE  Append(s, x)[i] < Append(s, x)[j]
  BY <1>1 DEF Increasing
<1>2. i \in DOMAIN s /\ (j \in DOMAIN s \/ j = Len(s) + 1)
  BY <1>1
<1>3. s[i] \in ToSet(s)
  BY <1>2 DEF ToSet
<1> QED BY <1>1, <1>2, <1>3 DEF Increasing

LEMMA IncreasingTail ==
  ASSUME NEW s \in Seq(Nat), s # <<>>, Increasing(s)
  PROVE  Increasing(Tail(s)) /\ \A m \in ToSet(Tail(s)) : Head(s) < m
<1>1. \A i \in DOMAIN Tail(s) :
        1 \in DOMAIN s /\ i + 1 \in DOMAIN s /\ 1 < i + 1 /\ Tail(s)[i] = s[i + 1]
  BY TailOf
<1>2. \A i, j \in DOMAIN Tail(s) : i < j => i + 1 < j + 1
  BY TailOf
<1>3. Increasing(Tail(s))
  BY <1>1, <1>2 DEF Increasing
<1>4. ASSUME NEW i \in DOMAIN Tail(s) PROVE Head(s) < Tail(s)[i]
  BY <1>1, <1>4, TailOf DEF Increasing
<1> QED BY <1>3, <1>4 DEF ToSet

LEMMA IncreasingConcat ==
  ASSUME NEW s \in Seq(Nat), NEW t \in Seq(Nat), Increasing(s), Increasing(t),
         \A m \in ToSet(s), n \in ToSet(t) : m < n
  PROVE  Increasing(s \o t)
<1>1. /\ DOMAIN (s \o t) = 1 .. Len(s) + Len(t)
      /\ DOMAIN s = 1 .. Len(s) /\ DOMAIN t = 1 .. Len(t)
      /\ Len(s) \in Nat /\ Len(t) \in Nat
      /\ \A i \in 1 .. Len(s) : (s \o t)[i] = s[i]
      /\ \A i \in 1 .. Len(s) + Len(t) : i \notin 1 .. Len(s) => (s \o t)[i] = t[i - Len(s)]
  OBVIOUS
<1> SUFFICES ASSUME NEW i \in 1 .. Len(s) + Len(t), NEW j \in 1 .. Len(s) + Len(t), i < j
             PROVE  (s \o t)[i] < (s \o t)[j]
  BY <1>1 DEF Increasing
<1>2. CASE j \in DOMAIN s
  <2>1. i \in DOMAIN s
    BY <1>1, <1>2
  <2> QED BY <1>1, <1>2, <2>1 DEF Increasing
<1>3. CASE i \in DOMAIN s /\ j \notin DOMAIN s
  <2>1. j - Len(s) \in DOMAIN t
    BY <1>1, <1>3
  <2>2. s[i] \in ToSet(s) /\ t[j - Len(s)] \in ToSet(t)
    BY <1>3, <2>1 DEF ToSet
  <2> QED BY <1>1, <1>3, <2>2
<1>4. CASE i \notin DOMAIN s
  <2>1. /\ i - Len(s) \in DOMAIN t /\ j - Len(s) \in DOMAIN t /\ i - Len(s) < j - Len(s)
        /\ j \notin DOMAIN s
    BY <1>1, <1>4
  <2> QED BY <1>1, <1>4, <2>1 DEF Increasing
<1> QED BY <1>1, <1>2, <1>3, <1>4

-----------------------------------------------------------------------------
(***************************************************************************)
(* The metrics that wait: each of them is newer than every one sent and    *)
(* was not dropped; those in the batch are older than those in the queue,  *)
(* and the one that Put has in hand is newer than all.                     *)
(***************************************************************************)
Waiting == ToSet(batch) \cup ToSet(queue)

OrderInv ==
  /\ Increasing(batch) /\ Increasing(queue)
  /\ \A m \in ToSet(batch), n \in ToSet(queue) : m < n
  /\ \A m \in Waiting : m \notin dropped /\ \A n \in sent : n < m
  /\ \A h \in InHand : h \notin dropped /\ \A m \in Waiting \cup sent : m < h
  /\ sent \cap dropped = {}

\* There is something in hand only after the first metric, and room for it once
\* a metric has been dropped.
HandInv ==
  /\ InHand # {} => made # 0
  /\ loop \in {"drop again", "retry"} => HasRoom

Inv == TypeOK /\ NothingLost /\ OrderInv /\ HandInv

LEMMA Types ==
  ASSUME TypeOK
  PROVE  /\ Waiting \subseteq 1 .. made /\ sent \subseteq 1 .. made /\ dropped \subseteq 1 .. made
         /\ queue \in Seq(Nat) /\ batch \in Seq(Nat) /\ made \in Nat
<1>1. made \in Nat /\ 1 .. made \subseteq Nat
  <2>1. made \in 0 .. MaxPuts
    BY DEF TypeOK
  <2> QED BY <2>1, QueueAssumption
<1>2. queue \in Seq(1 .. made) /\ batch \in Seq(1 .. made)
  BY DEF TypeOK
<1>3. queue \in Seq(Nat) /\ batch \in Seq(Nat)
  BY <1>1, <1>2, SeqMonotonic
<1>4. ToSet(queue) \subseteq 1 .. made /\ ToSet(batch) \subseteq 1 .. made
  BY <1>2, SetOfSeq
<1> QED BY <1>1, <1>3, <1>4 DEF TypeOK, Waiting

LEMMA Bounds == Capacity \in Nat /\ 0 < Capacity /\ BatchSend \in Nat /\ 0 < BatchSend
  BY QueueAssumption

LEMMA PutStep ==
  ASSUME Inv, Put
  PROVE  Inv'
<1> USE DEF Inv
<1>0. made \in Nat /\ made' = made + 1 /\ InHand = {} /\ made < MaxPuts
  BY Types DEF Put, InHand
<1>1. /\ made \in Nat /\ made' = made + 1 /\ made' \in 0 .. MaxPuts /\ InHand = {}
      /\ 1 .. made' = (1 .. made) \cup {made'} /\ \A m \in 1 .. made : m < made' /\ m # made'
  BY <1>0, QueueAssumption
<1>2. UNCHANGED <<batch, sent, dropped>>
  BY DEF Put, sender
<1>3. queue \in Seq(1 .. made') /\ batch' \in Seq(1 .. made')
  BY <1>1, <1>2, SeqMonotonic DEF TypeOK
<1>4. CASE HasRoom
  <2>1. queue' = Append(queue, made') /\ loop' = "idle"
    BY <1>4 DEF Put
  <2>2. /\ queue' \in Seq(1 .. made') /\ Len(queue') <= Capacity
    BY <1>1, <1>3, <1>4, <2>1, QueueAssumption DEF HasRoom
  <2>3. ToSet(queue') = ToSet(queue) \cup {made'} /\ Increasing(queue')
    BY <1>1, <2>1, Types, SetOfAppend, IncreasingAppend DEF OrderInv, Waiting
  <2>4. TypeOK'
    BY <1>1, <1>2, <1>3, <2>1, <2>2 DEF Put, TypeOK, sender, network
  <2>5. NothingLost' /\ InHand' = {}
    BY <1>1, <1>2, <2>1, <2>3 DEF NothingLost, InHand
  <2>6. OrderInv'
    BY <1>1, <1>2, <2>3, <2>5, Types DEF OrderInv, Waiting
  <2> QED BY <2>1, <2>4, <2>5, <2>6 DEF HandInv
<1>5. CASE ~HasRoom
  <2>1. queue' = queue /\ loop' = "drop" /\ InHand' = {made'}
    BY <1>5 DEF Put, InHand
  <2>2. TypeOK'
    BY <1>1, <1>2, <1>3, <2>1 DEF Put, TypeOK, sender, network
  <2>3. NothingLost'
    BY <1>1, <1>2, <2>1 DEF NothingLost
  <2>4. OrderInv'
    BY <1>1, <1>2, <2>1, Types DEF OrderInv, Waiting
  <2>5. HandInv'
    <3>1. made' # 0
      BY <1>1
    <3> QED BY <2>1, <3>1 DEF HandInv
  <2> QED BY <2>2, <2>3, <2>4, <2>5
<1> QED BY <1>4, <1>5

LEMMA DropStep ==
  ASSUME Inv, Drop
  PROVE  Inv'
<1> USE DEF Inv
<1>1. UNCHANGED <<made, running, batch, pc, nextSend, failed, sent>> /\ UNCHANGED network
      /\ loop' \in {"drop again", "retry"} /\ InHand' = InHand
  BY DEF Drop, InHand, sender
<1>2. CASE queue = <<>>
  <2>1. UNCHANGED <<queue, dropped>>
    BY <1>2 DEF Drop
  <2>2. HasRoom'
    BY <1>2, <2>1, QueueAssumption DEF HasRoom
  <2> QED BY <1>1, <2>1, <2>2 DEF TypeOK, NothingLost, OrderInv, HandInv, Waiting, network
<1>3. CASE queue # <<>>
  <2> DEFINE h == Head(queue)
  <2>1. queue' = Tail(queue) /\ dropped' = dropped \cup {h}
    BY <1>3 DEF Drop, Take
  <2>2. /\ queue \in Seq(1 .. made) /\ queue' \in Seq(1 .. made) /\ h \in 1 .. made
        /\ Len(queue') <= Capacity /\ HasRoom'
    <3>1. queue \in Seq(1 .. made) /\ Len(queue) <= Capacity
      BY DEF TypeOK
    <3>2. /\ Tail(queue) \in Seq(1 .. made) /\ h \in 1 .. made
          /\ Len(Tail(queue)) = Len(queue) - 1 /\ Len(queue) \in Nat
      BY <1>3, <3>1, TailOf
    <3> QED BY <2>1, <3>1, <3>2, QueueAssumption DEF HasRoom
  <2>3. ToSet(queue) = {h} \cup ToSet(queue') /\ Increasing(queue')
        /\ \A m \in ToSet(queue') : h < m
    BY <1>3, <2>1, <2>2, Types, SetOfTail, IncreasingTail DEF OrderInv
  <2>4. TypeOK'
    BY <1>1, <2>1, <2>2 DEF TypeOK, network
  <2>5. NothingLost'
    BY <1>1, <2>1, <2>3 DEF NothingLost
  <2>6. /\ \A m \in ToSet(batch) \cup ToSet(queue') : m # h
        /\ h \notin sent /\ h \notin InHand
    <3>1. made \in Nat /\ ~(h < h)
      BY <2>2, Types
    <3>2. h \in ToSet(queue)
      BY <2>3
    <3>3. /\ \A m \in ToSet(batch) : m < h
          /\ \A n \in sent : n < h
          /\ \A g \in InHand : h < g
      BY <3>2 DEF OrderInv, Waiting
    <3> QED BY <2>3, <3>1, <3>3
  <2>7. OrderInv'
    BY <1>1, <2>1, <2>3, <2>6 DEF OrderInv, Waiting
  <2> QED BY <1>1, <2>2, <2>4, <2>5, <2>7 DEF HandInv
<1> QED BY <1>2, <1>3

LEMMA RetryStep ==
  ASSUME Inv, Retry
  PROVE  Inv'
<1> USE DEF Inv
<1>1. /\ made \in Nat /\ made # 0 /\ made \in 1 .. made
      /\ InHand = {made} /\ InHand' = {}
  <2>1. InHand = {made} /\ InHand' = {}
    BY DEF Retry, InHand
  <2>2. made # 0 /\ made \in Nat
    BY <2>1, Types DEF HandInv
  <2> QED BY <2>1, <2>2
<1>2. UNCHANGED <<made, running, batch, pc, nextSend, failed, sent, dropped>> /\ UNCHANGED network
      /\ loop' = "idle"
  BY DEF Retry, sender
<1>3. HasRoom /\ queue' = Append(queue, made)
  BY DEF Retry, HandInv
<1>4. queue' \in Seq(1 .. made) /\ Len(queue') <= Capacity
  <2>1. queue \in Seq(1 .. made) /\ Len(queue) < Capacity
    BY <1>3 DEF TypeOK, HasRoom
  <2> QED BY <1>1, <1>3, <2>1, QueueAssumption
<1>5. ToSet(queue') = ToSet(queue) \cup {made} /\ Increasing(queue')
  <2>1. \A m \in ToSet(queue) : m < made
    BY <1>1 DEF OrderInv, Waiting
  <2> QED BY <1>1, <1>3, <2>1, Types, SetOfAppend, IncreasingAppend DEF OrderInv
<1>6. TypeOK'
  BY <1>2, <1>4 DEF TypeOK, network
<1>7. NothingLost'
  BY <1>1, <1>2, <1>5 DEF NothingLost
<1>8. OrderInv'
  BY <1>1, <1>2, <1>5 DEF OrderInv, Waiting
<1> QED BY <1>1, <1>2, <1>6, <1>7, <1>8 DEF HandInv

LEMMA SendStep ==
  ASSUME Inv, Send
  PROVE  Inv'
<1> USE DEF Inv
<1>1. /\ UNCHANGED <<queue, made, loop, running, reachable, dropped>> /\ InHand' = InHand
      /\ batch' = <<>> /\ sent' = sent \cup ToSet(batch) /\ pc' = "get"
  BY DEF Send, main, InHand
<1>2. connection' \in Connections /\ nextSend' \in BOOLEAN /\ failed' \in BOOLEAN
  BY Zenon DEF Send, Connections
<1>3. ToSet(batch') = {} /\ Increasing(batch')
  BY <1>1, SetOfNone
<1>4. TypeOK'
  <2>1. batch' \in Seq(1 .. made) /\ Len(batch') = 0 /\ 0 < BatchSend /\ 0 <= BatchSend
    BY <1>1, QueueAssumption
  <2>2. sent' \subseteq 1 .. made
    BY <1>1, Types DEF Waiting
  <2> QED BY <1>1, <1>2, <2>1, <2>2 DEF TypeOK
<1>5. NothingLost'
  BY <1>1, <1>3 DEF NothingLost
<1>6. OrderInv'
  BY <1>1, <1>3 DEF OrderInv, Waiting
<1> QED BY <1>1, <1>4, <1>5, <1>6 DEF HandInv, HasRoom

LEMMA GetStep ==
  ASSUME Inv, Get
  PROVE  Inv'
<1> USE DEF Inv
<1> DEFINE h == Head(queue)
<1>1. /\ queue # <<>> /\ queue' = Tail(queue) /\ batch' = Append(batch, h) /\ pc' = "head"
      /\ UNCHANGED <<made, loop, running, nextSend, failed, connection, reachable, sent, dropped>>
      /\ InHand' = InHand /\ pc \in {"get", "get again"}
  BY DEF Get, Take, main, network, InHand, At
<1>2. /\ queue \in Seq(1 .. made) /\ batch \in Seq(1 .. made)
      /\ Len(queue) <= Capacity /\ Len(batch) < BatchSend
  BY <1>1 DEF TypeOK
<1>3. /\ queue' \in Seq(1 .. made) /\ h \in 1 .. made /\ Len(queue') = Len(queue) - 1
      /\ Len(queue) \in Nat
  BY <1>1, <1>2, TailOf
<1>4. /\ Len(queue') < Capacity /\ Len(queue') <= Capacity
      /\ batch' \in Seq(1 .. made) /\ Len(batch') <= BatchSend
  <2>1. batch' \in Seq(1 .. made) /\ Len(batch') = Len(batch) + 1
    BY <1>1, <1>2, <1>3, AppendProperties
  <2>2. Len(batch) \in Nat
    BY <1>2, LenOfSeq
  <2> QED BY <1>2, <1>3, <2>1, <2>2, Bounds
<1>5. /\ ToSet(queue) = {h} \cup ToSet(queue') /\ Increasing(queue')
      /\ \A m \in ToSet(queue') : h < m
  BY <1>1, <1>2, Types, SetOfTail, IncreasingTail DEF OrderInv
<1>6. ToSet(batch') = ToSet(batch) \cup {h}
  BY <1>1, <1>2, SetOfAppend
<1>7. Increasing(batch')
  <2>1. h \in Nat /\ batch \in Seq(Nat)
    BY <1>3, Types
  <2>2. Increasing(batch) /\ \A m \in ToSet(batch) : m < h
    BY <1>5 DEF OrderInv
  <2> QED BY <1>1, <2>1, <2>2, IncreasingAppend
<1>8. TypeOK'
  BY <1>1, <1>3, <1>4 DEF TypeOK
<1>9. NothingLost'
  BY <1>1, <1>5, <1>6 DEF NothingLost
<1>10. OrderInv'
  BY <1>1, <1>5, <1>6, <1>7 DEF OrderInv, Waiting
<1>11. HandInv'
  BY <1>1, <1>4 DEF HandInv, HasRoom
<1> QED BY <1>8, <1>9, <1>10, <1>11

\* The other steps leave the metrics where they are.
LEMMA QuietStep ==
  ASSUME Inv, UNCHANGED <<queue, made, batch, sent, dropped>>, InHand' = InHand,
         UNCHANGED loop \/ loop' \in {"stopping", "exited"},
         pc' \in {"head", "connect", "send", "get", "get again", "ended"},
         pc' \in {"get", "get again"} => Len(batch) < BatchSend,
         nextSend' \in BOOLEAN, failed' \in BOOLEAN, running' \in BOOLEAN,
         connection' \in Connections, reachable' \in BOOLEAN
  PROVE  Inv'
  BY DEF Inv, TypeOK, NothingLost, OrderInv, HandInv, HasRoom, Waiting

LEMMA NotFullYet == TypeOK /\ Len(batch) # BatchSend => Len(batch) < BatchSend
<1> SUFFICES ASSUME TypeOK, Len(batch) # BatchSend PROVE Len(batch) < BatchSend
  OBVIOUS
<1>1. batch \in Seq(1 .. made) /\ Len(batch) <= BatchSend
  BY DEF TypeOK
<1>2. Len(batch) \in Nat
  BY <1>1, LenOfSeq
<1> QED BY <1>1, <1>2, Bounds

LEMMA Step == Inv /\ [Next]_vars => Inv'
<1> SUFFICES ASSUME Inv, [Next]_vars PROVE Inv'
  OBVIOUS
<1>0. /\ TypeOK
      /\ connection \in Connections
      /\ nextSend \in BOOLEAN /\ failed \in BOOLEAN /\ running \in BOOLEAN /\ reachable \in BOOLEAN
  BY DEF Inv, TypeOK
<1>1. CASE Put \/ Drop \/ Retry \/ Send \/ Get
  BY <1>1, PutStep, DropStep, RetryStep, SendStep, GetStep
<1>2. CASE Stop \/ Exit
  <2>1. /\ UNCHANGED <<queue, made, batch, sent, dropped, pc, nextSend, failed, network>>
        /\ loop' \in {"stopping", "exited"} /\ InHand' = InHand
    BY <1>2 DEF Stop, Exit, InHand, sender
  <2>2. running' \in BOOLEAN
    BY <1>0, <1>2, Zenon DEF Stop, Exit
  <2> QED BY <1>0, <2>1, <2>2, QuietStep DEF TypeOK, network
<1>3. CASE Continue \/ End \/ GetNothing
  <2>1. UNCHANGED <<queue, made, loop, running, batch, sent, dropped, failed, network>>
        /\ InHand' = InHand
    BY <1>3 DEF Continue, End, GetNothing, main, InHand
  <2>2. pc' \in {"head", "connect", "send", "get", "get again", "ended"}
    BY <1>3 DEF Continue, End, GetNothing
  <2>3. pc' \in {"get", "get again"} => Len(batch) < BatchSend
    <3>1. CASE Continue
      <4>1. pc' \in {"get", "get again"} => Len(batch) # BatchSend
        BY <3>1 DEF Continue
      <4> QED BY <1>0, <4>1, NotFullYet
    <3>2. CASE End
      BY <3>2 DEF End
    <3>3. CASE GetNothing
      BY <1>0, <3>3 DEF GetNothing, At, TypeOK
    <3> QED BY <1>3, <3>1, <3>2, <3>3
  <2>4. nextSend' \in BOOLEAN
    BY <1>0, <1>3 DEF Continue, End, GetNothing
  <2> QED BY <1>0, <2>1, <2>2, <2>3, <2>4, QuietStep DEF TypeOK, network
<1>4. CASE Connect \/ ConnectFails \/ SendFails
  <2>1. UNCHANGED <<queue, made, loop, running, batch, sent, dropped, nextSend, reachable>>
        /\ InHand' = InHand
    BY <1>4 DEF Connect, ConnectFails, SendFails, main, network, InHand
  <2>2. pc' \in {"send", "head"} /\ connection' \in Connections
    BY <1>0, <1>4 DEF Connect, ConnectFails, SendFails, network, Connections
  <2>3. failed' \in BOOLEAN
    BY <1>0, <1>4, Zenon DEF Connect, ConnectFails, SendFails
  <2> QED BY <1>0, <2>1, <2>2, <2>3, QuietStep DEF TypeOK
<1>5. CASE RelayDown \/ RelayUp
  <2>1. UNCHANGED <<queue, made, loop, running, batch, sent, dropped, pc, nextSend, failed>>
        /\ InHand' = InHand
    BY <1>5 DEF RelayDown, RelayUp, main, sender, InHand
  <2>2. connection' \in Connections
    BY <1>0, <1>5 DEF RelayDown, RelayUp, Connections
  <2>3. reachable' \in BOOLEAN
    BY <1>0, <1>5, Zenon DEF RelayDown, RelayUp
  <2> QED BY <1>0, <2>1, <2>2, <2>3, QuietStep DEF TypeOK
<1>6. CASE UNCHANGED vars
  BY <1>0, <1>6, QuietStep DEF vars, main, sender, network, InHand, TypeOK
<1> QED BY <1>1, <1>2, <1>3, <1>4, <1>5, <1>6 DEF Next, Sender

LEMMA Start == Init => Inv
<1> SUFFICES ASSUME Init PROVE Inv
  OBVIOUS
<1>0. nextSend \in BOOLEAN /\ failed \in BOOLEAN /\ running \in BOOLEAN /\ reachable \in BOOLEAN
  BY Zenon DEF Init
<1>1. /\ queue = <<>> /\ batch = <<>> /\ made = 0 /\ sent = {} /\ dropped = {} /\ InHand = {}
      /\ loop = "idle" /\ pc = "head" /\ connection = "none"
  BY DEF Init, InHand
<1>2. TypeOK
  BY <1>0, <1>1, QueueAssumption DEF TypeOK, Connections
<1>3. NothingLost /\ OrderInv
  BY <1>1, SetOfNone DEF NothingLost, OrderInv, Waiting
<1> QED BY <1>1, <1>2, <1>3 DEF Inv, HandInv

LEMMA Holds == Spec => []Inv
  BY Start, Step, PTL DEF Spec

\* The goroutine never writes past the end of its batch, and the queue never
\* holds more than it can (metrics.go:61, 95-104).
THEOREM QueueTypeOK == Spec => []TypeOK
<1>1. Inv => TypeOK
  BY DEF Inv
<1> QED BY <1>1, Holds, PTL

\* No metric gets lost: Put's second try always finds room
\* (metrics.go:46-50, 86-93).
THEOREM QueueNothingLost == Spec => []NothingLost
<1>1. Inv => NothingLost
  BY DEF Inv
<1> QED BY <1>1, Holds, PTL

\* Metrics are sent in the order they were made, each once
\* (metrics.go:46-50, 95-110).
THEOREM QueueInOrder == Spec => []InOrder
<1>1. Inv => InOrder
  <2> SUFFICES ASSUME Inv PROVE InOrder
    OBVIOUS
  <2>1. Increasing(batch \o queue)
    BY Types, IncreasingConcat DEF Inv, OrderInv
  <2>2. ToSet(batch \o queue) = Waiting
    BY Types, SetOfConcat DEF Inv, Waiting
  <2> QED BY <2>1, <2>2 DEF Inv, OrderInv, InOrder
<1> QED BY <1>1, Holds, PTL
=============================================================================
