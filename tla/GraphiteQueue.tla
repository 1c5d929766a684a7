--------------------------- MODULE GraphiteQueue ----------------------------
(***************************************************************************)
(* The sender of metrics (metrics.go).  The daemon's loop puts each metric *)
(* into a bounded queue and makes room by dropping two when it is full; a  *)
(* goroutine of its own takes metrics out of the queue, batches them and   *)
(* sends the batches over a connection that comes and goes.  The queue     *)
(* takes no lock: the two goroutines' operations on it interleave.         *)
(*                                                                         *)
(* A metric is its number in the order the loop made it.  Left out: what   *)
(* it says, logging, the sleeps, and a daemon without a relay, which has   *)
(* no queue at all.                                                        *)
(***************************************************************************)
EXTENDS Naturals, SequencesExt

CONSTANTS
  Capacity,   \* queueSize: what the queue can hold
  BatchSend,  \* batchSend: the size of a full batch
  MaxPuts     \* bound: metrics made in a behaviour

ASSUME QueueAssumption ==
  /\ Capacity \in Nat \ {0} /\ BatchSend \in Nat \ {0}
  /\ MaxPuts \in Nat

VARIABLES
  queue,       \* the lock-free queue
  made,        \* metrics made so far
  loop,        \* where the daemon's loop stands in Put, or at the end of main
  pc,          \* where the sending goroutine stands
  batch,       \* metrics[0:i]
  nextSend,    \* nextSend: an incomplete batch is to be sent
  failed,      \* GraphiteQueue.failed
  running,     \* GraphiteQueue.running
  connection,  \* the connection to the relay
  reachable,   \* whether the relay accepts connections
  sent,        \* history: the metrics of the batches whose sending succeeded
  dropped      \* history: the metrics taken out of the queue to make room

main == <<made, loop, running>>
sender == <<pc, batch, nextSend, failed>>
network == <<connection, reachable>>
vars == <<queue, main, sender, network, sent, dropped>>

\* closing: the relay is gone and the next write may still succeed, into the
\* void; broken: every write fails.
Connections == {"none", "open", "closing", "broken"}

Init ==
  /\ queue = <<>> /\ sent = {} /\ dropped = {}
  /\ made = 0 /\ loop = "idle" /\ running = TRUE
  /\ pc = "head" /\ batch = <<>> /\ nextSend = FALSE /\ failed = FALSE
  /\ connection = "none" /\ reachable \in BOOLEAN

-----------------------------------------------------------------------------
(* Put, called by the daemon's loop, and Stop *)

HasRoom == Len(queue) < Capacity

\* The first try.
Put ==
  /\ loop = "idle" /\ made < MaxPuts
  /\ made' = made + 1
  /\ IF HasRoom THEN queue' = Append(queue, made') /\ loop' = "idle"
                ELSE loop' = "drop" /\ UNCHANGED queue
  /\ UNCHANGED <<running, sender, network, sent, dropped>>

\* Queue.Get takes the metric that has been in the queue for longest.
Take == queue' = Tail(queue)

\* One of the two calls of Get that make room; the goroutine may have emptied
\* the queue before.
Drop ==
  /\ loop \in {"drop", "drop again"}
  /\ loop' = IF loop = "drop" THEN "drop again" ELSE "retry"
  /\ IF queue # <<>> THEN Take /\ dropped' = dropped \cup {Head(queue)}
                     ELSE UNCHANGED <<queue, dropped>>
  /\ UNCHANGED <<made, running, sender, network, sent>>

\* The result of the first try is not looked at.
MutRetry ==
  /\ loop = "retry"
  /\ loop' = "idle"
  /\ UNCHANGED <<queue, made, running, sender, network, sent, dropped>>

\* The second try, whose result is not looked at.
Retry ==
  /\ loop = "retry"
  /\ loop' = "idle"
  /\ queue' = IF HasRoom THEN Append(queue, made) ELSE queue
  /\ UNCHANGED <<made, running, sender, network, sent, dropped>>

\* The daemon shuts down; soon after it is gone, with whatever is in the queue.
Stop ==
  /\ loop = "idle"
  /\ loop' = "stopping" /\ running' = FALSE
  /\ UNCHANGED <<queue, made, sender, network, sent, dropped>>

Exit ==
  /\ loop = "stopping"
  /\ loop' = "exited"
  /\ UNCHANGED <<queue, made, running, sender, network, sent, dropped>>

-----------------------------------------------------------------------------
(* The goroutine of Run *)

At(point) == pc = point /\ loop # "exited"

\* Whether the batch is full is not looked at.
MutContinue ==
  /\ At("head")
  /\ pc' = IF nextSend
           THEN IF connection = "none" THEN "connect" ELSE "send"
           ELSE "get"
  /\ UNCHANGED <<queue, main, batch, nextSend, failed, network, sent, dropped>>

\* It goes on while running; the store of Stop is not synchronised with this
\* load, which may miss it.
Continue ==
  /\ At("head")
  /\ pc' = IF Len(batch) = BatchSend \/ nextSend
           THEN IF connection = "none" THEN "connect" ELSE "send"
           ELSE "get"
  /\ UNCHANGED <<queue, main, batch, nextSend, failed, network, sent, dropped>>

End ==
  /\ At("head") /\ ~running
  /\ pc' = "ended"
  /\ UNCHANGED <<queue, main, batch, nextSend, failed, network, sent, dropped>>

Connect ==
  /\ At("connect") /\ reachable
  /\ connection' = "open" /\ pc' = "send"
  /\ UNCHANGED <<queue, main, batch, nextSend, failed, reachable, sent, dropped>>

ConnectFails ==
  /\ At("connect") /\ ~reachable
  /\ failed' = TRUE /\ pc' = "head"
  /\ UNCHANGED <<queue, main, batch, nextSend, network, sent, dropped>>

\* nextSend is reset, i is not.
MutSend ==
  /\ At("send") /\ connection \in {"open", "closing"}
  /\ connection' = IF connection = "closing" THEN "broken" ELSE connection
  /\ sent' = sent \cup ToSet(batch)
  /\ nextSend' = FALSE /\ failed' = FALSE
  /\ pc' = "get"
  /\ UNCHANGED <<queue, main, batch, reachable, dropped>>

Send ==
  /\ At("send") /\ connection \in {"open", "closing"}
  /\ connection' = IF connection = "closing" THEN "broken" ELSE connection
  /\ sent' = sent \cup ToSet(batch)
  /\ batch' = <<>> /\ nextSend' = FALSE /\ failed' = FALSE
  /\ pc' = "get"
  /\ UNCHANGED <<queue, main, reachable, dropped>>

\* The batch is kept.  The connection is given up only by the first failure
\* since failed was cleared.
SendFails ==
  /\ At("send") /\ connection \in {"closing", "broken"}
  /\ failed' = TRUE
  /\ connection' = IF failed THEN "broken" ELSE "none"
  /\ pc' = "head"
  /\ UNCHANGED <<queue, main, batch, nextSend, reachable, sent, dropped>>

Get ==
  /\ At("get") \/ At("get again")
  /\ queue # <<>>
  /\ batch' = Append(batch, Head(queue)) /\ Take
  /\ pc' = "head"
  /\ UNCHANGED <<main, nextSend, failed, network, sent, dropped>>

\* An incomplete batch waits for more.
MutGetNothing ==
  /\ At("get") \/ At("get again")
  /\ queue = <<>>
  /\ pc' = IF pc = "get" THEN "get again" ELSE "head"
  /\ UNCHANGED <<queue, main, batch, nextSend, failed, network, sent, dropped>>

\* Nothing there: the queue is asked twice.  Then an incomplete batch is sent.
GetNothing ==
  /\ At("get") \/ At("get again")
  /\ queue = <<>>
  /\ IF pc = "get" THEN pc' = "get again" /\ UNCHANGED nextSend
                   ELSE pc' = "head" /\ nextSend' = (batch # <<>>)
  /\ UNCHANGED <<queue, main, batch, failed, network, sent, dropped>>

Sender ==
  \/ Continue \/ End \/ Connect \/ ConnectFails \/ Send \/ SendFails
  \/ Get \/ GetNothing

-----------------------------------------------------------------------------
(* The relay *)

RelayDown ==
  /\ reachable
  /\ reachable' = FALSE
  /\ connection' = IF connection = "open" THEN "closing" ELSE connection
  /\ UNCHANGED <<queue, main, sender, sent, dropped>>

RelayUp ==
  /\ ~reachable
  /\ reachable' = TRUE
  /\ UNCHANGED <<queue, main, sender, connection, sent, dropped>>

Next == Put \/ Drop \/ Retry \/ Stop \/ Exit \/ Sender \/ RelayDown \/ RelayUp

Spec == Init /\ [][Next]_vars

\* The goroutine runs, and a connect or a write ends some time.  Nothing is
\* assumed of the daemon's loop, nor of the relay.
FairSpec == Spec /\ WF_vars(Sender)

-----------------------------------------------------------------------------
(* Properties *)

\* In particular the goroutine never writes past the end of its batch
\* (metrics.go:61, 95-104).
TypeOK ==
  /\ queue \in Seq(1 .. made) /\ Len(queue) <= Capacity
  /\ made \in 0 .. MaxPuts
  /\ loop \in {"idle", "drop", "drop again", "retry", "stopping", "exited"}
  /\ pc \in {"head", "connect", "send", "get", "get again", "ended"}
  /\ batch \in Seq(1 .. made) /\ Len(batch) <= BatchSend
  /\ pc \in {"get", "get again"} => Len(batch) < BatchSend
  /\ nextSend \in BOOLEAN /\ failed \in BOOLEAN /\ running \in BOOLEAN
  /\ connection \in Connections /\ reachable \in BOOLEAN
  /\ sent \subseteq 1 .. made /\ dropped \subseteq 1 .. made

\* The metric Put has in hand and not yet in the queue.
InHand == IF loop \in {"drop", "drop again", "retry"} THEN {made} ELSE {}

\* No metric gets lost: each one made is sent, waits in the batch or the
\* queue, or was dropped for a newer one, although Put does not look at the
\* result of its second try and the goroutine takes from the same queue
\* meanwhile; a batch that could not be sent is kept (metrics.go:46-50, 86-93).
NothingLost ==
  1 .. made = sent \cup dropped \cup ToSet(batch) \cup ToSet(queue) \cup InHand

Increasing(s) == \A i, j \in DOMAIN s : i < j => s[i] < s[j]

\* Metrics are sent in the order they were made, and none is sent twice or
\* after it was dropped, whichever of the two goroutines takes it out of the
\* queue (metrics.go:46-50, 95-110).
InOrder ==
  LET waiting == batch \o queue
  IN  /\ Increasing(waiting)
      /\ \A m \in ToSet(waiting) \cup InHand :
           m \notin dropped /\ \A n \in sent : n < m
      /\ sent \cap dropped = {}

\* Once the relay is there for good every metric is sent in the end, a last
\* incomplete batch included.  One thing must not happen: a send that fails
\* while failed is still set, from an earlier connect or send.  Then nobody
\* closes the connection, and it is used, in vain, for ever (metrics.go:86-92).
Delivers ==
  (<>[](reachable /\ running) /\ <>[][SendFails => ~failed]_vars)
    => []<>(batch = <<>> /\ queue = <<>>)
=============================================================================
