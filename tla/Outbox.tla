-------------------------------- MODULE Outbox --------------------------------
(***************************************************************************)
(* The outgoing queue of one WebSocket connection (device.rs): the         *)
(* unbounded channel between the threads that send to the client and the   *)
(* connection's writer task, and the atomic counter of queued binary bytes *)
(* that makes send_binary drop data frames for a slow client.              *)
(*                                                                         *)
(* The counter is not protected by a lock: send_binary reads it, adds to   *)
(* it and pushes in three steps, recv takes a message and subtracts in     *)
(* two.  JSON messages come from any thread.  Data frames of a client come *)
(* from one thread at a time, since they are sent under the mutex of the   *)
(* one device the client is attached to; here they are the frames of one   *)
(* counted listener, whose last frame carries the done flag.               *)
(***************************************************************************)
EXTENDS Integers, Sequences

CONSTANTS
  Limit,     \* BINARY_BACKLOG_LIMIT
  Lengths,   \* sizes of data frames
  NFrames,   \* data frames of the listener
  MaxJson    \* bound: JSON messages sent

ASSUME OutboxAssumption ==
  /\ Limit \in Nat /\ NFrames \in Nat /\ MaxJson \in Nat
  /\ Lengths \subseteq Nat \ {0}

VARIABLES
  queue,        \* the channel
  queuedBinary, \* the atomic counter
  pc,           \* where the sender of data frames is in send_binary
  hand,         \* the frame it is sending
  next,         \* frames the listener has produced
  dropped,      \* those of them that were dropped
  taken,        \* the messages recv has taken but not accounted for: 0 or 1
  received,     \* history: what the writer handed to the socket
  sentJson,     \* history: JSON messages sent
  open          \* the writer is running and the channel has a receiver

vars == <<queue, queuedBinary, pc, hand, next, dropped, taken, received, sentJson, open>>

Json(k)       == [kind |-> "json", n |-> k, len |-> 0]
Binary(k, l)  == [kind |-> "binary", n |-> k, len |-> l]

Init ==
  /\ queue = << >> /\ queuedBinary = 0
  /\ pc = "idle" /\ hand = Binary(0, 0)
  /\ next = 0 /\ dropped = {}
  /\ taken = << >> /\ received = << >>
  /\ sentJson = 0
  /\ open = TRUE

\* A push on a channel without a receiver is an error send_* ignores.
Push(m) == queue' = IF open THEN Append(queue, m) ELSE queue

\* Seeded fault: messages are dropped for a slow client like frames.
SendJsonIfRoom ==
  /\ sentJson < MaxJson
  /\ sentJson' = sentJson + 1
  /\ IF queuedBinary < Limit THEN Push(Json(sentJson + 1)) ELSE UNCHANGED queue
  /\ UNCHANGED <<queuedBinary, pc, hand, next, dropped, taken, received, open>>

SendJson ==
  /\ sentJson < MaxJson
  /\ sentJson' = sentJson + 1
  /\ Push(Json(sentJson + 1))
  /\ UNCHANGED <<queuedBinary, pc, hand, next, dropped, taken, received, open>>

\* Seeded fault: the size of the frame itself is not counted.
CheckWithoutFrame(l) ==
  /\ pc = "idle" /\ next < NFrames
  /\ next' = next + 1
  /\ IF queuedBinary > Limit
     THEN /\ dropped' = dropped \cup {next + 1}
          /\ UNCHANGED <<pc, hand>>
     ELSE /\ pc' = "checked"
          /\ hand' = Binary(next + 1, l)
          /\ UNCHANGED dropped
  /\ UNCHANGED <<queue, queuedBinary, taken, received, sentJson, open>>

\* Seeded fault: the listener goes on after its last frame.
CheckWithoutEnd(l) ==
  /\ pc = "idle"
  /\ next' = next + 1
  /\ pc' = "checked"
  /\ hand' = Binary(next + 1, l)
  /\ UNCHANGED <<queue, queuedBinary, dropped, taken, received, sentJson, open>>

\* send_binary, first step: read the counter, drop the frame if it does not
\* fit.
CheckBacklog(l) ==
  /\ pc = "idle" /\ next < NFrames
  /\ next' = next + 1
  /\ IF queuedBinary + l > Limit
     THEN /\ dropped' = dropped \cup {next + 1}
          /\ UNCHANGED <<pc, hand>>
     ELSE /\ pc' = "checked"
          /\ hand' = Binary(next + 1, l)
          /\ UNCHANGED dropped
  /\ UNCHANGED <<queue, queuedBinary, taken, received, sentJson, open>>

\* Seeded fault: the frame is pushed without being accounted for.
AccountNothing ==
  /\ pc = "checked"
  /\ pc' = "added"
  /\ UNCHANGED <<queue, queuedBinary, hand, next, dropped, taken, received, sentJson, open>>

\* ... second step: account for it.
Account ==
  /\ pc = "checked"
  /\ pc' = "added"
  /\ queuedBinary' = queuedBinary + hand.len
  /\ UNCHANGED <<queue, hand, next, dropped, taken, received, sentJson, open>>

\* Seeded fault: the newest frame overtakes the queue.
EnqueueFirst ==
  /\ pc = "added"
  /\ pc' = "idle"
  /\ queue' = IF open THEN << hand >> \o queue ELSE queue
  /\ UNCHANGED <<queuedBinary, hand, next, dropped, taken, received, sentJson, open>>

\* ... third step: push it.
Enqueue ==
  /\ pc = "added"
  /\ pc' = "idle"
  /\ Push(hand)
  /\ UNCHANGED <<queuedBinary, hand, next, dropped, taken, received, sentJson, open>>

\* recv: the writer takes a message from the channel ...
Take ==
  /\ open /\ taken = << >> /\ queue # << >>
  /\ taken' = << Head(queue) >>
  /\ queue' = Tail(queue)
  /\ UNCHANGED <<queuedBinary, pc, hand, next, dropped, received, sentJson, open>>

\* Seeded fault: nothing is subtracted.
SettleNothing ==
  /\ open /\ taken # << >>
  /\ received' = Append(received, Head(taken))
  /\ taken' = << >>
  /\ UNCHANGED <<queue, queuedBinary, pc, hand, next, dropped, sentJson, open>>

\* ... subtracts its size if it is a data frame, and sends it.
Settle ==
  /\ open /\ taken # << >>
  /\ queuedBinary' = queuedBinary - Head(taken).len
  /\ received' = Append(received, Head(taken))
  /\ taken' = << >>
  /\ UNCHANGED <<queue, pc, hand, next, dropped, sentJson, open>>

\* The socket fails, or the connection closes and aborts the writer: the
\* receiver is dropped with all that is queued.
WriterEnds ==
  /\ open /\ taken = << >>
  /\ open' = FALSE
  /\ queue' = << >>
  /\ UNCHANGED <<queuedBinary, pc, hand, next, dropped, taken, received, sentJson>>

Next ==
  \/ SendJson
  \/ \E l \in Lengths : CheckBacklog(l)
  \/ Account \/ Enqueue
  \/ Take \/ Settle
  \/ WriterEnds

Spec == Init /\ [][Next]_vars

\* The writer is polled while its channel has messages (and the socket takes
\* them), and a thread inside send_binary goes on.
FairSpec ==
  Spec /\ WF_vars(Take) /\ WF_vars(Settle) /\ WF_vars(Account) /\ WF_vars(Enqueue)

-----------------------------------------------------------------------------
(* Properties.                                                              *)

Messages == [kind : {"json", "binary"}, n : Nat, len : Nat]

TypeOK ==
  /\ queue \in Seq(Messages) /\ received \in Seq(Messages) /\ taken \in Seq(Messages)
  /\ queuedBinary \in Int
  /\ pc \in {"idle", "checked", "added"} /\ hand \in Messages
  /\ next \in 0..NFrames /\ dropped \subseteq 1..NFrames
  /\ sentJson \in 0..MaxJson /\ open \in BOOLEAN

\* Bytes of data frames in s.
Bytes(s) ==
  LET upTo[k \in 0..Len(s)] == IF k = 0 THEN 0 ELSE upTo[k - 1] + s[k].len
  IN  upTo[Len(s)]

\* The counter never drifts from the queue: while the writer runs it counts
\* the frames in the channel, the one about to be pushed and the one just
\* taken.  So it cannot underflow (the subtraction comes after the addition
\* it undoes), and after any backlog it returns to zero.
CounterExact ==
  open => queuedBinary = Bytes(queue) + Bytes(taken) + (IF pc = "added" THEN hand.len ELSE 0)

\* Memory of a slow client is bounded: no more than Limit bytes of frames are
\* ever queued, although check and addition are separate steps.
BacklogBounded == Bytes(queue) <= Limit /\ queuedBinary <= Limit

\* What the client got and has yet to get, in order.
Stream == received \o taken \o queue

\* The numbers of the messages of a kind, and that they rise along s.
Numbers(s, kind) == {s[i].n : i \in {j \in 1..Len(s) : s[j].kind = kind}}
InOrder(s, kind) ==
  \A i, j \in 1..Len(s) : i < j /\ s[i].kind = kind /\ s[j].kind = kind => s[i].n < s[j].n

\* "JSON messages are never dropped": those sent are received or queued, each
\* once and in the order they were sent, however many frames are dropped
\* between them.
JsonComplete == open => InOrder(Stream, "json") /\ Numbers(Stream, "json") = 1..sentJson

\* Data frames keep their order, and every frame that was not dropped is on
\* its way: a client sees gaps, never a repetition or a swap.
FramesOrdered ==
  /\ InOrder(Stream, "binary")
  /\ open /\ pc = "idle" => Numbers(Stream, "binary") = (1..next) \ dropped

\* Seen from outside, a frame is sent when it is pushed or dropped, and a
\* message is received when recv has accounted for it.
Queue == INSTANCE MessageQueue
           WITH got <- received, pending <- taken \o queue, json <- sentJson,
                frames <- IF pc = "idle" THEN next ELSE next - 1

\* The outbox is a queue with a limit: though send_binary and recv are several
\* steps each and no lock is held, a frame is taken exactly when it fits with
\* those the client has yet to receive, nothing is lost that was taken, and a
\* client that has drained its queue gets frames again.
ImplementsQueue == Queue!Spec

\* A JSON message reaches the client unless the connection ends.
JsonDelivered ==
  \A k \in 1..MaxJson :
    (sentJson >= k) ~> (~open \/ \E j \in 1..Len(received) : received[j] = Json(k))
=============================================================================
