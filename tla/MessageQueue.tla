---------------------------- MODULE MessageQueue ----------------------------
(***************************************************************************)
(* What the outgoing queue of a connection promises to those who send and  *)
(* to the client, whatever it is made of: a queue in which every send is   *)
(* one step.  JSON messages are always taken, data frames when they fit    *)
(* and otherwise never; what was taken is received in order, until the     *)
(* connection ends.  Outbox implements it with a channel and a counter     *)
(* that are read and written in separate steps.                            *)
(***************************************************************************)
EXTENDS Integers, Sequences

CONSTANTS
  Limit,    \* bytes of data frames that wait for the client
  Lengths   \* sizes of data frames

VARIABLES
  got,      \* what the client has received
  pending,  \* what it has yet to receive
  json,     \* JSON messages sent
  frames,   \* data frames sent, the lost ones included
  open      \* the client is there

queueVars == <<got, pending, json, frames, open>>

\* Bytes of data frames in s.
Bytes(s) ==
  LET upTo[k \in 0..Len(s)] == IF k = 0 THEN 0 ELSE upTo[k - 1] + s[k].len
  IN  upTo[Len(s)]

Init ==
  /\ got = << >> /\ pending = << >>
  /\ json = 0 /\ frames = 0
  /\ open = TRUE

Accept(m) == pending' = IF open THEN Append(pending, m) ELSE pending

SendJson ==
  /\ json' = json + 1
  /\ Accept([kind |-> "json", n |-> json', len |-> 0])
  /\ UNCHANGED <<got, frames, open>>

\* A frame is taken only if it fits ...
SendFrame(l) ==
  /\ open => Bytes(pending) + l <= Limit
  /\ frames' = frames + 1
  /\ Accept([kind |-> "binary", n |-> frames', len |-> l])
  /\ UNCHANGED <<got, json, open>>

\* ... and lost only if it does not.
LoseFrame(l) ==
  /\ open => Bytes(pending) + l > Limit
  /\ frames' = frames + 1
  /\ UNCHANGED <<got, pending, json, open>>

Receive ==
  /\ pending # << >>
  /\ got' = Append(got, Head(pending))
  /\ pending' = Tail(pending)
  /\ UNCHANGED <<json, frames, open>>

Close ==
  /\ open
  /\ open' = FALSE
  /\ pending' = << >>
  /\ UNCHANGED <<got, json, frames>>

Next ==
  \/ SendJson
  \/ \E l \in Lengths : SendFrame(l) \/ LoseFrame(l)
  \/ Receive
  \/ Close

Spec == Init /\ [][Next]_queueVars
=============================================================================
