----------------------------- MODULE OutboxProofs -----------------------------
(***************************************************************************)
(* For every limit, frame size, number of frames and messages, and every   *)
(* interleaving of senders and writer: the counter of queued bytes is      *)
(* exact, the backlog stays within its limit, no JSON message is lost or   *)
(* reordered, and frames keep their order (Outbox).  Seen from outside, it *)
(* is a queue whose sends and receipts are one step each (MessageQueue).   *)
(*                                                                         *)
(* The bytes of a queue are a sum, so the proof begins with induction over *)
(* its length: by a set of natural numbers that is closed under successor, *)
(* since that needs no operator for the statement.                         *)
(***************************************************************************)
EXTENDS Outbox, SequenceTheorems, WellFoundedInduction, TLAPS

-----------------------------------------------------------------------------
(* Sums.                                                                    *)

\* A set of numbers with 0 and every successor has them all.
LEMMA Induction ==
  ASSUME NEW T, 0 \in T, \A n \in Nat : n \in T => n + 1 \in T
  PROVE  Nat \subseteq T
<1> SUFFICES ASSUME Nat \ T # {} PROVE FALSE
  OBVIOUS
<1> DEFINE less == OpToRel(<, Nat)
<1>1. PICK x \in Nat \ T : \A y \in Nat \ T : ~(<<y, x>> \in less)
  <2> HIDE DEF less
  <2>1. IsWellFoundedOn(less, Nat)
    BY NatLessThanWellFounded DEF less
  <2> QED BY <2>1, WFMin
<1>2. x \in Nat /\ x # 0 /\ x - 1 \in Nat /\ (x - 1) + 1 = x
  <2>1. x \in Nat /\ x # 0
    BY <1>1
  <2> QED BY <2>1
<1>3. ~(x - 1 \in T)
  <2> SUFFICES ASSUME x - 1 \in T PROVE FALSE
    OBVIOUS
  <2>1. (x - 1) + 1 \in T
    BY <1>2
  <2> QED BY <1>1, <1>2, <2>1
<1>4. <<x - 1, x>> \in less
  BY <1>1, <1>2 DEF OpToRel
<1> QED BY <1>1, <1>2, <1>3, <1>4

\* f sums up the lengths of the messages of s.
Sums(f, s) == f = [k \in 0..Len(s) |-> IF k = 0 THEN 0 ELSE f[k - 1] + s[k].len]

\* There is one.
LEMMA SumsExist ==
  ASSUME NEW s \in Seq(Messages)
  PROVE  \E f : Sums(f, s)
<1> DEFINE Upto(f, n) == f = [k \in 0..n |-> IF k = 0 THEN 0 ELSE f[k - 1] + s[k].len]
           T == {n \in Nat : \E f : Upto(f, n)}
<1>1. 0 \in T
  <2>1. Upto([k \in 0..0 |-> 0], 0)
    OBVIOUS
  <2> QED BY <2>1
<1>2. ASSUME NEW n \in Nat, n \in T PROVE n + 1 \in T
  <2>1. PICK e : Upto(e, n)
    BY <1>2
  <2> DEFINE g == [k \in 0..(n + 1) |-> IF k = n + 1 THEN e[n] + s[n + 1].len ELSE e[k]]
  <2>2. ASSUME NEW k \in 0..(n + 1)
        PROVE  g[k] = IF k = 0 THEN 0 ELSE g[k - 1] + s[k].len
    BY <2>1
  <2>3. Upto(g, n + 1)
    BY <2>2
  <2>4. \E f : Upto(f, n + 1)
    <3> HIDE DEF g, Upto
    <3> QED BY <2>3
  <2>5. n + 1 \in Nat
    OBVIOUS
  <2> HIDE DEF Upto
  <2> QED BY <2>4, <2>5
<1>3. Len(s) \in T
  <2> HIDE DEF T
  <2>1. \A n \in Nat : n \in T => n + 1 \in T
    BY <1>2
  <2>2. Nat \subseteq T
    BY ONLY <1>1, <2>1, Induction, Zenon
  <2> QED BY <2>2
<1>4. PICK f : Upto(f, Len(s))
  BY <1>3
<1>5. Sums(f, s)
  BY <1>4 DEF Sums
<1> QED BY <1>5

\* Bytes is the last of the sums.
LEMMA BytesSums ==
  ASSUME NEW s \in Seq(Messages)
  PROVE  \E f : Sums(f, s) /\ Bytes(s) = f[Len(s)]
<1>1. Bytes(s) = (CHOOSE f : Sums(f, s))[Len(s)]
  BY DEF Bytes, Sums
<1>2. Sums(CHOOSE f : Sums(f, s), s)
  BY SumsExist
<1> QED BY <1>1, <1>2

\* A message of a queue.
LEMMA MessageOf ==
  ASSUME NEW s \in Seq(Messages), NEW k \in 1..Len(s)
  PROVE  s[k] \in Messages /\ s[k].len \in Nat /\ s[k].n \in Nat /\ s[k].kind \in {"json", "binary"}
<1>1. s[k] \in Messages
  BY ElementOfSeq
<1> QED BY <1>1 DEF Messages

\* Sums are natural numbers.
LEMMA SumsAreNat ==
  ASSUME NEW s \in Seq(Messages), NEW f, Sums(f, s)
  PROVE  \A k \in 0..Len(s) : f[k] \in Nat
<1> DEFINE T == {n \in Nat : n <= Len(s) => f[n] \in Nat}
<1>0. Len(s) \in Nat
  OBVIOUS
<1>1. 0 \in T
  BY <1>0 DEF Sums
<1>2. ASSUME NEW n \in Nat, n \in T PROVE n + 1 \in T
  <2>1. ASSUME n + 1 <= Len(s) PROVE f[n + 1] \in Nat
    <3>1. n + 1 \in 1..Len(s) /\ n + 1 # 0 /\ (n + 1) - 1 = n /\ n + 1 \in 0..Len(s)
      BY <1>0, <2>1
    <3>2. s[n + 1].len \in Nat
      BY <3>1, MessageOf
    <3>3. f[n + 1] = f[n] + s[n + 1].len
      BY <3>1 DEF Sums
    <3>4. f[n] \in Nat
      BY <1>0, <1>2, <2>1
    <3> QED BY <3>2, <3>3, <3>4
  <2> QED BY <2>1
<1>3. Nat \subseteq T
  <2> HIDE DEF T
  <2>1. \A n \in Nat : n \in T => n + 1 \in T
    BY <1>2
  <2> QED BY ONLY <1>1, <2>1, Induction, Zenon
<1> QED BY <1>0, <1>3

\* The first m lengths of t are those of s that follow the j-th.
SameLengths(s, t, j, m) ==
  /\ j \in Nat /\ m \in Nat /\ m + j <= Len(s) /\ m <= Len(t)
  /\ \A k \in 1..m : t[k].len = s[k + j].len

\* Sums over the same lengths, from different starts, rise alike.
LEMMA SumsShift ==
  ASSUME NEW s \in Seq(Messages), NEW t \in Seq(Messages), NEW f, NEW g, Sums(f, s), Sums(g, t),
         NEW j, NEW m, SameLengths(s, t, j, m)
  PROVE  f[m + j] = f[j] + g[m]
<1> USE DEF SameLengths
<1> DEFINE T == {n \in Nat : n <= m => f[n + j] = f[j] + g[n]}
<1>0. /\ Len(s) \in Nat /\ Len(t) \in Nat
      /\ \A k \in 0..Len(s) : f[k] \in Nat
      /\ \A k \in 0..Len(t) : g[k] \in Nat
  BY SumsAreNat
<1>1. 0 \in T
  <2>1. g[0] = 0
    BY <1>0 DEF Sums
  <2>2. f[j] \in Nat
    <3>1. j \in 0..Len(s)
      BY <1>0
    <3> QED BY <1>0, <3>1
  <2>3. f[0 + j] = f[j] + g[0]
    BY <2>1, <2>2
  <2> QED BY <2>3
<1>2. ASSUME NEW n \in Nat, n \in T PROVE n + 1 \in T
  <2>1. ASSUME n + 1 <= m PROVE f[(n + 1) + j] = f[j] + g[n + 1]
    <3>1. /\ (n + 1) + j \in 0..Len(s) /\ (n + 1) + j # 0 /\ ((n + 1) + j) - 1 = n + j
          /\ n + 1 \in 0..Len(t) /\ n + 1 # 0 /\ (n + 1) - 1 = n /\ n + 1 \in 1..m
          /\ n + 1 \in 1..Len(t) /\ n \in 0..Len(t) /\ j \in 0..Len(s) /\ n + j \in 0..Len(s)
      BY <1>0, <2>1
    <3>2. f[(n + 1) + j] = f[n + j] + s[(n + 1) + j].len
      BY <3>1 DEF Sums
    <3>3. g[n + 1] = g[n] + t[n + 1].len
      BY <3>1 DEF Sums
    <3>4. t[n + 1].len = s[(n + 1) + j].len /\ t[n + 1].len \in Nat
      BY <3>1, MessageOf
    <3>5. f[n + j] = f[j] + g[n]
      BY <1>2, <2>1
    <3>6. f[j] \in Nat /\ g[n] \in Nat
      BY <1>0, <3>1
    <3> QED BY <3>2, <3>3, <3>4, <3>5, <3>6
  <2> QED BY <2>1
<1>3. Nat \subseteq T
  <2> HIDE DEF T
  <2>1. \A n \in Nat : n \in T => n + 1 \in T
    BY <1>2
  <2> QED BY ONLY <1>1, <2>1, Induction, Zenon
<1> QED BY <1>3

\* The bytes of a queue are a natural number, none if it is empty.
LEMMA BytesType ==
  ASSUME NEW s \in Seq(Messages)
  PROVE  Bytes(s) \in Nat /\ (s = << >> => Bytes(s) = 0)
<1>1. PICK f : Sums(f, s) /\ Bytes(s) = f[Len(s)]
  BY BytesSums
<1>2. Bytes(s) \in Nat
  BY <1>1, SumsAreNat
<1>3. s = << >> => f[Len(s)] = 0
  BY <1>1 DEF Sums
<1> QED BY <1>1, <1>2, <1>3

\* A message that is pushed adds its length.
LEMMA BytesAppend ==
  ASSUME NEW s \in Seq(Messages), NEW m \in Messages
  PROVE  Bytes(Append(s, m)) = Bytes(s) + m.len
<1> DEFINE t == Append(s, m)
<1>1. t \in Seq(Messages) /\ Len(t) = Len(s) + 1 /\ Len(s) \in Nat
      /\ t[Len(s) + 1] = m /\ \A k \in 1..Len(s) : t[k] = s[k]
  BY AppendProperties
<1> HIDE DEF t
<1>2. PICK f : Sums(f, s) /\ Bytes(s) = f[Len(s)]
  BY BytesSums
<1>3. PICK g : Sums(g, t) /\ Bytes(t) = g[Len(t)]
  BY <1>1, BytesSums
<1>4. g[Len(s) + 0] = g[0] + f[Len(s)]
  <2>1. \A k \in 1..Len(s) : s[k].len = t[k + 0].len
    BY <1>1
  <2>2. Len(s) + 0 <= Len(t) /\ Len(s) <= Len(s)
    BY <1>1
  <2>3. SameLengths(t, s, 0, Len(s))
    BY <1>1, <2>1, <2>2 DEF SameLengths
  <2> QED BY <1>1, <1>2, <1>3, <2>3, SumsShift
<1>5. g[0] = 0 /\ g[Len(s) + 1] = g[Len(s)] + m.len
  BY <1>1, <1>3 DEF Sums
<1>6. f[Len(s)] \in Nat
  BY <1>1, <1>2, SumsAreNat
<1> QED BY <1>1, <1>2, <1>3, <1>4, <1>5, <1>6 DEF t

\* One that is taken subtracts it.
LEMMA BytesTail ==
  ASSUME NEW s \in Seq(Messages), s # << >>
  PROVE  Bytes(s) = Head(s).len + Bytes(Tail(s))
<1> DEFINE t == Tail(s)
<1>1. t \in Seq(Messages) /\ Len(t) = Len(s) - 1 /\ Len(s) \in Nat /\ Len(s) # 0
      /\ Head(s) = s[1] /\ \A k \in 1..Len(t) : t[k] = s[k + 1]
  BY HeadTailProperties, EmptySeq
<1> HIDE DEF t
<1>2. PICK f : Sums(f, s) /\ Bytes(s) = f[Len(s)]
  BY BytesSums
<1>3. PICK g : Sums(g, t) /\ Bytes(t) = g[Len(t)]
  BY <1>1, BytesSums
<1>4. f[Len(t) + 1] = f[1] + g[Len(t)]
  <2>1. \A k \in 1..Len(t) : t[k].len = s[k + 1].len
    BY <1>1
  <2>2. Len(t) \in Nat /\ Len(t) + 1 <= Len(s) /\ Len(t) <= Len(t)
    BY <1>1
  <2>3. SameLengths(s, t, 1, Len(t))
    BY <1>1, <2>1, <2>2 DEF SameLengths
  <2> QED BY <1>1, <1>2, <1>3, <2>3, SumsShift
<1>5. f[1] = s[1].len
  <2>1. 0 \in 0..Len(s) /\ 1 \in 0..Len(s) /\ 1 \in 1..Len(s)
    BY <1>1
  <2>2. s[1].len \in Nat
    BY <2>1, MessageOf
  <2>3. f[0] = 0 /\ f[1] = f[1 - 1] + s[1].len
    BY <1>2, <2>1 DEF Sums
  <2> QED BY <2>2, <2>3
<1> QED BY <1>1, <1>2, <1>3, <1>4, <1>5 DEF t

-----------------------------------------------------------------------------
(* Types.                                                                   *)

\* Besides the types: recv holds one message at most, what send_binary holds
\* is a frame, and a channel without receiver is empty.
Typed ==
  /\ TypeOK
  /\ Len(taken) <= 1
  /\ hand.kind = "binary"
  /\ ~open => queue = << >> /\ taken = << >>

\* The messages that are sent.
LEMMA NewMessages ==
  ASSUME NEW k \in Nat, NEW l \in Nat
  PROVE  /\ Json(k) \in Messages /\ Json(k).kind = "json" /\ Json(k).n = k /\ Json(k).len = 0
         /\ Binary(k, l) \in Messages /\ Binary(k, l).kind = "binary"
         /\ Binary(k, l).n = k /\ Binary(k, l).len = l
BY DEF Json, Binary, Messages

\* A push keeps the queue one of messages.
LEMMA PushTyped ==
  ASSUME Typed, NEW m \in Messages, Push(m), UNCHANGED <<open, taken>>
  PROVE  queue' \in Seq(Messages) /\ (~open' => queue' = << >> /\ taken' = << >>)
BY AppendProperties DEF Typed, TypeOK, Push

\* The start.
LEMMA InitTyped == Init => Typed
<1> SUFFICES ASSUME Init PROVE Typed
  OBVIOUS
<1>1. hand \in Messages /\ hand.kind = "binary"
  BY NewMessages DEF Init
<1>2. << >> \in Seq(Messages) /\ Len(<< >>) = 0
  OBVIOUS
<1> QED BY <1>1, <1>2, OutboxAssumption DEF Init, Typed, TypeOK

\* Every step.
LEMMA NextTyped == Typed /\ [Next]_vars => Typed'
<1> SUFFICES ASSUME Typed, [Next]_vars PROVE Typed'
  OBVIOUS
<1>0. /\ queue \in Seq(Messages) /\ received \in Seq(Messages) /\ taken \in Seq(Messages)
      /\ queuedBinary \in Int /\ pc \in {"idle", "checked", "added"} /\ hand \in Messages
      /\ next \in 0..NFrames /\ dropped \subseteq 1..NFrames
      /\ sentJson \in 0..MaxJson /\ open \in BOOLEAN
      /\ Len(taken) <= 1 /\ hand.kind = "binary" /\ (~open => queue = << >> /\ taken = << >>)
  BY DEF Typed, TypeOK
<1>1. CASE SendJson
  <2>1. sentJson' = sentJson + 1 /\ sentJson' \in 0..MaxJson /\ sentJson + 1 \in Nat
    BY <1>0, <1>1, OutboxAssumption DEF SendJson
  <2>2. Json(sentJson + 1) \in Messages
    BY <2>1, NewMessages
  <2>3. queue' \in Seq(Messages) /\ (~open' => queue' = << >> /\ taken' = << >>)
    BY <1>1, <2>2, PushTyped DEF SendJson
  <2> QED BY <1>0, <1>1, <2>1, <2>3 DEF SendJson, Typed, TypeOK
<1>2. ASSUME NEW l \in Lengths, CheckBacklog(l) PROVE Typed'
  <2>1. next + 1 \in 1..NFrames /\ l \in Nat /\ next' = next + 1 /\ next + 1 \in Nat
        /\ next' \in 0..NFrames
    BY <1>0, <1>2, OutboxAssumption DEF CheckBacklog
  <2>2. Binary(next + 1, l) \in Messages /\ Binary(next + 1, l).kind = "binary"
    BY <2>1, NewMessages
  <2>3. hand' \in Messages /\ hand'.kind = "binary" /\ pc' \in {"idle", "checked", "added"}
        /\ dropped' \subseteq 1..NFrames
    BY <1>0, <1>2, <2>1, <2>2 DEF CheckBacklog
  <2> QED BY <1>0, <1>2, <2>1, <2>3 DEF CheckBacklog, Typed, TypeOK
<1>3. CASE Account
  <2>1. hand.len \in Nat
    BY <1>0 DEF Messages
  <2> QED BY <1>0, <1>3, <2>1 DEF Account, Typed, TypeOK
<1>4. CASE Enqueue
  <2>1. queue' \in Seq(Messages) /\ (~open' => queue' = << >> /\ taken' = << >>)
    BY <1>0, <1>4, PushTyped DEF Enqueue
  <2> QED BY <1>0, <1>4, <2>1 DEF Enqueue, Typed, TypeOK
<1>5. CASE Take
  <2>1. Head(queue) \in Messages /\ Tail(queue) \in Seq(Messages)
    BY <1>0, <1>5, HeadTailProperties DEF Take
  <2>2. << Head(queue) >> \in Seq(Messages) /\ Len(<< Head(queue) >>) = 1
    BY <2>1
  <2> QED BY <1>0, <1>5, <2>1, <2>2 DEF Take, Typed, TypeOK
<1>6. CASE Settle
  <2>1. Head(taken) \in Messages
    BY <1>0, <1>6, HeadTailProperties DEF Settle
  <2>2. Append(received, Head(taken)) \in Seq(Messages) /\ Head(taken).len \in Nat
    BY <1>0, <2>1, AppendProperties DEF Messages
  <2>3. << >> \in Seq(Messages) /\ Len(<< >>) <= 1
    OBVIOUS
  <2> QED BY <1>0, <1>6, <2>2, <2>3 DEF Settle, Typed, TypeOK
<1>7. CASE WriterEnds
  <2>1. << >> \in Seq(Messages)
    OBVIOUS
  <2> QED BY <1>0, <1>7, <2>1 DEF WriterEnds, Typed, TypeOK
<1>8. CASE UNCHANGED vars
  BY <1>0, <1>8 DEF vars, Typed, TypeOK
<1> QED BY <1>1, <1>2, <1>3, <1>4, <1>5, <1>6, <1>7, <1>8 DEF Next

\* Queue, counter and sender keep their types (ClientHandle, ClientReceiver).
THEOREM TypeCorrect == Spec => []TypeOK
<1>1. Spec => []Typed
  BY InitTyped, NextTyped, PTL DEF Spec
<1>2. Typed => TypeOK
  BY DEF Typed
<1> QED BY <1>1, <1>2, PTL

-----------------------------------------------------------------------------
(* The counter.                                                             *)

\* With the counter exact, it leaves room for the frame that passed the check.
Counted ==
  /\ CounterExact
  /\ queuedBinary <= Limit
  /\ pc = "checked" => queuedBinary + hand.len <= Limit

\* The bytes of what recv holds.
LEMMA BytesOfOne ==
  ASSUME NEW m \in Messages
  PROVE  Bytes(<< m >>) = m.len
<1>1. << >> \in Seq(Messages) /\ Append(<< >>, m) = << m >> /\ m.len \in Nat
  BY DEF Messages
<1>2. Bytes(Append(<< >>, m)) = Bytes(<< >>) + m.len /\ Bytes(<< >>) = 0
  BY <1>1, BytesAppend, BytesType
<1> QED BY <1>1, <1>2

\* The start.
LEMMA InitCounted == Init => Counted
<1> SUFFICES ASSUME Init PROVE Counted
  OBVIOUS
<1>1. Bytes(<< >>) = 0
  <2>1. << >> \in Seq(Messages)
    OBVIOUS
  <2> QED BY <2>1, BytesType
<1> QED BY <1>1, OutboxAssumption DEF Init, Counted, CounterExact

\* Every step.
LEMMA NextCounted == Typed /\ Counted /\ [Next]_vars => Counted'
<1> SUFFICES ASSUME Typed, Counted, [Next]_vars PROVE Counted'
  OBVIOUS
<1>0. /\ queue \in Seq(Messages) /\ taken \in Seq(Messages) /\ Len(taken) <= 1
      /\ queuedBinary \in Int /\ hand \in Messages /\ hand.len \in Nat /\ Limit \in Nat
      /\ pc \in {"idle", "checked", "added"} /\ open \in BOOLEAN
      /\ next \in Nat /\ sentJson \in Nat
      /\ Bytes(queue) \in Nat /\ Bytes(taken) \in Nat
  BY BytesType, OutboxAssumption DEF Typed, TypeOK, Messages
<1>1. CASE SendJson
  <2>1. Json(sentJson + 1) \in Messages /\ Json(sentJson + 1).len = 0
    BY <1>0, NewMessages
  <2>2. open => Bytes(queue') = Bytes(queue)
    BY <1>0, <1>1, <2>1, BytesAppend DEF SendJson, Push
  <2> QED BY <1>1, <2>2 DEF SendJson, Counted, CounterExact
<1>2. ASSUME NEW l \in Lengths, CheckBacklog(l) PROVE Counted'
  <2>1. l \in Nat /\ Binary(next + 1, l).len = l
    BY <1>0, OutboxAssumption, NewMessages
  <2> QED BY <1>0, <1>2, <2>1 DEF CheckBacklog, Counted, CounterExact
<1>3. CASE Account
  BY <1>0, <1>3 DEF Account, Counted, CounterExact
<1>4. CASE Enqueue
  <2>1. open => Bytes(queue') = Bytes(queue) + hand.len
    BY <1>0, <1>4, BytesAppend DEF Enqueue, Push
  <2> QED BY <1>0, <1>4, <2>1 DEF Enqueue, Counted, CounterExact
<1>5. CASE Take
  <2>1. Head(queue) \in Messages
    BY <1>0, <1>5, HeadTailProperties DEF Take
  <2>2. Bytes(queue) = Head(queue).len + Bytes(queue') /\ Bytes(taken) = 0
    BY <1>0, <1>5, BytesTail, BytesType DEF Take
  <2>3. Bytes(taken') = Head(queue).len
    BY <1>5, <2>1, BytesOfOne DEF Take
  <2>4. queue' \in Seq(Messages)
    BY <1>0, <1>5, HeadTailProperties DEF Take
  <2>5. Bytes(queue') \in Nat /\ Head(queue).len \in Nat
    BY <2>1, <2>4, BytesType DEF Messages
  <2> QED BY <1>0, <1>5, <2>2, <2>3, <2>5 DEF Take, Counted, CounterExact
<1>6. CASE Settle
  <2>1. Head(taken) \in Messages /\ Tail(taken) \in Seq(Messages) /\ Len(Tail(taken)) = Len(taken) - 1
    BY <1>0, <1>6, HeadTailProperties DEF Settle
  <2>2. Tail(taken) = << >>
    <3>1. Len(taken) \in Nat /\ Len(taken) # 0
      BY <1>0, <1>6, EmptySeq DEF Settle
    <3> QED BY <1>0, <2>1, <3>1, EmptySeq
  <2>3. Bytes(taken) = Head(taken).len + Bytes(Tail(taken)) /\ Bytes(<< >>) = 0
    <3>1. << >> \in Seq(Messages)
      OBVIOUS
    <3> QED BY <1>0, <1>6, <3>1, BytesTail, BytesType DEF Settle
  <2>4. Head(taken).len \in Nat
    BY <2>1 DEF Messages
  <2>5. /\ queuedBinary' = queuedBinary - Head(taken).len /\ taken' = << >>
        /\ UNCHANGED <<queue, pc, hand, open>>
    BY <1>6 DEF Settle
  <2>6. Bytes(taken) = Head(taken).len /\ Bytes(taken') = 0
    <3>1. Bytes(Tail(taken)) = 0
      BY ONLY <2>2, <2>3, Zenon
    <3>2. Bytes(taken') = 0
      BY ONLY <2>3, <2>5, Zenon
    <3>3. Bytes(taken) = Head(taken).len + 0
      BY ONLY <2>3, <3>1, Zenon
    <3>4. Head(taken).len + 0 = Head(taken).len
      BY ONLY <2>4
    <3> QED BY ONLY <3>2, <3>3, <3>4, Zenon
  <2>7. CounterExact'
    BY <1>0, <2>4, <2>5, <2>6 DEF Counted, CounterExact
  <2>8. PICK q \in Int, l \in Nat : q = queuedBinary' /\ l = Head(taken).len /\ q = queuedBinary - l
    BY <1>0, <2>4, <2>5
  <2>9. q <= Limit /\ (pc = "checked" => q + hand.len <= Limit)
    <3>1. queuedBinary <= Limit /\ (pc = "checked" => queuedBinary + hand.len <= Limit)
      BY DEF Counted
    <3>2. /\ q \in Int /\ l \in Nat /\ q = queuedBinary - l
          /\ queuedBinary \in Int /\ hand.len \in Int /\ Limit \in Int
      BY <1>0, <2>8
    <3>3. q <= Limit
      BY ONLY <3>1, <3>2
    <3>4. ASSUME queuedBinary + hand.len <= Limit PROVE q + hand.len <= Limit
      BY ONLY <3>2, <3>4
    <3> QED BY ONLY <3>1, <3>3, <3>4, Zenon
  <2> QED BY <2>5, <2>7, <2>8, <2>9 DEF Counted
<1>7. CASE WriterEnds
  BY <1>7 DEF WriterEnds, Counted, CounterExact
<1>8. CASE UNCHANGED vars
  BY <1>8 DEF vars, Counted, CounterExact
<1> QED BY <1>1, <1>2, <1>3, <1>4, <1>5, <1>6, <1>7, <1>8 DEF Next

\* The counter has the bytes of the queue and of what is being sent and taken,
\* however check, addition, push, receipt and subtraction interleave.
THEOREM CounterIsExact == Spec => []CounterExact
<1>1. Spec => [](Typed /\ Counted)
  BY InitTyped, NextTyped, InitCounted, NextCounted, PTL DEF Spec
<1>2. Counted => CounterExact
  BY DEF Counted
<1> QED BY <1>1, <1>2, PTL

\* A slow client costs no more than the limit of queued frames, though the
\* check and the addition are two steps (send_binary).
THEOREM BacklogIsBounded == Spec => []BacklogBounded
<1>1. Spec => [](Typed /\ Counted)
  BY InitTyped, NextTyped, InitCounted, NextCounted, PTL DEF Spec
<1>2. Typed /\ Counted => BacklogBounded
  <2> SUFFICES ASSUME Typed, Counted PROVE Bytes(queue) <= Limit /\ queuedBinary <= Limit
    BY DEF BacklogBounded
  <2>1. /\ Bytes(queue) \in Nat /\ Bytes(taken) \in Nat /\ hand.len \in Nat /\ Limit \in Nat
        /\ (queue = << >> => Bytes(queue) = 0) /\ queuedBinary \in Int
    BY BytesType, OutboxAssumption DEF Typed, TypeOK, Messages
  <2> QED BY <2>1 DEF Counted, CounterExact, Typed
<1> QED BY <1>1, <1>2, PTL

-----------------------------------------------------------------------------
(* The stream.                                                              *)

\* A message at the end that is the greatest of its kind keeps the order.
LEMMA OrderOfAppend ==
  ASSUME NEW s \in Seq(Messages), NEW m \in Messages, NEW kind,
         InOrder(s, kind),
         m.kind = kind => \A k \in Numbers(s, kind) : k < m.n
  PROVE  /\ InOrder(Append(s, m), kind)
         /\ Numbers(Append(s, m), kind) = Numbers(s, kind) \cup (IF m.kind = kind THEN {m.n} ELSE {})
<1> DEFINE t == Append(s, m)
<1>1. /\ t \in Seq(Messages) /\ Len(t) = Len(s) + 1 /\ Len(s) \in Nat
      /\ t[Len(s) + 1] = m /\ \A k \in 1..Len(s) : t[k] = s[k]
  BY AppendProperties
<1> HIDE DEF t
<1>2. ASSUME NEW i \in 1..Len(t), NEW j \in 1..Len(t), i < j, t[i].kind = kind, t[j].kind = kind
      PROVE  t[i].n < t[j].n
  <2>1. i \in 1..Len(s) /\ t[i] = s[i]
    BY <1>1, <1>2
  <2>2. CASE j = Len(s) + 1
    <3>1. s[i].n \in Numbers(s, kind)
      BY <1>2, <2>1 DEF Numbers
    <3> QED BY <1>1, <1>2, <2>1, <2>2, <3>1
  <2>3. CASE j # Len(s) + 1
    <3>1. j \in 1..Len(s) /\ t[j] = s[j]
      BY <1>1, <1>2, <2>3
    <3> QED BY <1>2, <2>1, <3>1 DEF InOrder
  <2> QED BY <2>2, <2>3
<1>3. ASSUME NEW k \in Numbers(t, kind)
      PROVE  k \in Numbers(s, kind) \cup (IF m.kind = kind THEN {m.n} ELSE {})
  <2>1. PICK i \in 1..Len(t) : t[i].kind = kind /\ k = t[i].n
    BY <1>3 DEF Numbers
  <2>2. CASE i = Len(s) + 1
    BY <1>1, <2>1, <2>2
  <2>3. CASE i # Len(s) + 1
    <3>1. i \in 1..Len(s) /\ t[i] = s[i]
      BY <1>1, <2>1, <2>3
    <3> QED BY <2>1, <3>1 DEF Numbers
  <2> QED BY <2>2, <2>3
<1>4. ASSUME NEW k \in Numbers(s, kind) PROVE k \in Numbers(t, kind)
  <2>1. PICK i \in 1..Len(s) : s[i].kind = kind /\ k = s[i].n
    BY <1>4 DEF Numbers
  <2>2. i \in 1..Len(t) /\ t[i] = s[i]
    BY <1>1, <2>1
  <2> QED BY <2>1, <2>2 DEF Numbers
<1>5. ASSUME m.kind = kind PROVE m.n \in Numbers(t, kind)
  <2>1. Len(s) + 1 \in 1..Len(t) /\ t[Len(s) + 1] = m
    BY <1>1
  <2> QED BY <1>5, <2>1 DEF Numbers
<1>6. InOrder(t, kind)
  BY <1>2 DEF InOrder
<1> QED BY <1>3, <1>4, <1>5, <1>6 DEF t

\* What is left when the end is cut off is in order.
LEMMA OrderOfPrefix ==
  ASSUME NEW s \in Seq(Messages), NEW t \in Seq(Messages), NEW kind,
         Len(t) <= Len(s), \A i \in 1..Len(t) : t[i] = s[i], InOrder(s, kind)
  PROVE  InOrder(t, kind) /\ Numbers(t, kind) \subseteq Numbers(s, kind)
<1>1. Len(t) \in Nat /\ Len(s) \in Nat
  OBVIOUS
<1>2. \A i \in 1..Len(t) : i \in 1..Len(s)
  BY <1>1
<1>3. InOrder(t, kind)
  BY <1>2 DEF InOrder
<1>4. Numbers(t, kind) \subseteq Numbers(s, kind)
  BY <1>2 DEF Numbers
<1> QED BY <1>3, <1>4

\* A queue is its head and what follows.
LEMMA HeadThenTail ==
  ASSUME NEW s \in Seq(Messages), s # << >>
  PROVE  << Head(s) >> \o Tail(s) = s
<1>1. /\ Head(s) \in Messages /\ Tail(s) \in Seq(Messages) /\ Len(Tail(s)) = Len(s) - 1
      /\ Len(s) \in Nat \ {0} /\ Head(s) = s[1]
      /\ \A i \in 1..Len(Tail(s)) : Tail(s)[i] = s[i + 1]
  BY HeadTailProperties, EmptySeq
<1> DEFINE h == << Head(s) >>
           u == h \o Tail(s)
<1>2. h \in Seq(Messages) /\ Len(h) = 1 /\ h[1] = s[1]
  BY <1>1
<1> HIDE DEF h
<1>3. /\ u \in Seq(Messages) /\ Len(u) = Len(s)
      /\ \A i \in 1..Len(s) : u[i] = IF i <= 1 THEN h[i] ELSE Tail(s)[i - 1]
  <2>1. /\ u \in Seq(Messages) /\ Len(u) = Len(h) + Len(Tail(s))
        /\ \A i \in 1..(Len(h) + Len(Tail(s))) :
             u[i] = IF i <= Len(h) THEN h[i] ELSE Tail(s)[i - Len(h)]
    BY <1>1, <1>2, ConcatProperties
  <2>2. Len(h) + Len(Tail(s)) = Len(s)
    BY <1>1, <1>2
  <2> HIDE DEF u
  <2> QED BY <1>2, <2>1, <2>2
<1> HIDE DEF u
<1>4. ASSUME NEW i \in 1..Len(s) PROVE u[i] = s[i]
  <2>1. CASE i = 1
    BY <1>2, <1>3, <2>1
  <2>2. CASE i # 1
    <3>1. i - 1 \in 1..Len(Tail(s)) /\ ~(i <= 1) /\ (i - 1) + 1 = i
      BY <1>1, <2>2
    <3> QED BY <1>1, <1>3, <3>1
  <2> QED BY <2>1, <2>2
<1>5. u = s
  BY <1>3, <1>4, SeqEqual
<1> QED BY <1>5 DEF u, h

\* The types that the stream is made of.
LEMMA StreamType ==
  ASSUME Typed
  PROVE  /\ received \in Seq(Messages) /\ taken \in Seq(Messages) /\ queue \in Seq(Messages)
         /\ received \o taken \in Seq(Messages) /\ Stream \in Seq(Messages)
<1>1. received \in Seq(Messages) /\ taken \in Seq(Messages) /\ queue \in Seq(Messages)
  BY DEF Typed, TypeOK
<1>2. received \o taken \in Seq(Messages)
  BY <1>1, ConcatProperties
<1> QED BY <1>1, <1>2, ConcatProperties DEF Stream

\* A push lengthens the stream, unless nobody receives.
LEMMA StreamPushed ==
  ASSUME Typed, NEW m \in Messages, Push(m), UNCHANGED <<received, taken>>
  PROVE  Stream' = IF open THEN Append(Stream, m) ELSE Stream
<1>1. CASE open
  <2>1. queue' = queue \o << m >> /\ << m >> \in Seq(Messages)
    BY <1>1, StreamType, AppendIsConcat DEF Push
  <2>2. Stream' = (received \o taken) \o (queue \o << m >>)
    BY <2>1 DEF Stream
  <2>3. @ = ((received \o taken) \o queue) \o << m >>
    BY <2>1, StreamType, ConcatAssociative
  <2>4. @ = Append(Stream, m)
    BY StreamType, AppendIsConcat DEF Stream
  <2> QED BY <1>1, <2>2, <2>3, <2>4
<1>2. CASE ~open
  BY <1>2 DEF Push, Stream
<1> QED BY <1>1, <1>2

\* Receipt moves a message within it.
LEMMA StreamReceived ==
  ASSUME Typed, Take \/ Settle
  PROVE  Stream' = Stream
<1>1. CASE Take
  <2>1. taken = << >> /\ queue # << >> /\ received' = received
        /\ taken' = << Head(queue) >> /\ queue' = Tail(queue)
    BY <1>1 DEF Take
  <2>2. << Head(queue) >> \in Seq(Messages) /\ Tail(queue) \in Seq(Messages)
    BY <2>1, StreamType, HeadTailProperties
  <2>3. Stream' = (received \o << Head(queue) >>) \o Tail(queue)
    BY <2>1 DEF Stream
  <2>4. @ = received \o (<< Head(queue) >> \o Tail(queue))
    BY <2>2, StreamType, ConcatAssociative
  <2>5. @ = received \o queue
    BY <2>1, StreamType, HeadThenTail
  <2>6. Stream = received \o queue
    BY <2>1, StreamType, ConcatEmptySeq DEF Stream
  <2> QED BY <2>3, <2>4, <2>5, <2>6
<1>2. CASE Settle
  <2>1. /\ taken # << >> /\ received' = Append(received, Head(taken)) /\ taken' = << >>
        /\ queue' = queue
    BY <1>2 DEF Settle
  <2>2. Head(taken) \in Messages /\ Tail(taken) = << >>
    <3>1. /\ Head(taken) \in Messages /\ Tail(taken) \in Seq(Messages)
          /\ Len(Tail(taken)) = Len(taken) - 1 /\ Len(taken) \in Nat \ {0}
      BY <2>1, StreamType, HeadTailProperties, EmptySeq
    <3>2. Len(Tail(taken)) = 0
      BY <3>1 DEF Typed
    <3> QED BY <3>1, <3>2, EmptySeq
  <2>3. << Head(taken) >> \in Seq(Messages)
    BY <2>2
  <2>4. taken = << Head(taken) >>
    BY <2>1, <2>2, <2>3, StreamType, HeadThenTail, ConcatEmptySeq
  <2>5. received' = received \o taken /\ received' \in Seq(Messages)
    BY <2>1, <2>2, <2>4, StreamType, AppendIsConcat, AppendProperties
  <2>6. received' \o << >> = received \o taken
    BY <2>5, ConcatEmptySeq
  <2> QED BY <2>1, <2>6 DEF Stream
<1> QED BY <1>1, <1>2

\* When the writer ends, what was not received is cut off.
LEMMA StreamCut ==
  ASSUME Typed, WriterEnds
  PROVE  Len(Stream') <= Len(Stream) /\ \A i \in 1..Len(Stream') : Stream'[i] = Stream[i]
<1>1. taken = << >> /\ queue' = << >> /\ taken' = taken /\ received' = received
  BY DEF WriterEnds
<1>2. Stream' = received /\ Stream = received \o queue
  BY <1>1, StreamType, ConcatEmptySeq DEF Stream
<1>3. /\ Len(received) \in Nat /\ Len(queue) \in Nat
      /\ Len(received \o queue) = Len(received) + Len(queue)
      /\ \A i \in 1..(Len(received) + Len(queue)) :
           (received \o queue)[i] = IF i <= Len(received) THEN received[i] ELSE queue[i - Len(received)]
  BY StreamType, ConcatProperties, LenProperties
<1> QED BY <1>2, <1>3

-----------------------------------------------------------------------------
(* Order and completeness.                                                  *)

\* The frame that is in send_binary.
InHand == IF pc = "idle" THEN {} ELSE {next}

Ordered ==
  /\ InOrder(Stream, "json") /\ InOrder(Stream, "binary")
  /\ Numbers(Stream, "json") \subseteq 1..sentJson
  /\ open => Numbers(Stream, "json") = 1..sentJson
  /\ dropped \subseteq 1..next
  /\ pc # "idle" => hand.n = next /\ next \in (1..next) \ dropped
  /\ Numbers(Stream, "binary") \subseteq ((1..next) \ dropped) \ InHand
  /\ open => Numbers(Stream, "binary") = ((1..next) \ dropped) \ InHand

\* The start.
LEMMA InitOrdered == Init => Ordered
<1> SUFFICES ASSUME Init PROVE Ordered
  OBVIOUS
<1>1. Stream = << >>
  <2>1. << >> \in Seq(Messages)
    OBVIOUS
  <2> QED BY <2>1, ConcatEmptySeq DEF Init, Stream
<1>2. \A kind : InOrder(Stream, kind) /\ Numbers(Stream, kind) = {}
  BY <1>1 DEF InOrder, Numbers
<1>3. sentJson = 0 /\ next = 0 /\ dropped = {} /\ pc = "idle"
  BY DEF Init
<1>4. 1..0 = {}
  OBVIOUS
<1> QED BY <1>2, <1>3, <1>4 DEF Ordered, InHand

\* A JSON message joins the end.
LEMMA SendJsonOrdered ==
  ASSUME Typed, Ordered, SendJson
  PROVE  Ordered'
<1> DEFINE m == Json(sentJson + 1)
<1>1. /\ sentJson' = sentJson + 1 /\ sentJson \in Nat /\ next \in Nat
      /\ UNCHANGED <<pc, hand, next, dropped, received, taken, open>>
  BY OutboxAssumption DEF SendJson, Typed, TypeOK
<1>2. m \in Messages /\ m.kind = "json" /\ m.n = sentJson + 1
  BY <1>1, NewMessages
<1>3. Stream' = IF open THEN Append(Stream, m) ELSE Stream
  BY <1>1, <1>2, StreamPushed DEF SendJson
<1>4. Stream \in Seq(Messages)
  BY StreamType
<1> HIDE DEF m
<1>5. InHand' = InHand
  BY <1>1 DEF InHand
<1>6. CASE open
  <2>1. \A k \in Numbers(Stream, "json") : k < m.n
    BY <1>1, <1>2 DEF Ordered
  <2>2. InOrder(Stream', "json") /\ Numbers(Stream', "json") = Numbers(Stream, "json") \cup {m.n}
    BY <1>2, <1>3, <1>4, <1>6, <2>1, OrderOfAppend DEF Ordered
  <2>3. InOrder(Stream', "binary") /\ Numbers(Stream', "binary") = Numbers(Stream, "binary")
    <3>1. m.kind # "binary" /\ InOrder(Stream, "binary")
      BY <1>2 DEF Ordered
    <3>2. /\ InOrder(Append(Stream, m), "binary")
          /\ Numbers(Append(Stream, m), "binary") = Numbers(Stream, "binary") \cup {}
      BY <1>2, <1>4, <3>1, OrderOfAppend
    <3> QED BY <1>3, <1>6, <3>2
  <2>4. (1..sentJson) \cup {m.n} = 1..sentJson'
    BY <1>1, <1>2
  <2> QED BY <1>1, <1>5, <1>6, <2>2, <2>3, <2>4 DEF Ordered
<1>7. CASE ~open
  <2>1. 1..sentJson \subseteq 1..sentJson'
    BY <1>1
  <2> QED BY <1>1, <1>3, <1>5, <1>7, <2>1 DEF Ordered
<1> QED BY <1>6, <1>7

\* The next frame is dropped, or it is in hand and nowhere else.
LEMMA CheckOrdered ==
  ASSUME Typed, Ordered, NEW l \in Lengths, CheckBacklog(l)
  PROVE  Ordered'
<1>1. /\ next' = next + 1 /\ next \in Nat /\ pc = "idle" /\ l \in Nat
      /\ Stream' = Stream /\ UNCHANGED <<sentJson, open>>
  BY OutboxAssumption DEF CheckBacklog, Typed, TypeOK, Stream
<1>2. next' \notin 1..next /\ 1..next' = (1..next) \cup {next'} /\ next' \in 1..next'
  BY <1>1
<1>3. InHand = {}
  BY <1>1 DEF InHand
<1>4. \/ pc' = "idle" /\ dropped' = dropped \cup {next'} /\ InHand' = {}
      \/ pc' = "checked" /\ hand'.n = next' /\ dropped' = dropped /\ InHand' = {next'}
  BY <1>1, NewMessages DEF CheckBacklog, InHand
<1>5. ((1..next') \ dropped') \ InHand' = ((1..next) \ dropped) \ InHand
  BY <1>2, <1>3, <1>4 DEF Ordered
<1>6. dropped' \subseteq 1..next' /\ (pc' # "idle" => hand'.n = next' /\ next' \in (1..next') \ dropped')
  BY <1>2, <1>4 DEF Ordered
<1> QED BY <1>1, <1>5, <1>6 DEF Ordered

\* The frame in hand is the greatest, so it may join the end.
LEMMA EnqueueOrdered ==
  ASSUME Typed, Ordered, Enqueue
  PROVE  Ordered'
<1>1. /\ pc = "added" /\ pc' = "idle" /\ Push(hand) /\ hand \in Messages /\ hand.kind = "binary"
      /\ next \in Nat /\ UNCHANGED <<hand, next, dropped, received, taken, sentJson, open>>
  BY OutboxAssumption DEF Enqueue, Typed, TypeOK
<1>2. Stream' = IF open THEN Append(Stream, hand) ELSE Stream
  BY <1>1, StreamPushed
<1>3. Stream \in Seq(Messages)
  BY StreamType
<1>4. /\ InHand = {next} /\ InHand' = {} /\ hand.n = next /\ next \in (1..next) \ dropped
  BY <1>1 DEF Ordered, InHand
<1>5. CASE open
  <2>1. \A k \in Numbers(Stream, "binary") : k < hand.n
    BY <1>1, <1>4 DEF Ordered
  <2>2. InOrder(Stream', "binary") /\ Numbers(Stream', "binary") = Numbers(Stream, "binary") \cup {next}
    BY <1>1, <1>2, <1>3, <1>4, <1>5, <2>1, OrderOfAppend DEF Ordered
  <2>3. InOrder(Stream', "json") /\ Numbers(Stream', "json") = Numbers(Stream, "json")
    <3>1. hand.kind # "json" /\ InOrder(Stream, "json")
      BY <1>1 DEF Ordered
    <3>2. /\ InOrder(Append(Stream, hand), "json")
          /\ Numbers(Append(Stream, hand), "json") = Numbers(Stream, "json") \cup {}
      BY <1>1, <1>3, <3>1, OrderOfAppend
    <3> QED BY <1>2, <1>5, <3>2
  <2> QED BY <1>1, <1>4, <1>5, <2>2, <2>3 DEF Ordered
<1>6. CASE ~open
  BY <1>1, <1>2, <1>4, <1>6 DEF Ordered
<1> QED BY <1>5, <1>6

\* Every step.
LEMMA NextOrdered == Typed /\ Ordered /\ [Next]_vars => Ordered'
<1> SUFFICES ASSUME Typed, Ordered, [Next]_vars PROVE Ordered'
  OBVIOUS
<1>1. CASE Account \/ Take \/ Settle \/ UNCHANGED vars
  <2>1. Stream' = Stream
    BY <1>1, StreamReceived DEF Account, vars, Stream
  <2>2. UNCHANGED <<hand, next, dropped, sentJson, open>> /\ (pc' = "idle" <=> pc = "idle")
    BY <1>1 DEF Account, Take, Settle, vars
  <2>3. InHand' = InHand
    BY <2>2 DEF InHand
  <2> QED BY <2>1, <2>2, <2>3 DEF Ordered
<1>2. CASE WriterEnds
  <2>1. UNCHANGED <<hand, next, dropped, sentJson, pc>> /\ ~open'
    BY <1>2 DEF WriterEnds
  <2>2. Typed' /\ Stream \in Seq(Messages)
    BY StreamType, NextTyped
  <2>3. Stream' \in Seq(Messages)
    BY <2>2, <1>2 DEF Typed, TypeOK, WriterEnds, Stream
  <2>4. \A kind \in {"json", "binary"} :
          InOrder(Stream', kind) /\ Numbers(Stream', kind) \subseteq Numbers(Stream, kind)
    BY <1>2, <2>2, <2>3, StreamCut, OrderOfPrefix DEF Ordered
  <2>5. InHand' = InHand
    BY <2>1 DEF InHand
  <2> QED BY <2>1, <2>4, <2>5 DEF Ordered
<1> QED BY <1>1, <1>2, SendJsonOrdered, CheckOrdered, EnqueueOrdered DEF Next

\* No JSON message is dropped, repeated or reordered on a connection that is
\* open, and none appears that was not sent (send_json, recv).
THEOREM JsonIsComplete == Spec => []JsonComplete
<1>1. Spec => [](Typed /\ Ordered)
  BY InitTyped, NextTyped, InitOrdered, NextOrdered, PTL DEF Spec
<1>2. Ordered => JsonComplete
  BY DEF Ordered, JsonComplete
<1> QED BY <1>1, <1>2, PTL

\* Frames reach the client in their order, each once, and all that were not
\* dropped (send_binary, recv).
THEOREM FramesAreOrdered == Spec => []FramesOrdered
<1>1. Spec => [](Typed /\ Ordered)
  BY InitTyped, NextTyped, InitOrdered, NextOrdered, PTL DEF Spec
<1>2. Ordered => FramesOrdered
  BY DEF Ordered, FramesOrdered, InHand
<1> QED BY <1>1, <1>2, PTL
-----------------------------------------------------------------------------
(* The abstract queue.                                                      *)

\* The frame in send_binary is the last one that was offered.
InFlight == pc # "idle" => \E l \in Lengths : hand = Binary(next, l)

\* Every step keeps it.
LEMMA NextInFlight == InFlight /\ [Next]_vars => InFlight'
<1> SUFFICES ASSUME InFlight, [Next]_vars PROVE InFlight'
  OBVIOUS
<1>1. ASSUME NEW l \in Lengths, CheckBacklog(l) PROVE InFlight'
  BY <1>1 DEF CheckBacklog, InFlight, Binary
<1>2. CASE Account \/ Enqueue
  BY <1>2 DEF Account, Enqueue, InFlight, Binary
<1>3. CASE UNCHANGED vars \/ SendJson \/ Take \/ Settle \/ WriterEnds
  BY <1>3 DEF vars, SendJson, Take, Settle, WriterEnds, InFlight, Binary
<1> QED BY <1>1, <1>2, <1>3 DEF Next

\* What is proved of the steps.
Known == Typed /\ Counted /\ InFlight

\* The invariant of the refinement.
LEMMA KnownInvariant == Spec => []Known
<1>1. Init => InFlight
  BY DEF Init, InFlight
<1> QED BY <1>1, InitTyped, NextTyped, InitCounted, NextCounted, NextInFlight, PTL DEF Spec, Known

\* What the client has yet to receive.
Pending == taken \o queue

\* It is what recv holds, if anything, and the channel.
LEMMA PendingParts ==
  ASSUME Typed
  PROVE  /\ Pending \in Seq(Messages)
         /\ taken = << >> => Pending = queue
         /\ taken # << >> => /\ Pending # << >> /\ Head(Pending) = Head(taken)
                             /\ Tail(Pending) = queue /\ taken = << Head(taken) >>
                             /\ Head(taken) \in Messages
<1>1. taken \in Seq(Messages) /\ queue \in Seq(Messages) /\ Pending \in Seq(Messages)
  BY StreamType, ConcatProperties DEF Pending
<1>2. ASSUME taken = << >> PROVE Pending = queue
  BY <1>1, <1>2, ConcatEmptySeq DEF Pending
<1>3. ASSUME taken # << >>
      PROVE  /\ Pending # << >> /\ Head(Pending) = Head(taken)
             /\ Tail(Pending) = queue /\ taken = << Head(taken) >>
             /\ Head(taken) \in Messages
  <2>1. /\ Head(taken) \in Messages /\ Len(taken) = 1 /\ Head(taken) = taken[1]
    <3>1. Len(taken) \in Nat /\ Len(taken) # 0
      BY <1>1, <1>3, EmptySeq, LenProperties
    <3>2. Len(taken) <= 1
      BY DEF Typed
    <3>3. Head(taken) \in Messages /\ Head(taken) = taken[1]
      BY <1>1, <1>3, HeadTailProperties
    <3>4. Len(taken) = 1
      <4>1. PICK n \in Nat : n = Len(taken)
        BY <3>1
      <4>2. n # 0 /\ n <= 1
        BY <3>1, <3>2, <4>1
      <4>3. n = 1
        BY <4>2
      <4> QED BY <4>1, <4>3
    <3> QED BY <3>3, <3>4
  <2>2. taken = << Head(taken) >>
    BY <1>1, <2>1
  <2>3. /\ Len(queue) \in Nat /\ Len(Pending) = Len(queue) + 1
        /\ Pending[1] = Head(taken)
        /\ \A i \in 1..Len(queue) : Pending[i + 1] = queue[i]
    <3>1. Len(queue) \in Nat
      BY <1>1, LenProperties
    <3>2. /\ Len(Pending) = Len(taken) + Len(queue)
          /\ \A i \in 1..(Len(taken) + Len(queue)) :
               Pending[i] = IF i <= Len(taken) THEN taken[i] ELSE queue[i - Len(taken)]
      BY <1>1, ConcatProperties DEF Pending
    <3>3. 1 \in 1..(1 + Len(queue)) /\ 1 <= 1
      BY <3>1
    <3>4. Pending[1] = taken[1]
      BY <2>1, <3>2, <3>3
    <3>5. ASSUME NEW i \in 1..Len(queue) PROVE Pending[i + 1] = queue[i]
      <4>1. i + 1 \in 1..(1 + Len(queue)) /\ ~(i + 1 <= 1) /\ (i + 1) - 1 = i
        BY <3>1
      <4> QED BY <2>1, <3>2, <4>1
    <3>6. Len(Pending) = Len(queue) + 1
      BY <2>1, <3>1, <3>2
    <3> QED BY <2>1, <3>1, <3>4, <3>5, <3>6
  <2>4. Pending # << >> /\ Head(Pending) = Head(taken)
    BY <1>1, <2>3, EmptySeq
  <2>5. /\ Tail(Pending) \in Seq(Messages) /\ Len(Tail(Pending)) = Len(queue)
        /\ \A i \in 1..Len(queue) : Tail(Pending)[i] = queue[i]
    BY <1>1, <2>3, <2>4, HeadTailProperties
  <2>6. Tail(Pending) = queue
    BY <1>1, <2>5, SeqEqual
  <2> QED BY <2>1, <2>2, <2>4, <2>6
<1> QED BY <1>1, <1>2, <1>3

\* Its bytes are those of both.
LEMMA PendingBytes ==
  ASSUME Typed
  PROVE  Queue!Bytes(Pending) = Bytes(taken) + Bytes(queue)
<1>1. Queue!Bytes(Pending) = Bytes(Pending)
  BY DEF Queue!Bytes, Bytes
<1>2. queue \in Seq(Messages) /\ Bytes(queue) \in Nat /\ Bytes(<< >>) = 0
  <2>1. << >> \in Seq(Messages)
    OBVIOUS
  <2> QED BY <2>1, StreamType, BytesType
<1>3. CASE taken = << >>
  BY <1>1, <1>2, <1>3, PendingParts
<1>4. CASE taken # << >>
  <2>1. Bytes(Pending) = Head(taken).len + Bytes(queue)
    BY <1>4, PendingParts, BytesTail
  <2>2. Bytes(taken) = Head(taken).len
    BY <1>4, PendingParts, BytesOfOne
  <2> QED BY <1>1, <2>1, <2>2
<1> QED BY <1>3, <1>4

\* A push is taken by the abstract queue.
LEMMA PushImplements ==
  ASSUME Typed, NEW m \in Messages, Push(m), UNCHANGED taken
  PROVE  Queue!Accept(m)
<1>1. CASE open
  <2>1. queue' = queue \o << m >> /\ << m >> \in Seq(Messages)
    BY <1>1, StreamType, AppendIsConcat DEF Push
  <2>2. taken \o (queue \o << m >>) = (taken \o queue) \o << m >>
    BY <2>1, StreamType, ConcatAssociative
  <2>3. (taken \o queue) \o << m >> = Append(taken \o queue, m)
    BY PendingParts, AppendIsConcat DEF Pending
  <2> QED BY <1>1, <2>1, <2>2, <2>3 DEF Queue!Accept
<1>2. CASE ~open
  BY <1>2 DEF Push, Queue!Accept
<1> QED BY <1>1, <1>2

\* The first step of send_binary loses the frame or nobody sees it.
LEMMA CheckImplements ==
  ASSUME Known, NEW l \in Lengths, CheckBacklog(l)
  PROVE  Queue!LoseFrame(l) \/ UNCHANGED Queue!queueVars
<1>1. /\ pc = "idle" /\ next' = next + 1
      /\ UNCHANGED <<queue, taken, received, sentJson, open>>
  BY DEF CheckBacklog
<1>2. next \in Nat
  BY DEF Known, Typed, TypeOK
<1>3. CASE queuedBinary + l > Limit
  <2>1. pc' = "idle"
    BY <1>1, <1>3 DEF CheckBacklog
  <2>2. ASSUME open PROVE Queue!Bytes(taken \o queue) + l > Limit
    <3>1. queuedBinary = Bytes(queue) + Bytes(taken) + 0
      BY <1>1, <2>2 DEF Known, Counted, CounterExact
    <3>2. Bytes(queue) \in Nat /\ Bytes(taken) \in Nat
      BY BytesType DEF Known, Typed, TypeOK
    <3>3. Queue!Bytes(taken \o queue) = Bytes(taken) + Bytes(queue)
      BY PendingBytes DEF Known, Pending
    <3>4. Queue!Bytes(taken \o queue) = queuedBinary
      BY <3>1, <3>2, <3>3
    <3> QED BY <1>3, <3>4
  <2> QED BY <1>1, <2>1, <2>2 DEF Queue!LoseFrame
<1>4. CASE ~(queuedBinary + l > Limit)
  <2>1. pc' = "checked"
    BY <1>4 DEF CheckBacklog
  <2>2. (next + 1) - 1 = next
    BY <1>2
  <2> QED BY <1>1, <2>1, <2>2 DEF Queue!queueVars
<1> QED BY <1>3, <1>4

\* The last step of send_binary sends the frame: it still fits.
LEMMA EnqueueImplements ==
  ASSUME Known, Enqueue
  PROVE  \E l \in Lengths : Queue!SendFrame(l)
<1>1. /\ pc = "added" /\ pc' = "idle" /\ Push(hand)
      /\ UNCHANGED <<next, taken, received, sentJson, open>>
  BY DEF Enqueue
<1>2. PICK l \in Lengths : hand = Binary(next, l)
  BY <1>1 DEF Known, InFlight
<1>3. hand \in Messages /\ hand.len = l /\ next \in Nat /\ l \in Nat
  BY <1>2, OutboxAssumption DEF Known, Typed, TypeOK, Binary
<1>4. ASSUME open PROVE Queue!Bytes(taken \o queue) + l <= Limit
  <2>1. queuedBinary = Bytes(queue) + Bytes(taken) + l /\ queuedBinary <= Limit
    BY <1>1, <1>3, <1>4 DEF Known, Counted, CounterExact
  <2>2. Bytes(queue) \in Nat /\ Bytes(taken) \in Nat
    BY BytesType DEF Known, Typed, TypeOK
  <2>3. Queue!Bytes(taken \o queue) = Bytes(taken) + Bytes(queue)
    BY PendingBytes DEF Known, Pending
  <2>4. Queue!Bytes(taken \o queue) + l = queuedBinary
    BY <1>3, <2>1, <2>2, <2>3
  <2> QED BY <2>1, <2>4
<1>5. next = (next - 1) + 1
  BY <1>3
<1>6. Queue!Accept([kind |-> "binary", n |-> next, len |-> l])
  BY <1>1, <1>2, <1>3, PushImplements DEF Known, Binary
<1>7. Queue!SendFrame(l)
  BY <1>1, <1>4, <1>5, <1>6 DEF Queue!SendFrame
<1> QED BY <1>7

\* Taking a message is not seen; accounting for it is its receipt.
LEMMA RecvImplements ==
  ASSUME Known, Take \/ Settle
  PROVE  Queue!Receive \/ UNCHANGED Queue!queueVars
<1>1. CASE Take
  <2>1. /\ taken = << >> /\ queue # << >>
        /\ taken' = << Head(queue) >> /\ queue' = Tail(queue)
        /\ UNCHANGED <<received, sentJson, next, pc, open>>
    BY <1>1 DEF Take
  <2>2. taken' \o queue' = queue /\ taken \o queue = queue
    BY <2>1, StreamType, HeadThenTail, PendingParts DEF Known, Pending
  <2> QED BY <2>1, <2>2 DEF Queue!queueVars
<1>2. CASE Settle
  <2>1. /\ taken # << >> /\ taken' = << >> /\ received' = Append(received, Head(taken))
        /\ UNCHANGED <<queue, sentJson, next, pc, open>>
    BY <1>2 DEF Settle
  <2>2. /\ taken \o queue # << >> /\ Head(taken \o queue) = Head(taken)
        /\ Tail(taken \o queue) = queue
    BY <2>1, PendingParts DEF Known, Pending
  <2>3. taken' \o queue' = queue
    BY <2>1, StreamType, ConcatEmptySeq DEF Known
  <2> QED BY <2>1, <2>2, <2>3 DEF Queue!Receive
<1> QED BY <1>1, <1>2

\* Every step is one of the queue, or not seen.
LEMMA StepImplements == Known /\ [Next]_vars => [Queue!Next]_(Queue!queueVars)
<1> SUFFICES ASSUME Known, [Next]_vars PROVE [Queue!Next]_(Queue!queueVars)
  OBVIOUS
<1>1. CASE SendJson
  <2>1. /\ sentJson' = sentJson + 1 /\ Push(Json(sentJson + 1))
        /\ UNCHANGED <<next, pc, taken, received, open>>
    BY <1>1 DEF SendJson
  <2>2. Json(sentJson + 1) \in Messages
    <3>1. sentJson + 1 \in Nat
      BY DEF Known, Typed, TypeOK
    <3> QED BY <3>1 DEF Json, Messages
  <2>3. Queue!Accept([kind |-> "json", n |-> sentJson', len |-> 0])
    BY <2>1, <2>2, PushImplements DEF Known, Json
  <2>4. Queue!SendJson
    BY <2>1, <2>3 DEF Queue!SendJson
  <2> QED BY <2>4 DEF Queue!Next
<1>2. ASSUME NEW l \in Lengths, CheckBacklog(l) PROVE [Queue!Next]_(Queue!queueVars)
  BY <1>2, CheckImplements DEF Queue!Next
<1>3. CASE Account
  BY <1>3 DEF Account, Queue!queueVars
<1>4. CASE Enqueue
  BY <1>4, EnqueueImplements DEF Queue!Next
<1>5. CASE Take \/ Settle
  BY <1>5, RecvImplements DEF Queue!Next
<1>6. CASE WriterEnds
  <2>1. /\ open /\ taken = << >> /\ open' = FALSE /\ queue' = << >> /\ taken' = taken
        /\ UNCHANGED <<received, sentJson, next, pc>>
    BY <1>6 DEF WriterEnds
  <2>2. taken' \o queue' = << >>
    BY <2>1
  <2>3. Queue!Close
    BY <2>1, <2>2 DEF Queue!Close
  <2> QED BY <2>3 DEF Queue!Next
<1>7. CASE UNCHANGED vars
  BY <1>7 DEF vars, Queue!queueVars
<1> QED BY <1>1, <1>2, <1>3, <1>4, <1>5, <1>6, <1>7 DEF Next

\* send_binary and recv, in steps and without a lock, are a queue with a limit
\* in which each send and each receipt is one step (ClientHandle,
\* ClientReceiver).
THEOREM OutboxImplementsQueue == Spec => ImplementsQueue
<1>1. Init => Queue!Init
  BY DEF Init, Queue!Init
<1> QED BY <1>1, KnownInvariant, StepImplements, PTL DEF Spec, ImplementsQueue, Queue!Spec

=============================================================================
