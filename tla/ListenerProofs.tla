---------------------------- MODULE ListenerProofs ----------------------------
(***************************************************************************)
(* For every request, device, signal, bound and word size: the updates of  *)
(* a listener of module Listener join up, and a listener with a count gets *)
(* exactly that many output samples.  Both need to know how the listener's *)
(* own indices continue the last update that was sent (Resumes), which in  *)
(* turn needs that a sweep under way does not look for a trigger again.    *)
(* The listener keeps its types, and one that follows the stream without a *)
(* trigger loses nothing: it is at most a chunk behind when its turn is    *)
(* over, and a packet more before it (CloseBehind).                        *)
(*                                                                         *)
(* In a word far larger than all requests and bounds (RoomFor), nothing is *)
(* left to send when the turns are over (CaughtUp), and the sweeps of a    *)
(* repeating trigger move forward (SweepsAdvance).  Both need to know      *)
(* where an index can be: at most an offset below zero or a few requests   *)
(* beyond the data (Located), so that its signed reading is its value.     *)
(* Both are of requests that re-arm ahead of their sweep (RearmsAhead): a  *)
(* hold-off may be negative, but not by the whole sweep.                   *)
(***************************************************************************)
EXTENDS Listener, WellFoundedInduction, TLAPS

\* The remainder of a division is a natural number.
LEMMA RemainderIsNat ==
  ASSUME NEW n \in Nat \ {0}, NEW a \in Int
  PROVE  a % n \in Nat
OBVIOUS

\* The quotient of naturals is a natural number.
LEMMA QuotientIsNat ==
  ASSUME NEW n \in Nat \ {0}, NEW a \in Nat
  PROVE  a \div n \in Nat
OBVIOUS

\* A wrapped index is a natural number.
LEMMA WrapIsNat ==
  ASSUME NEW i \in Int
  PROVE  Wrap(i) \in Nat
BY RemainderIsNat, DeviceAssumption DEF Wrap

\* A non-empty set of indices has a least one.
LEMMA LeastIndex ==
  ASSUME NEW S \in SUBSET Nat, S # {}
  PROVE  Min(S) \in S
<1> DEFINE less == OpToRel(<, Nat)
<1>1. PICK x \in S : \A y \in S : ~(<<y, x>> \in less)
  <2> HIDE DEF less
  <2>1. IsWellFoundedOn(less, Nat)
    BY NatLessThanWellFounded DEF less
  <2> QED BY <2>1, WFMin
<1>2. \A y \in S : x =< y
  <2> SUFFICES ASSUME NEW y \in S PROVE x =< y
    OBVIOUS
  <2>1. ~(y < x)
    BY <1>1 DEF OpToRel
  <2> QED BY <2>1
<1> QED BY <1>2 DEF Min

\* What a request made of, field by field.
LEMMA RequestFields ==
  ASSUME NEW r \in Requests
  PROVE  /\ r.sink \in Sinks /\ r.trigger \in Triggers /\ r.repeat \in BOOLEAN
         /\ r.decimate \in Nat \ {0} /\ r.start \in Int /\ r.count \in Int
         /\ r.holdoff \in Int /\ r.offset \in Int /\ r.force \in Nat
BY RequestsAssumption

\* The state, without its record of updates.
Counters ==
  /\ captureI \in Nat /\ captureO \in Nat /\ req \in Requests
  /\ index \in Nat /\ outIndex \in Nat /\ holdoff \in Int /\ forceIndex \in Nat

\* Whatever the search for a trigger does, it leaves a natural index.
LEMMA FindTriggerType ==
  ASSUME Counters
  PROVE  FindTrigger.index \in Nat
<1>1. /\ req.offset \in Int /\ index \in Nat /\ captureI \in Nat /\ forceIndex \in Nat
  BY RequestFields DEF Counters
<1>2. ScanStart \in Nat /\ ScanEnd \in Nat
  <2>1. ScanStart \in Nat
    BY <1>1, WrapIsNat DEF ScanStart
  <2> QED BY <1>1, <2>1 DEF ScanEnd
<1>3. InStream.index \in Nat
  <2>1. CASE RisingEdges # {}
    <3>1. RisingEdges \in SUBSET Nat /\ RisingEdges \in SUBSET Int
      BY <1>1, <1>2 DEF RisingEdges
    <3>2. Min(RisingEdges) \in RisingEdges
      BY ONLY <2>1, <3>1, LeastIndex, Zenon
    <3>3. Min(RisingEdges) \in Int
      BY ONLY <3>1, <3>2, Zenon
    <3>4. Wrap(Min(RisingEdges) + req.offset) \in Nat
      BY <1>1, <3>3, WrapIsNat
    <3> QED BY <2>1, <3>4 DEF InStream
  <2>2. CASE RisingEdges = {}
    BY <2>2, <1>2 DEF InStream
  <2> QED BY <2>1, <2>2
<1>4. OutSource.index \in Nat
  <2>1. PhaseZeroAfter(index) \in Nat
    <3>1. Period \in Nat \ {0} /\ index \in Int
      BY <1>1, DeviceAssumption
    <3>2. index % Period \in Nat
      BY <3>1, RemainderIsNat
    <3>3. (Period - (index % Period)) % Period \in Nat
      BY <3>1, <3>2, RemainderIsNat
    <3> QED BY <1>1, <3>3 DEF PhaseZeroAfter
  <2>2. Wrap(PhaseZeroAfter(index) + req.offset) \in Nat
    BY <1>1, <2>1, WrapIsNat
  <2> QED BY <1>1, <2>2 DEF OutSource
<1> QED BY <1>1, <1>3, <1>4 DEF FindTrigger

\* A listener whose sweep has begun does not look for its trigger.
LEMMA SweepKeepsIndex ==
  ASSUME req.trigger # "none" => triggered
  PROVE  FindTrigger.index = index
BY DEF FindTrigger

\* What a turn may deliver: a natural number of chunks, never more than what
\* is left of the count.
LEMMA HowManyBounds ==
  ASSUME Counters, req.count > 0 => outIndex < req.count
  PROVE  /\ HowMany(FindTrigger) \in Nat
         /\ req.count > 0 => outIndex + HowMany(FindTrigger) <= req.count
<1> DEFINE t == FindTrigger
<1>1. /\ t.index \in Nat /\ captureI \in Nat /\ outIndex \in Nat
      /\ req.decimate \in Nat \ {0} /\ req.count \in Int
  BY FindTriggerType, RequestFields DEF Counters
<1>2. Chunks(t.index) \in Nat
  <2>1. Wrap(captureI - t.index) \in Nat
    BY <1>1, WrapIsNat
  <2> QED BY <1>1, <2>1, QuotientIsNat DEF Chunks
<1> HIDE DEF t
<1>3. ASSUME NEW n \in Nat
      PROVE  /\ Clamped(n) \in Nat
             /\ req.count > 0 => outIndex + Clamped(n) <= req.count
  BY <1>1 DEF Clamped
<1>4. /\ HowMany(t) \in Nat
      /\ req.count > 0 => outIndex + HowMany(t) <= req.count
  BY <1>1, <1>2, <1>3 DEF HowMany
<1> QED BY <1>4 DEF t

-----------------------------------------------------------------------------
(* The inductive invariant.                                                 *)

\* The loop only runs for a listener that is there.
BusyIsLive == busy => live

\* A listener that is there has not had its count.
CountNotReached == live /\ req.count > 0 => outIndex < req.count

\* A listener that is there goes on where the last update stopped; after the
\* last update of a sweep, at output 0.  Amid a sweep it has its trigger.
Resumes ==
  /\ live /\ frames = << >> => outIndex = 0
  /\ live /\ frames # << >> =>
       LET a == frames[Len(frames)]
       IN  IF a.last
           THEN req.repeat /\ outIndex = 0
           ELSE /\ outIndex = a.idx + a.n
                /\ index = Wrap(a.from + a.n * req.decimate)
                /\ req.trigger # "none" => triggered

Inv ==
  /\ Counters
  /\ frames \in Seq([from : Nat, n : Nat, idx : Nat, last : BOOLEAN, readable : BOOLEAN])
  /\ BusyIsLive /\ CountNotReached /\ Resumes
  /\ Contiguous /\ CountExact

\* A device without listeners.
LEMMA InitInv == Init => Inv
BY DEF Init, Inv, Counters, BusyIsLive, CountNotReached, Resumes, Contiguous, CountExact

\* The first sample a listener asks for, and so its force index, is not
\* before the start.
LEMMA ResolvedStart ==
  ASSUME captureI \in Nat, NEW start \in Int
  PROVE  ResolveStart(start) \in Nat
BY DEF ResolveStart

\* A new listener has no updates yet.
LEMMA ListenInv ==
  ASSUME Inv, NEW r \in Requests, Listen(r)
  PROVE  Inv'
<1>1. /\ r.start \in Int /\ r.force \in Nat /\ r.count \in Int
      /\ r.holdoff \in Int /\ r.offset \in Int
  BY RequestFields
<1>2. ResolveStart(r.start) \in Nat
  BY <1>1, ResolvedStart DEF Inv, Counters
<1>3. ClampedHoldoff(r) \in Int
  BY <1>1 DEF ClampedHoldoff
<1>4. Counters'
  BY <1>1, <1>2, <1>3 DEF Inv, Counters, Listen, devVars
<1> QED BY <1>1, <1>4 DEF Inv, Listen, BusyIsLive, CountNotReached, Resumes, Contiguous, CountExact

\* The device starting over forgets the updates and rewinds the listener.
LEMMA ResetInv ==
  ASSUME Inv, NEW w, CaptureReset(w)
  PROVE  Inv'
<1>1. req.count \in Int
  BY RequestFields DEF Inv, Counters
<1> QED BY <1>1 DEF Inv, Counters, CaptureReset, reqVars, BusyIsLive, CountNotReached, Resumes,
                   Contiguous, CountExact

\* Nothing is sent when no trigger or not enough data is found.  The search
\* may move the index, but not that of a sweep under way.
LEMMA IdleInv ==
  ASSUME Inv, PassIdle
  PROVE  Inv'
<1>1. FindTrigger.index \in Nat
  BY FindTriggerType DEF Inv
<1>2. Counters'
  BY <1>1 DEF Inv, Counters, PassIdle, devVars, reqVars
<1>3. Resumes'
  <2>1. CASE req.trigger # "none" => triggered
    BY <2>1, SweepKeepsIndex DEF Inv, PassIdle, Resumes, reqVars
  <2>2. CASE ~(req.trigger # "none" => triggered)
    BY <2>2 DEF Inv, PassIdle, Resumes, reqVars
  <2> QED BY <2>1, <2>2
<1> QED BY <1>2, <1>3 DEF Inv, PassIdle, reqVars, devVars, BusyIsLive, CountNotReached,
                   Contiguous, CountExact

\* An update joins on to the one before it and respects the count; the
\* listener stays only if the update was not the last, or if it repeats.
LEMMA DeliverInv ==
  ASSUME Inv, PassDeliver
  PROVE  Inv'
<1> DEFINE t     == FindTrigger
           n     == HowMany(t)
           f     == Frame(t, n)
           past  == Wrap(t.index + n * req.decimate)
           rearm == req.sink = "ws" /\ f.last /\ req.repeat
           again == Wrap(past + holdoff)
<1>1. /\ busy /\ live /\ n # 0
      /\ frames' = Append(frames, f)
      /\ index' = IF rearm THEN again ELSE past
      /\ outIndex' = IF rearm THEN 0 ELSE outIndex + n
      /\ triggered' = (~rearm /\ (triggered \/ req.trigger # "none"))
      /\ forceIndex' = IF rearm THEN Wrap(again + req.force) ELSE forceIndex
      /\ busy' = rearm
      /\ live' = (rearm \/ ~f.last)
      /\ UNCHANGED <<captureI, captureO, req, holdoff>>
  BY DEF Inv, BusyIsLive, PassDeliver, devVars
<1>2. /\ t.index \in Nat /\ outIndex \in Nat /\ holdoff \in Int
      /\ req.decimate \in Nat \ {0} /\ req.count \in Int /\ req.force \in Nat
      /\ req.repeat \in BOOLEAN
  BY FindTriggerType, RequestFields DEF Inv, Counters
<1>3. /\ n \in Nat \ {0}
      /\ req.count > 0 => outIndex + n <= req.count
  BY <1>1, HowManyBounds DEF Inv, CountNotReached
<1>4. /\ f.from = t.index /\ f.n = n /\ f.idx = outIndex
      /\ f.last <=> (req.count > 0 /\ outIndex + n >= req.count)
      /\ f.last \in BOOLEAN /\ f.readable \in BOOLEAN
      /\ f \in [from : Nat, n : Nat, idx : Nat, last : BOOLEAN, readable : BOOLEAN]
  <2> HIDE DEF t, n
  <2> QED BY <1>2, <1>3 DEF Frame
<1>5. past \in Nat /\ again \in Nat /\ Wrap(again + req.force) \in Nat
  <2>1. n * req.decimate \in Nat
    BY <1>2, <1>3
  <2>2. past \in Nat
    BY <1>2, <2>1, WrapIsNat
  <2>3. again \in Nat
    BY <1>2, <2>2, WrapIsNat
  <2> QED BY <1>2, <2>2, <2>3, WrapIsNat
<1>6. /\ frames = << >> => outIndex = 0
      /\ frames # << >> =>
           LET a == frames[Len(frames)]
           IN  IF a.last
               THEN req.repeat /\ outIndex = 0
               ELSE outIndex = a.idx + a.n /\ t.index = Wrap(a.from + a.n * req.decimate)
  <2>1. ASSUME frames # << >>, ~frames[Len(frames)].last
        PROVE  t.index = index
    BY <1>1, <2>1, SweepKeepsIndex DEF Inv, Resumes
  <2> HIDE DEF t, n, f, past, rearm, again
  <2> QED BY <1>1, <2>1 DEF Inv, Resumes
<1> HIDE DEF t, n, f, past, rearm, again
<1>7. /\ frames \in Seq([from : Nat, n : Nat, idx : Nat, last : BOOLEAN, readable : BOOLEAN])
      /\ Len(frames) \in Nat /\ Len(frames') = Len(frames) + 1
      /\ frames'[Len(frames) + 1] = f
      /\ \A k \in 1..Len(frames) : frames'[k] = frames[k]
      /\ frames' # << >> /\ (frames # << >> => Len(frames) >= 1)
      /\ frames' \in Seq([from : Nat, n : Nat, idx : Nat, last : BOOLEAN, readable : BOOLEAN])
  <2> DEFINE Updates == [from : Nat, n : Nat, idx : Nat, last : BOOLEAN, readable : BOOLEAN]
  <2>1. frames \in Seq(Updates) /\ f \in Updates /\ frames' = Append(frames, f)
    BY <1>1, <1>4 DEF Inv
  <2> HIDE DEF Updates
  <2>2. /\ Len(frames) \in Nat /\ Len(frames') = Len(frames) + 1
        /\ frames'[Len(frames) + 1] = f
        /\ \A k \in 1..Len(frames) : frames'[k] = frames[k]
        /\ frames' \in Seq(Updates)
    BY <2>1
  <2>3. frames' # << >> /\ (frames # << >> => Len(frames) >= 1)
    BY <2>1, <2>2
  <2> QED BY <2>1, <2>2, <2>3 DEF Updates
<1>8. Counters'
  BY <1>1, <1>2, <1>3, <1>5 DEF Inv, Counters
<1>9. BusyIsLive'
  BY <1>1 DEF BusyIsLive
<1>10. CountNotReached'
  <2>1. CASE rearm
    BY <1>1, <2>1 DEF CountNotReached
  <2>2. CASE ~rearm
    <3>1. live' <=> ~f.last
      BY <1>1, <2>2
    <3>2. outIndex' = outIndex + n /\ req' = req
      BY <1>1, <2>2
    <3> QED BY <1>2, <1>3, <1>4, <3>1, <3>2 DEF CountNotReached
  <2> QED BY <2>1, <2>2
<1>11. Resumes'
  BY <1>1, <1>4, <1>7 DEF Resumes, rearm, past
<1>12. Contiguous'
  <2> SUFFICES ASSUME NEW k \in 1..(Len(frames') - 1)
               PROVE  LET a == frames'[k]
                          b == frames'[k + 1]
                      IN  IF a.last
                          THEN req.repeat /\ b.idx = 0
                          ELSE b.idx = a.idx + a.n /\ b.from = Wrap(a.from + a.n * req.decimate)
    <3>1. frames'[1].idx = 0
      <4>1. CASE frames = << >>
        BY <1>4, <1>6, <1>7, <4>1
      <4>2. CASE frames # << >>
        <5>1. frames'[1] = frames[1]
          BY <1>7, <4>2
        <5> QED BY <4>2, <5>1 DEF Inv, Contiguous
      <4> QED BY <4>1, <4>2
    <3> QED BY <1>1, <3>1 DEF Contiguous, Wrap
  <2>1. CASE k \in 1..(Len(frames) - 1)
    <3>1. frames'[k] = frames[k] /\ frames'[k + 1] = frames[k + 1]
      BY <1>7, <2>1
    <3> QED BY <2>1, <3>1, Zenon DEF Inv, Contiguous
  <2>2. CASE k = Len(frames)
    BY <1>4, <1>6, <1>7, <2>2
  <2> QED BY <1>7, <2>1, <2>2
<1>13. CountExact'
  <2> SUFFICES ASSUME NEW k \in 1..Len(frames')
               PROVE  LET g == frames'[k] IN
                      /\ g.n > 0
                      /\ req.count > 0 => g.idx + g.n <= req.count
                      /\ g.last <=> (req.count > 0 /\ g.idx + g.n = req.count)
                      /\ g.last /\ live' => req.repeat
    BY <1>1 DEF CountExact
  <2>1. CASE k \in 1..Len(frames)
    BY <1>1, <1>7, <2>1 DEF Inv, CountExact
  <2>2. CASE k = Len(frames) + 1
    <3>1. f.n > 0 /\ (req.count > 0 => f.idx + f.n <= req.count)
      BY <1>2, <1>3, <1>4
    <3>2. f.last <=> (req.count > 0 /\ f.idx + f.n = req.count)
      BY <1>2, <1>3, <1>4
    <3>3. f.last /\ live' => req.repeat
      BY <1>1 DEF rearm
    <3> QED BY <1>7, <2>2, <3>1, <3>2, <3>3
  <2> QED BY <1>7, <2>1, <2>2
<1> QED BY <1>7, <1>8, <1>9, <1>10, <1>11, <1>12, <1>13 DEF Inv

\* Every step keeps the invariant.
LEMMA NextInv == Inv /\ [Next]_vars => Inv'
<1> SUFFICES ASSUME Inv, [Next]_vars PROVE Inv'
  OBVIOUS
<1> USE DEF Inv, Counters, BusyIsLive, CountNotReached, Resumes, Contiguous, CountExact
<1>1. CASE PassClosed
  BY <1>1 DEF PassClosed, devVars, scanVars
<1>2. CASE PassIdle
  BY <1>2, IdleInv
<1>3. CASE PassDeliver
  BY <1>3, DeliverInv
<1>4. ASSUME NEW r \in Requests, Listen(r) PROVE Inv'
  BY <1>4, ListenInv
<1>5. CASE Cancel
  BY <1>5 DEF Cancel, devVars, scanVars
<1>6. CASE RestHangsUp
  BY <1>6 DEF RestHangsUp, devVars, scanVars
<1>7. CASE PacketDone
  <2>1. captureI' \in Nat
    BY <1>7, DeviceAssumption DEF PacketDone
  <2> QED BY <1>7, <2>1 DEF PacketDone, reqVars, scanVars
<1>8. CASE FillOut
  <2>1. captureO' \in Nat
    BY <1>8, DeviceAssumption DEF FillOut
  <2> QED BY <1>8, <2>1 DEF FillOut, reqVars, scanVars
<1>9. ASSUME NEW w \in Waves, CaptureReset(w) PROVE Inv'
  BY <1>9, ResetInv
<1>10. CASE UNCHANGED vars
  BY <1>10 DEF vars, devVars, reqVars, scanVars
<1> QED BY <1>1, <1>2, <1>3, <1>4, <1>5, <1>6, <1>7, <1>8, <1>9, <1>10 DEF Next, Pass

\* The invariant of the listener holds of every behaviour.
THEOREM ListenerInvariant == Spec => []Inv
BY InitInv, NextInv, PTL DEF Spec

\* Updates of one sweep join up without a gap or an overlap, and a new sweep
\* starts at output 0 and only for a repeating trigger, for every request,
\* signal and device.
THEOREM UpdatesAreContiguous == Spec => []Contiguous
<1>1. Inv => Contiguous
  BY DEF Inv
<1> QED BY <1>1, ListenerInvariant, PTL

\* A listener with a count gets exactly that many output samples per sweep,
\* is told that it is done with the last of them, and is then gone unless it
\* repeats, for every request, signal and device.
THEOREM CountsAreExact == Spec => []CountExact
<1>1. Inv => CountExact
  BY DEF Inv
<1> QED BY <1>1, ListenerInvariant, PTL
-----------------------------------------------------------------------------
(* Types.                                                                   *)

\* What TypeOK says beyond Inv.
Rest ==
  /\ captureI \in 0..MaxI /\ wave \in Waves /\ config \in Captures
  /\ live \in BOOLEAN /\ closed \in BOOLEAN /\ triggered \in BOOLEAN /\ busy \in BOOLEAN

\* Every step keeps the rest of the types.
LEMMA RestNext == Inv /\ Rest /\ [Next]_vars => Rest'
<1> SUFFICES ASSUME Inv, Rest, [Next]_vars PROVE Rest'
  OBVIOUS
<1> USE DEF Rest
<1>1. CASE PassClosed
  BY <1>1 DEF PassClosed, devVars, scanVars
<1>2. CASE PassIdle
  BY <1>2 DEF PassIdle, devVars, reqVars
<1>3. CASE PassDeliver
  BY <1>3 DEF PassDeliver, devVars
<1>4. ASSUME NEW r \in Requests, Listen(r) PROVE Rest'
  BY <1>4 DEF Listen, devVars
<1>5. CASE Cancel \/ RestHangsUp
  BY <1>5 DEF Cancel, RestHangsUp, devVars, scanVars
<1>6. CASE PacketDone
  <2>1. captureI' \in 0..MaxI
    BY <1>6, DeviceAssumption DEF PacketDone
  <2> QED BY <1>6, <2>1 DEF PacketDone, reqVars, scanVars
<1>7. CASE FillOut
  BY <1>7 DEF FillOut, reqVars, scanVars
<1>8. ASSUME NEW w \in Waves, CaptureReset(w) PROVE Rest'
  BY <1>8, DeviceAssumption DEF CaptureReset, reqVars
<1>9. CASE UNCHANGED vars
  BY <1>9 DEF vars, devVars, reqVars, scanVars
<1> QED BY <1>1, <1>2, <1>3, <1>4, <1>5, <1>6, <1>7, <1>8, <1>9 DEF Next, Pass

\* The invariant with all types.
LEMMA TypedInvariant == Spec => [](Inv /\ Rest)
<1>1. Init => Rest
  <2> SUFFICES ASSUME Init PROVE Rest
    OBVIOUS
  <2>1. captureI \in 0..MaxI
    BY DeviceAssumption DEF Init
  <2>2. live = FALSE /\ closed = FALSE /\ triggered = FALSE /\ busy = FALSE
    BY DEF Init
  <2> QED BY <2>1, <2>2 DEF Init, Rest
<1> QED BY <1>1, InitInv, NextInv, RestNext, PTL DEF Spec

\* Device and listener are well formed, the sample index of the listener
\* included, which starts, holds off and offsets leave a u64 (StreamListener).
THEOREM TypeCorrect == Spec => []TypeOK
<1>1. Inv /\ Rest => TypeOK
  BY DEF Inv, Counters, Rest, TypeOK, Frames
<1> QED BY <1>1, TypedInvariant, PTL

-----------------------------------------------------------------------------
(* Followers.                                                               *)

\* The quotient of a division, times the divisor, is just below the dividend.
LEMMA QuotientBounds ==
  ASSUME NEW a \in Nat, NEW d \in Nat \ {0}
  PROVE  /\ (a \div d) \in Nat
         /\ (a \div d) * d <= a /\ a < (a \div d) * d + d
OBVIOUS

\* Less than the word size, nothing wraps.
LEMMA NoWrap ==
  ASSUME NEW i \in Nat, i < Word
  PROVE  Wrap(i) = i
BY DeviceAssumption DEF Wrap

\* The listeners of FollowerLosesNothing.
Follower == Continuous /\ req.trigger = "none" /\ req.start = -1 /\ Caps > Packet + req.decimate

\* How far a follower is behind: no more than the boundary chunk when the loop
\* has run, a packet more when it has yet to.
CloseBehind ==
  Follower /\ live =>
    /\ index <= captureI
    /\ captureI - index <= req.decimate + (IF busy THEN Packet ELSE 0)

\* What a follower delivers: it stays where it is or goes on by whole chunks
\* of the samples it is behind, and less than a chunk is left unless it is done.
LEMMA FollowerTurn ==
  ASSUME Inv, Rest, req.trigger = "none", live, index <= captureI
  PROVE  LET n == HowMany(FindTrigger) IN
         /\ FindTrigger = [index |-> index, found |-> TRUE]
         /\ n \in Nat /\ n * req.decimate \in Nat
         /\ index + n * req.decimate <= captureI
         /\ n = 0 => captureI - index <= req.decimate
         /\ captureI - (index + n * req.decimate) <= req.decimate
              \/ (req.count > 0 /\ outIndex + n >= req.count)
<1> DEFINE t == FindTrigger
           d == req.decimate
           c == captureI - index
<1>1. t = [index |-> index, found |-> TRUE]
  BY DEF FindTrigger
<1>2. /\ index \in Nat /\ captureI \in Nat /\ captureI < Word /\ Word \in Nat
      /\ d \in Nat \ {0} /\ req.count \in Int /\ outIndex \in Nat /\ c \in Nat
  BY RequestFields, DeviceAssumption DEF Inv, Counters, Rest
<1>3. req.count > 0 => outIndex < req.count
  BY DEF Inv, CountNotReached
<1>4. Chunks(index) = c \div d
  BY <1>2, NoWrap DEF Chunks
<1>5. Gate(index) => c <= d
  <2>1. CASE index + d < Word
    BY <1>2, <2>1, NoWrap DEF Gate
  <2>2. CASE ~(index + d < Word)
    BY <1>2, <2>2
  <2> QED BY <2>1, <2>2
<1>6. /\ (c \div d) \in Nat
      /\ (c \div d) * d <= c /\ c < (c \div d) * d + d
  BY <1>2, QuotientBounds
<1>7. HowMany(t) = IF Gate(index) THEN 0 ELSE Clamped(c \div d)
  BY <1>1, <1>4 DEF HowMany
<1> DEFINE q == c \div d
           n == HowMany(t)
<1> HIDE DEF t, d, c, q, n
<1>8. /\ n \in Nat /\ n <= q
      /\ n # q => \/ n = 0 /\ c <= d
                  \/ req.count > 0 /\ outIndex + n >= req.count /\ n > 0
  <2>1. CASE Gate(index)
    BY <1>5, <1>6, <1>7, <2>1 DEF n, q
  <2>2. CASE ~Gate(index)
    <3>1. n = Clamped(q)
      BY <1>7, <2>2 DEF n, q
    <3> QED BY <1>2, <1>3, <1>6, <3>1 DEF Clamped, q
  <2> QED BY <2>1, <2>2
<1>9. n * d \in Nat /\ n * d <= q * d
  BY <1>2, <1>6, <1>8 DEF q
<1>10. n * d <= c /\ (n = q => c < n * d + d) /\ (n = 0 => n * d = 0)
  BY <1>2, <1>6, <1>9 DEF q
<1>11. /\ index + n * d <= captureI
       /\ n = 0 => captureI - index <= d
       /\ captureI - (index + n * d) <= d \/ (req.count > 0 /\ outIndex + n >= req.count)
  BY <1>2, <1>8, <1>9, <1>10 DEF c
<1> QED BY <1>1, <1>8, <1>9, <1>11 DEF t, d, n

\* A turn of a follower's loop leaves it close behind, and reads what is there.
LEMMA FollowerDelivers ==
  ASSUME Inv, Rest, CloseBehind, FollowerLosesNothing, PassDeliver
  PROVE  CloseBehind' /\ FollowerLosesNothing'
<1> DEFINE n    == HowMany(FindTrigger)
           f    == Frame(FindTrigger, n)
           past == Wrap(FindTrigger.index + n * req.decimate)
<1>1. CASE ~Follower
  <2>1. ~Follower'
    BY <1>1 DEF PassDeliver, devVars, Follower, Caps, Continuous
  <2> QED BY <2>1 DEF CloseBehind, FollowerLosesNothing, Follower
<1>2. CASE Follower
  <2>1. busy /\ live /\ ~req.repeat /\ req.trigger = "none"
    BY <1>2, RequestsAssumption DEF PassDeliver, Inv, Counters, BusyIsLive, Follower
  <2>2. /\ frames' = Append(frames, f) /\ index' = past
        /\ busy' = FALSE /\ live' = ~f.last
        /\ UNCHANGED <<captureI, req, config>>
    BY <2>1 DEF PassDeliver, devVars
  <2>3. /\ index \in Nat /\ captureI \in Nat /\ captureI < Word /\ outIndex \in Nat
        /\ req.decimate \in Nat \ {0} /\ Caps \in Nat /\ Packet \in Nat /\ req.count \in Int
    BY RequestFields, DeviceAssumption DEF Inv, Counters, Rest, Caps
  <2>4. index <= captureI /\ captureI - index <= req.decimate + Packet
    BY <1>2, <2>1 DEF CloseBehind
  <2>5. /\ FindTrigger = [index |-> index, found |-> TRUE]
        /\ n \in Nat /\ n * req.decimate \in Nat /\ index + n * req.decimate <= captureI
        /\ captureI - (index + n * req.decimate) <= req.decimate
             \/ (req.count > 0 /\ outIndex + n >= req.count)
    BY <2>1, <2>4, FollowerTurn
  <2> DEFINE m == n * req.decimate
  <2>6. f.last = (req.count > 0 /\ outIndex + n >= req.count)
    BY DEF Frame
  <2>7. f.readable = \A i \in index..(index + m - 1) : Available(i)
    BY <2>5 DEF Frame
  <2> HIDE DEF n, m
  <2>8. m \in Nat /\ index + m <= captureI /\ Word \in Nat
    BY <2>5, DeviceAssumption DEF m
  <2>9. past = index + m
    <3>1. index + m \in Nat /\ index + m < Word
      BY <2>3, <2>8
    <3> QED BY <2>5, <3>1, NoWrap DEF m
  <2> HIDE DEF f, past
  <2>10. CloseBehind'
    <3>1. CASE f.last
      BY <2>2, <3>1 DEF CloseBehind
    <3>2. CASE ~f.last
      <4>1. captureI - (index + m) <= req.decimate
        BY <2>5, <2>6, <3>2 DEF m
      <4>2. index' <= captureI' /\ captureI' - index' <= req'.decimate + 0
        BY <2>2, <2>3, <2>9, <2>8, <4>1
      <4> QED BY <2>2, <4>2 DEF CloseBehind
    <3> QED BY <3>1, <3>2
  <2>11. f.readable
    <3> SUFFICES ASSUME NEW i \in index..(index + m - 1) PROVE Available(i)
      BY <2>7
    <3>1. Caps > Packet + req.decimate
      BY <1>2 DEF Follower
    <3> QED BY <2>3, <2>4, <2>8, <3>1 DEF Available
  <2>12. FollowerLosesNothing'
    <3>1. \A k \in 1..Len(frames) : frames[k].readable
      BY <1>2 DEF FollowerLosesNothing, Follower
    <3>2. frames \in Seq(Frames)
      BY DEF Inv, Frames
    <3>3. \A k \in 1..Len(frames') : frames'[k] = f \/ \E j \in 1..Len(frames) : frames'[k] = frames[j]
      BY <2>2, <3>2
    <3> QED BY <2>11, <3>1, <3>3 DEF FollowerLosesNothing
  <2> QED BY <2>10, <2>12
<1> QED BY <1>1, <1>2

\* Every step keeps a follower close behind and what it was sent readable.
LEMMA FollowerNext ==
  Inv /\ Rest /\ CloseBehind /\ FollowerLosesNothing /\ [Next]_vars
    => CloseBehind' /\ FollowerLosesNothing'
<1> SUFFICES ASSUME Inv, Rest, CloseBehind, FollowerLosesNothing, [Next]_vars
             PROVE  CloseBehind' /\ FollowerLosesNothing'
  OBVIOUS
<1> USE DEF CloseBehind, FollowerLosesNothing, Follower, Caps, Continuous
<1>1. CASE PassClosed
  BY <1>1 DEF PassClosed, devVars, scanVars
<1>2. CASE PassIdle
  <2>1. UNCHANGED <<captureI, config, req, live, frames>> /\ busy' = FALSE
        /\ index' = FindTrigger.index
    BY <1>2 DEF PassIdle, devVars, reqVars
  <2>2. CASE Follower /\ live
    <3>1. req.trigger = "none" /\ index <= captureI
      BY <2>2
    <3>2. FindTrigger.index = index /\ captureI - index <= req.decimate
      BY <1>2, <2>2, <3>1, FollowerTurn DEF PassIdle
    <3>3. captureI' - index' <= req'.decimate + 0
      BY <2>1, <3>2, RequestFields DEF Inv, Counters
    <3> QED BY <2>1, <3>1, <3>2, <3>3
  <2>3. CASE ~(Follower /\ live)
    BY <2>1, <2>3
  <2> QED BY <2>2, <2>3
<1>3. CASE PassDeliver
  BY <1>3, FollowerDelivers
<1>4. ASSUME NEW r \in Requests, Listen(r) PROVE CloseBehind' /\ FollowerLosesNothing'
  <2>1. frames' = << >>
    BY <1>4 DEF Listen
  <2>2. FollowerLosesNothing'
    BY <2>1
  <2>3. CASE r.start = -1
    <3>1. index' = captureI /\ captureI' = captureI /\ captureI \in Nat
          /\ r.decimate \in Nat /\ Packet \in Nat /\ req' = r
      BY <1>4, <2>3, RequestFields, DeviceAssumption DEF Listen, devVars, ResolveStart, Inv, Counters
    <3> QED BY <2>2, <3>1
  <2>4. CASE r.start # -1
    <3>1. req' = r
      BY <1>4 DEF Listen
    <3> QED BY <2>2, <2>4, <3>1
  <2> QED BY <2>3, <2>4
<1>5. CASE Cancel \/ RestHangsUp \/ FillOut
  BY <1>5 DEF Cancel, RestHangsUp, FillOut, devVars, reqVars, scanVars
<1>6. CASE PacketDone
  <2>1. /\ captureI' = captureI + Packet /\ busy' = live /\ ~busy
        /\ UNCHANGED <<config, req, live, index, frames>>
    BY <1>6 DEF PacketDone, reqVars, scanVars
  <2>2. captureI \in Nat /\ Packet \in Nat /\ index \in Nat /\ req.decimate \in Nat
    BY RequestFields, DeviceAssumption DEF Inv, Counters
  <2> QED BY <2>1, <2>2
<1>7. ASSUME NEW w \in Waves, CaptureReset(w) PROVE CloseBehind' /\ FollowerLosesNothing'
  BY <1>7 DEF CaptureReset, reqVars
<1>8. CASE UNCHANGED vars
  BY <1>8 DEF vars, devVars, reqVars, scanVars
<1> QED BY <1>1, <1>2, <1>3, <1>4, <1>5, <1>6, <1>7, <1>8 DEF Next, Pass

\* A listener that starts at the newest sample of a continuous capture is
\* never sent a sample that the ring has lost, for every packet, decimation
\* and buffer that is longer than both (how_many_samples, handle_new_data).
THEOREM FollowersLoseNothing == Spec => []FollowerLosesNothing
<1>1. Init => CloseBehind /\ FollowerLosesNothing
  BY DEF Init, CloseBehind, FollowerLosesNothing
<1> QED BY <1>1, TypedInvariant, FollowerNext, PTL DEF Spec

-----------------------------------------------------------------------------
(* Where a listener is, when the word is far larger than every index.       *)

\* A request with room, field by field.
LEMMA SmallFields ==
  ASSUME NEW S \in Nat, RoomFor(S), NEW r \in Requests
  PROVE  /\ r.decimate \in 1..S /\ r.start \in Int /\ r.start <= S /\ r.force \in 0..S
         /\ r.holdoff \in (-S)..S /\ r.offset \in (-S)..S
BY RequestFields DEF RoomFor

\* The bounds, as numbers.
LEMMA RoomyWord ==
  ASSUME NEW S \in Nat, RoomFor(S)
  PROVE  /\ Word \in Nat \ {0} /\ MaxI \in Nat /\ Lead \in Nat
         /\ 8 * (MaxI + Lead + S + 1) < Word
BY DeviceAssumption DEF RoomFor

\* A turn of the word more or less makes no difference.
LEMMA WholeTurns ==
  ASSUME NEW y \in Nat, y < Word
  PROVE  Wrap(y) = y /\ Wrap(y + Word) = y /\ Wrap(y - Word) = y
<1>1. Word \in Nat \ {0}
  BY DeviceAssumption
<1>2. Wrap(y) = y
  BY NoWrap
<1>3. Wrap(y + Word) = y
  BY <1>1 DEF Wrap
<1>4. Wrap(y - Word) = y
  BY <1>1 DEF Wrap
<1> QED BY <1>2, <1>3, <1>4

\* A number of less than half the word is read back as it was wrapped.
LEMMA SignedOfWrap ==
  ASSUME NEW x \in Int, 2 * x < Word, -Word <= 2 * x
  PROVE  Signed(Wrap(x)) = x /\ Wrap(x) \in Nat /\ Wrap(x) < Word
<1>1. Word \in Nat \ {0}
  BY DeviceAssumption
<1>2. CASE x >= 0
  BY <1>1, <1>2, WholeTurns DEF Signed
<1>3. CASE x < 0
  <2>1. x + Word \in Nat /\ x + Word < Word /\ (x + Word) - Word = x
    BY <1>1, <1>3
  <2>2. Wrap(x) = x + Word
    BY <2>1, WholeTurns
  <2> QED BY <1>1, <2>1, <2>2 DEF Signed
<1> QED BY <1>2, <1>3

\* The signed reading differs by a turn of the word, or not at all.
LEMMA SignedReading ==
  ASSUME NEW i \in Nat, i < Word
  PROVE  /\ Signed(i) \in Int /\ -Word <= 2 * Signed(i) /\ 2 * Signed(i) < Word
         /\ (i = Signed(i) /\ Signed(i) >= 0) \/ (i = Signed(i) + Word /\ Signed(i) < 0)
<1>1. Word \in Nat \ {0}
  BY DeviceAssumption
<1>2. CASE 2 * i >= Word
  BY <1>1, <1>2 DEF Signed
<1>3. CASE ~(2 * i >= Word)
  BY <1>1, <1>3 DEF Signed
<1> QED BY <1>2, <1>3

\* Going on by k samples.
LEMMA GoOn ==
  ASSUME NEW i \in Nat, i < Word, NEW k \in Nat, 2 * (Signed(i) + k) < Word
  PROVE  Wrap(i + k) = IF Signed(i) + k >= 0 THEN Signed(i) + k ELSE Signed(i) + k + Word
<1> DEFINE x == Signed(i)
<1>1. /\ Word \in Nat \ {0} /\ x \in Int /\ -Word <= 2 * x /\ 2 * x < Word
      /\ (i = x /\ x >= 0) \/ (i = x + Word /\ x < 0)
  BY SignedReading, DeviceAssumption
<1> HIDE DEF x
<1>2. CASE i = x
  <2>1. i + k \in Nat /\ i + k < Word
    BY <1>1, <1>2 DEF x
  <2> QED BY <1>2, <2>1, WholeTurns DEF x
<1>3. CASE i = x + Word /\ x + k >= 0
  <2>1. x + k \in Nat /\ x + k < Word /\ i + k = (x + k) + Word
    BY <1>1, <1>3 DEF x
  <2> QED BY <1>3, <2>1, WholeTurns DEF x
<1>4. CASE i = x + Word /\ x + k < 0
  <2>1. i + k \in Nat /\ i + k < Word /\ i + k = x + k + Word
    BY <1>1, <1>4
  <2> QED BY <1>1, <1>4, <2>1, WholeTurns DEF x
<1> QED BY <1>1, <1>2, <1>3, <1>4

\* How far behind c an index is.
LEMMA LagBehind ==
  ASSUME NEW i \in Nat, i < Word, NEW c \in Nat, 2 * c < Word, Signed(i) <= c
  PROVE  Wrap(c - i) = c - Signed(i)
<1> DEFINE x == Signed(i)
<1>1. /\ Word \in Nat \ {0} /\ x \in Int /\ -Word <= 2 * x
      /\ i = x \/ i = x + Word
  BY SignedReading, DeviceAssumption
<1> HIDE DEF x
<1>2. c - x \in Nat /\ c - x < Word
  BY <1>1 DEF x
<1>3. CASE i = x
  BY <1>2, <1>3, WholeTurns DEF x
<1>4. CASE i = x + Word
  <2>1. c - i = (c - x) - Word
    BY <1>1, <1>4
  <2> QED BY <1>2, <2>1, WholeTurns DEF x
<1> QED BY <1>1, <1>3, <1>4

\* The hold-off takes a sweep at least as far as a negative offset takes it back.
LEMMA HoldoffClamped ==
  ASSUME NEW S \in Nat, RoomFor(S), NEW r \in Requests
  PROVE  /\ ClampedHoldoff(r) \in (-S)..S
         /\ r.offset < 0 => ClampedHoldoff(r) > 0 /\ ClampedHoldoff(r) + r.offset >= 0
         /\ r.offset >= 0 => ClampedHoldoff(r) = r.holdoff
BY SmallFields DEF ClampedHoldoff

\* The listener and the device keep to their bounds, if re-arming goes ahead.  An
\* index beyond the data is only reached by a start there, and by the one sample
\* that a scan without data goes on; a trigger may take it below zero, if it has
\* a negative offset, or to the encoder's samples.
Located(S) ==
  /\ captureO <= captureI + Lead
  /\ live /\ RearmsAhead(req) =>
       /\ holdoff = ClampedHoldoff(req)
       /\ forceIndex <= MaxI + 2 * S
       /\ IF triggered
          THEN /\ index < Word /\ Signed(index) \in (-S)..(MaxI + Lead + S + 1)
               /\ req.trigger # "none" /\ req.offset >= 0
                    => outIndex * req.decimate <= Signed(index)
          ELSE index <= captureI + S + (IF busy THEN 0 ELSE 1)

\* The phase zero looked for is not before the index.
LEMMA PhaseZeroLater ==
  ASSUME NEW i \in Nat
  PROVE  PhaseZeroAfter(i) \in Nat /\ PhaseZeroAfter(i) >= i
<1>1. Period \in Nat \ {0}
  BY DeviceAssumption
<1>2. i % Period \in Nat
  BY <1>1, RemainderIsNat
<1>3. (Period - (i % Period)) % Period \in Nat
  BY <1>1, <1>2, RemainderIsNat
<1> QED BY <1>3 DEF PhaseZeroAfter

\* The listener scans for its trigger.
Scans == req.trigger # "none" /\ ~triggered

\* A listener that scans has sent nothing of the sweep it scans for.
LEMMA ScanIsFirst ==
  ASSUME Inv, live, Scans
  PROVE  outIndex = 0
BY DEF Inv, Resumes, Scans

\* Where the search for a trigger leaves the index: in any case not far from
\* the data, and without a trigger at most a sample beyond what it was.  What
\* was sent of the sweep lies before it, from sample 0 on if no offset goes
\* back.
LEMMA TurnLocated ==
  ASSUME NEW S \in Nat, RoomFor(S), Inv, Rest, Located(S), live, busy, RearmsAhead(req)
  PROVE  LET t == FindTrigger IN
         /\ t.index \in Nat /\ t.index < Word
         /\ Signed(t.index) \in (-S)..(MaxI + Lead + S + 1)
         /\ ~t.found => t.index <= captureI + S + 1
         /\ req.trigger # "none" /\ req.offset >= 0 => outIndex * req.decimate <= Signed(t.index)
<1>1. /\ Word \in Nat \ {0} /\ MaxI \in Nat /\ Lead \in Nat
      /\ 8 * (MaxI + Lead + S + 1) < Word
  BY RoomyWord
<1>2. /\ index \in Nat /\ captureI \in Nat /\ captureI <= MaxI /\ captureO \in Nat
      /\ captureO <= captureI + Lead /\ forceIndex \in Nat
      /\ req.offset \in (-S)..S /\ req.trigger \in Triggers
  BY SmallFields, RequestFields, <1>1 DEF Inv, Counters, Rest, Located
<1>3. ASSUME NEW x \in Int, -S <= x, x <= MaxI + Lead + S + 1
      PROVE  /\ Wrap(x) \in Nat /\ Wrap(x) < Word
             /\ Signed(Wrap(x)) = x /\ x \in (-S)..(MaxI + Lead + S + 1)
  <2>1. 2 * x < Word /\ -Word <= 2 * x
    BY <1>1, <1>3
  <2>2. Signed(Wrap(x)) = x /\ Wrap(x) \in Nat /\ Wrap(x) < Word
    BY <2>1, SignedOfWrap
  <2> QED BY <1>1, <1>3, <2>2
<1>4. ASSUME NEW x \in Nat, x <= MaxI + Lead + S + 1
      PROVE  x < Word /\ Wrap(x) = x /\ Signed(x) = x
  <2>1. x < Word /\ 2 * x < Word
    BY <1>1, <1>4
  <2> QED BY <1>1, <2>1, WholeTurns DEF Signed
<1>5. CASE ~Scans
  <2>1. FindTrigger = [index |-> index, found |-> TRUE]
    BY <1>5 DEF FindTrigger, Scans
  <2>2. CASE triggered
    BY <1>2, <2>1, <2>2 DEF Located
  <2>3. CASE ~triggered
    <3>1. index <= MaxI + Lead + S + 1
      BY <1>1, <1>2, <2>3 DEF Located
    <3>2. index < Word /\ Signed(index) = index
      BY <1>2, <1>4, <3>1
    <3>3. req.trigger = "none"
      BY <1>5, <2>3 DEF Scans
    <3> QED BY <1>1, <1>2, <2>1, <3>1, <3>2, <3>3
  <2> QED BY <2>2, <2>3
<1>6. ASSUME Scans PROVE index <= captureI + S /\ outIndex * req.decimate = 0
  <2>1. outIndex = 0 /\ req.decimate \in Nat
    BY <1>6, ScanIsFirst, RequestFields DEF Inv, Counters
  <2> QED BY <1>2, <1>6, <2>1 DEF Located, Scans
<1>7. CASE Scans /\ req.trigger = "in"
  <2>1. FindTrigger = InStream
    BY <1>7 DEF FindTrigger, Scans
  <2>2. CASE RisingEdges # {}
    <3>1. RisingEdges \in SUBSET Nat /\ RisingEdges \subseteq 0..captureI
      <4>1. ScanStart \in Nat
        BY <1>2, WrapIsNat DEF ScanStart
      <4> QED BY <1>2, <4>1 DEF RisingEdges
    <3>2. PICK e \in 0..captureI : e = Min(RisingEdges)
      <4>1. Min(RisingEdges) \in RisingEdges
        BY ONLY <2>2, <3>1, LeastIndex, Zenon
      <4> QED BY <3>1, <4>1
    <3>3. InStream = [index |-> Wrap(e + req.offset), found |-> TRUE]
      BY <2>2, <3>2 DEF InStream
    <3>4. e + req.offset \in Int /\ -S <= e + req.offset /\ e + req.offset <= MaxI + Lead + S + 1
      BY <1>1, <1>2, <3>2
    <3>5. req.offset >= 0 => 0 <= e + req.offset
      BY <1>2, <3>2
    <3> QED BY <1>3, <1>6, <1>7, <2>1, <3>3, <3>4, <3>5
  <2>3. CASE RisingEdges = {}
    <3>1. index + 1 \in Nat /\ index + 1 <= MaxI + Lead + S + 1
      BY <1>1, <1>2, <1>6, <1>7
    <3>2. Wrap(index + 1) = index + 1
      BY <1>4, <3>1
    <3>3. ScanEnd \in Nat /\ ScanEnd <= captureI + S + 1 /\ ScanEnd <= MaxI + Lead + S + 1
      BY <1>1, <1>2, <1>6, <1>7, <3>2 DEF ScanEnd, ScanStart
    <3>4. ScanEnd < Word /\ Signed(ScanEnd) = ScanEnd
      BY <1>4, <3>3
    <3>5. InStream.index = ScanEnd
      BY <2>3 DEF InStream
    <3> QED BY <1>6, <1>7, <2>1, <3>3, <3>4, <3>5
  <2> QED BY <2>2, <2>3
<1>8. CASE Scans /\ req.trigger = "out"
  <2> DEFINE zero == PhaseZeroAfter(index)
  <2>1. FindTrigger = OutSource
    BY <1>8 DEF FindTrigger, Scans
  <2>2. zero \in Nat
    BY <1>2, PhaseZeroLater
  <2>3. CASE captureO >= zero
    <3>1. OutSource = [index |-> Wrap(zero + req.offset), found |-> TRUE]
      BY <2>3 DEF OutSource
    <3> HIDE DEF zero
    <3>2. /\ zero + req.offset \in Int /\ -S <= zero + req.offset
          /\ zero + req.offset <= MaxI + Lead + S + 1
      BY <1>1, <1>2, <2>2, <2>3
    <3>3. req.offset >= 0 => 0 <= zero + req.offset
      BY <1>2, <2>2
    <3> QED BY <1>3, <1>6, <1>8, <2>1, <3>1, <3>2, <3>3
  <2>4. CASE ~(captureO >= zero)
    <3>1. OutSource.index \in {index, forceIndex} /\ (OutSource.index = forceIndex => captureI >= forceIndex \/ forceIndex = index)
      BY <2>4 DEF OutSource
    <3>2. OutSource.index \in Nat /\ OutSource.index <= captureI + S
      BY <1>2, <1>6, <1>8, <3>1
    <3>3. OutSource.index <= MaxI + Lead + S + 1
      BY <1>1, <1>2, <3>2
    <3>4. OutSource.index < Word /\ Signed(OutSource.index) = OutSource.index
      BY <1>4, <3>2, <3>3
    <3> QED BY <1>1, <1>2, <1>6, <1>8, <2>1, <3>2, <3>3, <3>4
  <2> QED BY <2>3, <2>4
<1> QED BY <1>2, <1>5, <1>7, <1>8 DEF Scans, Triggers

\* What a delivery leaves: the listener at or behind the data, whole chunks on,
\* and less than a chunk behind unless its count was met.
LEMMA DeliveryEnds ==
  ASSUME NEW S \in Nat, RoomFor(S), Inv, Rest, NEW t, t.index \in Nat, t.index < Word,
         Signed(t.index) \in (-S)..(MaxI + Lead + S + 1),
         HowMany(t) \in Nat \ {0}
  PROVE  LET n == HowMany(t)
             x == Signed(t.index) + n * req.decimate
         IN  /\ Wrap(t.index + n * req.decimate) = x
             /\ x \in 0..captureI /\ Signed(t.index) < x
             /\ captureI - x <= req.decimate \/ (req.count > 0 /\ outIndex + n >= req.count)
<1> DEFINE d == req.decimate
           s == Signed(t.index)
           q == (captureI - s) \div d
           n == HowMany(t)
<1>1. /\ Word \in Nat \ {0} /\ MaxI \in Nat /\ Lead \in Nat
      /\ 8 * (MaxI + Lead + S + 1) < Word
  BY RoomyWord
<1>2. /\ captureI \in Nat /\ captureI <= MaxI /\ d \in 1..S /\ req.count \in Int /\ outIndex \in Nat
  BY SmallFields, RequestFields, <1>1 DEF Inv, Counters, Rest
<1>3. s \in (-S)..(MaxI + Lead + S + 1) /\ s \in Int
  BY <1>1
<1>4. ~Gate(t.index) /\ n = Clamped(Chunks(t.index))
  BY DEF HowMany
<1>5. Wrap(t.index + d) = IF s + d >= 0 THEN s + d ELSE s + d + Word
  <2>1. 2 * (s + d) < Word /\ d \in Nat
    BY <1>1, <1>2, <1>3
  <2> QED BY <2>1, GoOn
<1> HIDE DEF s
<1>6. s + d >= 0 /\ s + d < captureI
  BY <1>1, <1>2, <1>3, <1>4, <1>5 DEF Gate
<1>7. Chunks(t.index) = q
  <2>1. Wrap(captureI - t.index) = captureI - s
    <3>1. 2 * captureI < Word /\ s <= captureI
      BY <1>1, <1>2, <1>3, <1>6
    <3> QED BY <1>2, <3>1, LagBehind DEF s
  <2> QED BY <2>1 DEF Chunks
<1>8. captureI - s \in Nat /\ d \in Nat \ {0}
  BY <1>2, <1>3, <1>6
<1>9. /\ q \in Nat /\ q * d <= captureI - s /\ captureI - s < q * d + d
  <2> HIDE DEF d
  <2>1. PICK c \in Nat : c = captureI - s
    BY <1>8
  <2>2. (c \div d) \in Nat /\ (c \div d) * d <= c /\ c < (c \div d) * d + d
    BY <1>8, QuotientBounds
  <2> QED BY <2>1, <2>2
<1> HIDE DEF q, n, d
<1>10. /\ n \in Nat \ {0} /\ n <= q
       /\ n = q \/ (req.count > 0 /\ outIndex + n >= req.count)
  <2>1. n = Clamped(q)
    BY <1>4, <1>7
  <2>2. n \in Nat \ {0}
    BY DEF n
  <2> QED BY <1>2, <1>9, <2>1, <2>2 DEF Clamped
<1>11. /\ n * d \in Nat /\ n * d <= q * d /\ d <= n * d
  <2>1. PICK j \in Nat : n = j + 1
    <3>1. n - 1 \in Nat /\ n = (n - 1) + 1
      BY <1>10
    <3> QED BY <3>1
  <2>2. j * d \in Nat /\ n * d = j * d + d
    BY <1>8, <2>1
  <2>3. PICK k \in Nat : q = n + k
    <3>1. q - n \in Nat /\ q = n + (q - n)
      BY <1>9, <1>10
    <3> QED BY <3>1
  <2>4. k * d \in Nat /\ q * d = n * d + k * d
    BY <1>8, <1>10, <2>3
  <2> QED BY <1>8, <2>2, <2>4
<1>12. PICK m \in Nat, p \in Nat : m = n * d /\ p = q * d
  BY <1>8, <1>9, <1>11
<1>13. s + m \in 0..captureI /\ s < s + m
  BY <1>2, <1>3, <1>6, <1>8, <1>9, <1>11, <1>12
<1>14. Wrap(t.index + m) = s + m
  <2>1. 2 * (s + m) < Word
    BY <1>1, <1>2, <1>13
  <2> QED BY <1>13, <2>1, GoOn DEF s
<1>15. captureI - (s + m) <= d \/ (req.count > 0 /\ outIndex + n >= req.count)
  BY <1>2, <1>3, <1>8, <1>9, <1>10, <1>12
<1> QED BY <1>12, <1>13, <1>14, <1>15 DEF s, n, d

\* A delivery ends beyond its start and all that was sent of the sweep.  When
\* it re-arms the sweep is complete, and the hold-off takes the listener
\* neither back to its start nor before sample 0.
LEMMA DeliveryRearms ==
  ASSUME NEW S \in Nat, RoomFor(S), Inv, Rest, Located(S), PassDeliver, RearmsAhead(req)
  PROVE  LET t    == FindTrigger
             n    == HowMany(t)
             past == Wrap(t.index + n * req.decimate)
         IN  /\ n \in Nat \ {0} /\ t.index \in Nat /\ t.index < Word
             /\ Signed(t.index) \in (-S)..(MaxI + Lead + S + 1)
             /\ past = Signed(t.index) + n * req.decimate
             /\ past \in 0..captureI /\ Signed(t.index) < past
             /\ req.trigger # "none" /\ req.offset >= 0 => (outIndex + n) * req.decimate <= past
             /\ holdoff \in (-S)..S
             /\ req.offset < 0 => holdoff + req.offset >= 0
             /\ Frame(t, n).last /\ req.repeat =>
                  /\ req.trigger # "none" /\ outIndex + n = req.count
                  /\ req.count * req.decimate + holdoff > 0
                  /\ past + holdoff \in Nat
<1> DEFINE t    == FindTrigger
           n    == HowMany(t)
           f    == Frame(t, n)
           d    == req.decimate
           past == Wrap(t.index + n * d)
<1>1. busy /\ live /\ n # 0
  BY DEF PassDeliver, Inv, BusyIsLive
<1>2. /\ n \in Nat \ {0}
      /\ req.count > 0 => outIndex + n <= req.count
  BY <1>1, HowManyBounds DEF Inv, CountNotReached
<1>3. /\ t.index \in Nat /\ t.index < Word
      /\ Signed(t.index) \in (-S)..(MaxI + Lead + S + 1)
      /\ req.trigger # "none" /\ req.offset >= 0 => outIndex * d <= Signed(t.index)
  BY <1>1, TurnLocated
<1> HIDE DEF t
<1>4. past = Signed(t.index) + n * d /\ past \in 0..captureI /\ Signed(t.index) < past
  BY <1>2, <1>3, DeliveryEnds
<1>5. f.last <=> req.count > 0 /\ outIndex + n >= req.count
  BY DEF Frame
<1> HIDE DEF n, f, past
<1>6. /\ outIndex \in Nat /\ d \in Nat \ {0} /\ captureI \in Nat /\ captureI <= MaxI
      /\ req.count \in Int /\ req.offset \in (-S)..S /\ MaxI \in Nat /\ Lead \in Nat
  BY RequestFields, SmallFields, DeviceAssumption DEF Inv, Counters, Rest
<1>7. /\ holdoff = ClampedHoldoff(req) /\ holdoff \in (-S)..S
      /\ req.offset < 0 => holdoff > 0 /\ holdoff + req.offset >= 0
      /\ req.offset >= 0 => holdoff = req.holdoff
  BY <1>1, HoldoffClamped DEF Located, Inv, Counters
<1> HIDE DEF d
<1>8. req.trigger # "none" /\ req.offset >= 0 => (outIndex + n) * d <= past
  <2>1. (outIndex + n) * d = outIndex * d + n * d
    BY <1>2, <1>6
  <2>2. outIndex * d \in Nat /\ n * d \in Nat /\ Signed(t.index) \in Int
    BY <1>2, <1>3, <1>6
  <2> QED BY <1>3, <1>4, <2>1, <2>2
<1>9. ASSUME f.last, req.repeat
      PROVE  /\ req.trigger # "none" /\ outIndex + n = req.count
             /\ req.count * d + holdoff > 0
             /\ past + holdoff \in Nat
  <2>1. req.trigger # "none" /\ req.count > 0 /\ outIndex + n = req.count
    <3>1. req.trigger # "none"
      BY <1>9, RequestsAssumption DEF Inv, Counters
    <3> QED BY <1>2, <1>5, <1>6, <1>9, <3>1
  <2>2. req.count * d \in Nat
    BY <1>6, <2>1
  <2>3. CASE req.offset < 0
    BY <1>4, <1>6, <1>7, <2>1, <2>2, <2>3
  <2>4. CASE req.offset >= 0
    <3>1. req.count * d + req.holdoff > 0
      BY <1>6, <2>1, <2>4 DEF RearmsAhead, d
    <3>2. req.count * d <= past
      BY <1>8, <2>1, <2>4
    <3> QED BY <1>4, <1>6, <1>7, <2>1, <2>2, <2>4, <3>1, <3>2
  <2> QED BY <1>6, <2>3, <2>4
<1> QED BY <1>2, <1>3, <1>4, <1>7, <1>8, <1>9 DEF t, n, f, d, past

\* A delivery keeps the listener located; when it re-arms, it goes on at most a
\* hold-off beyond the data.
LEMMA DeliverLocated ==
  ASSUME NEW S \in Nat, RoomFor(S), Inv, Rest, Located(S), PassDeliver, RearmsAhead(req)
  PROVE  Located(S)'
<1> DEFINE t     == FindTrigger
           n     == HowMany(t)
           f     == Frame(t, n)
           past  == Wrap(t.index + n * req.decimate)
           rearm == req.sink = "ws" /\ f.last /\ req.repeat
           again == Wrap(past + holdoff)
<1>1. /\ busy /\ live
      /\ index' = IF rearm THEN again ELSE past
      /\ outIndex' = IF rearm THEN 0 ELSE outIndex + n
      /\ triggered' = (~rearm /\ (triggered \/ req.trigger # "none"))
      /\ forceIndex' = IF rearm THEN Wrap(again + req.force) ELSE forceIndex
      /\ busy' = rearm
      /\ live' \in BOOLEAN
      /\ UNCHANGED <<captureI, captureO, req, holdoff>>
  BY DEF PassDeliver, Inv, BusyIsLive, devVars
<1>2. /\ Word \in Nat \ {0} /\ MaxI \in Nat /\ Lead \in Nat
      /\ 8 * (MaxI + Lead + S + 1) < Word
  BY RoomyWord
<1>3. /\ captureI \in Nat /\ captureI <= MaxI /\ captureO <= captureI + Lead
      /\ holdoff = ClampedHoldoff(req) /\ forceIndex <= MaxI + 2 * S
      /\ req.force \in 0..S /\ forceIndex \in Nat /\ req.trigger \in Triggers
  BY <1>1, SmallFields, RequestFields DEF Inv, Counters, Rest, Located
<1>4. /\ n \in Nat \ {0} /\ past \in 0..captureI /\ holdoff \in (-S)..S
      /\ req.trigger # "none" /\ req.offset >= 0 => (outIndex + n) * req.decimate <= past
      /\ rearm => past + holdoff \in Nat
  BY DeliveryRearms
<1> HIDE DEF t, n, f, past, rearm, again
<1>5. ASSUME NEW x \in Nat, x <= MaxI + 2 * S
      PROVE  Wrap(x) = x /\ x < Word /\ Signed(x) = x
  <2>1. x < Word /\ 2 * x < Word
    BY <1>2, <1>5
  <2> QED BY <1>2, <2>1, WholeTurns DEF Signed
<1>6. (RearmsAhead(req))' <=> RearmsAhead(req)
  BY <1>1 DEF RearmsAhead
<1>7. past < Word /\ Signed(past) = past /\ past \in Nat
  <2>1. past \in Nat /\ past <= MaxI + 2 * S
    BY <1>2, <1>3, <1>4
  <2> QED BY <1>5, <2>1
<1>8. CASE rearm
  <2>1. past + holdoff \in Nat /\ past + holdoff <= captureI + S
    BY <1>2, <1>3, <1>4, <1>8
  <2>2. again = past + holdoff
    <3>1. past + holdoff <= MaxI + 2 * S
      BY <1>2, <1>3, <2>1
    <3> QED BY <1>5, <2>1, <3>1 DEF again
  <2>3. again + req.force \in Nat /\ again + req.force <= MaxI + 2 * S
    BY <1>2, <1>3, <2>1, <2>2
  <2>4. Wrap(again + req.force) = again + req.force
    BY <1>5, <2>3
  <2>5. index' = again /\ forceIndex' = again + req.force /\ ~triggered' /\ busy'
    BY <1>1, <1>8, <2>4
  <2>6. index' <= captureI' + S + 0 /\ forceIndex' <= MaxI + 2 * S
    BY <1>1, <1>2, <1>3, <2>1, <2>2, <2>3, <2>5
  <2> QED BY <1>1, <1>3, <2>5, <2>6 DEF Located
<1>9. CASE ~rearm
  <2>1. index' = past /\ outIndex' = outIndex + n /\ forceIndex' = forceIndex /\ ~busy'
    BY <1>1, <1>9
  <2>2. index' <= captureI' + S + 1
    BY <1>1, <1>3, <1>4, <2>1
  <2>3. index' < Word /\ Signed(index)' = past /\ past \in (-S)..(MaxI + Lead + S + 1)
    <3>1. past \in (-S)..(MaxI + Lead + S + 1)
      BY <1>2, <1>3, <1>4
    <3> QED BY <1>7, <2>1, <3>1 DEF Signed
  <2>4. req'.trigger # "none" /\ req'.offset >= 0 => outIndex' * req'.decimate <= Signed(index)'
    BY <1>1, <1>4, <2>1, <2>3
  <2> QED BY <1>1, <1>3, <2>1, <2>2, <2>3, <2>4 DEF Located
<1> QED BY <1>8, <1>9

\* Every step keeps the listener located.
LEMMA LocatedNext ==
  ASSUME NEW S \in Nat, RoomFor(S)
  PROVE  Inv /\ Rest /\ Located(S) /\ [Next]_vars => Located(S)'
<1> SUFFICES ASSUME Inv, Rest, Located(S), [Next]_vars PROVE Located(S)'
  OBVIOUS
<1>1. /\ Word \in Nat \ {0} /\ MaxI \in Nat /\ Lead \in Nat
      /\ 8 * (MaxI + Lead + S + 1) < Word /\ Packet \in Nat \ {0}
  BY RoomyWord, DeviceAssumption
<1>2. captureI \in Nat /\ captureI <= MaxI /\ captureO \in Nat /\ index \in Nat /\ forceIndex \in Nat
  BY <1>1 DEF Inv, Counters, Rest
<1>3. CASE PassClosed \/ Cancel
  <2>1. ~live' /\ UNCHANGED <<captureI, captureO>>
    BY <1>3 DEF PassClosed, Cancel, devVars
  <2> QED BY <2>1 DEF Located
<1>4. CASE RestHangsUp \/ UNCHANGED vars
  <2>1. /\ UNCHANGED <<captureI, captureO, live, holdoff, req, forceIndex, triggered, index>>
        /\ UNCHANGED <<outIndex, busy>>
    BY <1>4 DEF RestHangsUp, vars, devVars, reqVars, scanVars
  <2> QED BY <2>1 DEF Located, RearmsAhead, Signed
<1>5. CASE PassIdle
  <2> DEFINE t == FindTrigger
  <2>1. /\ busy /\ live /\ index' = t.index /\ ~busy'
        /\ triggered' = (triggered \/ (req.trigger # "none" /\ t.found))
        /\ UNCHANGED <<captureI, captureO, live, holdoff, req, outIndex, forceIndex>>
    BY <1>5 DEF PassIdle, Inv, BusyIsLive, devVars, reqVars
  <2>2. CASE RearmsAhead(req)
    <3>1. /\ t.index \in Nat /\ t.index < Word
          /\ Signed(t.index) \in (-S)..(MaxI + Lead + S + 1)
          /\ ~t.found => t.index <= captureI + S + 1
          /\ req.trigger # "none" /\ req.offset >= 0 => outIndex * req.decimate <= Signed(t.index)
      BY <2>1, <2>2, TurnLocated
    <3>2. req.trigger = "none" => t.index = index
      BY DEF FindTrigger
    <3> HIDE DEF t
    <3>3. /\ index' < Word /\ Signed(index)' \in (-S)..(MaxI + Lead + S + 1)
          /\ req'.trigger # "none" /\ req'.offset >= 0 => outIndex' * req'.decimate <= Signed(index)'
      BY <2>1, <3>1 DEF Signed
    <3>4. ~triggered' => index' <= captureI' + S + 1
      <4>1. ~triggered' => ~triggered /\ (req.trigger = "none" \/ ~t.found)
        BY <2>1
      <4>2. ~triggered => index <= captureI + S + 0
        BY <2>1, <2>2 DEF Located
      <4> QED BY <1>2, <2>1, <3>1, <3>2, <4>1, <4>2
    <3> QED BY <2>1, <2>2, <3>3, <3>4 DEF Located
  <2>3. CASE ~RearmsAhead(req)
    BY <2>1, <2>3 DEF Located, RearmsAhead
  <2> QED BY <2>2, <2>3
<1>6. CASE PassDeliver
  <2>1. CASE RearmsAhead(req)
    BY <1>6, <2>1, DeliverLocated
  <2>2. CASE ~RearmsAhead(req)
    <3>1. UNCHANGED <<captureI, captureO, req>>
      BY <1>6 DEF PassDeliver, devVars
    <3> QED BY <2>2, <3>1 DEF Located, RearmsAhead
  <2> QED BY <2>1, <2>2
<1>7. ASSUME NEW r \in Requests, Listen(r) PROVE Located(S)'
  <2>1. r.start \in Int /\ r.start <= S /\ r.force \in 0..S
    BY SmallFields
  <2>2. ResolveStart(r.start) \in Nat /\ ResolveStart(r.start) <= captureI + S
    BY <1>2, <2>1 DEF ResolveStart
  <2>3. /\ UNCHANGED <<captureI, captureO>> /\ req' = r /\ holdoff' = ClampedHoldoff(r)
        /\ index' = ResolveStart(r.start) /\ ~triggered' /\ busy'
        /\ forceIndex' = ResolveStart(r.start) + r.force
    BY <1>7 DEF Listen, devVars
  <2>4. forceIndex' <= MaxI + 2 * S
    BY <1>1, <1>2, <2>1, <2>2, <2>3
  <2>5. index' <= captureI' + S + 0
    BY <1>2, <2>2, <2>3
  <2>6. holdoff' = ClampedHoldoff(req')
    BY <2>3
  <2> QED BY <2>3, <2>4, <2>5, <2>6, <1>2 DEF Located, ClampedHoldoff
<1>8. CASE PacketDone
  <2>1. /\ captureI' = captureI + Packet /\ ~busy /\ busy' = live
        /\ UNCHANGED <<captureO, live, holdoff, req, forceIndex, triggered, index, outIndex>>
    BY <1>8 DEF PacketDone, reqVars, scanVars
  <2> QED BY <1>1, <1>2, <2>1 DEF Located, RearmsAhead, Signed
<1>9. CASE FillOut
  <2>1. /\ captureO' <= captureI + Lead
        /\ UNCHANGED <<captureI, live, holdoff, req, forceIndex, triggered, index, outIndex, busy>>
    BY <1>9 DEF FillOut, reqVars, scanVars
  <2> QED BY <2>1 DEF Located, RearmsAhead, Signed
<1>10. ASSUME NEW w \in Waves, CaptureReset(w) PROVE Located(S)'
  <2>1. /\ captureI' = 0 /\ captureO' = 0 /\ index' = 0 /\ outIndex' = 0 /\ ~busy /\ ~busy'
        /\ UNCHANGED <<live, holdoff, req, forceIndex, triggered>>
    BY <1>10 DEF CaptureReset, reqVars
  <2>2. Signed(index)' = 0
    BY <1>1, <2>1 DEF Signed
  <2>3. outIndex' * req'.decimate = 0
    <3>1. req.decimate \in Nat
      BY RequestFields DEF Inv, Counters
    <3> QED BY <2>1, <3>1
  <2> QED BY <1>1, <2>1, <2>2, <2>3 DEF Located, RearmsAhead
<1> QED BY <1>3, <1>4, <1>5, <1>6, <1>7, <1>8, <1>9, <1>10 DEF Next, Pass

\* The listener is located in every behaviour.
LEMMA LocatedInvariant ==
  ASSUME NEW S \in Nat, RoomFor(S)
  PROVE  Spec => [](Inv /\ Rest /\ Located(S))
<1>1. Init => Located(S)
  BY DeviceAssumption DEF Init, Located
<1>2. Inv /\ Rest /\ Located(S) /\ [Next]_vars => Located(S)'
  BY LocatedNext
<1> QED BY <1>1, <1>2, TypedInvariant, PTL DEF Spec

-----------------------------------------------------------------------------
(* Nothing is left behind.                                                  *)

\* Indices about the data do not wrap.
LEMMA FarFromWord ==
  ASSUME NEW S \in Nat, RoomFor(S), NEW y \in Nat, y <= MaxI + 2 * S + 3
  PROVE  Wrap(y) = y
<1>1. /\ Word \in Nat \ {0} /\ MaxI \in Nat /\ Lead \in Nat
      /\ 8 * (MaxI + Lead + S + 1) < Word
  BY RoomyWord
<1>2. y < Word
  BY <1>1
<1> QED BY <1>2, WholeTurns

\* A turn that delivers nothing would deliver nothing the next time either: an
\* untriggered scan has no edge left, and a forced trigger no chunk.
LEMMA IdleCaughtUp ==
  ASSUME NEW S \in Nat, RoomFor(S), Inv, Rest, Located(S), PassIdle, req.trigger # "out",
         RearmsAhead(req)
  PROVE  (HowMany(FindTrigger) = 0)'
<1> DEFINE t == FindTrigger
<1>1. /\ busy /\ live /\ HowMany(t) = 0 /\ index' = t.index
      /\ triggered' = (triggered \/ (req.trigger # "none" /\ t.found))
      /\ UNCHANGED <<captureI, captureO, wave, config, live, holdoff, req, outIndex, forceIndex>>
  BY DEF PassIdle, Inv, BusyIsLive, devVars, reqVars
<1>2. ASSUME NEW u PROVE HowMany(u)' = HowMany(u')
  BY <1>1 DEF HowMany, Gate, Chunks, Clamped, Wrap
<1>3. CASE req.trigger = "none" \/ triggered'
  <2>1. FindTrigger' = [index |-> t.index, found |-> TRUE]
    BY <1>1, <1>3 DEF FindTrigger
  <2>2. t = [index |-> t.index, found |-> TRUE]
    <3>1. CASE req.trigger = "none" \/ triggered
      BY <3>1 DEF FindTrigger
    <3>2. CASE ~(req.trigger = "none" \/ triggered)
      <4>1. t.found = TRUE /\ t \in {InStream, OutSource}
        BY <1>1, <1>3, <3>2 DEF FindTrigger, Rest, InStream, OutSource
      <4> QED BY <4>1 DEF InStream, OutSource
    <3> QED BY <3>1, <3>2
  <2> QED BY <1>1, <2>1, <2>2 DEF HowMany, Gate, Chunks, Clamped, Wrap
<1>4. CASE req.trigger = "in" /\ ~triggered'
  <2>1. ~triggered /\ t = InStream /\ ~t.found
    BY <1>1, <1>4 DEF FindTrigger
  <2>2. RisingEdges = {} /\ t.index = ScanEnd
    BY <2>1 DEF InStream
  <2>3. /\ captureI \in Nat /\ captureI <= MaxI /\ index \in Nat /\ index <= captureI + S
        /\ Word \in Nat \ {0} /\ MaxI \in Nat /\ Lead \in Nat
        /\ 8 * (MaxI + Lead + S + 1) < Word
    BY <1>1, <2>1, RoomyWord DEF Inv, Counters, Rest, Located
  <2>4. Wrap(index + 1) = index + 1
    <3>1. index + 1 \in Nat /\ index + 1 <= MaxI + 2 * S + 3
      BY <2>3
    <3> QED BY <3>1, FarFromWord
  <2>5. PICK i \in Nat : i = index' /\ captureI <= i /\ i <= MaxI + S + 1
    BY <1>1, <2>2, <2>3, <2>4 DEF ScanEnd, ScanStart
  <2>6. i \in Nat /\ captureI <= i /\ i <= MaxI + S + 1
    BY <2>5
  <2>7. Wrap(i + 1) = i + 1
    <3>1. i + 1 \in Nat /\ i + 1 <= MaxI + 2 * S + 3
      BY ONLY <2>3, <2>6, S \in Nat
    <3> QED BY <3>1, FarFromWord
  <2>8. ScanStart' = i + 1
    BY <2>5, <2>7 DEF ScanStart, Wrap
  <2>9. RisingEdges' = {} /\ ScanEnd' = i + 1
    <3>1. (i + 1)..(captureI - 1) = {} /\ i + 1 > captureI
      BY ONLY <2>3, <2>6
    <3> QED BY <1>1, <2>8, <3>1 DEF RisingEdges, ScanEnd
  <2>10. FindTrigger'.index = i + 1
    BY <1>1, <1>4, <2>9 DEF FindTrigger, InStream
  <2>11. Gate(FindTrigger.index)'
    <3> DEFINE d == req.decimate
    <3>1. d \in 1..S
      BY SmallFields DEF Inv, Counters
    <3>2. Gate(FindTrigger.index)' <=> Wrap((i + 1) + d) >= captureI
      BY <1>1, <2>10 DEF Gate, Wrap
    <3> HIDE DEF d
    <3>3. (i + 1) + d \in Nat /\ (i + 1) + d <= MaxI + 2 * S + 3
      BY <2>3, <2>6, <3>1
    <3>4. Wrap((i + 1) + d) = (i + 1) + d
      BY <3>3, FarFromWord
    <3> QED BY <2>3, <2>6, <3>1, <3>2, <3>4
  <2> QED BY <2>11 DEF HowMany
<1> QED BY <1>3, <1>4, RequestFields DEF Inv, Counters, Triggers

\* What a delivery leaves is less than a chunk, unless the listener goes.
LEMMA DeliverCaughtUp ==
  ASSUME NEW S \in Nat, RoomFor(S), Inv, Rest, Located(S), PassDeliver, live', ~busy', RearmsAhead(req)
  PROVE  (HowMany(FindTrigger) = 0)'
<1> DEFINE t     == FindTrigger
           n     == HowMany(t)
           x     == Signed(t.index) + n * req.decimate
<1>1. /\ busy /\ live /\ n # 0
      /\ index' = Wrap(t.index + n * req.decimate)
      /\ triggered' = (triggered \/ req.trigger # "none")
      /\ ~Frame(t, n).last
      /\ UNCHANGED <<captureI, captureO, req>>
  BY DEF PassDeliver, Inv, BusyIsLive, devVars
<1>2. n \in Nat \ {0}
  BY <1>1, HowManyBounds DEF Inv, CountNotReached
<1>3. /\ t.index \in Nat /\ t.index < Word
      /\ Signed(t.index) \in (-S)..(MaxI + Lead + S + 1)
  BY <1>1, TurnLocated
<1>4. ~(req.count > 0 /\ outIndex + n >= req.count)
  BY <1>1 DEF Frame
<1> HIDE DEF t
<1>5. /\ Wrap(t.index + n * req.decimate) = x /\ x \in 0..captureI
      /\ captureI - x <= req.decimate
  <2>1. /\ Wrap(t.index + n * req.decimate) = x /\ x \in 0..captureI
        /\ captureI - x <= req.decimate \/ (req.count > 0 /\ outIndex + n >= req.count)
    BY <1>2, <1>3, DeliveryEnds
  <2> HIDE DEF n, x
  <2> QED BY <1>4, <2>1
<1> HIDE DEF x, n
<1>6. /\ Word \in Nat \ {0} /\ MaxI \in Nat /\ Lead \in Nat
      /\ 8 * (MaxI + Lead + S + 1) < Word
      /\ captureI \in Nat /\ captureI <= MaxI /\ req.decimate \in 1..S
  BY RoomyWord, SmallFields DEF Inv, Counters, Rest
<1>7. Wrap(x + req.decimate) = x + req.decimate
  <2>1. x + req.decimate \in Nat /\ x + req.decimate <= MaxI + 2 * S + 3
    BY <1>5, <1>6
  <2> QED BY <2>1, FarFromWord
<1>8. FindTrigger' = [index |-> x, found |-> TRUE]
  BY <1>1, <1>5 DEF FindTrigger
<1>9. Gate(FindTrigger.index)' <=> Wrap(x + req.decimate) >= captureI
  BY <1>1, <1>8 DEF Gate, Wrap
<1>10. Gate(FindTrigger.index)'
  BY <1>5, <1>6, <1>7, <1>9
<1> QED BY <1>10 DEF HowMany

\* FindTriggerType, of any state.
LEMMA SearchType == Counters => FindTrigger.index \in Nat
BY FindTriggerType

\* Every step leaves nothing behind.
LEMMA CaughtUpNext ==
  ASSUME NEW S \in Nat, RoomFor(S)
  PROVE  Inv /\ Rest /\ Located(S) /\ CaughtUp /\ [Next]_vars => CaughtUp'
<1> SUFFICES ASSUME Inv, Rest, Located(S), CaughtUp, [Next]_vars, live', ~busy', req'.trigger # "out",
                    (RearmsAhead(req))'
             PROVE  (HowMany(FindTrigger) = 0)'
  BY DEF CaughtUp
<1>1. ASSUME UNCHANGED <<captureI, wave, config, live, req, index, outIndex, triggered, forceIndex>>,
             ~busy
      PROVE  (HowMany(FindTrigger) = 0)'
  <2>1. HowMany(FindTrigger) = 0
    BY <1>1 DEF CaughtUp, RearmsAhead
  <2>2. FindTrigger' = FindTrigger
    <3>1. req.trigger # "out"
      BY <1>1
    <3>2. RisingEdges' = RisingEdges /\ ScanEnd' = ScanEnd
      BY <1>1 DEF RisingEdges, Above, Available, Caps, ScanStart, ScanEnd, Wrap
    <3>3. InStream' = InStream
      BY <1>1, <3>2 DEF InStream, Wrap
    <3> QED BY <1>1, <3>1, <3>3, RequestFields DEF FindTrigger, Inv, Counters, Triggers
  <2> QED BY <1>1, <2>1, <2>2 DEF HowMany, Gate, Chunks, Clamped, Wrap
<1>2. CASE PassClosed \/ Cancel \/ \E r \in Requests : Listen(r)
  BY <1>2 DEF PassClosed, Cancel, Listen
<1>3. CASE PassIdle
  <2>1. req.trigger # "out" /\ RearmsAhead(req)
    BY <1>3 DEF PassIdle, reqVars, RearmsAhead
  <2> QED BY <1>3, <2>1, IdleCaughtUp
<1>4. CASE PassDeliver
  <2>1. RearmsAhead(req)
    BY <1>4 DEF PassDeliver, RearmsAhead
  <2> QED BY <1>4, <2>1, DeliverCaughtUp
<1>5. CASE RestHangsUp \/ FillOut \/ UNCHANGED vars
  <2>1. UNCHANGED <<captureI, wave, config, live, req, index, outIndex, triggered, forceIndex, busy>>
    BY <1>5 DEF RestHangsUp, FillOut, vars, devVars, reqVars, scanVars
  <2> QED BY <1>1, <2>1
<1>6. CASE PacketDone
  <2>1. live' = busy'
    BY <1>6 DEF PacketDone, reqVars
  <2> QED BY <2>1
<1>7. ASSUME NEW w \in Waves, CaptureReset(w) PROVE (HowMany(FindTrigger) = 0)'
  <2>1. captureI' = 0
    BY <1>7 DEF CaptureReset
  <2>2. Inv'
    BY NextInv
  <2>3. (FindTrigger.index \in Nat)'
    <3>1. Counters'
      BY <2>2 DEF Inv
    <3> QED BY <3>1, SearchType, PTL
  <2>4. req'.decimate \in Nat
    BY <2>2, RequestFields DEF Inv, Counters
  <2>5. Gate(FindTrigger.index)'
    <3>1. Wrap(FindTrigger'.index + req'.decimate) \in Nat
      BY <2>3, <2>4, WrapIsNat
    <3> QED BY <2>1, <3>1 DEF Gate, Wrap
  <2> QED BY <2>5 DEF HowMany
<1> QED BY <1>2, <1>3, <1>4, <1>5, <1>6, <1>7 DEF Next, Pass

\* When handle_new_data returns, nothing is left that it could have sent: for
\* every signal, packet, buffer and request that re-arms ahead of its sweep,
\* negative hold-offs and offsets included, if the word has room for them.
THEOREM NothingIsLeft ==
  ASSUME NEW S \in Nat, RoomFor(S)
  PROVE  Spec => []CaughtUp
<1>1. Init => CaughtUp
  BY DEF Init, CaughtUp
<1>2. Inv /\ Rest /\ Located(S) /\ CaughtUp /\ [Next]_vars => CaughtUp'
  BY CaughtUpNext
<1>3. Spec => [](Inv /\ Rest /\ Located(S))
  BY LocatedInvariant
<1> QED BY <1>1, <1>2, <1>3, PTL DEF Spec

-----------------------------------------------------------------------------
(* Sweeps.                                                                  *)

\* A sweep that started at sample b is behind a listener: behind its index, by
\* what was sent of the sweep at least, and, while the listener looks for the
\* next trigger, behind all the places it may find it.
SweepBehind(b) ==
  /\ b < Signed(index)
  /\ b + outIndex * req.decimate <= Signed(index)
  /\ Scans => b < index + req.offset /\ b < forceIndex

\* All sweeps there were are behind a listener that re-arms ahead.
SweepsBehind ==
  live /\ RearmsAhead(req) =>
    \A k \in 1..Len(frames) : frames[k].idx = 0 => SweepBehind(Signed(frames[k].from))

\* What is found for the next sweep is beyond those before it.
LEMMA TurnAdvances ==
  ASSUME NEW S \in Nat, RoomFor(S), Inv, Rest, Located(S), live, busy,
         RearmsAhead(req), NEW b \in Int, SweepBehind(b)
  PROVE  LET t == FindTrigger IN
         /\ b < Signed(t.index)
         /\ b + outIndex * req.decimate <= Signed(t.index)
         /\ Scans /\ ~t.found => b < t.index + req.offset
<1>1. /\ Word \in Nat \ {0} /\ MaxI \in Nat /\ Lead \in Nat
      /\ 8 * (MaxI + Lead + S + 1) < Word
  BY RoomyWord
<1>2. /\ index \in Nat /\ captureI \in Nat /\ captureI <= MaxI /\ captureO \in Nat
      /\ captureO <= captureI + Lead /\ forceIndex \in Nat
      /\ req.offset \in (-S)..S /\ req.trigger \in Triggers
  BY SmallFields, RequestFields, <1>1 DEF Inv, Counters, Rest, Located
<1>3. ASSUME NEW x \in Int, -S <= x, x <= MaxI + Lead + S + 1
      PROVE  Signed(Wrap(x)) = x
  <2>1. 2 * x < Word /\ -Word <= 2 * x
    BY <1>1, <1>3
  <2> QED BY <2>1, SignedOfWrap
<1>4. ASSUME NEW x \in Nat, x <= MaxI + Lead + S + 1
      PROVE  Wrap(x) = x /\ Signed(x) = x
  <2>1. x < Word /\ 2 * x < Word
    BY <1>1, <1>4
  <2> QED BY <1>1, <2>1, WholeTurns DEF Signed
<1>5. CASE ~Scans
  <2>1. FindTrigger = [index |-> index, found |-> TRUE]
    BY <1>5 DEF FindTrigger, Scans
  <2> QED BY <2>1 DEF SweepBehind
<1>6. ASSUME Scans
      PROVE  /\ index <= captureI + S
             /\ b < index /\ b < index + req.offset /\ b < forceIndex
             /\ b + outIndex * req.decimate = b
  <2>1. index <= captureI + S
    BY <1>2, <1>6 DEF Located, Scans
  <2>2. index <= MaxI + Lead + S + 1
    BY <1>1, <1>2, <2>1
  <2>3. Signed(index) = index
    BY <1>2, <1>4, <2>2
  <2>4. outIndex = 0 /\ req.decimate \in Nat
    BY <1>6, ScanIsFirst, RequestFields DEF Inv, Counters
  <2>5. b + outIndex * req.decimate = b
    BY <2>4
  <2> QED BY <1>6, <2>1, <2>3, <2>5 DEF SweepBehind
<1>7. CASE Scans /\ req.trigger = "in"
  <2>1. FindTrigger = InStream
    BY <1>7 DEF FindTrigger, Scans
  <2>2. CASE RisingEdges # {}
    <3>1. RisingEdges \in SUBSET Nat /\ RisingEdges \subseteq (index + 1)..captureI
      <4>1. index + 1 \in Nat /\ index + 1 <= MaxI + Lead + S + 1
        BY <1>1, <1>2, <1>6, <1>7
      <4>2. ScanStart = index + 1
        BY <1>4, <4>1 DEF ScanStart
      <4> QED BY <1>2, <4>2 DEF RisingEdges
    <3>2. PICK e \in (index + 1)..captureI : e = Min(RisingEdges)
      <4>1. Min(RisingEdges) \in RisingEdges
        BY ONLY <2>2, <3>1, LeastIndex, Zenon
      <4> QED BY <3>1, <4>1
    <3>3. InStream = [index |-> Wrap(e + req.offset), found |-> TRUE]
      BY <2>2, <3>2 DEF InStream
    <3>4. /\ e + req.offset \in Int /\ -S <= e + req.offset /\ e + req.offset <= MaxI + Lead + S + 1
          /\ b < e + req.offset
      BY <1>1, <1>2, <1>6, <1>7, <3>2
    <3>5. Signed(FindTrigger.index) = e + req.offset /\ FindTrigger.found
      BY <1>3, <2>1, <3>3, <3>4
    <3> QED BY <1>6, <1>7, <3>4, <3>5
  <2>3. CASE RisingEdges = {}
    <3>1. index + 1 \in Nat /\ index + 1 <= MaxI + Lead + S + 1
      BY <1>1, <1>2, <1>6, <1>7
    <3>2. Wrap(index + 1) = index + 1
      BY <1>4, <3>1
    <3>3. ScanEnd \in Nat /\ index < ScanEnd /\ ScanEnd <= MaxI + Lead + S + 1
      BY <1>1, <1>2, <1>6, <1>7, <3>2 DEF ScanEnd, ScanStart
    <3>4. Signed(ScanEnd) = ScanEnd
      BY <1>4, <3>3
    <3>5. InStream.index = ScanEnd
      BY <2>3 DEF InStream
    <3>6. b < ScanEnd /\ b < ScanEnd + req.offset /\ b <= ScanEnd
      BY <1>2, <1>6, <1>7, <3>3
    <3>7. b + outIndex * req.decimate <= ScanEnd
      BY <1>6, <1>7, <3>6
    <3>8. FindTrigger.index = ScanEnd
      BY <2>1, <3>5
    <3> QED BY <1>7, <3>4, <3>6, <3>7, <3>8
  <2> QED BY <2>2, <2>3
<1>8. CASE Scans /\ req.trigger = "out"
  <2> DEFINE zero == PhaseZeroAfter(index)
  <2>1. FindTrigger = OutSource
    BY <1>8 DEF FindTrigger, Scans
  <2>2. zero \in Nat /\ zero >= index
    BY <1>2, PhaseZeroLater
  <2>3. CASE captureO >= zero
    <3>1. OutSource = [index |-> Wrap(zero + req.offset), found |-> TRUE]
      BY <2>3 DEF OutSource
    <3> HIDE DEF zero
    <3>2. /\ zero + req.offset \in Int /\ -S <= zero + req.offset
          /\ zero + req.offset <= MaxI + Lead + S + 1 /\ b < zero + req.offset
      BY <1>1, <1>2, <1>6, <1>8, <2>2, <2>3
    <3>3. Signed(FindTrigger.index) = zero + req.offset /\ FindTrigger.found
      BY <1>3, <2>1, <3>1, <3>2
    <3> QED BY <1>6, <1>8, <3>2, <3>3
  <2>4. CASE ~(captureO >= zero)
    <3>1. \/ OutSource = [index |-> index, found |-> FALSE]
          \/ OutSource = [index |-> forceIndex, found |-> TRUE] /\ captureI >= forceIndex
      BY <2>4 DEF OutSource
    <3>2. OutSource.index \in Nat /\ OutSource.index <= captureI + S
      BY <1>2, <1>6, <1>8, <3>1
    <3>3. OutSource.index <= MaxI + Lead + S + 1
      BY <1>1, <1>2, <3>2
    <3>4. Signed(OutSource.index) = OutSource.index
      BY <1>4, <3>2, <3>3
    <3>5. b < OutSource.index /\ b <= OutSource.index
      BY <1>2, <1>6, <1>8, <3>1
    <3>6. b + outIndex * req.decimate <= OutSource.index
      BY <1>6, <1>8, <3>5
    <3>7. ~OutSource.found => b < OutSource.index + req.offset
      BY <1>6, <1>8, <3>1
    <3> QED BY <2>1, <3>4, <3>5, <3>6, <3>7
  <2> QED BY <2>3, <2>4
<1> QED BY <1>2, <1>5, <1>7, <1>8 DEF Scans, Triggers

\* The first sample of an update, read as a signed number.
LEMMA StartsAreNumbers ==
  ASSUME Inv
  PROVE  \A k \in 1..Len(frames) : Signed(frames[k].from) \in Int
<1> SUFFICES ASSUME NEW k \in 1..Len(frames) PROVE Signed(frames[k].from) \in Int
  OBVIOUS
<1> DEFINE Updates == [from : Nat, n : Nat, idx : Nat, last : BOOLEAN, readable : BOOLEAN]
<1>1. frames \in Seq(Updates)
  BY DEF Inv
<1> HIDE DEF Updates
<1>2. frames[k] \in Updates
  BY <1>1
<1>3. frames[k].from \in Nat
  BY <1>2 DEF Updates
<1> QED BY <1>3, DeviceAssumption DEF Signed

\* An update of a new sweep is beyond all sweeps before it, and leaves the
\* listener beyond it; re-arming does not go back behind it.
LEMMA DeliverAdvances ==
  ASSUME NEW S \in Nat, RoomFor(S), Inv, Rest, Located(S), SweepsBehind, SweepsAdvance, PassDeliver,
         RearmsAhead(req)
  PROVE  SweepsBehind' /\ SweepsAdvance'
<1> DEFINE t     == FindTrigger
           n     == HowMany(t)
           f     == Frame(t, n)
           d     == req.decimate
           past  == Wrap(t.index + n * d)
           rearm == req.sink = "ws" /\ f.last /\ req.repeat
           again == Wrap(past + holdoff)
           s     == Signed(t.index)
<1>1. /\ busy /\ live
      /\ frames' = Append(frames, f)
      /\ index' = IF rearm THEN again ELSE past
      /\ outIndex' = IF rearm THEN 0 ELSE outIndex + n
      /\ triggered' = (~rearm /\ (triggered \/ req.trigger # "none"))
      /\ forceIndex' = IF rearm THEN Wrap(again + req.force) ELSE forceIndex
      /\ UNCHANGED <<captureI, captureO, req, holdoff>>
  BY DEF PassDeliver, Inv, BusyIsLive, devVars
<1>2. /\ Word \in Nat \ {0} /\ MaxI \in Nat /\ Lead \in Nat
      /\ 8 * (MaxI + Lead + S + 1) < Word
  BY RoomyWord
<1>3. /\ captureI \in Nat /\ captureI <= MaxI /\ outIndex \in Nat
      /\ d \in Nat \ {0} /\ req.count \in Int /\ req.offset \in Int /\ req.force \in 0..S
  BY <1>1, SmallFields, RequestFields DEF Inv, Counters, Rest
<1>4. /\ n \in Nat \ {0} /\ t.index \in Nat /\ s \in Int
      /\ past = s + n * d /\ past \in 0..captureI /\ s < past
      /\ holdoff \in (-S)..S
      /\ req.offset < 0 => holdoff + req.offset >= 0
      /\ rearm => /\ outIndex + n = req.count
                  /\ req.count * d + holdoff > 0
                  /\ past + holdoff \in Nat
  <2>1. \A x \in (-S)..(MaxI + Lead + S + 1) : x \in Int
    BY <1>2
  <2> QED BY <2>1, DeliveryRearms
<1>5. f.from = t.index /\ f.idx = outIndex
  BY DEF Frame
<1>6. \A k \in 1..Len(frames) : frames[k].idx = 0 =>
        /\ Signed(frames[k].from) < s
        /\ Signed(frames[k].from) + outIndex * d <= s
  <2> SUFFICES ASSUME NEW k \in 1..Len(frames), frames[k].idx = 0
               PROVE  /\ Signed(frames[k].from) < s
                      /\ Signed(frames[k].from) + outIndex * d <= s
    OBVIOUS
  <2>1. SweepBehind(Signed(frames[k].from))
    BY <1>1 DEF SweepsBehind
  <2>2. Signed(frames[k].from) \in Int
    BY StartsAreNumbers
  <2> QED BY <1>1, <2>1, <2>2, TurnAdvances
<1>7. /\ Len(frames') = Len(frames) + 1 /\ Len(frames) \in Nat
      /\ frames'[Len(frames) + 1].from = t.index
      /\ frames'[Len(frames) + 1].idx = outIndex
      /\ \A k \in 1..Len(frames) : frames'[k] = frames[k] /\ Signed(frames[k].from) \in Int
  <2> HIDE DEF f, t
  <2>1. frames \in Seq([from : Nat, n : Nat, idx : Nat, last : BOOLEAN, readable : BOOLEAN])
    BY DEF Inv
  <2>2. \A k \in 1..Len(frames) : Signed(frames[k].from) \in Int
    BY StartsAreNumbers
  <2>3. /\ Len(frames') = Len(frames) + 1 /\ Len(frames) \in Nat
        /\ frames'[Len(frames) + 1] = f
        /\ \A k \in 1..Len(frames) : frames'[k] = frames[k]
    BY <1>1, <2>1
  <2> QED BY <1>5, <2>2, <2>3
<1> HIDE DEF t, n, f, d, past, rearm, again, s
<1>8. SweepsAdvance'
  <2> SUFFICES ASSUME NEW j \in 1..Len(frames'), NEW k \in 1..Len(frames'),
                      j < k, frames'[j].idx = 0, frames'[k].idx = 0
               PROVE  Signed(frames'[j].from) < Signed(frames'[k].from)
    BY DEF SweepsAdvance, Signed
  <2>1. j \in 1..Len(frames) /\ frames'[j] = frames[j]
    BY <1>7
  <2>2. CASE k \in 1..Len(frames)
    BY <1>7, <2>1, <2>2 DEF SweepsAdvance
  <2>3. CASE k = Len(frames) + 1
    BY <1>6, <1>7, <2>1, <2>3 DEF s
  <2> QED BY <1>7, <2>2, <2>3
<1>9. \A k \in 1..Len(frames') : frames'[k].idx = 0 =>
        /\ Signed(frames'[k].from) \in Int
        /\ Signed(frames'[k].from) <= s
        /\ Signed(frames'[k].from) + outIndex * d <= s
  <2> SUFFICES ASSUME NEW k \in 1..Len(frames'), frames'[k].idx = 0
               PROVE  /\ Signed(frames'[k].from) \in Int
                      /\ Signed(frames'[k].from) <= s
                      /\ Signed(frames'[k].from) + outIndex * d <= s
    OBVIOUS
  <2>1. CASE k \in 1..Len(frames)
    BY <1>4, <1>6, <1>7, <2>1
  <2>2. CASE k = Len(frames) + 1
    <3>1. Signed(frames'[k].from) = s /\ outIndex = 0
      BY <1>7, <2>2 DEF s
    <3>2. s + outIndex * d <= s
      BY <1>3, <1>4, <3>1
    <3> QED BY <1>4, <3>1, <3>2
  <2> QED BY <1>7, <2>1, <2>2
<1>10. ASSUME NEW x \in Nat, x <= MaxI + 2 * S
       PROVE  Wrap(x) = x /\ Signed(x) = x
  <2>1. x < Word /\ 2 * x < Word
    BY <1>2, <1>10
  <2> QED BY <1>2, <2>1, WholeTurns DEF Signed
<1>11. Signed(past) = past /\ past \in Int
  <2>1. past \in Nat /\ past <= MaxI + 2 * S
    BY <1>2, <1>3, <1>4
  <2> QED BY <1>10, <2>1
<1>12. PICK sent \in Nat : sent = outIndex * d
  BY <1>3
<1>13. PICK more \in Nat : more = n * d
  BY <1>3, <1>4
<1>14. (outIndex + n) * d = sent + more
  BY <1>3, <1>4, <1>12, <1>13
<1>15. ASSUME NEW b \in Int, b <= s, b + outIndex * d <= s
       PROVE  SweepBehind(b)'
  <2>1. b < past /\ b + sent + more <= past
    BY <1>4, <1>11, <1>12, <1>13, <1>15
  <2>2. CASE rearm
    <3>1. past + holdoff \in Nat /\ past + holdoff <= MaxI + 2 * S
      BY <1>2, <1>3, <1>4, <2>2
    <3>2. again = past + holdoff /\ Signed(again) = again
      BY <1>10, <3>1 DEF again
    <3>3. Wrap(again + req.force) = again + req.force
      <4>1. again + req.force \in Nat /\ again + req.force <= MaxI + 2 * S
        BY <1>2, <1>3, <1>4, <3>1, <3>2
      <4> QED BY <1>10, <4>1
    <3>4. sent + more + holdoff > 0
      BY <1>4, <1>14, <2>2
    <3>5. b < again /\ b < again + req.force
      BY <1>3, <1>4, <1>11, <2>1, <3>2, <3>4
    <3>6. b < again + req.offset
      <4>1. CASE req.offset < 0
        BY <1>3, <1>4, <1>11, <2>1, <3>2, <4>1
      <4>2. CASE req.offset >= 0
        BY <1>3, <3>1, <3>2, <3>5, <4>2
      <4> QED BY <1>3, <4>1, <4>2
    <3>7. /\ index' = again /\ outIndex' = 0 /\ forceIndex' = again + req.force /\ req' = req
          /\ Signed(index)' = again
      BY <1>1, <2>2, <3>2, <3>3 DEF Signed
    <3>8. b + outIndex' * req'.decimate = b
      BY <1>3, <3>7 DEF d
    <3>9. (index + req.offset)' = again + req.offset
      BY <3>7
    <3>10. b <= again
      BY <3>1, <3>2, <3>5
    <3> QED BY <3>5, <3>6, <3>7, <3>8, <3>9, <3>10 DEF SweepBehind
  <2>3. CASE ~rearm
    <3>1. Signed(index)' = past /\ outIndex' = outIndex + n /\ req' = req
      BY <1>1, <1>11, <2>3 DEF Signed
    <3>2. ~Scans'
      BY <1>1, <2>3 DEF Scans
    <3>3. b + outIndex' * req'.decimate <= Signed(index)'
      <4>1. b + (sent + more) <= past
        BY <1>11, <2>1
      <4> QED BY <1>14, <3>1, <4>1 DEF d
    <3> QED BY <2>1, <3>1, <3>2, <3>3 DEF SweepBehind
  <2> QED BY <2>2, <2>3
<1>16. SweepsBehind'
  <2> SUFFICES ASSUME NEW k \in 1..Len(frames'), frames'[k].idx = 0
               PROVE  SweepBehind(Signed(frames[k].from))'
    BY DEF SweepsBehind
  <2>1. PICK b \in Int : b = Signed(frames'[k].from) /\ b <= s /\ b + outIndex * d <= s
    BY <1>9
  <2>2. SweepBehind(b)'
    BY <1>15, <2>1
  <2>3. b = Signed(frames[k].from)'
    BY <2>1 DEF Signed
  <2> QED BY <2>2, <2>3 DEF SweepBehind
<1> QED BY <1>8, <1>16

\* A turn that finds no trigger, or not enough data, does not go back either.
LEMMA IdleAdvances ==
  ASSUME NEW S \in Nat, RoomFor(S), Inv, Rest, Located(S), SweepsBehind, PassIdle,
         RearmsAhead(req)
  PROVE  SweepsBehind'
<1> DEFINE t == FindTrigger
<1>1. /\ busy /\ live /\ index' = t.index
      /\ triggered' = (triggered \/ (req.trigger # "none" /\ t.found))
      /\ UNCHANGED <<req, outIndex, forceIndex, frames>>
  BY DEF PassIdle, Inv, BusyIsLive, reqVars
<1> SUFFICES ASSUME NEW k \in 1..Len(frames), frames[k].idx = 0
             PROVE  SweepBehind(Signed(frames[k].from))'
  BY <1>1 DEF SweepsBehind
<1>2. PICK b \in Int : b = Signed(frames[k].from)
  BY StartsAreNumbers
<1>3. SweepBehind(b)
  BY <1>1, <1>2 DEF SweepsBehind
<1>4. /\ b < Signed(t.index)
      /\ b + outIndex * req.decimate <= Signed(t.index)
      /\ Scans /\ ~t.found => b < t.index + req.offset
  BY <1>1, <1>3, TurnAdvances
<1>5. Signed(index)' = Signed(t.index)
  BY <1>1 DEF Signed
<1>6. Scans' => Scans /\ ~t.found
  BY <1>1 DEF Scans
<1>7. (index + req.offset)' = t.index + req.offset /\ forceIndex' = forceIndex
      /\ outIndex' * req'.decimate = outIndex * req.decimate
  BY <1>1
<1>8. SweepBehind(b)'
  BY <1>3, <1>4, <1>5, <1>6, <1>7 DEF SweepBehind
<1>9. b = Signed(frames[k].from)'
  BY <1>1, <1>2 DEF Signed
<1> QED BY <1>8, <1>9 DEF SweepBehind

\* Every step keeps the sweeps in order and behind the listener.
LEMMA SweepsNext ==
  ASSUME NEW S \in Nat, RoomFor(S)
  PROVE  Inv /\ Rest /\ Located(S) /\ SweepsBehind /\ SweepsAdvance /\ [Next]_vars
           => SweepsBehind' /\ SweepsAdvance'
<1> SUFFICES ASSUME Inv, Rest, Located(S), SweepsBehind, SweepsAdvance, [Next]_vars
             PROVE  SweepsBehind' /\ SweepsAdvance'
  OBVIOUS
<1>1. ASSUME UNCHANGED <<req, frames>> PROVE SweepsAdvance'
  BY <1>1 DEF SweepsAdvance, RearmsAhead, Signed
<1>2. ASSUME frames' = << >> PROVE SweepsBehind' /\ SweepsAdvance'
  BY <1>2 DEF SweepsBehind, SweepsAdvance
<1>3. CASE PassClosed \/ Cancel
  <2>1. UNCHANGED <<req, frames>> /\ ~live'
    BY <1>3 DEF PassClosed, Cancel
  <2> QED BY <1>1, <2>1 DEF SweepsBehind
<1>4. CASE PassIdle
  <2>1. UNCHANGED <<req, frames>>
    BY <1>4 DEF PassIdle, reqVars
  <2>2. CASE RearmsAhead(req)
    BY <1>1, <1>4, <2>1, <2>2, IdleAdvances
  <2>3. CASE ~RearmsAhead(req)
    BY <2>1, <2>3 DEF SweepsBehind, SweepsAdvance, RearmsAhead
  <2> QED BY <2>2, <2>3
<1>5. CASE PassDeliver
  <2>1. CASE RearmsAhead(req)
    BY <1>5, <2>1, DeliverAdvances
  <2>2. CASE ~RearmsAhead(req)
    <3>1. UNCHANGED req
      BY <1>5 DEF PassDeliver
    <3> QED BY <2>2, <3>1 DEF SweepsBehind, SweepsAdvance, RearmsAhead
  <2> QED BY <2>1, <2>2
<1>6. CASE RestHangsUp \/ PacketDone \/ FillOut \/ UNCHANGED vars
  <2>1. UNCHANGED <<live, req, index, outIndex, triggered, forceIndex, frames>>
    BY <1>6 DEF RestHangsUp, PacketDone, FillOut, vars, reqVars, scanVars
  <2> QED BY <1>1, <2>1 DEF SweepsBehind, SweepBehind, Scans, RearmsAhead, Signed
<1>7. CASE (\E r \in Requests : Listen(r)) \/ \E w \in Waves : CaptureReset(w)
  <2>1. frames' = << >>
    BY <1>7 DEF Listen, CaptureReset
  <2> QED BY <1>2, <2>1
<1> QED BY <1>3, <1>4, <1>5, <1>6, <1>7 DEF Next, Pass

\* Sweeps of a repeating trigger move forward, so that the loop of
\* handle_new_data ends: for every request whose hold-off does not reach back
\* over the whole sweep (it may be negative), in-stream or of the output
\* source, forced or not, and any offset, negative ones by the clamp in
\* make_stream_listener, if the word has room.
THEOREM SweepsAlwaysAdvance ==
  ASSUME NEW S \in Nat, RoomFor(S)
  PROVE  Spec => []SweepsAdvance
<1>1. Init => SweepsBehind /\ SweepsAdvance
  BY DEF Init, SweepsBehind, SweepsAdvance
<1>2. Inv /\ Rest /\ Located(S) /\ SweepsBehind /\ SweepsAdvance /\ [Next]_vars
        => SweepsBehind' /\ SweepsAdvance'
  BY SweepsNext
<1>3. Spec => [](Inv /\ Rest /\ Located(S))
  BY LocatedInvariant
<1> QED BY <1>1, <1>2, <1>3, PTL DEF Spec

=============================================================================
