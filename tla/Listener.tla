------------------------------- MODULE Listener -------------------------------
(***************************************************************************)
(* One listener of a streaming device (listener.rs): how many chunks it    *)
(* may deliver, how it looks for its trigger, how it re-arms.              *)
(*                                                                         *)
(* handle_new_data is a loop that runs under the device's mutex.  busy     *)
(* says that the mutex is held for it; Pass is one turn of the loop, and   *)
(* nothing else happens before the loop returns.                           *)
(*                                                                         *)
(* The device is reduced to its counters, the set of samples above the     *)
(* trigger level and the period of the output source; reads of the buffer  *)
(* are those of SampleBuffer.  Sample indices are u64 and wrap at Word.    *)
(* frames is a history variable: the updates sent since the listener was   *)
(* made or the capture was reset.                                          *)
(***************************************************************************)
EXTENDS Integers, Sequences, FiniteSetsExt

CONSTANTS
  Requests,  \* listen commands and REST input queries that clients send
  Waves,     \* sets of sample indices above the trigger level
  Packet,    \* samples of one IN transfer
  Period,    \* period of the output source, in samples
  Captures,  \* the configurations of the device
  Lead,      \* bound: how far the OUT counter runs ahead of the IN counter
  MaxI,      \* bound: samples counted in one run
  MaxFrames, \* bound: updates sent to one listener in one run
  Word       \* 2^64: where sample indices wrap

Sinks    == {"ws", "rest"}
Triggers == {"none", "in", "out"}

ASSUME RequestsAssumption ==
  /\ Requests \subseteq [sink : Sinks, decimate : Nat \ {0}, start : Int, count : Int,
                         trigger : Triggers, repeat : BOOLEAN,
                         holdoff : Int, offset : Int, force : Nat]
  /\ \A r \in Requests : /\ r.sink = "rest" => r.trigger = "none" /\ r.count >= 0
                         /\ r.trigger = "none" => ~r.repeat
ASSUME DeviceAssumption ==
  /\ Packet \in Nat \ {0} /\ Period \in Nat \ {0}
  /\ Captures \subseteq [samples : Nat \ {0}, continuous : BOOLEAN]
  /\ Lead \in Nat /\ MaxI \in Nat /\ MaxFrames \in Nat
  /\ Word \in Nat \ {0} /\ MaxI < Word

VARIABLES
  captureI, captureO, wave,                          \* the device
  config,                                            \* capture_samples, capture_continuous
  live, req,                                         \* there is a listener, made from req
  index, outIndex, triggered, holdoff, forceIndex,   \* its state
  closed,                                            \* the REST client has gone away
  busy,                                              \* handle_new_data is running
  frames

devVars  == <<captureI, captureO, wave, config>>
reqVars  == <<live, req, holdoff, closed>>
scanVars == <<index, outIndex, triggered, forceIndex>>
vars     == <<devVars, reqVars, scanVars, busy, frames>>

-----------------------------------------------------------------------------
(* The device, as a listener sees it.                                       *)

Caps       == config.samples
Continuous == config.continuous

\* StreamingDevice::get() is not NaN (SampleBuffer).
Available(i) == i < captureI /\ ~(captureI > Caps /\ i <= captureI - Caps)

\* get() > trigger_level; a comparison with NaN is false.
Above(i) == Available(i) /\ i \in wave

\* phase_zero_after() of a periodic source of integral period.
PhaseZeroAfter(i) == i + ((Period - (i % Period)) % Period)

\* A sum of u64 with a signed or unsigned operand, as the release build does it.
Wrap(i) == i % Word

-----------------------------------------------------------------------------
(* find_trigger: the index and the triggered flag it leaves behind.         *)

\* The scan increments the index before it looks.
ScanStart == Wrap(index + 1)

RisingEdges == {j \in ScanStart..(captureI - 1) : Above(j) /\ ~Above(j - 1)}

\* So it ends one past a start that has no data yet.
ScanEnd == IF ScanStart > captureI THEN ScanStart ELSE captureI

InStream ==
  IF RisingEdges # {} THEN [index |-> Wrap(Min(RisingEdges) + req.offset), found |-> TRUE]
  ELSE [index |-> ScanEnd, found |-> req.force # 0 /\ ScanEnd > forceIndex]

OutSource ==
  LET zero == PhaseZeroAfter(index) IN
  IF captureO >= zero THEN [index |-> Wrap(zero + req.offset), found |-> TRUE]
  ELSE IF req.force # 0 /\ captureI >= forceIndex
       THEN [index |-> forceIndex, found |-> TRUE]
       ELSE [index |-> index, found |-> FALSE]

\* Seeded fault: a sweep looks for its trigger again at every packet.
FindTriggerAgain ==
  IF req.trigger = "none" THEN [index |-> index, found |-> TRUE]
  ELSE IF req.trigger = "in" THEN InStream ELSE OutSource

FindTrigger ==
  IF req.trigger = "none" \/ triggered THEN [index |-> index, found |-> TRUE]
  ELSE IF req.trigger = "in" THEN InStream ELSE OutSource

-----------------------------------------------------------------------------
(* how_many_samples for a listener at index i.                              *)

\* The boundary chunk is withheld until there is data beyond it.
Gate(i) == Wrap(i + req.decimate) >= captureI

Chunks(i) == Wrap(captureI - i) \div req.decimate

\* Seeded fault: the count is only checked after the update.
Unclamped(n) == n

\* At most what is left of the count.
Clamped(n) ==
  IF req.count > 0 /\ req.count - outIndex >= 0 /\ req.count - outIndex < n
  THEN req.count - outIndex ELSE n

HowMany(t) == IF ~t.found \/ Gate(t.index) THEN 0 ELSE Clamped(Chunks(t.index))

-----------------------------------------------------------------------------
(* One turn of the loop in handle_new_data.                                 *)

\* An update: n chunks from sample from, as output samples idx and on.  last
\* is will_be_done; readable says that no sample of it reads as NaN.
Frame(t, n) ==
  [from |-> t.index, n |-> n, idx |-> outIndex,
   last |-> req.count > 0 /\ outIndex + n >= req.count,
   readable |-> \A i \in t.index..(t.index + n * req.decimate - 1) : Available(i)]

\* The REST client has hung up: the listener goes.
PassClosed ==
  /\ busy /\ req.sink = "rest" /\ closed
  /\ live' = FALSE
  /\ busy' = FALSE
  /\ UNCHANGED <<devVars, req, holdoff, closed, scanVars, frames>>

\* No trigger yet, or not enough data: wait for the next packet.
PassIdle ==
  /\ busy /\ ~(req.sink = "rest" /\ closed)
  /\ HowMany(FindTrigger) = 0
  /\ index' = FindTrigger.index
  /\ triggered' = (triggered \/ (req.trigger # "none" /\ FindTrigger.found))
  /\ busy' = FALSE
  /\ UNCHANGED <<devVars, reqVars, outIndex, forceIndex, frames>>

\* Deliver what there is.  A finished sweep of a repeating trigger re-arms
\* and tries again; any other finished listener goes.  (The loop may never
\* end: MaxFrames stops it with the mutex held.)
PassDeliver ==
  LET t     == FindTrigger
      n     == HowMany(t)
      f     == Frame(t, n)
      past  == Wrap(t.index + n * req.decimate)
      rearm == req.sink = "ws" /\ f.last /\ req.repeat
      again == Wrap(past + holdoff)
  IN
  /\ busy /\ ~(req.sink = "rest" /\ closed)
  /\ n # 0
  /\ Len(frames) < MaxFrames
  /\ frames' = Append(frames, f)
  /\ index' = IF rearm THEN again ELSE past
  /\ outIndex' = IF rearm THEN 0 ELSE outIndex + n
  /\ triggered' = (~rearm /\ (triggered \/ req.trigger # "none"))
  /\ forceIndex' = IF rearm THEN Wrap(again + req.force) ELSE forceIndex
  /\ busy' = rearm
  /\ live' = (rearm \/ ~f.last)
  /\ UNCHANGED <<devVars, req, holdoff, closed>>

Pass == PassClosed \/ PassIdle \/ PassDeliver

-----------------------------------------------------------------------------
(* What makes the handler run, and what happens between its runs.           *)

\* Seeded fault: a start before the first sample is not clamped.
ResolveUnclamped(start) == IF start < 0 THEN captureI + start + 1 ELSE start

\* Seeded fault: a negative start means the beginning of the capture.
ResolveFromZero(start) == IF start < 0 THEN 0 ELSE start

ResolveStart(start) ==
  LET s == IF start < 0 THEN captureI + start + 1 ELSE start
  IN  IF s < 0 THEN 0 ELSE s

\* Seeded fault: the hold-off is not raised.
PlainHoldoff(r) == r.holdoff

\* Negative offsets raise the hold-off, so that a sweep never re-arms before
\* the trigger that started it.
ClampedHoldoff(r) ==
  IF r.offset < 0 /\ -r.offset >= r.holdoff THEN -r.offset ELSE r.holdoff

\* Seeded fault: a new listener waits for the next packet.
ListenLater(r) ==
  /\ ~busy
  /\ live' = TRUE /\ closed' = FALSE /\ req' = r
  /\ index' = ResolveStart(r.start) /\ outIndex' = 0
  /\ triggered' = FALSE
  /\ holdoff' = ClampedHoldoff(r)
  /\ forceIndex' = ResolveStart(r.start) + r.force
  /\ frames' = << >>
  /\ UNCHANGED <<devVars, busy>>

\* listen (or GET /input): a listener of the same id is replaced, and the new
\* one is offered the data that is already there.
Listen(r) ==
  /\ ~busy
  /\ live' = TRUE
  /\ req' = r
  /\ closed' = FALSE
  /\ index' = ResolveStart(r.start)
  /\ outIndex' = 0
  /\ triggered' = FALSE
  /\ holdoff' = ClampedHoldoff(r)
  /\ forceIndex' = ResolveStart(r.start) + r.force
  /\ busy' = TRUE
  /\ frames' = << >>
  /\ UNCHANGED devVars

\* cancelListen, detach and configure drop the listener.  (What configure does
\* besides is to start over in an initial state.)
Cancel ==
  /\ ~busy /\ live
  /\ live' = FALSE
  /\ UNCHANGED <<devVars, req, holdoff, closed, scanVars, busy, frames>>

\* The receiver of a REST response goes away at any time.
RestHangsUp ==
  /\ live /\ req.sink = "rest" /\ ~closed
  /\ closed' = TRUE
  /\ UNCHANGED <<devVars, live, req, holdoff, scanVars, busy, frames>>

\* An IN transfer was decoded; packet_done runs the listener.  A bounded
\* capture ends with the packet that fills it.
PacketDone ==
  /\ ~busy
  /\ Continuous \/ captureI < Caps
  /\ captureI + Packet <= MaxI
  /\ captureI' = captureI + Packet
  /\ busy' = live
  /\ UNCHANGED <<captureO, wave, config, reqVars, scanVars, frames>>

\* The OUT task encodes samples ahead of the IN stream.
FillOut ==
  /\ ~busy
  /\ captureO + Packet <= captureI + Lead
  /\ captureO' = captureO + Packet
  /\ UNCHANGED <<captureI, wave, config, reqVars, scanVars, busy, frames>>

\* reset_capture, when a finished capture is started again: it rewinds the
\* counters and the listener, but not the listener's trigger.
CaptureReset(w) ==
  /\ ~busy
  /\ ~Continuous /\ captureI >= Caps
  /\ captureI' = 0 /\ captureO' = 0
  /\ wave' = w
  /\ index' = 0
  /\ outIndex' = 0
  /\ frames' = << >>
  /\ UNCHANGED <<config, reqVars, triggered, forceIndex, busy>>

Init ==
  /\ captureI = 0 /\ captureO = 0
  /\ wave \in Waves /\ config \in Captures
  /\ live = FALSE /\ req \in Requests
  /\ index = 0 /\ outIndex = 0 /\ triggered = FALSE /\ holdoff = 0 /\ forceIndex = 0
  /\ closed = FALSE /\ busy = FALSE
  /\ frames = << >>

Next ==
  \/ Pass
  \/ \E r \in Requests : Listen(r)
  \/ Cancel
  \/ RestHangsUp
  \/ PacketDone
  \/ FillOut
  \/ \E w \in Waves : CaptureReset(w)

Spec == Init /\ [][Next]_vars

-----------------------------------------------------------------------------
(* Properties.                                                              *)

Frames == [from : Nat, n : Nat, idx : Nat, last : BOOLEAN, readable : BOOLEAN]

TypeOK ==
  /\ captureI \in 0..MaxI /\ captureO \in Nat /\ wave \in Waves /\ config \in Captures
  /\ live \in BOOLEAN /\ req \in Requests /\ holdoff \in Int /\ closed \in BOOLEAN
  /\ index \in Nat /\ outIndex \in Nat /\ triggered \in BOOLEAN /\ forceIndex \in Nat
  /\ busy \in BOOLEAN
  /\ frames \in Seq(Frames)

\* Updates of one sweep join up without a gap or an overlap: each starts at
\* the sample and at the output index where the one before it ended.  A new
\* sweep starts only after the last update of a repeating one, at output 0.
Contiguous ==
  /\ frames # << >> => frames[1].idx = 0
  /\ \A k \in 1..(Len(frames) - 1) :
       LET a == frames[k]
           b == frames[k + 1]
       IN  IF a.last
           THEN req.repeat /\ b.idx = 0
           ELSE b.idx = a.idx + a.n /\ b.from = Wrap(a.from + a.n * req.decimate)

\* A listener with a count gets exactly count output samples per sweep, the
\* last update and no other says done, and the listener is gone after it
\* unless it repeats.
CountExact ==
  \A k \in 1..Len(frames) :
    LET f == frames[k] IN
    /\ f.n > 0
    /\ req.count > 0 => f.idx + f.n <= req.count
    /\ f.last <=> (req.count > 0 /\ f.idx + f.n = req.count)
    /\ f.last /\ live => req.repeat

\* Re-arming takes a listener on from the start of its sweep.  It goes on at
\* the end of the sweep and a hold-off, which may be negative; the hold-off of a
\* negative offset is make_stream_listener's to raise.  (A hold-off that reaches
\* back over the whole sweep is accepted too: the same trigger may be found
\* again.)
RearmsAhead(r) ==
  r.offset < 0 \/ r.count <= 0 \/ r.count * r.decimate + r.holdoff > 0

\* When the mutex is released nothing is left that could have been sent: the
\* loop ran until data or trigger were missing.  (A zero of the output source
\* that the OUT task reaches later is seen at the next packet, and a listener
\* that a hold-off took to before sample 0 is not brought back at once.)
CaughtUp ==
  live /\ ~busy /\ req.trigger # "out" /\ RearmsAhead(req) => HowMany(FindTrigger) = 0

\* A listener that follows a continuous capture from its latest sample, in a
\* buffer longer than a packet and a chunk, is never sent a chunk the ring has
\* lost: the samples it is behind after one packet are still there at the
\* next.
FollowerLosesNothing ==
  Continuous /\ req.trigger = "none" /\ req.start = -1 /\ Caps > Packet + req.decimate
    => \A k \in 1..Len(frames) : frames[k].readable

\* The signed reading of a sample index that has wrapped below zero.
Signed(i) == IF 2 * i >= Word THEN i - Word ELSE i

\* The word is far larger than every index: no field of a request exceeds S in
\* size, but for a count or a start that reaches far back.
RoomFor(S) ==
  /\ \A r \in Requests : /\ r.decimate <= S /\ r.start <= S /\ r.force <= S
                         /\ r.holdoff \in (-S)..S /\ r.offset \in (-S)..S
  /\ 8 * (MaxI + Lead + S + 1) < Word

\* Sweeps of a repeating trigger move forward: each starts strictly later
\* than the one before, whatever offset and force are, and for every hold-off
\* that does not reach back over the whole sweep.  This is why the re-arm loop
\* ends for these requests ("Prevent big negative offsets that could cause
\* infinite loops", make_stream_listener); for the others it need not.
SweepsAdvance ==
  RearmsAhead(req) =>
    \A j, k \in 1..Len(frames) :
      j < k /\ frames[j].idx = 0 /\ frames[k].idx = 0
        => Signed(frames[j].from) < Signed(frames[k].from)

\* "the edges must land at sample >= 2" (unit test of the repeating trigger):
\* the first sweep of an unforced in-stream trigger that scans from sample 0
\* has passed over no rising edge at sample 2 or later.
EdgesFromTwoTrigger ==
  req.trigger = "in" /\ req.start = 0 /\ req.force = 0 /\ req.offset = 0 /\ frames # << >>
    => \A j \in 2..(frames[1].from - 1) : ~(j \in wave /\ j - 1 \notin wave)
=============================================================================
