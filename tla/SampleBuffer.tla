----------------------------- MODULE SampleBuffer -----------------------------
(***************************************************************************)
(* The sample store of one stream of a StreamingDevice (streaming.rs):     *)
(* put, sample_done, get and resample over a buffer of capture_samples     *)
(* slots.  A continuous capture uses it as a ring; a bounded capture fills *)
(* it once and only counts what comes after.                               *)
(*                                                                         *)
(* log is a history variable: every sample of the run, in the order the    *)
(* hardware delivered them.  It says what a read ought to return.          *)
(***************************************************************************)
EXTENDS Integers, Sequences

CONSTANTS
  Sizes,    \* capture_samples a client may configure
  Values,   \* sample values
  Zero,     \* what allocate() fills a buffer with
  NaN,      \* what get() returns for a sample that is not available
  MaxI      \* bound: samples counted in one run

ASSUME BufferAssumption ==
  /\ Sizes # {} /\ Sizes \subseteq Nat
  /\ Zero \in Values /\ NaN \notin Values
  /\ MaxI \in Nat

VARIABLES
  caps,        \* capture_samples, and the length of the stream's data
  continuous,  \* capture_continuous
  captureI,    \* capture_i
  data,        \* Stream::data
  log

vars == <<caps, continuous, captureI, data, log>>

Allocated(n) == [slot \in 0..(n - 1) |-> Zero]

Init ==
  /\ caps \in Sizes
  /\ continuous \in BOOLEAN
  /\ captureI = 0
  /\ data = Allocated(caps)
  /\ log = << >>

\* Seeded fault: a bounded capture writes on beyond its end.
DropsOnlyWithoutBuffer == caps = 0

\* put() drops a sample when there is no buffer, or when a bounded capture
\* already has all it asked for.
Drops == caps = 0 \/ (captureI >= caps /\ ~continuous)

\* put() and then sample_done(), as handle_in_transfer calls them.
Sample(v) ==
  /\ captureI < MaxI
  /\ data' = IF Drops THEN data ELSE [data EXCEPT ![captureI % caps] = v]
  /\ captureI' = captureI + 1
  /\ log' = Append(log, v)
  /\ UNCHANGED <<caps, continuous>>

\* reset_capture rewinds the counter; the old samples stay in the buffer.
ResetCapture ==
  /\ captureI' = 0
  /\ log' = << >>
  /\ UNCHANGED <<caps, continuous, data>>

\* Seeded fault: the buffer is not reallocated.
ConfigureKeepsBuffer(n, cont) ==
  /\ caps' = n
  /\ continuous' = cont
  /\ captureI' = 0
  /\ log' = << >>
  /\ UNCHANGED data

\* configure rebuilds the streams.
Configure(n, cont) ==
  /\ caps' = n
  /\ continuous' = cont
  /\ captureI' = 0
  /\ data' = Allocated(n)
  /\ log' = << >>

Next ==
  \/ \E v \in Values : Sample(v)
  \/ ResetCapture
  \/ \E n \in Sizes, cont \in BOOLEAN : Configure(n, cont)

Spec == Init /\ [][Next]_vars

-----------------------------------------------------------------------------
(* Reads.                                                                   *)

\* Seeded fault: a buffer that has just been filled is taken to have wrapped.
TooOldWhenFull(i) == captureI >= caps /\ i <= captureI - caps

\* The buffer wrapped and the slot of sample i was, or is about to be, reused.
TooOld(i) == captureI > caps /\ i <= captureI - caps

\* get() answers with a sample, not NaN.
Available(i) ==
  /\ caps # 0
  /\ i < captureI
  /\ ~TooOld(i)

Get(i) == IF Available(i) THEN data[i % caps] ELSE NaN

\* Seeded fault: the window may start one sample earlier than get() allows.
WindowFromTheEdge(start, count) ==
  /\ caps # 0
  /\ start + count <= captureI
  /\ ~(captureI > caps /\ start < captureI - caps)

\* resample() answers with a mean, not NaN.
WindowAvailable(start, count) ==
  /\ caps # 0
  /\ start + count <= captureI
  /\ ~TooOld(start)

\* The values resample() averages.
Window(start, count) == [k \in 0..(count - 1) |-> data[(start + k) % caps]]

-----------------------------------------------------------------------------
(* Properties.                                                              *)

TypeOK ==
  /\ caps \in Sizes
  /\ continuous \in BOOLEAN
  /\ captureI \in Nat
  /\ data \in [0..(caps - 1) -> Values]
  /\ log \in Seq(Values)

\* The sample a read of index i is entitled to.  A bounded capture that
\* counted more samples than it keeps reads its first samples again beyond
\* its end (the stale-read window the README keeps as Q7).
Meant(i) == log[(IF continuous \/ i < caps THEN i ELSE i % caps) + 1]

\* get() never returns a sample of another index or of an earlier run,
\* although slots are reused and survive a reset: whatever it returns that is
\* not NaN is the sample that was counted at that index.
ReadExact ==
  \A i \in 0..(captureI - 1) : Available(i) => Get(i) = Meant(i)

\* resample() averages exactly the samples get() would return, and refuses
\* exactly when one of them is unavailable: its one check of the window's
\* start covers every sample of the window.
WindowExact ==
  \A start \in 0..captureI : \A count \in 1..(captureI + 1) :
    /\ WindowAvailable(start, count) <=> \A k \in 0..(count - 1) : Available(start + k)
    /\ WindowAvailable(start, count) =>
         \A k \in 0..(count - 1) : Window(start, count)[k] = Meant(start + k)

-----------------------------------------------------------------------------
(* The buffer implements a log of samples with a window.                    *)

\* The indices a reader may rely on: those get() answers, but not those past
\* the end of a bounded capture, where it reads the first samples again.
Readable == {i \in 0..(captureI - 1) : Available(i) /\ (continuous \/ i < caps)}

Log == INSTANCE SampleLog
         WITH size <- caps, counted <- captureI, kept <- [i \in Readable |-> Get(i)]

\* Every step of the buffer is one of the log: a sample, once readable, reads
\* the same until it leaves the window, is never lost before, does not come
\* back, and a bounded capture turns samples away only when it is full.
ImplementsLog == Log!Spec
=============================================================================
