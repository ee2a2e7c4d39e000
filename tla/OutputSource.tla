----------------------------- MODULE OutputSource -----------------------------
(***************************************************************************)
(* The output side of one channel of an SMU: the source that clients set   *)
(* (source.rs), the samples that the OUT task asks it for                  *)
(* (fill_out_transfer), and the flag that says its effect has come back    *)
(* (check_output_effective).                                               *)
(*                                                                         *)
(* get_value of an arbitrary wave walks a list of points: Ask enters it,   *)
(* the Walk actions are the turns of its loop.  fill_out_transfer holds    *)
(* the device's mutex for a whole transfer (left > 0).  Sources without a  *)
(* walker have no state, so their transfers are one step.                  *)
(*                                                                         *)
(* sent and returned count the samples that really went out and came back  *)
(* since the capture was started; the device plays and samples in          *)
(* lockstep.  waveStart, lastAsked, rewound, answer, sent, returned,        *)
(* firstSent and skewed are history variables.                             *)
(***************************************************************************)
EXTENDS Integers, Sequences, FiniteSetsExt

CONSTANTS
  Sources,     \* the sources that clients ask for, before they are validated
  Packet,      \* samples of one transfer, IN and OUT
  Caps,        \* capture_samples
  Continuous,  \* capture_continuous
  Lead,        \* bound: samples encoded ahead of the IN stream
  MaxI,        \* bound: samples counted
  MaxHeld,     \* bound: transfers in the hands of tasks that were aborted
  Word,        \* 2^32: where the sample counts of a square wrap
  None         \* no sample, no value

Kinds == {"constant", "adv_square", "arb"}

ConstantSources == [kind : {"constant"}]
SquareSources   == [kind : {"adv_square"}, high : 0..(Word - 1), low : 0..(Word - 1),
                    phase : Int, rel : BOOLEAN]
ArbSources      == [kind : {"arb"}, times : Seq(Int), repeat : Int, phase : Int]

ASSUME WordAssumption == Word \in Nat \ {0}
ASSUME SourcesAssumption == Sources \subseteq ConstantSources \cup SquareSources \cup ArbSources
ASSUME OutputAssumption ==
  /\ Packet \in Nat \ {0} /\ Caps \in Nat \ {0} /\ Continuous \in BOOLEAN
  /\ Lead \in Nat /\ MaxI \in Nat /\ MaxHeld \in Nat /\ None \notin Int

VARIABLES
  captureI, captureO, capturing, done,     \* the device
  piped,                                   \* its IN and OUT tasks run
  heldIn, heldOut,                         \* transfers of aborted tasks that wait for the mutex
  source, startSample, effective,          \* the channel's source, as initialize left it
  startTime, index, repeat,                \* what get_value changes in it
  left, filler, o, rel,                    \* fill_out_transfer and get_value at work
  waveStart, lastAsked, rewound, answer,
  sent, returned, firstSent, skewed

devVars  == <<captureI, capturing, done, piped>>
walkVars == <<startTime, index, repeat>>
askVars  == <<lastAsked, rewound, answer>>
fillVars == <<left, filler, o, rel>>
trueVars == <<sent, returned, firstSent, skewed>>
srcVars  == <<source, startSample, effective, waveStart>>
heldVars == <<heldIn, heldOut>>
vars == <<devVars, captureO, heldVars, srcVars, walkVars, fillVars, askVars, trueVars>>

-----------------------------------------------------------------------------
(* Sources.                                                                 *)

LastOf(times) == times[Len(times)]

\* Seeded fault: a wave that repeats may have no length.
ArbAcceptsNoLength(s) ==
  /\ s.times # << >> /\ s.times[1] = 0
  /\ \A k \in 1..(Len(s.times) - 1) : s.times[k] <= s.times[k + 1]

\* OutputSource::arb: no repeat count means once.
ArbAccepts(s) ==
  /\ s.times # << >> /\ s.times[1] = 0
  /\ \A k \in 1..(Len(s.times) - 1) : s.times[k] <= s.times[k + 1]
  /\ LastOf(s.times) = 0 => s.repeat \in {0, 1}

\* A sum of u32, as the release build adds.
SquarePeriod(s) == (s.high + s.low) % Word

Accepted(s) ==
  /\ s.kind = "arb" => ArbAccepts(s)
  /\ s.kind = "adv_square" => SquarePeriod(s) # 0

Passes(s) == IF s.repeat = 0 THEN 1 ELSE s.repeat

\* f64::round of x / y, for x >= 0.
Rounded(x, y) == (2 * x + y) \div (2 * y)

\* Seeded fault: the phase forgets where in its own period the sample is.
SquarePhaseUnaligned(s, prev, i) ==
  (s.phase + IF s.rel /\ prev.kind = "adv_square"
             THEN Rounded(((i + prev.phase) % SquarePeriod(prev)) * SquarePeriod(s), SquarePeriod(prev))
             ELSE 0) % SquarePeriod(s)

\* initialize() of a square: it goes on at the fraction of the period at which
\* the square before it stopped.
SquarePhase(s, prev, i) ==
  (s.phase + IF s.rel /\ prev.kind = "adv_square"
             THEN Rounded(((i + prev.phase) % SquarePeriod(prev)) * SquarePeriod(s), SquarePeriod(prev))
                  - (i % SquarePeriod(s))
             ELSE 0) % SquarePeriod(s)

\* initialize() of an arbitrary wave: from here, aligned to its period, or at
\* an absolute sample.
ArbStart(s, i) ==
  IF s.phase < 0 THEN i
  ELSE IF Passes(s) # 1 THEN i - (i % LastOf(s.times)) + (s.phase % LastOf(s.times))
  ELSE s.phase

Initialized(s, prev, i) ==
  CASE s.kind = "constant"   -> s
    [] s.kind = "adv_square" -> [s EXCEPT !.phase = SquarePhase(s, prev, i)]
    [] s.kind = "arb"        -> [s EXCEPT !.phase = IF s.phase < 0 THEN i ELSE s.phase]

High(s, i) == (i + s.phase) % SquarePeriod(s) >= s.low

\* Seeded fault: the low samples are not counted.
PhaseZeroOfLow(s, i) ==
  CASE s.kind = "constant"   -> i
    [] s.kind = "adv_square" ->
         LET per == SquarePeriod(s) IN i + ((per - ((i + s.phase) % per)) % per)
    [] s.kind = "arb" ->
         LET per == LastOf(s.times) IN IF per = 0 THEN i ELSE i + ((per - ((i - s.phase) % per)) % per)

PhaseZeroAfter(s, i) ==
  CASE s.kind = "constant"   -> i
    [] s.kind = "adv_square" ->
         LET per == SquarePeriod(s) IN i + ((per + s.low - ((i + s.phase) % per)) % per)
    [] s.kind = "arb" ->
         LET per == LastOf(s.times) IN IF per = 0 THEN i ELSE i + ((per - ((i - s.phase) % per)) % per)

-----------------------------------------------------------------------------
(* set_output.                                                              *)

Busy == left > 0

\* Seeded fault: the flag follows the sample that is coming in.
StartsAtInput == captureI + 1

\* The sample that is being encoded can no longer be affected.
StartsAt == captureO + 1

SetOutput(s) ==
  /\ ~Busy /\ Accepted(s)
  /\ source' = Initialized(s, source, captureO)
  /\ startSample' = StartsAt
  /\ effective' = FALSE
  /\ index' = 1
  /\ IF s.kind = "arb"
     THEN startTime' = ArbStart(s, captureO) /\ repeat' = Passes(s)
     ELSE startTime' = 0 /\ repeat' = 1
  /\ waveStart' = startTime'
  /\ lastAsked' = None /\ rewound' = FALSE /\ answer' = None
  /\ firstSent' = None
  /\ UNCHANGED <<devVars, captureO, heldVars, fillVars, sent, returned, skewed>>

-----------------------------------------------------------------------------
(* fill_out_transfer, for the OUT task of the running capture ("live") or   *)
(* for one that was aborted while it waited for the mutex ("late").         *)

\* What becomes of a transfer that has been encoded.
Submitted(who) ==
  /\ sent' = IF who = "live" THEN sent + Packet ELSE sent
  /\ firstSent' = IF who = "live" /\ firstSent = None THEN sent ELSE firstSent
  /\ UNCHANGED <<returned, skewed>>

Fills(who) ==
  /\ ~Busy
  /\ captureO + Packet <= captureI + Lead
  /\ who = "live" => piped
  /\ who = "late" => heldOut > 0
  /\ heldOut' = IF who = "late" THEN heldOut - 1 ELSE heldOut
  /\ UNCHANGED <<devVars, heldIn, srcVars, walkVars, askVars>>

FillPlain(who) ==
  /\ source.kind # "arb"
  /\ Fills(who)
  /\ captureO' = captureO + Packet
  /\ Submitted(who)
  /\ UNCHANGED fillVars

FillArb(who) ==
  /\ source.kind = "arb"
  /\ Fills(who)
  /\ left' = Packet /\ filler' = who /\ o' = captureO
  /\ UNCHANGED <<captureO, rel, trueVars>>

\* Seeded fault: a sample before the start is not moved to it.
RelativeUnclamped(i) == i - startTime

\* get_value: times are relative to start_time.
Relative(i) == IF i < startTime THEN 0 ELSE i - startTime

Ask ==
  /\ Busy /\ rel = None
  /\ rel' = Relative(o)
  /\ rewound' = (rewound \/ (lastAsked # None /\ o < lastAsked))
  /\ lastAsked' = o
  /\ UNCHANGED <<devVars, captureO, heldVars, srcVars, walkVars, left, filler, o, answer, trueVars>>

AtEnd == index = Len(source.times)

WillRepeat == repeat > 1 \/ repeat = -1

\* Seeded fault: the start of the next pass is not moved.
WalkWrapInPlace ==
  /\ Busy /\ rel # None /\ AtEnd /\ WillRepeat
  /\ repeat' = IF repeat > 0 THEN repeat - 1 ELSE repeat
  /\ index' = 1
  /\ rel' = rel - source.times[index]
  /\ UNCHANGED <<devVars, captureO, heldVars, srcVars, startTime, left, filler, o, askVars, trueVars>>

\* The last point was passed and there is another pass.
WalkWrap ==
  /\ Busy /\ rel # None /\ AtEnd /\ WillRepeat
  /\ repeat' = IF repeat > 0 THEN repeat - 1 ELSE repeat
  /\ index' = 1
  /\ startTime' = startTime + source.times[index]
  /\ rel' = rel - source.times[index]
  /\ UNCHANGED <<devVars, captureO, heldVars, srcVars, left, filler, o, askVars, trueVars>>

\* The next point was passed.
WalkForward ==
  /\ Busy /\ rel # None /\ ~AtEnd
  /\ rel >= source.times[index + 1]
  /\ index' = index + 1
  /\ UNCHANGED <<devVars, captureO, heldVars, srcVars, startTime, repeat, fillVars, askVars, trueVars>>

\* A value lies past a point by so many samples: what is interpolated.
Value(point, past) == [point |-> point, past |-> past]

\* The value is found; it is the last of the transfer or another is asked for.
WalkReturn ==
  /\ Busy /\ rel # None
  /\ IF AtEnd THEN ~WillRepeat ELSE rel < source.times[index + 1]
  /\ answer' = [at |-> o,
                value |-> IF AtEnd \/ rel < source.times[index]
                          THEN Value(index, 0)
                          ELSE Value(index, rel - source.times[index])]
  /\ rel' = None
  /\ left' = left - 1
  /\ o' = IF left = 1 THEN 0 ELSE o + 1
  /\ filler' = IF left = 1 THEN None ELSE filler
  /\ captureO' = IF left = 1 THEN o + 1 ELSE captureO
  /\ IF left = 1 THEN Submitted(filler) ELSE UNCHANGED trueVars
  /\ UNCHANGED <<devVars, heldVars, srcVars, walkVars, lastAsked, rewound>>

Walk == Ask \/ WalkWrap \/ WalkForward \/ WalkReturn

-----------------------------------------------------------------------------
(* Capture.                                                                 *)

\* start_capture; a finished capture is reset, source start included.  The
\* effect of samples encoded before is ignored.
StartCapture ==
  /\ ~Busy /\ ~capturing
  /\ capturing' = TRUE /\ piped' = TRUE
  /\ done' = FALSE
  /\ captureI' = IF done THEN 0 ELSE captureI
  /\ captureO' = captureI'
  /\ startSample' = IF done THEN 0 ELSE startSample
  /\ sent' = 0 /\ returned' = 0 /\ firstSent' = None /\ skewed' = FALSE
  /\ UNCHANGED <<heldVars, source, waveStart, effective, walkVars, fillVars, askVars>>

\* The interface cannot be claimed, or an endpoint not opened: the capture is
\* on and nothing runs.
StartCaptureFails ==
  /\ ~Busy /\ ~capturing
  /\ capturing' = TRUE
  /\ done' = FALSE
  /\ captureI' = IF done THEN 0 ELSE captureI
  /\ captureO' \in {captureI', IF done THEN 0 ELSE captureO}
  /\ startSample' = IF done THEN 0 ELSE startSample
  /\ UNCHANGED <<piped, heldVars, source, waveStart, effective, walkVars, fillVars, askVars, trueVars>>

\* on_pause_capture aborts the tasks; those that hold a transfer and wait for
\* the mutex will still handle it.
AbortTasks(inLeft) ==
  IF piped THEN heldIn' \in inLeft..MaxHeld /\ heldOut' \in heldOut..MaxHeld
  ELSE heldIn' = inLeft /\ heldOut' = heldOut

PauseCapture ==
  /\ ~Busy /\ capturing
  /\ capturing' = FALSE /\ piped' = FALSE
  /\ captureO' = captureI
  /\ AbortTasks(heldIn)
  /\ UNCHANGED <<captureI, done, srcVars, walkVars, fillVars, askVars, trueVars>>

\* handle_in_transfer: count the samples, end a full capture, look whether the
\* source has come back.
HandleIn(fullNow) ==
  /\ captureI + Packet <= MaxI
  /\ captureI' = captureI + Packet
  /\ done' = (done \/ fullNow)
  /\ capturing' = (capturing /\ ~fullNow)
  /\ piped' = (piped /\ ~fullNow)
  /\ captureO' = IF fullNow /\ capturing THEN captureI + Packet ELSE captureO
  /\ effective' = (effective \/ captureI + Packet > startSample)
  /\ UNCHANGED <<source, waveStart, startSample, walkVars, fillVars, askVars, sent, firstSent>>

FullAfter == ~Continuous /\ captureI + Packet >= Caps

\* The device has sampled while it played what was sent.
InTransfer ==
  /\ ~Busy /\ piped
  /\ returned + Packet <= sent
  /\ HandleIn(FullAfter)
  /\ returned' = returned + Packet
  /\ IF FullAfter THEN AbortTasks(heldIn) ELSE UNCHANGED heldVars
  /\ UNCHANGED skewed

\* A transfer of an aborted task is counted after all.
LateInTransfer ==
  /\ ~Busy /\ heldIn > 0
  /\ HandleIn(FullAfter)
  /\ skewed' = TRUE
  /\ IF FullAfter /\ capturing THEN AbortTasks(heldIn - 1)
     ELSE heldIn' = heldIn - 1 /\ UNCHANGED heldOut
  /\ UNCHANGED returned

Init ==
  /\ captureI = 0 /\ captureO = 0 /\ capturing = FALSE /\ done = FALSE /\ piped = FALSE
  /\ heldIn = 0 /\ heldOut = 0
  /\ source = [kind |-> "constant"] /\ startSample = 0 /\ effective = FALSE
  /\ waveStart = 0
  /\ startTime = 0 /\ index = 1 /\ repeat = 1
  /\ left = 0 /\ filler = None /\ o = 0 /\ rel = None
  /\ lastAsked = None /\ rewound = FALSE /\ answer = None
  /\ sent = 0 /\ returned = 0 /\ firstSent = None /\ skewed = FALSE

Next ==
  \/ \E s \in Sources : SetOutput(s)
  \/ \E who \in {"live", "late"} : FillPlain(who) \/ FillArb(who)
  \/ Walk
  \/ StartCapture
  \/ StartCaptureFails
  \/ PauseCapture
  \/ InTransfer
  \/ LateInTransfer

Spec == Init /\ [][Next]_vars

\* The thread that runs get_value goes on.
FairSpec == Spec /\ WF_vars(Walk)

-----------------------------------------------------------------------------
(* Properties.                                                              *)

Values == [point : Nat \ {0}, past : Nat]

TypeOK ==
  /\ captureI \in 0..MaxI /\ captureO \in Nat
  /\ capturing \in BOOLEAN /\ done \in BOOLEAN /\ piped \in BOOLEAN
  /\ heldIn \in 0..MaxHeld /\ heldOut \in 0..MaxHeld
  /\ source.kind \in Kinds /\ startSample \in Nat /\ waveStart \in Nat /\ effective \in BOOLEAN
  /\ startTime \in Nat /\ repeat \in Int
  /\ index \in 1..(IF source.kind = "arb" THEN Len(source.times) ELSE 1)
  /\ left \in 0..Packet /\ filler \in {"live", "late", None} /\ o \in Nat
  /\ rel \in Nat \cup {None}
  /\ lastAsked \in Nat \cup {None} /\ rewound \in BOOLEAN
  /\ answer = None \/ (answer.at \in Nat /\ answer.value \in Values)
  /\ sent \in Nat /\ returned \in 0..sent /\ firstSent \in Nat \cup {None} /\ skewed \in BOOLEAN

\* The value of an arbitrary wave as a function of the sample: passes of the
\* points laid end to end from the start, then the last point for ever.
WaveAt(s, start, i) ==
  LET r    == IF i < start THEN 0 ELSE i - start
      per  == LastOf(s.times)
      over == Passes(s) # -1 /\ r >= per * (IF Passes(s) > 0 THEN Passes(s) ELSE 1)
      m    == r % per
      p    == Max({k \in 1..Len(s.times) : s.times[k] <= m})
  IN  IF over THEN Value(Len(s.times), 0) ELSE Value(p, m - s.times[p])

\* The walker agrees with the wave, however its queries are spread over
\* transfers, passes and points, as long as they do not go back.
WalkIsWave ==
  source.kind = "arb" /\ answer # None /\ ~rewound
    => answer.value = WaveAt(source, waveStart, answer.at)

\* get_value returns: its loop runs with the device's mutex held.
WalkEnds == [](Busy => <>~Busy)

\* "the first sample index >= sample at which the waveform is at phase zero":
\* the rise of a square that has one (its period does not wrap), the first point
\* of a repeated wave as initialize placed it.
AtPhaseZero(i) ==
  IF source.kind = "adv_square" THEN High(source, i) /\ ~High(source, i - 1)
  ELSE (i - waveStart) % LastOf(source.times) = 0

PhaseZeroIsFirst ==
  /\ source.kind = "adv_square" =>
       source.high > 0 /\ source.low > 0 /\ source.high + source.low < Word
  /\ source.kind = "arb" => LastOf(source.times) > 0
  /\ source.kind # "constant"
  => \A i \in 0..MaxI :
       LET zero == PhaseZeroAfter(source, i)
       IN  /\ zero >= i /\ AtPhaseZero(zero)
           /\ \A j \in i..(zero - 1) : ~AtPhaseZero(j)

\* A square that follows a square is, at the sample where it takes over, at the
\* same fraction of its period, to the nearest sample.
Position(s, i) == (i + s.phase) % SquarePeriod(s)

SameFraction(s, t, i) ==
  LET turn == SquarePeriod(s) * SquarePeriod(t)
      d    == (Position(t, i) * SquarePeriod(s) - Position(s, i) * SquarePeriod(t)) % turn
  IN  2 * d <= SquarePeriod(s) \/ 2 * (turn - d) <= SquarePeriod(s)

PhaseContinues ==
  [][\A s \in Sources :
       /\ source.kind = "adv_square" /\ s.kind = "adv_square" /\ s.rel /\ s.phase = 0
       /\ SetOutput(s)
       => SameFraction(source, source', captureO)]_vars

\* "true once this source's effect has come back as input": when the flag is
\* raised, a sample that went out with the source has returned.  The transfers
\* of aborted tasks are excepted: they are counted in a capture they are not of.
EffectiveIsSeen ==
  [][~effective /\ effective' /\ ~skewed'
       => firstSent # None /\ firstSent < returned']_vars
=============================================================================
