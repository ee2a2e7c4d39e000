-------------------------- MODULE OutputSourceProofs --------------------------
(***************************************************************************)
(* For every packet size, capture, source and number of late transfers: a  *)
(* source is only reported effective when a sample that it encoded has     *)
(* gone out and come back (EffectiveIsSeen of OutputSource), and           *)
(* phase_zero_after answers the first phase zero (PhaseZeroIsFirst).       *)
(*                                                                         *)
(* The code compares captureI with startSample; the property compares      *)
(* sent, returned and firstSent, which start over with every capture.      *)
(* What links them is that the encoder is ahead of the IN stream by no     *)
(* less than the samples that are on their way (OnTheirWay), so that a     *)
(* source set now starts behind all of them (StartsBehind).                *)
(*                                                                         *)
(* The next phase zero is a matter of remainders, once the source is       *)
(* known to be valid and its wave to start whole periods from its phase    *)
(* (Placed).  So is the phase of a square that takes over from a square    *)
(* (PhaseContinues).                                                       *)
(*                                                                         *)
(* The walker of an arbitrary wave answers the value of the wave           *)
(* (WalkIsWave): it knows how many passes are over, has reached its point  *)
(* by the sample it was asked for last, and rests at its last point only   *)
(* when no pass is left (Walker).  The types hang on that as well: were a  *)
(* pass begun that the sample has not reached, rel would go below zero.    *)
(***************************************************************************)
EXTENDS OutputSource, WellFoundedInduction, TLAPS

\* The counters.
Counters ==
  /\ captureI \in Nat /\ captureO \in Nat /\ startSample \in Nat
  /\ sent \in Nat /\ returned \in Nat /\ firstSent \in Nat \cup {None}
  /\ left \in Nat /\ o \in Nat

\* A transfer that is being filled ends a packet after captureO.
FillsOnePacket == Busy => o + left = captureO + Packet

\* Tasks run in a capture only.
PipedInCapture == piped => capturing

\* The device is in step with its capture: its tasks run and no late transfer
\* was counted.
InStep == piped /\ ~skewed

\* The encoder is ahead by the samples on their way, or more.
OnTheirWay == InStep => captureO - captureI >= sent - returned

\* Until it is effective, a source starts behind the samples that were sent
\* before it, unless none were sent since the capture was started.
StartsBehind ==
  InStep /\ ~effective =>
    IF firstSent = None
    THEN sent = 0 \/ startSample + returned >= captureI + sent
    ELSE firstSent = 0 \/ startSample + returned >= captureI + firstSent

Inv == Counters /\ FillsOnePacket /\ PipedInCapture /\ OnTheirWay /\ StartsBehind

\* Nothing was sent and nothing runs.
LEMMA InitInv == Init => Inv
<1> SUFFICES ASSUME Init PROVE Inv
  OBVIOUS
<1>1. Counters /\ FillsOnePacket
  BY DEF Init, Counters, FillsOnePacket, Busy
<1>2. PipedInCapture /\ OnTheirWay /\ StartsBehind
  BY DEF Init, PipedInCapture, InStep, OnTheirWay, StartsBehind
<1> QED BY <1>1, <1>2 DEF Inv

\* A new source starts after the sample that is encoded, and so behind all
\* that are on their way.
LEMMA SetOutputInv ==
  ASSUME Inv, NEW s, SetOutput(s)
  PROVE  Inv'
<1>1. /\ startSample' = captureO + 1 /\ firstSent' = None
      /\ UNCHANGED <<captureI, captureO, capturing, piped, left, o, sent, returned, skewed>>
  BY DEF SetOutput, StartsAt, devVars, fillVars
<1>2. Counters'
  BY <1>1 DEF Inv, Counters
<1>3. FillsOnePacket' /\ PipedInCapture' /\ OnTheirWay'
  BY <1>1 DEF Inv, FillsOnePacket, Busy, PipedInCapture, InStep, OnTheirWay
<1>4. StartsBehind'
  BY <1>1 DEF Inv, Counters, InStep, OnTheirWay, StartsBehind
<1> QED BY <1>2, <1>3, <1>4 DEF Inv

\* A transfer that is submitted moves captureO and, if it goes out, sent.
LEMMA SubmittedInv ==
  ASSUME Inv, NEW who, Submitted(who), captureO' = captureO + Packet, left' = 0, o' \in Nat,
         UNCHANGED <<captureI, capturing, piped, startSample, effective>>
  PROVE  Inv'
<1>1. /\ sent' = IF who = "live" THEN sent + Packet ELSE sent
      /\ firstSent' = IF who = "live" /\ firstSent = None THEN sent ELSE firstSent
      /\ UNCHANGED <<returned, skewed>>
  BY DEF Submitted
<1>2. Packet \in Nat \ {0} /\ None \notin Int
  BY OutputAssumption
<1>3. Counters'
  BY <1>1, <1>2 DEF Inv, Counters
<1>4. FillsOnePacket' /\ PipedInCapture'
  BY DEF Inv, FillsOnePacket, Busy, PipedInCapture
<1>5. OnTheirWay'
  BY <1>1, <1>2 DEF Inv, Counters, InStep, OnTheirWay
<1>6. StartsBehind'
  BY <1>1, <1>2 DEF Inv, Counters, InStep, StartsBehind
<1> QED BY <1>3, <1>4, <1>5, <1>6 DEF Inv

\* What the loop of get_value does between samples touches no counter.
LEMMA WalkInv ==
  ASSUME Inv, Walk
  PROVE  Inv'
<1>1. CASE Ask \/ WalkWrap \/ WalkForward
  <2>1. UNCHANGED <<captureI, captureO, capturing, piped, startSample, effective, left, o, sent,
                    returned, firstSent, skewed>>
    BY <1>1 DEF Ask, WalkWrap, WalkForward, devVars, srcVars, fillVars, trueVars
  <2>2. Counters' /\ FillsOnePacket' /\ PipedInCapture'
    BY <2>1 DEF Inv, Counters, FillsOnePacket, Busy, PipedInCapture
  <2>3. OnTheirWay' /\ StartsBehind'
    BY <2>1 DEF Inv, InStep, OnTheirWay, StartsBehind
  <2> QED BY <2>2, <2>3 DEF Inv
<1>2. CASE WalkReturn
  <2>1. /\ left > 0 /\ left' = left - 1
        /\ UNCHANGED <<captureI, capturing, piped, startSample, effective>>
    BY <1>2 DEF WalkReturn, Busy, devVars, srcVars
  <2>2. left \in Nat /\ o \in Nat /\ captureO \in Nat /\ Packet \in Nat
        /\ o + left = captureO + Packet
    BY <2>1, OutputAssumption DEF Inv, Counters, FillsOnePacket, Busy
  <2>3. CASE left = 1
    <3>1. Submitted(filler) /\ captureO' = o + 1 /\ o' = 0
      BY <1>2, <2>3 DEF WalkReturn
    <3> QED BY <2>1, <2>2, <2>3, <3>1, SubmittedInv
  <2>4. CASE left # 1
    <3>1. o' = o + 1 /\ UNCHANGED <<captureO, sent, returned, firstSent, skewed>>
      BY <1>2, <2>4 DEF WalkReturn, trueVars
    <3>2. Counters' /\ FillsOnePacket' /\ PipedInCapture'
      BY <2>1, <2>2, <2>4, <3>1 DEF Inv, Counters, FillsOnePacket, Busy, PipedInCapture
    <3>3. OnTheirWay' /\ StartsBehind'
      BY <2>1, <3>1 DEF Inv, InStep, OnTheirWay, StartsBehind
    <3> QED BY <3>2, <3>3 DEF Inv
  <2> QED BY <2>3, <2>4
<1> QED BY <1>1, <1>2 DEF Walk

\* fill_out_transfer begins.
LEMMA FillInv ==
  ASSUME Inv, NEW who, FillPlain(who) \/ FillArb(who)
  PROVE  Inv'
<1>1. Fills(who)
  BY DEF FillPlain, FillArb
<1>2. UNCHANGED <<captureI, capturing, piped, startSample, effective>> /\ left = 0
  BY <1>1 DEF Fills, devVars, srcVars, Busy, Inv, Counters
<1>3. CASE FillPlain(who)
  <2>1. captureO' = captureO + Packet /\ Submitted(who) /\ left' = 0 /\ o' \in Nat
    BY <1>2, <1>3 DEF FillPlain, fillVars, Inv, Counters
  <2> QED BY <1>2, <2>1, SubmittedInv
<1>4. CASE FillArb(who)
  <2>1. /\ left' = Packet /\ o' = captureO
        /\ UNCHANGED <<captureO, sent, returned, firstSent, skewed>>
    BY <1>4 DEF FillArb, trueVars
  <2>2. Counters' /\ FillsOnePacket' /\ PipedInCapture'
    BY <1>2, <2>1, OutputAssumption DEF Inv, Counters, FillsOnePacket, PipedInCapture
  <2>3. OnTheirWay' /\ StartsBehind'
    BY <1>2, <2>1 DEF Inv, InStep, OnTheirWay, StartsBehind
  <2> QED BY <2>2, <2>3 DEF Inv
<1> QED BY <1>3, <1>4

\* A capture starts with nothing sent, or without tasks; a pause ends them.
LEMMA CaptureInv ==
  ASSUME Inv, StartCapture \/ StartCaptureFails \/ PauseCapture
  PROVE  Inv'
<1> USE DEF Inv, Counters, FillsOnePacket, Busy, PipedInCapture, InStep, OnTheirWay, StartsBehind
<1>1. CASE StartCapture
  BY <1>1 DEF StartCapture, fillVars
<1>2. CASE StartCaptureFails
  <2>1. captureI' \in Nat /\ captureO' \in Nat /\ startSample' \in Nat
    BY <1>2 DEF StartCaptureFails
  <2>2. UNCHANGED <<left, o, sent, returned, firstSent>> /\ left = 0
    BY <1>2 DEF StartCaptureFails, fillVars, trueVars
  <2>3. ~piped'
    BY <1>2 DEF StartCaptureFails
  <2>4. Counters' /\ FillsOnePacket'
    BY <2>1, <2>2
  <2> QED BY <2>3, <2>4
<1>3. CASE PauseCapture
  BY <1>3 DEF PauseCapture, srcVars, fillVars, trueVars
<1> QED BY <1>1, <1>2, <1>3

\* A packet counted by the capture's own task has been sent and is back; a
\* late one puts the capture out of step.
LEMMA TransferInv ==
  ASSUME Inv, InTransfer \/ LateInTransfer
  PROVE  Inv'
<1>1. /\ captureI' = captureI + Packet /\ ~Busy
      /\ piped' = (piped /\ ~FullAfter) /\ capturing' = (capturing /\ ~FullAfter)
      /\ captureO' = IF FullAfter /\ capturing THEN captureI + Packet ELSE captureO
      /\ effective' = (effective \/ captureI + Packet > startSample)
      /\ UNCHANGED <<startSample, left, o, sent, firstSent>>
  BY DEF InTransfer, LateInTransfer, HandleIn, fillVars
<1>2. Packet \in Nat
  BY OutputAssumption
<1>3. returned' \in Nat
  BY <1>2 DEF InTransfer, LateInTransfer, Inv, Counters
<1>4. Counters'
  BY <1>1, <1>2, <1>3 DEF Inv, Counters
<1>5. FillsOnePacket' /\ PipedInCapture'
  BY <1>1 DEF Inv, Counters, FillsOnePacket, Busy, PipedInCapture
<1>6. CASE InTransfer /\ ~FullAfter
  <2>1. /\ returned' = returned + Packet /\ captureI' = captureI + Packet
        /\ captureO' = captureO /\ startSample' = startSample
        /\ InStep' = InStep /\ (~effective' => ~effective)
        /\ UNCHANGED <<sent, firstSent>>
    BY <1>1, <1>6 DEF InTransfer, InStep
  <2>2. OnTheirWay'
    BY <1>2, <2>1 DEF Inv, Counters, OnTheirWay
  <2>3. StartsBehind'
    BY <1>2, <2>1 DEF Inv, Counters, StartsBehind
  <2> QED BY <1>4, <1>5, <2>2, <2>3 DEF Inv
<1>7. CASE LateInTransfer \/ FullAfter
  <2>1. ~InStep'
    BY <1>1, <1>7 DEF LateInTransfer, InStep
  <2> QED BY <1>4, <1>5, <2>1 DEF Inv, OnTheirWay, StartsBehind
<1> QED BY <1>6, <1>7

\* Every step keeps the invariant.
LEMMA NextInv == Inv /\ [Next]_vars => Inv'
<1> SUFFICES ASSUME Inv, [Next]_vars PROVE Inv'
  OBVIOUS
<1>1. CASE UNCHANGED vars
  <2>1. UNCHANGED <<captureI, captureO, capturing, piped, startSample, effective, left, o, sent,
                    returned, firstSent, skewed>>
    BY <1>1 DEF vars, devVars, srcVars, fillVars, trueVars
  <2>2. Counters' /\ FillsOnePacket' /\ PipedInCapture'
    BY <2>1 DEF Inv, Counters, FillsOnePacket, Busy, PipedInCapture
  <2>3. OnTheirWay' /\ StartsBehind'
    BY <2>1 DEF Inv, InStep, OnTheirWay, StartsBehind
  <2> QED BY <2>2, <2>3 DEF Inv
<1> QED BY <1>1, SetOutputInv, WalkInv, FillInv, CaptureInv, TransferInv DEF Next

\* The step that raises the flag counts a sample of the source.
LEMMA RaisedBySample ==
  ASSUME Inv, [Next]_vars, ~effective, effective', ~skewed'
  PROVE  firstSent # None /\ firstSent < returned'
<1>1. InTransfer
  <2>1. CASE UNCHANGED vars \/ Walk \/ \E who : FillPlain(who) \/ FillArb(who)
    BY <2>1 DEF vars, Walk, Ask, WalkWrap, WalkForward, WalkReturn, FillPlain, FillArb, Fills, srcVars
  <2>2. CASE StartCapture \/ StartCaptureFails \/ PauseCapture \/ \E s \in Sources : SetOutput(s)
    BY <2>2 DEF StartCapture, StartCaptureFails, PauseCapture, SetOutput, srcVars
  <2>3. CASE LateInTransfer
    BY <2>3 DEF LateInTransfer
  <2> QED BY <2>1, <2>2, <2>3 DEF Next
<1>2. /\ piped /\ ~skewed /\ captureI + Packet > startSample
      /\ returned' = returned + Packet /\ returned + Packet <= sent
  BY <1>1 DEF InTransfer, HandleIn
<1>3. InStep
  BY <1>2 DEF InStep
<1>4. /\ captureI \in Nat /\ startSample \in Nat /\ sent \in Nat /\ returned \in Nat
      /\ firstSent \in Nat \cup {None} /\ Packet \in Nat \ {0}
  BY OutputAssumption DEF Inv, Counters
<1>5. firstSent # None
  <2>1. firstSent = None => sent = 0 \/ startSample + returned >= captureI + sent
    BY <1>3 DEF Inv, StartsBehind
  <2> QED BY <1>2, <1>4, <2>1
<1>6. firstSent = 0 \/ startSample + returned >= captureI + firstSent
  BY <1>3, <1>5 DEF Inv, StartsBehind
<1> QED BY <1>2, <1>4, <1>5, <1>6

\* A source is reported effective when a sample that went out with it has come
\* back, for every order of set, start, pause, completion and the transfers of
\* aborted tasks that are filled late (check_output_effective).
THEOREM EffectIsSeen == Spec => EffectiveIsSeen
<1>1. Inv /\ [Next]_vars
        => [~effective /\ effective' /\ ~skewed'
              => firstSent # None /\ firstSent < returned']_vars
  BY RaisedBySample
<1> QED BY <1>1, InitInv, NextInv, PTL DEF Spec, EffectiveIsSeen
-----------------------------------------------------------------------------
(* Remainders.                                                              *)

\* Division with remainder.
LEMMA Division ==
  ASSUME NEW p \in Nat \ {0}, NEW a \in Int
  PROVE  /\ a \div p \in Int /\ a % p \in 0..(p - 1)
         /\ a = p * (a \div p) + (a % p)
OBVIOUS

\* The remainder is unique.
LEMMA SameRemainder ==
  ASSUME NEW p \in Nat \ {0}, NEW k \in Int, NEW l \in Int, NEW r \in 0..(p - 1),
         NEW s \in 0..(p - 1), p * k + r = p * l + s
  PROVE  r = s
<1>1. CASE k = l
  BY <1>1
<1>2. CASE k < l
  <2>1. p * k + p <= p * l
    BY <1>2
  <2> QED BY <2>1
<1>3. CASE k > l
  <2>1. p * l + p <= p * k
    BY <1>3
  <2> QED BY <2>1
<1> QED BY <1>1, <1>2, <1>3

\* What is left after whole periods is the remainder.
LEMMA RemainderOf ==
  ASSUME NEW p \in Nat \ {0}, NEW a \in Int, NEW k \in Int, NEW r \in 0..(p - 1), a = p * k + r
  PROVE  a % p = r
BY Division, SameRemainder

\* Whole periods more make no difference.
LEMMA PeriodsMore ==
  ASSUME NEW p \in Nat \ {0}, NEW a \in Int, NEW k \in Int
  PROVE  (a + p * k) % p = a % p
<1>1. /\ a \div p \in Int /\ a % p \in 0..(p - 1)
      /\ a = p * (a \div p) + (a % p)
  BY Division
<1>2. PICK q \in Int, r \in 0..(p - 1) : q = a \div p /\ r = a % p /\ a = p * q + r
  BY <1>1
<1>3. p * q + p * k = p * (q + k)
  BY <1>2
<1>4. a + p * k = p * (q + k) + r
  BY <1>2, <1>3
<1>5. a + p * k \in Int /\ q + k \in Int
  BY <1>2
<1> QED BY <1>2, <1>4, <1>5, RemainderOf

\* Numbers that differ by less than a period have different remainders.
LEMMA RemaindersDiffer ==
  ASSUME NEW p \in Nat \ {0}, NEW a \in Int, NEW b \in Int, a < b, b < a + p
  PROVE  a % p # b % p
<1> SUFFICES ASSUME a % p = b % p PROVE FALSE
  OBVIOUS
<1>1. PICK k \in Int, l \in Int, r \in 0..(p - 1) : a = p * k + r /\ b = p * l + r
  <2>1. a \div p \in Int /\ a % p \in 0..(p - 1) /\ a = p * (a \div p) + (a % p)
    BY Division
  <2>2. b \div p \in Int /\ b = p * (b \div p) + (b % p)
    BY Division
  <2> QED BY <2>1, <2>2
<1>2. CASE k >= l
  <2>1. p * k >= p * l
    BY <1>2
  <2> QED BY <1>1, <2>1
<1>3. CASE k < l
  <2>1. p * k + p <= p * l
    BY <1>3
  <2> QED BY <1>1, <2>1
<1> QED BY <1>2, <1>3

\* What phase_zero_after adds.
StepsTo(p, a, t, n) == n = (p + t - (a % p)) % p

\* Counting on from a, the remainder t is reached after n steps, not before.
FirstReached(p, a, t, n) ==
  /\ n \in 0..(p - 1)
  /\ (a + n) % p = t
  /\ \A m \in 0..(n - 1) : (a + m) % p # t

\* It adds the steps to the next sample with the remainder.
LEMMA NextWithRemainder ==
  ASSUME NEW p \in Nat \ {0}, NEW a \in Int, NEW t \in 0..(p - 1), NEW n, StepsTo(p, a, t, n)
  PROVE  FirstReached(p, a, t, n)
<1>1. PICK q \in Int, r \in 0..(p - 1) : r = a % p /\ a = p * q + r
  BY Division
<1>2. p + t - r \in Int
  BY <1>1
<1>3. PICK k \in Int : n \in 0..(p - 1) /\ p + t - r = p * k + n
  BY <1>1, <1>2, Division DEF StepsTo
<1>4. (a + n) % p = t
  <2>1. a + n = (p * q) + p - (p * k) + t
    <3>1. PICK x \in Int, y \in Int : x = p * q /\ y = p * k
      BY <1>1, <1>3
    <3>2. a = x + r /\ p + t - r = y + n
      BY <1>1, <1>3, <3>1
    <3> QED BY ONLY <1>1, <1>3, <3>1, <3>2, p \in Int, t \in Int, a \in Int
  <2>2. (p * q) + p - (p * k) = p * (q + 1 - k)
    BY <1>1, <1>3
  <2>3. a + n = p * (q + 1 - k) + t
    BY <2>1, <2>2
  <2>4. a + n \in Int /\ q + 1 - k \in Int
    BY <1>1, <1>3
  <2> QED BY <2>3, <2>4, RemainderOf
<1>5. ASSUME NEW m \in 0..(n - 1) PROVE (a + m) % p # t
  <2>1. a + m \in Int /\ a + n \in Int /\ a + m < a + n /\ a + n < (a + m) + p
    BY <1>3
  <2> QED BY <1>4, <2>1, RemaindersDiffer
<1> QED BY <1>1, <1>3, <1>4, <1>5 DEF FirstReached

\* One step on, the remainder is one more or starts over.
LEMMA RemainderBefore ==
  ASSUME NEW p \in Nat \ {0}, NEW a \in Int
  PROVE  a % p = IF (a - 1) % p = p - 1 THEN 0 ELSE ((a - 1) % p) + 1
<1>1. PICK q \in Int, r \in 0..(p - 1) : r = (a - 1) % p /\ a - 1 = p * q + r
  <2>1. a - 1 \in Int
    OBVIOUS
  <2> QED BY <2>1, Division
<1>2. CASE r = p - 1
  <2>1. a = p * (q + 1) + 0
    BY <1>1, <1>2
  <2> QED BY <1>1, <1>2, <2>1, RemainderOf
<1>3. CASE r # p - 1
  <2>1. a = p * q + (r + 1) /\ r + 1 \in 0..(p - 1)
    BY <1>1, <1>3
  <2>2. a % p = r + 1
    BY <2>1, RemainderOf
  <2> QED BY <1>1, <1>3, <2>2
<1> QED BY <1>2, <1>3

-----------------------------------------------------------------------------
(* Phase zero.                                                              *)

\* The channel's source has passed its validation, and the start of an arb
\* wave is a whole number of periods from its phase.
Placed ==
  /\ source \in ConstantSources \cup SquareSources \cup ArbSources
  /\ Accepted(source)
  /\ source.kind = "arb" /\ LastOf(source.times) > 0 =>
       \E k \in Int : waveStart = source.phase + LastOf(source.times) * k

\* The kind tells the fields of a source.
LEMMA FieldsByKind ==
  ASSUME NEW s \in ConstantSources \cup SquareSources \cup ArbSources
  PROVE  /\ s.kind \in Kinds
         /\ s.kind = "constant" => s \in ConstantSources
         /\ s.kind = "adv_square" => s \in SquareSources
         /\ s.kind = "arb" => s \in ArbSources
BY DEF Kinds, ConstantSources, SquareSources, ArbSources

\* A square has a period.
LEMMA PeriodPositive ==
  ASSUME NEW s \in SquareSources, Accepted(s)
  PROVE  SquarePeriod(s) \in Nat \ {0}
<1>1. s.high + s.low \in Int /\ s.kind = "adv_square"
  BY WordAssumption DEF SquareSources
<1>2. SquarePeriod(s) \in Nat
  BY <1>1, WordAssumption, Division DEF SquarePeriod
<1> QED BY <1>1, <1>2 DEF Accepted

\* A square's phase stays an integer, whatever it takes over from.
LEMMA SquarePhaseType ==
  ASSUME NEW s \in SquareSources, Accepted(s), NEW i \in Nat,
         NEW prev \in ConstantSources \cup SquareSources \cup ArbSources, Accepted(prev)
  PROVE  SquarePhase(s, prev, i) \in Int
<1>1. SquarePeriod(s) \in Nat \ {0} /\ s.phase \in Int
  BY PeriodPositive DEF SquareSources
<1>2. CASE s.rel /\ prev.kind = "adv_square"
  <2>1. prev \in SquareSources
    BY <1>2, FieldsByKind
  <2>2. SquarePeriod(prev) \in Nat \ {0} /\ prev.phase \in Int
    BY <2>1, PeriodPositive DEF SquareSources
  <2> DEFINE x == ((i + prev.phase) % SquarePeriod(prev)) * SquarePeriod(s)
             y == SquarePeriod(prev)
  <2>3. x \in Int
    <3>1. (i + prev.phase) % SquarePeriod(prev) \in Int
      BY <2>2, Division
    <3> QED BY <1>1, <3>1
  <2>4. Rounded(x, y) \in Int
    <3> HIDE DEF x
    <3>1. 2 * x + y \in Int /\ 2 * y \in Nat \ {0}
      BY <2>2, <2>3
    <3> QED BY <3>1, Division DEF Rounded
  <2>5. i % SquarePeriod(s) \in Int
    BY <1>1, Division
  <2>6. SquarePhase(s, prev, i) = (s.phase + (Rounded(x, y) - (i % SquarePeriod(s)))) % SquarePeriod(s)
    BY <1>2 DEF SquarePhase
  <2>7. s.phase + (Rounded(x, y) - (i % SquarePeriod(s))) \in Int
    <3> HIDE DEF x, y
    <3> QED BY <1>1, <2>4, <2>5
  <2> QED BY <1>1, <2>6, <2>7, Division
<1>3. CASE ~(s.rel /\ prev.kind = "adv_square")
  <2>1. SquarePhase(s, prev, i) = (s.phase + 0) % SquarePeriod(s)
    BY <1>3 DEF SquarePhase
  <2>2. s.phase + 0 = s.phase
    BY <1>1
  <2>3. s.phase % SquarePeriod(s) \in Int
    BY <1>1, Division
  <2> QED BY <2>1, <2>2, <2>3
<1> QED BY <1>2, <1>3

\* initialize() aligns a repeated wave to its phase.
LEMMA ArbPlaced ==
  ASSUME NEW s \in ArbSources, ArbAccepts(s), LastOf(s.times) \in Nat \ {0}, NEW i \in Nat
  PROVE  \E k \in Int : ArbStart(s, i)
                          = (IF s.phase < 0 THEN i ELSE s.phase) + LastOf(s.times) * k
<1> DEFINE p == LastOf(s.times)
<1>1. s.phase \in Int /\ p \in Nat \ {0}
  BY DEF ArbSources
<1> HIDE DEF p
<1>2. CASE s.phase < 0 \/ Passes(s) = 1
  <2>1. ArbStart(s, i) = (IF s.phase < 0 THEN i ELSE s.phase) + p * 0
    BY <1>1, <1>2 DEF ArbStart
  <2> QED BY <2>1 DEF p
<1>3. CASE ~(s.phase < 0 \/ Passes(s) = 1)
  <2>1. PICK k \in Int, r \in Int : r = i % p /\ i = p * k + r
    <3>1. i \in Int /\ i \div p \in Int /\ i % p \in 0..(p - 1) /\ i = p * (i \div p) + (i % p)
      BY <1>1, Division
    <3> QED BY <3>1
  <2>2. PICK l \in Int, q \in Int : q = s.phase % p /\ s.phase = p * l + q
    <3>1. /\ s.phase \div p \in Int /\ s.phase % p \in 0..(p - 1)
          /\ s.phase = p * (s.phase \div p) + (s.phase % p)
      BY <1>1, Division
    <3> QED BY <3>1
  <2>3. ArbStart(s, i) = (i - r) + q
    BY <1>3, <2>1, <2>2 DEF ArbStart, p
  <2>4. p * k - p * l = p * (k - l)
    BY <1>1
  <2>5. p * k \in Int /\ p * l \in Int /\ p * (k - l) \in Int /\ k - l \in Int
    BY <1>1
  <2>6. (i - r) + q = s.phase + p * (k - l)
    BY <1>1, <2>1, <2>2, <2>4, <2>5
  <2> QED BY <1>1, <1>3, <2>3, <2>5, <2>6 DEF p
<1> QED BY <1>2, <1>3

\* What clients set is placed.
LEMMA SetOutputPlaced ==
  ASSUME Inv, Placed, NEW s \in Sources, SetOutput(s)
  PROVE  Placed'
<1>1. s \in ConstantSources \cup SquareSources \cup ArbSources
  BY SourcesAssumption
<1>2. /\ Accepted(s) /\ captureO \in Nat
      /\ source' = Initialized(s, source, captureO) /\ waveStart' = startTime'
      /\ s.kind = "arb" => startTime' = ArbStart(s, captureO)
  BY DEF SetOutput, Inv, Counters
<1>3. CASE s.kind = "constant"
  <2>1. source' = s
    BY <1>2, <1>3 DEF Initialized
  <2> QED BY <1>1, <1>2, <1>3, <2>1 DEF Placed, Accepted
<1>4. CASE s.kind = "adv_square"
  <2>1. source' = [s EXCEPT !.phase = SquarePhase(s, source, captureO)]
    BY <1>2, <1>4 DEF Initialized
  <2>2. s \in SquareSources
    BY <1>1, <1>4, FieldsByKind
  <2>3. SquarePhase(s, source, captureO) \in Int
    BY <1>2, <2>2, SquarePhaseType DEF Placed
  <2>4. source' \in SquareSources /\ source'.high = s.high /\ source'.low = s.low
    BY <2>1, <2>2, <2>3 DEF SquareSources
  <2>5. source'.kind = "adv_square"
    BY <2>4 DEF SquareSources
  <2>6. SquarePeriod(source') = SquarePeriod(s)
    BY <2>4 DEF SquarePeriod
  <2> QED BY <1>2, <1>4, <2>4, <2>5, <2>6 DEF Placed, Accepted, SquarePeriod
<1>5. CASE s.kind = "arb"
  <2> DEFINE ph == IF s.phase < 0 THEN captureO ELSE s.phase
  <2>1. source' = [s EXCEPT !.phase = ph]
    BY <1>2, <1>5 DEF Initialized
  <2>2. s \in ArbSources
    BY <1>1, <1>5, FieldsByKind
  <2>3. ph \in Int
    BY <1>2, <2>2 DEF ArbSources
  <2>4. /\ source' \in ArbSources /\ source'.kind = "arb" /\ source'.phase = ph
        /\ source'.times = s.times /\ source'.repeat = s.repeat
    <3> HIDE DEF ph
    <3> QED BY <2>1, <2>2, <2>3 DEF ArbSources
  <2>5. ArbAccepts(s)
    BY <1>2, <1>5 DEF Accepted
  <2>6. Accepted(source')
    BY <2>4, <2>5 DEF Accepted, ArbAccepts
  <2>7. ASSUME LastOf(s.times) > 0
        PROVE  \E k \in Int : waveStart' = ph + LastOf(s.times) * k
    <3>1. LastOf(s.times) \in Int
      <4>1. s.times \in Seq(Int) /\ s.times # << >>
        BY <2>2, <2>5 DEF ArbSources, ArbAccepts
      <4> QED BY <4>1 DEF LastOf
    <3> QED BY <1>2, <1>5, <2>2, <2>5, <2>7, <3>1, ArbPlaced
  <2> HIDE DEF ph
  <2>8. LastOf(source'.times) > 0 => \E k \in Int : waveStart' = source'.phase + LastOf(source'.times) * k
    BY <2>4, <2>7
  <2> QED BY <2>4, <2>6, <2>8 DEF Placed
<1> QED BY <1>1, <1>3, <1>4, <1>5, FieldsByKind DEF Kinds

\* Nothing else touches the source or the start of its wave.
LEMMA PlacedNext == Inv /\ Placed /\ [Next]_vars => Placed'
<1> SUFFICES ASSUME Inv, Placed, [Next]_vars PROVE Placed'
  OBVIOUS
<1>1. ASSUME UNCHANGED <<source, waveStart>> PROVE Placed'
  BY <1>1 DEF Placed
<1>2. CASE UNCHANGED vars \/ Walk \/ \E who : FillPlain(who) \/ FillArb(who)
  <2>1. UNCHANGED <<source, waveStart>>
    BY <1>2 DEF vars, Walk, Ask, WalkWrap, WalkForward, WalkReturn, FillPlain, FillArb, Fills, srcVars
  <2> QED BY <1>1, <2>1
<1>3. CASE StartCapture \/ StartCaptureFails \/ PauseCapture \/ InTransfer \/ LateInTransfer
  <2>1. UNCHANGED <<source, waveStart>>
    BY <1>3 DEF StartCapture, StartCaptureFails, PauseCapture, InTransfer, LateInTransfer, HandleIn,
                srcVars
  <2> QED BY <1>1, <2>1
<1>4. CASE \E s \in Sources : SetOutput(s)
  BY <1>4, SetOutputPlaced
<1> QED BY <1>2, <1>3, <1>4 DEF Next

\* A period within the word is the sum of its parts.
LEMMA WholePeriod ==
  ASSUME NEW s, s.high \in Nat, s.low \in Nat, s.high + s.low < Word
  PROVE  SquarePeriod(s) = s.high + s.low
<1>1. PICK sum \in Nat : sum = s.high + s.low
  OBVIOUS
<1>2. sum % Word = sum
  BY <1>1, WordAssumption
<1> QED BY <1>1, <1>2 DEF SquarePeriod

\* The rise of a square is where its position is that of the first high sample.
LEMMA RiseOfSquare ==
  ASSUME source \in SquareSources, source.high > 0, source.low > 0,
         source.high + source.low < Word, NEW i \in Int
  PROVE  AtPhaseZero(i) <=> (i + source.phase) % SquarePeriod(source) = source.low
<1> DEFINE p == SquarePeriod(source)
           a == i + source.phase
<1>1. /\ source.high \in Nat /\ source.low \in Nat /\ source.phase \in Int
      /\ source.kind = "adv_square"
  BY WordAssumption DEF SquareSources
<1>2. p \in Nat \ {0} /\ source.low \in 0..(p - 1) /\ a \in Int
  <2>1. p = source.high + source.low
    BY <1>1, WholePeriod
  <2> QED BY <1>1, <2>1
<1>3. (i - 1) + source.phase = a - 1
  BY <1>1
<1>4. AtPhaseZero(i) <=> a % p >= source.low /\ ~((a - 1) % p >= source.low)
  BY <1>1, <1>3 DEF AtPhaseZero, High
<1> HIDE DEF p, a
<1>5. a % p = IF (a - 1) % p = p - 1 THEN 0 ELSE ((a - 1) % p) + 1
  BY <1>2, RemainderBefore
<1>6. (a - 1) % p \in 0..(p - 1)
  <2>1. a - 1 \in Int
    BY <1>2
  <2> QED BY <1>2, <2>1, Division
<1>7. PICK x \in 0..(p - 1), y \in 0..(p - 1) :
        x = a % p /\ y = (a - 1) % p /\ x = IF y = p - 1 THEN 0 ELSE y + 1
  BY <1>2, <1>5, <1>6, Division
<1>8. (x >= source.low /\ ~(y >= source.low)) <=> x = source.low
  BY <1>1, <1>2, <1>7
<1> QED BY <1>4, <1>7, <1>8 DEF p, a

\* A placed source finds its next phase zero.
LEMMA NextPhaseZero == Placed => PhaseZeroIsFirst
<1> SUFFICES ASSUME Placed, source.kind # "constant", NEW i \in 0..MaxI,
                    source.kind = "adv_square" =>
                      source.high > 0 /\ source.low > 0 /\ source.high + source.low < Word,
                    source.kind = "arb" => LastOf(source.times) > 0
             PROVE  LET zero == PhaseZeroAfter(source, i)
                    IN  /\ zero >= i /\ AtPhaseZero(zero)
                        /\ \A j \in i..(zero - 1) : ~AtPhaseZero(j)
  BY DEF PhaseZeroIsFirst
<1>1. i \in Nat
  BY OutputAssumption
\* The samples from i on, counted from i.
<1>2. ASSUME NEW n \in Nat, PhaseZeroAfter(source, i) = i + n, AtPhaseZero(i + n),
             \A m \in 0..(n - 1) : ~AtPhaseZero(i + m)
      PROVE  LET zero == PhaseZeroAfter(source, i)
             IN  /\ zero >= i /\ AtPhaseZero(zero)
                 /\ \A j \in i..(zero - 1) : ~AtPhaseZero(j)
  <2>1. ASSUME NEW j \in i..((i + n) - 1) PROVE ~AtPhaseZero(j)
    <3>1. j - i \in 0..(n - 1) /\ i + (j - i) = j
      BY <1>1
    <3>2. ~AtPhaseZero(i + (j - i))
      BY <1>2, <3>1
    <3> QED BY <3>1, <3>2
  <2> QED BY <1>1, <1>2, <2>1
<1>3. CASE source.kind = "adv_square"
  <2> DEFINE p == SquarePeriod(source)
             a == i + source.phase
             n == (p + source.low - (a % p)) % p
  <2>1. source \in SquareSources
    BY <1>3, FieldsByKind DEF Placed
  <2>2. p \in Nat \ {0} /\ a \in Int /\ source.low \in 0..(p - 1) /\ source.phase \in Int
    <3>1. source.high \in Nat /\ source.low \in Nat /\ source.phase \in Int
      BY <2>1, WordAssumption DEF SquareSources
    <3>2. p = source.high + source.low
      BY <1>3, <3>1, WholePeriod
    <3> QED BY <1>1, <1>3, <3>1, <3>2
  <2>3. PhaseZeroAfter(source, i) = i + n
    BY <1>3 DEF PhaseZeroAfter
  <2> HIDE DEF p, a
  <2>4. n \in 0..(p - 1) /\ (a + n) % p = source.low /\ \A m \in 0..(n - 1) : (a + m) % p # source.low
    <3>1. StepsTo(p, a, source.low, n)
      BY DEF StepsTo
    <3> HIDE DEF n
    <3>2. FirstReached(p, a, source.low, n)
      BY <2>2, <3>1, NextWithRemainder
    <3> QED BY <3>2 DEF FirstReached
  <2> HIDE DEF n
  <2>5. ASSUME NEW m \in Int PROVE AtPhaseZero(i + m) <=> (a + m) % p = source.low
    <3>1. i + m \in Int /\ (i + m) + source.phase = a + m
      BY <1>1, <2>2 DEF a
    <3>2. source.high > 0 /\ source.low > 0 /\ source.high + source.low < Word
      BY <1>3
    <3>3. AtPhaseZero(i + m) <=> ((i + m) + source.phase) % SquarePeriod(source) = source.low
      BY <2>1, <3>1, <3>2, RiseOfSquare
    <3> QED BY <3>1, <3>3 DEF p
  <2>6. n \in Nat /\ n \in Int
    BY <2>2, <2>4
  <2>7. AtPhaseZero(i + n) /\ \A m \in 0..(n - 1) : ~AtPhaseZero(i + m)
    <3>1. AtPhaseZero(i + n)
      BY <2>4, <2>5, <2>6
    <3>2. ASSUME NEW m \in 0..(n - 1) PROVE ~AtPhaseZero(i + m)
      <4>1. m \in Int
        BY <2>6
      <4> QED BY <2>4, <2>5, <3>2, <4>1
    <3> QED BY <3>1, <3>2
  <2> QED BY <1>2, <2>3, <2>6, <2>7
<1>4. CASE source.kind = "arb"
  <2> DEFINE p == LastOf(source.times)
             a == i - source.phase
             n == (p - (a % p)) % p
  <2>1. source \in ArbSources
    BY <1>4, FieldsByKind DEF Placed
  <2>2. p \in Nat \ {0} /\ a \in Int /\ source.phase \in Int
    <3>1. source.times \in Seq(Int) /\ source.times # << >> /\ source.phase \in Int
      BY <1>4, <2>1 DEF Placed, Accepted, ArbAccepts, ArbSources
    <3>2. LastOf(source.times) \in Int
      BY <3>1 DEF LastOf
    <3> QED BY <1>1, <1>4, <3>1, <3>2
  <2>3. PhaseZeroAfter(source, i) = i + n
    BY <1>4, <2>2 DEF PhaseZeroAfter
  <2>4. PICK k \in Int : waveStart = source.phase + p * k
    BY <1>4 DEF Placed
  <2> HIDE DEF p, a
  <2>6. n \in 0..(p - 1) /\ (a + n) % p = 0 /\ \A m \in 0..(n - 1) : (a + m) % p # 0
    <3>1. 0 \in 0..(p - 1) /\ (p + 0 - (a % p)) = (p - (a % p))
      <4>1. a % p \in Int
        BY <2>2, Division
      <4> QED BY <2>2, <4>1
    <3>2. StepsTo(p, a, 0, n)
      BY <3>1 DEF StepsTo
    <3> HIDE DEF n
    <3>3. FirstReached(p, a, 0, n)
      BY <2>2, <3>1, <3>2, NextWithRemainder
    <3> QED BY <3>3 DEF FirstReached
  <2> HIDE DEF n
  <2>7. ASSUME NEW m \in Int PROVE AtPhaseZero(i + m) <=> (a + m) % p = 0
    <3>1. AtPhaseZero(i + m) <=> ((i + m) - waveStart) % p = 0
      BY <1>4 DEF AtPhaseZero, p
    <3>2. p * k \in Int /\ p * (-k) \in Int /\ p * (-k) = -(p * k) /\ a + m \in Int /\ -k \in Int
      BY <2>2
    <3>3. (i + m) - waveStart = (a + m) + p * (-k)
      BY <1>1, <2>2, <2>4, <3>2 DEF a
    <3>4. ((a + m) + p * (-k)) % p = (a + m) % p
      BY <2>2, <3>2, PeriodsMore
    <3> QED BY <3>1, <3>3, <3>4
  <2>8. n \in Nat /\ n \in Int
    BY <2>2, <2>6
  <2>9. AtPhaseZero(i + n) /\ \A m \in 0..(n - 1) : ~AtPhaseZero(i + m)
    BY <2>6, <2>7, <2>8
  <2> QED BY <1>2, <2>3, <2>8, <2>9
<1> QED BY <1>3, <1>4, FieldsByKind DEF Placed, Kinds

\* phase_zero_after answers the first sample, from the one asked about on, at
\* which the wave is at phase zero, for squares of any lengths and phase,
\* whatever they took over from, and arb waves of any length and start.
THEOREM PhaseZeroFirst == Spec => []PhaseZeroIsFirst
<1>1. Init => Placed
  BY DEF Init, Placed, ConstantSources, Accepted
<1> QED BY <1>1, InitInv, NextInv, PlacedNext, NextPhaseZero, PTL DEF Spec

-----------------------------------------------------------------------------
(* A square that follows a square.                                          *)

\* Rounding is off by no more than a half.
LEMMA RoundedNear ==
  ASSUME NEW p \in Nat \ {0}, NEW z \in Nat
  PROVE  /\ Rounded(z, p) \in Int
         /\ -p < 2 * (Rounded(z, p) * p - z) /\ 2 * (Rounded(z, p) * p - z) <= p
<1>1. 2 * z + p \in Int /\ 2 * p \in Nat \ {0}
  OBVIOUS
<1>2. PICK q \in Int, r \in 0..(2 * p - 1) : q = Rounded(z, p) /\ 2 * z + p = (2 * p) * q + r
  BY <1>1, Division DEF Rounded
<1>3. PICK m \in Int : m = q * p /\ (2 * p) * q = 2 * m
  BY <1>2
<1> QED BY <1>2, <1>3

\* The phase that initialize() sets puts the new square at the position of the
\* old one, scaled to its own period and rounded.
LEMMA TakesOver ==
  ASSUME NEW s \in SquareSources, Accepted(s), s.rel, s.phase = 0,
         NEW prev \in SquareSources, Accepted(prev), NEW i \in Nat,
         NEW t \in SquareSources, SquarePeriod(t) = SquarePeriod(s), t.phase = SquarePhase(s, prev, i)
  PROVE  Position(t, i)
           = Rounded(Position(prev, i) * SquarePeriod(s), SquarePeriod(prev)) % SquarePeriod(s)
<1> DEFINE p == SquarePeriod(s)
           z == Position(prev, i) * p
           R == Rounded(z, SquarePeriod(prev))
<1>1. p \in Nat \ {0} /\ SquarePeriod(prev) \in Nat \ {0} /\ prev.phase \in Int
  BY PeriodPositive DEF SquareSources
<1>2. Position(prev, i) \in Nat
  <2>1. i + prev.phase \in Int
    BY <1>1
  <2>2. (i + prev.phase) % SquarePeriod(prev) \in 0..(SquarePeriod(prev) - 1)
    BY <1>1, <2>1, Division
  <2>3. 0..(SquarePeriod(prev) - 1) \subseteq Nat
    BY <1>1
  <2> QED BY <2>2, <2>3 DEF Position
<1>3. R \in Int
  <2>1. z \in Nat
    BY <1>1, <1>2
  <2> HIDE DEF z
  <2> QED BY <1>1, <2>1, RoundedNear
<1>4. prev.kind = "adv_square"
  BY DEF SquareSources
<1>5. t.phase = (0 + (R - (i % p))) % p
  BY <1>4 DEF SquarePhase, Position
<1> HIDE DEF z, R, p
<1>6. PICK a \in Int, b \in 0..(p - 1) : b = i % p /\ i = p * a + b
  <2>1. i \in Int /\ i \div p \in Int /\ i % p \in 0..(p - 1) /\ i = p * (i \div p) + (i % p)
    BY <1>1, Division
  <2> QED BY <2>1
<1>7. PICK k \in Int, ph \in 0..(p - 1) : ph = t.phase /\ R - b = p * k + ph
  <2>1. 0 + (R - b) \in Int /\ 0 + (R - b) = R - b
    BY <1>3, <1>6
  <2>2. t.phase = (R - b) % p
    BY <1>5, <1>6, <2>1
  <2>3. /\ (R - b) \div p \in Int /\ (R - b) % p \in 0..(p - 1)
        /\ R - b = p * ((R - b) \div p) + ((R - b) % p)
    BY <1>1, <2>1, Division
  <2> QED BY <2>2, <2>3
<1>8. i + ph = R + p * (a - k)
  <2>1. PICK x \in Int, y \in Int : x = p * a /\ y = p * k /\ p * (a - k) = x - y
    BY <1>1, <1>6, <1>7
  <2> QED BY <1>3, <1>6, <1>7, <2>1
<1>9. (R + p * (a - k)) % p = R % p
  <2>1. a - k \in Int
    BY <1>6, <1>7
  <2> QED BY <1>1, <1>3, <2>1, PeriodsMore
<1>10. Position(t, i) = (i + ph) % p
  BY <1>7 DEF Position, p
<1> QED BY <1>8, <1>9, <1>10 DEF R, z, p

\* A position rounded to the new period is, on the circle of both periods, off
\* by no more than half a sample of it.
LEMMA RoundedIsSameFraction ==
  ASSUME NEW p \in Nat \ {0}, NEW q \in Nat \ {0}, NEW x \in 0..(p - 1)
  PROVE  LET y    == Rounded(x * q, p) % q
             turn == p * q
             d    == (y * p - x * q) % turn
         IN  2 * d <= p \/ 2 * (turn - d) <= p
<1>1. PICK z \in Nat, turn \in Nat \ {0} : z = x * q /\ turn = p * q /\ z <= turn - q /\ p <= turn
  <2>1. PICK j \in Nat : p = x + 1 + j
    <3>1. p - x - 1 \in Nat /\ p = x + 1 + (p - x - 1)
      OBVIOUS
    <3> QED BY <3>1
  <2>2. x * q \in Nat /\ j * q \in Nat /\ p * q = x * q + q + j * q
    BY <2>1
  <2>3. PICK l \in Nat : q = l + 1
    <3>1. q - 1 \in Nat /\ q = (q - 1) + 1
      OBVIOUS
    <3> QED BY <3>1
  <2>4. p * l \in Nat /\ p * q = p * l + p
    BY <2>3
  <2> QED BY <2>2, <2>4
<1>2. PICK R \in Int, m \in Int : /\ R = Rounded(z, p) /\ m = R * p
                                  /\ -p < 2 * (m - z) /\ 2 * (m - z) <= p
  BY RoundedNear
<1>3. R \in 0..q
  <2>1. ASSUME R < 0 PROVE FALSE
    <3>1. R * p <= -p
      <4>1. PICK j \in Nat : R = -1 - j
        <5>1. -1 - R \in Nat /\ R = -1 - (-1 - R)
          BY <2>1
        <5> QED BY <5>1
      <4>2. j * p \in Nat /\ R * p = -p - j * p
        BY <4>1
      <4> QED BY <4>2
    <3> QED BY <1>2, <3>1
  <2>2. ASSUME R > q PROVE FALSE
    <3>1. R * p >= turn + p
      <4>1. PICK j \in Nat : R = q + 1 + j
        <5>1. R - q - 1 \in Nat /\ R = q + 1 + (R - q - 1)
          BY <2>2
        <5> QED BY <5>1
      <4>2. j * p \in Nat /\ q * p = p * q /\ R * p = q * p + p + j * p
        BY <4>1
      <4> QED BY <1>1, <4>2
    <3> QED BY <1>1, <1>2, <3>1
  <2> QED BY <2>1, <2>2
<1> DEFINE e == m - z
           y == R % q
<1>4. e \in Int /\ -p < 2 * e /\ 2 * e <= p
  BY <1>2
<1>5. y * p - z = e \/ y * p - z = e - turn
  <2>1. CASE R < q
    <3>1. R = q * 0 + R /\ R \in 0..(q - 1)
      BY <1>3, <2>1
    <3>2. y = R
      BY <3>1, RemainderOf
    <3> QED BY <1>2, <3>2
  <2>2. CASE R = q
    <3>1. R = q * 1 + 0 /\ 0 \in 0..(q - 1)
      BY <2>2
    <3>2. y = 0
      BY <3>1, RemainderOf
    <3>3. m = turn
      BY <1>1, <1>2, <2>2
    <3>4. 0 * p = 0
      OBVIOUS
    <3> QED BY <1>2, <3>2, <3>3, <3>4
  <2> QED BY <1>3, <2>1, <2>2
<1> HIDE DEF e, y
<1>6. (y * p - z) % turn = e % turn
  <2>1. CASE y * p - z = e
    BY <2>1
  <2>2. CASE y * p - z = e - turn
    <3>1. e - turn = e + turn * (-1)
      BY <1>4
    <3>2. (e + turn * (-1)) % turn = e % turn
      <4>1. -1 \in Int
        OBVIOUS
      <4> QED BY <1>1, <1>4, <4>1, PeriodsMore
    <3> QED BY <2>2, <3>1, <3>2
  <2> QED BY <1>5, <2>1, <2>2
<1>7. LET d == e % turn IN 2 * d <= p \/ 2 * (turn - d) <= p
  <2>1. CASE e >= 0
    <3>1. e = turn * 0 + e /\ e \in 0..(turn - 1)
      BY <1>1, <1>4, <2>1
    <3>2. e % turn = e
      BY <1>4, <3>1, RemainderOf
    <3> QED BY <1>4, <3>2
  <2>2. CASE e < 0
    <3>1. e = turn * (-1) + (e + turn) /\ e + turn \in 0..(turn - 1)
      BY <1>1, <1>4, <2>2
    <3>2. e % turn = e + turn
      BY <1>4, <3>1, RemainderOf
    <3> QED BY <1>4, <3>2
  <2> QED BY <1>4, <2>1, <2>2
<1> QED BY <1>1, <1>2, <1>6, <1>7 DEF y

\* A square that takes over from a square goes on at the same fraction of its
\* period, to the nearest sample, whatever the two periods (initialize).
THEOREM PhasesContinue == Spec => PhaseContinues
<1> DEFINE Continues ==
      \A s \in Sources :
         /\ source.kind = "adv_square" /\ s.kind = "adv_square" /\ s.rel /\ s.phase = 0
         /\ SetOutput(s)
         => SameFraction(source, source', captureO)
<1>1. Inv /\ Placed => Continues
  <2> SUFFICES ASSUME Inv, Placed, NEW s \in Sources,
                      source.kind = "adv_square", s.kind = "adv_square", s.rel, s.phase = 0,
                      SetOutput(s)
               PROVE  SameFraction(source, source', captureO)
    OBVIOUS
  <2>1. s \in SquareSources /\ source \in SquareSources /\ Accepted(s) /\ Accepted(source)
    BY SourcesAssumption, FieldsByKind DEF Placed, SetOutput
  <2>2. captureO \in Nat
    BY DEF Inv, Counters
  <2>3. source' = [s EXCEPT !.phase = SquarePhase(s, source, captureO)]
    BY DEF SetOutput, Initialized
  <2>4. SquarePhase(s, source, captureO) \in Int
    BY <2>1, <2>2, SquarePhaseType DEF Placed
  <2>5. /\ source' \in SquareSources /\ source'.phase = SquarePhase(s, source, captureO)
        /\ source'.high = s.high /\ source'.low = s.low
    BY <2>1, <2>3, <2>4 DEF SquareSources
  <2>6. SquarePeriod(source') = SquarePeriod(s)
    BY <2>5 DEF SquarePeriod
  <2> DEFINE p == SquarePeriod(source)
             q == SquarePeriod(s)
             x == Position(source, captureO)
  <2>7. p \in Nat \ {0} /\ q \in Nat \ {0}
    BY <2>1, PeriodPositive
  <2>8. x \in 0..(p - 1)
    <3>1. captureO + source.phase \in Int
      BY <2>1, <2>2 DEF SquareSources
    <3> QED BY <2>7, <3>1, Division DEF Position
  <2>9. Position(source', captureO) = Rounded(x * q, p) % q
    BY <2>1, <2>2, <2>5, <2>6, TakesOver
  <2> HIDE DEF p, q, x
  <2>10. LET y    == Rounded(x * q, p) % q
             turn == p * q
             d    == (y * p - x * q) % turn
         IN  2 * d <= p \/ 2 * (turn - d) <= p
    BY <2>7, <2>8, RoundedIsSameFraction
  <2> QED BY <2>6, <2>9, <2>10 DEF SameFraction, p, q, x
<1>2. Inv /\ Placed => [Continues]_vars
  BY <1>1
<1>3. Init => Placed
  BY DEF Init, Placed, ConstantSources, Accepted
<1> QED BY <1>2, <1>3, InitInv, NextInv, PlacedNext, PTL DEF Spec, PhaseContinues

-----------------------------------------------------------------------------
(* The points of a wave.                                                    *)

\* A non-empty set of natural numbers has a least one.
LEMMA LeastNumber ==
  ASSUME NEW T \in SUBSET Nat, T # {}
  PROVE  \E x \in T : \A y \in T : x <= y
<1> DEFINE less == OpToRel(<, Nat)
<1>1. PICK x \in T : \A y \in T : ~(<<y, x>> \in less)
  <2> HIDE DEF less
  <2>1. IsWellFoundedOn(less, Nat)
    BY NatLessThanWellFounded DEF less
  <2> QED BY <2>1, WFMin
<1>2. ASSUME NEW y \in T PROVE x <= y
  <2>1. ~(y < x)
    BY <1>1 DEF OpToRel
  <2> QED BY <2>1
<1> QED BY <1>2

\* Points that are in order from each to the next are in order.
LEMMA PointsSorted ==
  ASSUME NEW times \in Seq(Int),
         \A k \in 1..(Len(times) - 1) : times[k] <= times[k + 1],
         NEW k \in 1..Len(times), NEW l \in k..Len(times)
  PROVE  times[k] <= times[l]
<1> SUFFICES ASSUME ~(times[k] <= times[l]) PROVE FALSE
  OBVIOUS
<1> DEFINE T == {x \in Nat : x \in k..Len(times) /\ ~(times[k] <= times[x])}
<1>1. T \in SUBSET Nat /\ T # {}
  BY l \in T
<1> HIDE DEF T
<1>2. PICK x \in T : \A y \in T : x <= y
  BY <1>1, LeastNumber
<1>3. x \in k..Len(times) /\ ~(times[k] <= times[x]) /\ x \in Nat
  BY <1>2 DEF T
<1>4. times[k] \in Int
  OBVIOUS
<1>5. x # k
  BY <1>3, <1>4
<1>6. x - 1 \in k..Len(times) /\ x - 1 \in 1..(Len(times) - 1) /\ (x - 1) + 1 = x /\ ~(x <= x - 1)
      /\ x - 1 \in Nat /\ x - 1 \in 1..Len(times) /\ x \in 1..Len(times)
  BY <1>3, <1>5
<1>7. times[x - 1] <= times[x]
  BY <1>6
<1>8. times[x - 1] \in Int /\ times[x] \in Int
  BY <1>6
<1>9. ~(times[k] <= times[x - 1])
  BY <1>3, <1>4, <1>7, <1>8
<1>10. x - 1 \in T
  BY <1>6, <1>9 DEF T
<1> QED BY <1>2, <1>6, <1>10

\* The points of a valid wave: the first is at 0, none is before it, none after
\* the last.
LEMMA Points ==
  ASSUME NEW s \in ArbSources, ArbAccepts(s)
  PROVE  /\ s.times \in Seq(Int) /\ Len(s.times) \in Nat \ {0} /\ s.times[1] = 0
         /\ \A k \in 1..Len(s.times) : s.times[k] \in Nat /\ s.times[k] <= LastOf(s.times)
         /\ LastOf(s.times) = s.times[Len(s.times)] /\ LastOf(s.times) \in Nat
<1>1. s.times \in Seq(Int) /\ s.times # << >> /\ s.times[1] = 0
  BY DEF ArbSources, ArbAccepts
<1>2. Len(s.times) \in Nat \ {0}
  BY <1>1
<1>3. \A k \in 1..(Len(s.times) - 1) : s.times[k] <= s.times[k + 1]
  BY DEF ArbAccepts
<1>4. LastOf(s.times) = s.times[Len(s.times)]
  BY DEF LastOf
<1>5. ASSUME NEW k \in 1..Len(s.times)
      PROVE  s.times[k] \in Nat /\ s.times[k] <= LastOf(s.times)
  <2>1. 1 \in 1..Len(s.times) /\ k \in 1..Len(s.times) /\ Len(s.times) \in k..Len(s.times)
    BY <1>2
  <2>2. s.times[1] <= s.times[k]
    BY <1>1, <1>3, <2>1, PointsSorted
  <2>3. s.times[k] <= s.times[Len(s.times)]
    BY <1>1, <1>3, <2>1, PointsSorted
  <2>4. s.times[k] \in Int
    BY <1>1
  <2> QED BY <1>1, <1>4, <2>2, <2>3, <2>4
<1>6. LastOf(s.times) \in Nat
  BY <1>2, <1>4, <1>5
<1> QED BY <1>1, <1>2, <1>4, <1>5, <1>6

\* A wave that repeats has a length.
LEMMA RepeatsHaveLength ==
  ASSUME NEW s \in ArbSources, ArbAccepts(s), Passes(s) # 1
  PROVE  LastOf(s.times) \in Nat \ {0}
BY Points DEF ArbAccepts, Passes

\* No wave starts before the first sample.
LEMMA ArbStartType ==
  ASSUME NEW s \in ArbSources, ArbAccepts(s), NEW i \in Nat
  PROVE  ArbStart(s, i) \in Nat
<1>1. s.phase \in Int
  BY DEF ArbSources
<1>2. CASE s.phase < 0 \/ Passes(s) = 1
  BY <1>1, <1>2 DEF ArbStart
<1>3. CASE ~(s.phase < 0 \/ Passes(s) = 1)
  <2> DEFINE p == LastOf(s.times)
  <2>1. p \in Nat \ {0}
    BY <1>3, RepeatsHaveLength
  <2> HIDE DEF p
  <2>2. PICK r \in Nat : r = i % p /\ r <= i
    <3>1. i \in Int
      OBVIOUS
    <3>2. i \div p \in Int /\ i % p \in 0..(p - 1) /\ i = p * (i \div p) + (i % p)
      BY <2>1, <3>1, Division
    <3>3. i \div p >= 0
      BY <2>1
    <3>4. p * (i \div p) >= 0
      BY <2>1, <3>2, <3>3
    <3> QED BY <2>1, <3>2, <3>4
  <2>3. s.phase % p \in Nat
    <3>1. s.phase % p \in 0..(p - 1)
      BY <1>1, <2>1, Division
    <3> QED BY <2>1, <3>1
  <2>4. ArbStart(s, i) = (i - r) + (s.phase % p)
    BY <1>3, <2>2 DEF ArbStart, p
  <2> QED BY <2>2, <2>3, <2>4
<1> QED BY <1>2, <1>3

-----------------------------------------------------------------------------
(* The walker.                                                              *)

\* Where sample i is in a pass that starts at st.
RelTo(st, i) == IF i < st THEN 0 ELSE i - st

\* Of wave s, placed at w, c passes are over: the next starts at st, and rp is
\* what is left of the count.
PassOf(c, s, w, st, rp) ==
  /\ st = w + c * LastOf(s.times)
  /\ c > 0 => LastOf(s.times) > 0
  /\ rp = IF Passes(s) > 0 THEN Passes(s) - c ELSE Passes(s)
  /\ Passes(s) > 0 => c < Passes(s)
  /\ Passes(s) < -1 => c = 0

\* The sample asked about last, la, is at or behind the walker's point and
\* pass: nothing else has moved it there.
ReachedBy(la, s, w, st, ix) ==
  IF la = None THEN ix = 1 /\ st = w
  ELSE s.times[ix] <= RelTo(st, la) /\ (st = w \/ st <= la)

\* An arbitrary wave in get_value.
Walker ==
  /\ Busy => source.kind = "arb"
  /\ rel # None => Busy /\ lastAsked = o /\ rel = RelTo(startTime, o)
  /\ source.kind = "arb" =>
       /\ \E c \in Nat : PassOf(c, source, waveStart, startTime, repeat)
       /\ AtEnd /\ WillRepeat => rel # None /\ rel >= LastOf(source.times)
       /\ ~rewound => ReachedBy(lastAsked, source, waveStart, startTime, index)

\* A placed arb wave, and the bounds of its points.
LEMMA PlacedWave ==
  ASSUME Placed, source.kind = "arb"
  PROVE  /\ source \in ArbSources /\ ArbAccepts(source)
         /\ Len(source.times) \in Nat \ {0} /\ source.times[1] = 0
         /\ \A k \in 1..Len(source.times) :
              source.times[k] \in Nat /\ source.times[k] <= LastOf(source.times)
         /\ LastOf(source.times) = source.times[Len(source.times)] /\ LastOf(source.times) \in Nat
<1>1. source \in ArbSources /\ ArbAccepts(source)
  BY FieldsByKind DEF Placed, Accepted
<1> QED BY <1>1, Points

\* The next pass of a wave that has one.
LEMMA NextPass ==
  ASSUME NEW c \in Nat, NEW s \in ArbSources, ArbAccepts(s), NEW w \in Int, NEW st \in Int,
         NEW rp \in Int, PassOf(c, s, w, st, rp), rp > 1 \/ rp = -1
  PROVE  /\ LastOf(s.times) \in Nat \ {0}
         /\ PassOf(c + 1, s, w, st + LastOf(s.times), IF rp > 0 THEN rp - 1 ELSE rp)
<1> DEFINE p == LastOf(s.times)
           n == Passes(s)
<1>1. n \in Int
  BY DEF ArbSources, Passes
<1>2. /\ rp = IF n > 0 THEN n - c ELSE n
      /\ n > 0 => c < n
      /\ n < -1 => c = 0
      /\ st = w + c * p
  BY DEF PassOf
<1>3. n # 1
  BY <1>1, <1>2
<1>4. p \in Nat \ {0}
  BY <1>3, RepeatsHaveLength
<1> HIDE DEF p, n
<1>5. st + p = w + (c + 1) * p
  <2>1. (c + 1) * p = c * p + p /\ c * p \in Int
    BY <1>4
  <2> QED BY <1>2, <1>4, <2>1
<1>6. /\ (IF rp > 0 THEN rp - 1 ELSE rp) = IF n > 0 THEN n - (c + 1) ELSE n
      /\ n > 0 => c + 1 < n
      /\ n < -1 => c + 1 = 0
  BY <1>1, <1>2
<1> QED BY <1>4, <1>5, <1>6 DEF PassOf, p, n

\* Nothing but the channel and its encoder touches the walker.
LEMMA WalkerKept ==
  ASSUME Walker,
         UNCHANGED <<left, source, rel, lastAsked, o, startTime, waveStart, repeat, index, rewound>>
  PROVE  Walker'
BY DEF Walker, Busy, AtEnd, WillRepeat, RelTo, PassOf, ReachedBy

\* A wave that is set starts its first pass.
LEMMA SetOutputWalker ==
  ASSUME Inv, Placed, Walker, NEW s \in Sources, SetOutput(s)
  PROVE  Walker'
<1>1. /\ left' = left /\ rel' = rel /\ ~Busy /\ rel = None
      /\ source' = Initialized(s, source, captureO) /\ Accepted(s)
      /\ index' = 1 /\ lastAsked' = None /\ waveStart' = startTime'
      /\ s.kind = "arb" => repeat' = Passes(s) /\ startTime' = ArbStart(s, captureO)
  BY DEF SetOutput, Walker, fillVars
<1>2. CASE s.kind # "arb"
  <2>1. source'.kind # "arb"
    <3>1. s.kind = "constant" => source' = s
      BY <1>1 DEF Initialized
    <3>2. s.kind = "adv_square" => source' = [s EXCEPT !.phase = SquarePhase(s, source, captureO)]
      BY <1>1 DEF Initialized
    <3> QED BY <1>2, <3>1, <3>2, SourcesAssumption, FieldsByKind DEF Kinds, SquareSources
  <2> QED BY <1>1, <2>1 DEF Walker, Busy
<1>3. CASE s.kind = "arb"
  <2>1. s \in ArbSources /\ ArbAccepts(s) /\ captureO \in Nat
    BY <1>1, <1>3, SourcesAssumption, FieldsByKind DEF Accepted, Inv, Counters
  <2>2. source' = [s EXCEPT !.phase = IF s.phase < 0 THEN captureO ELSE s.phase]
    BY <1>1, <1>3 DEF Initialized
  <2>3. source'.times = s.times /\ source'.repeat = s.repeat /\ source'.kind = "arb"
    <3> DEFINE ph == IF s.phase < 0 THEN captureO ELSE s.phase
    <3>1. source' = [s EXCEPT !.phase = ph]
      BY <2>2
    <3>2. s \in [kind : {"arb"}, times : Seq(Int), repeat : Int, phase : Int]
      BY <2>1 DEF ArbSources
    <3> HIDE DEF ph
    <3> QED BY ONLY <3>1, <3>2
  <2>4. /\ ArbStart(s, captureO) \in Nat /\ Passes(s) \in Int /\ LastOf(s.times) \in Nat
        /\ Passes(s) # 0
    <3>1. ArbStart(s, captureO) \in Nat
      BY <2>1, ArbStartType
    <3>2. LastOf(s.times) \in Nat
      BY <2>1, Points
    <3>3. Passes(s) \in Int /\ Passes(s) # 0
      BY <2>1 DEF Passes, ArbSources
    <3> QED BY <3>1, <3>2, <3>3
  <2>5. PassOf(0, source', waveStart', startTime', repeat')
    <3>1. Passes(source') = Passes(s) /\ LastOf(source'.times) = LastOf(s.times)
      BY <2>3 DEF Passes
    <3>2. /\ ArbStart(s, captureO) = ArbStart(s, captureO) + 0 * LastOf(s.times)
          /\ Passes(s) - 0 = Passes(s)
      BY <2>4
    <3> QED BY <1>1, <1>3, <2>4, <3>1, <3>2 DEF PassOf
  <2>6. ~(AtEnd' /\ WillRepeat')
    <3> SUFFICES ASSUME AtEnd', WillRepeat' PROVE FALSE
      OBVIOUS
    <3>1. Len(s.times) = 1
      BY <1>1, <2>3 DEF AtEnd
    <3>2. LastOf(s.times) = 0
      BY <2>1, <3>1, Points
    <3>3. Passes(s) # 1
      BY <1>1, <1>3 DEF WillRepeat
    <3> QED BY <2>1, <3>2, <3>3, RepeatsHaveLength
  <2>7. ReachedBy(lastAsked', source', waveStart', startTime', index')
    BY <1>1 DEF ReachedBy
  <2> QED BY <1>1, <2>3, <2>5, <2>6, <2>7 DEF Walker, Busy
<1> QED BY <1>2, <1>3

\* A transfer that is begun asks nothing yet.
LEMMA FillWalker ==
  ASSUME Walker, NEW who, FillPlain(who) \/ FillArb(who)
  PROVE  Walker'
<1>1. /\ ~Busy /\ rel = None
      /\ UNCHANGED <<source, waveStart, startTime, index, repeat, lastAsked, rewound, rel>>
  BY DEF FillPlain, FillArb, Fills, srcVars, walkVars, askVars, fillVars, Walker
<1>2. CASE FillPlain(who)
  <2>1. UNCHANGED <<left, o>>
    BY <1>2 DEF FillPlain, fillVars
  <2> QED BY <1>1, <2>1, WalkerKept
<1>3. CASE FillArb(who)
  <2>1. source.kind = "arb"
    BY <1>3 DEF FillArb
  <2>2. AtEnd' = AtEnd /\ WillRepeat' = WillRepeat
    BY <1>1 DEF AtEnd, WillRepeat
  <2> QED BY <1>1, <2>1, <2>2 DEF Walker
<1> QED BY <1>2, <1>3

\* What get_value is asked for is at or behind the point the walker is at, if
\* it is not before what was asked for last.
LEMMA AskWalker ==
  ASSUME TypeOK, Placed, Walker, Ask
  PROVE  Walker'
<1>1. /\ Busy /\ rel = None /\ rel' = RelTo(startTime, o) /\ lastAsked' = o
      /\ rewound' = (rewound \/ (lastAsked # None /\ o < lastAsked))
      /\ UNCHANGED <<left, source, o, startTime, waveStart, repeat, index>>
  BY DEF Ask, Relative, RelTo, srcVars, walkVars
<1>2. /\ o \in Nat /\ startTime \in Nat /\ lastAsked \in Nat \cup {None} /\ o # None
      /\ source.kind = "arb"
  BY <1>1, OutputAssumption DEF TypeOK, Walker
<1>3. /\ source.times[1] = 0 /\ source.times[index] \in Nat
  <2>1. index \in 1..Len(source.times)
    BY <1>2 DEF TypeOK
  <2> QED BY <1>2, <2>1, PlacedWave
<1>4. ~(AtEnd /\ WillRepeat)
  BY <1>1, <1>2 DEF Walker
<1>5. ASSUME ~rewound' PROVE ReachedBy(o, source, waveStart, startTime, index)
  <2>1. ReachedBy(lastAsked, source, waveStart, startTime, index)
    BY <1>1, <1>2, <1>5 DEF Walker
  <2>2. CASE lastAsked = None
    BY <1>2, <1>3, <2>1, <2>2 DEF ReachedBy, RelTo
  <2>3. CASE lastAsked # None
    <3>1. lastAsked \in Nat /\ lastAsked <= o
      <4>1. ~(o < lastAsked)
        BY <1>1, <1>5, <2>3
      <4> QED BY <1>2, <2>3, <4>1
    <3>2. /\ source.times[index] <= RelTo(startTime, lastAsked)
          /\ startTime = waveStart \/ startTime <= lastAsked
      BY <2>1, <2>3 DEF ReachedBy
    <3>3. source.times[index] <= RelTo(startTime, o)
      <4>1. RelTo(startTime, lastAsked) <= RelTo(startTime, o)
        BY <1>2, <3>1 DEF RelTo
      <4>2. RelTo(startTime, lastAsked) \in Int /\ RelTo(startTime, o) \in Int
        BY <1>2, <3>1 DEF RelTo
      <4> QED BY <1>3, <3>2, <4>1, <4>2
    <3> QED BY <1>2, <3>1, <3>2, <3>3 DEF ReachedBy
  <2> QED BY <2>2, <2>3
<1>6. AtEnd' = AtEnd /\ WillRepeat' = WillRepeat /\ Busy'
  BY <1>1 DEF AtEnd, WillRepeat, Busy
<1> QED BY <1>1, <1>2, <1>4, <1>5, <1>6 DEF Walker

\* A point that is passed is behind what was asked for.
LEMMA ForwardWalker ==
  ASSUME TypeOK, Placed, Walker, WalkForward
  PROVE  Walker'
<1>1. /\ Busy /\ rel # None /\ ~AtEnd /\ rel >= source.times[index + 1] /\ index' = index + 1
      /\ UNCHANGED <<left, source, rel, lastAsked, o, startTime, waveStart, repeat, rewound>>
  BY DEF WalkForward, srcVars, fillVars, askVars
<1>2. /\ source.kind = "arb" /\ lastAsked = o /\ rel = RelTo(startTime, o) /\ o # None /\ rel \in Nat
      /\ index \in 1..Len(source.times)
  BY <1>1, OutputAssumption DEF TypeOK, Walker
<1>3. /\ index + 1 \in 1..Len(source.times) /\ source.times[index + 1] \in Nat
      /\ LastOf(source.times) = source.times[Len(source.times)]
  <2>1. Len(source.times) \in Nat /\ index # Len(source.times)
    BY <1>1, <1>2, PlacedWave DEF AtEnd
  <2>2. index + 1 \in 1..Len(source.times)
    BY <1>2, <2>1
  <2> QED BY <1>2, <2>2, PlacedWave
<1>4. AtEnd' => rel >= LastOf(source.times)
  BY <1>1, <1>3 DEF AtEnd
<1>5. ASSUME ~rewound PROVE ReachedBy(o, source, waveStart, startTime, index + 1)
  <2>1. ReachedBy(o, source, waveStart, startTime, index)
    BY <1>2, <1>5 DEF Walker
  <2> QED BY <1>1, <1>2, <1>3, <2>1 DEF ReachedBy
<1>6. Busy' /\ \E c \in Nat : PassOf(c, source', waveStart', startTime', repeat')
  BY <1>1, <1>2 DEF Walker, Busy
<1> QED BY <1>1, <1>2, <1>4, <1>5, <1>6 DEF Walker

\* A pass that is over is behind what was asked for.
LEMMA WrapWalker ==
  ASSUME TypeOK, Placed, Walker, WalkWrap
  PROVE  Walker'
<1> DEFINE p == LastOf(source.times)
<1>1. /\ Busy /\ rel # None /\ AtEnd /\ WillRepeat
      /\ repeat' = (IF repeat > 0 THEN repeat - 1 ELSE repeat) /\ index' = 1
      /\ startTime' = startTime + source.times[index] /\ rel' = rel - source.times[index]
      /\ UNCHANGED <<left, source, lastAsked, o, waveStart, rewound>>
  BY DEF WalkWrap, srcVars, askVars
<1>2. /\ source.kind = "arb" /\ lastAsked = o /\ rel = RelTo(startTime, o) /\ o # None
      /\ o \in Nat /\ rel \in Nat /\ startTime \in Nat /\ waveStart \in Nat /\ repeat \in Int
      /\ rel >= p
  BY <1>1, OutputAssumption DEF TypeOK, Walker
<1>3. /\ source \in ArbSources /\ ArbAccepts(source)
      /\ source.times[index] = p /\ source.times[1] = 0 /\ p \in Nat
  BY <1>1, <1>2, PlacedWave DEF AtEnd
<1>4. PICK c \in Nat : PassOf(c, source, waveStart, startTime, repeat)
  BY <1>2 DEF Walker
<1>5. p \in Nat \ {0} /\ PassOf(c + 1, source, waveStart, startTime + p, IF repeat > 0 THEN repeat - 1 ELSE repeat)
  <2>1. repeat > 1 \/ repeat = -1
    BY <1>1 DEF WillRepeat
  <2>2. waveStart \in Int /\ startTime \in Int
    BY <1>2
  <2> QED BY <1>2, <1>3, <1>4, <2>1, <2>2, NextPass
<1> HIDE DEF p
<1>6. /\ rel - p = RelTo(startTime + p, o) /\ startTime + p <= o /\ rel - p \in Nat
  BY <1>2, <1>5 DEF RelTo
<1>7. ReachedBy(o, source, waveStart, startTime + p, 1)
  BY <1>2, <1>3, <1>6 DEF ReachedBy
<1>8. ~AtEnd'
  <2>1. Len(source.times) # 1
    BY <1>2, <1>3, <1>5, PlacedWave DEF p
  <2> QED BY <1>1, <2>1 DEF AtEnd
<1>9. startTime' = startTime + p /\ rel' = rel - p
  BY <1>1, <1>3
<1>10. \E d \in Nat : PassOf(d, source', waveStart', startTime', repeat')
  <2>1. c + 1 \in Nat
    BY <1>4
  <2> QED BY <1>1, <1>5, <1>9, <2>1
<1>11. Busy' /\ source'.kind = "arb" /\ rel' = RelTo(startTime', o') /\ lastAsked' = o'
  BY <1>1, <1>2, <1>6, <1>9 DEF Busy
<1>12. ReachedBy(lastAsked', source', waveStart', startTime', index')
  BY <1>1, <1>2, <1>7, <1>9
<1> QED BY <1>8, <1>10, <1>11, <1>12 DEF Walker

\* A walker that returns has no pass to begin.
LEMMA ReturnWalker ==
  ASSUME TypeOK, Walker, WalkReturn
  PROVE  Walker'
<1>1. /\ Busy /\ rel' = None /\ (AtEnd => ~WillRepeat)
      /\ UNCHANGED <<source, lastAsked, startTime, waveStart, repeat, index, rewound>>
  BY DEF WalkReturn, srcVars, walkVars
<1>2. AtEnd' = AtEnd /\ WillRepeat' = WillRepeat /\ source.kind = "arb"
  BY <1>1 DEF AtEnd, WillRepeat, Walker
<1> QED BY <1>1, <1>2 DEF Walker

-----------------------------------------------------------------------------
(* Types, in four parts.                                                    *)

DeviceTypes ==
  /\ captureI \in 0..MaxI /\ captureO \in Nat
  /\ capturing \in BOOLEAN /\ done \in BOOLEAN /\ piped \in BOOLEAN
  /\ heldIn \in 0..MaxHeld /\ heldOut \in 0..MaxHeld

SourceTypes ==
  /\ source.kind \in Kinds /\ startSample \in Nat /\ waveStart \in Nat /\ effective \in BOOLEAN
  /\ startTime \in Nat /\ repeat \in Int
  /\ index \in 1..(IF source.kind = "arb" THEN Len(source.times) ELSE 1)

FillTypes ==
  /\ left \in 0..Packet /\ filler \in {"live", "late", None} /\ o \in Nat
  /\ rel \in Nat \cup {None}
  /\ lastAsked \in Nat \cup {None} /\ rewound \in BOOLEAN
  /\ answer = None \/ (answer.at \in Nat /\ answer.value \in Values)

TrueTypes ==
  /\ sent \in Nat /\ returned \in 0..sent /\ firstSent \in Nat \cup {None} /\ skewed \in BOOLEAN

\* The four parts are all.
LEMMA TypeParts == TypeOK <=> DeviceTypes /\ SourceTypes /\ FillTypes /\ TrueTypes
BY DEF TypeOK, DeviceTypes, SourceTypes, FillTypes, TrueTypes

\* A part stays as it is where its variables do.
LEMMA PartsKept ==
  /\ DeviceTypes /\ UNCHANGED <<devVars, captureO, heldVars>> => DeviceTypes'
  /\ SourceTypes /\ UNCHANGED <<srcVars, walkVars>> => SourceTypes'
  /\ FillTypes /\ UNCHANGED <<left, filler, o, rel, askVars>> => FillTypes'
  /\ TrueTypes /\ UNCHANGED trueVars => TrueTypes'
BY DEF devVars, heldVars, srcVars, walkVars, askVars, trueVars, DeviceTypes, SourceTypes, FillTypes,
       TrueTypes

\* A source that is set is well formed, and so is what get_value keeps of it.
LEMMA SetOutputTypes ==
  ASSUME TypeOK, Inv, Placed, NEW s \in Sources, SetOutput(s)
  PROVE  TypeOK'
<1>1. DeviceTypes /\ SourceTypes /\ FillTypes /\ TrueTypes
  BY TypeParts
<1>2. DeviceTypes'
  BY <1>1, PartsKept DEF SetOutput
<1>3. FillTypes'
  BY <1>1 DEF SetOutput, FillTypes, fillVars
<1>4. TrueTypes'
  BY <1>1 DEF SetOutput, TrueTypes
<1>5. Placed'
  BY SetOutputPlaced
<1>6. source'.kind \in Kinds
  BY <1>5, FieldsByKind DEF Placed
<1>7. captureO + 1 \in Nat
  BY <1>1 DEF DeviceTypes
<1>8. startSample' \in Nat /\ effective' \in BOOLEAN
  BY <1>7 DEF SetOutput, StartsAt
<1>9. index' \in 1..(IF source'.kind = "arb" THEN Len(source'.times) ELSE 1)
  <2>1. index' = 1
    BY DEF SetOutput
  <2>2. ASSUME source'.kind = "arb" PROVE Len(source'.times) \in Nat \ {0}
    <3>1. source' \in ArbSources /\ ArbAccepts(source')
      BY <1>5, <2>2, FieldsByKind DEF Placed, Accepted
    <3> QED BY <3>1, Points
  <2> QED BY <2>1, <2>2
<1>10. startTime' \in Nat /\ waveStart' \in Nat /\ repeat' \in Int
  <2>1. waveStart' = startTime'
    BY DEF SetOutput
  <2>2. CASE s.kind = "arb"
    <3>1. s \in ArbSources /\ ArbAccepts(s)
      BY <2>2, SourcesAssumption, FieldsByKind DEF SetOutput, Accepted
    <3>2. startTime' = ArbStart(s, captureO) /\ repeat' = Passes(s) /\ captureO \in Nat
      BY <1>1, <2>2 DEF SetOutput, DeviceTypes
    <3>3. Passes(s) \in Int
      BY <3>1 DEF Passes, ArbSources
    <3> QED BY <2>1, <3>1, <3>2, <3>3, ArbStartType
  <2>3. CASE s.kind # "arb"
    BY <2>1, <2>3 DEF SetOutput
  <2> QED BY <2>2, <2>3
<1>11. SourceTypes'
  BY <1>6, <1>8, <1>9, <1>10 DEF SourceTypes
<1> QED BY <1>2, <1>3, <1>4, <1>11, TypeParts, PTL

\* Transfers that go out are counted.
LEMMA SubmittedTypes ==
  ASSUME TrueTypes, NEW who, Submitted(who)
  PROVE  TrueTypes'
<1>1. /\ sent' = IF who = "live" THEN sent + Packet ELSE sent
      /\ firstSent' = IF who = "live" /\ firstSent = None THEN sent ELSE firstSent
      /\ UNCHANGED <<returned, skewed>>
  BY DEF Submitted
<1>2. Packet \in Nat /\ sent \in Nat /\ returned \in 0..sent /\ sent + Packet \in Nat
  BY OutputAssumption DEF TrueTypes
<1>3. sent' \in Nat /\ returned' \in 0..sent'
  BY <1>1, <1>2
<1> QED BY <1>1, <1>3 DEF TrueTypes

\* Filling a transfer keeps the types.
LEMMA FillKeepsTypes ==
  ASSUME TypeOK, NEW who \in {"live", "late"}, FillPlain(who) \/ FillArb(who)
  PROVE  TypeOK'
<1>1. DeviceTypes /\ SourceTypes /\ FillTypes /\ TrueTypes
  BY TypeParts
<1>2. Packet \in Nat /\ captureO \in Nat /\ captureO + Packet \in Nat
  BY <1>1, OutputAssumption DEF DeviceTypes
<1>3. /\ UNCHANGED <<devVars, heldIn, srcVars, walkVars, askVars>> /\ Fills(who)
      /\ heldOut' = IF who = "late" THEN heldOut - 1 ELSE heldOut
      /\ who = "late" => heldOut > 0
  BY DEF FillPlain, FillArb, Fills
<1>4. heldOut' \in 0..MaxHeld /\ heldIn' \in 0..MaxHeld
  <2>1. MaxHeld \in Nat /\ heldOut \in 0..MaxHeld /\ heldIn \in 0..MaxHeld
    BY <1>1, OutputAssumption DEF DeviceTypes
  <2>2. CASE who = "late"
    BY <1>3, <2>1, <2>2
  <2>3. CASE who # "late"
    BY <1>3, <2>1, <2>3
  <2> QED BY <2>2, <2>3
<1>5. SourceTypes'
  BY <1>1, <1>3, PartsKept
<1>6. CASE FillPlain(who)
  <2>1. captureO' = captureO + Packet /\ Submitted(who) /\ UNCHANGED <<left, filler, o, rel>>
    BY <1>6 DEF FillPlain, fillVars
  <2>2. DeviceTypes'
    BY <1>1, <1>2, <1>3, <1>4, <2>1 DEF DeviceTypes, devVars
  <2>3. FillTypes' /\ TrueTypes'
    BY <1>1, <1>3, <2>1, PartsKept, SubmittedTypes
  <2> QED BY <1>5, <2>2, <2>3, TypeParts, PTL
<1>7. CASE FillArb(who)
  <2>1. /\ left' = Packet /\ filler' = who /\ o' = captureO
        /\ UNCHANGED <<captureO, rel, trueVars>>
    BY <1>7 DEF FillArb
  <2>2. DeviceTypes'
    BY <1>1, <1>3, <1>4, <2>1 DEF DeviceTypes, devVars
  <2>3. FillTypes'
    BY <1>1, <1>2, <1>3, <2>1 DEF FillTypes, askVars
  <2>4. TrueTypes'
    BY <1>1, <2>1, PartsKept
  <2> QED BY <1>5, <2>2, <2>3, <2>4, TypeParts, PTL
<1> QED BY <1>6, <1>7

\* The turns of get_value keep the types: its index stays within the points,
\* and no time it keeps goes below zero.
LEMMA WalkKeepsTypes ==
  ASSUME TypeOK, Placed, Walker, Walk
  PROVE  TypeOK'
<1>1. DeviceTypes /\ SourceTypes /\ FillTypes /\ TrueTypes
  BY TypeParts
<1>2. Busy /\ source.kind = "arb" /\ None \notin Int /\ Packet \in Nat
  BY OutputAssumption DEF Walk, Ask, WalkWrap, WalkForward, WalkReturn, Walker
<1>3. /\ index \in 1..Len(source.times) /\ Len(source.times) \in Nat \ {0}
      /\ startTime \in Nat /\ waveStart \in Nat /\ repeat \in Int /\ o \in Nat
      /\ left \in 0..Packet /\ left > 0
  BY <1>1, <1>2, PlacedWave DEF SourceTypes, FillTypes, Busy
<1>4. CASE Ask
  <2>1. Relative(o) \in Nat
    BY <1>3 DEF Relative
  <2>2. FillTypes'
    BY <1>1, <1>4, <2>1 DEF Ask, FillTypes
  <2>3. DeviceTypes' /\ SourceTypes' /\ TrueTypes'
    BY <1>1, <1>4, PartsKept DEF Ask
  <2> QED BY <2>2, <2>3, TypeParts, PTL
<1>5. CASE WalkForward
  <2>1. index + 1 \in 1..Len(source.times)
    BY <1>3, <1>5 DEF WalkForward, AtEnd
  <2>2. SourceTypes'
    BY <1>1, <1>2, <1>5, <2>1 DEF WalkForward, SourceTypes, srcVars
  <2>3. DeviceTypes' /\ FillTypes' /\ TrueTypes'
    BY <1>1, <1>5, PartsKept DEF WalkForward, fillVars
  <2> QED BY <2>2, <2>3, TypeParts, PTL
<1>6. CASE WalkWrap
  <2>1. /\ rel \in Nat /\ rel >= source.times[index] /\ source.times[index] \in Nat
    BY <1>1, <1>2, <1>3, <1>6, PlacedWave DEF WalkWrap, AtEnd, Walker, FillTypes
  <2>2. /\ startTime + source.times[index] \in Nat /\ rel - source.times[index] \in Nat
        /\ (IF repeat > 0 THEN repeat - 1 ELSE repeat) \in Int
        /\ 1 \in 1..Len(source.times)
    BY <1>3, <2>1
  <2>3. SourceTypes'
    BY <1>1, <1>2, <1>6, <2>2 DEF WalkWrap, SourceTypes, srcVars
  <2>4. FillTypes'
    BY <1>1, <1>6, <2>2 DEF WalkWrap, FillTypes, askVars
  <2>5. DeviceTypes' /\ TrueTypes'
    BY <1>1, <1>6, PartsKept DEF WalkWrap
  <2> QED BY <2>3, <2>4, <2>5, TypeParts, PTL
<1>7. CASE WalkReturn
  <2>1. /\ left' = left - 1 /\ rel' = None
        /\ o' = IF left = 1 THEN 0 ELSE o + 1
        /\ filler' = IF left = 1 THEN None ELSE filler
        /\ captureO' = IF left = 1 THEN o + 1 ELSE captureO
        /\ IF left = 1 THEN Submitted(filler) ELSE UNCHANGED trueVars
        /\ UNCHANGED <<devVars, heldVars, srcVars, walkVars, lastAsked, rewound>>
    BY <1>7 DEF WalkReturn
  <2>2. o + 1 \in Nat /\ left - 1 \in 0..Packet
    BY <1>2, <1>3
  <2>3. DeviceTypes'
    BY <1>1, <2>1, <2>2 DEF DeviceTypes, devVars, heldVars
  <2>4. SourceTypes'
    BY <1>1, <2>1, PartsKept
  <2>5. TrueTypes'
    BY <1>1, <2>1, PartsKept, SubmittedTypes
  <2>6. answer'.at \in Nat /\ answer'.value \in Values
    <3> DEFINE v == IF AtEnd \/ rel < source.times[index]
                    THEN Value(index, 0)
                    ELSE Value(index, rel - source.times[index])
    <3>1. answer' = [at |-> o, value |-> v]
      BY <1>7 DEF WalkReturn
    <3>2. rel \in Nat /\ source.times[index] \in Nat /\ index \in Nat \ {0}
      BY <1>1, <1>2, <1>3, <1>7, PlacedWave DEF WalkReturn, FillTypes
    <3>3. CASE AtEnd \/ rel < source.times[index]
      <4>1. v = Value(index, 0)
        BY <3>3
      <4>2. Value(index, 0) \in Values
        BY <3>2 DEF Value, Values
      <4> QED BY <1>3, <3>1, <4>1, <4>2
    <3>4. CASE ~(AtEnd \/ rel < source.times[index])
      <4>1. v = Value(index, rel - source.times[index]) /\ rel - source.times[index] \in Nat
        BY <3>2, <3>4
      <4>2. Value(index, rel - source.times[index]) \in Values
        BY <3>2, <4>1 DEF Value, Values
      <4> QED BY <1>3, <3>1, <4>1, <4>2
    <3> QED BY <3>3, <3>4
  <2>7. FillTypes'
    BY <1>1, <2>1, <2>2, <2>6 DEF FillTypes
  <2> QED BY <2>3, <2>4, <2>5, <2>7, TypeParts, PTL
<1> QED BY <1>4, <1>5, <1>6, <1>7 DEF Walk

\* Aborted tasks keep the held transfers within their bound.
LEMMA AbortedTypes ==
  ASSUME DeviceTypes, NEW n \in 0..MaxHeld, AbortTasks(n)
  PROVE  heldIn' \in 0..MaxHeld /\ heldOut' \in 0..MaxHeld
<1>1. MaxHeld \in Nat /\ n \in Nat /\ n <= MaxHeld /\ heldOut \in 0..MaxHeld
  BY OutputAssumption DEF DeviceTypes
<1>2. CASE piped
  <2>1. heldIn' \in n..MaxHeld /\ heldOut' \in heldOut..MaxHeld
    BY <1>2 DEF AbortTasks
  <2>2. n..MaxHeld \subseteq 0..MaxHeld /\ heldOut..MaxHeld \subseteq 0..MaxHeld
    BY <1>1
  <2> QED BY <2>1, <2>2
<1>3. CASE ~piped
  BY <1>1, <1>3 DEF AbortTasks
<1> QED BY <1>2, <1>3

\* Starting and pausing a capture keep the types.
LEMMA CaptureKeepsTypes ==
  ASSUME TypeOK, StartCapture \/ StartCaptureFails \/ PauseCapture
  PROVE  TypeOK'
<1>1. DeviceTypes /\ SourceTypes /\ FillTypes /\ TrueTypes
  BY TypeParts
<1>2. /\ MaxI \in Nat /\ captureI \in 0..MaxI /\ 0 \in 0..MaxI /\ captureO \in Nat /\ 0 \in Nat
      /\ captureI \in Nat /\ done \in BOOLEAN
  BY <1>1, OutputAssumption DEF DeviceTypes
<1>3. FillTypes'
  BY <1>1, PartsKept DEF StartCapture, StartCaptureFails, PauseCapture, fillVars
<1>4. SourceTypes'
  <2>1. UNCHANGED <<source, waveStart, effective, walkVars>>
    BY DEF StartCapture, StartCaptureFails, PauseCapture, srcVars
  <2>2. startSample' \in Nat
    BY <1>1 DEF StartCapture, StartCaptureFails, PauseCapture, srcVars, SourceTypes
  <2> QED BY <1>1, <2>1, <2>2 DEF SourceTypes, walkVars
<1>5. TrueTypes'
  <2>1. CASE StartCapture
    <3>1. sent' = 0 /\ returned' = 0 /\ firstSent' = None /\ skewed' = FALSE
      BY <2>1 DEF StartCapture
    <3>2. 0 \in Nat /\ 0 \in 0..0
      OBVIOUS
    <3> QED BY <3>1, <3>2 DEF TrueTypes
  <2>2. CASE StartCaptureFails \/ PauseCapture
    BY <1>1, <2>2, PartsKept DEF StartCaptureFails, PauseCapture
  <2> QED BY <2>1, <2>2
<1>6. DeviceTypes'
  <2>1. captureI' \in 0..MaxI /\ captureO' \in Nat
    <3>1. captureI' \in {0, captureI} /\ captureO' \in {captureI', captureI, captureO, 0}
      BY DEF StartCapture, StartCaptureFails, PauseCapture
    <3> QED BY <1>2, <3>1
  <2>2. capturing' \in BOOLEAN /\ done' \in BOOLEAN /\ piped' \in BOOLEAN
    BY <1>1 DEF StartCapture, StartCaptureFails, PauseCapture, DeviceTypes
  <2>3. heldIn' \in 0..MaxHeld /\ heldOut' \in 0..MaxHeld
    <3>1. CASE StartCapture \/ StartCaptureFails
      BY <1>1, <3>1 DEF StartCapture, StartCaptureFails, heldVars, DeviceTypes
    <3>2. CASE PauseCapture
      <4>1. AbortTasks(heldIn) /\ heldIn \in 0..MaxHeld
        BY <1>1, <3>2 DEF PauseCapture, DeviceTypes
      <4> QED BY <1>1, <4>1, AbortedTypes
    <3> QED BY <3>1, <3>2
  <2> QED BY <2>1, <2>2, <2>3 DEF DeviceTypes
<1> QED BY <1>3, <1>4, <1>5, <1>6, TypeParts, PTL

\* Counting a transfer keeps the types.
LEMMA TransferKeepsTypes ==
  ASSUME TypeOK, InTransfer \/ LateInTransfer
  PROVE  TypeOK'
<1>1. DeviceTypes /\ SourceTypes /\ FillTypes /\ TrueTypes
  BY TypeParts
<1>2. /\ captureI + Packet <= MaxI /\ captureI' = captureI + Packet
      /\ done' = (done \/ FullAfter) /\ capturing' = (capturing /\ ~FullAfter)
      /\ piped' = (piped /\ ~FullAfter)
      /\ captureO' = IF FullAfter /\ capturing THEN captureI + Packet ELSE captureO
      /\ effective' = (effective \/ captureI + Packet > startSample)
      /\ UNCHANGED <<source, waveStart, startSample, walkVars, fillVars, askVars, sent, firstSent>>
  BY DEF InTransfer, LateInTransfer, HandleIn
<1>3. Packet \in Nat /\ MaxI \in Nat /\ captureI \in Nat /\ captureO \in Nat /\ MaxHeld \in Nat
  BY <1>1, OutputAssumption DEF DeviceTypes
<1>4. FillTypes'
  BY <1>1, <1>2, PartsKept DEF fillVars
<1>5. SourceTypes'
  BY <1>1, <1>2 DEF SourceTypes, walkVars
<1>6. TrueTypes'
  <2>1. CASE InTransfer
    <3>1. returned + Packet <= sent /\ returned' = returned + Packet /\ skewed' = skewed
      BY <2>1 DEF InTransfer
    <3>2. returned + Packet \in 0..sent
      BY <1>1, <1>3, <3>1 DEF TrueTypes
    <3> QED BY <1>1, <1>2, <3>1, <3>2 DEF TrueTypes
  <2>2. CASE LateInTransfer
    BY <1>1, <1>2, <2>2 DEF LateInTransfer, TrueTypes
  <2> QED BY <2>1, <2>2
<1>7. DeviceTypes'
  <2>1. captureI + Packet \in 0..MaxI /\ captureI + Packet \in Nat
    BY <1>2, <1>3
  <2>2. heldIn' \in 0..MaxHeld /\ heldOut' \in 0..MaxHeld
    <3>1. heldIn \in 0..MaxHeld /\ heldOut \in 0..MaxHeld
      BY <1>1 DEF DeviceTypes
    <3>2. CASE InTransfer
      BY <1>1, <3>1, <3>2, AbortedTypes DEF InTransfer, heldVars
    <3>3. CASE LateInTransfer
      <4>1. heldIn - 1 \in 0..MaxHeld
        BY <1>3, <3>1, <3>3 DEF LateInTransfer
      <4> QED BY <1>1, <3>1, <3>3, <4>1, AbortedTypes DEF LateInTransfer
    <3> QED BY <3>2, <3>3
  <2>3. capturing' \in BOOLEAN /\ done' \in BOOLEAN /\ piped' \in BOOLEAN
    BY <1>1, <1>2 DEF DeviceTypes, FullAfter
  <2>4. captureO' \in Nat /\ captureI' \in 0..MaxI
    BY <1>2, <1>3, <2>1
  <2> QED BY <2>2, <2>3, <2>4 DEF DeviceTypes
<1> QED BY <1>4, <1>5, <1>6, <1>7, TypeParts, PTL

\* Every step keeps the types and the walker.
Consistent == Inv /\ Placed /\ TypeOK /\ Walker

\* What the steps of the capture leave alone.
LEMMA CaptureKeepsWalker ==
  ASSUME Walker,
         UNCHANGED vars \/ StartCapture \/ StartCaptureFails \/ PauseCapture \/ InTransfer \/ LateInTransfer
  PROVE  Walker'
<1>1. UNCHANGED <<left, source, rel, lastAsked, o, startTime, waveStart, repeat, index, rewound>>
  BY DEF vars, StartCapture, StartCaptureFails, PauseCapture, InTransfer, LateInTransfer, HandleIn,
         srcVars, walkVars, fillVars, askVars
<1> QED BY <1>1, WalkerKept

\* The invariant holds of a device that was just found.
LEMMA InitConsistent == Init => Consistent
<1> SUFFICES ASSUME Init PROVE Consistent
  OBVIOUS
<1>1. Inv
  BY InitInv
<1>2. Placed
  BY DEF Init, Placed, ConstantSources, Accepted
<1>3. TypeOK
  <2>1. /\ 0 \in 0..MaxI /\ 0 \in 0..MaxHeld /\ 0 \in 0..Packet /\ 0 \in 0..0
        /\ 0 \in Nat /\ 1 \in Int
    BY OutputAssumption
  <2>2. DeviceTypes
    BY <2>1 DEF Init, DeviceTypes
  <2>3. SourceTypes
    <3>1. source.kind = "constant" /\ index = 1
      BY DEF Init
    <3>2. source.kind \in Kinds /\ index \in 1..(IF source.kind = "arb" THEN Len(source.times) ELSE 1)
      BY <3>1 DEF Kinds
    <3> QED BY <2>1, <3>2 DEF Init, SourceTypes
  <2>4. FillTypes
    BY <2>1 DEF Init, FillTypes
  <2>5. TrueTypes
    BY <2>1 DEF Init, TrueTypes
  <2> QED BY <2>2, <2>3, <2>4, <2>5, TypeParts
<1>4. Walker
  BY DEF Init, Walker, Busy
<1> QED BY <1>1, <1>2, <1>3, <1>4 DEF Consistent

\* Every step keeps the invariant.
LEMMA NextConsistent == Consistent /\ [Next]_vars => Consistent'
<1> SUFFICES ASSUME Consistent, [Next]_vars PROVE Consistent'
  OBVIOUS
<1> USE DEF Consistent
<1>1. Inv' /\ Placed'
  BY NextInv, PlacedNext
<1>2. CASE UNCHANGED vars
  <2>1. UNCHANGED <<devVars, captureO, heldVars, srcVars, walkVars, left, filler, o, rel, askVars, trueVars>>
    BY <1>2 DEF vars, fillVars
  <2>2. DeviceTypes' /\ SourceTypes' /\ FillTypes' /\ TrueTypes'
    BY <2>1, TypeParts, PartsKept
  <2>3. TypeOK'
    BY <2>2, TypeParts, PTL
  <2> QED BY <1>1, <1>2, <2>3, CaptureKeepsWalker
<1>3. CASE \E s \in Sources : SetOutput(s)
  BY <1>1, <1>3, SetOutputTypes, SetOutputWalker
<1>4. CASE \E who \in {"live", "late"} : FillPlain(who) \/ FillArb(who)
  BY <1>1, <1>4, FillKeepsTypes, FillWalker
<1>5. CASE Walk
  <2>1. Walker'
    BY <1>5, AskWalker, ForwardWalker, WrapWalker, ReturnWalker DEF Walk
  <2> QED BY <1>1, <1>5, <2>1, WalkKeepsTypes
<1>6. CASE StartCapture \/ StartCaptureFails \/ PauseCapture
  BY <1>1, <1>6, CaptureKeepsTypes, CaptureKeepsWalker
<1>7. CASE InTransfer \/ LateInTransfer
  BY <1>1, <1>7, TransferKeepsTypes, CaptureKeepsWalker
<1> QED BY <1>2, <1>3, <1>4, <1>5, <1>6, <1>7 DEF Next

\* The variables have their types, for every packet size, capture, source and
\* number of late transfers: the index of get_value stays within the points of
\* the wave, its times stay at or above zero, and no more samples come back
\* than went out.
THEOREM TypeCorrect == Spec => []TypeOK
<1>1. Consistent => TypeOK
  BY DEF Consistent
<1> QED BY <1>1, InitConsistent, NextConsistent, PTL DEF Spec

-----------------------------------------------------------------------------
(* The walker and the wave.                                                 *)

\* Where a sample is in the whole wave, from where it is in its pass.
LEMMA WholePasses ==
  ASSUME NEW c \in Nat, NEW p \in Nat, NEW w \in Nat, NEW st \in Nat, NEW i \in Nat,
         st = w + c * p, c > 0 => p > 0, st = w \/ st <= i
  PROVE  RelTo(w, i) = RelTo(st, i) + c * p
<1>1. CASE c = 0
  <2>1. c * p = 0
    BY <1>1
  <2> QED BY <2>1 DEF RelTo
<1>2. CASE c # 0
  <2>1. PICK m \in Nat \ {0} : m = c * p
    <3>1. c * p \in Nat /\ c * p > 0
      BY <1>2
    <3> QED BY <3>1
  <2> QED BY <2>1 DEF RelTo
<1> QED BY <1>1, <1>2

\* A walker that stands at its last point, with no pass to begin, is past the
\* end of the wave.
LEMMA PastTheEnd ==
  ASSUME NEW c \in Nat, NEW p \in Nat, NEW n \in Int, n # 0, NEW x \in Nat, NEW rp \in Int,
         rp = (IF n > 0 THEN n - c ELSE n), n > 0 => c < n, n < -1 => c = 0,
         ~(rp > 1 \/ rp = -1), p <= x
  PROVE  n # -1 /\ x + c * p >= p * (IF n > 0 THEN n ELSE 1)
<1>1. CASE n > 0
  <2>1. c = n - 1
    BY <1>1
  <2>2. (n - 1) * p = p * n - p /\ p * n \in Int
    <3>1. n \in Nat
      BY <1>1
    <3> QED BY <3>1
  <2>3. x + c * p >= p * n
    BY <2>1, <2>2
  <2> QED BY <1>1, <2>3
<1>2. CASE n < 0
  <2>1. n # -1 /\ c = 0
    BY <1>2
  <2> QED BY <1>2, <2>1
<1> QED BY <1>1, <1>2

\* A walker between two points is within a pass of the wave.
LEMMA WithinAPass ==
  ASSUME NEW c \in Nat, NEW p \in Nat, NEW n \in Int, n # 0, NEW x \in Nat,
         n > 0 => c < n, n < -1 => c = 0, x < p
  PROVE  /\ ~(n # -1 /\ x + c * p >= p * (IF n > 0 THEN n ELSE 1))
         /\ (x + c * p) % p = x
<1>1. ASSUME n > 0 PROVE x + c * p < p * n
  <2>1. PICK j \in Nat : n = c + 1 + j
    <3>1. n - c - 1 \in Nat /\ n = c + 1 + (n - c - 1)
      BY <1>1
    <3> QED BY <3>1
  <2>2. p * (c + 1 + j) = c * p + p + j * p /\ c * p \in Nat /\ j * p \in Nat
    BY <2>1
  <2> QED BY <2>1, <2>2
<1>2. ASSUME n < -1 PROVE x + c * p < p * 1
  BY <1>2
<1>3. (x + c * p) % p = x
  <2>1. p \in Nat \ {0} /\ x \in 0..(p - 1) /\ c \in Int
    OBVIOUS
  <2>2. x + c * p \in Int /\ x + c * p = p * c + x
    OBVIOUS
  <2> QED BY <2>1, <2>2, RemainderOf
<1>4. ~(n # -1 /\ x + c * p >= p * (IF n > 0 THEN n ELSE 1))
  <2>1. CASE n > 0
    <3>1. c * p \in Nat /\ p * n \in Int
      OBVIOUS
    <3> QED BY <1>1, <2>1, <3>1
  <2>2. CASE n < -1
    <3>1. c * p \in Nat
      OBVIOUS
    <3> QED BY <1>2, <2>2, <3>1
  <2>3. CASE n = -1
    BY <2>3
  <2> QED BY <2>1, <2>2, <2>3
<1> QED BY <1>3, <1>4

\* The point that was passed last is the greatest that was passed.
LEMMA LastPassed ==
  ASSUME NEW times \in Seq(Int),
         \A k \in 1..(Len(times) - 1) : times[k] <= times[k + 1],
         NEW ix \in 1..(Len(times) - 1), NEW m \in Int, times[ix] <= m, m < times[ix + 1]
  PROVE  Max({k \in 1..Len(times) : times[k] <= m}) = ix
<1> DEFINE S == {k \in 1..Len(times) : times[k] <= m}
<1>1. ix \in S
  OBVIOUS
<1>2. ASSUME NEW k \in S PROVE k <= ix
  <2> SUFFICES ASSUME ~(k <= ix) PROVE FALSE
    OBVIOUS
  <2>1. ix + 1 \in 1..Len(times) /\ k \in (ix + 1)..Len(times) /\ times[k] <= m
    OBVIOUS
  <2>2. times[ix + 1] <= times[k]
    BY <2>1, PointsSorted
  <2>3. times[ix + 1] \in Int /\ times[k] \in Int
    BY <2>1
  <2> QED BY <2>1, <2>2, <2>3
<1>3. S \subseteq Int
  OBVIOUS
<1> HIDE DEF S
<1>4. PICK x \in S : x = Max(S) /\ \A y \in S : x >= y
  BY <1>1, <1>2, <1>3 DEF Max
<1>5. x <= ix /\ x >= ix /\ x \in Int /\ ix \in Int
  BY <1>1, <1>2, <1>3, <1>4
<1>6. x = ix
  BY <1>5
<1> QED BY <1>4, <1>6 DEF S

\* The value that get_value finds is that of the wave.
LEMMA ReturnIsWave ==
  ASSUME TypeOK, Placed, Walker, WalkReturn, ~rewound
  PROVE  answer'.at = o /\ answer'.value = WaveAt(source, waveStart, o)
<1> DEFINE p == LastOf(source.times)
           n == Passes(source)
           x == RelTo(startTime, o)
           r == RelTo(waveStart, o)
           v == IF AtEnd \/ rel < source.times[index]
                THEN Value(index, 0)
                ELSE Value(index, rel - source.times[index])
<1>1. /\ Busy /\ rel # None /\ answer' = [at |-> o, value |-> v]
      /\ IF AtEnd THEN ~WillRepeat ELSE rel < source.times[index + 1]
  BY DEF WalkReturn
<1>2. /\ source.kind = "arb" /\ lastAsked = o /\ rel = x /\ o # None
      /\ o \in Nat /\ x \in Nat /\ startTime \in Nat /\ waveStart \in Nat /\ repeat \in Int
      /\ index \in 1..Len(source.times)
  BY <1>1, OutputAssumption DEF TypeOK, Walker
<1>3. /\ source \in ArbSources /\ ArbAccepts(source) /\ Len(source.times) \in Nat \ {0}
      /\ \A k \in 1..Len(source.times) : source.times[k] \in Nat /\ source.times[k] <= p
      /\ p = source.times[Len(source.times)] /\ p \in Nat
  BY <1>2, PlacedWave
<1>4. PICK c \in Nat : PassOf(c, source, waveStart, startTime, repeat)
  BY <1>2 DEF Walker
<1>5. source.times[index] <= x /\ (startTime = waveStart \/ startTime <= o)
  BY <1>2 DEF Walker, ReachedBy
<1>6. n \in Int /\ n # 0
  BY <1>3 DEF Passes, ArbSources
<1>7. /\ startTime = waveStart + c * p /\ (c > 0 => p > 0)
      /\ repeat = (IF n > 0 THEN n - c ELSE n)
      /\ (n > 0 => c < n) /\ (n < -1 => c = 0)
  BY <1>4 DEF PassOf
<1>8. WaveAt(source, waveStart, o)
        = IF n # -1 /\ r >= p * (IF n > 0 THEN n ELSE 1)
          THEN Value(Len(source.times), 0)
          ELSE Value(Max({k \in 1..Len(source.times) : source.times[k] <= r % p}),
                     (r % p) - source.times[Max({k \in 1..Len(source.times) : source.times[k] <= r % p})])
  BY DEF WaveAt, RelTo
<1> HIDE DEF p, n, x, r
<1>9. r = x + c * p
  <2>1. RelTo(waveStart, o) = RelTo(startTime, o) + c * p
    <3>1. c \in Nat /\ p \in Nat /\ waveStart \in Nat /\ startTime \in Nat /\ o \in Nat
      BY <1>2, <1>3, <1>4
    <3>2. startTime = waveStart + c * p /\ (c > 0 => p > 0)
      BY <1>7
    <3>3. startTime = waveStart \/ startTime <= o
      BY <1>5
    <3> QED BY ONLY <3>1, <3>2, <3>3, WholePasses
  <2> QED BY <2>1 DEF r, x
<1>10. CASE AtEnd
  <2>1. index = Len(source.times) /\ ~(repeat > 1 \/ repeat = -1) /\ p <= x
    BY <1>1, <1>3, <1>5, <1>10 DEF AtEnd, WillRepeat
  <2>2. n # -1 /\ x + c * p >= p * (IF n > 0 THEN n ELSE 1)
    BY <1>2, <1>3, <1>6, <1>7, <2>1, PastTheEnd
  <2>3. WaveAt(source, waveStart, o) = Value(Len(source.times), 0)
    BY <1>8, <1>9, <2>2
  <2> QED BY <1>1, <1>10, <2>1, <2>3
<1>11. CASE ~AtEnd
  <2>1. index \in 1..(Len(source.times) - 1) /\ index + 1 \in 1..Len(source.times)
    BY <1>2, <1>3, <1>11 DEF AtEnd
  <2>2. x < source.times[index + 1] /\ source.times[index + 1] <= p /\ source.times[index + 1] \in Nat
    BY <1>1, <1>2, <1>3, <1>11, <2>1
  <2>3. x < p
    BY <1>2, <1>3, <2>2
  <2>4. /\ ~(n # -1 /\ x + c * p >= p * (IF n > 0 THEN n ELSE 1))
        /\ (x + c * p) % p = x
    <3>1. n > 0 => c < n
      BY <1>7
    <3>2. n < -1 => c = 0
      BY <1>7
    <3>3. x \in Nat /\ p \in Nat
      BY <1>2, <1>3
    <3>4. c \in Nat
      BY <1>4
    <3> QED BY ONLY <1>6, <2>3, <3>1, <3>2, <3>3, <3>4, WithinAPass, SMTT(30)
  <2>5. Max({k \in 1..Len(source.times) : source.times[k] <= x}) = index
    <3>1. source.times \in Seq(Int)
      BY <1>3 DEF ArbSources
    <3>2. \A k \in 1..(Len(source.times) - 1) : source.times[k] <= source.times[k + 1]
      BY <1>3 DEF ArbAccepts
    <3>3. x \in Int
      BY <1>2
    <3> QED BY <1>5, <2>1, <2>2, <3>1, <3>2, <3>3, LastPassed
  <2>6. WaveAt(source, waveStart, o) = Value(index, x - source.times[index])
    BY <1>8, <1>9, <2>4, <2>5
  <2>7. v = Value(index, x - source.times[index])
    <3>1. ~(x < source.times[index])
      BY <1>2, <1>3, <1>5
    <3> QED BY <1>2, <1>11, <3>1
  <2> QED BY <1>1, <2>6, <2>7
<1> QED BY <1>10, <1>11

\* A new source has no answer yet; every other step but the return of
\* get_value leaves the answer and its wave alone.
LEMMA AnswerKept ==
  ASSUME Consistent, [Next]_vars, ~WalkReturn, answer' # None
  PROVE  UNCHANGED <<source, waveStart, answer>> /\ (~rewound' => ~rewound)
<1>1. CASE UNCHANGED vars \/ WalkWrap \/ WalkForward \/ \E who : FillPlain(who) \/ FillArb(who)
  <2>1. UNCHANGED <<source, waveStart, answer, rewound>>
    BY <1>1 DEF vars, WalkWrap, WalkForward, FillPlain, FillArb, Fills, srcVars, askVars
  <2> QED BY <2>1
<1>2. CASE StartCapture \/ StartCaptureFails \/ PauseCapture \/ InTransfer \/ LateInTransfer
  <2>1. UNCHANGED <<source, waveStart, answer, rewound>>
    BY <1>2 DEF StartCapture, StartCaptureFails, PauseCapture, InTransfer, LateInTransfer, HandleIn,
                srcVars, askVars
  <2> QED BY <2>1
<1>3. CASE \E s \in Sources : SetOutput(s)
  BY <1>3 DEF SetOutput
<1>4. CASE Ask
  BY <1>4 DEF Ask, srcVars
<1> QED BY <1>1, <1>2, <1>3, <1>4 DEF Next, Walk

\* Every step keeps what was answered true.
LEMMA NextWave == Consistent /\ WalkIsWave /\ [Next]_vars => WalkIsWave'
<1> SUFFICES ASSUME Consistent, WalkIsWave, [Next]_vars,
                    source'.kind = "arb", answer' # None, ~rewound'
             PROVE  answer'.value = WaveAt(source', waveStart', answer'.at)
  BY DEF WalkIsWave
<1>1. CASE WalkReturn
  <2>1. UNCHANGED <<source, waveStart, rewound>>
    BY <1>1 DEF WalkReturn, srcVars
  <2>2. answer'.at = o /\ answer'.value = WaveAt(source, waveStart, o)
    BY <1>1, <2>1, ReturnIsWave DEF Consistent
  <2> QED BY <2>1, <2>2
<1>2. CASE ~WalkReturn
  <2>1. UNCHANGED <<source, waveStart, answer>> /\ ~rewound
    BY <1>2, AnswerKept
  <2> QED BY <2>1 DEF WalkIsWave
<1> QED BY <1>1, <1>2

\* What get_value answers for a sample is the value of the wave there, for
\* every list of points, repeat count, phase and packet size, and however the
\* walk is cut into transfers, as long as no sample before the last is asked
\* for.
THEOREM WalkerIsWave == Spec => []WalkIsWave
<1>1. Init => WalkIsWave
  BY DEF Init, WalkIsWave
<1> QED BY <1>1, InitConsistent, NextConsistent, NextWave, PTL DEF Spec

-----------------------------------------------------------------------------
(* The end of the walk.                                                     *)

\* A step of a transfer that is being filled brings it closer to its end: a
\* sample is answered, or asked for, or less of its time is left to walk, or a
\* point more is passed.  All of these are bounded (TypeOK).
Closer ==
  \/ left' < left
  \/ left' = left /\ rel = None /\ rel' # None
  \/ left' = left /\ rel # None /\ rel' # None /\ rel' < rel
  \/ left' = left /\ rel # None /\ rel' = rel /\ index' > index

\* Beginning the next pass takes time off.
LEMMA WrapIsCloser ==
  ASSUME Consistent, WalkWrap
  PROVE  Closer
<1>1. /\ Busy /\ rel # None /\ AtEnd /\ WillRepeat
      /\ rel' = rel - source.times[index] /\ left' = left
  BY DEF WalkWrap
<1>2. /\ source.kind = "arb" /\ rel \in Nat /\ None \notin Int /\ rel >= LastOf(source.times)
      /\ waveStart \in Int /\ startTime \in Int /\ repeat \in Int
  BY <1>1, OutputAssumption DEF Consistent, TypeOK, Walker
<1>3. /\ source \in ArbSources /\ ArbAccepts(source) /\ source.times[index] = LastOf(source.times)
  BY <1>1, <1>2, PlacedWave DEF AtEnd, Consistent
<1>4. LastOf(source.times) \in Nat \ {0}
  <2>1. PICK c \in Nat : PassOf(c, source, waveStart, startTime, repeat)
    BY <1>2 DEF Consistent, Walker
  <2>2. repeat > 1 \/ repeat = -1
    BY <1>1 DEF WillRepeat
  <2> QED BY <1>2, <1>3, <2>1, <2>2, NextPass
<1>5. rel - LastOf(source.times) \in Nat /\ rel - LastOf(source.times) < rel
  BY <1>2, <1>4
<1> QED BY <1>1, <1>2, <1>3, <1>5 DEF Closer

\* While a transfer is filled, nothing but its turns happens, and each of them
\* brings it closer to its end.
LEMMA BusyIsCloser ==
  ASSUME Consistent, Next, Busy
  PROVE  Walk /\ Closer
<1>1. Walk
  BY DEF Next, SetOutput, FillPlain, FillArb, Fills, StartCapture, StartCaptureFails, PauseCapture,
         InTransfer, LateInTransfer
<1>2. left \in Nat /\ index \in Nat /\ None \notin Int /\ left > 0
  <2>1. Len(source.times) \in Nat /\ source.kind = "arb"
    BY PlacedWave DEF Consistent, Walker
  <2> QED BY <2>1, OutputAssumption DEF Consistent, TypeOK, Busy
<1>3. CASE Ask
  <2>1. Relative(o) \in Nat
    BY DEF Relative, Consistent, TypeOK
  <2> QED BY <1>1, <1>2, <1>3, <2>1 DEF Ask, Closer
<1>4. CASE WalkForward
  <2>1. left' = left /\ rel' = rel /\ rel # None /\ index' = index + 1 /\ index + 1 > index
    BY <1>2, <1>4 DEF WalkForward, fillVars
  <2> QED BY <1>1, <2>1 DEF Closer
<1>5. CASE WalkReturn
  <2>1. left' = left - 1 /\ left - 1 < left
    BY <1>2, <1>5 DEF WalkReturn
  <2> QED BY <1>1, <2>1 DEF Closer
<1> QED BY <1>1, <1>3, <1>4, <1>5, WrapIsCloser DEF Walk

\* The loop of get_value cannot go on for ever: every step that is taken while
\* a transfer is filled descends in left, the question, rel and the points
\* ahead, whatever the points, the repeat count and the sample asked for.  What
\* is left of WalkEnds is that the thread goes on.
THEOREM WalkDescends == Spec => [][Busy => Walk /\ Closer]_vars
<1>1. Consistent /\ [Next]_vars => [Busy => Walk /\ Closer]_vars
  BY BusyIsCloser
<1> QED BY <1>1, InitConsistent, NextConsistent, PTL DEF Spec

=============================================================================
