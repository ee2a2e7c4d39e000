-------------------------- MODULE SampleBufferProofs --------------------------
(***************************************************************************)
(* For every buffer size, every kind of capture and every sample value:    *)
(* reading the buffer of SampleBuffer returns the sample that was counted  *)
(* at the index asked for.  The inductive invariant says which slots hold  *)
(* which samples; it rests on one fact of arithmetic, that two indices     *)
(* less than a buffer apart never share a slot.                            *)
(***************************************************************************)
EXTENDS SampleBuffer, TLAPS

\* An index splits into its lap and its slot.
LEMMA LapAndSlot ==
  ASSUME NEW n \in Nat \ {0}, NEW a \in Nat
  PROVE  /\ a % n \in 0..(n - 1)
         /\ a \div n \in Nat
         /\ a = n * (a \div n) + (a % n)
OBVIOUS

\* Multiplication by the size distributes over a difference of laps.
LEMMA Distributes ==
  ASSUME NEW n \in Int, NEW x \in Int, NEW y \in Int
  PROVE  n * y - n * x = n * (y - x)
OBVIOUS

\* No multiple of n lies strictly between 0 and n.
LEMMA NoMultipleBetween ==
  ASSUME NEW n \in Nat \ {0}, NEW d \in Int, n * d > 0, n * d < n
  PROVE  FALSE
<1>1. CASE d <= 0
  BY <1>1
<1>2. CASE d >= 1
  BY <1>2
<1> QED BY <1>1, <1>2

\* Two indices less than a lap apart have different slots: a sample is not
\* overwritten before the ring has gone round.
LEMMA SlotsDistinct ==
  ASSUME NEW n \in Nat \ {0}, NEW a \in Nat, NEW b \in Nat, a < b, b < a + n
  PROVE  a % n # b % n
<1>1. a \div n \in Nat /\ a = n * (a \div n) + (a % n) /\ a % n \in 0..(n - 1)
  BY LapAndSlot
<1>2. b \div n \in Nat /\ b = n * (b \div n) + (b % n)
  BY LapAndSlot
<1> SUFFICES ASSUME a % n = b % n PROVE FALSE
  OBVIOUS
<1>a. /\ a \div n \in Nat /\ a = n * (a \div n) + (a % n) /\ a % n \in Int
      /\ b \div n \in Nat /\ b = n * (b \div n) + (a % n)
  BY <1>1, <1>2
<1>3. PICK la \in Nat, lb \in Nat, r \in Int : a = n * la + r /\ b = n * lb + r
  BY <1>a
<1>4. n * la \in Int /\ n * lb \in Int
  OBVIOUS
<1>5. b - a = n * lb - n * la
  BY <1>3, <1>4
<1>6. b - a = n * (lb - la)
  BY <1>5, Distributes
<1> QED BY <1>6, NoMultipleBetween

\* An index below the size is its own slot.
LEMMA FirstLap ==
  ASSUME NEW n \in Nat \ {0}, NEW a \in Nat, a < n
  PROVE  a % n = a
OBVIOUS

\* The samples whose slots have not been reused: the last lap of a continuous
\* capture, the first lap of a bounded one.
Retained(i) == IF continuous THEN captureI <= i + caps ELSE i < caps

\* Every retained sample is in its slot.
SlotsHoldLog ==
  /\ Len(log) = captureI
  /\ \A i \in 0..(captureI - 1) :
       caps # 0 /\ Retained(i) => data[i % caps] = log[i + 1]

Inv == TypeOK /\ SlotsHoldLog

\* A new buffer is empty.
LEMMA InitInv == Init => Inv
BY BufferAssumption DEF Init, Inv, TypeOK, SlotsHoldLog, Allocated

\* put() overwrites only the slot of a sample that is no longer retained.
LEMMA SampleInv ==
  ASSUME Inv, NEW v \in Values, Sample(v)
  PROVE  Inv'
<1> USE DEF Inv
<1>1. /\ captureI \in Nat /\ captureI' = captureI + 1 /\ log' = Append(log, v)
      /\ caps \in Nat /\ caps' = caps /\ continuous' = continuous
      /\ log \in Seq(Values) /\ Len(log) = captureI
  BY BufferAssumption DEF Sample, TypeOK, SlotsHoldLog
<1>2. /\ log' \in Seq(Values) /\ Len(log') = captureI'
      /\ log'[captureI + 1] = v
      /\ \A i \in 0..(captureI - 1) : log'[i + 1] = log[i + 1]
  BY <1>1
<1>3. data' \in [0..(caps - 1) -> Values]
  <2>1. data' = data \/ data' = [data EXCEPT ![captureI % caps] = v]
    BY DEF Sample
  <2> QED BY <2>1 DEF TypeOK
<1>4. TypeOK'
  BY <1>1, <1>2, <1>3 DEF TypeOK
<1>5. ASSUME NEW i \in 0..captureI, caps # 0, Retained(i)'
      PROVE  data'[i % caps] = log'[i + 1]
  <2>a. i \in Nat /\ caps \in Nat \ {0} /\ captureI \in Nat
    BY <1>1, <1>5
  <2>1. i % caps \in 0..(caps - 1) /\ captureI % caps \in 0..(caps - 1)
    BY <2>a, LapAndSlot
  <2>2. CASE i = captureI
    <3>1. ~Drops
      BY <1>1, <1>5, <2>2 DEF Drops, Retained
    <3>2. data' = [data EXCEPT ![captureI % caps] = v]
      BY <3>1 DEF Sample
    <3> QED BY <1>2, <2>1, <2>2, <3>2 DEF TypeOK
  <2>3. CASE i # captureI
    <3>1. i \in 0..(captureI - 1) /\ i < captureI
      BY <1>1, <2>3
    <3>2. Retained(i)
      BY <1>1, <1>5, <3>1 DEF Retained
    <3>3. data[i % caps] = log[i + 1]
      BY <1>5, <3>1, <3>2 DEF SlotsHoldLog
    <3>4. data'[i % caps] = data[i % caps]
      <4>1. CASE Drops
        BY <4>1 DEF Sample
      <4>2. CASE ~Drops
        <5>1. captureI < i + caps
          BY <1>1, <1>5, <2>a, <3>1, <4>2 DEF Drops, Retained
        <5>2. i % caps # captureI % caps
          BY <2>a, <3>1, <5>1, SlotsDistinct
        <5>3. data' = [data EXCEPT ![captureI % caps] = v]
          BY <4>2 DEF Sample
        <5> QED BY <2>1, <5>2, <5>3 DEF TypeOK
      <4> QED BY <4>1, <4>2
    <3> QED BY <1>2, <3>1, <3>3, <3>4
  <2> QED BY <2>2, <2>3
<1>6. SlotsHoldLog'
  BY <1>1, <1>2, <1>5 DEF SlotsHoldLog
<1> QED BY <1>4, <1>6

\* A reset leaves nothing to be read.
LEMMA ResetInv == Inv /\ ResetCapture => Inv'
BY DEF Inv, TypeOK, SlotsHoldLog, ResetCapture

\* A new buffer after configure holds nothing to be read.
LEMMA ConfigureInv ==
  ASSUME Inv, NEW n \in Sizes, NEW cont \in BOOLEAN, Configure(n, cont)
  PROVE  Inv'
BY BufferAssumption DEF Inv, TypeOK, SlotsHoldLog, Configure, Allocated

\* Every step keeps the invariant.
LEMMA StepInv == Inv /\ [Next]_vars => Inv'
<1> SUFFICES ASSUME Inv, [Next]_vars PROVE Inv'
  OBVIOUS
<1>1. ASSUME NEW v \in Values, Sample(v) PROVE Inv'
  BY <1>1, SampleInv
<1>2. CASE ResetCapture
  BY <1>2, ResetInv
<1>3. ASSUME NEW n \in Sizes, NEW cont \in BOOLEAN, Configure(n, cont) PROVE Inv'
  BY <1>3, ConfigureInv
<1>4. CASE UNCHANGED vars
  BY <1>4 DEF Inv, TypeOK, SlotsHoldLog, Retained, vars
<1> QED BY <1>1, <1>2, <1>3, <1>4 DEF Next

\* The buffer is well formed and every retained sample is in its slot.
THEOREM BufferInvariant == Spec => []Inv
BY InitInv, StepInv, PTL DEF Spec

\* The buffer has the size it was made for, whatever is counted.
THEOREM TypeCorrect == Spec => []TypeOK
<1>1. Inv => TypeOK
  BY DEF Inv
<1> QED BY <1>1, BufferInvariant, PTL

\* What get() considers available is retained.
LEMMA InvReadExact == Inv => ReadExact
<1> SUFFICES ASSUME Inv, NEW i \in 0..(captureI - 1), Available(i)
             PROVE  Get(i) = Meant(i)
  BY DEF ReadExact
<1> USE DEF Inv
<1>1. i \in Nat /\ captureI \in Nat /\ caps \in Nat \ {0} /\ Get(i) = data[i % caps]
  BY BufferAssumption DEF TypeOK, Available, Get
<1>2. CASE continuous
  <2>1. captureI <= i + caps
    BY <1>1 DEF Available, TooOld
  <2> QED BY <1>1, <1>2, <2>1 DEF SlotsHoldLog, Retained, Meant
<1>3. CASE ~continuous /\ i < caps
  BY <1>1, <1>3 DEF SlotsHoldLog, Retained, Meant
<1>4. CASE ~continuous /\ ~(i < caps)
  <2>1. i % caps \in 0..(caps - 1)
    BY <1>1, LapAndSlot
  <2>2. PICK j \in 0..(caps - 1) : j = i % caps
    BY <2>1
  <2>3. j \in 0..(captureI - 1) /\ j < caps /\ j \in Nat
    BY <1>1, <1>4, <2>2
  <2>4. j % caps = j
    BY <1>1, <2>3, FirstLap
  <2>5. data[j % caps] = log[j + 1]
    BY <1>1, <1>4, <2>3 DEF SlotsHoldLog, Retained
  <2> QED BY <1>1, <1>4, <2>2, <2>4, <2>5 DEF Meant
<1> QED BY <1>2, <1>3, <1>4

\* Whatever get() returns that is not NaN is the sample counted at the index
\* asked for, for every size and however often the ring wrapped.
THEOREM ReadsAreExact == Spec => []ReadExact
BY BufferInvariant, InvReadExact, PTL

\* One check of the start of a window is enough: resample() answers exactly
\* when get() would for every sample of the window.
LEMMA WindowOfSamples ==
  ASSUME TypeOK, NEW start \in Nat, NEW count \in Nat \ {0}
  PROVE  WindowAvailable(start, count) <=> \A k \in 0..(count - 1) : Available(start + k)
<1>1. captureI \in Nat /\ caps \in Nat
  BY BufferAssumption DEF TypeOK
<1>2. ASSUME WindowAvailable(start, count), NEW k \in 0..(count - 1)
      PROVE  Available(start + k)
  BY <1>1, <1>2 DEF WindowAvailable, Available, TooOld
<1>3. ASSUME \A k \in 0..(count - 1) : Available(start + k)
      PROVE  WindowAvailable(start, count)
  <2>1. Available(start + 0) /\ Available(start + (count - 1))
    BY <1>3
  <2> QED BY <1>1, <2>1 DEF WindowAvailable, Available, TooOld
<1> QED BY <1>2, <1>3

\* The window holds what get() returns.
LEMMA InvWindowExact == Inv => WindowExact
<1> SUFFICES ASSUME Inv, NEW start \in 0..captureI, NEW count \in 1..(captureI + 1)
             PROVE  /\ WindowAvailable(start, count)
                         <=> \A k \in 0..(count - 1) : Available(start + k)
                    /\ WindowAvailable(start, count) =>
                         \A k \in 0..(count - 1) : Window(start, count)[k] = Meant(start + k)
  BY DEF WindowExact
<1>1. TypeOK /\ captureI \in Nat /\ start \in Nat /\ count \in Nat \ {0}
  BY DEF Inv, TypeOK
<1>2. WindowAvailable(start, count) <=> \A k \in 0..(count - 1) : Available(start + k)
  BY <1>1, WindowOfSamples
<1>3. ASSUME WindowAvailable(start, count), NEW k \in 0..(count - 1)
      PROVE  Window(start, count)[k] = Meant(start + k)
  <2>1. Available(start + k) /\ start + k \in 0..(captureI - 1)
    BY <1>1, <1>2, <1>3 DEF Available
  <2>2. Get(start + k) = Meant(start + k)
    BY <2>1, InvReadExact DEF ReadExact
  <2> QED BY <2>1, <2>2 DEF Get, Window
<1> QED BY <1>2, <1>3

\* resample() averages the samples that were counted at the indices of its
\* window, and no others.
THEOREM WindowsAreExact == Spec => []WindowExact
BY BufferInvariant, InvWindowExact, PTL
-----------------------------------------------------------------------------
(* Refinement: the buffer implements SampleLog.                             *)

\* An empty buffer is an empty log.
LEMMA InitImplements == Init => Log!Init
BY BufferAssumption DEF Init, Log!Init, Readable

\* What is readable after put() and sample_done(): what was readable and the
\* new sample, if it was stored, as far as they are in the window.
LEMMA ReadableAfterSample ==
  ASSUME TypeOK, NEW v \in Values, Sample(v)
  PROVE  Readable' = (Readable \cup IF Drops THEN {} ELSE {captureI})
                       \cap Log!WindowOf(captureI + 1)
<1>1. /\ captureI \in Nat /\ captureI' = captureI + 1
      /\ caps \in Nat /\ caps' = caps /\ continuous' = continuous
  BY BufferAssumption DEF Sample, TypeOK
<1>2. ASSUME NEW i
      PROVE  i \in Readable' <=> /\ i \in 0..captureI /\ caps # 0
                                 /\ captureI + 1 <= caps \/ i > captureI + 1 - caps
                                 /\ continuous \/ i < caps
  BY <1>1 DEF Readable, Available, TooOld
<1>3. ASSUME NEW i
      PROVE  i \in Log!WindowOf(captureI + 1)
                <=> i \in 0..captureI /\ (captureI + 1 <= caps \/ i > captureI + 1 - caps)
  BY <1>1 DEF Log!WindowOf
<1>4. ASSUME NEW i \in 0..captureI,
             captureI + 1 <= caps \/ i > captureI + 1 - caps, i # captureI
      PROVE  i \in Readable <=> caps # 0 /\ (continuous \/ i < caps)
  BY <1>1, <1>4 DEF Readable, Available, TooOld
<1>5. captureI \in Readable => FALSE
  BY <1>1 DEF Readable
<1>6. Drops <=> ~(caps # 0 /\ (continuous \/ captureI < caps))
  BY <1>1 DEF Drops
<1> QED BY <1>2, <1>3, <1>4, <1>5, <1>6

\* What stays readable reads the same, and the new sample reads as it came.
LEMMA GetAfterSample ==
  ASSUME TypeOK, NEW v \in Values, Sample(v), NEW i \in Readable'
  PROVE  Get(i)' = IF i = captureI THEN v ELSE Get(i)
<1>1. /\ captureI \in Nat /\ captureI' = captureI + 1
      /\ caps \in Nat \ {0} /\ caps' = caps /\ continuous' = continuous
      /\ i \in 0..captureI /\ i \in Nat
      /\ captureI + 1 <= caps \/ i > captureI + 1 - caps
      /\ continuous \/ i < caps
  BY BufferAssumption DEF Sample, TypeOK, Readable, Available, TooOld
<1>2. Get(i)' = data'[i % caps]
  BY <1>1 DEF Get, Readable
<1>3. captureI % caps \in 0..(caps - 1) /\ i % caps \in 0..(caps - 1)
  BY <1>1, LapAndSlot
<1>4. CASE i = captureI
  <2>1. data' = [data EXCEPT ![captureI % caps] = v]
    BY <1>1, <1>4 DEF Sample, Drops
  <2> QED BY <1>2, <1>3, <1>4, <2>1 DEF TypeOK
<1>5. CASE i # captureI
  <2>1. i < captureI /\ captureI < i + caps
    BY <1>1, <1>5
  <2>2. i % caps # captureI % caps
    BY <1>1, <2>1, SlotsDistinct
  <2>3. data' = data \/ data' = [data EXCEPT ![captureI % caps] = v]
    BY DEF Sample
  <2>4. data'[i % caps] = data[i % caps]
    BY <1>3, <2>2, <2>3 DEF TypeOK
  <2>5. Available(i)
    BY <1>1, <2>1 DEF Available, TooOld
  <2> QED BY <1>2, <1>5, <2>4, <2>5 DEF Get
<1> QED BY <1>4, <1>5

\* A sample that is put and counted is a sample of the log.
LEMMA SampleImplements ==
  ASSUME TypeOK, NEW v \in Values, Sample(v)
  PROVE  Log!SampleComes(v)
<1> DEFINE stored == IF Drops THEN {} ELSE {captureI}
<1>1. /\ captureI \in Nat /\ caps \in Nat
      /\ captureI' = captureI + 1 /\ caps' = caps
  BY BufferAssumption DEF Sample, TypeOK
<1>2. stored = {} => captureI >= caps
  BY <1>1 DEF Drops
<1>3. Readable' = (Readable \cup stored) \cap Log!WindowOf(captureI + 1)
  BY ReadableAfterSample
<1>4. \A i \in Readable' :
        Get(i)' = IF i = captureI THEN v ELSE [j \in Readable |-> Get(j)][i]
  <2>1. \A i \in Readable' : i # captureI => i \in Readable
    BY <1>3
  <2> QED BY <2>1, GetAfterSample
<1>5. [i \in Readable |-> Get(i)]' =
        [i \in ((DOMAIN [j \in Readable |-> Get(j)] \cup stored) \cap Log!WindowOf(captureI + 1)) |->
           IF i = captureI THEN v ELSE [j \in Readable |-> Get(j)][i]]
  BY <1>3, <1>4
<1>6. stored \in {{}, {captureI}}
  OBVIOUS
<1> HIDE DEF stored
<1> QED BY <1>1, <1>2, <1>5, <1>6 DEF Log!SampleComes

\* reset_capture and configure begin a new log.
LEMMA RestartImplements ==
  ASSUME TypeOK, captureI' = 0, caps' \in Nat
  PROVE  Log!Restart
BY DEF Log!Restart, Readable

\* Every step of the buffer is a step of the log or leaves it as it is.
LEMMA StepImplements == TypeOK /\ [Next]_vars => [Log!Next]_(Log!logVars)
<1> SUFFICES ASSUME TypeOK, [Next]_vars PROVE [Log!Next]_(Log!logVars)
  OBVIOUS
<1>1. ASSUME NEW v \in Values, Sample(v) PROVE Log!Next
  BY <1>1, SampleImplements DEF Log!Next
<1>2. CASE ResetCapture
  BY <1>2, RestartImplements, BufferAssumption DEF ResetCapture, TypeOK, Log!Next
<1>3. ASSUME NEW n \in Sizes, NEW cont \in BOOLEAN, Configure(n, cont) PROVE Log!Next
  BY <1>3, RestartImplements, BufferAssumption DEF Configure, Log!Next
<1>4. CASE UNCHANGED vars
  BY <1>4 DEF vars, Log!logVars, Readable, Available, TooOld, Get
<1> QED BY <1>1, <1>2, <1>3, <1>4 DEF Next

\* The ring buffer, its counter and its modulus implement the log of samples:
\* put, get, reset and configure are the steps of SampleLog, for every size.
THEOREM BufferImplementsLog == Spec => ImplementsLog
<1>1. Inv => TypeOK
  BY DEF Inv
<1> QED BY InitImplements, StepImplements, BufferInvariant, <1>1, PTL
        DEF Spec, ImplementsLog, Log!Spec
=============================================================================
