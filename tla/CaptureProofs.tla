---------------------------- MODULE CaptureProofs ----------------------------
(***************************************************************************)
(* What the model checker finds on the small instances of MCCapture, for   *)
(* all configurations, packet sizes and numbers of pipelines: the          *)
(* specification of Capture keeps TypeOK, ViewIsTruth, PipelineOwned and   *)
(* CompletionNoticed.                                                      *)
(***************************************************************************)
EXTENDS Capture, TLAPS

Inv == TypeOK /\ ViewIsTruth /\ PipelineOwned /\ CompletionNoticed

\* A late transfer counts at least one sample: it is never mistaken for an
\* empty buffer by the completion check of packet_done.
LEMMA DecodedPositive ==
  ASSUME TypeOK, NEW g \in Gens
  PROVE  Decoded(g) \in Nat /\ Decoded(g) > 0
BY ConfigsAssumption DEF TypeOK, Decoded

\* Aborting the pipeline leaves well-formed task states.
LEMMA AbortTyping ==
  ASSUME TypeOK
  PROVE  AbortedPhase \in [Gens -> Phases] /\ AbortedFlag \in [Gens -> BOOLEAN]
BY DEF TypeOK, AbortedPhase, AbortedFlag, Phases

\* After on_pause_capture no task that may still run is unaborted.
LEMMA AbortLeavesNone ==
  ASSUME TypeOK, PipelineOwned, NEW g \in Gens,
         AbortedPhase[g] \notin {"unborn", "dead", "failed"}
  PROVE  AbortedFlag[g]
BY DEF TypeOK, PipelineOwned, AbortedPhase, AbortedFlag, Over, Phases

\* Spawning over well-formed task states leaves well-formed task states, and
\* makes the new pipeline the only one that is not aborted.
LEMMA SpawnProps ==
  ASSUME TypeOK,
         NEW ph \in [Gens -> Phases], NEW ab \in [Gens -> BOOLEAN],
         \A g \in Gens : ph[g] \notin {"unborn", "dead", "failed"} => ab[g],
         SpawnOver(ph, ab)
  PROVE  /\ pipe' \in 0..gen' /\ pipe' # 0 /\ gen' \in 0..MaxGen
         /\ phase' \in [Gens -> Phases]
         /\ aborted' \in [Gens -> BOOLEAN]
         /\ taskConfig' \in [Gens -> Configs]
         /\ submitted' \in [Gens -> Nat]
         /\ late' \in [Gens -> Nat]
         /\ \A g \in Gens : ~Over(g)' /\ ~aborted'[g] => g = pipe'
<1>1. gen + 1 \in Gens /\ gen' = gen + 1 /\ gen' \in 0..MaxGen /\ pipe' = gen + 1
  BY BoundAssumption DEF TypeOK, SpawnOver, Gens
<1>2. NTransfers \in Nat /\ NTransfers - 1 \in Nat
  BY PipelineAssumption
<1>3. phase' \in [Gens -> Phases] /\ aborted' \in [Gens -> BOOLEAN]
  BY DEF SpawnOver, Phases
<1>4. taskConfig' \in [Gens -> Configs]
  BY DEF TypeOK, SpawnOver
<1>5. submitted' \in [Gens -> Nat] /\ late' \in [Gens -> Nat]
  BY <1>2 DEF TypeOK, SpawnOver
<1>6. \A g \in Gens : ~Over(g)' /\ ~aborted'[g] => g = pipe'
  BY <1>1 DEF SpawnOver, Over
<1>7. pipe' \in 0..gen' /\ pipe' # 0
  BY <1>1 DEF TypeOK
<1> QED BY <1>1, <1>3, <1>4, <1>5, <1>6, <1>7

\* What aborting gives the task part of the invariant.
LEMMA AbortProps ==
  ASSUME TypeOK, PipelineOwned, AbortPipeline
  PROVE  /\ pipe' \in 0..gen' /\ pipe' = 0 /\ gen' \in 0..MaxGen
         /\ phase' \in [Gens -> Phases]
         /\ aborted' \in [Gens -> BOOLEAN]
         /\ taskConfig' \in [Gens -> Configs]
         /\ submitted' \in [Gens -> Nat]
         /\ late' \in [Gens -> Nat]
         /\ \A g \in Gens : ~Over(g)' /\ ~aborted'[g] => g = pipe'
<1>1. phase' \in [Gens -> Phases] /\ aborted' \in [Gens -> BOOLEAN]
  BY AbortTyping DEF AbortPipeline
<1>2. \A g \in Gens : ~Over(g)' /\ ~aborted'[g] => g = pipe'
  BY AbortLeavesNone DEF AbortPipeline, Over
<1>3. pipe' \in 0..gen' /\ pipe' = 0 /\ gen' \in 0..MaxGen
  BY DEF AbortPipeline, TypeOK
<1>4. /\ taskConfig' \in [Gens -> Configs]
      /\ submitted' \in [Gens -> Nat] /\ late' \in [Gens -> Nat]
  BY DEF AbortPipeline, TypeOK
<1> QED BY <1>1, <1>2, <1>3, <1>4

\* The invariant holds of a new device.
LEMMA InitInv == Init => Inv
<1> SUFFICES ASSUME Init PROVE Inv
  OBVIOUS
<1>1. gen \in 0..MaxGen /\ pipe \in 0..gen
  BY BoundAssumption DEF Init
<1>2. TypeOK
  BY <1>1 DEF Init, TypeOK, Phases
<1>3. ViewIsTruth
  BY Zenon DEF Init, ViewIsTruth
<1>4. CompletionNoticed
  BY DEF Init, CompletionNoticed
<1>5. PipelineOwned
  BY DEF Init, PipelineOwned, Over
<1> QED
  BY <1>2, <1>3, <1>4, <1>5 DEF Inv

\* start_capture keeps the invariant, whether or not a pipeline comes up.
LEMMA StartInv == Inv /\ StartCommon /\ (SpawnOver(phase, aborted) \/ UNCHANGED taskVars) => Inv'
<1> SUFFICES ASSUME Inv, StartCommon, SpawnOver(phase, aborted) \/ UNCHANGED taskVars
             PROVE  Inv'
  OBVIOUS
<1> USE DEF Inv
<1>1. pipe = 0 /\ \A g \in Gens : phase[g] \notin {"unborn", "dead", "failed"} => aborted[g]
  <2>1. pipe = 0
    BY DEF StartCommon, PipelineOwned
  <2> QED BY <2>1 DEF PipelineOwned, Over, TypeOK, Gens
<1>2. /\ captureState' = TRUE /\ captureDone' = FALSE /\ captureI' \in Nat
      /\ config' = config /\ epoch' = epoch /\ view' = [state |-> TRUE, done |-> FALSE]
  BY DEF StartCommon, Tell, TypeOK
<1>3. TypeOK' /\ PipelineOwned'
  <2>1. CASE SpawnOver(phase, aborted)
    <3>1. phase \in [Gens -> Phases] /\ aborted \in [Gens -> BOOLEAN]
      BY DEF TypeOK
    <3>2. /\ pipe' \in 0..gen' /\ pipe' # 0 /\ gen' \in 0..MaxGen
          /\ phase' \in [Gens -> Phases]
          /\ aborted' \in [Gens -> BOOLEAN]
          /\ taskConfig' \in [Gens -> Configs]
          /\ submitted' \in [Gens -> Nat]
          /\ late' \in [Gens -> Nat]
          /\ \A g \in Gens : ~Over(g)' /\ ~aborted'[g] => g = pipe'
      BY <1>1, <2>1, <3>1, SpawnProps
    <3> QED BY <1>2, <3>2 DEF TypeOK, PipelineOwned
  <2>2. CASE UNCHANGED taskVars
    BY <1>1, <1>2, <2>2 DEF TypeOK, PipelineOwned, taskVars, Over
  <2> QED BY <2>1, <2>2
<1>4. ViewIsTruth'
  BY <1>2 DEF ViewIsTruth
<1>5. CompletionNoticed'
  BY <1>2 DEF StartCommon, CompletionNoticed, Full
<1> QED BY <1>3, <1>4, <1>5

\* pause_capture keeps the invariant.
LEMMA PauseInv == Inv /\ PauseCapture => Inv'
<1> SUFFICES ASSUME Inv, PauseCapture PROVE Inv'
  OBVIOUS
<1> USE DEF Inv
<1>1. TypeOK' /\ PipelineOwned'
  BY AbortProps DEF PauseCapture, TypeOK, PipelineOwned, Tell
<1>2. ViewIsTruth'
  BY DEF PauseCapture, ViewIsTruth, Tell
<1>3. CompletionNoticed'
  BY DEF PauseCapture, CompletionNoticed, Full
<1> QED BY <1>1, <1>2, <1>3

\* configure keeps the invariant: it rewinds the counter, so the done flag it
\* leaves alone is of no consequence until the next start resets it.
LEMMA ConfigureInv ==
  ASSUME Inv, NEW c \in Configs, Configure(c)
  PROVE  Inv'
<1> USE DEF Inv
<1>1. /\ captureState' = FALSE /\ captureDone' \in BOOLEAN /\ captureI' \in Nat
      /\ config' \in Configs /\ epoch' \in Nat
      /\ view' \in [state : BOOLEAN, done : BOOLEAN]
  BY DEF Configure, Tell, TypeOK
<1>2. TypeOK' /\ PipelineOwned'
  <2>1. CASE captureState
    <3>1. AbortPipeline
      BY <2>1 DEF Configure
    <3> QED BY <1>1, <3>1, AbortProps DEF TypeOK, PipelineOwned
  <2>2. CASE ~captureState
    <3>1. UNCHANGED taskVars
      BY <2>2 DEF Configure
    <3> QED BY <1>1, <2>2, <3>1 DEF TypeOK, PipelineOwned, taskVars, Over
  <2> QED BY <2>1, <2>2
<1>3. ViewIsTruth'
  BY DEF Configure, ViewIsTruth, Tell
<1>4. CompletionNoticed'
  BY <1>1 DEF Configure, CompletionNoticed
<1> QED BY <1>2, <1>3, <1>4

\* Both outcomes of cee::set_internal_gain leave the state machine alone and
\* replace the pipeline.
LEMMA SetInternalGainInv ==
  Inv /\ (SetInternalGain \/ SetInternalGainFails) => Inv'
<1> SUFFICES ASSUME Inv, SetInternalGain \/ SetInternalGainFails PROVE Inv'
  OBVIOUS
<1> USE DEF Inv
<1>1. captureState /\ UNCHANGED devVars
  BY DEF SetInternalGain, SetInternalGainFails
<1>2. TypeOK' /\ PipelineOwned'
  <2>1. CASE SetInternalGain
    <3>1. AbortedPhase \in [Gens -> Phases] /\ AbortedFlag \in [Gens -> BOOLEAN]
      BY AbortTyping
    <3>2. \A g \in Gens : AbortedPhase[g] \notin {"unborn", "dead", "failed"} => AbortedFlag[g]
      BY AbortLeavesNone
    <3>3. /\ pipe' \in 0..gen' /\ pipe' # 0 /\ gen' \in 0..MaxGen
          /\ phase' \in [Gens -> Phases]
          /\ aborted' \in [Gens -> BOOLEAN]
          /\ taskConfig' \in [Gens -> Configs]
          /\ submitted' \in [Gens -> Nat]
          /\ late' \in [Gens -> Nat]
          /\ \A g \in Gens : ~Over(g)' /\ ~aborted'[g] => g = pipe'
      BY <2>1, <3>1, <3>2, SpawnProps DEF SetInternalGain
    <3> QED BY <1>1, <3>3 DEF TypeOK, PipelineOwned, devVars
  <2>2. CASE SetInternalGainFails
    BY <1>1, <2>2, AbortProps DEF SetInternalGainFails, TypeOK, PipelineOwned, devVars
  <2> QED BY <2>1, <2>2
<1>3. ViewIsTruth'
  BY <1>1 DEF ViewIsTruth, devVars
<1>4. CompletionNoticed'
  BY <1>1 DEF CompletionNoticed, Full, devVars
<1> QED BY <1>2, <1>3, <1>4

\* A transfer that arrives or fails touches nothing but the phase of its task.
LEMMA WaitingInv ==
  ASSUME Inv, NEW g \in Gens, TransferArrives(g) \/ TransferFails(g)
  PROVE  Inv'
<1> USE DEF Inv
<1>1. /\ UNCHANGED <<devVars, pipe, gen, aborted, taskConfig, submitted, late>>
      /\ phase[g] = "waiting"
      /\ phase' = [phase EXCEPT ![g] = "holding"] \/ phase' = [phase EXCEPT ![g] = "failed"]
  BY DEF TransferArrives, TransferFails
<1>2. phase' \in [Gens -> Phases]
  BY <1>1 DEF TypeOK, Phases
<1>3. TypeOK'
  BY <1>1, <1>2 DEF TypeOK, devVars
<1>4. PipelineOwned'
  BY <1>1 DEF PipelineOwned, Over, TypeOK, devVars
<1>5. ViewIsTruth' /\ CompletionNoticed'
  BY <1>1 DEF ViewIsTruth, CompletionNoticed, Full, devVars
<1> QED BY <1>3, <1>4, <1>5

\* handle_in_transfer keeps the invariant, also when an aborted task of an
\* earlier pipeline runs it.
LEMMA HandleInv ==
  ASSUME Inv, NEW g \in Gens, HandleTransfer(g)
  PROVE  Inv'
<1> USE DEF Inv
<1> DEFINE i    == captureI + Decoded(g)
           fin  == Full(i)
           stop == fin /\ captureState
           ab   == IF stop THEN AbortedFlag ELSE aborted
           ph   == IF stop THEN AbortedPhase ELSE phase
<1>1. i \in Nat /\ i > 0
  BY DecodedPositive DEF TypeOK
<1>2. PICK next \in AfterTransfer(g, ab[g]) :
        /\ phase' = [ph EXCEPT ![g] = next]
        /\ late' = [late EXCEPT ![g] = IF next = "holding" THEN @ - 1 ELSE @]
  BY DEF HandleTransfer
<1>3. /\ captureI' = i
      /\ captureDone' = (captureDone \/ fin)
      /\ captureState' = (captureState /\ ~fin)
      /\ IF fin THEN Tell(FALSE, TRUE) ELSE UNCHANGED view
      /\ pipe' = IF stop THEN 0 ELSE pipe
      /\ aborted' = ab
      /\ UNCHANGED <<config, epoch, gen, taskConfig>>
      /\ phase[g] = "holding"
  BY DEF HandleTransfer
<1>4. ph \in [Gens -> Phases] /\ ab \in [Gens -> BOOLEAN]
  BY AbortTyping DEF TypeOK
<1>5. next \in Phases /\ (next = "holding" => late[g] > 0)
  BY DEF AfterTransfer, Phases
<1>6. fin \in BOOLEAN
  BY DEF Full
<1> HIDE DEF i, fin, stop, ab, ph
<1>7. TypeOK'
  <2>1. phase' \in [Gens -> Phases] /\ aborted' \in [Gens -> BOOLEAN]
    BY <1>2, <1>3, <1>4, <1>5
  <2>2. late' \in [Gens -> Nat]
    BY <1>2, <1>5 DEF TypeOK
  <2>3. submitted' \in [Gens -> Nat]
    BY DEF HandleTransfer, TypeOK
  <2>4. view' \in [state : BOOLEAN, done : BOOLEAN]
    <3>1. CASE fin
      <4>1. view' = [state |-> FALSE, done |-> TRUE]
        BY <1>3, <3>1, Zenon DEF Tell
      <4> QED BY <4>1
    <3>2. CASE ~fin
      <4>1. view' = view
        BY <1>3, <3>2, Zenon
      <4> QED BY <4>1 DEF TypeOK
    <3> QED BY <3>1, <3>2
  <2>5. pipe' \in 0..gen' /\ gen' \in 0..MaxGen
    BY <1>3 DEF TypeOK
  <2>6. captureState' \in BOOLEAN /\ captureDone' \in BOOLEAN
    BY <1>3
  <2>7. captureI' \in Nat /\ config' \in Configs /\ epoch' \in Nat
    BY <1>1, <1>3 DEF TypeOK
  <2>8. taskConfig' \in [Gens -> Configs]
    BY <1>3 DEF TypeOK
  <2> QED BY <2>1, <2>2, <2>3, <2>4, <2>5, <2>6, <2>7, <2>8 DEF TypeOK
<1>8. PipelineOwned'
  <2>1. CASE stop
    <3>1. \A h \in Gens : ph[h] \notin {"unborn", "dead", "failed"} => ab[h]
      BY <2>1, AbortLeavesNone DEF ph, ab
    <3>2. ab[g]
      <4>1. ph[g] = "holding"
        BY <1>3, <2>1 DEF ph, AbortedPhase, TypeOK
      <4> QED BY <3>1, <4>1
    <3>3. \A h \in Gens : phase'[h] \notin {"unborn", "dead", "failed"} => aborted'[h]
      BY <1>2, <1>3, <1>4, <3>1, <3>2
    <3>4. pipe' = 0
      BY <1>3, <2>1
    <3> QED BY <3>3, <3>4 DEF PipelineOwned, Over
  <2>2. CASE ~stop
    <3>1. ph = phase /\ ab = aborted /\ pipe' = pipe
      BY <1>3, <2>2 DEF ph, ab
    <3>2. \A h \in Gens : phase'[h] \notin {"unborn", "dead", "failed"} /\ ~aborted'[h] => h = pipe
      BY <1>2, <1>3, <3>1 DEF PipelineOwned, Over, TypeOK
    <3>3. pipe' # 0 => captureState'
      BY <1>3, <2>2, <3>1 DEF PipelineOwned, stop
    <3> QED BY <3>1, <3>2, <3>3 DEF PipelineOwned, Over
  <2> QED BY <2>1, <2>2
<1>9. ViewIsTruth'
  <2>1. CASE fin
    <3>1. captureState' = FALSE /\ captureDone' = TRUE
      BY <1>3, <2>1
    <3> QED BY <1>3, <2>1, <3>1, Zenon DEF ViewIsTruth, Tell
  <2>2. CASE ~fin
    <3>1. captureState' = captureState /\ captureDone' = captureDone
      BY <1>3, <2>2 DEF TypeOK
    <3> QED BY <1>3, <2>2, <3>1, Zenon DEF ViewIsTruth
  <2> QED BY <1>6, <2>1, <2>2
<1>10. CompletionNoticed'
  <2>1. Full(captureI)' = fin
    BY <1>3 DEF Full, fin
  <2> QED BY <1>3, <2>1 DEF CompletionNoticed
<1> QED BY <1>7, <1>8, <1>9, <1>10

\* Every step keeps the invariant.
LEMMA StepInv == Inv /\ [Next]_vars => Inv'
<1> SUFFICES ASSUME Inv, [Next]_vars PROVE Inv'
  OBVIOUS
<1>1. CASE StartCapture
  BY <1>1, StartInv DEF StartCapture
<1>2. CASE StartCaptureFails
  BY <1>2, StartInv DEF StartCaptureFails
<1>3. CASE PauseCapture
  BY <1>3, PauseInv
<1>4. ASSUME NEW c \in Configs, Configure(c) PROVE Inv'
  BY <1>4, ConfigureInv
<1>5. CASE SetInternalGain \/ SetInternalGainFails
  BY <1>5, SetInternalGainInv
<1>6. ASSUME NEW g \in Gens, TransferArrives(g) \/ TransferFails(g) PROVE Inv'
  BY <1>6, WaitingInv
<1>7. ASSUME NEW g \in Gens, HandleTransfer(g) PROVE Inv'
  BY <1>7, HandleInv
<1>8. CASE UNCHANGED vars
  BY <1>8 DEF Inv, TypeOK, ViewIsTruth, PipelineOwned, CompletionNoticed, Full, Over,
              vars, devVars, taskVars
<1> QED BY <1>1, <1>2, <1>3, <1>4, <1>5, <1>6, <1>7, <1>8 DEF Next, Command, Task

\* The invariant of the capture state machine, for every set of
\* configurations, pipeline depth and number of pipelines.
THEOREM CaptureInvariant == Spec => []Inv
BY InitInv, StepInv, PTL DEF Spec

\* Device and tasks are well formed (StreamingDevice, the tasks of the backends).
THEOREM TypeCorrect == Spec => []TypeOK
<1>1. Inv => TypeOK
  BY DEF Inv
<1> QED BY <1>1, CaptureInvariant, PTL

\* Attached clients know what the device is doing (notify_capture_state and
\* notify_config).
THEOREM ClientsSeeTheTruth == Spec => []ViewIsTruth
BY CaptureInvariant, PTL DEF Inv

\* No pipeline that was not aborted outlives its capture (on_pause_capture).
THEOREM PipelinesAreOwned == Spec => []PipelineOwned
BY CaptureInvariant, PTL DEF Inv

\* A full buffer is marked done, a capturing device is not (packet_done,
\* done_capture, start_capture).
THEOREM CompletionIsNoticed == Spec => []CompletionNoticed
BY CaptureInvariant, PTL DEF Inv
=============================================================================
