------------------------------- MODULE Capture -------------------------------
(***************************************************************************)
(* The capture of one streaming device: the state machine of               *)
(* StreamingDevice (streaming.rs) together with the IN pipeline that feeds *)
(* it (usb/m1k.rs, usb/cee.rs).                                            *)
(*                                                                         *)
(* Every handler runs under the device's mutex, so a handler is one step.  *)
(* The IN task of a pipeline is a tokio task of its own.  It waits for a   *)
(* transfer, then blocks for the mutex, then runs handle_in_transfer.      *)
(* abort() ends a task at its next await only: a task that already holds a *)
(* transfer still handles it, whatever happened to the device meanwhile,   *)
(* and goes on as long as it finds transfers that had already completed.   *)
(***************************************************************************)
EXTENDS Integers

CONSTANTS
  Configs,     \* the captures a client may configure, on each backend
  NTransfers,  \* transfers an IN task keeps in flight
  Faults,      \* TRUE: claiming the interface and transfers may fail
  MaxGen,      \* bound: pipelines started
  MaxEpoch,    \* bound: configurations applied
  MaxI         \* bound: samples counted in one run

ASSUME ConfigsAssumption ==
  /\ Configs # {}
  /\ Configs \subseteq [backend : {"m1k", "cee"},
                      samples : Nat, continuous : BOOLEAN, packet : Nat \ {0}]
ASSUME PipelineAssumption ==
  /\ NTransfers \in Nat \ {0}
  /\ Faults \in BOOLEAN
ASSUME BoundAssumption == MaxGen \in Nat /\ MaxEpoch \in Nat /\ MaxI \in Nat

VARIABLES
  \* StreamingDevice
  captureState, captureDone, captureI,
  config,      \* backend, capture_samples, capture_continuous, packets_per_transfer
  epoch,       \* how many times the device was configured
  pipe,        \* backend.tasks: the pipeline it would abort, 0 if none
  gen,         \* pipelines started so far
  \* the IN task of each pipeline
  phase,       \* where the task is
  aborted,     \* abort() was called on it
  taskConfig,  \* the configuration it captured when it was spawned
  submitted,   \* incount
  late,        \* transfers that may still be found complete after abort()
  \* what an attached client was last told of state and done
  view

devVars  == <<captureState, captureDone, captureI, config, epoch, view>>
taskVars == <<pipe, gen, phase, aborted, taskConfig, submitted, late>>
vars     == <<devVars, taskVars>>

Gens == 1..MaxGen
Phases == {"unborn", "waiting", "holding", "dead", "failed"}
\* "holding": the task has a completed transfer and blocks for the mutex.
\* "failed": it left its loop for a transfer that failed.

-----------------------------------------------------------------------------
(* Helpers.                                                                 *)

\* Task g will run no more code.
Over(g) == phase[g] \in {"unborn", "dead", "failed"}

\* The M1K pipeline stops submitting transfers by itself, the CEE one does not.
SelfStop == config.backend = "m1k"

\* The capture has all the samples it was configured for.
Full(i) == ~config.continuous /\ i >= config.samples

\* Seeded fault: the message is built before the state changes.
TellTooEarly(state, done) == view' = [state |-> captureState, done |-> captureDone]

\* notify_capture_state, and the state part of a deviceConfig message.
Tell(state, done) == view' = [state |-> state, done |-> done]

\* on_pause_capture: abort the pipeline.  A task suspended at its await is
\* dropped at once, one that holds a transfer goes on until its next await.
AbortedPhase ==
  [g \in Gens |-> IF g = pipe /\ phase[g] = "waiting" THEN "dead" ELSE phase[g]]
AbortedFlag ==
  [g \in Gens |-> IF g = pipe THEN TRUE ELSE aborted[g]]

\* Seeded fault: the join handles are dropped, which detaches the tasks.
DetachPipeline ==
  /\ pipe' = 0
  /\ UNCHANGED <<gen, phase, aborted, taskConfig, submitted, late>>

AbortPipeline ==
  /\ pipe' = 0
  /\ phase' = AbortedPhase
  /\ aborted' = AbortedFlag
  /\ UNCHANGED <<gen, taskConfig, submitted, late>>

\* The tail of on_start_capture: spawn a pipeline, over task phases ph and
\* abort flags ab.
SpawnOver(ph, ab) ==
  /\ gen < MaxGen
  /\ gen' = gen + 1
  /\ pipe' = gen + 1
  /\ phase' = [ph EXCEPT ![gen + 1] = "waiting"]
  /\ aborted' = ab
  /\ taskConfig' = [taskConfig EXCEPT ![gen + 1] = config]
  /\ submitted' = [submitted EXCEPT ![gen + 1] = NTransfers]
  /\ late' = [late EXCEPT ![gen + 1] = NTransfers - 1]

-----------------------------------------------------------------------------
(* Handlers that clients reach through the WebSocket and REST commands.     *)

Init ==
  /\ captureState = FALSE /\ captureDone = FALSE /\ captureI = 0
  /\ config \in Configs
  /\ epoch = 0 /\ gen = 0 /\ pipe = 0
  /\ phase = [g \in Gens |-> "unborn"]
  /\ aborted = [g \in Gens |-> FALSE]
  /\ taskConfig = [g \in Gens |-> config]
  /\ submitted = [g \in Gens |-> 0]
  /\ late = [g \in Gens |-> 0]
  /\ view = [state |-> FALSE, done |-> FALSE]

\* Seeded fault: a finished capture is not reset.
StartWithoutReset ==
  /\ ~captureState
  /\ captureState' = TRUE
  /\ captureDone' = FALSE
  /\ Tell(TRUE, FALSE)
  /\ UNCHANGED <<captureI, config, epoch>>

\* start_capture; a finished capture is reset first (reset_capture).
StartCommon ==
  /\ ~captureState
  /\ captureState' = TRUE
  /\ captureDone' = FALSE
  /\ captureI' = IF captureDone THEN 0 ELSE captureI
  /\ Tell(TRUE, FALSE)
  /\ UNCHANGED <<config, epoch>>

StartCapture ==
  /\ StartCommon
  /\ SpawnOver(phase, aborted)

\* on_start_capture returns early when the interface cannot be claimed or an
\* endpoint cannot be opened; start_capture does not learn of it.
StartCaptureFails ==
  /\ Faults
  /\ StartCommon
  /\ UNCHANGED taskVars

PauseCapture ==
  /\ captureState
  /\ captureState' = FALSE
  /\ Tell(FALSE, captureDone)
  /\ AbortPipeline
  /\ UNCHANGED <<captureDone, captureI, config, epoch>>

\* configure: pause_capture, the backend's configure, notify_config.  It
\* leaves capture_done alone; the backend of a device never changes.
Configure(c) ==
  /\ epoch < MaxEpoch
  /\ c.backend = config.backend
  /\ captureState' = FALSE
  /\ captureI' = 0
  /\ config' = c
  /\ epoch' = epoch + 1
  /\ Tell(FALSE, captureDone)
  /\ UNCHANGED captureDone
  /\ IF captureState THEN AbortPipeline ELSE UNCHANGED taskVars

\* cee::set_internal_gain while capturing: the pipeline is torn down and
\* restarted inside the handler, capture_state stays as it is.
SetInternalGain ==
  /\ ~SelfStop
  /\ captureState
  /\ SpawnOver(AbortedPhase, AbortedFlag)
  /\ UNCHANGED devVars

SetInternalGainFails ==
  /\ Faults /\ ~SelfStop
  /\ captureState
  /\ AbortPipeline
  /\ UNCHANGED devVars

-----------------------------------------------------------------------------
(* The IN task of pipeline g.                                               *)

\* next_complete() returns a transfer; the task blocks for the mutex.
TransferArrives(g) ==
  /\ phase[g] = "waiting"
  /\ phase' = [phase EXCEPT ![g] = "holding"]
  /\ UNCHANGED <<devVars, pipe, gen, aborted, taskConfig, submitted, late>>

\* next_complete() returns an error: the task leaves its loop.
TransferFails(g) ==
  /\ Faults
  /\ phase[g] = "waiting"
  /\ phase' = [phase EXCEPT ![g] = "failed"]
  /\ UNCHANGED <<devVars, pipe, gen, aborted, taskConfig, submitted, late>>

\* Samples handle_in_transfer decodes: packets that are in the buffer, which
\* has the size configured when the task was spawned, at most
\* packets_per_transfer of the current configuration.
Decoded(g) ==
  IF taskConfig[g].packet < config.packet THEN taskConfig[g].packet ELSE config.packet

\* Seeded fault: the CEE pipeline counts its transfers as the M1K one does.
ResubmitsOnDemand(g) ==
  \/ taskConfig[g].continuous
  \/ submitted[g] * taskConfig[g].packet < taskConfig[g].samples

\* Does the task submit another transfer after this one?
Resubmits(g) ==
  \/ ~SelfStop
  \/ taskConfig[g].continuous
  \/ submitted[g] * taskConfig[g].packet < taskConfig[g].samples

\* Seeded fault: abort() never ends a task.
NeverDropped(g, isAborted) ==
  IF ~Resubmits(g) THEN {"dead"} ELSE IF isAborted THEN {"holding"} ELSE {"waiting"}

\* Where the task goes after handling a transfer.  An aborted task is dropped
\* at its next await unless that finds a completed transfer.
AfterTransfer(g, isAborted) ==
  IF ~Resubmits(g) THEN {"dead"}
  ELSE IF ~isAborted THEN {"waiting"}
  ELSE {"dead"} \cup (IF late[g] > 0 THEN {"holding"} ELSE {})

\* handle_in_transfer under the mutex: the samples are counted, then
\* packet_done checks for completion, and done_capture pauses the device.
HandleTransfer(g) ==
  LET i    == captureI + Decoded(g)
      fin  == Full(i)
      stop == fin /\ captureState
      ab   == IF stop THEN AbortedFlag ELSE aborted
  IN
  /\ phase[g] = "holding"
  /\ i <= MaxI
  /\ captureI' = i
  /\ captureDone' = (captureDone \/ fin)
  /\ captureState' = (captureState /\ ~fin)
  /\ IF fin THEN Tell(FALSE, TRUE) ELSE UNCHANGED view
  /\ pipe' = IF stop THEN 0 ELSE pipe
  /\ aborted' = ab
  /\ \E next \in AfterTransfer(g, ab[g]) :
       /\ phase' = [(IF stop THEN AbortedPhase ELSE phase) EXCEPT ![g] = next]
       /\ late' = [late EXCEPT ![g] = IF next = "holding" THEN @ - 1 ELSE @]
  /\ submitted' = [submitted EXCEPT ![g] = IF Resubmits(g) /\ SelfStop THEN @ + 1 ELSE @]
  /\ UNCHANGED <<config, epoch, gen, taskConfig>>

Command ==
  \/ StartCapture \/ StartCaptureFails
  \/ PauseCapture
  \/ \E c \in Configs : Configure(c)
  \/ SetInternalGain \/ SetInternalGainFails

Task(g) == TransferArrives(g) \/ TransferFails(g) \/ HandleTransfer(g)

Next == Command \/ \E g \in Gens : Task(g)

Spec == Init /\ [][Next]_vars

\* The USB stack delivers the transfers of a task that waits, the runtime
\* polls a woken task and the mutex is handed on.  Clients owe nothing.
Fairness ==
  \A g \in Gens : WF_vars(TransferArrives(g)) /\ WF_vars(HandleTransfer(g))

FairSpec == Spec /\ Fairness

-----------------------------------------------------------------------------
(* Properties.                                                              *)

TypeOK ==
  /\ captureState \in BOOLEAN /\ captureDone \in BOOLEAN /\ captureI \in Nat
  /\ config \in Configs /\ epoch \in Nat
  /\ pipe \in 0..gen /\ gen \in 0..MaxGen
  /\ phase \in [Gens -> Phases]
  /\ aborted \in [Gens -> BOOLEAN]
  /\ taskConfig \in [Gens -> Configs]
  /\ submitted \in [Gens -> Nat]
  /\ late \in [Gens -> Nat]
  /\ view \in [state : BOOLEAN, done : BOOLEAN]

\* What attached clients were last told (captureState and deviceConfig
\* messages) is what the device is doing, whichever of start, pause,
\* configure, completion and late transfers came last.
ViewIsTruth == view = [state |-> captureState, done |-> captureDone]

\* No pipeline outlives the capture that started it: a task that nobody
\* aborted and that may still run belongs to the capture in progress, so two
\* pipelines never feed a device side by side.
PipelineOwned ==
  /\ pipe # 0 => captureState
  /\ \A g \in Gens : ~Over(g) /\ ~aborted[g] => g = pipe

\* Completion is never missed and never survives into the next capture: a
\* bounded buffer that has been filled is marked done, and a device that is
\* capturing is not done.  Late transfers of earlier pipelines included.
CompletionNoticed ==
  /\ captureState => ~captureDone
  /\ captureI > 0 /\ Full(captureI) => captureDone

\* A bounded capture ends: it completes unless a client stops it
\* (packet_done and done_capture).
BoundedCaptureEnds == (captureState /\ ~config.continuous) ~> ~captureState

\* The pipeline of the capture could not be started or a transfer failed.
Broken == pipe = 0 \/ phase[pipe] = "failed"

\* A bounded CEE capture ends unless its pipeline broke, whatever clients and
\* the tasks of earlier captures do: no gain change, late transfer or restart
\* leaves a capture that runs for ever (the resubmission of every transfer in
\* the IN task, and done_capture).
CompletesOrBreaks ==
  (captureState /\ ~config.continuous /\ ~SelfStop) ~> (~captureState \/ Broken)
=============================================================================
