# A formal model of connect-rs

`connect-rs` is the server between Nonolith CEE and ADALM1000 (M1K) source-measure
units and the browser: it streams samples from USB into ring buffers, generates
output waveforms, and serves devices over a WebSocket and a REST protocol. The
TLA+ modules here model the parts of it that are hard to test: what happens when
client commands, USB transfers, hotplug events and slow connections interleave.
TLC checks the modules on small instances, TLAPS proves the main invariants for
every value of the constants. Paths below are relative to the repository's crate
(`src/src/...` in `PROJECT.json`).

## 1. The system

### Components, their state and their operations

| Component | Code | State | Operations |
|---|---|---|---|
| Capture state machine | `streaming.rs` | `capture_state`, `capture_done`, `capture_i`, `capture_o`, the configuration | `start_capture`, `pause_capture`, `done_capture`, `reset_capture`, `configure`, `packet_done` |
| USB pipelines | `usb/m1k.rs`, `usb/cee.rs` | per capture one IN and one OUT task, the transfers in flight | `on_start_capture`, `on_pause_capture`, `handle_in_transfer`, `fill_out_transfer`, `set_internal_gain` |
| Sample buffer | `streaming.rs` | one vector per stream, `capture_i` | `put`, `sample_done`, `get`, `resample`, `allocate` |
| Listeners | `listener.rs` | `index`, `out_index`, `triggered`, hold-off, force index | `listen`, `cancelListen`, `handle_new_data`, `reset`; `GET /input` |
| Client outbox | `device.rs`, `net.rs` | an unbounded channel, an atomic byte counter | `send_json`, `send_binary`, `recv` |
| Registry and sessions | `device.rs`, `usb/mod.rs`, `ws.rs`, `net.rs` | the device list, its change notification, per connection the selected device | `add_device`, `remove_device`, `device_by_id`, `selectDevice`, `on_close` |
| Output sources | `source.rs`, `streaming.rs` | waveform, `start_sample`, `effective`, the arb walker | `set_output`, `get_value`, `phase_zero_after`, `check_output_effective` |
| M1K hardware | `usb/m1k.rs` | requested and hardware mode per channel, frontend switches, calibration, the lead detector | `set_mode`, `write_mode`, `on_set_output`, resync in `handle_in_transfer` |
| CEE hardware | `usb/cee.rs` | gains, current limit, calibration in RAM and EEPROM | `set_internal_gain`, `set_current_limit`, `write_calibration` |
| WebSocket commands | `ws.rs`, `streaming.rs`, `usb/*.rs` | the session's device | `process_message` of the session, of a streaming device and of each backend |
| REST | `rest.rs` | none of its own | capture, configuration, output, input, calibration, frontend |
| HTTP server | `net.rs` | - | routing, origin policy |
| Bootloader, USB passthrough | `usb/bootloader.rs`, `usb/mod.rs` | the list of connections | blocking USB commands |
| Process | `main.rs` | - | start, shutdown |

### How they interact

One mutex per device protects everything in a `StreamingDevice`: the capture
state, the buffer, the listeners and the attached connections. A handler (a WS
command, a REST request, `handle_in_transfer`, `fill_out_transfer`) locks it,
runs without an await and sends all its messages before it unlocks. A handler is
therefore one atomic step of the models, except where it holds no lock (the
outbox's counter, `selectDevice`, `remove_device`) or where its own loop is the
subject (`handle_new_data`).

The tasks that run side by side are: one per connection (`handle_socket`) plus
its writer, one per REST request, the IN and the OUT task of every pipeline, the
hotplug task, and the signal handler of `main`. They meet on the device mutexes,
the registry mutex, the broadcast channel of the device list, and the outboxes.

### What is hard

* `abort()` is asynchronous. A pipeline's task that holds a completed transfer
  and waits for the mutex handles it after the capture was paused, reset,
  reconfigured or started again.
* The two backends end differently: the M1K stops submitting by itself, the CEE
  runs until it is aborted, and restarts its pipeline inside a gain change.
* A start may fail half-way and is reported as a success; a transfer error ends
  a task silently.
* The ring is read at its moving edge, by single reads, by windows and by
  listeners that lag, and keeps the samples of earlier runs.
* A listener is a small program of its own: it scans for a trigger over packets,
  withholds the boundary chunk, re-arms itself inside its loop, and its indices
  are unsigned while offsets are not.
* Data frames are dropped for slow clients by a counter that no lock protects.
* The M1K's hardware mode is written by start, pause, completion, configure and
  `set`, its requested mode by some of them only; a detector moves `capture_o`
  when it believes that the lead of the output stream has changed, while two
  tasks overtake each other and aborted ones have late turns.
* A device has many writers: every WebSocket client that has it selected and any
  REST request. Each is told of changes by small messages that it puts together
  itself, and a request may fail after it has changed something.
* Sessions look devices up and attach to them in two steps; the device list is
  sent before the connection subscribes to its changes; a slow connection lags.

`PROJECT.json` lists these as hazards, each at its line, with the properties that
would catch it going wrong.

### What makes each component correct

* Capture: clients know the true state; no pipeline outlives its capture unless
  it was aborted; completion is noticed; a bounded capture ends; a configuration
  starts from zero.
* Buffer: a read returns the sample of the index asked for, or NaN; what can be
  read stays the same until it leaves the window.
* Listeners: updates join up, the count is exact, nothing that can be sent is
  left, sweeps move forward unless the client asks for a hold-off back over the
  whole sweep, a follower loses nothing.
* Output sources: the arb walker gives the values of the wave, its loop ends,
  phase zero is where triggers look for it, squares change over without a jump,
  a source is reported effective once its effect has come back.
* M1K: a channel that was programmed is in the mode asked for in a capture and in
  HI_Z out of it; a disturbance does not shift the output stream for ever.
* Commands: every client knows the mode, samples, outputs, gains and capture state
  of the device as they are; a request that is refused changes nothing, but for the
  two that the code lets stop half-way; calibration in use is calibration stored; the gains samples are
  divided by are those of the amplifier.
* Outbox: the counter is exact and bounded, JSON is complete and ordered, frames
  are ordered and dropped only when they do not fit.
* Registry: both ends of a session agree, listeners do not outlive sessions, the
  list a client has is current, a device that went is not found again.

## 2. The modules

Each component is a module with its own variables; `MC*` modules and their `.cfg`
files give the constants values; `*Proofs` modules hold the theorems. Names of
variables and operators are those of the code in camel case. "Seeded fault"
definitions are not part of the model: each is a plausible bug of the definition
that follows it (or that it stands beside), and with it in place the property named in `PROJECT.json` fails.

### `Capture`

State: the fields of `StreamingDevice` (`captureState`, `captureDone`,
`captureI`, `config`), `pipe` (the tasks in `backend.tasks`), and for every
pipeline that was ever started the state of its IN task: `phase` (waiting for a
transfer, holding one while it waits for the mutex, failed, ended), `aborted`,
and what it captured at its spawn. `view` is what clients were last told by
`captureState` and `deviceConfig` messages. `epoch` numbers configurations.

Actions: `StartCapture` and `StartCaptureFails` (`start_capture` with the reset
of a finished capture, and `on_start_capture` with and without success),
`PauseCapture`, `Configure`, `SetInternalGain` and `SetInternalGainFails` (CEE),
`TransferArrives` / `TransferFails` (the await in the IN task) and
`HandleTransfer` (`handle_in_transfer`, `packet_done`, `done_capture` and the
decision to go on). An aborted task that waits is dropped at once; one that holds
a transfer goes on, and may find up to `NTransfers - 1` further transfers that
had completed (`late`).

`CompletesOrBreaks` says, with faults possible, that a bounded capture of a
backend that goes on by itself ends unless a transfer or a start failed
(`Broken`): those are the cases in which the code leaves `capture_state` true.

Samples are only counted here; `SampleBuffer` says where they go.

### `SampleLog` and `SampleBuffer`

`SampleLog` is what a reader may rely on and nothing of how it is done: samples are
numbered as they come, a number can be read from when its sample was stored until
it leaves a window of the last samples, and reads the same until then.
`SampleBuffer` is the code.

State: `caps`, `continuous`, `captureI` and the `data` of one stream; `log` is a
history variable with every sample of the run. `Sample` is `put` and
`sample_done`; `Get`, `WindowAvailable` and `Window` are `get` and `resample`.
The refinement mapping (`Log`, `ImplementsLog`) takes `kept` to be what `get` answers for
every index; the ring, the modulus, the stale slots of earlier runs and the guard
at the old edge are what it hides. Values are opaque; the arithmetic of the mean is left out, which samples enter it
is not.

### `Listener`

State: the device's counters, the set `wave` of samples above the trigger level,
the listener's fields, `busy` (the mutex is held for the loop of
`handle_new_data`), `closed` (the REST receiver went away) and the history
`frames` of updates sent. `Pass` is one turn of the loop: `PassClosed`,
`PassIdle`, `PassDeliver`; `FindTrigger` and `HowMany` are `find_trigger` and
`how_many_samples`. `Listen`, `Cancel`, `PacketDone`, `FillOut`, `CaptureReset`
are the steps between its runs. Sample indices are `u64` in the code and wrap at
`Word` here. A negative hold-off that reaches back over the whole sweep can make the
loop find the same trigger for ever, as in the code; `MaxFrames` then stops the model with
the mutex held. `RearmsAhead` tells these requests from all others, and `SweepsAdvance`
and `CaughtUp` are about the others.

Listeners of one device share nothing but its buffer and run one after the
other under the mutex, so one listener is enough. `Listen` replaces a listener of
the same id. `configure` drops all listeners and starts the device over, which
is an initial state.

### `OutputSource`

State: the device's counters and capture flags, the source of one channel
(`source`, `startSample`, `effective`), what `get_value` changes in an arb source
(`startTime`, `index`, `repeat`), and where `fill_out_transfer` and `get_value`
are (`left`, `o`, `rel`). `SetOutput` is `set_output` with `arb()` or
`adv_square()` and `initialize`; `FillPlain` and `FillArb` begin
`fill_out_transfer`; `Ask` enters `get_value`, and `WalkWrap`, `WalkForward`,
`WalkReturn` are the turns of its loop. `InTransfer` is `handle_in_transfer` with
completion and `check_output_effective`. Tasks that were aborted may still fill
(`"late"`) or count (`LateInTransfer`) a transfer, as in `Capture`. A value is
the point it follows and how far; the interpolation between two points is left
out, which points and where is not. `sent`, `returned` and `firstSent` are
histories of the samples that really went over the wire: the device plays one
sample while it takes one, and does not run out of samples to play. The sample counts
of a square are `u32` and so is their sum, which wraps at `Word`; `adv_square` checks
the wrapped one. A square whose period wraps may be high or low for ever and then has
no rise to look for, so `PhaseZeroIsFirst` is about the others.

The two channels of a device are filled together and share nothing but the
counters, so one is enough. This is the CEE; the M1K does the same but for its
detector, which now and then re-anchors `capture_o` and is in `M1k`.

### `M1k`

State: the capture and its counters, `sourceMode`, `mMode` (`m_mode`) and
`hwMode` (what `write_mode` last sent, kept by the hardware when the process
dies), the two tasks with their loop counters, the turns aborted tasks may still
have (`stale`), and the detector's fields. `lead` is `capture_o - capture_i` in
packets of 256 samples: all the code ever does to the two counters is add whole
packets, and the detector corrects what exceeds half a packet, so nothing is lost.

Actions: `StartCapture` with its two partial failures (`StartUnclaimed`,
`StartWithoutEndpoints`), `PauseCapture`, `Configure`, `SetOutput`; `HandleIn`
and `Refill` for the tasks' turns, `FillFirst` for the OUT task's first transfers,
`HandleStaleIn` and `FillStale` for late turns; `Restart` for a crash. `Receive`
is `packet_done` with completion, `Detect` the end of `handle_in_transfer`. A
stall (`stalled`) is a transfer that the other direction has no match for.
`ModesAgree` is about channels that were programmed since the process started,
because `create` programs none; `Realigns` is about a lead that nothing but the
two tasks' taking turns has moved for a whole window.

### `Commands`

State: what commands can change of a device of any kind (configuration, output,
gains and the hardware's, current limit, capture, calibration in RAM and EEPROM, a
frontend switch, the program a bootloader writes), who has it selected, the names
of listeners, and `view`, what each client has put together from `deviceConfig`,
`outputChanged`, `gainChanged` and `captureState`. `reply` is the last answer.

An action is a WebSocket command or a REST request with all it does under the
mutex, also where it does not parse: `Refused` when nothing was touched before,
its own disjunct when something was (`Listen` cancels first, `RestInputPost` sets
gains in order, `Calibrate` changes RAM before the EEPROM). `Configure` takes the
gains over from the channels there are; `Replug` is `create` from the EEPROM.
`Panic` is the IN handler of a CEE that was configured without channels: the mutex
is poisoned and no command gets through any more. Listeners and captures are only
names and flags here; `Listener` and `Capture` have the rest, `Registry` the
look-up before `SelectDevice`.

### `MessageQueue` and `Outbox`

`MessageQueue` is what senders and client may rely on: a queue whose sends and
receipts are one step each, which takes a data frame exactly when it fits and loses
nothing it took. `Outbox` is how it is done:

State: the channel, the atomic counter, where the sender is in `send_binary`,
what the writer holds, and histories. `CheckBacklog`, `Account`, `Enqueue` are
the three steps of `send_binary`, `Take` and `Settle` the two of `recv`. Frames
have abstract lengths. The frames of a client come from one thread at a time:
they are sent under the mutex of the device it is attached to. In `ImplementsQueue`
a frame counts as sent when it is pushed or dropped, and a message as received when
`recv` has accounted for it.

### `Registry`

State: the set of devices (a `DevicePtr` each, with an id that need not be
unique: hardware plugged in again is a new device of the same id), what the
hotplug task has yet to do, connections and listeners per device, and per
connection where it is in its life and in `selectDevice`, the device it found
and the one it has, its receiver (`pending`, `lagged`) and the histories `list`,
`missed` and `told`. One action per lock region or channel call.

## 3. The runs

| Run | Module, cfg | Expect | What it shows |
|---|---|---|---|
| `capture` | `MCCapture` | pass | `TypeOK`, `ViewIsTruth`, `PipelineOwned`, `CompletionNoticed`, `CompletesOrBreaks` on both backends, with faults |
| `capture_m1k_live` | `MCCaptureM1kLive` | violation | `BoundedCaptureEnds` fails on the M1K, without any fault |
| `buffer` | `MCSampleBuffer` | pass | `ReadExact`, `WindowExact`, `ImplementsLog` |
| `listener` | `MCListener` | pass | `Contiguous`, `CountExact`, `CaughtUp`, `FollowerLosesNothing`, `SweepsAdvance`, with hold-offs and offsets of both signs |
| `listener_edge` | `MCListenerEdge` | violation | `EdgesFromTwoTrigger` fails for an edge on a packet boundary |
| `output` | `MCOutputSource` | pass | `WalkIsWave`, `PhaseZeroIsFirst`, `WalkEnds`, `PhaseContinues`, `EffectiveIsSeen` |
| `outbox` | `MCOutbox` | pass | `CounterExact`, `BacklogBounded`, `JsonComplete`, `FramesOrdered`, `ImplementsQueue`, `JsonDelivered` |
| `registry` | `MCRegistry` | pass | `SessionsAgree`, `ListenersOwned`, `ListFresh`, `GoneIsNotFound` |
| `registry_told` | `MCRegistryTold` | violation | `DisconnectIsTold` fails for a client that attaches late |
| `m1k` | `MCM1k` | pass | `ModesAgree`, `Realigns`, with stalls, crashes, failed starts and late turns |
| `commands` | `MCCommands` | pass | `ViewsAreTrue`, `CalibrationKept`, `ErrorsChangeNothing` on a device of every kind |
| `commands_gain` | `MCCommandsGain` | violation | `GainIsHardware` fails after a configure to a mode without channels and back |

Every passing run checks the `TypeOK` of its module too.

A run that expects a violation states what a comment, a test or the
repository's README says and what the code does not do; `findings` in
`PROJECT.json` quotes the line and tells the story.

### Bounds, and why they are enough

* `capture`: three pipelines, two configurations applied, six samples in a run.
  A packet of 2 samples does not divide a capture of 3, so a bounded capture
  overshoots; the continuous configuration has packets of 1, so late transfers
  of another size than configured occur. Two pipelines overlap whenever one
  holds a transfer while the next is started; the third lets two late ones
  overlap with a live one. Two transfers in flight (the code keeps more) suffice
  for "the last transfers are not handled" and for "an aborted task finds
  another completed transfer".
* `buffer`: no buffer, one, two and three slots, seven samples: every ring goes
  round at least twice and is read at every index and window.
* `listener`: packets of 3 samples, a buffer of 7, four packets, decimation by 1,
  2 and 3 (with and without remainder), counts below, at and above what one
  packet delivers, starts before, at and after the data; offsets below, at and
  above the hold-off; negative hold-offs that go back into the sweep, over the whole
  of it and over more. Seven updates (`MaxFrames`) are more than any listener sends here
  whose hold-off does not reach back over its sweep, so they cut only the loops
  that would not end. A `Word` of 1024 is far above any index that has not
  wrapped below zero, as 2^64 is.
* `output`: packets of 2 samples, two transfers in flight, a bounded capture of 5
  that ends at 6, one late transfer at a time in each direction. The points of
  the waves lie on and off packet boundaries and on each other; waves of one
  pass, of two and three, and endless, several passes within the ten samples
  asked for; waves that begin here, at a sample to come and at one that is past;
  squares whose periods divide each other and do not; sources that are refused. A
  `Word` of 16 is above every period but those that are there to wrap: one to two
  samples, one to none, which is refused.
* `outbox`: two small frames and half of a large one exceed the limit, so every
  combination of fits and does not fit occurs; four frames, two JSON messages.
* `registry`: two clients (interchangeable, hence the symmetry), a board that is
  plugged in twice, a notification channel of 2 so that a connection lags.

* `m1k`: one channel (channels share nothing but the steps that write them all),
  two modes; a continuous capture with transfers of two packets and a bounded one
  of three packets with transfers of one, so that late turns carry another size
  than the capture they land in and a bounded capture is completed by any task.
  Two transfers in flight, one transfer of settling, windows of two, tasks that
  are at most one transfer apart, one stall per capture; two windows after a
  disturbance are told from one and none. The proofs do without these bounds.
* `commands`: two clients and REST, so that one client's change is told to the
  other; two streams, so that a POST of gains stops after the first; two gains and
  one that is not in the table; a mode with channels and one without; one set of
  calibration constants besides the default.

`CHECK_DEADLOCK FALSE` stands where a system at rest is a final state of the
bounded model (all pipelines used, all samples counted, the connection closed, the device's
mutex poisoned).

### Fairness

`Capture`: weak fairness of `TransferArrives` and `HandleTransfer` for every
task, that is, a device that was started delivers its transfers, the runtime
polls a task that was woken, and the mutex is handed on. No fairness for
clients. `BoundedCaptureEnds` is run without faults; `CompletesOrBreaks` with
them, and it excepts a pipeline that failed, which never ends its capture. `Outbox`: weak fairness of the writer (a client that reads) and of
the sender inside `send_binary`; `JsonDelivered` allows for the connection to
end. `OutputSource`: weak fairness of the turns of `get_value`'s loop, that is,
of a thread inside a function. Nothing else is assumed.

## 4. The proofs

All proofs are for every value of the constants under the named assumptions of
the modules (`ConfigsAssumption`, `PipelineAssumption`, `BoundAssumption`,
`BufferAssumption`, `RequestsAssumption`, `DeviceAssumption`, `DetectorAssumption`,
`RegistryAssumption`, `OutputAssumption`, `WordAssumption`, `SourcesAssumption`,
`OutboxAssumption`), which say no more than the types of
the code's fields: positive packet sizes, a NaN that is no sample value, devices
with ids.

Two theorems, `NothingIsLeft` and `SweepsAlwaysAdvance` of `ListenerProofs`, have one
hypothesis more, `RoomFor(S)`: no field of a request exceeds some `S` in size
(counts, and starts that reach back, may), and the word is more than eight times the
sum of `S` and the bounds on the counters. It is about size alone: offsets and
hold-offs have either sign. The code does not enforce it. It holds for every
request that means samples a device could take in its lifetime, as a `u64` is far
larger than those; a client that asks for a start near 2^63 gets an index that is read as
negative. Both properties speak of requests that re-arm ahead (`RearmsAhead`: a negative
offset, no count, or a sweep longer than its hold-off takes back). This is not
convenience: for the others the same trigger may be found again, and TLC shows that with
`>=` for `>` in `RearmsAhead` sweeps no longer advance. `MCListener` assumes `RoomFor(5)` of its instance, so that TLC
evaluates it on the requests the runs use. Both invariants are properties of
`listener` for the same instance.

* `CaptureProofs`: `CaptureInvariant`, from which `ClientsSeeTheTruth`,
  `PipelinesAreOwned` and `CompletionIsNoticed`. The conjunction of the checked
  invariants is inductive as it stands. The parts need each other: completion by
  a late transfer may only pause the device because a capturing device is never
  done (`CompletionNoticed`), and an abort leaves no task behind because every
  task that is not aborted is in `backend.tasks` (`PipelineOwned`). The lemma
  `DecodedPositive` needs packets to be positive, or a device of zero samples
  would count as full without being marked done.
* `SampleBufferProofs`: `BufferInvariant`, `ReadsAreExact`, `WindowsAreExact`, and
  `BufferImplementsLog`, the refinement of `SampleLog`: the initial states map to
  an initial state, `Sample` to `SampleComes`, `ResetCapture` and `Configure` to
  `Restart`.
  `ReadExact` is not inductive: the invariant `SlotsHoldLog` says that every
  retained sample, available to `get` or not, is in its slot. The step for `put`
  rests on `SlotsDistinct`: two indices less than a lap apart differ modulo the
  size.
* `TypeCorrect` of every module: the type invariants follow from the inductive ones.
  For the `Listener` that covers the indices that an offset takes below zero and the
  cast wraps; for the `OutputSource` it needs the whole invariant of its walker.
* `ListenerProofs`: `ListenerInvariant`, from which `UpdatesAreContiguous` and
  `CountsAreExact`. Both speak of updates already sent, so the invariant links
  them to the listener's own fields: `Resumes` says that the listener goes on at
  the sample and output where the last update stopped, and that a sweep under
  way has its trigger, so that the search does not move the index
  (`SweepKeepsIndex`); `CountNotReached` that a listener with its count met is
  gone, so that the clamp never runs past the count (`HowManyBounds`). That the
  index stays a natural number rests on the least element of a set of edges,
  from the well-foundedness of the naturals (`LeastIndex`).
  `FollowersLoseNothing`: a listener without trigger is at most a chunk behind
  after its turn and a packet more before it (`CloseBehind`), so a buffer larger
  than both still holds all it reads, and its index never
  wraps (`NoWrap`).
  `NothingIsLeft` and `SweepsAlwaysAdvance` are about indices that do wrap: an offset
  or a sweep's end may lie below zero. `Located` says where an index can be (before a trigger
  at most a request and one sample beyond the data, after it at most `S` below zero),
  so that `Signed` of it is its value (`SignedReading`, `GoOn`). With it every way
  to leave the loop leaves nothing to send (`IdleCaughtUp`, `DeliverCaughtUp`).
  `SweepBehind` says that every sweep's start is before all places where the next
  trigger may be found, and by as much behind the index as was sent of it.
  `DeliveryRearms` puts a delivery that ends a sweep together: the whole count lies
  between the start and where the listener is, so a hold-off that takes back less
  keeps it ahead, and for a negative offset the clamp makes the hold-off positive
  and their sum non-negative (`HoldoffClamped`).
* `OutboxProofs`: `CounterIsExact`, `BacklogIsBounded`, `JsonIsComplete`,
  `FramesAreOrdered` and `OutboxImplementsQueue`. The bytes of a queue are a sum over its
  length. The library's induction theorems cannot be used, so `Induction` states the
  principle for a set of numbers closed under successor, from the least counterexample, and the
  sums follow (`BytesAppend`, `BytesTail`). `Counted` extends `CounterExact` by
  the bound the sender has passed: once past its check, the counter leaves room for the
  frame, and until the frame is accounted only the writer moves it, down. `Ordered`
  joins received and queued messages into one stream that only grows at its end
  (`StreamPushed`) and is only cut in two elsewhere (`StreamReceived`), with the frame in
  the sender's hand behind all of them.
  `OutboxImplementsQueue` refines `MessageQueue` step by step: a check that drops is
  `LoseFrame`, since the counter of an idle sender is what the client has yet to receive
  (`PendingBytes`); `Enqueue` is `SendFrame`, since the counter already has the frame and is
  still within the limit; `Settle` is `Receive`; `Account`, `Take` and a check that passes
  are not seen.
* `OutputSourceProofs`: `EffectIsSeen`, `PhaseZeroFirst`, `PhasesContinue` and
  `WalkerIsWave`. The code compares
  `captureI` with `startSample`, the property speaks of samples that really went out
  and came back. The invariant that links them: the encoder is ahead of the IN stream
  by all samples under way, or more (`OnTheirWay`), so a source set now starts behind
  them (`StartsBehind`). `PhaseZeroFirst` rests on remainders alone: those of
  numbers less than a period apart differ (`RemaindersDiffer`), so the sum that
  `phase_zero_after` adds reaches the wanted one first (`NextWithRemainder`); and
  `initialize` starts an arb wave whole periods from its phase (`Placed`).
  `PhasesContinue` adds that `f64::round` is off by no more than a half
  (`RoundedNear`), also where it rounds up to a whole period and the phase starts over.
  `WalkIsWave` speaks of the answers alone, so it needs to know the walker at rest:
  `Walker` says how many passes are over (`PassOf`), that the last sample asked for
  had reached the point it stands at (`ReachedBy`), and that it rests at the
  last point only without a pass left. A return then lies either between two
  points, which are sorted (`PointsSorted`, `LastPassed`), or past all passes
  (`PastTheEnd`). Validation is needed for it: a wave that repeats has a length
  (`RepeatsHaveLength`), or the start of the pass would not move.
  `WalkDescends` is the part of `WalkEnds` that can be proved: while a transfer is filled
  only the turns of `get_value` happen, and each of them descends in the samples left,
  the question, the time left to walk and the points ahead, in this order (`Closer`).
* `RegistryProofs`: `RegistryInvariant`, from which `SessionsAlwaysAgree`,
  `ListenersAreOwned`, `ListsAreFresh` and `GoneIsNeverFound`. `SessionsAgree`
  needs to know that a connection between two devices has none
  (`SessionShape`); `ListFresh` is extended back to the time before the
  connection subscribes (`ListFreshEarly`); `GoneIsNotFound` rests on
  `ToldIsGone`: who was told of a device was told after it left the registry.

* `M1kProofs`: `TypeCorrect`, `HardwareFollows`, `LeadRealigns`. `ModesAgree` is
  inductive with the types. `Realigns` is not: it speaks of the end of a window,
  and the minimum is collected during it. `Aligned` says that from the first
  undisturbed window on there is a baseline, and that the minimum of the window
  that runs was taken over a lead that only the two tasks' turns have moved
  (`MinNear`). An IN transfer and an OUT refill move the lead and the skew alike,
  so `EvenLead` stands still between disturbances (`RefillAligned`,
  `DetectAligned`). The arithmetic holds for any transfer size, window and skew.
* `CommandsProofs`: `TypeCorrect`, `ViewsStayTrue`, `CalibrationStaysKept`,
  `ErrorsAreQuiet`. Types and views are one induction (`Inductive`), as what a
  client is told has the type of what the device is. A step is either unseen, or
  its broadcast amounts to the whole picture (`AllTold`): for `outputChanged`,
  `captureState` and `gainChanged` because the client had the rest right before
  (`OutputTold`, `CaptureTold`, `GainsTold`). That a POST which stops half-way has
  told everybody what it did change follows from `ViewsAreTrue` of the next state
  (`InputIsQuiet`). `CalibrationKept` needs only that gains which were given are
  loaded as stored (`LoadGiven`).

Only model-checked: liveness (`CompletesOrBreaks`, `BoundedCaptureEnds`,
`JsonDelivered`, `WalkEnds`), which is out of the prover's reach under fairness.
Every other property of a passing run is a theorem. `BoundedCaptureEnds` and the
other properties of the runs that expect a violation are false of the code.

## 5. What is not modelled, and the plan

Left out for good: HTTP set-up and origin matching, form and JSON parsing, number
formatting, calibration and scaling formulas, sample packing, EEPROM layout, digital
potentiometer values, LEDs, power and temperature reads, serial numbers, and the
passthrough's blocking USB calls. They are pure functions or plain I/O, and no
property above depends on them. Sources of floating-point period (sine, triangle,
square) are out of TLC's reach; they have no state. The process's start and its
argument parsing have no state of their own; a crash and the next start are in `M1k`.

Seen on the way and not checked by a run, because no line of the repository says
otherwise or because the program's purpose leaves it open:

* A late transfer of an aborted pipeline is counted after `configure` has zeroed the
  counters (`usb/m1k.rs`, `handle_in_transfer`).
* The last frame of a counted binary listener alone says that it is done and may be
  dropped for a slow client, as any data frame (`device.rs`).
* A bounded capture that overshoots answers NaN for its first samples though it
  still holds them (`get`, `streaming.rs`).
* A pause, a restart or a reset of the capture sends `capture_o` back and leaves the
  arb walker where it is; it then answers the value it had reached
  (`source.rs`, `get_value`).
* The M1K's lead moves by late turns of aborted tasks, and a baseline survives a
  pause, so that the detector may re-anchor without any stall of the host, which
  the comment at `usb/m1k.rs:777` gives as the only reason. A baseline taken
  below zero and kept over a configure would make the cast at `usb/m1k.rs:811`
  wrap.
* Samples that are in flight when a channel changes its mode were encoded for the
  old one.
* `writeCalibration` of a CEE without current gains leaves the value of an empty
  field in RAM until the device is plugged in again (`usb/cee.rs`).
* A POST of the configuration without a current limit sends zero, which the CEE
  ignores; a limit that did change is not told to the other clients.
* A negative hold-off is accepted (`listener.rs:358`, `make_stream_listener`). With an
  offset that is not negative and a hold-off that takes back the whole sweep or more,
  the next search may find the trigger that was just used, without end under the
  device's mutex: the clamp compares the hold-off with negative offsets only.
* A device that is unplugged in a capture leaves `capture_state` true
  (`streaming.rs`, `on_disconnect`) on a device that nobody can look up any more.
* A start that fails is told as a capture that runs: what clients see agrees with what
  the device believes (`ViewIsTruth`), and neither with the hardware.
* A handler that panics poisons its device's mutex, after which every look-up that
  walks the registry panics as well.
* A device plugged in between the first scan and the hotplug watch is in neither
  (`usb/mod.rs`); a client may restart a capture that the shutdown has just paused
  (`main.rs`).

Planned, most important first:

1. A composition of `Capture` and `Listener`: updates across completion, reset
   and late transfers.
2. Two channels in `M1k`, with the frontend switches and the order of the USB calls
   of a start; the shutdown against clients that still run.
3. What of the other liveness properties can be stated as a descent of the steps, as
   `WalkDescends` does for `WalkEnds`.
