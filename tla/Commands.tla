------------------------------- MODULE Commands -------------------------------
(***************************************************************************)
(* The commands of one device: WebSocket messages (ws.rs, process_message  *)
(* of streaming.rs, usb/m1k.rs, usb/cee.rs and usb/bootloader.rs) and REST *)
(* requests (rest.rs), well formed or not, what they change, what they     *)
(* answer and what they tell the clients that are attached.                *)
(*                                                                         *)
(* A handler runs under the device's mutex and is one step.  A request     *)
(* parses or does not (good); where it fails after it has changed          *)
(* something, that is part of the step.  One channel stands for both.      *)
(* Listeners are only their names here, captures only their state; the     *)
(* modules Listener and Capture have the rest.                             *)
(***************************************************************************)
EXTENDS Integers, Sequences

CONSTANTS
  Clients, Ids,
  Kinds,        \* the backends
  Streams,      \* the streams of the channel, in order
  Modes,        \* device modes a client asks for; the CEE has channels in 0 only
  Samples,      \* capture_samples a client asks for
  Outputs, Off, \* sources, and the one that configure installs
  Gains, Normal,\* gains of the CEE's table, and the default
  Odd,          \* a gain that is not in the table
  Absent,       \* a parameter that is not given
  Bad,          \* a parameter that is not a number
  Limits,       \* current limits of the CEE
  CalData,      \* calibration constants without the current gain
  DefaultData,  \* those in RAM without an EEPROM
  None

ASSUME DeviceAssumption ==
  /\ Kinds \subseteq {"m1k", "cee", "bootloader"}
  /\ Streams \in Seq(STRING)
  /\ 0 \in Modes /\ Modes \subseteq Nat
  /\ Off \in Outputs /\ Normal \in Gains /\ Odd \notin Gains
  /\ {Absent, Bad} \cap (Gains \cup {Odd}) = {}
  /\ DefaultData \notin CalData
  /\ None \notin [data : CalData \cup {DefaultData}, gain : {"given", "missing", "default"}]

VARIABLES
  kind,
  mode, samples,               \* dev_mode, capture_samples
  output, gain,                \* of the channel
  hwGain,                      \* external: the gains the CEE was last told
  limit,                       \* current_limit
  captureState, captureDone,
  ram, eeprom,                 \* calibration in use and on the board
  frontend,                    \* a switch of the M1K's frontend
  flash,                       \* external: the program a bootloader writes
  attached, listeners,         \* clients with the device selected; (client, id)
  poisoned,                    \* a handler panicked under the mutex
  view,                        \* what each client was last told, put together
  reply,                       \* history: the answer to the last request
  dirty                        \* history: RAM calibration was set on its own

cfgVars  == <<mode, samples, output, gain, hwGain, limit>>
capVars  == <<captureState, captureDone>>
calVars  == <<ram, eeprom, dirty>>
connVars == <<attached, listeners>>
vars == <<kind, cfgVars, capVars, calVars, frontend, flash, connVars, poisoned, view, reply>>

-----------------------------------------------------------------------------
(* Helpers.                                                                 *)

Names == {Streams[k] : k \in 1..Len(Streams)}
NormalGains == [s \in Names |-> Normal]

\* cee::configure and m1k::configure: which modes have channels.
HasChannels(m) == kind = "m1k" \/ (kind = "cee" /\ m = 0)

\* What create makes of the EEPROM: defaults without one, and the default
\* current gain where none was stored.
Load(e) == IF e = None THEN [data |-> DefaultData, gain |-> "default"]
           ELSE [e EXCEPT !.gain = IF @ = "missing" THEN "default" ELSE @]

\* The part of the state that deviceConfig carries and that is told again
\* whenever it changes; the current limit and the frontend are not.
Picture == [mode |-> mode, samples |-> samples, output |-> output, gain |-> gain,
            state |-> captureState, done |-> captureDone]

\* The broadcasts, over the state the handler leaves.
TellConfig == view' = [c \in Clients |-> IF c \in attached THEN Picture' ELSE view[c]]
TellOutput ==
  view' = [c \in Clients |-> IF c \in attached THEN [view[c] EXCEPT !.output = output'] ELSE view[c]]
TellCapture ==
  view' = [c \in Clients |->
             IF c \in attached THEN [view[c] EXCEPT !.state = captureState', !.done = captureDone']
             ELSE view[c]]

\* Seeded fault: only the first gain of a request is broadcast.
TellFirstGain(S) ==
  view' = [c \in Clients |->
             IF c \in attached
             THEN [view[c] EXCEPT !.gain = [s \in Names |->
                     IF s = Streams[1] /\ s \in S THEN gain'[s] ELSE @[s]]]
             ELSE view[c]]
\* notify_gain_changed for each stream of S.
TellGains(S) ==
  view' = [c \in Clients |->
             IF c \in attached
             THEN [view[c] EXCEPT !.gain = [s \in Names |-> IF s \in S THEN gain'[s] ELSE @[s]]]
             ELSE view[c]]

Answer(kindOf, cmd, about) == reply' = [kind |-> kindOf, cmd |-> cmd, about |-> about]
Ok(cmd)  == Answer("ok", cmd, None)
Silent   == Answer("none", "none", None)

\* The request is refused before it touches anything.
Refused(cmd) ==
  /\ Answer("error", cmd, None)
  /\ UNCHANGED <<kind, cfgVars, capVars, calVars, frontend, flash, connVars, poisoned, view>>

\* A message of client c reaches the device it has selected, a REST request
\* any streaming device.
ByWs(c) == c \in attached /\ ~poisoned
ByRest  == kind # "bootloader" /\ ~poisoned

-----------------------------------------------------------------------------
(* Sessions.                                                                *)

Init ==
  /\ kind \in Kinds
  /\ mode = 0 /\ samples \in Samples
  /\ output = Off /\ gain = NormalGains /\ hwGain = NormalGains
  /\ limit \in Limits
  /\ captureState = FALSE /\ captureDone = FALSE
  /\ eeprom = None /\ ram = Load(eeprom) /\ dirty = FALSE
  /\ frontend = FALSE /\ flash = "app"
  /\ attached = {} /\ listeners = {} /\ poisoned = FALSE
  /\ view = [c \in Clients |-> None]
  /\ reply = [kind |-> "none", cmd |-> "none", about |-> None]

\* select_device: a client that selects the device again is detached first,
\* which ends its listeners.
SelectDevice(c) ==
  /\ ~poisoned
  /\ attached' = attached \cup {c}
  /\ listeners' = {l \in listeners : l[1] # c}
  /\ view' = [view EXCEPT ![c] = Picture]
  /\ Ok("selectDevice")
  /\ UNCHANGED <<kind, cfgVars, capVars, calVars, frontend, flash, poisoned>>

\* Seeded fault: the listeners of a client that leaves stay.
CloseKeepsListeners(c) ==
  /\ ByWs(c)
  /\ attached' = attached \ {c}
  /\ view' = [view EXCEPT ![c] = None]
  /\ Silent
  /\ UNCHANGED <<kind, cfgVars, capVars, calVars, frontend, flash, listeners, poisoned>>

\* on_close.
Close(c) ==
  /\ ByWs(c)
  /\ attached' = attached \ {c}
  /\ listeners' = {l \in listeners : l[1] # c}
  /\ view' = [view EXCEPT ![c] = None]
  /\ Silent
  /\ UNCHANGED <<kind, cfgVars, capVars, calVars, frontend, flash, poisoned>>

\* The board is pulled out and plugged in again: create makes a new device,
\* which nobody has selected.
Replug ==
  /\ ~poisoned
  /\ mode' = 0 /\ samples' \in Samples /\ limit' \in Limits
  /\ output' = Off /\ gain' = NormalGains /\ hwGain' = NormalGains
  /\ captureState' = FALSE /\ captureDone' = FALSE
  /\ ram' = Load(eeprom) /\ dirty' = FALSE /\ frontend' = FALSE
  /\ attached' = {} /\ listeners' = {}
  /\ view' = [c \in Clients |-> None]
  /\ Silent
  /\ UNCHANGED <<kind, eeprom, flash, poisoned>>

-----------------------------------------------------------------------------
(* Commands of every streaming device.                                      *)

\* configure: the capture is paused, channels and sources are made anew.  The
\* CEE takes the gains over from the channels it had.
Configure(m, n) ==
  LET real == IF kind = "m1k" THEN 0 ELSE m IN
  /\ mode' = real /\ samples' = n
  /\ output' = Off
  /\ gain' = IF kind = "cee" /\ HasChannels(mode) /\ HasChannels(real) THEN gain ELSE NormalGains
  /\ captureState' = FALSE
  /\ listeners' = {}
  /\ UNCHANGED <<kind, hwGain, captureDone, calVars, frontend, flash, attached, poisoned>>
  /\ TellConfig

\* Only the CEE has a current limit, of three values.
Limited(l) == limit' = IF kind = "cee" /\ l \in Limits THEN l ELSE limit

WsConfigure(c) ==
  /\ ByWs(c) /\ kind # "bootloader"
  /\ \/ Refused("configure")
     \/ /\ \E m \in Modes, n \in Samples : Configure(m, n)
        /\ UNCHANGED limit
        /\ Ok("configure")

\* rest_configure parses everything first; mode and the rest are kept.
RestConfigure ==
  /\ ByRest
  /\ \/ Refused("configuration")
     \/ /\ \E n \in Samples : Configure(mode, n)
        /\ \E l \in Limits \cup {Absent} : Limited(l)
        /\ Ok("configuration")

\* start_capture and pause_capture, from either side.
StartCapture ==
  /\ ByRest
  /\ captureState' = TRUE
  /\ captureDone' = IF captureState THEN captureDone ELSE FALSE
  /\ IF captureState THEN UNCHANGED view ELSE TellCapture
  /\ Ok("startCapture")
  /\ UNCHANGED <<kind, cfgVars, calVars, frontend, flash, connVars, poisoned>>

PauseCapture ==
  /\ ByRest
  /\ captureState' = FALSE
  /\ UNCHANGED <<kind, cfgVars, captureDone, calVars, frontend, flash, connVars, poisoned>>
  /\ IF captureState THEN TellCapture ELSE UNCHANGED view
  /\ Ok("pauseCapture")

\* set, and POST of an output: no such channel, or a source that is refused.
SetOutput(out) ==
  /\ ByRest
  /\ \/ Refused("set")
     \/ /\ HasChannels(mode)
        /\ output' = out
        /\ TellOutput
        /\ Ok("set")
        /\ UNCHANGED <<kind, mode, samples, gain, hwGain, limit, capVars, calVars, frontend,
                       flash, connVars, poisoned>>

\* set_gain of the streams S to the gains of want; only the CEE has gains, and
\* one that is not in its table is ignored without an error.
SetGains(S, want) ==
  LET set == {s \in S : kind = "cee" /\ want[s] \in Gains} IN
  /\ gain'   = [s \in Names |-> IF s \in set THEN want[s] ELSE gain[s]]
  /\ hwGain' = [s \in Names |-> IF s \in set THEN want[s] ELSE hwGain[s]]
  /\ TellGains(set)
  /\ UNCHANGED <<kind, mode, samples, output, limit, capVars, calVars, frontend, flash,
                 connVars, poisoned>>

WsSetGain(c) ==
  /\ ByWs(c) /\ kind # "bootloader"
  /\ \/ Refused("setGain")
     \/ /\ HasChannels(mode)
        /\ \E s \in Names, g \in Gains \cup {Odd} : SetGains({s}, [t \in Names |-> g])
        /\ Ok("setGain")

\* rest_input_post goes through the streams in order and stops at the first
\* gain that is not a number.
Before(want) ==
  {Streams[k] : k \in {j \in 1..Len(Streams) : \A i \in 1..j : want[Streams[i]] # Bad}}

RestInputPost ==
  /\ ByRest /\ HasChannels(mode)
  /\ \E want \in [Names -> Gains \cup {Odd, Absent, Bad}] :
       /\ SetGains(Before(want), want)
       /\ IF Before(want) = Names THEN Ok("input") ELSE Answer("error", "input", None)

WsSetCurrentLimit(c) ==
  /\ ByWs(c) /\ kind # "bootloader"
  /\ \/ Refused("setCurrentLimit")
     \/ /\ \E l \in Limits \cup {Absent} : Limited(l)
        /\ Ok("setCurrentLimit")
        /\ UNCHANGED <<kind, mode, samples, output, gain, hwGain, capVars, calVars, frontend,
                       flash, connVars, poisoned, view>>

\* listen cancels the listener of that id before it looks at the rest.
Listen(c, id) ==
  /\ ByWs(c) /\ kind # "bootloader"
  /\ \/ Refused("listen")
     \/ /\ listeners' = listeners \ {<<c, id>>}
        /\ Answer("error", "listen", <<c, id>>)
        /\ UNCHANGED <<kind, cfgVars, capVars, calVars, frontend, flash, attached, poisoned, view>>
     \/ /\ HasChannels(mode)
        /\ listeners' = listeners \cup {<<c, id>>}
        /\ Ok("listen")
        /\ UNCHANGED <<kind, cfgVars, capVars, calVars, frontend, flash, attached, poisoned, view>>

CancelListen(c, id) ==
  /\ ByWs(c) /\ kind # "bootloader"
  /\ \/ Refused("cancelListen")
     \/ /\ listeners' = listeners \ {<<c, id>>}
        /\ Ok("cancelListen")
        /\ UNCHANGED <<kind, cfgVars, capVars, calVars, frontend, flash, attached, poisoned, view>>

-----------------------------------------------------------------------------
(* Commands of one backend.                                                 *)

\* Seeded fault: the EEPROM is written before the constants are replaced.
StoredEarly(new) == ram
Stored(new) == new

\* Calibration: RAM first, then the EEPROM, whose write may fail.
Calibrate(new) ==
  /\ ram' = new
  /\ \E ok \in BOOLEAN :
       /\ eeprom' = IF ok THEN Stored(new) ELSE eeprom
       /\ dirty' = (~ok \/ new.gain = "missing")
  /\ UNCHANGED <<kind, cfgVars, capVars, frontend, flash, connVars, poisoned, view>>

\* Seeded fault: the arrays are stored one by one as they are parsed.
RefusedHalfway ==
  /\ ram' \in [data : CalData, gain : {"given"}]
  /\ dirty' = TRUE
  /\ Answer("error", "writeCalibration", None)
  /\ UNCHANGED <<kind, cfgVars, capVars, eeprom, frontend, flash, connVars, poisoned, view>>
\* One of the constants is missing.
RefusedCalibration == Refused("writeCalibration")

\* The M1K's constants, by message or POST, which may also reset them.
M1kWriteCalibration ==
  /\ ByRest /\ kind = "m1k"
  /\ \/ RefusedCalibration
     \/ /\ \E d \in CalData \cup {DefaultData} : Calibrate([data |-> d, gain |-> "given"])
        /\ Ok("writeCalibration")

\* The CEE's, whose current gains may be left out.
CeeWriteCalibration(c) ==
  /\ ByWs(c) /\ kind = "cee"
  /\ \/ RefusedCalibration
     \/ /\ \E d \in CalData, g \in {"given", "missing"} : Calibrate([data |-> d, gain |-> g])
        /\ Ok("writeCalibration")

TempCalibration(c) ==
  /\ ByWs(c) /\ kind = "cee"
  /\ \E d \in CalData : ram' = [ram EXCEPT !.data = d]
  /\ dirty' = TRUE
  /\ Silent
  /\ UNCHANGED <<kind, cfgVars, capVars, eeprom, frontend, flash, connVars, poisoned, view>>

\* setFrontend needs a channel; the POST takes channel a without one.
SetFrontend ==
  /\ ByRest /\ kind = "m1k"
  /\ \/ Refused("setFrontend")
     \/ /\ frontend' \in BOOLEAN
        /\ Ok("setFrontend")
        /\ UNCHANGED <<kind, cfgVars, capVars, calVars, flash, connVars, poisoned, view>>

\* erase and write of the bootloader; write refuses what is not base64, and
\* reports -1 when the interface or the transfer fails.
Erase(c) ==
  /\ ByWs(c) /\ kind = "bootloader"
  /\ flash' = "erased"
  /\ Ok("erase")
  /\ UNCHANGED <<kind, cfgVars, capVars, calVars, frontend, connVars, poisoned, view>>

Write(c) ==
  /\ ByWs(c) /\ kind = "bootloader"
  /\ \/ Refused("write")
     \/ /\ flash' \in {flash, "partial", "written"}
        /\ Ok("write")
        /\ UNCHANGED <<kind, cfgVars, capVars, calVars, frontend, connVars, poisoned, view>>

-----------------------------------------------------------------------------
(* The IN task, as far as commands see it.                                  *)

\* done_capture.
Finish ==
  /\ captureState /\ HasChannels(mode) /\ ~poisoned
  /\ captureState' = FALSE /\ captureDone' = TRUE
  /\ TellCapture
  /\ Silent
  /\ UNCHANGED <<kind, cfgVars, calVars, frontend, flash, connVars, poisoned>>

\* cee::handle_in_transfer indexes channels that are not there.
Panic ==
  /\ captureState /\ kind = "cee" /\ ~HasChannels(mode) /\ ~poisoned
  /\ poisoned' = TRUE
  /\ Silent
  /\ UNCHANGED <<kind, cfgVars, capVars, calVars, frontend, flash, connVars, view>>

Session(c) == SelectDevice(c) \/ Close(c)

StreamingCommand ==
  \/ \E c \in Clients : WsConfigure(c) \/ WsSetGain(c) \/ WsSetCurrentLimit(c)
  \/ \E c \in Clients, id \in Ids : Listen(c, id) \/ CancelListen(c, id)
  \/ RestConfigure \/ RestInputPost
  \/ StartCapture \/ PauseCapture
  \/ \E out \in Outputs : SetOutput(out)

BackendCommand ==
  \/ M1kWriteCalibration \/ SetFrontend
  \/ \E c \in Clients : CeeWriteCalibration(c) \/ TempCalibration(c)
  \/ \E c \in Clients : Erase(c) \/ Write(c)

Next ==
  \/ \E c \in Clients : Session(c)
  \/ StreamingCommand \/ BackendCommand
  \/ Finish \/ Panic
  \/ Replug

Spec == Init /\ [][Next]_vars

-----------------------------------------------------------------------------
(* Properties.                                                              *)

Calibrations == [data : CalData \cup {DefaultData}, gain : {"given", "missing", "default"}]
Pictures == [mode : Modes, samples : Samples, output : Outputs, gain : [Names -> Gains],
             state : BOOLEAN, done : BOOLEAN]

TypeOK ==
  /\ kind \in Kinds
  /\ mode \in Modes /\ samples \in Samples /\ limit \in Limits
  /\ output \in Outputs
  /\ gain \in [Names -> Gains] /\ hwGain \in [Names -> Gains]
  /\ captureState \in BOOLEAN /\ captureDone \in BOOLEAN
  /\ ram \in Calibrations /\ eeprom \in Calibrations \cup {None} /\ dirty \in BOOLEAN
  /\ frontend \in BOOLEAN /\ flash \in {"app", "erased", "partial", "written"}
  /\ attached \subseteq Clients /\ listeners \subseteq attached \X Ids
  /\ poisoned \in BOOLEAN
  /\ view \in [Clients -> Pictures \cup {None}]
  /\ reply.kind \in {"none", "ok", "error"}

\* Every attached client that puts deviceConfig, outputChanged, gainChanged
\* and captureState messages together knows the device's mode, samples,
\* outputs, gains and capture state as they are, whoever changed them, by
\* message or by POST, and whatever failed half-way.  Of the current limit and
\* the frontend it may know old values (notify_config, notify_output_changed,
\* notify_gain_changed, notify_capture_state, on_client_attach).
ViewsAreTrue == \A c \in attached : view[c] = Picture

\* A request that is answered with an error has changed nothing, but for two
\* commands: a listen that fails has cancelled the listener of its own id,
\* and a POST of gains keeps those before the one that was not a number,
\* which is told to everybody (process_message, handle_rest, rest_input_post).
ErrorsChangeNothing ==
  [][reply'.kind = "error" =>
       /\ UNCHANGED <<mode, samples, output, limit, capVars, calVars, frontend, flash, attached>>
       /\ gain' # gain \/ hwGain' # hwGain =>
            reply'.cmd = "input" /\ \A c \in attached : view'[c].gain = gain'
       /\ listeners' # listeners =>
            reply'.cmd = "listen" /\ listeners' = listeners \ {reply'.about}]_vars

\* The calibration that samples are converted with is the one that the board
\* will have after it was plugged in again, unless it was set in RAM only,
\* the EEPROM could not be written, or a CEE's current gains were left out
\* (writeCalibration, tempCalibration, create).
CalibrationKept == dirty \/ ram = Load(eeprom)

\* The gains that samples are divided by are those the CEE amplifies with,
\* over every setGain, configure and replug (set_internal_gain, and the
\* comment on gains in cee::configure).
GainIsHardware == kind = "cee" /\ HasChannels(mode) => gain = hwGain
=============================================================================
