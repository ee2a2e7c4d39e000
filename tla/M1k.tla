---------------------------------- MODULE M1k ----------------------------------
(***************************************************************************)
(* The M1K behind StreamingDevice (usb/m1k.rs): the mode each channel's    *)
(* hardware is in against the mode clients asked for, and the lead of the  *)
(* output stream over the input stream, with the detector that re-anchors  *)
(* capture_o when the lead has moved.                                      *)
(*                                                                         *)
(* The IN and the OUT task of a pipeline wait for transfers on their own   *)
(* and take the device's mutex for each of them, so their turns interleave *)
(* with each other and with the clients.  A task that was aborted while it *)
(* waited for the mutex still has its turn (stale), in the next capture    *)
(* too.                                                                    *)
(*                                                                         *)
(* capture_i and capture_o move by whole packets of 256 samples.  The      *)
(* lead, capture_o - capture_i, is kept in packets; capture_i itself is    *)
(* only kept in a bounded capture, which it ends.  A drift of one packet   *)
(* is more than half a packet, so every drift but zero is corrected.       *)
(***************************************************************************)
EXTENDS Integers, FiniteSets

CONSTANTS
  Channels, Modes, HiZ,
  Configs,       \* the captures a client may configure
  DefaultConfig, \* the one the process configures when it finds the device
  NTransfers,    \* transfers each task keeps in flight
  Settle,        \* IN transfers before the lead is looked at
  Window,        \* IN transfers whose minimum lead is compared
  MaxSkew,       \* bound: transfers one task is ahead of the other
  MaxStalls,     \* bound: host stalls in one capture
  None           \* no lead

ASSUME DeviceAssumption ==
  /\ HiZ \in Modes
  /\ DefaultConfig \in Configs
  /\ Configs \subseteq [packets : Nat, continuous : BOOLEAN, ppt : Nat \ {0}]
ASSUME DetectorAssumption ==
  /\ NTransfers \in Nat \ {0} /\ Window \in Nat \ {0} /\ Settle \in Nat
  /\ MaxSkew \in Nat /\ MaxStalls \in Nat /\ None \notin Int

VARIABLES
  config, captureState, captureDone, captureI,
  sourceMode,    \* the mode of each channel's source
  mMode,         \* m_mode, the mode requested
  hwMode,        \* external: the mode the hardware was last programmed with
  piped,         \* backend.tasks is not empty
  toFill,        \* transfers the OUT task still has to fill before its loop
  inRuns, incount, outcount,                          \* its IN and OUT loops
  stale,         \* turns that aborted tasks may still have, and their IN size
  lead, leadSettle, leadMin, leadCount, leadBaseline, \* the detector
  written,       \* history: channels programmed since start, crash or pause
  skew,          \* history: OUT refills minus IN transfers of this pipeline
  stalls,        \* history: host stalls in this capture
  windows        \* history: windows that ended since the lead was disturbed

capVars  == <<config, captureState, captureDone, captureI>>
modeVars == <<sourceMode, mMode, hwMode, written>>
histVars == <<skew, stalls>>
taskVars == <<piped, toFill, inRuns, incount, outcount, histVars>>
leadVars == <<leadSettle, leadMin, leadCount, leadBaseline>>
vars == <<capVars, modeVars, taskVars, stale, lead, leadVars, windows>>

NoStale == [in |-> 0, size |-> 1, out |-> 0]

\* Out of a capture there is no pipeline.
NoPipeline ==
  /\ piped' = FALSE /\ toFill' = 0
  /\ inRuns' = FALSE /\ incount' = 0 /\ outcount' = 0
  /\ skew' = 0 /\ stalls' = 0

-----------------------------------------------------------------------------
(* Modes.                                                                   *)

AllHiZ == [ch \in Channels |-> HiZ]

\* write_mode on every channel.
Program(modes) == hwMode' = modes /\ written' = Channels

\* Seeded fault: the pause programs HI_Z through set_mode.
RequestForgotten == AllHiZ
\* on_pause_capture leaves m_mode alone.
RequestKept == mMode

-----------------------------------------------------------------------------
(* The lead detector, at the end of handle_in_transfer.                     *)

Lower(a, b) == IF a = None \/ b < a THEN b ELSE a

\* Seeded fault: the window closes one transfer late.
WindowFullLate == leadCount + 1 > Window
WindowFull     == leadCount + 1 >= Window

\* Seeded fault: the minimum of a window is carried into the next.
NextMinKept(low) == low
NextMin(low)     == IF WindowFull THEN None ELSE low

\* The lead is l when the transfer has been counted.
Detect(l) ==
  LET low == Lower(leadMin, l) IN
  IF leadSettle > 0
  THEN /\ leadSettle' = leadSettle - 1
       /\ lead' = l
       /\ UNCHANGED <<leadMin, leadCount, leadBaseline>>
  ELSE /\ leadMin' = NextMin(low)
       /\ leadCount' = IF WindowFull THEN 0 ELSE leadCount + 1
       /\ leadBaseline' = IF WindowFull /\ leadBaseline = None THEN low ELSE leadBaseline
       /\ lead' = IF WindowFull /\ leadBaseline # None THEN l - (low - leadBaseline) ELSE l
       /\ UNCHANGED leadSettle

Closes == leadSettle = 0 /\ WindowFull

\* on_reset_capture.
ForgetLead ==
  /\ leadSettle' = Settle /\ leadMin' = None /\ leadCount' = 0 /\ leadBaseline' = None

-----------------------------------------------------------------------------
(* Client commands.                                                         *)

Init ==
  /\ config = DefaultConfig
  /\ captureState = FALSE /\ captureDone = FALSE /\ captureI = 0
  /\ sourceMode = AllHiZ /\ mMode = AllHiZ /\ written = {}
  /\ hwMode \in [Channels -> Modes]
  /\ piped = FALSE /\ toFill = 0 /\ inRuns = FALSE /\ incount = 0 /\ outcount = 0
  /\ stale = NoStale
  /\ lead = 0 /\ leadSettle = Settle /\ leadMin = None /\ leadCount = 0 /\ leadBaseline = None
  /\ skew = 0 /\ stalls = 0 /\ windows = 0

\* The process dies and comes back: the hardware keeps its modes, and create
\* stops the sampling but programs no mode.
Restart ==
  /\ config' = DefaultConfig
  /\ captureState' = FALSE /\ captureDone' = FALSE /\ captureI' = 0
  /\ sourceMode' = AllHiZ /\ mMode' = AllHiZ /\ written' = {}
  /\ NoPipeline
  /\ stale' = NoStale
  /\ lead' = 0 /\ ForgetLead
  /\ windows' = 0
  /\ UNCHANGED hwMode

\* start_capture, which resets a capture that is done.
Starting ==
  /\ ~captureState
  /\ captureState' = TRUE /\ captureDone' = FALSE
  /\ captureI' = IF captureDone THEN 0 ELSE captureI
  /\ IF captureDone THEN ForgetLead ELSE UNCHANGED leadVars
  /\ windows' = 0
  /\ UNCHANGED <<config, sourceMode, mMode, stale>>

\* on_start_capture: the requested modes are programmed, and the samples
\* encoded before are ignored.
StartCapture ==
  /\ Starting
  /\ Program(mMode)
  /\ lead' = 0
  /\ piped' = TRUE /\ toFill' = NTransfers /\ inRuns' = TRUE
  /\ incount' = NTransfers /\ outcount' = NTransfers
  /\ UNCHANGED histVars

\* The interface cannot be claimed: nothing is programmed.
StartUnclaimed ==
  /\ Starting
  /\ written' = {}
  /\ lead' = IF captureDone THEN 0 ELSE lead
  /\ UNCHANGED <<hwMode, taskVars>>

\* The endpoints cannot be opened.
StartWithoutEndpoints ==
  /\ Starting
  /\ Program(mMode)
  /\ lead' = 0
  /\ UNCHANGED taskVars

\* What abort() leaves of the tasks: a task that waits for a transfer, or
\* was never polled, is dropped; one that waits for the mutex has its turn and
\* those for which transfers have completed, the OUT task all of its first
\* fills, between which it awaits nothing.
StaleIn  == IF inRuns THEN 0..NTransfers ELSE {0}
StaleOut == IF ~piped THEN {0}
            ELSE (toFill..NTransfers) \cup (IF toFill = NTransfers THEN {0} ELSE {})

\* on_pause_capture: HI_Z, and the tasks aborted; n turns of the IN task may
\* still come.  Bound: those of the capture before have all been had.
PauseHooks(left, n) ==
  /\ left.in = 0 /\ left.out = 0
  /\ Program(AllHiZ)
  /\ NoPipeline
  /\ \E i \in n, o \in StaleOut : stale' = [in |-> i, size |-> config.ppt, out |-> o]

PauseCapture ==
  /\ captureState
  /\ captureState' = FALSE
  /\ PauseHooks(stale, StaleIn)
  /\ mMode' = RequestKept
  /\ lead' = 0 /\ windows' = 0
  /\ UNCHANGED <<config, captureDone, captureI, sourceMode, leadVars>>

\* configure: the capture is paused, sources and requested modes start over.
\* The detector keeps its baseline, capture_done its value.
Configure(c) ==
  /\ IF captureState THEN PauseHooks(stale, StaleIn)
     ELSE UNCHANGED <<hwMode, written, taskVars, stale>>
  /\ captureState' = FALSE
  /\ config' = c
  /\ captureI' = 0 /\ lead' = 0 /\ windows' = 0
  /\ sourceMode' = AllHiZ /\ mMode' = AllHiZ
  /\ UNCHANGED <<captureDone, leadVars>>

\* set_output and on_set_output: the hardware follows at once in a capture.
SetOutput(ch, mode) ==
  /\ sourceMode' = [sourceMode EXCEPT ![ch] = mode]
  /\ mMode' = [mMode EXCEPT ![ch] = mode]
  /\ IF captureState /\ mMode[ch] # mode
     THEN /\ hwMode' = [hwMode EXCEPT ![ch] = mode]
          /\ written' = written \cup {ch}
     ELSE UNCHANGED <<hwMode, written>>
  /\ UNCHANGED <<capVars, taskVars, stale, lead, leadVars, windows>>

-----------------------------------------------------------------------------
(* The tasks.                                                               *)

\* Both submit another transfer while the capture needs more.
Wants(count) == config.continuous \/ count * config.ppt < config.packets
Counted(count) == IF config.continuous THEN count ELSE count + 1

Captured(n) == IF config.continuous THEN captureI ELSE captureI + n
Full(i) == ~config.continuous /\ i >= config.packets

\* Windows that ended since the lead was last disturbed, by anything but the
\* two tasks overtaking each other; two are as good as more.
NextWindows(disturbed) ==
  IF disturbed THEN 0 ELSE IF Closes /\ windows < 2 THEN windows + 1 ELSE windows

\* packet_done for n packets; a capture that becomes full is paused first, so
\* that the detector then sees no lead at all.  left: turns of aborted tasks
\* besides this one; n of the IN task's may follow.
Receive(n, left, more) ==
  LET fin == Full(Captured(n)) IN
  /\ captureI' = Captured(n)
  /\ captureDone' = (captureDone \/ fin)
  /\ captureState' = (captureState /\ ~fin)
  /\ IF fin /\ captureState
     THEN PauseHooks(left, more) /\ mMode' = RequestKept /\ Detect(0)
     ELSE UNCHANGED <<hwMode, written, mMode, piped, toFill, outcount>> /\ Detect(lead - n)
  /\ UNCHANGED <<config, sourceMode>>

\* The IN task has a transfer.  In a stall the OUT task had none to match it.
HandleIn(stalled) ==
  LET again == Wants(incount) IN
  /\ inRuns
  /\ IF stalled THEN stalls < MaxStalls ELSE skew > -MaxSkew
  /\ Receive(config.ppt, stale, IF again THEN 0..(NTransfers - 1) ELSE {0})
  /\ windows' = NextWindows(stalled \/ toFill > 0)
  /\ IF Full(Captured(config.ppt)) /\ captureState THEN TRUE
     ELSE /\ inRuns' = again
          /\ incount' = IF again THEN Counted(incount) ELSE incount
          /\ skew' = IF stalled THEN skew ELSE skew - 1
          /\ stalls' = IF stalled THEN stalls + 1 ELSE stalls
          /\ UNCHANGED stale

\* An aborted IN task has a transfer of its own size.
HandleStaleIn ==
  LET n    == IF stale.size < config.ppt THEN stale.size ELSE config.ppt
      left == [stale EXCEPT !.in = @ - 1]
  IN
  /\ stale.in > 0
  /\ Receive(n, left, StaleIn)
  /\ windows' = 0
  /\ IF Full(Captured(n)) /\ captureState THEN TRUE
     ELSE stale' = left /\ UNCHANGED <<inRuns, incount, histVars>>

\* The OUT task fills one of its first transfers.
FillFirst ==
  /\ toFill > 0
  /\ toFill' = toFill - 1
  /\ lead' = lead + config.ppt
  /\ windows' = 0
  /\ UNCHANGED <<capVars, modeVars, piped, inRuns, incount, outcount, stale, leadVars, histVars>>

\* The OUT task refills a transfer.  In a stall the IN transfer was lost.
Refill(stalled) ==
  /\ piped /\ toFill = 0
  /\ Wants(outcount)
  /\ IF stalled THEN stalls < MaxStalls ELSE skew < MaxSkew
  /\ outcount' = Counted(outcount)
  /\ lead' = lead + config.ppt
  /\ skew' = IF stalled THEN skew ELSE skew + 1
  /\ stalls' = IF stalled THEN stalls + 1 ELSE stalls
  /\ windows' = IF stalled THEN 0 ELSE windows
  /\ UNCHANGED <<capVars, modeVars, piped, toFill, inRuns, incount, stale, leadVars>>

\* An aborted OUT task fills a transfer for a pipeline that is gone.
FillStale ==
  /\ stale.out > 0
  /\ stale' = [stale EXCEPT !.out = @ - 1]
  /\ lead' = lead + config.ppt
  /\ windows' = 0
  /\ UNCHANGED <<capVars, modeVars, taskVars, leadVars>>

Command ==
  \/ StartCapture \/ StartUnclaimed \/ StartWithoutEndpoints
  \/ PauseCapture
  \/ \E c \in Configs : Configure(c)
  \/ \E ch \in Channels, mode \in Modes : SetOutput(ch, mode)

Task ==
  \/ \E stalled \in BOOLEAN : HandleIn(stalled) \/ Refill(stalled)
  \/ FillFirst
  \/ HandleStaleIn \/ FillStale

Next == Command \/ Task \/ Restart

Spec == Init /\ [][Next]_vars

-----------------------------------------------------------------------------
(* Properties.                                                              *)

Leads == Int \cup {None}

TypeOK ==
  /\ config \in Configs
  /\ captureState \in BOOLEAN /\ captureDone \in BOOLEAN /\ captureI \in Nat
  /\ sourceMode \in [Channels -> Modes]
  /\ mMode \in [Channels -> Modes]
  /\ hwMode \in [Channels -> Modes]
  /\ written \subseteq Channels
  /\ piped \in BOOLEAN /\ toFill \in 0..NTransfers
  /\ inRuns \in BOOLEAN /\ incount \in Nat /\ outcount \in Nat
  /\ stale \in [in : 0..NTransfers, size : Nat \ {0}, out : 0..NTransfers]
  /\ lead \in Int /\ leadSettle \in 0..Settle
  /\ leadMin \in Leads /\ leadBaseline \in Leads /\ leadCount \in 0..(Window - 1)
  /\ skew \in -MaxSkew..MaxSkew /\ stalls \in 0..MaxStalls /\ windows \in 0..2

\* The hardware does what the client asked for: m_mode is the mode of the
\* channel's source over every set, pause, completion, configure and restart,
\* and a channel that was programmed since the process started and the last
\* start succeeded is in that mode in a capture, and in HI_Z out of it
\* (set_mode, write_mode, on_start_capture, on_pause_capture, on_set_output).
ModesAgree ==
  /\ mMode = sourceMode
  /\ \A ch \in written : hwMode[ch] = IF captureState THEN mMode[ch] ELSE HiZ

\* The lead over which the next transfers will be encoded, the two tasks even.
EvenLead == lead - skew * config.ppt

\* A stall, a late turn of an aborted task or a restart does not move the
\* output stream for ever: after a whole window without another one, the lead
\* is back at the baseline, give or take the transfers by which one task was
\* ahead of the other while the minimum was taken (the resync code of
\* handle_in_transfer).
Realigns ==
  piped /\ toFill = 0 /\ windows = 2 =>
    /\ leadBaseline # None
    /\ EvenLead - leadBaseline >= (1 - MaxSkew) * config.ppt
    /\ EvenLead - leadBaseline <= MaxSkew * config.ppt
=============================================================================
