---------------------------- MODULE CommandsProofs ----------------------------
(***************************************************************************)
(* What the model checker finds on the small instance of MCCommands, for   *)
(* all clients, listeners, streams, gains, limits and calibrations:        *)
(* Commands keeps TypeOK, ViewsAreTrue and CalibrationKept, and its steps  *)
(* satisfy ErrorsChangeNothing.                                            *)
(***************************************************************************)
EXTENDS Commands, TLAPS

-----------------------------------------------------------------------------
(* The state, by part.                                                      *)

CfgType   == mode \in Modes /\ samples \in Samples /\ limit \in Limits /\ output \in Outputs
             /\ gain \in [Names -> Gains] /\ hwGain \in [Names -> Gains]
CapType   == captureState \in BOOLEAN /\ captureDone \in BOOLEAN
CalType   == ram \in Calibrations /\ eeprom \in Calibrations \cup {None} /\ dirty \in BOOLEAN
BoardType == kind \in Kinds /\ frontend \in BOOLEAN
             /\ flash \in {"app", "erased", "partial", "written"} /\ poisoned \in BOOLEAN
ConnType  == attached \subseteq Clients /\ listeners \subseteq attached \X Ids
ViewType  == view \in [Clients -> Pictures \cup {None}]
ReplyType == reply.kind \in {"none", "ok", "error"}

\* The parts make up TypeOK.
LEMMA Parts ==
  TypeOK <=> CfgType /\ CapType /\ CalType /\ BoardType /\ ConnType /\ ViewType /\ ReplyType
BY DEF TypeOK, CfgType, CapType, CalType, BoardType, ConnType, ViewType, ReplyType

\* What deviceConfig carries is well formed.
LEMMA PictureType ==
  ASSUME CfgType, CapType
  PROVE  Picture \in Pictures
BY DEF CfgType, CapType, Picture, Pictures

\* Every stream starts with a gain of the table.
LEMMA NormalGainsType == NormalGains \in [Names -> Gains]
BY DeviceAssumption DEF NormalGains

\* What create loads is a calibration.
LEMMA LoadType ==
  ASSUME NEW e \in Calibrations \cup {None}
  PROVE  Load(e) \in Calibrations
<1>1. CASE e = None
  BY <1>1 DEF Load, Calibrations
<1>2. CASE e # None
  <2>1. e \in Calibrations
    BY <1>2
  <2>2. Load(e) = [e EXCEPT !.gain = IF e.gain = "missing" THEN "default" ELSE e.gain]
    BY <1>2, <2>1 DEF Load
  <2> QED BY <2>1, <2>2 DEF Calibrations
<1> QED BY <1>1, <1>2

\* A calibration whose gains were given is loaded as it was stored.
LEMMA LoadGiven ==
  ASSUME NEW e \in Calibrations, e.gain = "given"
  PROVE  Load(e) = e
<1>1. e # None
  BY DeviceAssumption DEF Calibrations
<1>2. Load(e) = [e EXCEPT !.gain = IF e.gain = "missing" THEN "default" ELSE e.gain]
  BY <1>1 DEF Load
<1> QED BY <1>2 DEF Calibrations

-----------------------------------------------------------------------------
(* The steps, without the views.                                            *)

\* What a step keeps of the state apart from the clients' views.
Sound == CfgType /\ CapType /\ CalType /\ BoardType /\ ConnType /\ ReplyType

\* A refused request leaves all parts as they are.
LEMMA RefusedSound ==
  ASSUME Sound, NEW cmd, Refused(cmd)
  PROVE  Sound'
<1>1. CfgType' /\ CapType' /\ CalType'
  BY DEF Refused, Sound, cfgVars, capVars, calVars, CfgType, CapType, CalType
<1>2. BoardType' /\ ConnType'
  BY DEF Refused, Sound, connVars, BoardType, ConnType
<1>3. ReplyType'
  BY DEF Refused, Answer, ReplyType
<1> QED BY <1>1, <1>2, <1>3 DEF Sound

\* Answers are of one of the three kinds.
LEMMA AnswerType ==
  /\ \A cmd : Ok(cmd) => ReplyType'
  /\ \A cmd, about : Answer("error", cmd, about) => ReplyType'
  /\ Silent => ReplyType'
BY DEF Ok, Silent, Answer, ReplyType

\* configure keeps everything well formed but the limit and the answer.
LEMMA ConfigureSound ==
  ASSUME Sound, NEW m \in Modes, NEW n \in Samples, Configure(m, n), limit' \in Limits
  PROVE  CfgType' /\ CapType' /\ CalType' /\ BoardType' /\ ConnType'
<1>1. gain' \in [Names -> Gains]
  <2>1. gain' = gain \/ gain' = NormalGains
    BY DEF Configure
  <2> QED BY <2>1, NormalGainsType DEF Sound, CfgType
<1>2. CfgType'
  <2>1. mode' \in Modes
    BY DeviceAssumption DEF Configure
  <2> QED BY <1>1, <2>1, DeviceAssumption DEF Configure, Sound, CfgType
<1>3. CapType' /\ CalType'
  BY DEF Configure, Sound, calVars, CapType, CalType
<1>4. BoardType' /\ ConnType'
  BY DEF Configure, Sound, BoardType, ConnType
<1> QED BY <1>2, <1>3, <1>4

\* A limit that is not one of the table leaves the old one.
LEMMA LimitedType ==
  ASSUME Sound, NEW l, Limited(l)
  PROVE  limit' \in Limits
BY DEF Sound, CfgType, Limited

\* set_gain takes gains of the table only.
LEMMA SetGainsSound ==
  ASSUME Sound, NEW S, NEW want, SetGains(S, want)
  PROVE  CfgType' /\ CapType' /\ CalType' /\ BoardType' /\ ConnType'
<1>1. gain' \in [Names -> Gains] /\ hwGain' \in [Names -> Gains]
  BY DEF SetGains, Sound, CfgType
<1>2. CfgType' /\ CapType' /\ CalType'
  BY <1>1 DEF SetGains, Sound, capVars, calVars, CfgType, CapType, CalType
<1>3. BoardType' /\ ConnType'
  BY DEF SetGains, Sound, connVars, BoardType, ConnType
<1> QED BY <1>2, <1>3

\* Calibration is replaced by one that is well formed.
LEMMA CalibrateSound ==
  ASSUME Sound, NEW new \in Calibrations, Calibrate(new)
  PROVE  CfgType' /\ CapType' /\ CalType' /\ BoardType' /\ ConnType'
<1>1. PICK ok \in BOOLEAN : /\ eeprom' = IF ok THEN new ELSE eeprom
                            /\ dirty' = (~ok \/ new.gain = "missing")
  BY DEF Calibrate, Stored
<1>2. CalType'
  BY <1>1 DEF Calibrate, Sound, CalType
<1>3. CfgType' /\ CapType'
  BY DEF Calibrate, Sound, cfgVars, capVars, CfgType, CapType
<1>4. BoardType' /\ ConnType'
  BY DEF Calibrate, Sound, connVars, BoardType, ConnType
<1> QED BY <1>2, <1>3, <1>4

\* The initial state is well formed.
LEMMA SoundInit == Init => Sound
<1> SUFFICES ASSUME Init PROVE Sound
  OBVIOUS
<1>1. CfgType /\ CapType
  BY NormalGainsType, DeviceAssumption DEF Init, CfgType, CapType
<1>2. CalType
  BY LoadType DEF Init, CalType
<1>3. BoardType /\ ConnType
  BY DEF Init, BoardType, ConnType
<1>4. ReplyType
  BY DEF Init, ReplyType
<1> QED BY <1>1, <1>2, <1>3, <1>4 DEF Sound

\* Sessions come and go without touching the device.
LEMMA SessionSound ==
  ASSUME Sound, NEW c \in Clients, Session(c)
  PROVE  Sound'
<1>1. CASE SelectDevice(c)
  <2>1. CfgType' /\ CapType' /\ CalType'
    BY <1>1 DEF SelectDevice, Sound, cfgVars, capVars, calVars, CfgType, CapType, CalType
  <2>2. BoardType' /\ ConnType'
    BY <1>1 DEF SelectDevice, Sound, BoardType, ConnType
  <2> QED BY <1>1, <2>1, <2>2, AnswerType DEF SelectDevice, Sound
<1>2. CASE Close(c)
  <2>1. CfgType' /\ CapType' /\ CalType'
    BY <1>2 DEF Close, Sound, cfgVars, capVars, calVars, CfgType, CapType, CalType
  <2>2. BoardType'
    BY <1>2 DEF Close, Sound, BoardType
  <2>3. ConnType'
    <3>1. attached' = attached \ {c} /\ listeners' = {l \in listeners : l[1] # c}
      BY <1>2 DEF Close
    <3>2. ASSUME NEW l \in listeners, l[1] # c
          PROVE  l \in (attached \ {c}) \X Ids
      BY <3>2 DEF Sound, ConnType
    <3> QED BY <3>1, <3>2 DEF Sound, ConnType
  <2> QED BY <1>2, <2>1, <2>2, <2>3, AnswerType DEF Close, Sound
<1> QED BY <1>1, <1>2 DEF Session

\* The commands of every streaming device keep the state well formed.
LEMMA StreamingSound ==
  ASSUME Sound, StreamingCommand
  PROVE  Sound'
<1>1. CASE \E c \in Clients : WsConfigure(c)
  <2> PICK c \in Clients : WsConfigure(c)
    BY <1>1
  <2>1. CASE Refused("configure")
    BY <2>1, RefusedSound
  <2>2. CASE ~Refused("configure")
    <3>1. PICK m \in Modes, n \in Samples : Configure(m, n)
      BY <2>2 DEF WsConfigure
    <3>2. limit' \in Limits /\ ReplyType'
      BY <2>2, AnswerType DEF WsConfigure, Sound, CfgType
    <3> QED BY <3>1, <3>2, ConfigureSound DEF Sound
  <2> QED BY <2>1, <2>2
<1>2. CASE RestConfigure
  <2>1. CASE Refused("configuration")
    BY <2>1, RefusedSound
  <2>2. CASE ~Refused("configuration")
    <3>1. PICK n \in Samples : Configure(mode, n)
      BY <1>2, <2>2 DEF RestConfigure
    <3>2. limit' \in Limits
      BY <1>2, <2>2, LimitedType DEF RestConfigure
    <3>3. mode \in Modes /\ ReplyType'
      BY <1>2, <2>2, AnswerType DEF RestConfigure, Sound, CfgType
    <3> QED BY <3>1, <3>2, <3>3, ConfigureSound DEF Sound
  <2> QED BY <2>1, <2>2
<1>3. CASE StartCapture \/ PauseCapture
  <2>1. CfgType' /\ CalType'
    BY <1>3 DEF StartCapture, PauseCapture, Sound, cfgVars, calVars, CfgType, CalType
  <2>2. CapType'
    BY <1>3 DEF StartCapture, PauseCapture, Sound, CapType
  <2>3. BoardType' /\ ConnType'
    BY <1>3 DEF StartCapture, PauseCapture, Sound, connVars, BoardType, ConnType
  <2>4. ReplyType'
    BY <1>3, AnswerType DEF StartCapture, PauseCapture
  <2> QED BY <2>1, <2>2, <2>3, <2>4 DEF Sound
<1>4. CASE \E out \in Outputs : SetOutput(out)
  <2> PICK out \in Outputs : SetOutput(out)
    BY <1>4
  <2>1. CASE Refused("set")
    BY <2>1, RefusedSound
  <2>2. CASE ~Refused("set")
    <3>1. CfgType' /\ CapType' /\ CalType'
      BY <2>2 DEF SetOutput, Sound, capVars, calVars, CfgType, CapType, CalType
    <3>2. BoardType' /\ ConnType'
      BY <2>2 DEF SetOutput, Sound, connVars, BoardType, ConnType
    <3> QED BY <2>2, <3>1, <3>2, AnswerType DEF SetOutput, Sound
  <2> QED BY <2>1, <2>2
<1>5. CASE \E c \in Clients : WsSetGain(c)
  <2> PICK c \in Clients : WsSetGain(c)
    BY <1>5
  <2>1. CASE Refused("setGain")
    BY <2>1, RefusedSound
  <2>2. CASE ~Refused("setGain")
    BY <2>2, SetGainsSound, AnswerType DEF WsSetGain, Sound
  <2> QED BY <2>1, <2>2
<1>6. CASE RestInputPost
  <2> PICK want \in [Names -> Gains \cup {Odd, Absent, Bad}] :
         /\ SetGains(Before(want), want)
         /\ IF Before(want) = Names THEN Ok("input") ELSE Answer("error", "input", None)
    BY <1>6 DEF RestInputPost
  <2>1. ReplyType'
    BY AnswerType
  <2> QED BY <2>1, SetGainsSound DEF Sound
<1>7. CASE \E c \in Clients : WsSetCurrentLimit(c)
  <2> PICK c \in Clients : WsSetCurrentLimit(c)
    BY <1>7
  <2>1. CASE Refused("setCurrentLimit")
    BY <2>1, RefusedSound
  <2>2. CASE ~Refused("setCurrentLimit")
    <3>1. limit' \in Limits
      BY <2>2, LimitedType DEF WsSetCurrentLimit
    <3>2. CfgType' /\ CapType' /\ CalType'
      BY <2>2, <3>1 DEF WsSetCurrentLimit, Sound, capVars, calVars, CfgType, CapType, CalType
    <3>3. BoardType' /\ ConnType'
      BY <2>2 DEF WsSetCurrentLimit, Sound, connVars, BoardType, ConnType
    <3> QED BY <2>2, <3>2, <3>3, AnswerType DEF WsSetCurrentLimit, Sound
  <2> QED BY <2>1, <2>2
<1>8. CASE \E c \in Clients, id \in Ids : Listen(c, id)
  <2> PICK c \in Clients, id \in Ids : Listen(c, id)
    BY <1>8
  <2>1. CASE Refused("listen")
    BY <2>1, RefusedSound
  <2>2. CASE ~Refused("listen")
    <3>1. CfgType' /\ CapType' /\ CalType' /\ BoardType'
      BY <2>2 DEF Listen, Sound, cfgVars, capVars, calVars, CfgType, CapType, CalType, BoardType
    <3>2. ConnType'
      BY <2>2 DEF Listen, ByWs, Sound, ConnType
    <3>3. ReplyType'
      BY <2>2, AnswerType DEF Listen
    <3> QED BY <3>1, <3>2, <3>3 DEF Sound
  <2> QED BY <2>1, <2>2
<1>9. CASE \E c \in Clients, id \in Ids : CancelListen(c, id)
  <2> PICK c \in Clients, id \in Ids : CancelListen(c, id)
    BY <1>9
  <2>1. CASE Refused("cancelListen")
    BY <2>1, RefusedSound
  <2>2. CASE ~Refused("cancelListen")
    <3>1. CfgType' /\ CapType' /\ CalType' /\ BoardType'
      BY <2>2 DEF CancelListen, Sound, cfgVars, capVars, calVars, CfgType, CapType, CalType, BoardType
    <3>2. ConnType'
      BY <2>2 DEF CancelListen, Sound, ConnType
    <3> QED BY <2>2, <3>1, <3>2, AnswerType DEF CancelListen, Sound
  <2> QED BY <2>1, <2>2
<1> QED BY <1>1, <1>2, <1>3, <1>4, <1>5, <1>6, <1>7, <1>8, <1>9 DEF StreamingCommand

\* The commands of one backend keep the state well formed.
LEMMA BackendSound ==
  ASSUME Sound, BackendCommand
  PROVE  Sound'
<1>1. ASSUME NEW new \in Calibrations, Calibrate(new), ReplyType'
      PROVE  Sound'
  BY <1>1, CalibrateSound DEF Sound
<1>2. CASE M1kWriteCalibration
  <2>1. CASE RefusedCalibration
    BY <2>1, RefusedSound DEF RefusedCalibration
  <2>2. CASE ~RefusedCalibration
    <3>1. PICK d \in CalData \cup {DefaultData} : Calibrate([data |-> d, gain |-> "given"])
      BY <1>2, <2>2 DEF M1kWriteCalibration
    <3>2. [data |-> d, gain |-> "given"] \in Calibrations
      BY DEF Calibrations
    <3>3. ReplyType'
      BY <1>2, <2>2, AnswerType DEF M1kWriteCalibration
    <3> QED BY <1>1, <3>1, <3>2, <3>3
  <2> QED BY <2>1, <2>2
<1>3. CASE \E c \in Clients : CeeWriteCalibration(c)
  <2> PICK c \in Clients : CeeWriteCalibration(c)
    BY <1>3
  <2>1. CASE RefusedCalibration
    BY <2>1, RefusedSound DEF RefusedCalibration
  <2>2. CASE ~RefusedCalibration
    <3>1. PICK d \in CalData, g \in {"given", "missing"} : Calibrate([data |-> d, gain |-> g])
      BY <2>2 DEF CeeWriteCalibration
    <3>2. [data |-> d, gain |-> g] \in Calibrations
      BY DEF Calibrations
    <3>3. ReplyType'
      BY <2>2, AnswerType DEF CeeWriteCalibration
    <3> QED BY <1>1, <3>1, <3>2, <3>3
  <2> QED BY <2>1, <2>2
<1>4. CASE \E c \in Clients : TempCalibration(c)
  <2> PICK c \in Clients : TempCalibration(c)
    BY <1>4
  <2>1. PICK d \in CalData : ram' = [ram EXCEPT !.data = d]
    BY DEF TempCalibration
  <2>2. CalType'
    BY <2>1 DEF TempCalibration, Sound, CalType, Calibrations
  <2>3. CfgType' /\ CapType' /\ BoardType' /\ ConnType'
    BY DEF TempCalibration, Sound, cfgVars, capVars, connVars, CfgType, CapType, BoardType, ConnType
  <2> QED BY <2>2, <2>3, AnswerType DEF TempCalibration, Sound
<1>5. CASE SetFrontend
  <2>1. CASE Refused("setFrontend")
    BY <2>1, RefusedSound
  <2>2. CASE ~Refused("setFrontend")
    <3>1. CfgType' /\ CapType' /\ CalType' /\ ConnType'
      BY <1>5, <2>2 DEF SetFrontend, Sound, cfgVars, capVars, calVars, connVars,
                        CfgType, CapType, CalType, ConnType
    <3>2. BoardType'
      BY <1>5, <2>2 DEF SetFrontend, Sound, BoardType
    <3> QED BY <1>5, <2>2, <3>1, <3>2, AnswerType DEF SetFrontend, Sound
  <2> QED BY <2>1, <2>2
<1>6. CASE \E c \in Clients : Erase(c)
  <2> PICK c \in Clients : Erase(c)
    BY <1>6
  <2>1. CfgType' /\ CapType' /\ CalType' /\ ConnType'
    BY DEF Erase, Sound, cfgVars, capVars, calVars, connVars, CfgType, CapType, CalType, ConnType
  <2>2. BoardType'
    BY DEF Erase, Sound, BoardType
  <2> QED BY <2>1, <2>2, AnswerType DEF Erase, Sound
<1>7. CASE \E c \in Clients : Write(c)
  <2> PICK c \in Clients : Write(c)
    BY <1>7
  <2>1. CASE Refused("write")
    BY <2>1, RefusedSound
  <2>2. CASE ~Refused("write")
    <3>1. CfgType' /\ CapType' /\ CalType' /\ ConnType'
      BY <2>2 DEF Write, Sound, cfgVars, capVars, calVars, connVars, CfgType, CapType, CalType, ConnType
    <3>2. BoardType'
      BY <2>2 DEF Write, Sound, BoardType
    <3> QED BY <2>2, <3>1, <3>2, AnswerType DEF Write, Sound
  <2> QED BY <2>1, <2>2
<1> QED BY <1>2, <1>3, <1>4, <1>5, <1>6, <1>7 DEF BackendCommand

\* Every step keeps the state well formed.
LEMMA SoundNext ==
  ASSUME Sound, [Next]_vars
  PROVE  Sound'
<1>1. CASE \E c \in Clients : Session(c)
  BY <1>1, SessionSound
<1>2. CASE Replug
  <2>1. CfgType' /\ CapType'
    BY <1>2, NormalGainsType, DeviceAssumption DEF Replug, CfgType, CapType
  <2>2. CalType'
    BY <1>2, LoadType DEF Replug, Sound, CalType
  <2>3. BoardType' /\ ConnType'
    BY <1>2 DEF Replug, Sound, BoardType, ConnType
  <2> QED BY <1>2, <2>1, <2>2, <2>3, AnswerType DEF Replug, Sound
<1>3. CASE Finish \/ Panic
  <2>1. CfgType' /\ CalType' /\ ConnType'
    BY <1>3 DEF Finish, Panic, Sound, cfgVars, calVars, connVars, CfgType, CalType, ConnType
  <2>2. CapType'
    BY <1>3 DEF Finish, Panic, Sound, capVars, CapType
  <2>3. BoardType'
    BY <1>3 DEF Finish, Panic, Sound, BoardType
  <2>4. ReplyType'
    BY <1>3, AnswerType DEF Finish, Panic
  <2> QED BY <2>1, <2>2, <2>3, <2>4 DEF Sound
<1>4. CASE UNCHANGED vars
  <2>1. CfgType' /\ CapType' /\ CalType'
    BY <1>4 DEF vars, Sound, cfgVars, capVars, calVars, CfgType, CapType, CalType
  <2>2. BoardType' /\ ConnType' /\ ReplyType'
    BY <1>4 DEF vars, Sound, connVars, BoardType, ConnType, ReplyType
  <2> QED BY <2>1, <2>2 DEF Sound
<1> QED BY <1>1, <1>2, <1>3, <1>4, StreamingSound, BackendSound DEF Next

-----------------------------------------------------------------------------
(* What the clients were told.                                              *)

\* What every attached client has put together after a broadcast.
AllTold == view' = [c \in Clients |-> IF c \in attached THEN Picture' ELSE view[c]]

\* A broadcast leaves every attached client with the device as it is.
LEMMA Told ==
  ASSUME Sound, Sound', ViewType, attached' = attached, AllTold
  PROVE  ViewType' /\ ViewsAreTrue'
<1>1. Picture' \in Pictures
  BY PictureType DEF Sound, CfgType, CapType, Picture, Pictures
<1>2. ViewType'
  BY <1>1 DEF AllTold, ViewType
<1>3. ViewsAreTrue'
  BY DEF AllTold, ViewsAreTrue, Sound, ConnType
<1> QED BY <1>2, <1>3

\* outputChanged is enough when only the output has changed.
LEMMA OutputTold ==
  ASSUME Sound, ViewsAreTrue, TellOutput,
         UNCHANGED <<mode, samples, gain, captureState, captureDone>>
  PROVE  AllTold
<1>1. [Picture EXCEPT !.output = output'] = Picture'
  BY DEF Picture
<1>2. ASSUME NEW c \in attached
      PROVE  [view[c] EXCEPT !.output = output'] = Picture'
  BY <1>1 DEF ViewsAreTrue
<1> QED BY <1>2 DEF TellOutput, AllTold

\* captureState is enough when only the capture has changed.
LEMMA CaptureTold ==
  ASSUME Sound, ViewsAreTrue, TellCapture, UNCHANGED <<mode, samples, output, gain>>
  PROVE  AllTold
<1>1. [Picture EXCEPT !.state = captureState', !.done = captureDone'] = Picture'
  <2> DEFINE Half == [mode |-> mode, samples |-> samples, output |-> output, gain |-> gain,
                      state |-> captureState', done |-> captureDone]
  <2>1. [Picture EXCEPT !.state = captureState'] = Half
    BY DEF Picture
  <2>2. [Half EXCEPT !.done = captureDone'] = Picture'
    BY DEF Picture
  <2> HIDE DEF Half
  <2> QED BY <2>1, <2>2
<1>2. ASSUME NEW c \in attached
      PROVE  [view[c] EXCEPT !.state = captureState', !.done = captureDone'] = Picture'
  BY <1>1 DEF ViewsAreTrue
<1> QED BY <1>2 DEF TellCapture, AllTold

\* gainChanged of the streams that were set is enough.
LEMMA GainsTold ==
  ASSUME Sound, ViewsAreTrue, NEW S, NEW want, SetGains(S, want)
  PROVE  AllTold
<1> DEFINE set == {s \in S : kind = "cee" /\ want[s] \in Gains}
<1>1. gain' = [s \in Names |-> IF s \in set THEN want[s] ELSE gain[s]]
  BY DEF SetGains
<1>2. UNCHANGED <<mode, samples, output, captureState, captureDone>>
  BY DEF SetGains, capVars
<1>3. TellGains(set)
  BY DEF SetGains
<1> HIDE DEF set
<1>4. [s \in Names |-> IF s \in set THEN gain'[s] ELSE gain[s]] = gain'
  BY <1>1
<1>5. [Picture EXCEPT !.gain = [s \in Names |-> IF s \in set THEN gain'[s] ELSE @[s]]] = Picture'
  BY <1>2, <1>4 DEF Picture
<1>6. ASSUME NEW c \in attached
      PROVE  [view[c] EXCEPT !.gain = [s \in Names |-> IF s \in set THEN gain'[s] ELSE @[s]]]
               = Picture'
  BY <1>5 DEF ViewsAreTrue
<1> QED BY <1>3, <1>6 DEF TellGains, AllTold

\* What a client could see of the device, and who looks.
seen == <<mode, samples, output, gain, captureState, captureDone, attached, view>>

\* Nothing to see, nothing to tell.
LEMMA NothingToTell ==
  ASSUME ViewType, ViewsAreTrue, UNCHANGED seen
  PROVE  ViewType' /\ ViewsAreTrue'
<1>1. ViewType'
  BY DEF seen, ViewType
<1>2. Picture' = Picture
  BY DEF seen, Picture
<1> QED BY <1>1, <1>2 DEF seen, ViewsAreTrue

\* A request that is refused is not seen.
LEMMA RefusedUnseen == ASSUME NEW cmd, Refused(cmd) PROVE UNCHANGED seen
BY DEF Refused, cfgVars, capVars, connVars, seen

\* The commands of one backend change nothing that a client is told of.
LEMMA BackendUnseen == ASSUME BackendCommand PROVE UNCHANGED seen
<1>1. \A new : Calibrate(new) => UNCHANGED seen
  BY DEF Calibrate, cfgVars, capVars, connVars, seen
<1>2. CASE M1kWriteCalibration
  BY <1>1, <1>2, RefusedUnseen DEF M1kWriteCalibration, RefusedCalibration
<1>3. CASE \E c \in Clients : CeeWriteCalibration(c)
  BY <1>1, <1>3, RefusedUnseen DEF CeeWriteCalibration, RefusedCalibration
<1>4. CASE \E c \in Clients : TempCalibration(c)
  BY <1>4 DEF TempCalibration, cfgVars, capVars, connVars, seen
<1>5. CASE SetFrontend
  <2>1. CASE Refused("setFrontend")
    BY <2>1, RefusedUnseen
  <2>2. CASE ~Refused("setFrontend")
    BY <1>5, <2>2 DEF SetFrontend, cfgVars, capVars, connVars, seen
  <2> QED BY <2>1, <2>2
<1>6. CASE \E c \in Clients : Erase(c)
  BY <1>6 DEF Erase, cfgVars, capVars, connVars, seen
<1>7. CASE \E c \in Clients : Write(c)
  <2> PICK c \in Clients : Write(c)
    BY <1>7
  <2>1. CASE Refused("write")
    BY <2>1, RefusedUnseen
  <2>2. CASE ~Refused("write")
    BY <2>2 DEF Write, cfgVars, capVars, connVars, seen
  <2> QED BY <2>1, <2>2
<1> QED BY <1>2, <1>3, <1>4, <1>5, <1>6, <1>7 DEF BackendCommand

\* A command of a streaming device is not seen or told to everybody.
LEMMA StreamingTold ==
  ASSUME Sound, ViewsAreTrue, StreamingCommand
  PROVE  UNCHANGED seen \/ (attached' = attached /\ AllTold)
<1>1. \A m, n : Configure(m, n) => attached' = attached /\ AllTold
  BY DEF Configure, TellConfig, AllTold
<1>2. \A S, want : SetGains(S, want) => attached' = attached
  BY DEF SetGains, connVars
<1>3. CASE \E c \in Clients : WsConfigure(c)
  BY <1>1, <1>3, RefusedUnseen DEF WsConfigure
<1>4. CASE RestConfigure
  BY <1>1, <1>4, RefusedUnseen DEF RestConfigure
<1>5. CASE StartCapture
  <2>1. UNCHANGED <<mode, samples, output, gain, attached>>
    BY <1>5 DEF StartCapture, cfgVars, connVars
  <2>2. CASE captureState
    BY <1>5, <2>1, <2>2 DEF StartCapture, Sound, CapType, seen
  <2>3. CASE ~captureState
    BY <1>5, <2>1, <2>3, CaptureTold DEF StartCapture
  <2> QED BY <2>2, <2>3
<1>6. CASE PauseCapture
  <2>1. UNCHANGED <<mode, samples, output, gain, captureDone, attached>>
    BY <1>6 DEF PauseCapture, cfgVars, connVars
  <2>2. CASE captureState
    BY <1>6, <2>1, <2>2, CaptureTold DEF PauseCapture
  <2>3. CASE ~captureState
    BY <1>6, <2>1, <2>3 DEF PauseCapture, Sound, CapType, seen
  <2> QED BY <2>2, <2>3
<1>7. CASE \E out \in Outputs : SetOutput(out)
  <2> PICK out \in Outputs : SetOutput(out)
    BY <1>7
  <2>1. CASE Refused("set")
    BY <2>1, RefusedUnseen
  <2>2. CASE ~Refused("set")
    BY <2>2, OutputTold DEF SetOutput, capVars, connVars
  <2> QED BY <2>1, <2>2
<1>8. CASE \E c \in Clients : WsSetGain(c)
  BY <1>2, <1>8, GainsTold, RefusedUnseen DEF WsSetGain
<1>9. CASE RestInputPost
  BY <1>2, <1>9, GainsTold DEF RestInputPost
<1>10. CASE \E c \in Clients : WsSetCurrentLimit(c)
  <2> PICK c \in Clients : WsSetCurrentLimit(c)
    BY <1>10
  <2>1. CASE Refused("setCurrentLimit")
    BY <2>1, RefusedUnseen
  <2>2. CASE ~Refused("setCurrentLimit")
    BY <2>2 DEF WsSetCurrentLimit, capVars, connVars, seen
  <2> QED BY <2>1, <2>2
<1>11. CASE \E c \in Clients, id \in Ids : Listen(c, id) \/ CancelListen(c, id)
  <2> PICK c \in Clients, id \in Ids : Listen(c, id) \/ CancelListen(c, id)
    BY <1>11
  <2>1. CASE Refused("listen") \/ Refused("cancelListen")
    BY <2>1, RefusedUnseen
  <2>2. CASE ~Refused("listen") /\ ~Refused("cancelListen")
    BY <2>2 DEF Listen, CancelListen, cfgVars, capVars, seen
  <2> QED BY <2>1, <2>2
<1> QED BY <1>3, <1>4, <1>5, <1>6, <1>7, <1>8, <1>9, <1>10, <1>11 DEF StreamingCommand

\* A session starts with the whole picture and ends without one.
LEMMA SessionTold ==
  ASSUME Sound, ViewType, ViewsAreTrue, NEW c \in Clients, Session(c)
  PROVE  ViewType' /\ ViewsAreTrue'
<1>1. Picture \in Pictures
  BY PictureType DEF Sound
<1>2. UNCHANGED <<mode, samples, output, gain, captureState, captureDone>>
  BY DEF Session, SelectDevice, Close, cfgVars, capVars
<1>3. Picture' = Picture
  BY <1>2 DEF Picture
<1>4. CASE SelectDevice(c)
  <2>1. view' = [view EXCEPT ![c] = Picture] /\ attached' = attached \cup {c}
    BY <1>4 DEF SelectDevice
  <2> QED BY <1>1, <1>3, <2>1 DEF ViewType, ViewsAreTrue, Sound, ConnType
<1>5. CASE Close(c)
  <2>1. view' = [view EXCEPT ![c] = None] /\ attached' = attached \ {c}
    BY <1>5 DEF Close
  <2> QED BY <1>3, <2>1 DEF ViewType, ViewsAreTrue, Sound, ConnType
<1> QED BY <1>4, <1>5 DEF Session

\* Every step keeps what the clients were told true.
LEMMA ViewsNext ==
  ASSUME Sound, Sound', ViewType, ViewsAreTrue, [Next]_vars
  PROVE  ViewType' /\ ViewsAreTrue'
<1>1. CASE \E c \in Clients : Session(c)
  BY <1>1, SessionTold
<1>2. CASE StreamingCommand
  BY <1>2, StreamingTold, Told, NothingToTell
<1>3. CASE BackendCommand
  BY <1>3, BackendUnseen, NothingToTell
<1>4. CASE Finish
  <2>1. AllTold /\ attached' = attached
    BY <1>4, CaptureTold DEF Finish, cfgVars, connVars
  <2> QED BY <2>1, Told
<1>5. CASE Panic \/ UNCHANGED vars
  <2>1. UNCHANGED seen
    BY <1>5 DEF Panic, vars, cfgVars, capVars, connVars, seen
  <2> QED BY <2>1, NothingToTell
<1>6. CASE Replug
  BY <1>6 DEF Replug, ViewType, ViewsAreTrue
<1> QED BY <1>1, <1>2, <1>3, <1>4, <1>5, <1>6 DEF Next

\* Init and every step give TypeOK and ViewsAreTrue; each needs the other.
LEMMA Inductive == Spec => [](TypeOK /\ ViewsAreTrue)
<1>1. Init => TypeOK /\ ViewsAreTrue
  <2>1. Init => ViewType /\ ViewsAreTrue
    BY DEF Init, ViewType, ViewsAreTrue
  <2> QED BY <2>1, SoundInit, Parts DEF Sound
<1>2. TypeOK /\ ViewsAreTrue /\ [Next]_vars => (TypeOK /\ ViewsAreTrue)'
  <2> SUFFICES ASSUME TypeOK, ViewsAreTrue, [Next]_vars
               PROVE  TypeOK' /\ ViewsAreTrue'
    OBVIOUS
  <2>1. Sound /\ ViewType
    BY Parts DEF Sound
  <2>2. Sound'
    BY <2>1, SoundNext
  <2>3. ViewType' /\ ViewsAreTrue'
    BY <2>1, <2>2, ViewsNext
  <2>4. TypeOK'
    BY <2>2, <2>3 DEF Sound, TypeOK, CfgType, CapType, CalType, BoardType, ConnType, ViewType,
                      ReplyType
  <2> QED BY <2>3, <2>4
<1> QED BY <1>1, <1>2, PTL DEF Spec

\* The state of the device and of its clients is well formed, whatever was
\* asked of it (process_message, handle_rest).
THEOREM TypeCorrect == Spec => []TypeOK
BY Inductive, PTL

\* Attached clients know the mode, samples, outputs, gains and capture state of
\* the device as they are, for any number of clients and streams and every
\* interleaving of their requests (the notify functions).
THEOREM ViewsStayTrue == Spec => []ViewsAreTrue
BY Inductive, PTL

-----------------------------------------------------------------------------
(* Calibration.                                                             *)

\* A request that is refused leaves the calibration.
LEMMA RefusedCal == ASSUME NEW cmd, Refused(cmd) PROVE UNCHANGED calVars
BY DEF Refused, calVars

\* What is not a command about calibration leaves it, but for Replug.
LEMMA OtherCal ==
  ASSUME \/ \E c \in Clients : Session(c) \/ Erase(c) \/ Write(c)
         \/ StreamingCommand \/ SetFrontend \/ Finish \/ Panic \/ UNCHANGED vars
  PROVE  UNCHANGED calVars
<1>1. CASE \E c \in Clients : Session(c) \/ Erase(c) \/ Write(c)
  BY <1>1, RefusedCal DEF Session, SelectDevice, Close, Erase, Write, calVars
<1>2. CASE \E c \in Clients : WsConfigure(c) \/ WsSetGain(c) \/ WsSetCurrentLimit(c)
  BY <1>2, RefusedCal DEF WsConfigure, Configure, WsSetGain, SetGains, WsSetCurrentLimit, calVars
<1>3. CASE \E c \in Clients, id \in Ids : Listen(c, id) \/ CancelListen(c, id)
  BY <1>3, RefusedCal DEF Listen, CancelListen, calVars
<1>4. CASE RestConfigure \/ RestInputPost
  BY <1>4, RefusedCal DEF RestConfigure, Configure, RestInputPost, SetGains, calVars
<1>5. CASE StartCapture \/ PauseCapture \/ \E out \in Outputs : SetOutput(out)
  BY <1>5, RefusedCal DEF StartCapture, PauseCapture, SetOutput, calVars
<1>6. CASE SetFrontend \/ Finish \/ Panic
  BY <1>6, RefusedCal DEF SetFrontend, Finish, Panic, calVars
<1>7. CASE UNCHANGED vars
  BY <1>7 DEF vars, calVars
<1> QED BY <1>1, <1>2, <1>3, <1>4, <1>5, <1>6, <1>7 DEF StreamingCommand

\* Calibration that is written as a whole is what a replug loads.
LEMMA CalibrateKept ==
  ASSUME NEW new \in Calibrations, new.gain \in {"given", "missing"}, Calibrate(new)
  PROVE  CalibrationKept'
<1>1. PICK ok \in BOOLEAN : /\ eeprom' = IF ok THEN new ELSE eeprom
                            /\ dirty' = (~ok \/ new.gain = "missing")
  BY DEF Calibrate, Stored
<1>2. CASE ok /\ new.gain = "given"
  <2>1. ram' = new /\ eeprom' = new
    BY <1>1, <1>2 DEF Calibrate
  <2>2. Load(new) = new
    BY <1>2, LoadGiven
  <2> QED BY <2>1, <2>2 DEF CalibrationKept, Load
<1>3. CASE ~ok \/ new.gain = "missing"
  BY <1>1, <1>3 DEF CalibrationKept
<1> QED BY <1>2, <1>3

\* Every step keeps CalibrationKept.
LEMMA CalibrationNext ==
  ASSUME CalibrationKept, [Next]_vars
  PROVE  CalibrationKept'
<1>1. ASSUME UNCHANGED calVars PROVE CalibrationKept'
  BY <1>1 DEF calVars, CalibrationKept, Load
<1>2. CASE M1kWriteCalibration
  <2>1. CASE RefusedCalibration
    BY <1>1, <2>1, RefusedCal DEF RefusedCalibration
  <2>2. CASE ~RefusedCalibration
    <3>1. PICK d \in CalData \cup {DefaultData} : Calibrate([data |-> d, gain |-> "given"])
      BY <1>2, <2>2 DEF M1kWriteCalibration
    <3>2. [data |-> d, gain |-> "given"] \in Calibrations
      BY DEF Calibrations
    <3> QED BY <3>1, <3>2, CalibrateKept
  <2> QED BY <2>1, <2>2
<1>3. CASE \E c \in Clients : CeeWriteCalibration(c)
  <2>1. CASE RefusedCalibration
    BY <1>1, <2>1, RefusedCal DEF RefusedCalibration
  <2>2. CASE ~RefusedCalibration
    <3>1. PICK d \in CalData, g \in {"given", "missing"} : Calibrate([data |-> d, gain |-> g])
      BY <1>3, <2>2 DEF CeeWriteCalibration
    <3>2. [data |-> d, gain |-> g] \in Calibrations
      BY DEF Calibrations
    <3> QED BY <3>1, <3>2, CalibrateKept
  <2> QED BY <2>1, <2>2
<1>4. CASE \E c \in Clients : TempCalibration(c)
  BY <1>4 DEF TempCalibration, CalibrationKept
<1>5. CASE Replug
  BY <1>5 DEF Replug, CalibrationKept, Load
<1> QED BY <1>1, <1>2, <1>3, <1>4, <1>5, OtherCal DEF Next, BackendCommand

\* RAM and EEPROM agree unless a caller left them apart, over every failed
\* write and every replug (writeCalibration, tempCalibration, create).
THEOREM CalibrationStaysKept == Spec => []CalibrationKept
<1>1. Init => CalibrationKept
  BY DEF Init, CalibrationKept
<1> QED BY <1>1, CalibrationNext, PTL DEF Spec

-----------------------------------------------------------------------------
(* Errors.                                                                  *)

\* What ErrorsChangeNothing says of one step.
ErrorIsQuiet ==
  reply'.kind = "error" =>
    /\ UNCHANGED <<mode, samples, output, limit, capVars, calVars, frontend, flash, attached>>
    /\ gain' # gain \/ hwGain' # hwGain =>
         reply'.cmd = "input" /\ \A c \in attached : view'[c].gain = gain'
    /\ listeners' # listeners =>
         reply'.cmd = "listen" /\ listeners' = listeners \ {reply'.about}

\* Most steps answer without an error or are refused at once.
LEMMA AnswersAreQuiet ==
  /\ \A cmd : Ok(cmd) => ErrorIsQuiet
  /\ Silent => ErrorIsQuiet
  /\ \A cmd : Refused(cmd) => ErrorIsQuiet
<1>1. \A cmd : Ok(cmd) => reply'.kind = "ok"
  BY DEF Ok, Answer
<1>2. Silent => reply'.kind = "none"
  BY DEF Silent, Answer
<1>3. ASSUME NEW cmd, Refused(cmd) PROVE ErrorIsQuiet
  BY <1>3 DEF Refused, cfgVars, capVars, calVars, connVars, ErrorIsQuiet
<1> QED BY <1>1, <1>2, <1>3 DEF ErrorIsQuiet

\* A listen that fails late has cancelled the listener of its id.
LEMMA ListenIsQuiet ==
  ASSUME NEW c \in Clients, NEW id \in Ids, Listen(c, id)
  PROVE  ErrorIsQuiet
<1>1. CASE Refused("listen") \/ Ok("listen")
  BY <1>1, AnswersAreQuiet
<1>2. CASE ~Refused("listen") /\ ~Ok("listen")
  <2>1. listeners' = listeners \ {<<c, id>>} /\ Answer("error", "listen", <<c, id>>)
    BY <1>2 DEF Listen
  <2>2. reply'.cmd = "listen" /\ reply'.about = <<c, id>>
    BY <2>1 DEF Answer
  <2>3. UNCHANGED <<mode, samples, output, limit, capVars, calVars, frontend, flash, attached,
                    gain, hwGain>>
    BY <1>2 DEF Listen, cfgVars
  <2> QED BY <2>1, <2>2, <2>3 DEF ErrorIsQuiet
<1> QED BY <1>1, <1>2

\* A POST of gains that stops half-way has told those it has set.
LEMMA InputIsQuiet ==
  ASSUME Sound, ViewsAreTrue', RestInputPost
  PROVE  ErrorIsQuiet
<1> PICK want \in [Names -> Gains \cup {Odd, Absent, Bad}] :
       /\ SetGains(Before(want), want)
       /\ IF Before(want) = Names THEN Ok("input") ELSE Answer("error", "input", None)
  BY DEF RestInputPost
<1>1. CASE Ok("input")
  BY <1>1, AnswersAreQuiet
<1>2. CASE Answer("error", "input", None)
  <2>1. reply'.cmd = "input"
    BY <1>2 DEF Answer
  <2>2. UNCHANGED <<mode, samples, output, limit, capVars, calVars, frontend, flash, attached,
                    listeners>>
    BY DEF SetGains, connVars
  <2>3. \A c \in attached : view'[c].gain = gain'
    <3>1. \A c \in attached' : view'[c] = Picture'
      BY DEF ViewsAreTrue
    <3>2. Picture'.gain = gain'
      BY DEF Picture
    <3> QED BY <2>2, <3>1, <3>2
  <2> QED BY <2>1, <2>2, <2>3 DEF ErrorIsQuiet
<1> QED BY <1>1, <1>2

\* No step answers with an error after it has changed anything else.
LEMMA NextIsQuiet ==
  ASSUME Sound, ViewsAreTrue', [Next]_vars
  PROVE  ErrorIsQuiet
<1>1. CASE \E c \in Clients : Session(c)
  BY <1>1, AnswersAreQuiet DEF Session, SelectDevice, Close
<1>2. CASE StreamingCommand
  <2>1. CASE \E c \in Clients : WsConfigure(c) \/ WsSetGain(c) \/ WsSetCurrentLimit(c)
    BY <2>1, AnswersAreQuiet DEF WsConfigure, WsSetGain, WsSetCurrentLimit
  <2>2. CASE \E c \in Clients, id \in Ids : Listen(c, id)
    BY <2>2, ListenIsQuiet
  <2>3. CASE \E c \in Clients, id \in Ids : CancelListen(c, id)
    BY <2>3, AnswersAreQuiet DEF CancelListen
  <2>4. CASE RestConfigure \/ StartCapture \/ PauseCapture \/ \E out \in Outputs : SetOutput(out)
    BY <2>4, AnswersAreQuiet DEF RestConfigure, StartCapture, PauseCapture, SetOutput
  <2>5. CASE RestInputPost
    BY <2>5, InputIsQuiet
  <2> QED BY <1>2, <2>1, <2>2, <2>3, <2>4, <2>5 DEF StreamingCommand
<1>3. CASE BackendCommand
  <2>1. CASE M1kWriteCalibration \/ SetFrontend
    BY <2>1, AnswersAreQuiet DEF M1kWriteCalibration, RefusedCalibration, SetFrontend
  <2>2. CASE \E c \in Clients : CeeWriteCalibration(c) \/ TempCalibration(c)
    BY <2>2, AnswersAreQuiet DEF CeeWriteCalibration, RefusedCalibration, TempCalibration
  <2>3. CASE \E c \in Clients : Erase(c) \/ Write(c)
    BY <2>3, AnswersAreQuiet DEF Erase, Write
  <2> QED BY <1>3, <2>1, <2>2, <2>3 DEF BackendCommand
<1>4. CASE Finish \/ Panic \/ Replug
  BY <1>4, AnswersAreQuiet DEF Finish, Panic, Replug
<1>5. CASE UNCHANGED vars
  BY <1>5 DEF vars, cfgVars, capVars, calVars, connVars, ErrorIsQuiet
<1> QED BY <1>1, <1>2, <1>3, <1>4, <1>5 DEF Next

\* An error leaves the device as it was but for the two commands that stop
\* half-way, of which everybody is told (process_message, rest_input_post).
THEOREM ErrorsAreQuiet == Spec => ErrorsChangeNothing
<1>1. TypeOK => Sound
  BY Parts DEF Sound
<1>2. TypeOK /\ ViewsAreTrue' /\ [Next]_vars => [ErrorIsQuiet]_vars
  BY <1>1, NextIsQuiet
<1>3. ErrorsChangeNothing <=> [][ErrorIsQuiet]_vars
  BY PTL DEF ErrorsChangeNothing, ErrorIsQuiet
<1> QED BY <1>2, <1>3, Inductive, PTL DEF Spec

=============================================================================
