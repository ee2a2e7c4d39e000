------------------------------ MODULE M1kProofs ------------------------------
(***************************************************************************)
(* What the model checker finds on the small instance of MCM1k, for all    *)
(* channels, modes, transfer sizes, window lengths and skews: M1k keeps    *)
(* TypeOK, ModesAgree and Realigns.                                        *)
(***************************************************************************)
EXTENDS M1k, TLAPS

-----------------------------------------------------------------------------
(* Typing.                                                                  *)

\* The state, by part.
CapType  == config \in Configs /\ captureState \in BOOLEAN /\ captureDone \in BOOLEAN
            /\ captureI \in Nat
ModeType == sourceMode \in [Channels -> Modes] /\ mMode \in [Channels -> Modes]
            /\ hwMode \in [Channels -> Modes] /\ written \subseteq Channels
TaskType == piped \in BOOLEAN /\ toFill \in 0..NTransfers /\ inRuns \in BOOLEAN
            /\ incount \in Nat /\ outcount \in Nat
            /\ skew \in -MaxSkew..MaxSkew /\ stalls \in 0..MaxStalls
StaleType == stale \in [in : 0..NTransfers, size : Nat \ {0}, out : 0..NTransfers]
LeadType == lead \in Int /\ leadSettle \in 0..Settle
            /\ leadMin \in Leads /\ leadBaseline \in Leads /\ leadCount \in 0..(Window - 1)
            /\ windows \in 0..2

\* The parts make up TypeOK.
LEMMA Parts == TypeOK <=> CapType /\ ModeType /\ TaskType /\ StaleType /\ LeadType
BY DEF TypeOK, CapType, ModeType, TaskType, StaleType, LeadType

\* Every pipeline state that NoPipeline leaves is well formed.
LEMMA NoPipelineType ==
  ASSUME NoPipeline
  PROVE  TaskType'
<1>1. NTransfers \in Nat /\ MaxSkew \in Nat /\ MaxStalls \in Nat
  BY DetectorAssumption
<1>2. skew' \in -MaxSkew..MaxSkew /\ stalls' \in 0..MaxStalls
  BY <1>1 DEF NoPipeline
<1>3. toFill' \in 0..NTransfers /\ incount' \in Nat /\ outcount' \in Nat
  BY <1>1 DEF NoPipeline
<1>4. piped' \in BOOLEAN /\ inRuns' \in BOOLEAN
  BY DEF NoPipeline
<1> QED BY <1>2, <1>3, <1>4 DEF TaskType

\* The lower of two leads is one of them.
LEMMA LowerType ==
  ASSUME NEW a \in Leads, NEW b \in Int
  PROVE  Lower(a, b) \in Int /\ (Lower(a, b) = a \/ Lower(a, b) = b)
BY DEF Lower, Leads

\* The detector keeps its state well formed.
LEMMA DetectType ==
  ASSUME LeadType, NEW l \in Int, Detect(l)
  PROVE  /\ lead' \in Int /\ leadSettle' \in 0..Settle
         /\ leadMin' \in Leads /\ leadBaseline' \in Leads /\ leadCount' \in 0..(Window - 1)
<1> DEFINE low == Lower(leadMin, l)
<1>1. low \in Int
  BY LowerType DEF LeadType
<1>2. Window \in Nat \ {0} /\ Settle \in Nat
  BY DetectorAssumption
<1>3. CASE leadSettle > 0
  BY <1>2, <1>3 DEF LeadType, Detect
<1>4. CASE ~(leadSettle > 0)
  <2> HIDE DEF low
  <2>1. /\ leadMin' = NextMin(low)
        /\ leadCount' = IF WindowFull THEN 0 ELSE leadCount + 1
        /\ leadBaseline' = IF WindowFull /\ leadBaseline = None THEN low ELSE leadBaseline
        /\ lead' = IF WindowFull /\ leadBaseline # None THEN l - (low - leadBaseline) ELSE l
        /\ leadSettle' = leadSettle
    BY <1>4 DEF Detect, low
  <2>2. leadMin' \in Leads /\ leadBaseline' \in Leads
    BY <1>1, <2>1 DEF NextMin, Leads, LeadType
  <2>3. leadCount' \in 0..(Window - 1)
    BY <1>2, <2>1 DEF WindowFull, LeadType
  <2>4. lead' \in Int
    BY <1>1, <2>1 DEF Leads, LeadType
  <2> QED BY <2>1, <2>2, <2>3, <2>4 DEF LeadType
<1> QED BY <1>3, <1>4

\* HI_Z on every channel is an assignment of modes.
LEMMA AllHiZType == AllHiZ \in [Channels -> Modes]
BY DeviceAssumption DEF AllHiZ

\* on_pause_capture leaves well-formed modes, tasks and stale turns.
LEMMA PauseHooksType ==
  ASSUME CapType, TaskType, NEW left, NEW n, n \subseteq 0..NTransfers, PauseHooks(left, n)
  PROVE  /\ hwMode' \in [Channels -> Modes] /\ written' \subseteq Channels
         /\ TaskType' /\ StaleType'
<1>1. config.ppt \in Nat \ {0}
  BY DeviceAssumption DEF CapType
<1>2. NTransfers \in Nat
  BY DetectorAssumption
<1>3. StaleOut \subseteq 0..NTransfers
  BY <1>2 DEF StaleOut, TaskType
<1>4. StaleType'
  <2>1. PICK i \in n, o \in StaleOut : stale' = [in |-> i, size |-> config.ppt, out |-> o]
    BY DEF PauseHooks
  <2> QED BY <1>1, <1>3, <2>1 DEF StaleType
<1>5. TaskType'
  BY NoPipelineType DEF PauseHooks
<1>6. hwMode' \in [Channels -> Modes] /\ written' \subseteq Channels
  BY AllHiZType DEF PauseHooks, Program
<1> QED BY <1>4, <1>5, <1>6

\* The turns that abort() may leave an IN task are at most its transfers.
LEMMA StaleInType == StaleIn \subseteq 0..NTransfers
BY DetectorAssumption DEF StaleIn

\* packet_done keeps everything but the tasks' own counters well formed.
LEMMA ReceiveType ==
  ASSUME TypeOK, NEW n \in Nat, NEW left, NEW more, more \subseteq 0..NTransfers,
         Receive(n, left, more)
  PROVE  /\ CapType' /\ ModeType'
         /\ lead' \in Int /\ leadSettle' \in 0..Settle
         /\ leadMin' \in Leads /\ leadBaseline' \in Leads /\ leadCount' \in 0..(Window - 1)
         /\ Full(Captured(n)) /\ captureState => TaskType' /\ StaleType'
<1> USE Parts
<1>1. CapType'
  BY DEF Receive, CapType, Captured, Full
<1>2. CASE Full(Captured(n)) /\ captureState
  <2>1. PauseHooks(left, more) /\ mMode' = mMode /\ Detect(0) /\ sourceMode' = sourceMode
    BY <1>2 DEF Receive, RequestKept
  <2>2. TypeOK => CapType /\ TaskType /\ LeadType /\ ModeType
    OBVIOUS
  <2>3. /\ lead' \in Int /\ leadSettle' \in 0..Settle
        /\ leadMin' \in Leads /\ leadBaseline' \in Leads /\ leadCount' \in 0..(Window - 1)
    BY <2>1, <2>2, DetectType
  <2>4. /\ hwMode' \in [Channels -> Modes] /\ written' \subseteq Channels
        /\ TaskType' /\ StaleType'
    BY <2>1, <2>2, PauseHooksType
  <2>5. ModeType'
    BY <2>1, <2>2, <2>4 DEF ModeType
  <2> QED BY <1>1, <2>3, <2>4, <2>5
<1>3. CASE ~(Full(Captured(n)) /\ captureState)
  <2>1. /\ UNCHANGED <<hwMode, written, mMode, sourceMode>>
        /\ Detect(lead - n)
    BY <1>3 DEF Receive
  <2>2. lead - n \in Int
    BY DEF LeadType
  <2> QED BY <1>1, <1>3, <2>1, <2>2, DetectType DEF ModeType
<1> QED BY <1>2, <1>3

\* Starting leaves the detector forgetful or as it was.
LEMMA StartingType ==
  ASSUME TypeOK, Starting
  PROVE  /\ CapType' /\ StaleType' /\ windows' \in 0..2
         /\ leadSettle' \in 0..Settle
         /\ leadMin' \in Leads /\ leadBaseline' \in Leads /\ leadCount' \in 0..(Window - 1)
         /\ sourceMode' = sourceMode /\ mMode' = mMode
<1> USE Parts
<1>1. Window \in Nat \ {0} /\ Settle \in Nat
  BY DetectorAssumption
<1>2. /\ leadSettle' \in 0..Settle
      /\ leadMin' \in Leads /\ leadBaseline' \in Leads /\ leadCount' \in 0..(Window - 1)
  BY <1>1 DEF Starting, ForgetLead, leadVars, LeadType, Leads
<1>3. CapType'
  <2>1. captureI' \in Nat
    BY DEF Starting, CapType
  <2>2. config' \in Configs /\ captureState' \in BOOLEAN /\ captureDone' \in BOOLEAN
    BY DEF Starting, CapType
  <2> QED BY <2>1, <2>2 DEF CapType
<1>4. StaleType'
  BY DEF Starting, StaleType
<1> QED BY <1>2, <1>3, <1>4 DEF Starting

\* The initial states are well formed.
LEMMA TypeInit == Init => TypeOK
<1> SUFFICES ASSUME Init PROVE CapType /\ ModeType /\ TaskType /\ StaleType /\ LeadType
  BY Parts
<1>1. /\ NTransfers \in Nat /\ MaxSkew \in Nat /\ MaxStalls \in Nat
      /\ Window \in Nat \ {0} /\ Settle \in Nat
  BY DetectorAssumption
<1>2. CapType
  BY DeviceAssumption DEF Init, CapType
<1>3. ModeType
  BY AllHiZType DEF Init, ModeType
<1>4. TaskType
  <2>1. skew \in -MaxSkew..MaxSkew /\ stalls \in 0..MaxStalls /\ toFill \in 0..NTransfers
        /\ incount \in Nat /\ outcount \in Nat
    BY <1>1 DEF Init
  <2>2. piped \in BOOLEAN /\ inRuns \in BOOLEAN
    BY DEF Init
  <2> QED BY <2>1, <2>2 DEF TaskType
<1>5. StaleType
  BY <1>1 DEF Init, StaleType, NoStale
<1>6. LeadType
  BY <1>1 DEF Init, LeadType, Leads
<1> QED BY <1>2, <1>3, <1>4, <1>5, <1>6

\* Every step of a client, a task or the process keeps the state well formed.
LEMMA TypeNext == TypeOK /\ [Next]_vars => TypeOK'
<1> SUFFICES ASSUME TypeOK, [Next]_vars
             PROVE  CapType' /\ ModeType' /\ TaskType' /\ StaleType' /\ LeadType'
  BY DEF TypeOK, CapType, ModeType, TaskType, StaleType, LeadType
<1> USE Parts
<1>0. /\ NTransfers \in Nat \ {0} /\ MaxSkew \in Nat /\ MaxStalls \in Nat
      /\ Window \in Nat \ {0} /\ Settle \in Nat
  BY DetectorAssumption
<1>p. config.ppt \in Nat \ {0}
  BY DeviceAssumption DEF CapType
<1>1. CASE StartCapture
  <2>1. ModeType'
    BY <1>1, StartingType DEF StartCapture, Program, ModeType
  <2>2. TaskType'
    <3>1. toFill' \in 0..NTransfers /\ incount' \in Nat /\ outcount' \in Nat
      BY <1>0, <1>1 DEF StartCapture
    <3>2. piped' \in BOOLEAN /\ inRuns' \in BOOLEAN /\ skew' = skew /\ stalls' = stalls
      BY <1>1 DEF StartCapture, histVars
    <3> QED BY <3>1, <3>2 DEF TaskType
  <2>3. lead' \in Int
    BY <1>1 DEF StartCapture
  <2> QED BY <1>1, <2>1, <2>2, <2>3, StartingType DEF StartCapture, LeadType
<1>2. CASE StartUnclaimed
  <2>1. ModeType'
    BY <1>2, StartingType DEF StartUnclaimed, ModeType
  <2>2. TaskType'
    BY <1>2 DEF StartUnclaimed, taskVars, histVars, TaskType
  <2>3. lead' \in Int
    BY <1>2 DEF StartUnclaimed, LeadType
  <2> QED BY <1>2, <2>1, <2>2, <2>3, StartingType DEF StartUnclaimed, LeadType
<1>3. CASE StartWithoutEndpoints
  <2>1. ModeType'
    BY <1>3, StartingType DEF StartWithoutEndpoints, Program, ModeType
  <2>2. TaskType'
    BY <1>3 DEF StartWithoutEndpoints, taskVars, histVars, TaskType
  <2>3. lead' \in Int
    BY <1>3 DEF StartWithoutEndpoints
  <2> QED BY <1>3, <2>1, <2>2, <2>3, StartingType DEF StartWithoutEndpoints, LeadType
<1>4. CASE PauseCapture
  <2>1. /\ hwMode' \in [Channels -> Modes] /\ written' \subseteq Channels
        /\ TaskType' /\ StaleType'
    BY <1>4, StaleInType, PauseHooksType DEF PauseCapture
  <2>2. CapType'
    BY <1>4 DEF PauseCapture, CapType
  <2>3. ModeType'
    BY <1>4, <2>1 DEF PauseCapture, RequestKept, ModeType
  <2>4. LeadType'
    BY <1>4 DEF PauseCapture, leadVars, LeadType
  <2> QED BY <2>1, <2>2, <2>3, <2>4
<1>5. CASE \E c \in Configs : Configure(c)
  <2> PICK c \in Configs : Configure(c)
    BY <1>5
  <2>1. /\ hwMode' \in [Channels -> Modes] /\ written' \subseteq Channels
        /\ TaskType' /\ StaleType'
    <3>1. CASE captureState
      BY <3>1, StaleInType, PauseHooksType DEF Configure
    <3>2. CASE ~captureState
      BY <3>2 DEF Configure, taskVars, histVars, ModeType, TaskType, StaleType
    <3> QED BY <3>1, <3>2
  <2>2. CapType'
    BY DEF Configure, CapType
  <2>3. ModeType'
    BY <2>1, AllHiZType DEF Configure, ModeType
  <2>4. LeadType'
    BY DEF Configure, leadVars, LeadType
  <2> QED BY <2>1, <2>2, <2>3, <2>4
<1>6. CASE \E ch \in Channels, mode \in Modes : SetOutput(ch, mode)
  <2> PICK ch \in Channels, mode \in Modes : SetOutput(ch, mode)
    BY <1>6
  <2>1. ModeType'
    BY DEF SetOutput, ModeType
  <2>2. CapType' /\ StaleType'
    BY DEF SetOutput, capVars, CapType, StaleType
  <2>3. TaskType'
    BY DEF SetOutput, taskVars, histVars, TaskType
  <2>4. LeadType'
    BY DEF SetOutput, leadVars, LeadType
  <2> QED BY <2>1, <2>2, <2>3, <2>4
<1>7. CASE \E stalled \in BOOLEAN : HandleIn(stalled)
  <2> PICK stalled \in BOOLEAN : HandleIn(stalled)
    BY <1>7
  <2> DEFINE again == Wants(incount)
             more == IF again THEN 0..(NTransfers - 1) ELSE {0}
  <2>1. Receive(config.ppt, stale, more) /\ more \subseteq 0..NTransfers
    BY <1>0 DEF HandleIn
  <2>2. windows' \in 0..2
    BY DEF HandleIn, NextWindows, LeadType
  <2>3. CASE Full(Captured(config.ppt)) /\ captureState
    BY <1>p, <2>1, <2>2, <2>3, ReceiveType DEF LeadType
  <2>4. CASE ~(Full(Captured(config.ppt)) /\ captureState)
    <3>1. /\ inRuns' = again
          /\ incount' = (IF again THEN Counted(incount) ELSE incount)
          /\ skew' = (IF stalled THEN skew ELSE skew - 1)
          /\ stalls' = (IF stalled THEN stalls + 1 ELSE stalls)
          /\ UNCHANGED <<stale, piped, toFill, outcount>>
          /\ IF stalled THEN stalls < MaxStalls ELSE skew > -MaxSkew
      BY <2>4 DEF HandleIn, Receive
    <3>2. skew' \in -MaxSkew..MaxSkew /\ stalls' \in 0..MaxStalls
      BY <1>0, <3>1 DEF TaskType
    <3>3. incount' \in Nat
      BY <3>1 DEF TaskType, Counted
    <3>4. inRuns' \in BOOLEAN
      BY <1>0, <1>p, <3>1 DEF Wants, CapType
    <3>5. TaskType'
      BY <3>1, <3>2, <3>3, <3>4 DEF TaskType
    <3>6. StaleType'
      BY <3>1 DEF StaleType
    <3> QED BY <1>p, <2>1, <2>2, <3>5, <3>6, ReceiveType DEF LeadType
  <2> QED BY <2>3, <2>4
<1>8. CASE \E stalled \in BOOLEAN : Refill(stalled)
  <2> PICK stalled \in BOOLEAN : Refill(stalled)
    BY <1>8
  <2>1. CapType' /\ StaleType'
    BY DEF Refill, capVars, CapType, StaleType
  <2>2. ModeType'
    BY DEF Refill, modeVars, ModeType
  <2>3. LeadType'
    BY <1>p DEF Refill, leadVars, LeadType
  <2>4. skew' \in -MaxSkew..MaxSkew /\ stalls' \in 0..MaxStalls /\ outcount' \in Nat
    BY <1>0 DEF Refill, TaskType, Counted
  <2>5. TaskType'
    BY <2>4 DEF Refill, TaskType
  <2> QED BY <2>1, <2>2, <2>3, <2>5
<1>9. CASE FillFirst
  <2>1. CapType' /\ StaleType'
    BY <1>9 DEF FillFirst, capVars, CapType, StaleType
  <2>2. ModeType'
    BY <1>9 DEF FillFirst, modeVars, ModeType
  <2>3. LeadType'
    BY <1>9, <1>p DEF FillFirst, leadVars, LeadType
  <2>4. toFill' \in 0..NTransfers
    BY <1>0, <1>9 DEF FillFirst, TaskType
  <2>5. TaskType'
    BY <1>9, <2>4 DEF FillFirst, histVars, TaskType
  <2> QED BY <2>1, <2>2, <2>3, <2>5
<1>10. CASE HandleStaleIn
  <2> DEFINE n == IF stale.size < config.ppt THEN stale.size ELSE config.ppt
             left == [stale EXCEPT !.in = @ - 1]
  <2>1. n \in Nat /\ StaleIn \subseteq 0..NTransfers
    BY <1>p, StaleInType DEF StaleType
  <2>2. Receive(n, left, StaleIn) /\ windows' = 0
    BY <1>10 DEF HandleStaleIn
  <2>3. /\ CapType' /\ ModeType'
        /\ lead' \in Int /\ leadSettle' \in 0..Settle
        /\ leadMin' \in Leads /\ leadBaseline' \in Leads /\ leadCount' \in 0..(Window - 1)
        /\ Full(Captured(n)) /\ captureState => TaskType' /\ StaleType'
    <3>1. TypeOK /\ Receive(n, left, StaleIn) /\ n \in Nat /\ StaleIn \subseteq 0..NTransfers
      BY <2>1, <2>2
    <3> HIDE DEF n, left
    <3> QED BY <3>1, ReceiveType
  <2>4. LeadType'
    BY <2>2, <2>3 DEF LeadType
  <2>5. CASE Full(Captured(n)) /\ captureState
    BY <2>3, <2>4, <2>5
  <2>6. CASE ~(Full(Captured(n)) /\ captureState)
    <3>1. /\ stale' = left /\ UNCHANGED <<inRuns, incount, histVars, piped, toFill, outcount>>
      BY <1>10, <2>6 DEF HandleStaleIn, Receive
    <3>2. StaleType'
      BY <1>0, <1>10, <3>1 DEF HandleStaleIn, StaleType
    <3>3. TaskType'
      BY <3>1 DEF histVars, TaskType
    <3> QED BY <2>3, <2>4, <3>2, <3>3
  <2> QED BY <2>5, <2>6
<1>11. CASE FillStale
  <2>1. CapType' /\ ModeType'
    BY <1>11 DEF FillStale, capVars, modeVars, CapType, ModeType
  <2>2. TaskType'
    BY <1>11 DEF FillStale, taskVars, histVars, TaskType
  <2>3. LeadType'
    BY <1>11, <1>p DEF FillStale, leadVars, LeadType
  <2>4. StaleType'
    BY <1>0, <1>11 DEF FillStale, StaleType
  <2> QED BY <2>1, <2>2, <2>3, <2>4
<1>12. CASE Restart
  <2>1. CapType'
    BY <1>12, DeviceAssumption DEF Restart, CapType
  <2>2. ModeType'
    BY <1>12, AllHiZType DEF Restart, ModeType
  <2>3. TaskType'
    BY <1>12, NoPipelineType DEF Restart
  <2>4. StaleType'
    BY <1>0, <1>12 DEF Restart, NoStale, StaleType
  <2>5. LeadType'
    BY <1>0, <1>12 DEF Restart, ForgetLead, Leads, LeadType
  <2> QED BY <2>1, <2>2, <2>3, <2>4, <2>5
<1>13. CASE UNCHANGED vars
  <2>1. CapType' /\ ModeType' /\ StaleType'
    BY <1>13 DEF vars, capVars, modeVars, CapType, ModeType, StaleType
  <2>2. TaskType'
    BY <1>13 DEF vars, taskVars, histVars, TaskType
  <2>3. LeadType'
    BY <1>13 DEF vars, leadVars, LeadType
  <2> QED BY <2>1, <2>2, <2>3
<1> QED BY <1>1, <1>2, <1>3, <1>4, <1>5, <1>6, <1>7, <1>8, <1>9, <1>10, <1>11, <1>12, <1>13
        DEF Next, Command, Task

\* Type correctness of M1k.
THEOREM TypeCorrect == Spec => []TypeOK
BY TypeInit, TypeNext, PTL DEF Spec

-----------------------------------------------------------------------------
(* Modes.                                                                   *)

\* on_pause_capture leaves every channel in HI_Z.
LEMMA PausedIsHiZ ==
  ASSUME NEW left, NEW n, PauseHooks(left, n), mMode' = sourceMode', captureState' = FALSE
  PROVE  ModesAgree'
BY DEF PauseHooks, Program, AllHiZ, ModesAgree

\* packet_done changes modes only by pausing.
LEMMA ReceiveModes ==
  ASSUME TypeOK, ModesAgree, NEW n, NEW left, NEW more, Receive(n, left, more)
  PROVE  ModesAgree'
<1>1. CASE Full(Captured(n)) /\ captureState
  <2>1. PauseHooks(left, more) /\ mMode' = sourceMode'
    BY <1>1 DEF Receive, RequestKept, ModesAgree
  <2>2. captureState' = FALSE
    BY <1>1 DEF Receive
  <2> QED BY <2>1, <2>2, PausedIsHiZ
<1>2. CASE ~(Full(Captured(n)) /\ captureState)
  <2>1. UNCHANGED <<hwMode, written, mMode, sourceMode>>
    BY <1>2 DEF Receive
  <2>2. captureState' = captureState
    BY <1>2 DEF Receive, TypeOK
  <2> QED BY <2>1, <2>2 DEF ModesAgree
<1> QED BY <1>1, <1>2

\* The step of each command, task and restart keeps hardware and request together.
LEMMA ModesNext == TypeOK /\ ModesAgree /\ [Next]_vars => ModesAgree'
<1> SUFFICES ASSUME TypeOK, ModesAgree, [Next]_vars PROVE ModesAgree'
  OBVIOUS
<1>1. CASE StartCapture
  BY <1>1 DEF StartCapture, Starting, Program, ModesAgree
<1>2. CASE StartUnclaimed
  BY <1>2 DEF StartUnclaimed, Starting, ModesAgree
<1>3. CASE StartWithoutEndpoints
  BY <1>3 DEF StartWithoutEndpoints, Starting, Program, ModesAgree
<1>4. CASE PauseCapture
  <2>1. mMode' = sourceMode' /\ captureState' = FALSE /\ PauseHooks(stale, StaleIn)
    BY <1>4 DEF PauseCapture, RequestKept, ModesAgree
  <2> QED BY <2>1, PausedIsHiZ
<1>5. CASE \E c \in Configs : Configure(c)
  <2> PICK c \in Configs : Configure(c)
    BY <1>5
  <2>1. mMode' = sourceMode' /\ captureState' = FALSE
    BY DEF Configure
  <2>2. CASE captureState
    BY <2>1, <2>2, PausedIsHiZ DEF Configure
  <2>3. CASE ~captureState
    BY <2>1, <2>3 DEF Configure, ModesAgree
  <2> QED BY <2>2, <2>3
<1>6. CASE \E ch \in Channels, mode \in Modes : SetOutput(ch, mode)
  <2> PICK ch \in Channels, mode \in Modes : SetOutput(ch, mode)
    BY <1>6
  <2>1. mMode' = sourceMode' /\ captureState' = captureState
    BY DEF SetOutput, capVars, ModesAgree
  <2>2. ASSUME NEW x \in written'
        PROVE  hwMode'[x] = IF captureState' THEN mMode'[x] ELSE HiZ
    <3>1. CASE captureState /\ mMode[ch] # mode
      <4>1. hwMode' = [hwMode EXCEPT ![ch] = mode] /\ mMode' = [mMode EXCEPT ![ch] = mode]
            /\ written' = written \cup {ch} /\ written \subseteq Channels
            /\ hwMode \in [Channels -> Modes] /\ mMode \in [Channels -> Modes]
        BY <3>1 DEF SetOutput, TypeOK
      <4>2. CASE x = ch
        BY <2>1, <3>1, <4>1, <4>2
      <4>3. CASE x # ch
        BY <2>1, <2>2, <3>1, <4>1, <4>3 DEF ModesAgree
      <4> QED BY <4>2, <4>3
    <3>2. CASE ~(captureState /\ mMode[ch] # mode)
      BY <2>1, <2>2, <3>2 DEF SetOutput, ModesAgree, TypeOK
    <3> QED BY <3>1, <3>2
  <2> QED BY <2>1, <2>2 DEF ModesAgree
<1>7. CASE \E stalled \in BOOLEAN : HandleIn(stalled)
  BY <1>7, ReceiveModes DEF HandleIn
<1>8. CASE \E stalled \in BOOLEAN : Refill(stalled)
  BY <1>8 DEF Refill, capVars, modeVars, ModesAgree
<1>9. CASE FillFirst
  BY <1>9 DEF FillFirst, capVars, modeVars, ModesAgree
<1>10. CASE HandleStaleIn
  BY <1>10, ReceiveModes DEF HandleStaleIn
<1>11. CASE FillStale
  BY <1>11 DEF FillStale, capVars, modeVars, ModesAgree
<1>12. CASE Restart
  BY <1>12 DEF Restart, ModesAgree
<1>13. CASE UNCHANGED vars
  BY <1>13 DEF vars, capVars, modeVars, ModesAgree
<1> QED BY <1>1, <1>2, <1>3, <1>4, <1>5, <1>6, <1>7, <1>8, <1>9, <1>10, <1>11, <1>12, <1>13
        DEF Next, Command, Task

\* The hardware of every programmed channel is in the mode its client asked
\* for in a capture and in HI_Z out of it, over every pause, completion,
\* configure, restart and late turn of an aborted task.
THEOREM HardwareFollows == Spec => []ModesAgree
<1>1. Init => ModesAgree
  BY DEF Init, ModesAgree
<1> QED BY <1>1, TypeInit, TypeNext, ModesNext, PTL DEF Spec

-----------------------------------------------------------------------------
(* The lead.                                                                *)

\* The bounds of Realigns, on the lead after a window without a disturbance.
Near ==
  /\ EvenLead - leadBaseline >= (1 - MaxSkew) * config.ppt
  /\ EvenLead - leadBaseline <= MaxSkew * config.ppt

\* The bounds of a minimum taken since the last disturbance.
MinNear ==
  /\ leadMin - EvenLead >= -(MaxSkew * config.ppt)
  /\ leadMin - EvenLead <= (MaxSkew - 1) * config.ppt

\* The inductive form of Realigns: from the end of the first window on there
\* is a baseline, and the minimum of the window that runs was taken over a lead
\* that only the two tasks' turns have moved.
Aligned ==
  piped /\ toFill = 0 /\ windows >= 1 =>
    /\ leadBaseline # None
    /\ leadMin # None => MinNear
    /\ windows = 2 => Near

\* The samples by which one task is ahead, after an IN transfer.
LEMMA SkewBounds ==
  ASSUME NEW s \in Int, NEW p \in Nat, NEW m \in Nat, -m <= s, s <= m - 1
  PROVE  /\ s * p \in Int /\ m * p \in Int
         /\ -(m * p) <= s * p /\ s * p <= (m - 1) * p
         /\ (m - 1) * p = m * p - p /\ (1 - m) * p = p - m * p
         /\ (s + 1) * p = s * p + p
BY SMTT(30)

\* The second window follows a first one.
LEMMA WindowBefore ==
  ASSUME NEW w \in 0..2, (IF w < 2 THEN w + 1 ELSE w) = 2
  PROVE  w >= 1
OBVIOUS

\* An IN transfer without a stall moves the lead and the skew alike, and the
\* end of its window brings the lead back to the baseline.
LEMMA DetectAligned ==
  ASSUME TypeOK, piped, toFill = 0, Aligned, Detect(lead - config.ppt),
         skew > -MaxSkew, skew' = skew - 1, UNCHANGED <<config, piped, toFill>>,
         windows' = NextWindows(FALSE)
  PROVE  Aligned'
<1> DEFINE p    == config.ppt
           s    == skew - 1
           l    == lead - p
           low  == Lower(leadMin, l)
           m    == MaxSkew
<1>0. /\ NTransfers \in Nat \ {0} /\ m \in Nat /\ Window \in Nat \ {0} /\ Settle \in Nat
      /\ None \notin Int
  BY DetectorAssumption
<1>1. p \in Nat /\ lead \in Int /\ s \in Int /\ l \in Int /\ -m <= s /\ s <= m - 1
  BY <1>0, DeviceAssumption DEF TypeOK
<1>2. /\ s * p \in Int /\ m * p \in Int
      /\ -(m * p) <= s * p /\ s * p <= (m - 1) * p
      /\ (m - 1) * p = m * p - p /\ (1 - m) * p = p - m * p
      /\ (s + 1) * p = s * p + p
  <2> HIDE DEF p, s, l, m
  <2> QED BY <1>0, <1>1, SkewBounds
<1>3. EvenLead = l - s * p
  <2>1. s + 1 = skew
    BY DEF TypeOK
  <2>2. EvenLead = lead - (s + 1) * p
    BY <2>1 DEF EvenLead
  <2>3. EvenLead = lead - (s * p + p)
    BY <1>2, <2>2
  <2> HIDE DEF s
  <2> QED BY <1>1, <1>2, <2>3
<1>4. low \in Int /\ (low = leadMin \/ low = l)
  BY <1>1, LowerType DEF TypeOK
<1>5. EvenLead' = lead' - s * p
  BY DEF EvenLead
<1>6. windows >= 1 => leadBaseline # None /\ (leadMin # None => MinNear) /\ (windows = 2 => Near)
  BY DEF Aligned
<1>7. windows \in 0..2 /\ leadBaseline \in Leads /\ leadMin \in Leads
  BY DEF TypeOK
<1>8. windows >= 1 => low - EvenLead >= -(m * p) /\ low - EvenLead <= m * p - p
  <2> SUFFICES ASSUME windows >= 1
               PROVE  low - EvenLead >= -(m * p) /\ low - EvenLead <= m * p - p
    OBVIOUS
  <2>1. CASE low = l
    <3> HIDE DEF low, l, s, p, m
    <3> QED BY <1>1, <1>2, <1>3, <2>1
  <2>2. CASE low = leadMin
    <3>1. low # None
      BY <1>0, <1>4
    <3>2. leadMin - EvenLead >= -(m * p) /\ leadMin - EvenLead <= m * p - p
      BY <1>2, <1>6, <2>2, <3>1 DEF MinNear
    <3> QED BY <2>2, <3>2
  <2> QED BY <1>4, <2>1, <2>2
<1>9. CASE ~Closes
  <2>1. windows' = windows /\ leadBaseline' = leadBaseline /\ lead' = l
        /\ (leadMin' = leadMin \/ leadMin' = low)
    BY <1>9 DEF Closes, NextWindows, Detect, NextMin, TypeOK
  <2>2. EvenLead' = EvenLead
    BY <1>3, <1>5, <2>1
  <2>3. ASSUME windows >= 1, leadMin' # None
        PROVE  MinNear'
    <3>1. CASE leadMin' = low
      <4>1. MinNear' = (leadMin' - EvenLead' >= -(m * p) /\ leadMin' - EvenLead' <= (m - 1) * p)
        BY DEF MinNear
      <4> QED BY <1>2, <1>8, <2>2, <2>3, <3>1, <4>1
    <3>2. CASE leadMin' = leadMin
      BY <1>6, <2>2, <2>3, <3>2 DEF MinNear
    <3> QED BY <2>1, <3>1, <3>2
  <2>4. ASSUME windows = 2
        PROVE  Near'
    BY <1>6, <2>1, <2>2, <2>4 DEF Near
  <2> QED BY <1>6, <2>1, <2>3, <2>4 DEF Aligned
<1>10. CASE Closes
  <2>1. /\ leadMin' = None
        /\ leadBaseline' = (IF leadBaseline = None THEN low ELSE leadBaseline)
        /\ lead' = (IF leadBaseline # None THEN l - (low - leadBaseline) ELSE l)
        /\ windows' = (IF windows < 2 THEN windows + 1 ELSE windows)
    <3>1. WindowFull /\ ~(leadSettle > 0)
      BY <1>10 DEF Closes, TypeOK
    <3> QED BY <1>10, <3>1 DEF Detect, NextMin, NextWindows
  <2>2. leadBaseline' # None
    BY <1>0, <1>4, <2>1
  <2>3. ASSUME windows' = 2
        PROVE  Near'
    <3>1. windows >= 1 /\ leadBaseline # None /\ leadBaseline \in Int
      <4>1. windows >= 1
        <5>1. windows \in 0..2 /\ (IF windows < 2 THEN windows + 1 ELSE windows) = 2
          BY <1>7, <2>1, <2>3
        <5> QED BY <5>1, WindowBefore
      <4> QED BY <1>6, <1>7, <4>1 DEF Leads
    <3>2. lead' = l - (low - leadBaseline) /\ leadBaseline' = leadBaseline
      BY <2>1, <3>1
    <3>3. EvenLead' - leadBaseline' = EvenLead - low
      <4> HIDE DEF low, l, s, p, m
      <4> QED BY <1>1, <1>2, <1>3, <1>4, <1>5, <3>1, <3>2
    <3>4. EvenLead - low >= p - m * p /\ EvenLead - low <= m * p
      <4> HIDE DEF low, l, s, p, m
      <4> QED BY <1>1, <1>2, <1>3, <1>4, <1>8, <3>1
    <3>5. Near' = (EvenLead' - leadBaseline' >= (1 - m) * p /\ EvenLead' - leadBaseline' <= m * p)
      BY DEF Near
    <3> QED BY <1>2, <3>3, <3>4, <3>5
  <2> QED BY <2>1, <2>2, <2>3 DEF Aligned
<1> QED BY <1>9, <1>10

\* An OUT refill without a stall moves the lead and the skew alike.
LEMMA RefillAligned ==
  ASSUME TypeOK, Aligned, Refill(FALSE)
  PROVE  Aligned'
<1> DEFINE p == config.ppt
<1>1. lead' = lead + p /\ skew' = skew + 1 /\ p \in Nat /\ lead \in Int /\ skew \in Int
  BY DeviceAssumption, DetectorAssumption DEF Refill, TypeOK
<1>2. UNCHANGED <<config, piped, toFill, leadMin, leadBaseline, windows>>
  BY DEF Refill, capVars, leadVars
<1>3. (skew + 1) * p = skew * p + p /\ skew * p \in Int
  <2> HIDE DEF p
  <2> QED BY <1>1
<1>4. EvenLead' = EvenLead
  <2>1. EvenLead' = (lead + p) - (skew * p + p) /\ EvenLead = lead - skew * p
    BY <1>1, <1>2, <1>3 DEF EvenLead
  <2> HIDE DEF p
  <2> QED BY <1>1, <1>3, <2>1
<1>5. (MinNear' <=> MinNear) /\ (Near' <=> Near)
  BY <1>2, <1>4 DEF MinNear, Near
<1> QED BY <1>2, <1>5 DEF Aligned

\* Every other step ends the pipeline, disturbs the lead, or leaves it alone.
LEMMA AlignedNext == TypeOK /\ Aligned /\ [Next]_vars => Aligned'
<1> SUFFICES ASSUME TypeOK, Aligned, [Next]_vars PROVE Aligned'
  OBVIOUS
<1>1. ASSUME windows' = 0 \/ piped' = FALSE
      PROVE  Aligned'
  BY <1>1 DEF Aligned
<1>2. CASE StartCapture \/ StartUnclaimed \/ StartWithoutEndpoints
  BY <1>1, <1>2 DEF StartCapture, StartUnclaimed, StartWithoutEndpoints, Starting
<1>3. CASE PauseCapture \/ FillFirst \/ HandleStaleIn \/ FillStale \/ Restart
  BY <1>1, <1>3 DEF PauseCapture, FillFirst, HandleStaleIn, FillStale, Restart
<1>4. CASE \E c \in Configs : Configure(c)
  BY <1>1, <1>4 DEF Configure
<1>5. CASE \E ch \in Channels, mode \in Modes : SetOutput(ch, mode)
  BY <1>5 DEF SetOutput, capVars, taskVars, histVars, leadVars, Aligned, Near, MinNear, EvenLead
<1>6. CASE \E stalled \in BOOLEAN : HandleIn(stalled)
  <2> PICK stalled \in BOOLEAN : HandleIn(stalled)
    BY <1>6
  <2> DEFINE more == IF Wants(incount) THEN 0..(NTransfers - 1) ELSE {0}
  <2>1. Receive(config.ppt, stale, more) /\ windows' = NextWindows(stalled \/ toFill > 0)
    BY DEF HandleIn
  <2>2. CASE stalled \/ toFill > 0
    BY <1>1, <2>1, <2>2 DEF NextWindows
  <2>3. CASE Full(Captured(config.ppt)) /\ captureState
    BY <1>1, <2>1, <2>3 DEF Receive, PauseHooks, NoPipeline
  <2>4. CASE ~piped
    BY <1>1, <2>1, <2>4 DEF Receive, PauseHooks, NoPipeline, TypeOK
  <2>5. CASE ~stalled /\ toFill = 0 /\ piped /\ ~(Full(Captured(config.ppt)) /\ captureState)
    <3>1. Detect(lead - config.ppt) /\ UNCHANGED <<config, piped, toFill>>
      BY <2>1, <2>5 DEF Receive
    <3>2. skew > -MaxSkew /\ skew' = skew - 1
      BY <2>5 DEF HandleIn
    <3>3. windows' = NextWindows(FALSE)
      BY <2>1, <2>5 DEF NextWindows
    <3> QED BY <2>5, <3>1, <3>2, <3>3, DetectAligned
  <2> QED BY <2>2, <2>3, <2>4, <2>5, DetectorAssumption DEF TypeOK
<1>7. CASE \E stalled \in BOOLEAN : Refill(stalled)
  <2> PICK stalled \in BOOLEAN : Refill(stalled)
    BY <1>7
  <2>1. CASE stalled
    BY <1>1, <2>1 DEF Refill
  <2>2. CASE stalled = FALSE
    BY <2>2, RefillAligned
  <2> QED BY <2>1, <2>2
<1>8. CASE UNCHANGED vars
  BY <1>8 DEF vars, capVars, taskVars, histVars, leadVars, Aligned, Near, MinNear, EvenLead
<1> QED BY <1>2, <1>3, <1>4, <1>5, <1>6, <1>7, <1>8 DEF Next, Command, Task

\* After a whole window without a stall or a late turn the output stream leads
\* the input stream by the baseline, whatever disturbed it before.
THEOREM LeadRealigns == Spec => []Realigns
<1>1. Init => Aligned
  BY DEF Init, Aligned
<1>2. TypeOK /\ Aligned => Realigns
  BY DEF Aligned, Near, Realigns
<1> QED BY <1>1, <1>2, TypeInit, TypeNext, AlignedNext, PTL DEF Spec

=============================================================================
