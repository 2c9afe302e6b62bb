--------------------------- MODULE StageLoopProofs --------------------------
(***************************************************************************)
(* The whole loop with its stages, for every configuration: its types, the *)
(* igniter, and the end of the program.                                    *)
(***************************************************************************)
EXTENDS FlightLoopProofs

STP == INSTANCE SensorTaskProofs WITH
         Kind <- SensorKind, pins <- SensorPins, Pins <- Int

USE DEF WAITING, PRESSURIZATION, AUTOSEQUENCE, POSTBURN, Stages

(* The enumerations of the instances.                                       *)
LEMMA StageNames ==
  /\ SC!WAITING = 0 /\ SC!PRESSURIZATION = 1 /\ SC!AUTOSEQUENCE = 2
  /\ SC!POSTBURN = 3
  /\ SC!OPEN_VENT = OPEN_VENT /\ SC!CLOSE_VENT = CLOSE_VENT
  /\ SE!Stages = Stages
  BY DEF SC!WAITING, SC!PRESSURIZATION, SC!AUTOSEQUENCE, SC!POSTBURN,
    SC!OPEN_VENT, SC!CLOSE_VENT, OPEN_VENT, CLOSE_VENT, SE!Stages,
    SE!WAITING, SE!POSTBURN

----------------------------------------------------------------------------
(* The sensors, from their pins to their grades.                            *)
SensorsOK ==
  /\ now \in Nat
  /\ STP!ShownOK
  /\ SE!SensorTypeOK

(* The read of the loop is the one of SensorTask.                           *)
LEMMA SameRead ==
  /\ ST!Read <=> STP!Read
  /\ STP!SensorAssumption
  <1>1. ST!Read <=> STP!Read
    <2>1. \A kind, pin : ST!OnPin(kind, pin) = STP!OnPin(kind, pin)
      BY DEF ST!OnPin, STP!OnPin, ST!Sensors, STP!Sensors
    <2>2. \A kind, pin : ST!First(kind, pin) = STP!First(kind, pin)
      BY <2>1, Zenon DEF ST!First, STP!First
    <2>3. \A values, pin :
            ST!ForceValue(values, pin) = STP!ForceValue(values, pin)
      BY DEF ST!ForceValue, STP!ForceValue, ST!Sensors, STP!Sensors
    <2>4. \A values, kind, pin :
            ST!Reading(values, kind, pin) = STP!Reading(values, kind, pin)
      BY <2>2, <2>3 DEF ST!Reading, STP!Reading
    <2>5. \A pin : ST!LastKind(pin) = STP!LastKind(pin)
      BY <2>1 DEF ST!LastKind, STP!LastKind
    <2>6. \A s : ST!Owns(s) <=> STP!Owns(s)
      BY DEF ST!Owns, STP!Owns
    <2>9. \A values, s : ST!Shown(values, s) = STP!Shown(values, s)
      BY <2>4, <2>5
        DEF ST!Shown, STP!Shown, ST!Converted, STP!Converted
    <2>7. [s \in ST!Sensors |->
             IF ST!Owns(s) THEN ST!Shown(vals', s) ELSE measured[s]]
          = [s \in STP!Sensors |->
             IF STP!Owns(s) THEN STP!Shown(vals', s) ELSE measured[s]]
      BY <2>6, <2>9, SMT DEF ST!Sensors, STP!Sensors
    <2>8. ST!Sensors = STP!Sensors
      BY DEF ST!Sensors, STP!Sensors
    <2> QED
      BY <2>7, <2>8, SMT DEF ST!Read, STP!Read
  <1>2. STP!SensorAssumption
    <2>1. Sensors = STP!Sensors
      BY DEF Sensors, STP!Sensors
    <2>2. /\ SensorList \in Seq(Sensors)
          /\ \A i, j \in 1..Len(SensorList) :
               SensorList[i] = SensorList[j] => i = j
          /\ SensorKind \in [Sensors ->
                             {"load_cell", "pressure", "thermocouple"}]
          /\ Slope \in [Sensors -> Int] /\ Bias \in [Sensors -> Int]
          /\ Values \subseteq Int /\ Raw \subseteq Values /\ 0 \in Raw
      BY LoopAssumption
    <2>3. \A s \in Sensors, raw \in Raw :
            SensorKind[s] = "pressure" => STP!Converted(s, raw) \in Values
      BY LoopAssumption DEF ST!Converted, STP!Converted
    <2> QED
      BY <2>1, <2>2, <2>3 DEF STP!SensorAssumption
  <1> QED
    BY <1>1, <1>2

(* Readings, estimates and grades keep their types, through the two turns   *)
(* that change them.                                                        *)
LEMMA SensorsStep == SensorsOK /\ [Next]_vars => SensorsOK'
  <1> SUFFICES ASSUME SensorsOK, [Next]_vars PROVE SensorsOK'
    OBVIOUS
  <1>1. CASE SensorRead
    <2>1. STP!ShownOK'
      BY <1>1, SameRead, STP!ReadKeeps DEF SensorRead, SensorsOK
    <2>2. measured' \in [Sensors -> Values]
      BY <2>1 DEF STP!ShownOK, STP!TypeOK, STP!Sensors, Sensors
    <2> QED
      BY <1>1, <2>1, <2>2 DEF SensorRead, SensorsOK, SE!SensorTypeOK
  <1>2. CASE SensorExecute
    <2>1. \A s \in Sensors, x \in Values :
            SE!Grade(s, x) \in SE!SensorStatuses
      BY DEF SE!Grade, SE!SensorStatuses
    <2>2. UNCHANGED <<vals, measured, safeUpper, warnLower, now>>
      BY <1>2 DEF SensorExecute, SE!Execute, SE!bounds
    <2>3. STP!ShownOK'
      BY <2>2 DEF SensorsOK, STP!ShownOK, STP!TypeOK, STP!OwnPinShown,
                  STP!NothingRead, STP!ForceNeverShown, STP!Owns
    <2>4. SE!SensorTypeOK'
      BY <1>2, <2>1, <2>2 DEF SensorExecute, SE!Execute, SensorsOK,
                              SE!SensorTypeOK
    <2> QED
      BY <2>2, <2>3, <2>4 DEF SensorsOK
  <1>3. CASE ~SensorRead /\ ~SensorExecute
    <2>1. UNCHANGED sensorVars /\ now' \in Nat
      BY <1>3 DEF Next, LoopStep, Blink, NoBlink, TelemetryRead, Idle, AbortExecute,
        TelemetryIngest, TelemetryDrained, ValveExecute, StageExecute,
        PressureExecute, ValveActuate, TelemetryActuate, Tick, vars,
        SensorsOK
    <2>2. UNCHANGED <<vals, measured, filter, normalized, grade, safeUpper,
                      warnLower, sensorSend>>
      BY <2>1 DEF sensorVars
    <2>3. STP!ShownOK'
      BY <2>2 DEF SensorsOK, STP!ShownOK, STP!TypeOK, STP!OwnPinShown,
                  STP!NothingRead, STP!ForceNeverShown, STP!Owns
    <2> QED
      BY <2>1, <2>2, <2>3 DEF SensorsOK, SE!SensorTypeOK
  <1> QED
    BY <1>1, <1>2, <1>3

(* The sensors start typed.                                                 *)
LEMMA SensorsInit == Init => SensorsOK
  <1> SUFFICES ASSUME Init PROVE SensorsOK
    OBVIOUS
  <1>1. vals = [s \in Sensors |-> 0] /\ measured = [s \in Sensors |-> 0]
    BY DEF Init, ST!InitReadings, ST!Sensors, Sensors
  <1>2. STP!ShownOK
    BY <1>1, LoopAssumption DEF STP!ShownOK, STP!TypeOK, STP!OwnPinShown,
      STP!NothingRead, STP!ForceNeverShown, STP!Sensors, Sensors
  <1>3. SE!SensorTypeOK
    BY <1>1, LoopAssumption DEF Init, SE!InitSensors, SE!SensorTypeOK,
      SE!SensorStatuses
  <1> QED
    BY <1>2, <1>3 DEF Init, SensorsOK
----------------------------------------------------------------------------
(* Nothing but PressureControl ever records an actuation, and that at a     *)
(* name of its own.                                                         *)
NothingRecorded == \A l \in Locations \ {PC!Relief} : regValves[l].type = ACT_NONE

(* The valve task and PressureControl keep it so.                           *)
LEMMA NothingRecordedStep ==
  RequestsOK /\ NothingRecorded /\ [Next]_vars => NothingRecorded'
  <1> SUFFICES ASSUME RequestsOK, NothingRecorded, [Next]_vars
               PROVE  NothingRecorded'
    OBVIOUS
  <1>1. CASE PressureExecute
    <2>1. \/ regValves' = regValves
          \/ regValves' = [regValves EXCEPT ![PC!Relief].type = PC!OPEN_VENT,
                                            ![PC!Relief].priority = PC!PI_PRIORITY]
      BY <1>1 DEF PressureExecute, PC!Execute
    <2> QED
      BY <2>1 DEF NothingRecorded, RequestsOK
  <1>2. CASE ValveActuate
    <2>1. \A l \in Locations : regValves'[l].type = regValves[l].type
      BY <1>2 DEF ValveActuate, VT!Actuate, RequestsOK, RegistryValveInfo
    <2> QED
      BY <2>1 DEF NothingRecorded
  <1>3. CASE ~PressureExecute /\ ~ValveActuate
    <2>1. regValves' = regValves
      BY <1>3 DEF Next, LoopStep, Blink, NoBlink, SensorRead, TelemetryRead, Idle,
        SensorExecute, AbortExecute, TelemetryIngest, TelemetryDrained,
        ValveExecute, StageExecute, TelemetryActuate, Tick, vars, valveVars,
        TC!Ingest, TC!Drained, TC!handled
    <2> QED
      BY <2>1 DEF NothingRecorded
  <1> QED
    BY <1>1, <1>2, <1>3

----------------------------------------------------------------------------
(* The stages. The flight never gets past the autosequence.                 *)
StageOK ==
  /\ stageIndex \in {WAITING, PRESSURIZATION, AUTOSEQUENCE}
  /\ regStage = stageIndex
  /\ stageStatus \in SC!Statuses
  /\ stageStatus < 0 => stageIndex = PRESSURIZATION
  /\ startTime \in Nat /\ startTime <= now
  /\ requestTime \in Nat /\ sendTime \in Nat
  /\ actuatedPostburn \in BOOLEAN
  /\ progress \in BOOLEAN

(* A quotient of naturals is a natural, and so is one that is rounded down, *)
(* which is at least 1.                                                     *)
LEMMA LoopWholePart ==
  ASSUME NEW p \in Nat
  PROVE  /\ (10 * p) \div 49 \in Nat
         /\ SC!WholePart(p) \in Nat
         /\ SC!WholePart(p) <= (10 * p) \div 49
  <1>1. (10 * p) \div 49 \in Nat
    OBVIOUS
  <1>2. CASE p \in RoundsDown /\ (10 * p) % 49 = 0
    <2>1. p # 0
      BY <1>2, LoopAssumption
    <2>2. (10 * p) \div 49 # 0
      BY <1>2, <2>1
    <2> QED
      BY <1>1, <1>2, <2>2 DEF SC!WholePart
  <1>3. CASE ~(p \in RoundsDown /\ (10 * p) % 49 = 0)
    BY <1>1, <1>3 DEF SC!WholePart
  <1> QED
    BY <1>2, <1>3

(* The percentage of a pressure is an integer.                              *)
LEMMA LoopPercent ==
  ASSUME NEW p \in Int
  PROVE  SC!PressurePercent(p) \in Int
  <1>1. CASE p < 0
    <2>1. -p \in Nat
      BY <1>1
    <2>2. SC!WholePart(-p) \in Nat
      BY <2>1, LoopWholePart
    <2> QED
      BY <1>1, <2>2 DEF SC!PressurePercent
  <1>2. CASE ~(p < 0)
    BY <1>2, LoopWholePart DEF SC!PressurePercent
  <1> QED
    BY <1>1, <1>2

(* The estimate of a configured PT-2 is a number.                           *)
LEMMA PressureType ==
  ASSUME SensorsOK, HasPT2
  PROVE  normalized["PT-2"] \in Int
  BY LoopAssumption DEF SensorsOK, SE!SensorTypeOK, HasPT2

(* calculate_status() is at most 100, negative in PRESSURIZATION only, and  *)
(* below 100 in the autosequence.                                           *)
LEMMA StatusRange ==
  ASSUME SensorsOK, NothingRecorded,
         NEW stage \in {WAITING, PRESSURIZATION, AUTOSEQUENCE},
         NEW start \in Nat, start <= now
  PROVE  /\ SC!Status(stage, start) \in SC!Statuses
         /\ SC!Status(stage, start) < 0 => stage = PRESSURIZATION
         /\ stage = AUTOSEQUENCE => SC!Status(stage, start) < 100
  <1> DEFINE pressure == IF HasPT2 THEN normalized["PT-2"] ELSE 0
  <1>1. now \in Nat /\ pressure \in Int
    BY PressureType DEF SensorsOK
  <1> HIDE DEF pressure
  <1>2. CASE stage = WAITING
    BY <1>2, StageNames DEF SC!Status, SC!Statuses
  <1>3. CASE stage = PRESSURIZATION
    <2>2. SC!PressurePercent(pressure) \in Int
      BY <1>1, LoopPercent
    <2>3. SC!Status(stage, start)
          = IF HasPT2 THEN SC!Least(100, SC!PressurePercent(pressure)) ELSE 100
      BY <1>3, StageNames DEF SC!Status, pressure
    <2> QED
      BY <1>3, <2>2, <2>3 DEF SC!Least, SC!Statuses
  <1>4. CASE stage = AUTOSEQUENCE
    <2>1. regValves["main_propellant_valve"].type # OPEN_VENT
      <3>1. SC!RestValves \subseteq Locations
        BY LoopAssumption
      <3>2. "main_propellant_valve" \in Locations \ {PC!Relief}
        BY <3>1 DEF SC!RestValves, PC!Relief
      <3> QED
        BY <3>2 DEF NothingRecorded, ACT_NONE, OPEN_VENT
    <2> DEFINE elapsed == ((now - start) * 100) \div AutosequenceDelay
    <2>2. elapsed \in Nat
      <3>1. (now - start) * 100 \in Nat /\ AutosequenceDelay \in Nat \ {0}
        BY <1>1, LoopAssumption
      <3>2. \A a \in Nat, b \in Nat \ {0} : a \div b \in Nat
        OBVIOUS
      <3> QED
        BY <3>1, <3>2
    <2>3. SC!Status(stage, start) = SC!Least(elapsed, 99)
      BY <1>4, <2>1, StageNames DEF SC!Status
    <2> HIDE DEF elapsed
    <2> QED
      BY <1>4, <2>2, <2>3 DEF SC!Least, SC!Statuses
  <1> QED
    BY <1>2, <1>3, <1>4

(* The turn of the stage control: it moves a stage on only when its status  *)
(* is 100, so never out of the autosequence, and does not throw.            *)
LEMMA StageTurn ==
  ASSUME SensorsOK, NothingRecorded, StageOK, StageExecute
  PROVE  /\ StageOK'
         /\ ~crashed'
         /\ flagValves' = SC!Commanded(stageIndex', startTime')
         /\ stageIndex = AUTOSEQUENCE => UNCHANGED <<stageIndex, startTime>>
         /\ regKeys' = regKeys \cup SC!Touched(regStage) \cup SC!Touched(stageIndex')
  <1>1. now' = now /\ now \in Nat /\ ~crashed
    BY DEF StageExecute, Turn, At, SensorsOK
  <1>2. SC!Status(regStage, startTime) \in SC!Statuses
        /\ (SC!Status(regStage, startTime) < 0 => stageIndex = PRESSURIZATION)
        /\ (stageIndex = AUTOSEQUENCE => SC!Status(regStage, startTime) # 100)
    BY StatusRange DEF StageOK
  <1>3. CASE SC!Advance
    <2>1. stageIndex \in {WAITING, PRESSURIZATION}
      BY <1>2, <1>3 DEF SC!Advance, StageOK
    <2>2. stageIndex' \in {PRESSURIZATION, AUTOSEQUENCE} /\ regStage' = stageIndex'
          /\ startTime' = now /\ requestTime' = 0 /\ progress' = FALSE
      BY <1>3, <2>1, StageNames DEF SC!Advance, SC!Least
    <2>3. stageStatus' = SC!Status(regStage', startTime)
      BY <1>3 DEF SC!Advance
    <2>4. stageStatus' \in SC!Statuses
          /\ (stageStatus' < 0 => stageIndex' = PRESSURIZATION)
      BY <2>2, <2>3, StatusRange DEF StageOK
    <2>5. ~crashed'
      <3>1. stageIndex # SC!POSTBURN
        BY <2>1, StageNames
      <3>2. crashed' = (stageIndex = SC!POSTBURN)
        BY <1>3, Zenon DEF SC!Advance
      <3> QED
        BY <3>1, <3>2, Zenon
    <2>6. SC!Finish(0, {<<"SGP", stageIndex', stageStatus', "-1">>})
      BY <1>3, Zenon DEF SC!Advance
    <2>7. /\ flagValves' = SC!Commanded(stageIndex', startTime')
          /\ regKeys' = regKeys \cup SC!Touched(regStage)
                        \cup SC!Touched(stageIndex')
          /\ actuatedPostburn' = (actuatedPostburn \/ stageIndex' = SC!POSTBURN)
          /\ sendTime' = now
      BY <2>6, Zenon DEF SC!Finish
    <2>8. /\ actuatedPostburn' \in BOOLEAN /\ progress' \in BOOLEAN
          /\ sendTime' = now
      BY <2>2, <2>7, Zenon
    <2>9. StageOK'
      BY <1>1, <2>2, <2>4, <2>8 DEF StageOK
    <2> QED
      BY <2>1, <2>5, <2>7, <2>9
  <1>4. CASE SC!Refuse \/ SC!AskGround \/ SC!Wait
    <2>1. /\ stageStatus' \in SC!Statuses
          /\ stageStatus' < 0 => stageIndex' = PRESSURIZATION
      BY <1>2, <1>4 DEF SC!Refuse, SC!AskGround, SC!Wait
    <2>2. ~crashed'
      BY <1>1, <1>4, StageNames DEF SC!Refuse, SC!AskGround, SC!Wait, StageOK
    <2> QED
      BY <1>1, <1>4, <2>1, <2>2
        DEF SC!Refuse, SC!AskGround, SC!Wait, SC!Finish, StageOK
  <1> QED
    BY <1>3, <1>4 DEF StageExecute, SC!Execute

(* Every step keeps the stages.                                             *)
LEMMA StageStep ==
  SensorsOK /\ NothingRecorded /\ StageOK /\ [Next]_vars => StageOK'
  <1> SUFFICES ASSUME SensorsOK, NothingRecorded, StageOK, [Next]_vars
               PROVE  StageOK'
    OBVIOUS
  <1>1. CASE StageExecute
    BY <1>1, StageTurn
  <1>2. CASE TelemetryIngest
    <2>1. progress' \in BOOLEAN
      BY <1>2 DEF TelemetryIngest, TC!Ingest, TC!Heartbeat, TC!SoftAbort,
        TC!UndoSoftAbort, TC!SolenoidActuate, TC!SolenoidRefused,
        TC!DataRequest, TC!StageProgression, TC!Info, TC!UnknownHeader,
        StageOK
    <2> QED
      BY <1>2, <2>1 DEF TelemetryIngest, StageOK
  <1>3. CASE TelemetryDrained
    BY <1>3 DEF TelemetryDrained, TC!Drained, TC!handled, StageOK
  <1>4. CASE Tick
    BY <1>4 DEF Tick, stageVars, StageOK, SensorsOK
  <1>5. CASE \/ SensorRead \/ TelemetryRead \/ Idle \/ SensorExecute
             \/ AbortExecute \/ ValveExecute \/ PressureExecute
             \/ ValveActuate \/ TelemetryActuate \/ Blink \/ NoBlink
             \/ UNCHANGED vars
    <2>1. UNCHANGED <<stageVars, now>>
      BY <1>5 DEF Blink, NoBlink, SensorRead, TelemetryRead, Idle, SensorExecute,
        AbortExecute, ValveExecute, PressureExecute, ValveActuate,
        TelemetryActuate, vars
    <2> QED
      BY <2>1 DEF stageVars, StageOK
  <1> QED
    BY <1>1, <1>2, <1>3, <1>4, <1>5 DEF Next, LoopStep
----------------------------------------------------------------------------
(* The other variables of the loop.                                         *)
RestOK ==
  /\ linkUp \in BOOLEAN /\ reset \in BOOLEAN
  /\ aborted \in BOOLEAN /\ softAbort \in BOOLEAN
  /\ valveSend \in Nat
  /\ regKeys \subseteq Locations /\ Valves \subseteq regKeys
  /\ driver \in [Valves -> VT!DriverInfo]
  /\ crashed \in BOOLEAN

(* The valve task drives a valve with an enumerated actuation only: it      *)
(* throws before it comes to any other.                                     *)
LEMMA DriverKeeps ==
  ASSUME RequestsOK, RestOK, ValveActuate
  PROVE  /\ driver' \in [Valves -> VT!DriverInfo]
         /\ \A v \in Valves : v \in VT!Served =>
              /\ flagValves[v].type \in ActuationTypes
              /\ driver'[v] = VT!Drive(v, flagValves[v].type)
              /\ flagValves'[v] = VT!NoRequest
         /\ \A v \in Valves : v \notin VT!Served => driver'[v] = driver[v]
         /\ \A l \in Locations \ VT!Served : flagValves'[l] = flagValves[l]
  <1>1. ASSUME NEW v \in VT!Served PROVE flagValves[v].type \in ActuationTypes
    <2>1. PICK n \in 1..Len(ValveList) :
            /\ v = ValveList[n] /\ VT!Granted(v)
            /\ \A m \in 1..n : ~VT!Throws(ValveList[m])
      BY DEF VT!Served
    <2>2. Len(ValveList) \in Nat
      BY LoopAssumption
    <2>3. ~VT!Throws(v)
      BY <2>1, <2>2
    <2> QED
      BY <2>1, <2>3 DEF VT!Throws, VT!ActuationTypes, ActuationTypes,
        VT!ACT_NONE, VT!CLOSE_VENT, VT!OPEN_VENT, VT!PULSE, ACT_NONE,
        CLOSE_VENT, OPEN_VENT, PULSE
  <1>2. VT!ActuationTypes = ActuationTypes /\ VT!SolenoidStates = SolenoidStates
    BY DEF VT!ActuationTypes, ActuationTypes, VT!ACT_NONE, VT!CLOSE_VENT,
      VT!OPEN_VENT, VT!PULSE, ACT_NONE, CLOSE_VENT, OPEN_VENT, PULSE,
      VT!SolenoidStates, SolenoidStates
  <1>3. ASSUME NEW v \in Valves, NEW type \in ActuationTypes
        PROVE  VT!Drive(v, type) \in VT!DriverInfo
    BY <1>2 DEF RestOK, VT!Drive, VT!DriverInfo, SolenoidStates
  <1>4. /\ driver' = [v \in Valves |->
              IF v \in VT!Served THEN VT!Drive(v, flagValves[v].type)
                                 ELSE driver[v]]
        /\ flagValves' = [l \in Locations |->
              IF l \in VT!Served THEN VT!NoRequest ELSE flagValves[l]]
    BY DEF ValveActuate, VT!Actuate, VT!Valves, Valves
  <1> QED
    BY <1>1, <1>3, <1>4, ValvesAreLocations DEF RestOK

(* Every step keeps them.                                                   *)
LEMMA RestStep ==
  SensorsOK /\ RequestsOK /\ NothingRecorded /\ StageOK /\ RestOK
    /\ [Next]_vars => RestOK'
  <1> SUFFICES ASSUME SensorsOK, RequestsOK, NothingRecorded, StageOK, RestOK,
                      [Next]_vars
               PROVE  RestOK'
    OBVIOUS
  <1>1. CASE StageExecute
    <2>1. ~crashed' /\ regKeys' = regKeys \cup SC!Touched(regStage)
                                  \cup SC!Touched(stageIndex')
      BY <1>1, StageTurn
    <2>2. \A stage : SC!Touched(stage) \subseteq Locations
      BY LoopAssumption DEF SC!Touched, SC!RestValves, SC!EngineValves
    <2>3. regKeys' \subseteq Locations /\ Valves \subseteq regKeys'
      BY <2>1, <2>2 DEF RestOK
    <2>4. crashed' \in BOOLEAN
      BY <1>1, Zenon DEF StageExecute, SC!Execute, SC!Advance, SC!Refuse,
        SC!AskGround, SC!Wait, RestOK
    <2>5. UNCHANGED <<linkUp, reset, aborted, softAbort, valveSend, driver>>
      BY <1>1 DEF StageExecute, linkVars, abortVars
    <2> QED
      BY <2>3, <2>4, <2>5 DEF RestOK
  <1>2. CASE TelemetryIngest
    <2>1. softAbort' \in BOOLEAN /\ crashed' \in BOOLEAN
      BY <1>2, Zenon DEF TelemetryIngest, TC!Ingest, TC!Heartbeat, TC!SoftAbort,
        TC!UndoSoftAbort, TC!SolenoidActuate, TC!SolenoidRefused,
        TC!DataRequest, TC!StageProgression, TC!Info, TC!UnknownHeader,
        RestOK
    <2>2. regKeys' = regKeys
      BY <1>2 DEF TelemetryIngest, TC!Ingest, TC!Heartbeat, TC!SoftAbort,
        TC!UndoSoftAbort, TC!SolenoidActuate, TC!SolenoidRefused,
        TC!DataRequest, TC!StageProgression, TC!Info, TC!UnknownHeader
    <2>3. reset' = FALSE /\ UNCHANGED <<linkUp, aborted, valveSend, driver>>
      BY <1>2 DEF TelemetryIngest, TC!Ingest
    <2>4. reset' \in BOOLEAN
      BY <2>3, Zenon
    <2> QED
      BY <2>1, <2>2, <2>3, <2>4, Zenon DEF RestOK
  <1>3. CASE TelemetryDrained
    <2>1. reset' \in BOOLEAN /\ UNCHANGED <<linkUp, aborted, softAbort,
            valveSend, regKeys, driver, crashed>>
      BY <1>3, Zenon DEF TelemetryDrained, TC!Drained, TC!handled, RestOK
    <2> QED
      BY <2>1 DEF RestOK
  <1>4. CASE TelemetryRead
    <2>1. linkUp' \in BOOLEAN
      BY <1>4, Zenon DEF TelemetryRead, TT!Read
    <2>2. UNCHANGED <<reset, aborted, softAbort, valveSend, regKeys, driver,
                      crashed>>
      BY <1>4 DEF TelemetryRead, TT!Read, valveVars, abortVars
    <2> QED
      BY <2>1, <2>2 DEF RestOK
  <1>5. CASE AbortExecute
    <2>1. softAbort' \in BOOLEAN
      BY <1>5, Zenon DEF AbortExecute, AC!Execute
    <2>2. UNCHANGED <<linkUp, reset, aborted, valveSend, regKeys, driver,
                      crashed>>
      BY <1>5 DEF AbortExecute, linkVars, valveVars
    <2> QED
      BY <2>1, <2>2 DEF RestOK
  <1>6. CASE ValveExecute
    <2>1. aborted' \in BOOLEAN /\ valveSend' \in Nat
      BY <1>6 DEF ValveExecute, VC!Execute, VC!CheckAbort, RestOK, SensorsOK
    <2>2. UNCHANGED <<linkUp, reset, softAbort, regKeys, driver, crashed>>
      BY <1>6 DEF ValveExecute, linkVars
    <2> QED
      BY <2>1, <2>2 DEF RestOK
  <1>7. CASE PressureExecute
    <2>1. regKeys' \subseteq Locations /\ Valves \subseteq regKeys'
      BY <1>7, LoopAssumption DEF PressureExecute, PC!Execute, RestOK
    <2>2. UNCHANGED <<linkUp, reset, aborted, softAbort, valveSend, driver,
                      crashed>>
      BY <1>7 DEF PressureExecute, linkVars, abortVars
    <2> QED
      BY <2>1, <2>2 DEF RestOK
  <1>8. CASE ValveActuate
    <2>1. crashed' \in BOOLEAN
      BY <1>8, Zenon DEF ValveActuate, VT!Actuate
    <2>2. UNCHANGED <<linkUp, reset, aborted, softAbort, valveSend, regKeys>>
      BY <1>8 DEF ValveActuate, linkVars, abortVars
    <2> QED
      BY <1>8, <2>1, <2>2, DriverKeeps DEF RestOK
  <1>9. CASE \/ SensorRead \/ Idle \/ SensorExecute \/ TelemetryActuate
             \/ Tick \/ UNCHANGED vars
    <2>1. UNCHANGED <<linkUp, reset, abortVars, regKeys, driver, crashed>>
      BY <1>9 DEF SensorRead, Idle, SensorExecute, TelemetryActuate, Tick,
        vars, linkVars, valveVars, TT!Actuate
    <2> QED
      BY <2>1 DEF RestOK, abortVars
  <1>10. CASE Blink \/ NoBlink
    <2>1. UNCHANGED <<linkUp, reset, aborted, softAbort, valveSend, regKeys,
                      crashed>>
      BY <1>10 DEF Blink, NoBlink, linkVars, abortVars, valveVars
    <2>2. driver' \in [Valves -> VT!DriverInfo]
      <3>1. CASE Blink
        <4>1. ledState' \in {"LOW", "HIGH"}
          BY <3>1 DEF Blink
        <4> QED
          BY <3>1, <4>1 DEF Blink, RestOK, VT!DriverInfo
      <3>2. CASE NoBlink
        BY <3>2 DEF NoBlink, valveVars, RestOK
      <3> QED
        BY <1>10, <3>1, <3>2
    <2> QED
      BY <2>1, <2>2 DEF RestOK
  <1> QED
    BY <1>1, <1>2, <1>3, <1>4, <1>5, <1>6, <1>7, <1>8, <1>9, <1>10
      DEF Next, LoopStep

(* The LED.                                                                 *)
LedOK == ledState \in {"LOW", "HIGH"} /\ lastBlink \in Nat

(* Only its own turn changes it.                                            *)
LEMMA LedStays ==
  ASSUME [Next]_vars, ~Blink
  PROVE  UNCHANGED <<ledState, lastBlink>>
  BY DEF Next, LoopStep, NoBlink, SensorRead, TelemetryRead, Idle,
    SensorExecute, AbortExecute, TelemetryIngest, TelemetryDrained,
    ValveExecute, StageExecute, PressureExecute, ValveActuate,
    TelemetryActuate, Tick, vars, loopVars, ledVars

(* It keeps its type.                                                       *)
LEMMA LedStep == SensorsOK /\ LedOK /\ [Next]_vars => LedOK'
  <1> SUFFICES ASSUME SensorsOK, LedOK, [Next]_vars PROVE LedOK'
    OBVIOUS
  <1>1. CASE Blink
    BY <1>1 DEF Blink, SensorsOK, LedOK
  <1>2. CASE ~Blink
    BY <1>2, LedStays DEF LedOK
  <1> QED
    BY <1>1, <1>2

(* The invariant of the loop with its stages.                               *)
LoopInvariant ==
  /\ PhaseOK
  /\ LedOK
  /\ SensorsOK
  /\ RequestsOK
  /\ NothingRecorded
  /\ StageOK
  /\ RestOK

(* It holds from the start.                                                 *)
LEMMA LoopInvariantInit == Init => LoopInvariant
  <1> SUFFICES ASSUME Init PROVE LoopInvariant
    OBVIOUS
  <1>1. PhaseOK /\ SensorsOK /\ RequestsOK
    BY SensorsInit, RequestsInit DEF Init, PhaseOK
  <1>2. NothingRecorded
    BY DEF Init, VT!Init, VT!InitRegValves, VT!NewValveEntry, VT!ACT_NONE,
      ACT_NONE, NothingRecorded
  <1>3. StageOK
    <2>1. actuatedPostburn \in BOOLEAN /\ progress \in BOOLEAN
      BY Zenon DEF Init, SC!InitStage
    <2>2. /\ stageIndex = 0 /\ regStage = 0 /\ stageStatus = 0
          /\ startTime = 1 /\ now = 1 /\ requestTime = 0 /\ sendTime = 0
      BY StageNames DEF Init, SC!InitStage
    <2> QED
      BY <2>1, <2>2 DEF StageOK, SC!Statuses
  <1>4. driver \in [Valves -> VT!DriverInfo]
    BY DEF Init, VT!Init, VT!InitDriver, VT!DriverInfo, VT!Valves, Valves,
      VT!SolenoidStates, VT!ActuationTypes
  <1>5. /\ linkUp \in BOOLEAN /\ reset \in BOOLEAN /\ aborted \in BOOLEAN
        /\ softAbort \in BOOLEAN /\ crashed \in BOOLEAN
        /\ valveSend = 0 /\ regKeys = Valves
    BY Zenon DEF Init, VT!Init, TT!InitTelemetry, VC!InitValveControl
  <1>6. RestOK
    BY <1>4, <1>5, ValvesAreLocations DEF RestOK
  <1>7. LedOK
    BY DEF Init, LedOK
  <1> QED
    BY <1>1, <1>2, <1>3, <1>6, <1>7 DEF LoopInvariant

(* And it is inductive.                                                     *)
LEMMA LoopInvariantStep ==
  ASSUME PC!Relief \notin Valves
  PROVE  LoopInvariant /\ [Next]_vars => LoopInvariant'
  BY PhaseStep, SensorsStep, RequestsStep, NothingRecordedStep, StageStep,
     RestStep, LedStep DEF LoopInvariant

(* The variables of the loop keep their types, for every configuration that *)
(* does not spell a valve as PressureControl does: whatever the slope and   *)
(* bias of PT-2 make of its readings, the delays and the order of the       *)
(* ground's requests, the status is at most 100, and negative in            *)
(* PRESSURIZATION only.                                                     *)
THEOREM LoopTypeCorrect ==
  ASSUME PC!Relief \notin Valves
  PROVE  Spec => []TypeOK
  <1>1. LoopInvariant => TypeOK
    <2> SUFFICES ASSUME LoopInvariant PROVE TypeOK
      OBVIOUS
    <2>1. VT!TypeOK
      BY DEF LoopInvariant, RequestsOK, RestOK, VT!TypeOK, FlagValveInfo,
        VT!FlagValveInfo, VT!RegistryValveInfo, RegistryValveInfo,
        VT!Digits, Digits, VT!SolenoidStates, SolenoidStates,
        VT!ActuationTypes, ActuationTypes, VT!ValvePriorities,
        ValvePriorities, VT!ACT_NONE, VT!CLOSE_VENT, VT!OPEN_VENT, VT!PULSE,
        ACT_NONE, CLOSE_VENT, OPEN_VENT, PULSE, VT!PRI_NONE,
        VT!LOW_PRIORITY, VT!PI_PRIORITY, VT!MAX_TELEMETRY_PRIORITY,
        VT!ABORT_PRIORITY, PRI_NONE, LOW_PRIORITY, PI_PRIORITY,
        MAX_TELEMETRY_PRIORITY, ABORT_PRIORITY, VT!Valves, Valves
    <2> QED
      BY <2>1 DEF LoopInvariant, PhaseOK, SensorsOK, RequestsOK, StageOK,
        RestOK, LedOK, TypeOK, STP!ShownOK, STP!TypeOK, STP!Sensors, Sensors
  <1> QED
    BY <1>1, LoopInvariantInit, LoopInvariantStep, PTL DEF Spec
----------------------------------------------------------------------------
(* The igniter is asked to open, and is open, in the autosequence only and  *)
(* after its delay, from which there is no way back.                        *)
Late == stageIndex = AUTOSEQUENCE /\ now - startTime > AutosequenceDelay

IgniterOK ==
  /\ flagValves["igniter"].type \in {OPEN_VENT, PULSE} => Late
  /\ "igniter" \in Valves \cap NormallyClosed
       /\ driver["igniter"].state # "CLOSED" => Late

(* What is late stays late.                                                 *)
LEMMA LateStays ==
  LoopInvariant /\ Late /\ [Next]_vars => Late'
  <1> SUFFICES ASSUME LoopInvariant, Late, [Next]_vars PROVE Late'
    OBVIOUS
  <1>1. CASE StageExecute
    <2>1. UNCHANGED <<stageIndex, startTime>>
      BY <1>1, StageTurn DEF LoopInvariant, Late
    <2> QED
      BY <1>1, <2>1 DEF Late, StageExecute
  <1>2. CASE Tick
    <2>1. /\ AutosequenceDelay \in Nat /\ startTime \in Nat /\ now \in Nat
          /\ now' = now + 1 /\ UNCHANGED <<stageIndex, startTime>>
      BY <1>2, LoopAssumption
        DEF Tick, stageVars, LoopInvariant, SensorsOK, StageOK
    <2> QED
      BY <2>1 DEF Late
  <1>3. CASE ~StageExecute /\ ~Tick
    <2>1. UNCHANGED <<stageIndex, startTime, now>>
      BY <1>3 DEF Next, LoopStep, Blink, NoBlink, SensorRead, TelemetryRead, Idle,
        SensorExecute, AbortExecute, TelemetryIngest, TelemetryDrained,
        ValveExecute, PressureExecute, ValveActuate, TelemetryActuate, vars,
        stageVars
    <2> QED
      BY <2>1 DEF Late
  <1> QED
    BY <1>1, <1>2, <1>3

(* Only three turns write requests.                                         *)
LEMMA OtherFlags ==
  ASSUME RequestsOK, [Next]_vars, ~StageExecute, ~TelemetryIngest,
         ~ValveActuate
  PROVE  flagValves' = flagValves
  <1>1. CASE ValveExecute
    <2>1. VC!AbortRequests = flagValves /\ VC!UndoRequests = flagValves
      BY DEF VC!AbortRequests, VC!UndoRequests, VC!ControlledValves,
        RequestsOK
    <2> QED
      BY <1>1, <2>1 DEF ValveExecute, VC!Execute, VC!CheckAbort
  <1>2. CASE ~ValveExecute
    BY <1>2 DEF Next, LoopStep, Blink, NoBlink, SensorRead, TelemetryRead, Idle,
      SensorExecute, AbortExecute, TelemetryDrained, PressureExecute,
      TelemetryActuate, Tick, vars, valveVars, TC!Drained, TC!handled
  <1> QED
    BY <1>1, <1>2

(* The ground cannot name the igniter, and the stage control waits.         *)
LEMMA IgniterStep ==
  ASSUME "igniter" \notin GroundLocations \cup Sensors
  PROVE  LoopInvariant /\ IgniterOK /\ [Next]_vars => IgniterOK'
  <1> SUFFICES ASSUME LoopInvariant, IgniterOK, [Next]_vars PROVE IgniterOK'
    OBVIOUS
  <1> USE DEF OPEN_VENT, PULSE, CLOSE_VENT, ACT_NONE
  <1>1. "igniter" \in Locations
    <2>1. SC!EngineValves \subseteq Locations
      BY LoopAssumption
    <2> QED
      BY <2>1 DEF SC!EngineValves
  <1>2. CASE StageExecute
    <2>1. /\ flagValves' = SC!Commanded(stageIndex', startTime')
          /\ StageOK'
      BY <1>2, StageTurn DEF LoopInvariant
    <2>2. now' = now /\ driver' = driver /\ now \in Nat
      BY <1>2 DEF StageExecute, LoopInvariant, SensorsOK
    <2>3. ASSUME flagValves'["igniter"].type \in {OPEN_VENT, PULSE}
          PROVE  Late'
      <3>1. CASE "igniter" \in SC!Opens(stageIndex', startTime')
        <4>1. stageIndex' = AUTOSEQUENCE
              /\ (now - startTime') - startTime' > AutosequenceDelay
          BY <3>1, StageNames
            DEF SC!Opens, SC!RestValves
        <4> QED
          <5>1. AutosequenceDelay \in Nat /\ startTime' \in Nat
            BY <2>1, LoopAssumption DEF StageOK
          <5>2. \A t, b, d \in Nat : (t - b) - b > d => t - b > d
            OBVIOUS
          <5>3. now - startTime' > AutosequenceDelay
            BY <2>2, <4>1, <5>1, <5>2
          <5> QED
            BY <2>2, <4>1, <5>3 DEF Late
      <3>2. CASE "igniter" \notin SC!Opens(stageIndex', startTime')
        <4>1. "igniter" \notin SC!Closes(stageIndex')
          BY DEF SC!Closes, SC!RestValves
        <4>2. flagValves'["igniter"] = flagValves["igniter"]
          BY <1>1, <2>1, <3>2, <4>1 DEF SC!Commanded
        <4> QED
          BY <2>3, <4>2, LateStays DEF IgniterOK
      <3> QED
        BY <3>1, <3>2
    <2> QED
      BY <2>2, <2>3, LateStays DEF IgniterOK
  <1>3. CASE TelemetryIngest
    <2>1. PICK c \in ingest : TC!Ingest(c)
      BY <1>3 DEF TelemetryIngest
    <2>2. c.loc \in Sensors \cup GroundLocations \cup {""}
      BY LoopAssumption DEF LoopInvariant, RequestsOK, TC!Commands
    <2>3. \/ flagValves' = flagValves
          \/ flagValves' = [flagValves EXCEPT ![c.loc] = TC!Ask(c.type, c.priority)]
      BY <2>1 DEF TC!Ingest, TC!Heartbeat, TC!SoftAbort, TC!UndoSoftAbort,
        TC!SolenoidActuate, TC!SolenoidRefused, TC!DataRequest,
        TC!StageProgression, TC!Info, TC!UnknownHeader
    <2>4. c.loc # "igniter"
      BY <2>2
    <2>5. flagValves'["igniter"] = flagValves["igniter"]
      BY <1>1, <2>3, <2>4 DEF LoopInvariant, RequestsOK
    <2>6. driver' = driver
      BY <1>3 DEF TelemetryIngest
    <2> QED
      BY <2>5, <2>6, LateStays DEF IgniterOK
  <1>4. CASE ValveActuate
    <2>1. CASE "igniter" \in VT!Served
      <3>1. "igniter" \in Valves
        BY <2>1 DEF VT!Served, Valves
      <3>2. /\ flagValves'["igniter"] = VT!NoRequest
            /\ driver'["igniter"] = VT!Drive("igniter", flagValves["igniter"].type)
        BY <1>4, <2>1, <3>1, DriverKeeps DEF LoopInvariant
      <3>3. VT!NoRequest.type \notin {OPEN_VENT, PULSE}
        BY DEF VT!NoRequest, VT!ACT_NONE
      <3>4. driver'["igniter"].state # "CLOSED" =>
              \/ flagValves["igniter"].type \in {OPEN_VENT, PULSE}
              \/ driver["igniter"].state # "CLOSED"
        BY <3>2 DEF VT!Drive, VT!OPEN_VENT, VT!PULSE, VT!CLOSE_VENT
      <3> QED
        BY <3>1, <3>2, <3>3, <3>4, LateStays DEF IgniterOK
    <2>2. CASE "igniter" \notin VT!Served
      <3>1. flagValves'["igniter"] = flagValves["igniter"]
            /\ ("igniter" \in Valves => driver'["igniter"] = driver["igniter"])
        BY <1>1, <1>4, <2>2, DriverKeeps DEF LoopInvariant
      <3> QED
        BY <3>1, LateStays DEF IgniterOK
    <2> QED
      BY <2>1, <2>2
  <1>5. CASE ~StageExecute /\ ~TelemetryIngest /\ ~ValveActuate
    <2>1. flagValves' = flagValves
      BY <1>5, OtherFlags DEF LoopInvariant
    <2>2. "igniter" \in Valves =>
            driver'["igniter"].state = driver["igniter"].state
      <3>1. CASE Blink \/ NoBlink
        BY <3>1, BlinkTurn
      <3>2. CASE ~Blink /\ ~NoBlink
        BY <1>5, <3>2 DEF Next, LoopStep, SensorRead, TelemetryRead, Idle,
          SensorExecute, AbortExecute, TelemetryDrained, ValveExecute,
          PressureExecute, TelemetryActuate, Tick, vars, valveVars
      <3> QED
        BY <3>1, <3>2
    <2> QED
      BY <2>1, <2>2, LateStays DEF IgniterOK
  <1> QED
    BY <1>2, <1>3, <1>4, <1>5

(* Whatever the ground sends, an igniter that starts closed and that no     *)
(* code of the ground names is closed until the autosequence has lasted for *)
(* its delay.                                                               *)
THEOREM IgniterWaits ==
  ASSUME PC!Relief \notin Valves,
         "igniter" \notin GroundLocations \cup Sensors
  PROVE  Spec => []IgniterHeld
  <1>1. LoopInvariant /\ IgniterOK => IgniterHeld
    <2> SUFFICES ASSUME LoopInvariant, IgniterOK,
                        "igniter" \in Valves \cap NormallyClosed
                 PROVE  driver["igniter"].state = "CLOSED" \/ Late
      BY DEF Late, IgniterHeld
    <2> QED
      BY DEF IgniterOK
  <1>2. Init => IgniterOK
    <2> SUFFICES ASSUME Init PROVE IgniterOK
      OBVIOUS
    <2>1. SC!EngineValves \subseteq Locations
      BY LoopAssumption
    <2>2. flagValves["igniter"] = VT!NoRequest
      BY <2>1 DEF SC!EngineValves, Init, VT!Init
    <2>3. "igniter" \in Valves \cap NormallyClosed =>
            driver["igniter"].state = "CLOSED"
      BY DEF Init, VT!Init, VT!InitDriver, VT!Valves, Valves
    <2> QED
      BY <2>2, <2>3 DEF IgniterOK, VT!NoRequest, VT!ACT_NONE, OPEN_VENT, PULSE
  <1> QED
    BY <1>1, <1>2, LoopInvariantInit, LoopInvariantStep, IgniterStep, PTL
      DEF Spec
----------------------------------------------------------------------------
(* The requests of the configured valves carry enumerated codes.            *)
CodesOK ==
  /\ ~crashed
  /\ \A v \in Valves : /\ flagValves[v].type \in ActuationTypes
                       /\ flagValves[v].priority \in ValvePriorities

(* With well-formed commands only, no handler and no task throws.           *)
LEMMA CodesStep ==
  ASSUME \A c \in Arrivals : WellFormed(c)
  PROVE  LoopInvariant /\ CodesOK /\ [Next]_vars => CodesOK'
  <1> SUFFICES ASSUME LoopInvariant, CodesOK, [Next]_vars PROVE CodesOK'
    OBVIOUS
  <1> USE DEF ActuationTypes, ValvePriorities, ACT_NONE, CLOSE_VENT,
        OPEN_VENT, PULSE, PRI_NONE, LOW_PRIORITY, PI_PRIORITY,
        MAX_TELEMETRY_PRIORITY, ABORT_PRIORITY
  <1>1. CASE StageExecute
    <2>1. flagValves' = SC!Commanded(stageIndex', startTime') /\ ~crashed'
      BY <1>1, StageTurn DEF LoopInvariant
    <2>2. \A l \in Locations :
            \/ flagValves'[l] = flagValves[l]
            \/ flagValves'[l] = Ask(OPEN_VENT, PI_PRIORITY)
            \/ flagValves'[l] = Ask(CLOSE_VENT, PI_PRIORITY)
      BY <2>1, SharedNames DEF SC!Commanded
    <2> QED
      BY <2>1, <2>2, ValvesAreLocations DEF CodesOK, Ask
  <1>2. CASE TelemetryIngest
    <2>1. PICK c \in ingest : TC!Ingest(c)
      BY <1>2 DEF TelemetryIngest
    <2>2. WellFormed(c) /\ c.priority \in Nat
      <3>1. c \in Arrivals /\ c \in TC!Commands
        BY LoopAssumption DEF LoopInvariant, RequestsOK
      <3>2. c.priority \in TC!Digits
        BY <3>1 DEF TC!Commands
      <3> QED
        BY <3>1, <3>2 DEF TC!Digits
    <2>3. c.header \in {"SAC", "VRQ"} => c.loc \in regKeys
      BY <2>2 DEF WellFormed, LoopInvariant, RestOK
    <2>4. c.header = "SAC" => TC!Acceptable(c)
      BY <2>2, <2>3 DEF WellFormed, LoopInvariant, RequestsOK, TC!Acceptable
    <2>5. c.header \in {"SRQ", "VRQ"} => TC!Exists(c)
      BY <2>2, <2>3 DEF WellFormed, TC!Exists
    <2>6. c.header \in TC!Headers /\ c.header # "INF"
      BY <2>2 DEF WellFormed
    <2>7. ~crashed'
      BY <2>1, <2>4, <2>5, <2>6 DEF CodesOK, TC!Ingest, TC!Heartbeat,
        TC!SoftAbort, TC!UndoSoftAbort, TC!SolenoidActuate,
        TC!SolenoidRefused, TC!DataRequest, TC!StageProgression, TC!Info,
        TC!UnknownHeader
    <2>8. \/ flagValves' = flagValves
          \/ /\ c.header = "SAC"
             /\ flagValves' = [flagValves EXCEPT
                                 ![c.loc] = TC!Ask(c.type, c.priority)]
      BY <2>1 DEF TC!Ingest, TC!Heartbeat, TC!SoftAbort, TC!UndoSoftAbort,
        TC!SolenoidActuate, TC!SolenoidRefused, TC!DataRequest,
        TC!StageProgression, TC!Info, TC!UnknownHeader
    <2>9. ASSUME NEW v \in Valves
          PROVE  \/ flagValves'[v] = flagValves[v]
                 \/ c.header = "SAC"
                    /\ flagValves'[v] = Ask(c.type, c.priority)
      BY <2>8, ValvesAreLocations, SharedNames DEF LoopInvariant, RequestsOK
    <2> QED
      BY <2>2, <2>7, <2>9 DEF WellFormed, CodesOK, Ask
  <1>3. CASE ValveActuate
    <2>1. ~crashed'
      <3>1. \A v \in Valves : ~VT!Throws(v)
        BY DEF CodesOK, VT!Throws, VT!ActuationTypes, VT!ValvePriorities,
          VT!ACT_NONE, VT!CLOSE_VENT, VT!OPEN_VENT, VT!PULSE, VT!PRI_NONE,
          VT!LOW_PRIORITY, VT!PI_PRIORITY, VT!MAX_TELEMETRY_PRIORITY,
          VT!ABORT_PRIORITY
      <3>2. crashed' = (\E v \in Valves : VT!Throws(v))
        BY <1>3, Zenon DEF ValveActuate, VT!Actuate, VT!Valves, Valves
      <3> QED
        BY <3>1, <3>2, Zenon
    <2>2. \A v \in Valves : flagValves'[v] \in {VT!NoRequest, flagValves[v]}
      BY <1>3, DriverKeeps, ValvesAreLocations DEF LoopInvariant
    <2> QED
      BY <2>1, <2>2 DEF CodesOK, VT!NoRequest, VT!ACT_NONE, VT!PRI_NONE
  <1>4. CASE ~StageExecute /\ ~TelemetryIngest /\ ~ValveActuate
    <2>1. flagValves' = flagValves
      BY <1>4, OtherFlags DEF LoopInvariant
    <2>2. crashed' = crashed
      BY <1>4 DEF Next, LoopStep, Blink, NoBlink, SensorRead, TelemetryRead, Idle,
        SensorExecute, AbortExecute, TelemetryDrained, ValveExecute,
        PressureExecute, TelemetryActuate, Tick, vars, TC!Drained
    <2> QED
      BY <2>1, <2>2 DEF CodesOK
  <1> QED
    BY <1>1, <1>2, <1>3, <1>4

(* For every configuration that does not spell a valve as PressureControl   *)
(* does: a ground whose commands name configured valves and sensors, use    *)
(* enumerated codes and are not INF never ends the program, in whatever     *)
(* order, stage and number they come.                                       *)
THEOREM WellFormedNeverCrash ==
  ASSUME PC!Relief \notin Valves
  PROVE  Spec => []NoCrashIfWellFormed
  <1>1. CASE \A c \in Arrivals : WellFormed(c)
    <2>1. Init => CodesOK
      BY ValvesAreLocations
        DEF Init, VT!Init, VT!NoRequest, VT!ACT_NONE, VT!PRI_NONE, CodesOK,
            ActuationTypes, ValvePriorities, ACT_NONE, CLOSE_VENT, OPEN_VENT,
            PULSE, PRI_NONE, LOW_PRIORITY, PI_PRIORITY,
            MAX_TELEMETRY_PRIORITY, ABORT_PRIORITY
    <2>2. CodesOK => NoCrashIfWellFormed
      BY DEF CodesOK, NoCrashIfWellFormed
    <2>3. LoopInvariant /\ CodesOK /\ [Next]_vars => CodesOK'
      BY <1>1, CodesStep
    <2> QED
      BY <2>1, <2>2, <2>3, LoopInvariantInit, LoopInvariantStep, PTL DEF Spec
  <1>2. CASE ~ \A c \in Arrivals : WellFormed(c)
    <2>1. NoCrashIfWellFormed
      BY <1>2 DEF NoCrashIfWellFormed
    <2> QED
      BY <2>1, PTL
  <1> QED
    BY <1>1, <1>2
----------------------------------------------------------------------------
(* A progression, in the loop: one stage further, on a request, from a full *)
(* status; any other turn of the stage control answers by staying.          *)
LEMMA StageMoves ==
  ASSUME LoopInvariant, StageExecute
  PROVE  /\ progress' = FALSE
         /\ \/ UNCHANGED <<stageIndex, startTime>>
            \/ /\ progress
               /\ stageIndex \in {WAITING, PRESSURIZATION}
               /\ stageIndex' = stageIndex + 1
               /\ startTime' = now
               /\ SC!Status(stageIndex, startTime) = 100
  <1>1. /\ stageIndex \in {WAITING, PRESSURIZATION, AUTOSEQUENCE}
        /\ regStage = stageIndex /\ progress \in BOOLEAN
        /\ stageIndex = AUTOSEQUENCE => UNCHANGED <<stageIndex, startTime>>
    BY StageTurn DEF LoopInvariant, StageOK
  <1>2. CASE SC!Advance
    <2>1. /\ progress /\ progress' = FALSE /\ startTime' = now
          /\ SC!Status(regStage, startTime) = 100
          /\ stageIndex' = SC!Least(stageIndex + 1, SC!POSTBURN)
      BY <1>2, Zenon DEF SC!Advance
    <2> QED
      BY <1>1, <2>1, StageNames DEF SC!Least
  <1>3. CASE SC!Refuse \/ SC!AskGround \/ SC!Wait
    <2>1. UNCHANGED <<stageIndex, startTime>>
      BY <1>3 DEF SC!Refuse, SC!AskGround, SC!Wait
    <2>2. progress' = FALSE
      BY <1>1, <1>3 DEF SC!Refuse, SC!AskGround, SC!Wait
    <2> QED
      BY <2>1, <2>2
  <1> QED
    BY <1>2, <1>3 DEF StageExecute, SC!Execute

(* No other turn moves the stages.                                          *)
LEMMA StagesStay ==
  ASSUME [Next]_vars, ~StageExecute
  PROVE  UNCHANGED <<stageIndex, regStage>>
  BY DEF Next, LoopStep, Blink, NoBlink, SensorRead, TelemetryRead, Idle, SensorExecute,
    AbortExecute, TelemetryIngest, TelemetryDrained, ValveExecute,
    PressureExecute, ValveActuate, TelemetryActuate, Tick, vars, stageVars

(* In the whole loop too the flight never gets past the autosequence, and   *)
(* the stage the other controls read is the one of the stage control.       *)
THEOREM LoopStopsBeforePostburn ==
  ASSUME PC!Relief \notin Valves
  PROVE  Spec => [](regStage = stageIndex /\ stageIndex # POSTBURN)
  <1> DEFINE Reached == regStage = stageIndex /\ stageIndex # POSTBURN
  <1>1. LoopInvariant => Reached
    BY DEF LoopInvariant, StageOK
  <1> HIDE DEF Reached
  <1>2. Spec => []Reached
    BY <1>1, LoopInvariantInit, LoopInvariantStep, PTL DEF Spec
  <1> QED
    BY <1>2 DEF Reached

(* What a full pressure is: 490 psi, or more where the build rounds 490     *)
(* down.                                                                    *)
IsFull(p) == p >= 490 /\ (490 \in RoundsDown => p > 490)

(* A pressure that counts for 100 % is full.                                *)
LEMMA LoopFull ==
  ASSUME NEW p \in Int, SC!PressurePercent(p) >= 100
  PROVE  IsFull(p)
  <1>1. ~(p < 0)
    <2> SUFFICES ASSUME p < 0 PROVE FALSE
      OBVIOUS
    <2>1. -p \in Nat
      OBVIOUS
    <2>2. SC!WholePart(-p) \in Nat
      BY <2>1, LoopWholePart
    <2> QED
      BY <2>2 DEF SC!PressurePercent
  <1>2. p \in Nat /\ SC!WholePart(p) >= 100
    BY <1>1 DEF SC!PressurePercent
  <1>3. (10 * p) \div 49 >= 100
    BY <1>2, LoopWholePart
  <1>4. p >= 490
    BY <1>2, <1>3
  <1>5. CASE p = 490 /\ 490 \in RoundsDown
    BY <1>2, <1>5 DEF SC!WholePart
  <1> QED
    BY <1>2, <1>4, <1>5 DEF IsFull

(* With PT-2 configured, the status of PRESSURIZATION is full only at a     *)
(* full pressure.                                                           *)
LEMMA PressureIsFull ==
  ASSUME LoopInvariant, HasPT2, SC!Status(PRESSURIZATION, startTime) = 100
  PROVE  IsFull(normalized["PT-2"])
  <1>1. normalized["PT-2"] \in Int
    BY PressureType DEF LoopInvariant
  <1>2. SC!Status(PRESSURIZATION, startTime)
        = SC!Least(100, SC!PressurePercent(normalized["PT-2"]))
    BY StageNames DEF SC!Status
  <1>3. SC!PressurePercent(normalized["PT-2"]) \in Int
    BY <1>1, LoopPercent
  <1>4. SC!PressurePercent(normalized["PT-2"]) >= 100
    BY <1>2, <1>3 DEF SC!Least
  <1> QED
    BY <1>1, <1>4, LoopFull

(* PressurizedBeforeAutosequence holds of the stage control in the loop,    *)
(* with the sensors, their filter and the ground's commands in between: the *)
(* autosequence is entered on the very estimate that is in the registry.    *)
THEOREM LoopPressurizesFirst ==
  ASSUME PC!Relief \notin Valves
  PROVE  Spec => SC!PressurizedBeforeAutosequence
  <1> DEFINE Entered ==
        stageIndex # SC!AUTOSEQUENCE /\ stageIndex' = SC!AUTOSEQUENCE /\ HasPT2
          => IsFull(IF HasPT2 THEN normalized["PT-2"] ELSE 0)
  <1>1. ASSUME LoopInvariant, [Next]_vars PROVE Entered
    <2> SUFFICES ASSUME stageIndex # AUTOSEQUENCE,
                        stageIndex' = AUTOSEQUENCE, HasPT2
                 PROVE  IsFull(normalized["PT-2"])
      BY StageNames
    <2>1. StageExecute
      BY <1>1, StagesStay
    <2>2. stageIndex = PRESSURIZATION /\ SC!Status(stageIndex, startTime) = 100
      BY <1>1, <2>1, StageMoves
    <2> QED
      BY <1>1, <2>2, PressureIsFull
  <1> HIDE DEF Entered
  <1>2. Spec => [][Entered]_(SC!vars)
    BY <1>1, LoopInvariantInit, LoopInvariantStep, PTL DEF Spec
  <1> QED
    BY <1>2 DEF Entered, IsFull, SC!PressurizedBeforeAutosequence
----------------------------------------------------------------------------
(* What the loop shows of the sensors.                                      *)
Shown == STP!OwnPinShown /\ STP!ForceNeverShown /\ STP!SharedPinSilences

(* In the whole loop too, a thermocouple on a pin of its own shows its      *)
(* driver's last reading and a pressure sensor that reading by its slope    *)
(* and bias, a load cell never shows a force, and of sensors that share a   *)
(* pin at most one shows anything, for any kinds, pins, slopes and biases.  *)
THEOREM LoopShowsReadings == Spec => []Shown
  <1>1. SensorsOK => Shown
    <2> SUFFICES ASSUME SensorsOK, NEW r \in STP!Sensors,
                        NEW s \in STP!Sensors, r # s,
                        SensorPins[r] = SensorPins[s]
                 PROVE  measured[r] = 0 \/ measured[s] = 0
      BY DEF SensorsOK, STP!ShownOK, Shown, STP!SharedPinSilences
    <2>1. ~STP!Owns(r) \/ ~STP!Owns(s)
      BY SameRead, STP!OneOwner
    <2> QED
      BY <2>1 DEF SensorsOK, STP!ShownOK
  <1> QED
    BY <1>1, SensorsInit, SensorsStep, PTL DEF Spec
----------------------------------------------------------------------------
(* What the registry reports of the valves.                                 *)
ReportsOK ==
  /\ VT!OpenReportTrusted
  /\ VT!ClosedReportExplained
  /\ SignalsMeanStates

(* What it reports of one valve.                                            *)
Reported(v, entry, info, led) ==
  /\ entry.state = "OPEN" => info.state = "OPEN"
  /\ entry.state = "CLOSED" /\ info.state = "OPEN"
       => info.actuation \in {ACT_NONE, PULSE}
  /\ \/ (info.signal = "HIGH") <=>
          (info.state # IF v \in NormallyClosed THEN "CLOSED" ELSE "OPEN")
     \/ v \in LedValves /\ info.signal = led

(* The reports of all valves are those of each.                             *)
LEMMA ReportsOfEach ==
  /\ ReportsOK <=>
       \A v \in Valves : Reported(v, regValves[v], driver[v], ledState)
  /\ ReportsOK' <=>
       \A v \in Valves : Reported(v, regValves'[v], driver'[v], ledState')
  <1>1. VT!Valves = Valves /\ VT!ACT_NONE = ACT_NONE /\ VT!PULSE = PULSE
    BY DEF VT!Valves, Valves, VT!ACT_NONE, ACT_NONE, VT!PULSE, PULSE
  <1> QED
    BY <1>1 DEF ReportsOK, Reported, VT!OpenReportTrusted,
      VT!ClosedReportExplained, SignalsMeanStates

(* An actuation of the driver and its entry in the registry go together.    *)
LEMMA ServedReported ==
  ASSUME RestOK, RequestsOK, NEW v \in Valves,
         flagValves[v].type \in ActuationTypes,
         Reported(v, regValves[v], driver[v], ledState)
  PROVE  Reported(v, [regValves[v] EXCEPT !.state = VT!Recorded(v)],
                  VT!Drive(v, flagValves[v].type), ledState)
  <1> USE DEF ACT_NONE, CLOSE_VENT, OPEN_VENT, PULSE, VT!ACT_NONE,
        VT!CLOSE_VENT, VT!OPEN_VENT, VT!PULSE
  <1> DEFINE type == flagValves[v].type
             entry == [regValves[v] EXCEPT !.state = VT!Recorded(v)]
  <1>1. entry.state = VT!Recorded(v)
    BY ValvesAreLocations DEF RequestsOK, RegistryValveInfo
  <1>2. type \in {ACT_NONE, CLOSE_VENT, OPEN_VENT, PULSE}
    BY DEF ActuationTypes
  <1>3. /\ VT!Drive(v, type).actuation = type
        /\ VT!Drive(v, type).state =
             CASE type \in {OPEN_VENT, PULSE} -> "OPEN"
               [] type = CLOSE_VENT -> "CLOSED"
               [] OTHER -> driver[v].state
        /\ VT!Drive(v, type).signal =
             CASE type \in {OPEN_VENT, PULSE} ->
                    IF v \in NormallyClosed THEN "HIGH" ELSE "LOW"
               [] type = CLOSE_VENT ->
                    IF v \in NormallyClosed THEN "LOW" ELSE "HIGH"
               [] OTHER -> driver[v].signal
    BY DEF VT!Drive
  <1>4. VT!Recorded(v) = CASE type = CLOSE_VENT -> "CLOSED"
                           [] type = OPEN_VENT -> "OPEN"
                           [] OTHER -> regValves[v].state
    BY DEF VT!Recorded
  <1> HIDE DEF type, entry
  <1>5. Reported(v, entry, VT!Drive(v, type), ledState)
    <2>1. CASE type \in {OPEN_VENT, CLOSE_VENT}
      BY <1>1, <1>3, <1>4, <2>1 DEF Reported
    <2>2. CASE type \in {ACT_NONE, PULSE}
      BY <1>1, <1>3, <1>4, <2>2 DEF Reported
    <2> QED
      BY <1>2, <2>1, <2>2
  <1> QED
    BY <1>5 DEF type, entry

(* Every turn of the loop keeps the reports.                                *)
LEMMA ReportsStep == LoopInvariant /\ ReportsOK /\ [Next]_vars => ReportsOK'
  <1> SUFFICES ASSUME LoopInvariant, ReportsOK, [Next]_vars, NEW v \in Valves
               PROVE  Reported(v, regValves'[v], driver'[v], ledState')
    BY ReportsOfEach
  <1>1. Reported(v, regValves[v], driver[v], ledState)
    BY ReportsOfEach
  <1>2. v \in Locations
    BY ValvesAreLocations
  <1>3. CASE ValveActuate
    <2>1. regValves'[v] = IF v \in VT!Served
                          THEN [regValves[v] EXCEPT !.state = VT!Recorded(v)]
                          ELSE regValves[v]
      BY <1>2, <1>3 DEF ValveActuate, VT!Actuate
    <2>2. v \in VT!Served => /\ flagValves[v].type \in ActuationTypes
                             /\ driver'[v] = VT!Drive(v, flagValves[v].type)
      BY <1>3, DriverKeeps DEF LoopInvariant
    <2>3. v \notin VT!Served => driver'[v] = driver[v]
      BY <1>3, DriverKeeps DEF LoopInvariant
    <2>6. ledState' = ledState
      BY <1>3 DEF ValveActuate, ledVars
    <2>4. CASE v \in VT!Served
      BY <1>1, <2>1, <2>2, <2>4, <2>6, ServedReported DEF LoopInvariant
    <2>5. CASE v \notin VT!Served
      BY <1>1, <2>1, <2>3, <2>5, <2>6
    <2> QED
      BY <2>4, <2>5
  <1>5. CASE Blink
    <2>1. /\ driver'[v].state = driver[v].state
          /\ driver'[v].actuation = driver[v].actuation
          /\ v \notin LedValves => driver'[v] = driver[v]
      BY <1>5, BlinkTurn
    <2>2. v \in LedValves => driver'[v].signal = ledState'
      BY <1>5 DEF Blink
    <2>3. regValves' = regValves
      BY <1>5 DEF Blink
    <2> QED
      BY <1>1, <2>1, <2>2, <2>3 DEF Reported
  <1>4. CASE ~ValveActuate /\ ~Blink
    <2>1. driver' = driver /\ ledState' = ledState
      BY <1>4, LedStays DEF Next, LoopStep, NoBlink, SensorRead, TelemetryRead, Idle,
        SensorExecute, AbortExecute, TelemetryIngest, TelemetryDrained,
        ValveExecute, StageExecute, PressureExecute, TelemetryActuate, Tick,
        vars, valveVars
    <2>2. regValves'[v].state = regValves[v].state
      <3>1. CASE PressureExecute
        BY <1>2, <3>1 DEF PressureExecute, PC!Execute, LoopInvariant,
          RequestsOK, RegistryValveInfo
      <3>2. CASE ~PressureExecute
        BY <1>4, <3>2 DEF Next, LoopStep, NoBlink, SensorRead, TelemetryRead, Idle,
          SensorExecute, AbortExecute, TelemetryIngest, TelemetryDrained,
          ValveExecute, StageExecute, TelemetryActuate, Tick, vars,
          valveVars, TC!Ingest, TC!Drained, TC!handled
      <3> QED
        BY <3>1, <3>2
    <2> QED
      BY <1>1, <2>1, <2>2 DEF Reported
  <1> QED
    BY <1>3, <1>4, <1>5

(* OpenReportTrusted, ClosedReportExplained and SignalsMeanStates hold in   *)
(* the loop: whatever the ground, the stages and the pressure ask, an OPEN  *)
(* of the registry is OPEN at the driver, a wrong CLOSED is a pulse or an   *)
(* actuation of NONE, and a pin has the level of the driver's state, or is  *)
(* the LED's and has the level of the LED.                                  *)
THEOREM LoopReportsTrue ==
  ASSUME PC!Relief \notin Valves
  PROVE  Spec => [](/\ VT!OpenReportTrusted
                    /\ VT!ClosedReportExplained
                    /\ SignalsMeanStates)
  <1>1. Init => ReportsOK
    <2> SUFFICES ASSUME Init, NEW v \in Valves
                 PROVE  Reported(v, regValves[v], driver[v], ledState)
      BY ReportsOfEach
    <2>1. regValves[v].state = "CLOSED"
      BY ValvesAreLocations DEF Init, VT!Init, VT!InitRegValves,
        VT!NewValveEntry
    <2>2. /\ driver[v].actuation = ACT_NONE /\ driver[v].signal = "LOW"
          /\ driver[v].state = IF v \in NormallyClosed THEN "CLOSED" ELSE "OPEN"
      BY DEF Init, VT!Init, VT!InitDriver, VT!Valves, Valves, VT!ACT_NONE,
        ACT_NONE
    <2> QED
      BY <2>1, <2>2 DEF Reported
  <1> QED
    BY <1>1, LoopInvariantInit, LoopInvariantStep, ReportsStep, PTL
    DEF Spec, ReportsOK
----------------------------------------------------------------------------
(* The promise of StageControl to the ground, read off the whole loop for   *)
(* the engine valve that no code of the ground names.                       *)
IgniterSequence ==
  INSTANCE StageSequence WITH
    stage <- stageIndex,
    requested <- progress,
    opening <- flagValves["igniter"].type = OPEN_VENT

(* The value that the mapping gives to opening.                             *)
IgniterAsked == flagValves["igniter"].type = OPEN_VENT

(* The turn of the stage control is an advance or a stay.                   *)
LEMMA StageTurnRefines ==
  ASSUME LoopInvariant, StageExecute
  PROVE  IgniterSequence!Advance \/ IgniterSequence!Stay
  <1> USE DEF OPEN_VENT, CLOSE_VENT
  <1>1. "igniter" \in Locations
    <2>1. SC!EngineValves \subseteq Locations
      BY LoopAssumption
    <2> QED
      BY <2>1 DEF SC!EngineValves
  <1>2. flagValves' = SC!Commanded(stageIndex', startTime')
    BY StageTurn DEF LoopInvariant
  <1>3. "igniter" \notin SC!Closes(stageIndex')
    BY DEF SC!Closes, SC!RestValves
  <1>4. flagValves'["igniter"] =
          IF "igniter" \in SC!Opens(stageIndex', startTime')
          THEN SC!Ask(SC!OPEN_VENT, SC!PI_PRIORITY)
          ELSE flagValves["igniter"]
    BY <1>1, <1>2, <1>3 DEF SC!Commanded
  <1>5. SC!Ask(SC!OPEN_VENT, SC!PI_PRIORITY).type = OPEN_VENT
    BY DEF SC!Ask, SC!OPEN_VENT
  <1>6. ASSUME "igniter" \in SC!Opens(stageIndex', startTime')
        PROVE  /\ stageIndex' = AUTOSEQUENCE
               /\ (now - startTime') - startTime' > AutosequenceDelay
    BY <1>6, StageNames DEF SC!Opens, SC!RestValves
  <1>7. progress' = FALSE
    BY StageMoves
  <1>8. CASE UNCHANGED <<stageIndex, startTime>>
    <2>1. IgniterAsked => IgniterAsked'
      BY <1>4, <1>5 DEF IgniterAsked
    <2>2. IgniterAsked' => IgniterAsked \/ stageIndex = AUTOSEQUENCE
      BY <1>4, <1>6, <1>8 DEF IgniterAsked
    <2>3. IgniterAsked' \in BOOLEAN
      BY DEF IgniterAsked
    <2> QED
      BY <1>7, <1>8, <2>1, <2>2, <2>3
        DEF IgniterSequence!Stay, IgniterSequence!AUTOSEQUENCE, IgniterAsked
  <1>9. CASE /\ progress
             /\ stageIndex \in {WAITING, PRESSURIZATION}
             /\ stageIndex' = stageIndex + 1
             /\ startTime' = now
    <2>1. now \in Nat /\ AutosequenceDelay \in Nat
      BY LoopAssumption DEF LoopInvariant, SensorsOK
    <2>2. ~((now - now) - now > AutosequenceDelay)
      BY <2>1
    <2>3. "igniter" \notin SC!Opens(stageIndex', startTime')
      BY <1>6, <1>9, <2>2
    <2>4. IgniterAsked' = IgniterAsked
      BY <1>4, <2>3 DEF IgniterAsked
    <2>5. stageIndex # POSTBURN
      BY <1>9
    <2> QED
      BY <1>7, <1>9, <2>4, <2>5
        DEF IgniterSequence!Advance, IgniterSequence!POSTBURN, IgniterAsked
  <1> QED
    BY <1>8, <1>9, StageMoves

(* Any other turn is a request of the ground, the serving of an opening, or *)
(* nothing to the promise.                                                  *)
LEMMA OtherTurnsRefine ==
  ASSUME LoopInvariant, [Next]_vars, ~StageExecute,
         "igniter" \notin GroundLocations \cup Sensors
  PROVE  \/ IgniterSequence!GroundRequest
         \/ IgniterSequence!Serve
         \/ UNCHANGED IgniterSequence!vars
  <1> USE DEF OPEN_VENT
  <1>1. UNCHANGED stageIndex
    BY StagesStay
  <1>2. "igniter" \in Locations
    <2>1. SC!EngineValves \subseteq Locations
      BY LoopAssumption
    <2> QED
      BY <2>1 DEF SC!EngineValves
  <1>3. CASE TelemetryIngest
    <2>1. PICK c \in ingest : TC!Ingest(c)
      BY <1>3 DEF TelemetryIngest
    <2>2. c.loc \in Sensors \cup GroundLocations \cup {""}
      BY LoopAssumption DEF LoopInvariant, RequestsOK, TC!Commands
    <2>3. \/ flagValves' = flagValves
          \/ flagValves' = [flagValves EXCEPT ![c.loc] = TC!Ask(c.type, c.priority)]
      BY <2>1 DEF TC!Ingest, TC!Heartbeat, TC!SoftAbort, TC!UndoSoftAbort,
        TC!SolenoidActuate, TC!SolenoidRefused, TC!DataRequest,
        TC!StageProgression, TC!Info, TC!UnknownHeader
    <2>4. c.loc # "igniter"
      BY <2>2
    <2>5. flagValves'["igniter"] = flagValves["igniter"]
      BY <1>2, <2>3, <2>4 DEF LoopInvariant, RequestsOK
    <2>6. progress' = TRUE \/ progress' = progress
      BY <2>1 DEF TC!Ingest, TC!Heartbeat, TC!SoftAbort, TC!UndoSoftAbort,
        TC!SolenoidActuate, TC!SolenoidRefused, TC!DataRequest,
        TC!StageProgression, TC!Info, TC!UnknownHeader
    <2> QED
      BY <1>1, <2>5, <2>6
        DEF IgniterSequence!GroundRequest, IgniterSequence!vars
  <1>4. CASE ValveActuate
    <2>1. UNCHANGED progress
      BY <1>4 DEF ValveActuate, stageVars
    <2>2. \/ flagValves'["igniter"] = flagValves["igniter"]
          \/ flagValves'["igniter"] = VT!NoRequest
      BY <1>2, <1>4 DEF ValveActuate, VT!Actuate
    <2>3. VT!NoRequest.type # OPEN_VENT
      BY DEF VT!NoRequest, VT!ACT_NONE
    <2> QED
      BY <1>1, <2>1, <2>2, <2>3
        DEF IgniterSequence!Serve, IgniterSequence!vars
  <1>5. CASE ~TelemetryIngest /\ ~ValveActuate
    <2>1. flagValves' = flagValves
      BY <1>5, OtherFlags DEF LoopInvariant
    <2>2. progress' = progress
      BY <1>5 DEF Next, LoopStep, Blink, NoBlink, SensorRead, TelemetryRead, Idle,
        SensorExecute, AbortExecute, TelemetryDrained, ValveExecute,
        PressureExecute, TelemetryActuate, Tick, vars, stageVars,
        TC!Drained, TC!handled
    <2> QED
      BY <1>1, <2>1, <2>2 DEF IgniterSequence!vars
  <1> QED
    BY <1>3, <1>4, <1>5

(* StageSequence, but for its fairness, is what the whole loop does with    *)
(* the igniter: stages in order, one at a time and each on a request of the *)
(* ground, and the igniter asked to open in the autosequence only, never in *)
(* the turn that enters it.                                                 *)
THEOREM LoopFollowsSequence ==
  ASSUME PC!Relief \notin Valves,
         "igniter" \notin GroundLocations \cup Sensors
  PROVE  Spec => /\ IgniterSequence!Init
                 /\ [][IgniterSequence!Next]_(IgniterSequence!vars)
  <1>1. Init => IgniterSequence!Init
    <2> SUFFICES ASSUME Init PROVE IgniterSequence!Init
      OBVIOUS
    <2>1. SC!EngineValves \subseteq Locations
      BY LoopAssumption
    <2>2. flagValves["igniter"] = VT!NoRequest
      BY <2>1 DEF SC!EngineValves, Init, VT!Init
    <2>3. (flagValves["igniter"].type = OPEN_VENT) = FALSE
      BY <2>2 DEF VT!NoRequest, VT!ACT_NONE, OPEN_VENT
    <2>4. stageIndex = WAITING /\ progress = FALSE
      BY StageNames DEF Init, SC!InitStage
    <2> QED
      BY <2>3, <2>4 DEF IgniterSequence!Init, IgniterSequence!WAITING
  <1>2. LoopInvariant /\ [Next]_vars
          => [IgniterSequence!Next]_(IgniterSequence!vars)
    BY StageTurnRefines, OtherTurnsRefine DEF IgniterSequence!Next
  <1> QED
    BY <1>1, <1>2, LoopInvariantInit, LoopInvariantStep, PTL DEF Spec
============================================================================
