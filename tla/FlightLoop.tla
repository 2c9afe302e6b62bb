----------------------------- MODULE FlightLoop ----------------------------
(***************************************************************************)
(* mcl/Supervisor and control_tasks/ControlTask: the main loop, which      *)
(* forever blinks the LED, lets every task read, every control execute,    *)
(* and every task actuate. All of the program runs in this one thread; the *)
(* components meet in the maps and queues of global_registry and           *)
(* global_flag, which are the variables shared by the instances below.     *)
(* Nothing catches an exception, so the first one ends the program.        *)
(***************************************************************************)
EXTENDS FlightTypes

CONSTANTS
  Tasks,      \* task_config.tasks, a sequence
  Controls,   \* task_config.control_tasks, a set
  Locations, ValveList, NormallyClosed, GroundLocations,
  SensorList, \* sensor_list, a sequence
  LedValves,  \* the configured valves on pin 13, the LED's
  SensorKind, SensorPins, Slope, Bias, RoundsDown,
  Raw, Values, Garbage, SafeLower, WarnUpper, InitEstimate,
  SafeUpper,  \* boundaries.<stage>.safe[1], which Config does not read
  Arrivals,   \* the packets the ground may send
  AutosequenceDelay, RequestInterval, SendInterval,
  SensorInterval, ValveInterval,
  BlinkInterval, \* 1000 ms
  MaxTime     \* bound on the clock

Valves == {ValveList[i] : i \in 1..Len(ValveList)}
Sensors == {SensorList[i] : i \in 1..Len(SensorList)}
HasPT2 == "PT-2" \in Sensors

VARIABLES
  phase, step, ledState, lastBlink,                       \* the main loop
  vals, measured, filter, normalized, grade,              \* sensors
  safeUpper, warnLower, sensorSend,
  linkUp, ingest, reset, outbox, sent,                    \* telemetry
  flagValves, regValves, regKeys, driver,                 \* valves
  aborted, valveSend, softAbort,                          \* abort
  stageIndex, regStage, stageStatus, startTime, requestTime, sendTime,
  actuatedPostburn, progress,                             \* stages
  now, crashed

ledVars    == <<ledState, lastBlink>>
loopVars   == <<phase, step, ledVars>>
sensorVars == <<vals, measured, filter, normalized, grade, safeUpper,
                warnLower, sensorSend>>
linkVars   == <<linkUp, ingest, reset, sent>>
valveVars  == <<flagValves, regValves, regKeys, driver>>
abortVars  == <<aborted, valveSend, softAbort>>
stageVars  == <<stageIndex, regStage, stageStatus, startTime, requestTime,
                sendTime, actuatedPostburn, progress>>
vars == <<loopVars, sensorVars, linkVars, outbox, valveVars, abortVars,
          stageVars, now, crashed>>

----------------------------------------------------------------------------
VT == INSTANCE ValveTask WITH TypeCodes <- Digits, PriorityCodes <- Digits
TT == INSTANCE TelemetryTask
ST == INSTANCE SensorTask WITH
        Kind <- SensorKind, pins <- SensorPins, Pins <- Int
SE == INSTANCE SensorControl
AC == INSTANCE AbortControl
TC == INSTANCE TelemetryControl
VC == INSTANCE ValveControl
SC == INSTANCE StageControl WITH
        Pressures <- Values, GroundAsks <- FlagValveInfo,
        pt2 <- IF HasPT2 THEN normalized["PT-2"] ELSE 0,
        turn <- phase
PC == INSTANCE PressureControl

ASSUME LoopAssumption ==
  /\ Tasks \in Seq({"sensor", "valve", "telemetry"}) /\ Tasks # <<>>
  /\ Controls \subseteq
       {"sensor", "abort", "telemetry", "valve", "stage", "pressure"}
  /\ ValveList \in Seq(Locations)
  /\ GroundLocations \subseteq Locations
  /\ {PC!Relief} \cup SC!EngineValves \cup SC!RestValves \subseteq Locations
  /\ SensorList \in Seq(Sensors)
  /\ \A i, j \in 1..Len(SensorList) : SensorList[i] = SensorList[j] => i = j
  /\ SensorKind \in [Sensors -> {"load_cell", "pressure", "thermocouple"}]
  /\ SensorPins \in [Sensors -> Int]
  /\ LedValves \subseteq Valves
  /\ Slope \in [Sensors -> Int] /\ Bias \in [Sensors -> Int]
  /\ RoundsDown \subseteq Nat \ {0}
  /\ Values \subseteq Int
  /\ Raw \subseteq Values /\ 0 \in Raw
  /\ \A s \in Sensors, raw \in Raw :
       SensorKind[s] = "pressure" => ST!Converted(s, raw) \in Values
  /\ Garbage \subseteq [Stages -> Int]
  /\ SafeLower \in [Stages -> Int]
  /\ WarnUpper \in [Stages -> Int]
  /\ SafeUpper \in [Stages -> Int]
  /\ InitEstimate \in Values
  /\ SensorInterval \in Nat
  /\ Arrivals \subseteq TC!Commands
  /\ ValveInterval \in Nat
  /\ AutosequenceDelay \in Nat \ {0}
  /\ BlinkInterval \in Nat

TypeOK ==
  /\ phase \in {"blink", "read", "control", "actuate"}
  /\ step \in Nat \ {0}
  /\ ledState \in {"LOW", "HIGH"} /\ lastBlink \in Nat
  /\ vals \in [Sensors -> Raw]
  /\ SE!SensorTypeOK
  /\ linkUp \in BOOLEAN /\ reset \in BOOLEAN
  /\ ingest \subseteq Arrivals
  /\ VT!TypeOK
  /\ regKeys \subseteq Locations /\ Valves \subseteq regKeys
  /\ aborted \in BOOLEAN /\ softAbort \in BOOLEAN
  /\ valveSend \in Nat
  /\ stageIndex \in Stages /\ regStage \in Stages
  /\ stageStatus \in SC!Statuses
  /\ stageStatus < 0 => regStage = PRESSURIZATION
  /\ {startTime, requestTime, sendTime, now} \subseteq Nat
  /\ actuatedPostburn \in BOOLEAN /\ progress \in BOOLEAN

(* Supervisor::initialize. The packets that announce each part are left     *)
(* out.                                                                     *)
Init ==
  /\ phase = "blink" /\ step = 1
  /\ now = 1
  /\ ledState = "LOW" /\ lastBlink = now
  /\ ST!InitReadings
  /\ SE!InitSensors
  /\ TT!InitTelemetry
  /\ VT!Init
  /\ regKeys = Valves
  /\ VC!InitValveControl
  /\ softAbort = FALSE
  /\ SC!InitStage
  /\ progress = FALSE

----------------------------------------------------------------------------
(* Slip: the aborts are looked at before the sensors.                       *)
ControlOrderAbortFirst ==
  <<"abort", "sensor", "telemetry", "valve", "stage", "pressure">>

(* The order in which ControlTask's constructor adds the controls. *)
ControlOrder ==
  <<"sensor", "abort", "telemetry", "valve", "stage", "pressure">>

Turns ==
  CASE phase = "control" -> ControlOrder
    [] phase = "blink" -> <<"led">>
    [] OTHER -> Tasks

(* The loop is in phase p, at the task or control called name. *)
At(p, name) ==
  /\ ~crashed
  /\ phase = p
  /\ step \in 1..Len(Turns)
  /\ Turns[step] = name

(* The next turn of this phase, or the first one of the next phase. *)
MoveOn ==
  IF step < Len(Turns)
  THEN step' = step + 1 /\ UNCHANGED phase
  ELSE /\ step' = 1
       /\ phase' = CASE phase = "blink" -> "read"
                     [] phase = "read" -> "control"
                     [] phase = "control" -> "actuate"
                     [] OTHER -> "blink"

(* When run() turns the LED over. *)
BlinkDue == now - lastBlink > BlinkInterval

(* Slip: the level of the pin is turned over, not the LED's state.          *)
BlinkTurningLevel ==
  /\ At("blink", "led")
  /\ BlinkDue
  /\ ledState' = IF ledState = "LOW" THEN "HIGH" ELSE "LOW"
  /\ lastBlink' = now
  /\ driver' = [v \in Valves |->
       IF v \in LedValves
       THEN [driver[v] EXCEPT !.signal = IF @ = "LOW" THEN "HIGH" ELSE "LOW"]
       ELSE driver[v]]
  /\ MoveOn
  /\ UNCHANGED <<sensorVars, linkVars, outbox, flagValves, regValves, regKeys,
                 abortVars, stageVars, now, crashed>>

(* run() turns the LED over once a second, and with it the level of any     *)
(* solenoid on the same pin, which nitrous_mpv of full_config.json is. The  *)
(* states of the driver do not follow.                                      *)
Blink ==
  /\ At("blink", "led")
  /\ BlinkDue
  /\ ledState' = IF ledState = "LOW" THEN "HIGH" ELSE "LOW"
  /\ lastBlink' = now
  /\ driver' = [v \in Valves |->
       IF v \in LedValves
       THEN [state |-> driver[v].state, actuation |-> driver[v].actuation,
             signal |-> ledState']
       ELSE driver[v]]
  /\ MoveOn
  /\ UNCHANGED <<sensorVars, linkVars, outbox, flagValves, regValves, regKeys,
                 abortVars, stageVars, now, crashed>>

(* The LED is not due. *)
NoBlink ==
  /\ At("blink", "led")
  /\ ~BlinkDue
  /\ MoveOn
  /\ UNCHANGED <<ledVars, sensorVars, linkVars, outbox, valveVars, abortVars,
                 stageVars, now, crashed>>

SensorRead ==
  /\ At("read", "sensor")
  /\ ST!Read
  /\ UNCHANGED <<filter, normalized, grade, safeUpper, warnLower, sensorSend>>
  /\ MoveOn
  /\ UNCHANGED <<ledVars, linkVars, outbox, valveVars, abortVars, stageVars,
                 now, crashed>>

TelemetryRead ==
  /\ At("read", "telemetry")
  /\ TT!Read
  /\ MoveOn
  /\ UNCHANGED <<ledVars, sensorVars, valveVars, abortVars, stageVars, now,
                 crashed>>

(* A turn that changes nothing: ValveTask::read, SensorTask::actuate, and   *)
(* a control that the configuration leaves out.                             *)
Idle ==
  /\ \/ At("read", "valve")
     \/ At("actuate", "sensor")
     \/ \E c \in {ControlOrder[i] : i \in 1..6} \ Controls : At("control", c)
  /\ MoveOn
  /\ UNCHANGED <<ledVars, sensorVars, linkVars, outbox, valveVars, abortVars,
                 stageVars, now, crashed>>

Turn(name) == name \in Controls /\ At("control", name)

SensorExecute ==
  /\ Turn("sensor")
  /\ SE!Execute
  /\ MoveOn
  /\ UNCHANGED <<ledVars, vals, linkVars, valveVars, abortVars, stageVars, now,
                 crashed>>

AbortExecute ==
  /\ Turn("abort")
  /\ AC!Execute
  /\ MoveOn
  /\ UNCHANGED <<ledVars, sensorVars, linkVars, valveVars, aborted, valveSend,
                 stageVars, now, crashed>>

(* TelemetryControl::execute stays at its turn until the queue is empty. *)
TelemetryIngest ==
  /\ Turn("telemetry")
  /\ \E c \in ingest : TC!Ingest(c)
  /\ UNCHANGED <<loopVars, sensorVars, sent, driver, aborted, valveSend,
                 stageIndex, regStage, stageStatus, startTime, requestTime,
                 sendTime, actuatedPostburn, now>>

TelemetryDrained ==
  /\ Turn("telemetry")
  /\ TC!Drained
  /\ MoveOn
  /\ UNCHANGED <<ledVars, sensorVars, sent, driver, aborted, valveSend,
                 stageIndex, regStage, stageStatus, startTime, requestTime, sendTime,
                 actuatedPostburn, now>>

ValveExecute ==
  /\ Turn("valve")
  /\ VC!Execute
  /\ MoveOn
  /\ UNCHANGED <<ledVars, sensorVars, linkVars, regValves, regKeys, driver,
                 softAbort, stageVars, now, crashed>>

StageExecute ==
  /\ Turn("stage")
  /\ SC!Execute
  /\ MoveOn
  /\ UNCHANGED <<ledVars, sensorVars, linkVars, regValves, driver, abortVars,
                 now>>

PressureExecute ==
  /\ Turn("pressure")
  /\ PC!Execute
  /\ MoveOn
  /\ UNCHANGED <<ledVars, sensorVars, linkVars, outbox, flagValves, driver,
                 abortVars, stageVars, now, crashed>>

(* When a turn ends in an exception, as those of TelemetryControl,          *)
(* StageControl and ValveTask can, the program is over.                     *)
ValveActuate ==
  /\ At("actuate", "valve")
  /\ VT!Actuate
  /\ outbox' = outbox \cup VT!Reports
  /\ MoveOn
  /\ UNCHANGED <<ledVars, sensorVars, linkVars, regKeys, abortVars, stageVars,
                 now>>

TelemetryActuate ==
  /\ At("actuate", "telemetry")
  /\ TT!Actuate
  /\ MoveOn
  /\ UNCHANGED <<ledVars, sensorVars, valveVars, abortVars, stageVars, now,
                 crashed>>

(* Time passes at any moment. *)
Tick ==
  /\ ~crashed
  /\ now < MaxTime
  /\ now' = now + 1
  /\ UNCHANGED <<loopVars, sensorVars, linkVars, outbox, valveVars, abortVars,
                 stageVars, crashed>>

LoopStep ==
  \/ Blink
  \/ NoBlink
  \/ SensorRead
  \/ TelemetryRead
  \/ Idle
  \/ SensorExecute
  \/ AbortExecute
  \/ TelemetryIngest
  \/ TelemetryDrained
  \/ ValveExecute
  \/ StageExecute
  \/ PressureExecute
  \/ ValveActuate
  \/ TelemetryActuate

Next == LoopStep \/ Tick

(* Supervisor::run never waits: the loop goes on as long as the program     *)
(* runs.                                                                    *)
Fairness == WF_vars(LoopStep)

Spec == Init /\ [][Next]_vars /\ Fairness

----------------------------------------------------------------------------
(* Whatever the ground and the sensors do within one loop, when the valve   *)
(* control is configured it has caught up with the soft abort before the    *)
(* tasks actuate: both its writers, AbortControl and TelemetryControl, come *)
(* before it in ControlTask's order.                                        *)
AbortFollowed ==
  "valve" \in Controls /\ phase # "control" => aborted = softAbort

(* A loop begins with no request left over from the last one: nothing ever  *)
(* gives a configured valve a current priority, so ValveTask never denies a *)
(* request, and the priorities of the ground and of the controls decide     *)
(* nothing between loops.                                                   *)
FlagsDrained ==
  phase \in {"blink", "read"} /\ ~crashed =>
    \A v \in Valves : flagValves[v].priority = PRI_NONE

(* A "-1" reply that goes out to the ground for a request with a priority   *)
(* means that its valve is configured, and that the driver has made the     *)
(* actuation its own. The handler says so of the request ("Successfully     *)
(* controlled solenoid", TelemetryControl.cpp:137); it is true as long as   *)
(* StageControl, which runs later in the same loop, does not write the same *)
(* flag, or insert an entry for a valve that no configuration has.          *)
AckMeansActuated ==
  \A l \in Locations, t \in Digits, p \in Digits \ {PRI_NONE} :
    <<"SAC", l, t, p, "-1">> \in sent => l \in Valves /\ driver[l].actuation = t

(* The ground never learns of a refusal: the "-0" that answers an SAC, SRQ  *)
(* or VRQ is queued by a handler that throws in its next line, so the       *)
(* program ends before any actuate() sends it. (The "-0" of an SGP, which   *)
(* StageControl queues, does go out.)                                       *)
RefusalsUnsent ==
  \A packet \in sent :
    packet[1] \in {"SAC", "SDT", "VST"} => packet[Len(packet)] # "-0"

(* The telemetry control takes up one command of the ground in each loop:   *)
(* there are never two in the queue, so it does not matter that the queue   *)
(* gives the newest first (Log.hpp:47), and none is left for the next loop. *)
OneCommandPerLoop ==
  "telemetry" \in Controls =>
    /\ \A c, d \in ingest : c = d
    /\ phase = "actuate" => ingest = {}

(* No valve moves on its own, but for one on the pin of the LED: when the   *)
(* position the driver records for a valve changes, or the level of another *)
(* pin, the reply to the request that asked for it is queued and goes out   *)
(* in the same loop.                                                        *)
MovesAreAnswered ==
  [][\A v \in Valves :
       \/ driver'[v].state # driver[v].state
       \/ v \notin LedValves /\ driver'[v].signal # driver[v].signal
       =>
         \E p \in Digits \ {PRI_NONE} :
           <<"SAC", v, driver'[v].actuation, p, "-1">> \in outbox]_vars

(* A critical sensor is never flown with for longer than the undo that the  *)
(* ground sent in this very loop: past the controls, a sensor graded        *)
(* critical means a soft abort, or an undo whose reply is still to go out.  *)
CriticalAborts ==
  /\ {"sensor", "abort"} \subseteq Controls
  /\ phase = "actuate"
  /\ \E s \in Sensors : grade[s] = "CRITICAL"
  => softAbort \/ <<"UAB">> \in outbox

(* The igniter, which no ground code names, is driven open only once the    *)
(* flight is in the autosequence and its delay has passed; with a pin that  *)
(* is not the LED's, its level then says so too (SignalsMeanStates).        *)
IgniterHeld ==
  "igniter" \in Valves \cap NormallyClosed =>
    \/ driver["igniter"].state = "CLOSED"
    \/ stageIndex = AUTOSEQUENCE /\ now - startTime > AutosequenceDelay

(* In the whole loop a level still means the state the driver records, as   *)
(* ValveTask leaves it, but for a solenoid on the LED's pin: between a      *)
(* blink and its next actuation that one is where the LED is, whatever the  *)
(* driver, the registry and the VAL packets say (Supervisor.cpp:80).        *)
SignalsMeanStates ==
  \A v \in Valves :
    \/ (driver[v].signal = "HIGH") <=>
         (driver[v].state # IF v \in NormallyClosed THEN "CLOSED" ELSE "OPEN")
    \/ v \in LedValves /\ driver[v].signal = ledState

(* Commands that name configured valves and enumerated codes, and no INF,   *)
(* never end the program, in whatever stage and order they come.            *)
WellFormed(c) ==
  /\ c.header \in TC!Headers \ {"INF"}
  /\ c.header \in {"SAC", "VRQ"} => c.loc \in Valves
  /\ c.header = "SRQ" => c.loc \in Sensors
  /\ c.header = "SAC" => c.type \in ActuationTypes /\ c.priority \in ValvePriorities

NoCrashIfWellFormed ==
  (\A c \in Arrivals : WellFormed(c)) => ~crashed

(* A request the ground was given a "-1" for is taken out of its flag, by   *)
(* the valve task or by the end of the program: it never waits for ever.    *)
RequestsServed ==
  \A v \in Valves :
    flagValves[v].priority # PRI_NONE
      ~> flagValves[v].priority = PRI_NONE \/ crashed

(* Every SGP of the ground is answered by the stage control.                *)
ProgressionAnswered ==
  "stage" \in Controls => (progress ~> ~progress \/ crashed)

----------------------------------------------------------------------------
(* What the texts of the repository say, and the code does not do.          *)

(* "safe": [100, 500] (full_config.json:80): a sensor graded safe should    *)
(* be within the safe range of the configuration, its upper end included.   *)
SafeMeansInRange ==
  "sensor" \in Controls /\ phase = "actuate" =>
    \A s \in Sensors :
      grade[s] = "SAFE" => normalized[s] <= SafeUpper[regStage]
============================================================================
