---------------------------- MODULE StageControl ---------------------------
(***************************************************************************)
(* control_tasks/StageControl: the stage machine of the flight. Each       *)
(* control cycle it recomputes the status of the stage, answers a stage    *)
(* progression asked for by the ground (or asks the ground for one), and   *)
(* leaves valve requests in global_flag for the stage it is in.            *)
(*                                                                         *)
(* Time is counted in ticks from power-on, which is before tick 1; an      *)
(* execute() takes no time, so its several calls of Util::getTime agree.   *)
(* In this module the ground, the sensors and the valve task are the       *)
(* environment; PressureControl writes to no valve that is read here.      *)
(***************************************************************************)
EXTENDS FlightTypes

CONSTANTS
  Locations,          \* every solenoid location some code names
  Valves,             \* the configured solenoids
  GroundLocations,    \* the locations the ground has a code for
  GroundAsks,         \* the requests the ground makes of them
  HasPT2,             \* pressure sensor PT-2 is configured
  Pressures,          \* the values, in psi, PT-2 can take
  RoundsDown,         \* the pressures whose quotient the build rounds down
  AutosequenceDelay,  \* AUTOSEQUENCE_DELAY
  RequestInterval,    \* request_interval, fixed in the header
  SendInterval,       \* send_interval, from the configuration
  MaxTime             \* bound on the clock

EngineValves == {"igniter", "ethanol_mpv", "nitrous_mpv"}
RestValves   == {"pressure_relief", "main_propellant_valve"}

(* The engine valves that only this control can name: the igniter.          *)
HeldValves == EngineValves \ GroundLocations

ASSUME StageAssumption ==
  /\ Valves \subseteq Locations
  /\ EngineValves \cup RestValves \subseteq Locations
  /\ GroundLocations \subseteq Locations
  /\ GroundAsks \subseteq FlagValveInfo
  /\ HasPT2 \in BOOLEAN
  /\ Pressures \subseteq Int /\ 0 \in Pressures
  /\ RoundsDown \subseteq Nat \ {0}
  /\ AutosequenceDelay \in Nat \ {0}
  /\ RequestInterval \in Nat
  /\ SendInterval \in Nat
  /\ MaxTime \in Nat \ {0}

VARIABLES
  stageIndex,        \* stage_index
  regStage,          \* global_registry.general.stage
  stageStatus,       \* global_registry.general.stage_status
  startTime,         \* start_time
  requestTime,       \* request_time, 0 when no request was sent
  sendTime,          \* send_time, 0 when nothing was sent
  actuatedPostburn,  \* acutated_postburn
  progress,          \* global_flag.general.progress
  flagValves,        \* global_flag.valves["solenoid"]
  regValves,         \* global_registry.valves["solenoid"]
  regKeys,           \* the locations that have an entry in that map
  pt2,               \* normalized_value of PT-2
  outbox,            \* packets in global_flag.telemetry.enqueue
  now,               \* Util::getTime
  crashed,           \* an exception has ended the program
  turn               \* what the main loop does next: control or actuate

stageVars == <<stageIndex, regStage, stageStatus, startTime, requestTime,
               sendTime, actuatedPostburn>>
vars == <<stageVars, progress, flagValves, regValves, regKeys, pt2, outbox,
          now, crashed, turn>>

----------------------------------------------------------------------------
(* A status is a percentage but for the pressure of PRESSURIZATION, which   *)
(* is cut off above 100 only: without pressure PT-2 shows less than 0.      *)
Statuses == {n \in Int : n <= 100}

(* The packets queued here: SPQ, SGP and SGD. *)
Packets ==
  ({"SPQ"} \X Stages) \cup ({"SGD"} \X Stages \X Statuses)
    \cup ({"SGP"} \X Stages \X Statuses \X {"-0", "-1"})

TypeOK ==
  /\ stageIndex \in Stages
  /\ regStage \in Stages
  /\ stageStatus \in Statuses
  /\ stageStatus < 0 => regStage = PRESSURIZATION
  /\ {startTime, requestTime, sendTime, now} \subseteq Nat
  /\ actuatedPostburn \in BOOLEAN
  /\ progress \in BOOLEAN
  /\ flagValves \in [Locations -> FlagValveInfo]
  /\ regValves \in [Locations -> RegistryValveInfo]
  /\ regKeys \subseteq Locations
  /\ pt2 \in Pressures
  /\ outbox \subseteq Packets
  /\ crashed \in BOOLEAN
  /\ turn \in {"control", "actuate"}

(* The constructor and begin(); start_time is the time of power-on.         *)
InitStage ==
  /\ stageIndex = WAITING
  /\ regStage = WAITING
  /\ stageStatus = 0
  /\ startTime = now
  /\ requestTime = 0
  /\ sendTime = 0
  /\ actuatedPostburn = FALSE

Init ==
  /\ now = 1
  /\ InitStage
  /\ progress = FALSE
  /\ flagValves = [l \in Locations |-> NoRequest]
  /\ regValves = [l \in Locations |-> NewValveEntry]
  /\ regKeys = Valves
  /\ pt2 = 0
  /\ outbox = {}
  /\ crashed = FALSE
  /\ turn = "control"

----------------------------------------------------------------------------
Least(a, b)    == IF a < b THEN a ELSE b
Greatest(a, b) == IF a > b THEN a ELSE b

(* The whole part of p / 4.9. Where 49 divides 10 * p the quotient of the   *)
(* build may fall just below the whole number it stands for: with 4.9 as a  *)
(* double it does for 490 psi (100), in single precision it does not.       *)
WholePart(p) ==
  (10 * p) \div 49
    - (IF p \in RoundsDown /\ (10 * p) % 49 = 0 THEN 1 ELSE 0)

(* pressure / 4.9 cut to an int, which cuts towards 0.                      *)
PressurePercent(p) == IF p < 0 THEN -WholePart(-p) ELSE WholePart(p)

(* Slip: an autosequence is complete when its delay has passed.             *)
StatusReachingFull(stage, start) ==
  CASE stage = WAITING -> 100
    [] stage = PRESSURIZATION ->
         IF HasPT2 THEN Least(100, PressurePercent(pt2)) ELSE 100
    [] OTHER -> Least(((now - start) * 100) \div AutosequenceDelay, 100)

(* Slip: the status of the autosequence is not kept below 100.              *)
StatusUncapped(stage, start) ==
  IF stage # AUTOSEQUENCE THEN 100
  ELSE ((now - start) * 100) \div AutosequenceDelay

(* Slip: the pressure is not looked at.                                     *)
StatusIgnoringPressure(stage, start) ==
  IF stage \in {WAITING, PRESSURIZATION} THEN 100 ELSE 99

(* calculate_status(). In POSTBURN without PT-2, the lookup inserts an      *)
(* entry that reads 0.                                                      *)
Status(stage, start) ==
  CASE stage = WAITING -> 100
    [] stage = PRESSURIZATION ->
         IF HasPT2 THEN Least(100, PressurePercent(pt2)) ELSE 100
    [] stage = AUTOSEQUENCE ->
         IF regValves["main_propellant_valve"].type = OPEN_VENT THEN 100
         ELSE Least(((now - start) * 100) \div AutosequenceDelay, 99)
    [] OTHER ->
         Greatest(0, Least(100, (520 - (IF HasPT2 THEN pt2 ELSE 0)) \div 5))

(* The registry entries calculate_status and stage_valve_control reach with *)
(* operator[], which inserts the missing ones.                              *)
Touched(stage) ==
  CASE stage = WAITING -> RestValves
    [] stage = AUTOSEQUENCE -> EngineValves \cup {"main_propellant_valve"}
    [] OTHER -> {}

(* Slip: the engine valves open as soon as the stage is entered.            *)
OpensAtOnce(stage, start) ==
  IF stage = AUTOSEQUENCE THEN EngineValves ELSE {}

(* The valves stage_valve_control asks to open. The elapsed time has        *)
(* start_time subtracted from it a second time.                             *)
Opens(stage, start) ==
  CASE stage = AUTOSEQUENCE ->
         {l \in EngineValves : /\ regValves[l].type # OPEN_VENT
                               /\ (now - start) - start > AutosequenceDelay}
    [] stage = POSTBURN /\ ~actuatedPostburn -> RestValves
    [] OTHER -> {}

(* The valves it asks to close. *)
Closes(stage) ==
  {l \in RestValves : stage = WAITING /\ regValves[l].type # CLOSE_VENT}

(* stage_valve_control(). A request already in the flag is overwritten,     *)
(* whatever its priority.                                                   *)
Commanded(stage, start) ==
  [l \in Locations |->
     IF l \in Opens(stage, start) THEN Ask(OPEN_VENT, PI_PRIORITY)
     ELSE IF l \in Closes(stage) THEN Ask(CLOSE_VENT, PI_PRIORITY)
     ELSE flagValves[l]]

(* The end of execute(), common to its branches: stage_valve_control() and  *)
(* send_data(), in the stage the branch leaves. lastSent is send_time as    *)
(* the branch leaves it, packets what the branch has queued.                *)
Finish(lastSent, packets) ==
  LET due == lastSent = 0 \/ now > lastSent + SendInterval
  IN /\ flagValves' = Commanded(stageIndex', startTime')
     /\ regKeys' = regKeys \cup Touched(regStage) \cup Touched(stageIndex')
     /\ actuatedPostburn' = (actuatedPostburn \/ stageIndex' = POSTBURN)
     /\ sendTime' = IF due THEN now ELSE lastSent
     /\ outbox' = outbox \cup packets \cup
          (IF due THEN {<<"SGD", stageIndex', Status(regStage', startTime')>>}
                  ELSE {})

(* Slip: the status is not computed again for the new stage.                *)
AdvanceAtOldStatus ==
  /\ progress
  /\ Status(regStage, startTime) = 100
  /\ stageIndex' = Least(stageIndex + 1, POSTBURN)
  /\ regStage' = stageIndex'
  /\ stageStatus' = Status(regStage, startTime)
  /\ startTime' = now
  /\ requestTime' = 0
  /\ progress' = FALSE
  /\ crashed' = (stageIndex = POSTBURN)
  /\ Finish(0, {<<"SGP", stageIndex', stageStatus', "-1">>})

(* progress() on a complete stage. The status it answers with is that of    *)
(* the new stage at the old start_time. Past POSTBURN the stage's name      *)
(* does not exist, and looking it up throws.                                *)
Advance ==
  /\ progress
  /\ Status(regStage, startTime) = 100
  /\ stageIndex' = Least(stageIndex + 1, POSTBURN)
  /\ regStage' = stageIndex'
  /\ stageStatus' = Status(regStage', startTime)
  /\ startTime' = now
  /\ requestTime' = 0
  /\ progress' = FALSE
  /\ crashed' = (stageIndex = POSTBURN)
  /\ Finish(0, {<<"SGP", stageIndex', stageStatus', "-1">>})

(* Slip: a refused request stays in the flag.                               *)
RefuseKeepingRequest ==
  /\ progress
  /\ Status(regStage, startTime) # 100
  /\ stageStatus' = Status(regStage, startTime)
  /\ UNCHANGED <<stageIndex, regStage, startTime, requestTime, crashed,
                 progress>>
  /\ Finish(sendTime, {<<"SGP", stageIndex, stageStatus', "-0">>})

(* progress() on a stage that is not complete. *)
Refuse ==
  /\ progress
  /\ Status(regStage, startTime) # 100
  /\ stageStatus' = Status(regStage, startTime)
  /\ progress' = FALSE
  /\ UNCHANGED <<stageIndex, regStage, startTime, requestTime, crashed>>
  /\ Finish(sendTime, {<<"SGP", stageIndex, stageStatus', "-0">>})

RequestDue ==
  /\ Status(regStage, startTime) >= 100
  /\ requestTime = 0 \/ now - requestTime > RequestInterval

(* send_progression_request(), which throws when there is no next stage.    *)
AskGround ==
  /\ ~progress
  /\ RequestDue
  /\ stageStatus' = Status(regStage, startTime)
  /\ requestTime' = now
  /\ crashed' = (stageIndex = POSTBURN)
  /\ UNCHANGED <<stageIndex, regStage, startTime, progress>>
  /\ Finish(sendTime, {<<"SPQ", stageIndex>>})

Wait ==
  /\ ~progress
  /\ ~RequestDue
  /\ stageStatus' = Status(regStage, startTime)
  /\ UNCHANGED <<stageIndex, regStage, startTime, requestTime, progress,
                 crashed>>
  /\ Finish(sendTime, {})

(* StageControl::execute *)
Execute == ~crashed /\ (Advance \/ Refuse \/ AskGround \/ Wait)

----------------------------------------------------------------------------
(* The control step of the main loop, and the environment. *)

ControlStep ==
  /\ turn = "control"
  /\ Execute
  /\ turn' = "actuate"
  /\ UNCHANGED <<regValves, pt2, now>>

(* TelemetryControl::stage_progression: the ground sends SGP. *)
GroundProgress ==
  /\ ~crashed
  /\ progress' = TRUE
  /\ UNCHANGED <<stageVars, flagValves, regValves, regKeys, pt2, outbox, now,
                 crashed, turn>>

(* TelemetryControl::solenoid_actuate: the ground sends SAC for a valve it  *)
(* has a code for, in any stage.                                            *)
GroundActuate(l, request) ==
  /\ ~crashed
  /\ flagValves' = [flagValves EXCEPT ![l] = request]
  /\ UNCHANGED <<stageVars, progress, regValves, regKeys, pt2, outbox, now,
                 crashed, turn>>

(* SensorControl leaves a new normalized value for PT-2. *)
PressureChanges ==
  /\ HasPT2
  /\ pt2' \in Pressures
  /\ UNCHANGED <<stageVars, progress, flagValves, regValves, regKeys, outbox,
                 now, crashed, turn>>

Served(l) == l \in Valves /\ flagValves[l].priority # PRI_NONE

(* ValveTask::actuate serves the requests of the configured valves, and     *)
(* TelemetryTask::actuate sends the packets.                                *)
TasksActuate ==
  /\ ~crashed
  /\ turn = "actuate"
  /\ turn' = "control"
  /\ flagValves' = [l \in Locations |->
       IF Served(l) THEN NoRequest ELSE flagValves[l]]
  /\ regValves' = [l \in Locations |->
       CASE ~Served(l) -> regValves[l]
         [] flagValves[l].type = OPEN_VENT ->
              [regValves[l] EXCEPT !.state = "OPEN"]
         [] flagValves[l].type = CLOSE_VENT ->
              [regValves[l] EXCEPT !.state = "CLOSED"]
         [] OTHER -> regValves[l]]
  /\ outbox' = {}
  /\ UNCHANGED <<stageVars, progress, regKeys, pt2, now, crashed>>

Tick ==
  /\ now < MaxTime
  /\ now' = now + 1
  /\ UNCHANGED <<stageVars, progress, flagValves, regValves, regKeys, pt2,
                 outbox, crashed, turn>>

Next ==
  \/ ControlStep
  \/ TasksActuate
  \/ GroundProgress
  \/ \E l \in GroundLocations, request \in GroundAsks :
       GroundActuate(l, request)
  \/ PressureChanges
  \/ Tick

(* The main loop goes on: run() never waits for anything. *)
Fairness == WF_vars(ControlStep \/ TasksActuate)

Spec == Init /\ [][Next]_vars /\ Fairness

----------------------------------------------------------------------------
(* The stage the registry shows, which the other controls act on, is the    *)
(* one the stage machine is in, and the flight never gets past the          *)
(* autosequence: nothing ever records OPEN_VENT as the current actuation    *)
(* of the main propellant valve, so the status of that stage stays below    *)
(* 100 however often and however late the ground asks to progress.          *)
NoPostburn ==
  /\ regStage = stageIndex
  /\ stageIndex # POSTBURN
  /\ ~crashed

(* A valve the ground has no code for, the igniter, is asked to open only   *)
(* in the autosequence, and only when at least AUTOSEQUENCE_DELAY has       *)
(* passed since the stage was entered, also when the request is still       *)
(* waiting in the flag. (The other engine valves the ground may open in any *)
(* stage.)                                                                  *)
IgnitionNotEarly ==
  \A l \in HeldValves :
    flagValves[l].type = OPEN_VENT =>
      /\ stageIndex = AUTOSEQUENCE
      /\ now - startTime > AutosequenceDelay

(* One execute() may tell the ground two statuses of the same stage, one in *)
(* the reply to its SGP and one in the SGD behind it, but only as it enters *)
(* the autosequence: the reply is computed with the time of the stage       *)
(* before (StageControl.cpp:127), and the SGD then says 0.                  *)
StatusesAgree ==
  \A reply, data \in outbox :
    reply[1] = "SGP" /\ data[1] = "SGD" =>
      /\ data[2] = reply[2]
      /\ data[3] # reply[3] =>
           reply[2] = AUTOSEQUENCE /\ reply[4] = "-1" /\ data[3] = 0

(* The autosequence is entered only with full pressure at PT-2, when PT-2   *)
(* is configured: however the ground's requests fall between the readings,  *)
(* the status of one reading never lets a later, lower one pass. 490 psi is *)
(* full only where the build does not round it down.                        *)
PressurizedBeforeAutosequence ==
  [][stageIndex # AUTOSEQUENCE /\ stageIndex' = AUTOSEQUENCE /\ HasPT2
       => pt2 >= 490 /\ (490 \in RoundsDown => pt2 > 490)]_vars

(* The promise to the ground: stages in order, each on a request, the       *)
(* igniter's opening in the autosequence only, every request answered.      *)
Sequence ==
  INSTANCE StageSequence WITH
    stage <- stageIndex,
    requested <- progress,
    opening <- \E l \in HeldValves : flagValves[l].type = OPEN_VENT

ImplementsSequence == Sequence!Spec

(* "Progresses the rocket to the next stage of flight" says the handler of  *)
(* SGP (TelemetryControl.cpp:192): a ground that keeps asking should see    *)
(* the last stage.                                                          *)
KeptAskingReachesPostburn ==
  []<>progress => <>(stageIndex = POSTBURN)
============================================================================
