-------------------------- MODULE FlightLoopProofs -------------------------
(***************************************************************************)
(* What the main loop keeps for every configuration: any tasks and         *)
(* controls, valves, sensors, boundaries, ground commands and intervals.   *)
(***************************************************************************)
EXTENDS FlightLoop, TLAPS

(* The place of the loop: a phase, and a turn within it.                    *)
PhaseOK ==
  /\ phase \in {"blink", "read", "control", "actuate"}
  /\ step \in Nat \ {0}

(* A turn ends by moving on, or stays where it is.                          *)
LEMMA LoopMoves == [Next]_vars => MoveOn \/ UNCHANGED <<phase, step>>
  <1> SUFFICES ASSUME [Next]_vars PROVE MoveOn \/ UNCHANGED <<phase, step>>
    OBVIOUS
  <1>1. CASE Next
    BY <1>1 DEF Next, LoopStep, Blink, NoBlink, SensorRead, TelemetryRead, Idle,
      SensorExecute, AbortExecute, TelemetryIngest, TelemetryDrained,
      ValveExecute, StageExecute, PressureExecute, ValveActuate,
      TelemetryActuate, Tick, loopVars
  <1>2. CASE UNCHANGED vars
    BY <1>2 DEF vars, loopVars
  <1> QED
    BY <1>1, <1>2

(* The loop never leaves its three phases.                                  *)
LEMMA PhaseStep == PhaseOK /\ [Next]_vars => PhaseOK'
  <1> SUFFICES ASSUME PhaseOK, [Next]_vars PROVE PhaseOK'
    OBVIOUS
  <1>1. CASE MoveOn
    BY <1>1 DEF MoveOn, PhaseOK
  <1>2. CASE UNCHANGED <<phase, step>>
    BY <1>2 DEF PhaseOK
  <1> QED
    BY <1>1, <1>2, LoopMoves

(* What is not the LED's: all but the place of the loop, the LED, and the   *)
(* driver's record of the levels.                                           *)
blinkKeeps == <<sensorVars, linkVars, outbox, flagValves, regValves, regKeys,
                abortVars, stageVars, now, crashed>>

(* The LED's turn comes first in every loop, and leaves what is not its own *)
(* alone.                                                                   *)
LEMMA BlinkTurn ==
  ASSUME Blink \/ NoBlink
  PROVE  /\ ~crashed /\ MoveOn
         /\ phase = "blink" /\ step \in 1..Len(Turns)
         /\ phase' = "read" /\ step' = 1
         /\ UNCHANGED blinkKeeps
         /\ \A v \in Valves :
              /\ driver'[v].state = driver[v].state
              /\ driver'[v].actuation = driver[v].actuation
              /\ v \notin LedValves => driver'[v] = driver[v]
  <1>1. At("blink", "led") /\ MoveOn
    BY DEF Blink, NoBlink
  <1>2. ~crashed /\ phase = "blink" /\ step \in 1..Len(Turns)
        /\ Turns = <<"led">> /\ Len(Turns) = 1
    BY <1>1 DEF At, Turns
  <1>3. phase' = "read" /\ step' = 1
    BY <1>1, <1>2 DEF MoveOn
  <1>4. UNCHANGED blinkKeeps
    BY DEF Blink, NoBlink, blinkKeeps, valveVars
  <1>5. \A v \in Valves :
          /\ driver'[v].state = driver[v].state
          /\ driver'[v].actuation = driver[v].actuation
          /\ v \notin LedValves => driver'[v] = driver[v]
    BY DEF Blink, NoBlink, valveVars
  <1> QED
    BY <1>1, <1>2, <1>3, <1>4, <1>5

(* Where a control stands in ControlTask's order.                           *)
LEMMA ControlPlace ==
  ASSUME NEW name, At("control", name)
  PROVE  /\ phase = "control"
         /\ Turns = ControlOrder
         /\ Len(Turns) = 6
         /\ step \in 1..6
         /\ name = "abort" => step = 2
         /\ name = "telemetry" => step = 3
         /\ name = "valve" => step = 4
  <1>1. phase = "control" /\ Turns = ControlOrder
    BY DEF At, Turns
  <1>2. Len(ControlOrder) = 6
    BY DEF ControlOrder
  <1>3. step \in 1..6 /\ ControlOrder[step] = name
    BY <1>1, <1>2 DEF At
  <1> QED
    BY <1>1, <1>2, <1>3 DEF ControlOrder

----------------------------------------------------------------------------
(* The valve control's own copy of the soft abort is the registry's from    *)
(* its turn of one loop to the abort control's turn of the next one.        *)
Caught ==
  "valve" \in Controls /\ (phase # "control" \/ step > 4)
    => aborted = softAbort

(* A turn of another control, or of a task, does not bring the loop past    *)
(* the turn of the valve control.                                           *)
LEMMA NotPastValve ==
  ASSUME PhaseOK, MoveOn, step \in 1..Len(Turns),
         phase = "control" => Turns[step] # "valve",
         phase' # "control" \/ step' > 4
  PROVE  phase # "control" \/ step > 4
  <1> SUFFICES ASSUME phase = "control", step \in 1..4 PROVE FALSE
    BY DEF PhaseOK
  <1>1. Turns = ControlOrder /\ Len(Turns) = 6
    BY DEF Turns, ControlOrder
  <1>2. step' = step + 1 /\ phase' = phase
    BY <1>1 DEF MoveOn
  <1>3. step = 4
    BY <1>2
  <1> QED
    BY <1>1, <1>3 DEF ControlOrder

(* Only the abort and the telemetry control raise or take back the soft     *)
(* abort, both before the valve control, which follows it.                  *)
LEMMA CaughtStep == PhaseOK /\ Caught /\ [Next]_vars => Caught'
  <1> SUFFICES ASSUME PhaseOK, Caught, [Next]_vars, "valve" \in Controls,
                      phase' # "control" \/ step' > 4
               PROVE  aborted' = softAbort'
    BY DEF Caught
  <1>1. ASSUME MoveOn, step \in 1..Len(Turns),
               phase = "control" => Turns[step] # "valve",
               UNCHANGED <<aborted, softAbort>>
        PROVE  aborted' = softAbort'
    BY <1>1, NotPastValve DEF Caught
  <1>2. CASE SensorRead \/ TelemetryRead \/ ValveActuate \/ TelemetryActuate
    BY <1>1, <1>2 DEF SensorRead, TelemetryRead, ValveActuate,
      TelemetryActuate, At, abortVars
  <1>3. CASE Idle
    BY <1>1, <1>3 DEF Idle, At, abortVars
  <1>4. CASE SensorExecute \/ StageExecute \/ PressureExecute
    BY <1>1, <1>4 DEF SensorExecute, StageExecute, PressureExecute, Turn, At,
      abortVars
  <1>5. CASE TelemetryDrained
    BY <1>1, <1>5 DEF TelemetryDrained, Turn, At, TC!Drained, TC!handled
  <1>6. CASE ValveExecute
    BY <1>6 DEF ValveExecute, VC!Execute, VC!CheckAbort
  <1>7. CASE AbortExecute
    <2>1. phase = "control" /\ Len(Turns) = 6 /\ step = 2
      BY <1>7, ControlPlace DEF AbortExecute, Turn
    <2> QED
      BY <1>7, <2>1 DEF AbortExecute, MoveOn
  <1>8. CASE TelemetryIngest
    <2>1. phase = "control" /\ step = 3
      BY <1>8, ControlPlace DEF TelemetryIngest, Turn
    <2> QED
      BY <1>8, <2>1 DEF TelemetryIngest, loopVars
  <1>9. CASE Tick \/ UNCHANGED vars
    BY <1>9 DEF Tick, vars, loopVars, abortVars, Caught
  <1>10. CASE Blink \/ NoBlink
    BY <1>10, BlinkTurn DEF blinkKeeps, abortVars, Caught
  <1> QED
    BY <1>2, <1>3, <1>4, <1>5, <1>6, <1>7, <1>8, <1>9, <1>10
      DEF Next, LoopStep

(* For every configuration with a valve control, the soft abort it acts on  *)
(* when the tasks actuate is the one in the registry, whatever the ground   *)
(* and the sensors did in this loop.                                        *)
THEOREM AbortsAreFollowed == Spec => []AbortFollowed
  <1>1. Init => PhaseOK /\ Caught
    <2>1. Init => PhaseOK
      BY DEF Init, PhaseOK
    <2>2. Init => Caught
      BY Zenon DEF Init, Caught, VC!InitValveControl
    <2> QED
      BY <2>1, <2>2
  <1>2. PhaseOK /\ Caught => AbortFollowed
    BY DEF Caught, AbortFollowed
  <1> QED
    BY <1>1, <1>2, PhaseStep, CaughtStep, PTL DEF Spec
----------------------------------------------------------------------------
(* The requests and the registry entries of the valves are well typed, and  *)
(* no configured valve has a current priority.                              *)
RequestsOK ==
  /\ ingest \subseteq Arrivals
  /\ flagValves \in [Locations -> FlagValveInfo]
  /\ regValves \in [Locations -> RegistryValveInfo]
  /\ \A v \in Valves : regValves[v].priority = PRI_NONE

(* Every configured valve is a location.                                    *)
LEMMA ValvesAreLocations == Valves \subseteq Locations
  BY LoopAssumption DEF Valves

(* The requests of the controls name types and priorities.                  *)
LEMMA AskTypes ==
  ASSUME NEW type \in Digits, NEW priority \in Digits
  PROVE  Ask(type, priority) \in FlagValveInfo
  BY DEF Ask, FlagValveInfo

(* Every enumerated code is a digit.                                        *)
LEMMA CodesAreDigits ==
  /\ {ACT_NONE, OPEN_VENT, CLOSE_VENT} \subseteq Digits
  /\ {PRI_NONE, PI_PRIORITY, ABORT_PRIORITY} \subseteq Digits
  BY DEF Digits, ACT_NONE, OPEN_VENT, CLOSE_VENT, PRI_NONE, PI_PRIORITY,
         ABORT_PRIORITY

(* The instances share the enumerations and records of FlightTypes.         *)
LEMMA SharedNames ==
  /\ TC!Digits = Digits
  /\ \A t, p : TC!Ask(t, p) = Ask(t, p)
  /\ \A t, p : VC!Ask(t, p) = Ask(t, p)
  /\ \A t, p : SC!Ask(t, p) = Ask(t, p)
  /\ VC!ACT_NONE = ACT_NONE
  /\ VC!OPEN_VENT = OPEN_VENT
  /\ VC!ABORT_PRIORITY = ABORT_PRIORITY
  /\ SC!OPEN_VENT = OPEN_VENT
  /\ SC!CLOSE_VENT = CLOSE_VENT
  /\ SC!PI_PRIORITY = PI_PRIORITY
  BY DEF Digits, Ask, ACT_NONE, OPEN_VENT, CLOSE_VENT, PI_PRIORITY,
         ABORT_PRIORITY, TC!Digits, TC!Ask, VC!Ask, SC!Ask, VC!ACT_NONE,
         VC!OPEN_VENT, VC!ABORT_PRIORITY, SC!OPEN_VENT, SC!CLOSE_VENT,
         SC!PI_PRIORITY

(* A packet of the ground writes a request with the digits it carries.      *)
LEMMA IngestKeeps ==
  ASSUME RequestsOK, NEW c \in ingest, TC!Ingest(c)
  PROVE  RequestsOK'
  <1>1. c.type \in Digits /\ c.priority \in Digits
    BY LoopAssumption, SharedNames DEF RequestsOK, TC!Commands
  <1>2. Ask(c.type, c.priority) \in FlagValveInfo
    BY <1>1, AskTypes
  <1>3. ingest' \subseteq Arrivals /\ regValves' = regValves
    BY DEF TC!Ingest, RequestsOK
  <1>4. \/ flagValves' = flagValves
        \/ flagValves' = [flagValves EXCEPT ![c.loc] = Ask(c.type, c.priority)]
    BY SharedNames
      DEF TC!Ingest, TC!Heartbeat, TC!SoftAbort, TC!UndoSoftAbort,
          TC!SolenoidActuate, TC!SolenoidRefused, TC!DataRequest,
          TC!StageProgression, TC!Info, TC!UnknownHeader
  <1>5. flagValves' \in [Locations -> FlagValveInfo]
    BY <1>2, <1>4 DEF RequestsOK
  <1> QED
    BY <1>3, <1>5 DEF RequestsOK

(* The requests of the valve control, and of the stage control.             *)
LEMMA ControlsKeep ==
  ASSUME RequestsOK, ValveExecute \/ StageExecute
  PROVE  RequestsOK'
  <1>1. ingest' = ingest /\ regValves' = regValves
    BY DEF ValveExecute, StageExecute, linkVars
  <1>2. flagValves' \in [Locations -> FlagValveInfo]
    <2>1. CASE ValveExecute
      <3>1. /\ VC!AbortRequests \in [Locations -> FlagValveInfo]
            /\ VC!UndoRequests \in [Locations -> FlagValveInfo]
        BY AskTypes, CodesAreDigits, SharedNames
          DEF RequestsOK, VC!AbortRequests, VC!UndoRequests
      <3> QED
        BY <2>1, <3>1
          DEF ValveExecute, VC!Execute, VC!CheckAbort, RequestsOK
    <2>2. CASE StageExecute
      <3>1. flagValves' = SC!Commanded(stageIndex', startTime')
        BY <2>2 DEF StageExecute, SC!Execute, SC!Advance, SC!Refuse,
                    SC!AskGround, SC!Wait, SC!Finish
      <3>2. \A s, t : SC!Commanded(s, t) \in [Locations -> FlagValveInfo]
        BY AskTypes, CodesAreDigits, SharedNames DEF RequestsOK, SC!Commanded
      <3> QED
        BY <3>1, <3>2
    <2> QED
      BY <2>1, <2>2
  <1> QED
    BY <1>1, <1>2 DEF RequestsOK

(* Every step keeps the requests well typed, and gives no configured valve  *)
(* a current priority: the one entry PressureControl writes is not theirs.  *)
LEMMA RequestsStep ==
  ASSUME PC!Relief \notin Valves
  PROVE  RequestsOK /\ [Next]_vars => RequestsOK'
  <1> SUFFICES ASSUME RequestsOK, [Next]_vars PROVE RequestsOK'
    OBVIOUS
  <1>1. CASE TelemetryIngest
    BY <1>1, IngestKeeps DEF TelemetryIngest
  <1>2. CASE ValveExecute \/ StageExecute
    BY <1>2, ControlsKeep
  <1>3. CASE TelemetryRead
    BY <1>3 DEF TelemetryRead, TT!Read, RequestsOK, valveVars
  <1>4. CASE PressureExecute
    <2>1. ingest' = ingest /\ flagValves' = flagValves
      BY <1>4 DEF PressureExecute, linkVars
    <2>2. \/ regValves' = regValves
          \/ regValves' = [regValves EXCEPT ![PC!Relief].type = OPEN_VENT,
                                            ![PC!Relief].priority = PI_PRIORITY]
      BY <1>4 DEF PressureExecute, PC!Execute, PC!OPEN_VENT, PC!PI_PRIORITY,
                  OPEN_VENT, PI_PRIORITY
    <2>3. regValves' \in [Locations -> RegistryValveInfo]
      BY <2>2 DEF RequestsOK, RegistryValveInfo, ActuationTypes,
                  ValvePriorities
    <2>4. \A v \in Valves : regValves'[v] = regValves[v]
      BY <2>2, ValvesAreLocations DEF RequestsOK
    <2> QED
      BY <2>1, <2>3, <2>4 DEF RequestsOK
  <1>5. CASE ValveActuate
    <2>1. ingest' = ingest
      BY <1>5 DEF ValveActuate, linkVars
    <2>2. flagValves' \in [Locations -> FlagValveInfo]
      <3>1. VT!NoRequest \in FlagValveInfo
        BY DEF VT!NoRequest, VT!ACT_NONE, VT!PRI_NONE, FlagValveInfo, Digits
      <3> QED
        BY <1>5, <3>1 DEF ValveActuate, VT!Actuate, RequestsOK
    <2>3. \A l \in Locations : VT!Recorded(l) \in SolenoidStates
      BY DEF VT!Recorded, RequestsOK, RegistryValveInfo, SolenoidStates
    <2>4. regValves' \in [Locations -> RegistryValveInfo]
      BY <1>5, <2>3 DEF ValveActuate, VT!Actuate, RequestsOK,
                        RegistryValveInfo
    <2>5. \A v \in Valves : regValves'[v].priority = regValves[v].priority
      BY <1>5, ValvesAreLocations
        DEF ValveActuate, VT!Actuate, RequestsOK, RegistryValveInfo
    <2> QED
      BY <2>1, <2>2, <2>4, <2>5 DEF RequestsOK
  <1>6. CASE TelemetryDrained
    BY <1>6 DEF TelemetryDrained, TC!Drained, TC!handled, RequestsOK
  <1>7. CASE \/ SensorRead \/ Idle \/ SensorExecute \/ AbortExecute
             \/ TelemetryActuate \/ Tick
    <2>1. UNCHANGED <<ingest, flagValves, regValves>>
      BY <1>7 DEF SensorRead, Idle, SensorExecute, AbortExecute,
                  TelemetryActuate, Tick, TT!Actuate, linkVars, valveVars
    <2> QED
      BY <2>1 DEF RequestsOK
  <1>8. CASE UNCHANGED vars
    BY <1>8 DEF vars, linkVars, valveVars, RequestsOK
  <1>9. CASE Blink \/ NoBlink
    BY <1>9, BlinkTurn DEF blinkKeeps, linkVars, RequestsOK
  <1> QED
    BY <1>1, <1>2, <1>3, <1>4, <1>5, <1>6, <1>7, <1>8, <1>9
      DEF Next, LoopStep

----------------------------------------------------------------------------
(* The valve task has had its turn in this phase.                           *)
ValvesServed == \E i \in 1..(step - 1) : Tasks[i] = "valve"

(* From the turn of the valve task until the controls of the next loop, no  *)
(* request of a configured valve is pending.                                *)
Drained ==
  /\ ~crashed
  /\ phase \in {"blink", "read"} \/ (phase = "actuate" /\ ValvesServed)
  => \A v \in Valves : flagValves[v].priority = PRI_NONE

(* A turn that does not crash and leaves the flags alone keeps them         *)
(* drained, unless it is a control's, after which nothing is claimed.       *)
LEMMA QuietTurnKeeps ==
  ASSUME PhaseOK, Drained, MoveOn, step \in 1..Len(Turns), crashed' = crashed,
         phase = "actuate" => Turns[step] # "valve",
         phase # "control" => flagValves' = flagValves,
         \E i \in 1..Len(Tasks) : Tasks[i] = "valve"
  PROVE  Drained'
  <1> SUFFICES ASSUME ~crashed',
                      phase' \in {"blink", "read"}
                        \/ (phase' = "actuate" /\ ValvesServed')
               PROVE  \A v \in Valves : flagValves'[v].priority = PRI_NONE
    BY DEF Drained
  <1>1. Len(Tasks) \in Nat
    BY LoopAssumption
  <1>2. CASE phase \in {"blink", "read"}
    BY <1>2 DEF Drained
  <1>3. CASE phase = "control"
    <2>1. Turns = ControlOrder /\ Len(Turns) = 6
      BY <1>3 DEF Turns, ControlOrder
    <2>2. step' = 1 /\ phase' = "actuate"
      BY <1>3, <2>1 DEF MoveOn, PhaseOK
    <2> QED
      BY <2>2 DEF ValvesServed
  <1>4. CASE phase = "actuate"
    <2>1. Turns = Tasks
      BY <1>4 DEF Turns
    <2>2. \/ step < Len(Tasks) /\ step' = step + 1 /\ phase' = "actuate"
          \/ step = Len(Tasks) /\ phase' = "blink"
      BY <1>1, <1>4, <2>1 DEF MoveOn, PhaseOK
    <2>3. \E i \in 1..step : Tasks[i] = "valve"
      BY <1>1, <2>2 DEF ValvesServed
    <2>4. ValvesServed
      BY <1>1, <1>4, <2>1, <2>3 DEF ValvesServed
    <2> QED
      BY <1>4, <2>4 DEF Drained
  <1> QED
    BY <1>2, <1>3, <1>4 DEF PhaseOK

(* Without a current priority every pending request is granted, so a turn   *)
(* of the valve task that does not throw leaves none.                       *)
LEMMA ValveTurnDrains ==
  ASSUME RequestsOK, ValveActuate, ~crashed', NEW v \in Valves
  PROVE  flagValves'[v].priority = PRI_NONE
  <1>1. VT!PRI_NONE = PRI_NONE /\ VT!NoRequest.priority = PRI_NONE
    BY DEF VT!PRI_NONE, PRI_NONE, VT!NoRequest
  <1>2. v \in Locations
    BY ValvesAreLocations
  <1>3. flagValves'[v] = IF v \in VT!Served THEN VT!NoRequest ELSE flagValves[v]
    BY <1>2 DEF ValveActuate, VT!Actuate
  <1>4. CASE v \in VT!Served
    BY <1>1, <1>3, <1>4
  <1>5. CASE v \notin VT!Served
    <2>1. PICK n \in 1..Len(ValveList) : v = ValveList[n]
      BY DEF Valves
    <2>2. Len(ValveList) \in Nat
      BY LoopAssumption
    <2>3. \A m \in 1..n : ~VT!Throws(ValveList[m])
      BY <2>1, <2>2 DEF ValveActuate, VT!Actuate, VT!Valves
    <2>4. ~VT!Granted(v)
      BY <1>5, <2>1, <2>3 DEF VT!Served
    <2>5. flagValves[v].priority \in 0..9 /\ regValves[v].priority = 0
      BY <1>2 DEF RequestsOK, FlagValveInfo, Digits, PRI_NONE
    <2> QED
      BY <1>1, <1>3, <1>5, <2>4, <2>5 DEF VT!Granted, PRI_NONE
  <1> QED
    BY <1>4, <1>5

(* Requests are written in the control phase only, and none outlives the    *)
(* valve task's turn.                                                       *)
LEMMA DrainedStep ==
  ASSUME \E i \in 1..Len(Tasks) : Tasks[i] = "valve"
  PROVE  PhaseOK /\ RequestsOK /\ Drained /\ [Next]_vars => Drained'
  <1> SUFFICES ASSUME PhaseOK, RequestsOK, Drained, [Next]_vars
               PROVE  Drained'
    OBVIOUS
  <1>1. CASE ValveActuate
    BY <1>1, ValveTurnDrains DEF Drained
  <1>2. CASE SensorRead \/ TelemetryRead \/ Idle \/ TelemetryActuate
    <2>1. /\ MoveOn
          /\ step \in 1..Len(Turns)
          /\ phase = "actuate" => Turns[step] # "valve"
          /\ crashed' = crashed /\ flagValves' = flagValves
      BY <1>2 DEF SensorRead, TelemetryRead, Idle, TelemetryActuate, At,
                  valveVars
    <2> QED
      BY <2>1, QuietTurnKeeps
  <1>3. CASE \/ SensorExecute \/ AbortExecute \/ TelemetryDrained
             \/ ValveExecute \/ StageExecute \/ PressureExecute
    <2>1. MoveOn /\ phase = "control" /\ Len(Turns) = 6 /\ step \in 1..6
      BY <1>3, ControlPlace
        DEF SensorExecute, AbortExecute, TelemetryDrained, ValveExecute,
            StageExecute, PressureExecute, Turn
    <2>2. phase' = "control" \/ (phase' = "actuate" /\ step' = 1)
      BY <2>1 DEF MoveOn
    <2> QED
      BY <2>2 DEF Drained, ValvesServed
  <1>4. CASE TelemetryIngest
    <2>1. phase' = "control"
      BY <1>4, ControlPlace DEF TelemetryIngest, Turn, loopVars
    <2> QED
      BY <2>1 DEF Drained
  <1>5. CASE Tick \/ UNCHANGED vars
    BY <1>5 DEF Tick, vars, loopVars, valveVars, Drained, ValvesServed
  <1>6. CASE Blink \/ NoBlink
    BY <1>6, BlinkTurn DEF blinkKeeps, Drained
  <1> QED
    BY <1>1, <1>2, <1>3, <1>4, <1>5, <1>6 DEF Next, LoopStep

(* The program starts without requests.                                     *)
LEMMA RequestsInit == Init => RequestsOK /\ Drained
  <1>1. ASSUME Init PROVE RequestsOK
    BY <1>1, ValvesAreLocations
      DEF Init, RequestsOK, VT!Init, TT!InitTelemetry, VT!NoRequest,
          VT!InitRegValves, VT!NewValveEntry, FlagValveInfo, Digits,
          RegistryValveInfo, SolenoidStates, ActuationTypes,
          ValvePriorities, VT!ACT_NONE, VT!PRI_NONE, ACT_NONE, PRI_NONE
  <1>2. ASSUME Init PROVE Drained
    BY <1>2, ValvesAreLocations
      DEF Init, Drained, VT!Init, VT!NoRequest, VT!PRI_NONE, PRI_NONE
  <1> QED
    BY <1>1, <1>2

(* With a valve task configured, and none of the valves named as            *)
(* PressureControl spells its own, every loop of the program begins with    *)
(* the requests of all configured valves served: nothing the ground or a    *)
(* control asked for is carried over.                                       *)
THEOREM RequestsAreDrained ==
  ASSUME PC!Relief \notin Valves,
         \E i \in 1..Len(Tasks) : Tasks[i] = "valve"
  PROVE  Spec => []FlagsDrained
  <1>1. Init => PhaseOK /\ RequestsOK /\ Drained
    BY RequestsInit DEF Init, PhaseOK
  <1>2. PhaseOK /\ RequestsOK /\ Drained /\ [Next]_vars
          => (PhaseOK /\ RequestsOK /\ Drained)'
    BY PhaseStep, RequestsStep, DrainedStep
  <1>3. PhaseOK /\ RequestsOK /\ Drained => FlagsDrained
    BY DEF Drained, FlagsDrained
  <1> QED
    BY <1>1, <1>2, <1>3, PTL DEF Spec

----------------------------------------------------------------------------
(* What the ground may rely on when it sends a command, if the last task is *)
(* the telemetry task.                                                      *)

(* The last task is the telemetry task, and no other one is.                *)
TelemetryLast ==
  \A i \in 1..Len(Tasks) : Tasks[i] = "telemetry" <=> i = Len(Tasks)

(* Number and names of the tasks.                                           *)
LEMMA TaskCount == Len(Tasks) \in Nat \ {0}
  BY LoopAssumption

(* Where the turn of a task stands.                                         *)
LEMMA TaskPlace ==
  ASSUME NEW p \in {"read", "actuate"}, NEW name, At(p, name)
  PROVE  /\ phase = p /\ ~crashed
         /\ Turns = Tasks
         /\ step \in 1..Len(Tasks)
         /\ Tasks[step] = name
  BY DEF At, Turns

(* The telemetry task's turn ends its phase.                                *)
LEMMA TelemetryTurnEnds ==
  ASSUME TelemetryLast, MoveOn,
         NEW p \in {"read", "actuate"}, At(p, "telemetry")
  PROVE  /\ phase = p
         /\ phase' = IF p = "read" THEN "control" ELSE "blink"
         /\ step' = 1
  <1>1. phase = p /\ Turns = Tasks /\ step \in 1..Len(Tasks)
        /\ Tasks[step] = "telemetry"
    BY TaskPlace
  <1>2. step = Len(Tasks)
    BY <1>1 DEF TelemetryLast
  <1> QED
    BY <1>1, <1>2 DEF MoveOn

(* No other turn of a task ends its phase.                                  *)
LEMMA OtherTurnStays ==
  ASSUME TelemetryLast, MoveOn, NEW name, name # "telemetry",
         NEW p \in {"read", "actuate"}, At(p, name)
  PROVE  phase = p /\ phase' = p /\ step' = step + 1
  <1>1. phase = p /\ Turns = Tasks /\ step \in 1..Len(Tasks)
        /\ Tasks[step] = name
    BY TaskPlace
  <1>2. step # Len(Tasks) /\ Len(Tasks) \in Nat
    BY <1>1, TaskCount DEF TelemetryLast
  <1>3. step < Len(Tasks)
    BY <1>1, <1>2
  <1> QED
    BY <1>1, <1>3 DEF MoveOn

(* A turn of a control goes on to the next one, the last one to the tasks.  *)
LEMMA ControlTurnEnds ==
  ASSUME MoveOn, NEW name, At("control", name)
  PROVE  /\ phase = "control" /\ step \in 1..6
         /\ \/ step < 6 /\ phase' = "control" /\ step' = step + 1
            \/ step = 6 /\ phase' = "actuate" /\ step' = 1
  <1>1. phase = "control" /\ Len(Turns) = 6 /\ step \in 1..6
    BY ControlPlace
  <1> QED
    BY <1>1 DEF MoveOn

----------------------------------------------------------------------------
(* The queue of the ground's commands, through the loop: empty, but for one *)
(* command from the end of the read phase to the telemetry control's turn;  *)
(* and the link, which is up from the first read on.                        *)
QueueOK ==
  "telemetry" \in Controls =>
    /\ \A c, d \in ingest : c = d
    /\ ingest # {} => phase = "control" /\ step <= 3
    /\ phase \notin {"blink", "read"} => linkUp

(* The read of the telemetry task finds the queue empty, and the telemetry  *)
(* control empties it.                                                      *)
LEMMA QueueStep ==
  ASSUME TelemetryLast
  PROVE  PhaseOK /\ QueueOK /\ [Next]_vars => QueueOK'
  <1> SUFFICES ASSUME PhaseOK, QueueOK, [Next]_vars, "telemetry" \in Controls
               PROVE  QueueOK'
    BY DEF QueueOK
  <1>1. CASE TelemetryRead
    <2>1. phase = "read" /\ phase' = "control" /\ step' = 1
      BY <1>1, TelemetryTurnEnds DEF TelemetryRead
    <2>2. ingest = {}
      BY <2>1 DEF QueueOK
    <2>3. linkUp' /\ \A c, d \in ingest' : c = d
      BY <1>1, <2>2 DEF TelemetryRead, TT!Read
    <2> QED
      BY <2>1, <2>3 DEF QueueOK
  <1>2. CASE TelemetryIngest
    <2>1. phase = "control" /\ step = 3 /\ UNCHANGED <<phase, step>>
      BY <1>2, ControlPlace DEF TelemetryIngest, Turn, loopVars
    <2>2. ingest' \subseteq ingest /\ linkUp' = linkUp
      BY <1>2 DEF TelemetryIngest, TC!Ingest
    <2> QED
      BY <2>1, <2>2 DEF QueueOK
  <1>3. CASE TelemetryDrained
    <2>1. phase = "control"
      BY <1>3, ControlPlace DEF TelemetryDrained, Turn
    <2>2. ingest = {} /\ ingest' = ingest /\ linkUp' = linkUp /\ linkUp
      BY <1>3, <2>1 DEF TelemetryDrained, TC!Drained, QueueOK
    <2> QED
      BY <2>2 DEF QueueOK
  <1>4. CASE TelemetryActuate
    <2>1. phase = "actuate" /\ phase' = "blink"
      BY <1>4, TelemetryTurnEnds DEF TelemetryActuate
    <2>2. UNCHANGED <<ingest, linkUp>>
      BY <1>4 DEF TelemetryActuate, TT!Actuate
    <2> QED
      BY <2>1, <2>2 DEF QueueOK
  <1>5. CASE SensorRead \/ ValveActuate
    <2>1. phase' = phase /\ phase # "control"
      BY <1>5, OtherTurnStays DEF SensorRead, ValveActuate
    <2>2. UNCHANGED <<ingest, linkUp>>
      BY <1>5 DEF SensorRead, ValveActuate, linkVars
    <2> QED
      BY <2>1, <2>2 DEF QueueOK
  <1>6. CASE Idle
    <2>1. UNCHANGED <<ingest, linkUp>> /\ MoveOn
      BY <1>6 DEF Idle, linkVars
    <2>2. CASE At("read", "valve") \/ At("actuate", "sensor")
      <3>1. phase' = phase /\ phase # "control"
        BY <2>1, <2>2, OtherTurnStays
      <3> QED
        BY <2>1, <3>1 DEF QueueOK
    <2>3. ASSUME NEW c \in {ControlOrder[i] : i \in 1..6} \ Controls,
                 At("control", c)
          PROVE  QueueOK'
      <3>1. c # "telemetry"
        OBVIOUS
      <3>2. step # 3
        BY <2>3, <3>1, ControlPlace DEF At, ControlOrder
      <3> QED
        BY <2>1, <2>3, <3>2, ControlTurnEnds DEF QueueOK
    <2> QED
      BY <1>6, <2>2, <2>3 DEF Idle
  <1>7. CASE \/ SensorExecute \/ AbortExecute \/ ValveExecute \/ StageExecute
             \/ PressureExecute
    <2>1. UNCHANGED <<ingest, linkUp>> /\ MoveOn
      BY <1>7 DEF SensorExecute, AbortExecute, ValveExecute, StageExecute,
                  PressureExecute, linkVars
    <2>2. PICK c \in {"sensor", "abort", "valve", "stage", "pressure"} :
            At("control", c)
      BY <1>7 DEF SensorExecute, AbortExecute, ValveExecute, StageExecute,
                  PressureExecute, Turn
    <2>3. step # 3
      BY <2>2, ControlPlace DEF At, ControlOrder
    <2> QED
      BY <2>1, <2>2, <2>3, ControlTurnEnds DEF QueueOK
  <1>8. CASE Tick \/ UNCHANGED vars
    BY <1>8 DEF Tick, vars, loopVars, linkVars, QueueOK
  <1>9. CASE Blink \/ NoBlink
    BY <1>9, BlinkTurn DEF blinkKeeps, linkVars, QueueOK
  <1> QED
    BY <1>1, <1>2, <1>3, <1>4, <1>5, <1>6, <1>7, <1>8, <1>9
      DEF Next, LoopStep

(* Nothing is queued, and nothing written, before the first read.           *)
LEMMA QueueInit == Init => QueueOK
  BY DEF Init, TT!InitTelemetry, QueueOK

(* With the telemetry task last, no loop has two commands in the queue, and *)
(* none leaves one to the next: the order in which the priority queue gives *)
(* them never matters.                                                      *)
THEOREM OneCommand ==
  ASSUME TelemetryLast
  PROVE  Spec => []OneCommandPerLoop
  <1>1. Init => PhaseOK /\ QueueOK
    BY QueueInit DEF Init, PhaseOK
  <1>2. PhaseOK /\ QueueOK /\ [Next]_vars => (PhaseOK /\ QueueOK)'
    BY PhaseStep, QueueStep
  <1>3. PhaseOK /\ QueueOK => OneCommandPerLoop
    BY DEF QueueOK, OneCommandPerLoop
  <1> QED
    BY <1>1, <1>2, <1>3, PTL DEF Spec
----------------------------------------------------------------------------
(* The packets that refuse a command of the ground.                         *)
Refusal(packet) ==
  packet[1] \in {"SAC", "SDT", "VST"} /\ packet[Len(packet)] = "-0"

(* A refusal is in the queue only when the program has ended, so it is not  *)
(* sent.                                                                    *)
RefusalsWait ==
  /\ \A packet \in outbox : Refusal(packet) => crashed
  /\ \A packet \in sent : ~Refusal(packet)

(* Once the program has ended, nothing happens any more.                    *)
LEMMA CrashEnds == crashed /\ [Next]_vars => UNCHANGED vars
  BY DEF Next, LoopStep, Blink, NoBlink, SensorRead, TelemetryRead, Idle,
    SensorExecute, AbortExecute, TelemetryIngest, TelemetryDrained, ValveExecute,
    StageExecute, PressureExecute, ValveActuate, TelemetryActuate, Tick, Turn,
    At

(* A command that is refused ends the program.                              *)
LEMMA RefusingThrows ==
  ASSUME NEW c, TC!Ingest(c), NEW packet \in outbox' \ outbox,
         Refusal(packet)
  PROVE  crashed'
  <1>1. CASE TC!Heartbeat(c) \/ TC!SoftAbort(c) \/ TC!UndoSoftAbort(c)
    BY <1>1 DEF TC!Heartbeat, TC!SoftAbort, TC!UndoSoftAbort, TC!Send, Refusal
  <1>2. CASE TC!SolenoidActuate(c)
    BY <1>2 DEF TC!SolenoidActuate, TC!Send, Refusal
  <1>3. CASE TC!SolenoidRefused(c)
    BY <1>3 DEF TC!SolenoidRefused
  <1>4. CASE TC!DataRequest(c)
    <2>1. packet = <<IF c.header = "SRQ" THEN "SDT" ELSE "VST", c.loc,
                     IF TC!Exists(c) THEN "data" ELSE "-0">>
      BY <1>4 DEF TC!DataRequest, TC!Send
    <2>2. ~TC!Exists(c)
      BY <2>1 DEF Refusal
    <2> QED
      BY <1>4, <2>2 DEF TC!DataRequest
  <1>5. CASE TC!StageProgression(c) \/ TC!Info(c) \/ TC!UnknownHeader(c)
    BY <1>5 DEF TC!StageProgression, TC!Info, TC!UnknownHeader
  <1> QED
    BY <1>1, <1>2, <1>3, <1>4, <1>5 DEF TC!Ingest

(* No other turn queues a reply to one of these commands.                   *)
LEMMA OthersDoNotReply ==
  ASSUME \/ SensorExecute \/ AbortExecute \/ ValveExecute \/ StageExecute
         \/ ValveActuate,
         NEW packet \in outbox' \ outbox
  PROVE  packet[1] \notin {"SAC", "SDT", "VST"}
  <1>1. CASE SensorExecute
    BY <1>1 DEF SensorExecute, SE!Execute
  <1>2. CASE AbortExecute
    BY <1>2 DEF AbortExecute, AC!Execute
  <1>3. CASE ValveExecute
    BY <1>3 DEF ValveExecute, VC!Execute, VC!ValveReport
  <1>4. CASE StageExecute
    <2>1. packet[1] \in {"SGP", "SPQ", "SGD"}
      BY <1>4 DEF StageExecute, SC!Execute, SC!Advance, SC!Refuse,
                  SC!AskGround, SC!Wait, SC!Finish
    <2> QED
      BY <2>1
  <1>5. CASE ValveActuate
    BY <1>5 DEF ValveActuate, VT!Reports
  <1> QED
    BY <1>1, <1>2, <1>3, <1>4, <1>5

(* Every refusal is queued by a step that ends the program.                 *)
LEMMA RefusalsStep == RefusalsWait /\ [Next]_vars => RefusalsWait'
  <1> SUFFICES ASSUME RefusalsWait, [Next]_vars PROVE RefusalsWait'
    OBVIOUS
  <1>1. CASE crashed \/ UNCHANGED vars
    BY <1>1, CrashEnds DEF vars, linkVars, RefusalsWait
  <1>2. CASE ~crashed /\ Next
    <2>1. CASE TelemetryIngest
      BY <1>2, <2>1, RefusingThrows DEF TelemetryIngest, RefusalsWait
    <2>2. CASE \/ SensorExecute \/ AbortExecute \/ ValveExecute
               \/ StageExecute \/ ValveActuate
      <3>1. sent' = sent
        BY <2>2 DEF SensorExecute, AbortExecute, ValveExecute, StageExecute,
                    ValveActuate, linkVars
      <3> QED
        BY <1>2, <2>2, <3>1, OthersDoNotReply DEF RefusalsWait, Refusal
    <2>3. CASE TelemetryActuate
      BY <1>2, <2>3 DEF TelemetryActuate, TT!Actuate, RefusalsWait
    <2>4. CASE TelemetryRead
      BY <1>2, <2>4 DEF TelemetryRead, TT!Read, RefusalsWait
    <2>5. CASE TelemetryDrained
      BY <2>5 DEF TelemetryDrained, TC!Drained, TC!handled, RefusalsWait
    <2>6. CASE SensorRead \/ Idle \/ PressureExecute \/ Tick
      BY <2>6 DEF SensorRead, Idle, PressureExecute, Tick, linkVars,
                  RefusalsWait
    <2>7. CASE Blink \/ NoBlink
      BY <2>7, BlinkTurn DEF blinkKeeps, linkVars, RefusalsWait
    <2> QED
      BY <1>2, <2>1, <2>2, <2>3, <2>4, <2>5, <2>6, <2>7 DEF Next, LoopStep
  <1> QED
    BY <1>1, <1>2

(* For every configuration, the ground never receives a refusal of an SAC,  *)
(* SRQ or VRQ: the program ends in the step that queues it.                 *)
THEOREM RefusalsAreNotSent == Spec => []RefusalsUnsent
  <1>1. Init => RefusalsWait
    BY DEF Init, TT!InitTelemetry, RefusalsWait
  <1>2. RefusalsWait => RefusalsUnsent
    BY DEF RefusalsWait, RefusalsUnsent, Refusal
  <1> QED
    BY <1>1, <1>2, RefusalsStep, PTL DEF Spec
----------------------------------------------------------------------------
(* Past the abort control's turn, a critical sensor means a soft abort, or  *)
(* the reply to the undo that has taken it back.                            *)
AbortKnown ==
  /\ {"sensor", "abort"} \subseteq Controls
  /\ phase = "actuate" \/ (phase = "control" /\ step > 2)
  /\ \E s \in Sensors : grade[s] = "CRITICAL"
  => softAbort \/ <<"UAB">> \in outbox

(* A turn that grades nothing, takes back no abort and sends nothing does   *)
(* not bring the loop past the abort control's turn, unless it is that one. *)
LEMMA AbortKnownKept ==
  ASSUME PhaseOK, AbortKnown, MoveOn, NEW name, At("control", name),
         name # "abort" \/ "abort" \notin Controls,
         UNCHANGED <<grade, softAbort>>, outbox \subseteq outbox'
  PROVE  AbortKnown'
  <1>1. name = "abort" => "abort" \notin Controls
    OBVIOUS
  <1>2. phase = "control" /\ step \in 1..6 /\ ControlOrder[step] = name
    BY ControlPlace DEF At
  <1>3. step = 2 => name = "abort"
    BY <1>2 DEF ControlOrder
  <1>4. \/ step < 6 /\ phase' = "control" /\ step' = step + 1
        \/ step = 6 /\ phase' = "actuate" /\ step' = 1
    BY ControlTurnEnds
  <1> QED
    BY <1>1, <1>2, <1>3, <1>4 DEF AbortKnown

(* Only an undo of the ground takes an abort back, and its reply stays in   *)
(* the queue until the telemetry task, which comes last, ends the loop.     *)
LEMMA AbortKnownStep ==
  ASSUME TelemetryLast
  PROVE  PhaseOK /\ AbortKnown /\ [Next]_vars => AbortKnown'
  <1> SUFFICES ASSUME PhaseOK, AbortKnown, [Next]_vars PROVE AbortKnown'
    OBVIOUS
  <1>1. CASE SensorExecute
    <2>1. step = 1
      BY <1>1, ControlPlace DEF SensorExecute, Turn, At, ControlOrder
    <2>2. phase' = "control" /\ step' = 2
      BY <1>1, <2>1, ControlTurnEnds DEF SensorExecute, Turn
    <2> QED
      BY <2>2 DEF AbortKnown
  <1>2. CASE AbortExecute
    <2>1. grade' = grade
      BY <1>2 DEF AbortExecute, sensorVars
    <2>2. (\E s \in Sensors : grade[s] = "CRITICAL") => softAbort'
      BY <1>2 DEF AbortExecute, AC!Execute, AC!CriticalSensors
    <2> QED
      BY <2>1, <2>2 DEF AbortKnown
  <1>3. CASE TelemetryIngest
    <2>1. phase = "control" /\ step = 3 /\ UNCHANGED <<phase, step, grade>>
      BY <1>3, ControlPlace DEF TelemetryIngest, Turn, loopVars, sensorVars
    <2>2. PICK c \in ingest : TC!Ingest(c)
      BY <1>3 DEF TelemetryIngest
    <2>3. CASE TC!UndoSoftAbort(c)
      BY <2>3 DEF TC!UndoSoftAbort, TC!Send, AbortKnown
    <2>4. CASE ~TC!UndoSoftAbort(c)
      <3>1. (softAbort => softAbort') /\ outbox \subseteq outbox'
        BY <2>2, <2>4 DEF TC!Ingest, TC!Heartbeat, TC!SoftAbort,
          TC!SolenoidActuate, TC!SolenoidRefused, TC!DataRequest,
          TC!StageProgression, TC!Info, TC!UnknownHeader, TC!Send
      <3> QED
        BY <2>1, <3>1 DEF AbortKnown
    <2> QED
      BY <2>3, <2>4
  <1>4. CASE \/ TelemetryDrained \/ ValveExecute \/ StageExecute
             \/ PressureExecute
    <2>1. /\ MoveOn /\ UNCHANGED <<grade, softAbort>>
          /\ outbox \subseteq outbox'
      BY <1>4 DEF TelemetryDrained, TC!Drained, TC!handled, ValveExecute,
        VC!Execute, StageExecute, SC!Execute, SC!Advance, SC!Refuse,
        SC!AskGround, SC!Wait, SC!Finish, PressureExecute, sensorVars,
        abortVars
    <2>2. PICK name \in {"telemetry", "valve", "stage", "pressure"} :
            At("control", name)
      BY <1>4 DEF TelemetryDrained, ValveExecute, StageExecute,
        PressureExecute, Turn
    <2> QED
      BY <2>1, <2>2, AbortKnownKept
  <1>5. CASE Idle
    <2>1. MoveOn /\ UNCHANGED <<grade, softAbort, outbox>>
      BY <1>5 DEF Idle, sensorVars, abortVars
    <2>2. CASE At("read", "valve") \/ At("actuate", "sensor")
      <3>1. phase' = phase /\ phase # "control"
        BY <2>1, <2>2, OtherTurnStays
      <3> QED
        BY <2>1, <3>1 DEF AbortKnown
    <2>3. ASSUME NEW c \in {ControlOrder[i] : i \in 1..6} \ Controls,
                 At("control", c)
          PROVE  AbortKnown'
      <3>1. c # "abort" \/ "abort" \notin Controls
        OBVIOUS
      <3> QED
        BY <2>1, <2>3, <3>1, AbortKnownKept
    <2> QED
      BY <1>5, <2>2, <2>3 DEF Idle
  <1>6. CASE SensorRead \/ ValveActuate
    <2>1. phase' = phase /\ phase # "control"
      BY <1>6, OtherTurnStays DEF SensorRead, ValveActuate
    <2>2. UNCHANGED <<grade, softAbort>> /\ outbox \subseteq outbox'
      BY <1>6 DEF SensorRead, ValveActuate, sensorVars, abortVars
    <2> QED
      BY <2>1, <2>2 DEF AbortKnown
  <1>7. CASE TelemetryRead \/ TelemetryActuate
    <2>1. phase' = "blink" \/ (phase' = "control" /\ step' = 1)
      BY <1>7, TelemetryTurnEnds DEF TelemetryRead, TelemetryActuate
    <2> QED
      BY <2>1 DEF AbortKnown
  <1>8. CASE Tick \/ UNCHANGED vars
    BY <1>8 DEF Tick, vars, loopVars, sensorVars, abortVars, AbortKnown
  <1>9. CASE Blink \/ NoBlink
    BY <1>9, BlinkTurn DEF AbortKnown
  <1> QED
    BY <1>1, <1>2, <1>3, <1>4, <1>5, <1>6, <1>7, <1>8, <1>9
      DEF Next, LoopStep

(* Whatever the sensors show and the ground sends, no loop goes on to       *)
(* actuate with a critical sensor and without an abort, unless the reply to *)
(* the ground's undo goes out in that very loop.                            *)
THEOREM CriticalSensorsAbort ==
  ASSUME TelemetryLast
  PROVE  Spec => []CriticalAborts
  <1>1. Init => PhaseOK /\ AbortKnown
    BY DEF Init, PhaseOK, AbortKnown
  <1>2. PhaseOK /\ AbortKnown /\ [Next]_vars => (PhaseOK /\ AbortKnown)'
    BY PhaseStep, AbortKnownStep
  <1>3. PhaseOK /\ AbortKnown => CriticalAborts
    BY DEF AbortKnown, CriticalAborts
  <1> QED
    BY <1>1, <1>2, <1>3, PTL DEF Spec
----------------------------------------------------------------------------
(* A valve task is configured, the stage control is not, and the location   *)
(* that PressureControl spells is none that the ground can name, and no     *)
(* valve's.                                                                 *)
CommandConfig ==
  /\ TelemetryLast
  /\ \E i \in 1..Len(Tasks) : Tasks[i] = "valve"
  /\ "stage" \notin Controls
  /\ PC!Relief \notin Valves \cup GroundLocations \cup Sensors

(* The reply that accepts a request.                                        *)
Accepts(l, t, p) == <<"SAC", l, t, p, "-1">>

NoneAccepted == \A l, t, p : Accepts(l, t, p) \notin outbox

(* What an accepted request has come to: it is in the flag of its valve     *)
(* until the valve task's turn, and with the driver after it.               *)
Underway(l, t, p) ==
  /\ l \in Valves
  /\ IF phase = "actuate" /\ ValvesServed
     THEN driver[l].actuation = t
     ELSE flagValves[l] = Ask(t, p)

(* The replies on their way, and those just sent. The telemetry control     *)
(* finds no reply of an earlier command in the queue.                       *)
RepliesOK ==
  /\ reset = FALSE
  /\ regKeys \subseteq Valves \cup {PC!Relief}
  /\ sent # {} => phase \in {"blink", "read"}
  /\ \/ phase \in {"blink", "read"}
     \/ phase = "control" /\ step < 3
     \/ phase = "control" /\ step = 3 /\ ingest # {}
     => NoneAccepted
  /\ ~crashed =>
       \A l, t : \A p \in Digits \ {PRI_NONE} :
         Accepts(l, t, p) \in outbox => Underway(l, t, p)
  /\ \A l, t : \A p \in Digits \ {PRI_NONE} :
       Accepts(l, t, p) \in sent => l \in Valves /\ driver[l].actuation = t

(* What RepliesOK rests on.                                                 *)
LoopOK == PhaseOK /\ RequestsOK /\ Drained /\ QueueOK

(* A command that is accepted is written into the flag of a configured      *)
(* valve, and is the only one in the queue of replies.                      *)
LEMMA IngestReplies ==
  ASSUME CommandConfig, LoopOK, RepliesOK, TelemetryIngest
  PROVE  RepliesOK'
  <1>1. phase = "control" /\ step = 3 /\ UNCHANGED <<phase, step>> /\ ~crashed
    BY ControlPlace DEF TelemetryIngest, Turn, loopVars, At
  <1>2. PICK c \in ingest : TC!Ingest(c)
    BY DEF TelemetryIngest
  <1>3. "telemetry" \in Controls
    BY DEF TelemetryIngest, Turn
  <1>4. ingest' = {} /\ reset' = FALSE /\ sent' = sent /\ driver' = driver
    BY <1>2, <1>3 DEF TC!Ingest, LoopOK, QueueOK, TelemetryIngest
  <1>5. NoneAccepted /\ sent = {}
    BY <1>1 DEF RepliesOK
  <1>6. regKeys' = regKeys
    BY <1>2 DEF TC!Ingest, TC!Heartbeat, TC!SoftAbort, TC!UndoSoftAbort,
      TC!SolenoidActuate, TC!SolenoidRefused, TC!DataRequest,
      TC!StageProgression, TC!Info, TC!UnknownHeader
  <1>7. ASSUME ~crashed', NEW l, NEW t, NEW p \in Digits \ {PRI_NONE},
               Accepts(l, t, p) \in outbox'
        PROVE  Underway(l, t, p)'
    <2>1. CASE TC!SolenoidActuate(c)
      <3>1. Accepts(l, t, p) = <<"SAC", c.loc, c.type, c.priority, "-1">>
        BY <1>5, <1>7, <2>1 DEF TC!SolenoidActuate, TC!Send, NoneAccepted
      <3>2. l = c.loc /\ t = c.type /\ p = c.priority
        BY <3>1 DEF Accepts
      <3>3. c.loc \in Sensors \cup GroundLocations \cup {""}
        BY LoopAssumption DEF LoopOK, RequestsOK, TC!Commands
      <3>4. c.loc # PC!Relief
        BY <3>3 DEF CommandConfig, PC!Relief
      <3>5. c.loc \in Valves
        BY <2>1, <3>4 DEF TC!SolenoidActuate, TC!Acceptable, RepliesOK
      <3>6. flagValves'[c.loc] = Ask(c.type, c.priority)
        BY <2>1, <3>5, SharedNames, ValvesAreLocations
          DEF TC!SolenoidActuate, LoopOK, RequestsOK
      <3>7. phase' # "actuate"
        BY <1>1
      <3> QED
        BY <3>2, <3>5, <3>6, <3>7 DEF Underway
    <2>2. CASE ~TC!SolenoidActuate(c)
      <3>1. PICK packet : /\ outbox' \subseteq outbox \cup {packet}
                          /\ packet # Accepts(l, t, p)
        BY <1>2, <1>7, <2>2 DEF TC!Ingest, TC!Heartbeat, TC!SoftAbort,
          TC!UndoSoftAbort, TC!SolenoidRefused, TC!DataRequest,
          TC!StageProgression, TC!Info, TC!UnknownHeader, TC!Send, Accepts
      <3> QED
        BY <1>5, <1>7, <3>1 DEF NoneAccepted
    <2> QED
      BY <2>1, <2>2
  <1> QED
    BY <1>1, <1>4, <1>5, <1>6, <1>7 DEF RepliesOK

(* A control that accepts nothing, and leaves the flags of the configured   *)
(* valves alone, keeps the replies with their requests.                     *)
LEMMA ControlReplies ==
  ASSUME LoopOK, RepliesOK, MoveOn, NEW name, At("control", name),
         UNCHANGED <<reset, sent, ingest, driver>>,
         regKeys' \subseteq regKeys \cup {PC!Relief},
         \A v \in Valves : flagValves'[v] = flagValves[v],
         \A l, t, p : Accepts(l, t, p) \notin outbox' \ outbox
  PROVE  RepliesOK'
  <1>1. /\ phase = "control" /\ step \in 1..6 /\ ~crashed
        /\ \/ step < 6 /\ phase' = "control" /\ step' = step + 1
           \/ step = 6 /\ phase' = "actuate" /\ step' = 1
    BY ControlTurnEnds DEF At
  <1>2. sent = {}
    BY <1>1 DEF RepliesOK
  <1>3. ~(phase' = "actuate" /\ ValvesServed')
    BY <1>1 DEF ValvesServed
  <1>4. ASSUME NEW l, NEW t, NEW p \in Digits \ {PRI_NONE},
               Accepts(l, t, p) \in outbox'
        PROVE  Underway(l, t, p)'
    <2>1. Underway(l, t, p)
      BY <1>1, <1>4 DEF RepliesOK
    <2> QED
      BY <1>1, <1>3, <2>1 DEF Underway
  <1>5. \/ phase' \in {"blink", "read"}
        \/ phase' = "control" /\ step' < 3
        \/ phase' = "control" /\ step' = 3 /\ ingest' # {}
        => NoneAccepted'
    BY <1>1 DEF RepliesOK, NoneAccepted
  <1> QED
    BY <1>2, <1>4, <1>5 DEF RepliesOK

(* The turn of the valve task hands every accepted request to the driver.   *)
LEMMA ValveReplies ==
  ASSUME CommandConfig, LoopOK, RepliesOK, ValveActuate
  PROVE  RepliesOK'
  <1>1. /\ phase = "actuate" /\ ~crashed /\ phase' = "actuate"
        /\ step' = step + 1 /\ step \in 1..Len(Tasks)
        /\ Tasks[step] = "valve"
    BY TaskPlace, OtherTurnStays DEF ValveActuate, CommandConfig
  <1>2. UNCHANGED <<reset, sent, ingest, regKeys>> /\ sent = {}
    BY <1>1 DEF ValveActuate, linkVars, RepliesOK
  <1>3. ValvesServed'
    BY <1>1, TaskCount DEF ValvesServed
  <1>4. ASSUME ~crashed', NEW l, NEW t, NEW p \in Digits \ {PRI_NONE},
               Accepts(l, t, p) \in outbox'
        PROVE  l \in Valves /\ driver'[l].actuation = t
    <2>1. Accepts(l, t, p) \in outbox
      BY <1>4 DEF ValveActuate, VT!Reports, Accepts
    <2>2. Underway(l, t, p)
      BY <1>1, <2>1 DEF RepliesOK
    <2>3. l \in Valves /\ l \in VT!Valves
      BY <2>2 DEF Underway, Valves, VT!Valves
    <2>4. driver'[l] = IF l \in VT!Served THEN VT!Drive(l, flagValves[l].type)
                       ELSE driver[l]
      BY <2>3 DEF ValveActuate, VT!Actuate
    <2>5. CASE ValvesServed
      <3>1. flagValves[l].priority = PRI_NONE
        BY <1>1, <2>3, <2>5 DEF LoopOK, Drained
      <3>2. ~VT!Granted(l)
        BY <3>1 DEF VT!Granted, VT!PRI_NONE, PRI_NONE
      <3>3. l \notin VT!Served
        BY <3>2 DEF VT!Served
      <3> QED
        BY <1>1, <2>2, <2>3, <2>4, <2>5, <3>3 DEF Underway
    <2>6. CASE ~ValvesServed
      <3>1. flagValves[l] = Ask(t, p)
        BY <2>2, <2>6 DEF Underway
      <3>2. flagValves[l].type = t /\ flagValves[l].priority = p
        BY <3>1 DEF Ask
      <3>3. flagValves'[l].priority = PRI_NONE
        BY <1>4, <2>3, ValveTurnDrains DEF LoopOK
      <3>4. flagValves'[l] # flagValves[l]
        BY <3>2, <3>3
      <3>5. l \in VT!Served
        BY <2>3, <3>4, ValvesAreLocations DEF ValveActuate, VT!Actuate
      <3> QED
        BY <2>3, <2>4, <3>2, <3>5 DEF VT!Drive
    <2> QED
      BY <2>5, <2>6
  <1> QED
    BY <1>1, <1>2, <1>3, <1>4 DEF RepliesOK, Underway
(* Every step keeps the replies with their requests.                        *)
LEMMA RepliesStep ==
  ASSUME CommandConfig
  PROVE  LoopOK /\ RepliesOK /\ [Next]_vars => RepliesOK'
  <1> SUFFICES ASSUME LoopOK, RepliesOK, [Next]_vars PROVE RepliesOK'
    OBVIOUS
  <1>1. CASE TelemetryIngest
    BY <1>1, IngestReplies
  <1>2. CASE ValveActuate
    BY <1>2, ValveReplies
  <1>3. CASE \/ SensorExecute \/ AbortExecute \/ TelemetryDrained
             \/ ValveExecute \/ PressureExecute
    <2>1. PICK name : At("control", name)
      BY <1>3 DEF SensorExecute, AbortExecute, TelemetryDrained,
                  ValveExecute, PressureExecute, Turn
    <2>2. /\ MoveOn
          /\ UNCHANGED <<reset, sent, ingest, driver>>
          /\ regKeys' \subseteq regKeys \cup {PC!Relief}
      <3>1. CASE TelemetryDrained
        <4>1. linkUp
          BY <3>1, ControlPlace
            DEF TelemetryDrained, Turn, LoopOK, QueueOK
        <4> QED
          BY <3>1, <4>1 DEF TelemetryDrained, TC!Drained, TC!handled,
                            RepliesOK
      <3>2. CASE PressureExecute
        BY <3>2 DEF PressureExecute, PC!Execute, linkVars
      <3>3. CASE SensorExecute \/ AbortExecute \/ ValveExecute
        BY <3>3 DEF SensorExecute, AbortExecute, ValveExecute, linkVars,
                    valveVars
      <3> QED
        BY <1>3, <3>1, <3>2, <3>3
    <2>3. \A v \in Valves : flagValves'[v] = flagValves[v]
      BY <1>3, ValvesAreLocations
        DEF SensorExecute, AbortExecute, TelemetryDrained, TC!Drained,
            TC!handled, ValveExecute, VC!Execute, VC!CheckAbort,
            VC!AbortRequests, VC!UndoRequests, VC!ControlledValves,
            PressureExecute, valveVars
    <2>4. \A l, t, p : Accepts(l, t, p) \notin outbox' \ outbox
      BY <1>3, OthersDoNotReply
        DEF TelemetryDrained, TC!Drained, TC!handled, PressureExecute,
            Accepts
    <2> QED
      BY <2>1, <2>2, <2>3, <2>4, ControlReplies DEF LoopOK
  <1>4. CASE StageExecute
    BY <1>4 DEF StageExecute, Turn, CommandConfig
  <1>5. CASE Idle
    <2>1. MoveOn /\ UNCHANGED <<linkVars, outbox, valveVars, crashed>>
      BY <1>5 DEF Idle
    <2>2. CASE At("read", "valve")
      <3>1. phase = "read" /\ phase' = "read"
        BY <2>1, <2>2, OtherTurnStays DEF CommandConfig
      <3> QED
        BY <2>1, <3>1 DEF RepliesOK, NoneAccepted, Underway, linkVars,
                          valveVars
    <2>3. CASE At("actuate", "sensor")
      <3>1. phase = "actuate" /\ phase' = "actuate" /\ step' = step + 1
        BY <2>1, <2>3, OtherTurnStays DEF CommandConfig
      <3>2. step \in 1..Len(Tasks) /\ Tasks[step] = "sensor"
        BY <2>3, TaskPlace
      <3>3. ValvesServed' <=> ValvesServed
        BY <3>1, <3>2, TaskCount DEF ValvesServed
      <3> QED
        BY <2>1, <3>1, <3>3 DEF RepliesOK, NoneAccepted, Underway, linkVars,
                                valveVars
    <2>4. ASSUME NEW c, At("control", c) PROVE RepliesOK'
      BY <2>1, <2>4, ControlReplies DEF linkVars, valveVars, LoopOK
    <2> QED
      BY <1>5, <2>2, <2>3, <2>4 DEF Idle
  <1>6. CASE SensorRead
    <2>1. phase = "read" /\ phase' = "read"
      BY <1>6, OtherTurnStays DEF SensorRead, CommandConfig
    <2> QED
      BY <1>6, <2>1 DEF SensorRead, RepliesOK, NoneAccepted, Underway,
                        linkVars, valveVars
  <1>7. CASE TelemetryRead
    <2>1. phase = "read" /\ phase' = "control" /\ step' = 1
      BY <1>7, TelemetryTurnEnds DEF TelemetryRead, CommandConfig
    <2> QED
      BY <1>7, <2>1 DEF TelemetryRead, TT!Read, RepliesOK, NoneAccepted,
                        Underway, valveVars
  <1>8. CASE TelemetryActuate
    <2>1. phase = "actuate" /\ phase' = "blink" /\ ~crashed
      BY <1>8, TelemetryTurnEnds DEF TelemetryActuate, At, CommandConfig
    <2>2. step \in 1..Len(Tasks) /\ Tasks[step] = "telemetry"
      BY <1>8, TaskPlace DEF TelemetryActuate
    <2>3. ValvesServed
      BY <2>2, TaskCount DEF CommandConfig, TelemetryLast, ValvesServed
    <2>4. outbox' = {} /\ sent' = outbox
      BY <1>8 DEF TelemetryActuate, TT!Actuate, RepliesOK
    <2>5. UNCHANGED <<reset, regKeys, driver>>
      BY <1>8 DEF TelemetryActuate, TT!Actuate, valveVars
    <2> QED
      BY <2>1, <2>3, <2>4, <2>5 DEF RepliesOK, NoneAccepted, Underway
  <1>9. CASE Tick \/ UNCHANGED vars
    BY <1>9 DEF Tick, vars, loopVars, linkVars, valveVars, RepliesOK,
                NoneAccepted, Underway, ValvesServed
  <1>10. CASE Blink \/ NoBlink
    <2>1. UNCHANGED <<reset, regKeys, sent, outbox, flagValves, crashed>>
      BY <1>10, BlinkTurn DEF blinkKeeps, linkVars
    <2> QED
      BY <1>10, <2>1, BlinkTurn DEF RepliesOK, NoneAccepted, Underway
  <1> QED
    BY <1>1, <1>2, <1>3, <1>4, <1>5, <1>6, <1>7, <1>8, <1>9, <1>10
      DEF Next, LoopStep

(* The initial states.                                                      *)
LEMMA RepliesInit == Init => LoopOK /\ RepliesOK
  <1> SUFFICES ASSUME Init PROVE LoopOK /\ RepliesOK
    OBVIOUS
  <1>1. PhaseOK
    BY DEF Init, PhaseOK
  <1>2. RequestsOK /\ Drained
    BY RequestsInit
  <1>3. QueueOK
    BY QueueInit
  <1>4. RepliesOK
    BY DEF Init, TT!InitTelemetry, RepliesOK, NoneAccepted
  <1> QED
    BY <1>1, <1>2, <1>3, <1>4 DEF LoopOK

(* Without the stage control, every accepting reply that goes out to the    *)
(* ground is true: the driver has made the actuation its own before the     *)
(* reply is sent, whatever commands came before and whatever the other      *)
(* controls do.                                                             *)
THEOREM AcksAreTrue ==
  ASSUME CommandConfig
  PROVE  Spec => []AckMeansActuated
  <1>1. LoopOK /\ RepliesOK /\ [Next]_vars => (LoopOK /\ RepliesOK)'
    BY PhaseStep, RequestsStep, DrainedStep, QueueStep, RepliesStep
      DEF LoopOK, CommandConfig
  <1>2. LoopOK /\ RepliesOK => AckMeansActuated
    BY DEF RepliesOK, Accepts, AckMeansActuated
  <1> QED
    BY <1>1, <1>2, RepliesInit, PTL DEF Spec

----------------------------------------------------------------------------
(* A request that is pending for a valve has its reply in the queue.        *)
Answered ==
  ~crashed =>
    \A v \in Valves : flagValves[v].priority # PRI_NONE =>
      Accepts(v, flagValves[v].type, flagValves[v].priority) \in outbox

(* Only a command writes a request, and queues its reply with it.           *)
LEMMA IngestAnswers ==
  ASSUME LoopOK, Answered, TelemetryIngest
  PROVE  Answered'
  <1> SUFFICES ASSUME ~crashed', NEW v \in Valves,
                      flagValves'[v].priority # PRI_NONE
               PROVE  Accepts(v, flagValves'[v].type, flagValves'[v].priority)
                        \in outbox'
    BY DEF Answered
  <1>1. PICK c \in ingest : TC!Ingest(c)
    BY DEF TelemetryIngest
  <1>2. ~crashed /\ v \in Locations
    BY ValvesAreLocations DEF TelemetryIngest, Turn, At
  <1>3. outbox \subseteq outbox'
    BY <1>1 DEF TC!Ingest, TC!Heartbeat, TC!SoftAbort, TC!UndoSoftAbort,
      TC!SolenoidActuate, TC!SolenoidRefused, TC!DataRequest,
      TC!StageProgression, TC!Info, TC!UnknownHeader, TC!Send
  <1>4. CASE flagValves'[v] = flagValves[v]
    BY <1>2, <1>3, <1>4 DEF Answered
  <1>5. CASE flagValves'[v] # flagValves[v]
    <2>1. TC!SolenoidActuate(c)
      BY <1>1, <1>5 DEF TC!Ingest, TC!Heartbeat, TC!SoftAbort,
        TC!UndoSoftAbort, TC!SolenoidRefused, TC!DataRequest,
        TC!StageProgression, TC!Info, TC!UnknownHeader
    <2>2. v = c.loc /\ flagValves'[v] = Ask(c.type, c.priority)
      BY <1>2, <1>5, <2>1, SharedNames
        DEF TC!SolenoidActuate, LoopOK, RequestsOK
    <2>3. Accepts(v, c.type, c.priority) \in outbox'
      BY <2>1, <2>2 DEF TC!SolenoidActuate, TC!Send, Accepts
    <2>4. /\ flagValves'[v].type = c.type
          /\ flagValves'[v].priority = c.priority
      BY <2>2 DEF Ask
    <2> QED
      BY <2>3, <2>4
  <1> QED
    BY <1>4, <1>5

(* No other step writes a request, and replies leave the queue only when    *)
(* every request has been served.                                           *)
LEMMA AnsweredStep ==
  ASSUME CommandConfig
  PROVE  LoopOK /\ Answered /\ [Next]_vars => Answered'
  <1> SUFFICES ASSUME LoopOK, Answered, [Next]_vars PROVE Answered'
    OBVIOUS
  <1>1. ASSUME crashed => crashed', outbox \subseteq outbox',
               \A v \in Valves : flagValves'[v] = flagValves[v]
        PROVE  Answered'
    BY <1>1 DEF Answered
  <1>2. CASE TelemetryIngest
    BY <1>2, IngestAnswers
  <1>3. CASE ValveActuate
    <2>1. ~crashed /\ outbox \subseteq outbox'
      BY <1>3 DEF ValveActuate, At
    <2>2. ASSUME ~crashed', NEW v \in Valves
          PROVE  flagValves'[v].priority = PRI_NONE
      BY <1>3, <2>2, ValveTurnDrains DEF LoopOK
    <2> QED
      BY <2>2 DEF Answered
  <1>4. CASE TelemetryActuate
    <2>1. phase = "actuate" /\ ~crashed
      BY <1>4 DEF TelemetryActuate, At
    <2>2. step \in 1..Len(Tasks) /\ Tasks[step] = "telemetry"
      BY <1>4, TaskPlace DEF TelemetryActuate
    <2>3. ValvesServed
      BY <2>2, TaskCount DEF CommandConfig, TelemetryLast, ValvesServed
    <2>4. \A v \in Valves : flagValves[v].priority = PRI_NONE
      BY <2>1, <2>3 DEF LoopOK, Drained
    <2>5. flagValves' = flagValves
      BY <1>4 DEF TelemetryActuate, valveVars
    <2> QED
      BY <2>4, <2>5 DEF Answered
  <1>5. CASE StageExecute
    BY <1>5 DEF StageExecute, Turn, CommandConfig
  <1>6. CASE \/ SensorExecute \/ AbortExecute \/ TelemetryDrained
             \/ ValveExecute \/ PressureExecute
    <2>1. \A v \in Valves : flagValves'[v] = flagValves[v]
      BY <1>6, ValvesAreLocations
        DEF SensorExecute, AbortExecute, TelemetryDrained, TC!Drained,
            TC!handled, ValveExecute, VC!Execute, VC!CheckAbort,
            VC!AbortRequests, VC!UndoRequests, VC!ControlledValves,
            PressureExecute, valveVars
    <2>2. ~crashed /\ outbox \subseteq outbox'
      BY <1>6 DEF SensorExecute, SE!Execute, AbortExecute, AC!Execute,
        TelemetryDrained, TC!Drained, TC!handled, ValveExecute, VC!Execute,
        PressureExecute, Turn, At
    <2> QED
      BY <1>1, <2>1, <2>2
  <1>7. CASE SensorRead \/ TelemetryRead \/ Idle \/ Tick \/ UNCHANGED vars
    <2>1. UNCHANGED <<outbox, flagValves, crashed>>
      BY <1>7 DEF SensorRead, TelemetryRead, TT!Read, Idle, Tick, vars,
                  valveVars
    <2> QED
      BY <1>1, <2>1
  <1>8. CASE Blink \/ NoBlink
    <2>1. UNCHANGED <<outbox, flagValves, crashed>>
      BY <1>8, BlinkTurn DEF blinkKeeps
    <2> QED
      BY <1>1, <2>1
  <1> QED
    BY <1>2, <1>3, <1>4, <1>5, <1>6, <1>7, <1>8 DEF Next, LoopStep

(* Only the valve task moves a valve that the LED does not, and only at a   *)
(* request.                                                                 *)
LEMMA MovesAreRequested ==
  ASSUME LoopOK, Answered, [Next]_vars, NEW v \in Valves,
         \/ driver'[v].state # driver[v].state
         \/ v \notin LedValves /\ driver'[v].signal # driver[v].signal
  PROVE  \E p \in Digits \ {PRI_NONE} :
           Accepts(v, driver'[v].actuation, p) \in outbox
  <1>1. driver' # driver /\ ~Blink /\ ~NoBlink
    BY BlinkTurn
  <1>2. ValveActuate
    BY <1>1 DEF Next, LoopStep, Blink, NoBlink, SensorRead, TelemetryRead, Idle,
      SensorExecute, AbortExecute, TelemetryIngest, TelemetryDrained,
      ValveExecute, StageExecute, PressureExecute, TelemetryActuate, Tick,
      vars, valveVars
  <1>3. ~crashed
    BY <1>2 DEF ValveActuate, At
  <1>4. v \in VT!Valves /\ v \in Locations
    BY ValvesAreLocations DEF Valves, VT!Valves
  <1>5. driver'[v] = IF v \in VT!Served THEN VT!Drive(v, flagValves[v].type)
                     ELSE driver[v]
    BY <1>2, <1>4 DEF ValveActuate, VT!Actuate
  <1>6. v \in VT!Served
    BY <1>5
  <1>7. driver'[v].actuation = flagValves[v].type
    BY <1>5, <1>6 DEF VT!Drive
  <1>8. flagValves[v].priority # PRI_NONE
    BY <1>6 DEF VT!Served, VT!Granted, VT!PRI_NONE, PRI_NONE
  <1>9. flagValves[v].priority \in Digits
    BY <1>4 DEF LoopOK, RequestsOK, FlagValveInfo
  <1> QED
    BY <1>3, <1>7, <1>8, <1>9 DEF Answered

(* Without the stage control no valve ever moves without a reply of this    *)
(* very loop to the request that moves it: neither an abort nor any other   *)
(* control moves one (ValveControl.cpp:52).                                 *)
THEOREM MovesHaveReplies ==
  ASSUME CommandConfig
  PROVE  Spec => MovesAreAnswered
  <1> DEFINE Told(v) ==
        \/ driver'[v].state # driver[v].state
        \/ v \notin LedValves /\ driver'[v].signal # driver[v].signal
        =>
          \E p \in Digits \ {PRI_NONE} :
            <<"SAC", v, driver'[v].actuation, p, "-1">> \in outbox
  <1>1. Init => Answered
    BY ValvesAreLocations DEF Init, Answered, VT!Init, VT!NoRequest,
      VT!PRI_NONE, PRI_NONE
  <1>2. LoopOK /\ Answered /\ [Next]_vars => (LoopOK /\ Answered)'
    BY PhaseStep, RequestsStep, DrainedStep, QueueStep, AnsweredStep
      DEF LoopOK, CommandConfig
  <1>3. LoopOK /\ Answered /\ [Next]_vars => [\A v \in Valves : Told(v)]_vars
    BY MovesAreRequested DEF Accepts
  <1> QED
    BY <1>1, <1>2, <1>3, RepliesInit, PTL DEF Spec, MovesAreAnswered
============================================================================
