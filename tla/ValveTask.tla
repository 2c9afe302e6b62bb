----------------------------- MODULE ValveTask -----------------------------
(***************************************************************************)
(* tasks/ValveTask and drivers/ValveDriver: the task that turns the valve  *)
(* requests left in global_flag into levels on the solenoid pins, and      *)
(* records the outcome in global_registry.                                 *)
(*                                                                         *)
(* A valve is identified by its location: every configuration with a valve *)
(* task gives its solenoids distinct pins, so a pin is a location.         *)
(* The other writers of the shared maps (TelemetryControl, StageControl,   *)
(* PressureControl) are the environment here; FlightLoop replaces them by  *)
(* the real control tasks.                                                 *)
(***************************************************************************)
EXTENDS FlightTypes

CONSTANTS
  Locations,      \* every solenoid location some code names
  ValveList,      \* valve_list: the configured solenoids, in map order
  NormallyClosed, \* the locations configured with "natural": "CLOSED"
  TypeCodes,      \* the actuation type codes the requests may carry
  PriorityCodes   \* the priority codes the requests may carry

Valves == {ValveList[i] : i \in 1..Len(ValveList)}

ASSUME ValveAssumption ==
  /\ ValveList \in Seq(Locations)
  /\ \A i, j \in 1..Len(ValveList) : ValveList[i] = ValveList[j] => i = j
  /\ NormallyClosed \subseteq Locations
  /\ TypeCodes \subseteq Digits
  /\ PriorityCodes \subseteq Digits

VARIABLES
  flagValves,  \* global_flag.valves["solenoid"]
  regValves,   \* global_registry.valves["solenoid"]
  driver,      \* ValveDriver: valve_states, valve_actuations, pin level
  crashed      \* an exception has reached main and ended the program

vars == <<flagValves, regValves, driver, crashed>>

----------------------------------------------------------------------------
DriverInfo == [state : SolenoidStates, actuation : ActuationTypes,
               signal : {"LOW", "HIGH"}]

TypeOK ==
  /\ flagValves \in [Locations -> FlagValveInfo]
  /\ regValves \in [Locations -> RegistryValveInfo]
  /\ driver \in [Valves -> DriverInfo]
  /\ crashed \in BOOLEAN

(* Registry::initialize and the ValveDriver constructor, which drives every *)
(* pin LOW whatever the natural position of its valve.                      *)
InitRegValves == [l \in Locations |-> NewValveEntry]

InitDriver ==
  [v \in Valves |->
    [state     |-> IF v \in NormallyClosed THEN "CLOSED" ELSE "OPEN",
     actuation |-> ACT_NONE,
     signal    |-> "LOW"]]

Init ==
  /\ flagValves = [l \in Locations |-> NoRequest]
  /\ regValves = InitRegValves
  /\ driver = InitDriver
  /\ crashed = FALSE

----------------------------------------------------------------------------
(* ValveDriver::actuate *)
Drive(v, type) ==
  [state     |-> CASE type \in {OPEN_VENT, PULSE} -> "OPEN"
                   [] type = CLOSE_VENT -> "CLOSED"
                   [] OTHER -> driver[v].state,
   actuation |-> type,
   signal    |-> CASE type \in {OPEN_VENT, PULSE} ->
                        IF v \in NormallyClosed THEN "HIGH" ELSE "LOW"
                   [] type = CLOSE_VENT ->
                        IF v \in NormallyClosed THEN "LOW" ELSE "HIGH"
                   [] OTHER -> driver[v].signal]

(* Slip: the two sides of the comparison are swapped.                       *)
GrantedSwapped(v) ==
  /\ flagValves[v].priority # PRI_NONE
  /\ regValves[v].priority >= flagValves[v].priority

(* Slip: NONE is not told apart from the other priorities.                  *)
GrantedAtNone(v) == flagValves[v].priority >= regValves[v].priority

(* The test of a pending request against the priority of the current one.   *)
(* The comment above ValveTask::actuate asks for a greater priority; the    *)
(* code is content with an equal one. There is no else: a request denied    *)
(* stays in its flag.                                                       *)
Granted(v) ==
  /\ flagValves[v].priority # PRI_NONE
  /\ flagValves[v].priority >= regValves[v].priority

(* Slip: the lookups do not throw on an unknown code.                       *)
ThrowsNever(v) == FALSE

(* actuation_type_inverse_map.at and valve_priority_inverse_map.at throw on *)
(* a code outside the enumeration, before the driver is called.             *)
Throws(v) ==
  /\ Granted(v)
  /\ \/ flagValves[v].type \notin ActuationTypes
     \/ flagValves[v].priority \notin ValvePriorities

(* The valves the loop serves: those granted, up to the first that throws. *)
Served ==
  {ValveList[i] : i \in {n \in 1..Len(ValveList) :
     /\ Granted(ValveList[n])
     /\ \A m \in 1..n : ~Throws(ValveList[m])}}

(* Slip: any request but CLOSE_VENT is recorded as an opening.              *)
RecordedUnlessClosing(v) ==
  IF flagValves[v].type = CLOSE_VENT THEN "CLOSED" ELSE "OPEN"

(* Slip: an opening is not recorded.                                        *)
RecordedClosings(v) ==
  IF flagValves[v].type = CLOSE_VENT THEN "CLOSED" ELSE regValves[v].state

(* The registry follows OPEN_VENT and CLOSE_VENT only, and its              *)
(* actuation_type and actuation_priority are left as they are.              *)
Recorded(v) ==
  CASE flagValves[v].type = CLOSE_VENT -> "CLOSED"
    [] flagValves[v].type = OPEN_VENT -> "OPEN"
    [] OTHER -> regValves[v].state

(* The "SAC at" packets that report the valves served. *)
Reports == {<<"INF", v, flagValves[v].type>> : v \in Served}

(* Slip: the flags of all configured valves are reset, also of those the    *)
(* loop never reached.                                                      *)
ActuateClearingAll ==
  /\ ~crashed
  /\ driver' = [v \in Valves |->
       IF v \in Served THEN Drive(v, flagValves[v].type) ELSE driver[v]]
  /\ regValves' = [l \in Locations |->
       IF l \in Served THEN [regValves[l] EXCEPT !.state = Recorded(l)]
                       ELSE regValves[l]]
  /\ flagValves' = [l \in Locations |->
       IF l \in Valves THEN NoRequest ELSE flagValves[l]]
  /\ crashed' = (\E v \in Valves : Throws(v))

(* Slip: the flags are not reset.                                           *)
ActuateKeepingRequests ==
  /\ ~crashed
  /\ driver' = [v \in Valves |->
       IF v \in Served THEN Drive(v, flagValves[v].type) ELSE driver[v]]
  /\ regValves' = [l \in Locations |->
       IF l \in Served THEN [regValves[l] EXCEPT !.state = Recorded(l)]
                       ELSE regValves[l]]
  /\ crashed' = (\E v \in Valves : Throws(v))
  /\ UNCHANGED flagValves

(* ValveTask::actuate, the whole loop over valve_list. The packets it queues *)
(* are Reports, for the module that models the queue.                        *)
Actuate ==
  /\ ~crashed
  /\ driver' = [v \in Valves |->
       IF v \in Served THEN Drive(v, flagValves[v].type) ELSE driver[v]]
  /\ regValves' = [l \in Locations |->
       IF l \in Served THEN [regValves[l] EXCEPT !.state = Recorded(l)]
                       ELSE regValves[l]]
  /\ flagValves' = [l \in Locations |->
       IF l \in Served THEN NoRequest ELSE flagValves[l]]
  /\ crashed' = (\E v \in Valves : Throws(v))

----------------------------------------------------------------------------
(* The environment. *)

(* A control task writes a request for any location, configured or not. *)
Request(l, type, priority) ==
  /\ ~crashed
  /\ flagValves' = [flagValves EXCEPT ![l] = Ask(type, priority)]
  /\ UNCHANGED <<regValves, driver, crashed>>

(* PressureControl::check_pressure raises the current priority of a valve. *)
RaisePriority(l) ==
  /\ ~crashed
  /\ regValves' = [regValves EXCEPT ![l].type = OPEN_VENT,
                                    ![l].priority = PI_PRIORITY]
  /\ UNCHANGED <<flagValves, driver, crashed>>

Next ==
  \/ Actuate
  \/ \E l \in Locations, type \in TypeCodes, priority \in PriorityCodes :
       Request(l, type, priority)
  \/ \E l \in Locations : RaisePriority(l)

Spec == Init /\ [][Next]_vars

----------------------------------------------------------------------------
(* An OPEN in the registry can be trusted: whatever the requests, their     *)
(* order and the valves that threw, ValveTask never records a configured    *)
(* valve OPEN (which is what VAL packets report) while its driver holds it  *)
(* CLOSED.                                                                  *)
OpenReportTrusted ==
  \A v \in Valves : regValves[v].state = "OPEN" => driver[v].state = "OPEN"

(* A CLOSED in the registry can not (ValveTask::read, which should read the *)
(* states of the driver, reads nothing), but it is wrong in two cases only: *)
(* the last actuation of the valve was a PULSE, which is never recorded and *)
(* never ends, or was NONE, which leaves a normally open or pulsed valve    *)
(* where it is.                                                             *)
ClosedReportExplained ==
  \A v \in Valves :
    regValves[v].state = "CLOSED" /\ driver[v].state = "OPEN"
      => driver[v].actuation \in {ACT_NONE, PULSE}

(* The level ValveDriver leaves on a pin always means the state it records: *)
(* HIGH exactly when the valve is away from its natural position, also for  *)
(* valves never actuated since the constructor drove every pin LOW.         *)
SignalMatchesState ==
  \A v \in Valves :
    (driver[v].signal = "HIGH") <=>
      (driver[v].state # IF v \in NormallyClosed THEN "CLOSED" ELSE "OPEN")

(* No request that is due to be served is lost: a request of a configured   *)
(* valve that passes the test against the current priority leaves the flag  *)
(* only by reaching the driver or by being overwritten with a new request;  *)
(* in particular an exception on one valve drops no request of another.     *)
(* Of a request that fails the test nothing is claimed: the comment of      *)
(* ValveTask::actuate has it reverted, the code leaves it pending.          *)
RequestNotLost ==
  [][\A v \in Valves :
       Granted(v) /\ flagValves'[v] = NoRequest
       => driver'[v].actuation = flagValves[v].type
          \/ \E type \in TypeCodes, priority \in PriorityCodes :
               Request(v, type, priority)]_vars
============================================================================
