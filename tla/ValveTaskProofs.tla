-------------------------- MODULE ValveTaskProofs --------------------------
(***************************************************************************)
(* What ValveTask keeps for every set of valves, every mix of natural      *)
(* positions and every request code, well-formed or not.                   *)
(***************************************************************************)
EXTENDS ValveTask, TLAPS

(* Every configured valve has its entries in the maps.                       *)
LEMMA ValvesAreLocations == Valves \subseteq Locations
  BY ValveAssumption DEF Valves

(* The driver's answer to any code is a driver state again. *)
LEMMA DriveType ==
  ASSUME NEW v \in Valves, driver \in [Valves -> DriverInfo],
         NEW type \in ActuationTypes
  PROVE  Drive(v, type) \in DriverInfo
  <1>1. driver[v] \in DriverInfo
    OBVIOUS
  <1>2. Drive(v, type).state \in SolenoidStates
    BY <1>1 DEF Drive, DriverInfo, SolenoidStates
  <1>3. Drive(v, type).signal \in {"LOW", "HIGH"}
    BY <1>1 DEF Drive, DriverInfo
  <1> QED
    BY <1>2, <1>3 DEF Drive, DriverInfo

(* Only requests with enumerated codes are served. *)
LEMMA ServedCodes ==
  ASSUME NEW v \in Served
  PROVE  /\ v \in Valves
         /\ flagValves[v].type \in ActuationTypes
         /\ flagValves[v].priority # PRI_NONE
  <1>1. PICK n \in 1..Len(ValveList) :
          /\ v = ValveList[n]
          /\ Granted(ValveList[n])
          /\ \A m \in 1..n : ~Throws(ValveList[m])
    BY DEF Served
  <1>2. Len(ValveList) \in Nat
    BY ValveAssumption
  <1>3. ~Throws(v)
    BY <1>1, <1>2
  <1> QED
    BY <1>1, <1>3 DEF Valves, Throws, Granted

(* Registry::initialize and the driver's constructor establish the types.   *)
LEMMA InitType == Init => TypeOK
  <1> SUFFICES ASSUME Init PROVE TypeOK
    OBVIOUS
  <1>1. NoRequest \in FlagValveInfo
    BY DEF NoRequest, FlagValveInfo, Digits, ACT_NONE, PRI_NONE
  <1>2. NewValveEntry \in RegistryValveInfo
    BY DEF NewValveEntry, RegistryValveInfo, SolenoidStates, ActuationTypes,
           ValvePriorities
  <1>3. InitDriver \in [Valves -> DriverInfo]
    BY DEF InitDriver, DriverInfo, SolenoidStates, ActuationTypes
  <1> QED
    BY <1>1, <1>2, <1>3 DEF Init, InitRegValves, TypeOK

(* The task, a request and a raised priority each keep the types.           *)
LEMMA NextType == TypeOK /\ [Next]_vars => TypeOK'
  <1> SUFFICES ASSUME TypeOK, [Next]_vars PROVE TypeOK'
    OBVIOUS
  <1>1. CASE Actuate
    <2>1. driver' \in [Valves -> DriverInfo]
      <3>1. \A v \in Valves : v \in Served =>
              Drive(v, flagValves[v].type) \in DriverInfo
        BY ServedCodes, DriveType DEF TypeOK
      <3> QED
        BY <1>1, <3>1 DEF Actuate, TypeOK
    <2>2. regValves' \in [Locations -> RegistryValveInfo]
      <3>1. \A l \in Locations :
              [regValves[l] EXCEPT !.state = Recorded(l)] \in RegistryValveInfo
        BY DEF TypeOK, RegistryValveInfo, Recorded, SolenoidStates
      <3> QED
        BY <1>1, <3>1 DEF Actuate, TypeOK
    <2>3. flagValves' \in [Locations -> FlagValveInfo]
      <3>1. NoRequest \in FlagValveInfo
        BY DEF NoRequest, FlagValveInfo, Digits, ACT_NONE, PRI_NONE
      <3> QED
        BY <1>1, <3>1 DEF Actuate, TypeOK
    <2>4. crashed' \in BOOLEAN
      BY <1>1 DEF Actuate
    <2> QED
      BY <2>1, <2>2, <2>3, <2>4 DEF TypeOK
  <1>2. ASSUME NEW l \in Locations, NEW type \in TypeCodes,
               NEW priority \in PriorityCodes, Request(l, type, priority)
        PROVE  TypeOK'
    <2>1. Ask(type, priority) \in FlagValveInfo
      BY ValveAssumption DEF Ask, FlagValveInfo
    <2> QED
      BY <1>2, <2>1 DEF Request, TypeOK
  <1>3. ASSUME NEW l \in Locations, RaisePriority(l)
        PROVE  TypeOK'
    <2>1. regValves' \in [Locations -> RegistryValveInfo]
      BY <1>3 DEF RaisePriority, TypeOK, RegistryValveInfo, ActuationTypes,
                  ValvePriorities
    <2> QED
      BY <1>3, <2>1 DEF RaisePriority, TypeOK
  <1>4. CASE UNCHANGED vars
    BY <1>4 DEF vars, TypeOK
  <1> QED
    BY <1>1, <1>2, <1>3, <1>4 DEF Next

(* The maps, the driver and the flags keep their types, also after requests *)
(* with codes that name nothing, and after the exception they end in.       *)
THEOREM TypeCorrect == Spec => []TypeOK
  BY InitType, NextType, PTL DEF Spec

----------------------------------------------------------------------------
(* Whatever a step does to a valve, an entry that shows it open afterwards  *)
(* belongs to an open driver: OPEN_VENT opens both, CLOSE_VENT closes both, *)
(* and no other actuation closes the driver.                                *)
LEMMA OpenReportStep ==
  TypeOK /\ OpenReportTrusted /\ [Next]_vars => OpenReportTrusted'
  <1> SUFFICES ASSUME TypeOK, OpenReportTrusted, [Next]_vars,
                      NEW v \in Valves, regValves'[v].state = "OPEN"
               PROVE  driver'[v].state = "OPEN"
    BY DEF OpenReportTrusted
  <1>1. v \in Locations
    BY ValvesAreLocations
  <1>2. regValves[v].state = "OPEN" => driver[v].state = "OPEN"
    BY DEF OpenReportTrusted
  <1>3. CASE Actuate
    <2>1. CASE v \in Served
      <3>1. driver'[v] = Drive(v, flagValves[v].type)
        BY <1>3, <2>1 DEF Actuate
      <3>2. regValves'[v].state = Recorded(v)
        BY <1>1, <1>3, <2>1 DEF Actuate, TypeOK, RegistryValveInfo
      <3>3. flagValves[v].type = OPEN_VENT \/
              (flagValves[v].type # CLOSE_VENT /\ regValves[v].state = "OPEN")
        BY <3>2 DEF Recorded, OPEN_VENT, CLOSE_VENT
      <3> QED
        BY <1>2, <3>1, <3>3 DEF Drive, OPEN_VENT, CLOSE_VENT, PULSE
    <2>2. CASE v \notin Served
      BY <1>1, <1>2, <1>3, <2>2 DEF Actuate
    <2> QED
      BY <2>1, <2>2
  <1>4. ASSUME NEW l \in Locations, NEW type \in TypeCodes,
               NEW priority \in PriorityCodes, Request(l, type, priority)
        PROVE  driver'[v].state = "OPEN"
    BY <1>2, <1>4 DEF Request
  <1>5. ASSUME NEW l \in Locations, RaisePriority(l)
        PROVE  driver'[v].state = "OPEN"
    <2>1. regValves'[v].state = regValves[v].state
      BY <1>1, <1>5 DEF RaisePriority, TypeOK, RegistryValveInfo
    <2> QED
      BY <1>2, <1>5, <2>1 DEF RaisePriority
  <1>6. CASE UNCHANGED vars
    BY <1>2, <1>6 DEF vars
  <1> QED
    BY <1>3, <1>4, <1>5, <1>6 DEF Next

(* The registry never shows a configured valve open that its driver holds   *)
(* closed, whatever the requests and wherever the loop threw.               *)
THEOREM OpenReportsAreTrue == Spec => []OpenReportTrusted
  <1>1. Init => OpenReportTrusted
    BY ValvesAreLocations
    DEF Init, InitRegValves, NewValveEntry, OpenReportTrusted
  <1> QED
    BY <1>1, TypeCorrect, OpenReportStep, PTL DEF Spec

----------------------------------------------------------------------------
(* An entry that shows an open valve closed after a step did so before, or  *)
(* comes from a served PULSE or NONE, the only actuations that leave the    *)
(* entry alone.                                                             *)
LEMMA ClosedReportStep ==
  TypeOK /\ ClosedReportExplained /\ [Next]_vars => ClosedReportExplained'
  <1> SUFFICES ASSUME TypeOK, ClosedReportExplained, [Next]_vars,
                      NEW v \in Valves, regValves'[v].state = "CLOSED",
                      driver'[v].state = "OPEN"
               PROVE  driver'[v].actuation \in {ACT_NONE, PULSE}
    BY DEF ClosedReportExplained
  <1>1. v \in Locations
    BY ValvesAreLocations
  <1>2. regValves[v].state = "CLOSED" /\ driver[v].state = "OPEN"
          => driver[v].actuation \in {ACT_NONE, PULSE}
    BY DEF ClosedReportExplained
  <1>3. CASE Actuate /\ v \in Served
    <2>1. driver'[v] = Drive(v, flagValves[v].type)
      BY <1>3 DEF Actuate
    <2>2. regValves'[v].state = Recorded(v)
      BY <1>1, <1>3 DEF Actuate, TypeOK, RegistryValveInfo
    <2>3. flagValves[v].type # OPEN_VENT
      BY <2>2 DEF Recorded, OPEN_VENT, CLOSE_VENT
    <2>4. flagValves[v].type # CLOSE_VENT
      BY <2>1 DEF Drive, OPEN_VENT, CLOSE_VENT, PULSE
    <2> QED
      BY <1>3, <2>1, <2>3, <2>4, ServedCodes DEF Drive, ActuationTypes,
         OPEN_VENT, CLOSE_VENT, PULSE, ACT_NONE
  <1>4. CASE Actuate /\ v \notin Served
    BY <1>1, <1>2, <1>4 DEF Actuate
  <1>5. CASE ~Actuate
    <2>1. UNCHANGED driver
      BY <1>5 DEF Next, Request, RaisePriority, vars
    <2>2. ASSUME NEW l \in Locations, RaisePriority(l)
          PROVE  regValves'[v].state = regValves[v].state
      BY <1>1, <2>2 DEF RaisePriority, TypeOK, RegistryValveInfo
    <2>3. UNCHANGED regValves \/ \E l \in Locations : RaisePriority(l)
      BY <1>5 DEF Next, Request, vars
    <2> QED
      BY <1>2, <2>1, <2>2, <2>3
  <1> QED
    BY <1>3, <1>4, <1>5

(* The registry shows an open valve closed only after a PULSE or a NONE,    *)
(* for every set of valves and every history of requests and exceptions.    *)
THEOREM ClosedReportsAreExplained == Spec => []ClosedReportExplained
  <1>1. Init => ClosedReportExplained
    BY DEF Init, InitDriver, ClosedReportExplained
  <1> QED
    BY <1>1, TypeCorrect, ClosedReportStep, PTL DEF Spec

----------------------------------------------------------------------------
(* The driver changes the level of a pin together with the state, and       *)
(* leaves both alone on a NONE.                                             *)
LEMMA SignalStep ==
  TypeOK /\ SignalMatchesState /\ [Next]_vars => SignalMatchesState'
  <1> SUFFICES ASSUME TypeOK, SignalMatchesState, [Next]_vars,
                      NEW v \in Valves
               PROVE  (driver'[v].signal = "HIGH") <=>
                        (driver'[v].state #
                           IF v \in NormallyClosed THEN "CLOSED" ELSE "OPEN")
    BY DEF SignalMatchesState
  <1>1. (driver[v].signal = "HIGH") <=>
          (driver[v].state # IF v \in NormallyClosed THEN "CLOSED" ELSE "OPEN")
    BY DEF SignalMatchesState
  <1>2. CASE Actuate /\ v \in Served
    <2>1. driver'[v] = Drive(v, flagValves[v].type)
      BY <1>2 DEF Actuate
    <2> QED
      BY <1>1, <2>1 DEF Drive, OPEN_VENT, CLOSE_VENT, PULSE
  <1>3. CASE Actuate /\ v \notin Served
    BY <1>1, <1>3 DEF Actuate
  <1>4. CASE ~Actuate
    <2>1. UNCHANGED driver
      BY <1>4 DEF Next, Request, RaisePriority, vars
    <2> QED
      BY <1>1, <2>1
  <1> QED
    BY <1>2, <1>3, <1>4

(* The level on every pin always means the state the driver records for the *)
(* valve behind it.                                                         *)
THEOREM SignalsMatchStates == Spec => []SignalMatchesState
  <1>1. Init => SignalMatchesState
    BY DEF Init, InitDriver, SignalMatchesState
  <1> QED
    BY <1>1, TypeCorrect, SignalStep, PTL DEF Spec

----------------------------------------------------------------------------
(* A request of a configured valve that passes the test against the current *)
(* priority leaves the flag by being served or by being overwritten, never  *)
(* because another valve threw.                                             *)
THEOREM RequestsAreNotLost == Spec => RequestNotLost
  <1> DEFINE Kept(v) ==
        Granted(v) /\ flagValves'[v] = NoRequest
        => driver'[v].actuation = flagValves[v].type
           \/ \E type \in TypeCodes, priority \in PriorityCodes :
                Request(v, type, priority)
  <1>1. ASSUME TypeOK, [Next]_vars, NEW v \in Valves
        PROVE  Kept(v)
    <2> SUFFICES ASSUME Granted(v), flagValves'[v] = NoRequest
                 PROVE  driver'[v].actuation = flagValves[v].type
                        \/ \E type \in TypeCodes, priority \in PriorityCodes :
                             Request(v, type, priority)
      OBVIOUS
    <2>1. v \in Locations
      BY ValvesAreLocations
    <2>2. flagValves'[v] # flagValves[v]
      BY DEF NoRequest, Granted
    <2>3. CASE Actuate
      <3>1. v \in Served
        BY <2>1, <2>2, <2>3 DEF Actuate
      <3> QED
        BY <2>3, <3>1 DEF Actuate, Drive
    <2>4. ASSUME NEW l \in Locations, NEW type \in TypeCodes,
                 NEW priority \in PriorityCodes, Request(l, type, priority)
          PROVE  Request(v, type, priority)
      BY <1>1, <2>1, <2>2, <2>4 DEF Request, TypeOK
    <2>5. ASSUME NEW l \in Locations, RaisePriority(l)
          PROVE  FALSE
      BY <2>2, <2>5 DEF RaisePriority
    <2>6. CASE UNCHANGED vars
      BY <2>2, <2>6 DEF vars
    <2> QED
      BY <1>1, <2>3, <2>4, <2>5, <2>6 DEF Next
  <1>2. TypeOK /\ [Next]_vars => [\A v \in Valves : Kept(v)]_vars
    BY <1>1
  <1> QED
    BY <1>2, TypeCorrect, PTL DEF Spec, RequestNotLost
============================================================================
