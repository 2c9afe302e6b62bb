--------------------------- MODULE SensorControl ---------------------------
(***************************************************************************)
(* control_tasks/SensorControl and lib/Kalman: each loop filters what the  *)
(* registry shows for every sensor, and grades the estimate against the    *)
(* boundaries of the current stage.                                        *)
(*                                                                         *)
(* Config reads only the lower end of each safe range and the upper end of *)
(* each warn range; the other two are uninitialized doubles, fixed when    *)
(* the configuration is built. Values holds the levels that readings and   *)
(* boundaries are told apart by.                                           *)
(***************************************************************************)
EXTENDS FlightTypes

CONSTANTS
  Sensors,       \* the configured sensors
  Values,        \* the levels of a reading, an estimate or a boundary
  Garbage,       \* what a boundary that is never read in may hold, per stage
  SafeLower,     \* boundaries.<stage>.safe[0], per stage
  WarnUpper,     \* boundaries.<stage>.warn[1], per stage
  InitEstimate,  \* kalman_args.kalman_value
  SensorInterval \* send_interval of the sensors

VARIABLES
  measured,    \* measured_value of each sensor
  filter,      \* kalman_value of each sensor's Kalman filter
  normalized,  \* normalized_value of each sensor
  grade,       \* status of each sensor
  safeUpper,   \* boundaries.<stage>.safe.upper, never initialized
  warnLower,   \* boundaries.<stage>.warn.lower, never initialized
  sensorSend,  \* last_send_time
  regStage,    \* global_registry.general.stage
  now,         \* Util::getTime
  outbox       \* packets in global_flag.telemetry.enqueue

readings == <<measured, filter, normalized, grade>>
bounds   == <<safeUpper, warnLower>>

SensorTypeOK ==
  /\ measured \in [Sensors -> Values]
  /\ filter \in [Sensors -> Values]
  /\ normalized \in [Sensors -> Values]
  /\ grade \in [Sensors -> SensorStatuses]
  /\ safeUpper \in [Sensors -> Garbage]
  /\ warnLower \in [Sensors -> Garbage]
  /\ sensorSend \in Nat

(* Registry::initialize, Config and the constructors. *)
InitSensors ==
  /\ filter = [s \in Sensors |-> InitEstimate]
  /\ normalized = [s \in Sensors |-> 0]
  /\ grade = [s \in Sensors |-> "SAFE"]
  /\ safeUpper \in [Sensors -> Garbage]
  /\ warnLower \in [Sensors -> Garbage]
  /\ sensorSend = 0

----------------------------------------------------------------------------
Between(a, b, x) == a <= x /\ x <= b

(* Kalman::update_kalman: K is in 0..1, so the new estimate lies between    *)
(* the old one and the reading.                                             *)
Update(estimate, reading) ==
  {x \in Values : Between(estimate, reading, x) \/ Between(reading, estimate, x)}

(* The grade of an estimate in the current stage. *)
Grade(s, x) ==
  CASE Between(SafeLower[regStage], safeUpper[s][regStage], x) -> "SAFE"
    [] ~Between(SafeLower[regStage], safeUpper[s][regStage], x)
       /\ Between(warnLower[s][regStage], WarnUpper[regStage], x) -> "WARNING"
    [] OTHER -> "CRITICAL"

(* SensorControl::execute: boundary_check(), then the SEN batch when due.   *)
Execute ==
  LET due == sensorSend = 0 \/ now > sensorSend + SensorInterval
  IN /\ filter' \in [Sensors -> Values]
     /\ \A s \in Sensors : filter'[s] \in Update(filter[s], measured[s])
     /\ normalized' = filter'
     /\ grade' = [s \in Sensors |-> Grade(s, filter'[s])]
     /\ sensorSend' = IF due THEN now ELSE sensorSend
     /\ outbox' = IF due THEN outbox \cup {<<"SEN">>} ELSE outbox
     /\ UNCHANGED <<measured, bounds>>
============================================================================
