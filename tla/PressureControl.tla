-------------------------- MODULE PressureControl --------------------------
(***************************************************************************)
(* control_tasks/PressureControl: compares PT-2 with the upper end of its  *)
(* safe range in the pressurization stage, whatever the current stage (its *)
(* activate_stages is never read), and writes the actuation it wants into  *)
(* the registry, at a location spelled in capitals.                        *)
(***************************************************************************)
EXTENDS FlightTypes

CONSTANTS
  Sensors  \* the configured sensors

VARIABLES
  normalized,  \* normalized_value of each sensor
  grade,       \* status of each sensor
  safeUpper,   \* boundaries.<stage>.safe.upper, never initialized
  regValves,   \* global_registry.valves["solenoid"]
  regKeys      \* the locations that have an entry in that map

(* Slip: matchups names a valve that is configured.                         *)
ReliefByVent == "nitrous_vent"

(* The location of the relief valve in matchups. *)
Relief == "PRESSURE_RELIEF"

(* matchups, as begin() fills it. *)
Matched == "PT-2" \in Sensors

OverPressure == normalized["PT-2"] > safeUpper["PT-2"][PRESSURIZATION]

(* The two branches of check_pressure() ask for the same actuation: the     *)
(* second, for a safe pressure and an open valve, does not close it.        *)
Relieves ==
  \/ OverPressure /\ regValves[Relief].state = "CLOSED"
  \/ ~OverPressure /\ grade["PT-2"] = "SAFE" /\ regValves[Relief].state = "OPEN"

(* The entry is looked up, and so inserted, when one of the branches is     *)
(* taken.                                                                   *)
LooksUp == OverPressure \/ grade["PT-2"] = "SAFE"

(* PressureControl::execute *)
Execute ==
  /\ regKeys' = IF Matched /\ LooksUp THEN regKeys \cup {Relief} ELSE regKeys
  /\ regValves' =
       IF Matched /\ Relieves
       THEN [regValves EXCEPT ![Relief].type = OPEN_VENT,
                              ![Relief].priority = PI_PRIORITY]
       ELSE regValves
============================================================================
