--------------------------- MODULE MCCommandLoop ---------------------------
(***************************************************************************)
(* The loop with the tasks of every flight configuration and the controls  *)
(* of nitrous_config.json and ethanol_config.json (sensor, telemetry,      *)
(* valve), on two valves of full_config.json, which the ground has codes   *)
(* for: one normally open, one normally closed. The ground sends any       *)
(* command, also malformed ones. There are no sensors: no control of this  *)
(* configuration acts on them.                                             *)
(***************************************************************************)
EXTENDS FlightLoop

MCTasks == <<"sensor", "valve", "telemetry">>
MCControls == {"sensor", "telemetry", "valve"}

MCValveList == <<"ethanol_drain", "nitrous_vent">>
MCNormallyClosed == {"nitrous_vent"}
MCLedValves == {}
MCGroundLocations == {"ethanol_drain", "nitrous_vent", "nitrous_mpv"}
MCLocations == MCGroundLocations \cup
  {"PRESSURE_RELIEF", "igniter", "ethanol_mpv", "pressure_relief",
   "main_propellant_valve"}

(* Openings, closings and pulses of both valves at the highest priority; a  *)
(* NONE, a code that names no type and a request without priority; a        *)
(* location that is not configured, and an unknown one; one packet of each  *)
(* other header but SGP, which nothing in this configuration acts on.       *)
MCArrivals ==
  [header : {"SAC"}, loc : {"ethanol_drain", "nitrous_vent"},
   type : {CLOSE_VENT, OPEN_VENT, PULSE}, priority : {ABORT_PRIORITY}]
  \cup
  [header : {"SAC"}, loc : {"nitrous_vent"},
   type : {ACT_NONE, 7}, priority : {ABORT_PRIORITY}]
  \cup
  [header : {"SAC"}, loc : {"ethanol_drain"},
   type : {OPEN_VENT}, priority : {PRI_NONE}]
  \cup
  [header : {"SAC", "VRQ"}, loc : {"nitrous_mpv", ""},
   type : {OPEN_VENT}, priority : {ABORT_PRIORITY}]
  \cup
  [header : {"HRT", "SAB", "UAB", "INF", "VRQ", "SRQ", "unknown"},
   loc : {"nitrous_vent"}, type : {0}, priority : {0}]

MCSensorList == <<>>
MCNothing == [s \in {} |-> 0]
MCValues == {0}
MCBoundary == [s \in Stages |-> 0]
MCGarbage == {MCBoundary}
============================================================================
