---------------------------- MODULE MCAbortLoop ----------------------------
(***************************************************************************)
(* The loop with the controls around the soft abort: every control of      *)
(* ControlTask but stage, over sensor PT-2 and one valve. The ground only  *)
(* raises and undoes aborts, so the flight stays in the first stage.       *)
(***************************************************************************)
EXTENDS FlightLoop

MCTasks == <<"sensor", "valve", "telemetry">>
MCControls == {"sensor", "abort", "telemetry", "valve", "pressure"}

MCValveList == <<"nitrous_vent">>
MCNormallyClosed == {"nitrous_vent"}
MCLedValves == {}
MCGroundLocations == {"nitrous_vent"}
MCLocations == {"nitrous_vent", "ethanol_mpv", "igniter", "nitrous_mpv",
                "pressure_relief", "main_propellant_valve", "PRESSURE_RELIEF"}

MCArrivals ==
  [header : {"SAB", "UAB", "HRT"}, loc : {"nitrous_vent"}, type : {0},
   priority : {0}]
  \cup
  [header : {"SAC"}, loc : {"nitrous_vent"}, type : {CLOSE_VENT, OPEN_VENT},
   priority : {LOW_PRIORITY}]

(* PT-2 reads 0, 116, 544 and 591 psi, which by its slope and bias in      *)
(* full_config.json shows as -23 (critical), 100 and 550, the lower end of  *)
(* every safe and the upper end of every warn range, and 600, where every   *)
(* filter starts (kalman_value is 1000). A boundary that is never read in   *)
(* is below, within or above these, the same in every stage.                *)
MCSensorList == <<"PT-2">>
MCSensorKind == [s \in {"PT-2"} |-> "pressure"]
MCSensorPins == [s \in {"PT-2"} |-> 19]
MCSlope == [s \in {"PT-2"} |-> 1053]
MCBias == [s \in {"PT-2"} |-> 22113]
MCRaw == {0, 116, 544, 591}
MCValues == {-23, 100, 550, 600} \cup MCRaw
MCSafeLower == [s \in Stages |-> 100]
MCWarnUpper == [s \in Stages |-> 550]
MCSafeUpper == [s \in Stages |-> 500]
MCGarbage == {[s \in Stages |-> v] : v \in {-23, 100, 600}}
============================================================================
