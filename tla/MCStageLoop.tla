---------------------------- MODULE MCStageLoop ----------------------------
(***************************************************************************)
(* The loop with the telemetry and stage controls, over the igniter and    *)
(* nitrous_mpv, another valve of the autosequence, which the ground has a  *)
(* code for and full_config.json puts on pin 13. The ground sends          *)
(* well-formed commands only. A tick is 5 s, so AUTOSEQUENCE_DELAY is 1    *)
(* tick and request_interval 2, and the LED is due with every tick.        *)
(***************************************************************************)
EXTENDS FlightLoop

MCTasks == <<"valve", "telemetry">>
MCControls == {"telemetry", "valve", "stage"}

MCValveList == <<"igniter", "nitrous_mpv">>
MCNormallyClosed == {"igniter", "nitrous_mpv"}
MCGroundLocations == {"nitrous_mpv"}
MCLedValves == {"nitrous_mpv"}
MCLocations == {"nitrous_mpv", "igniter", "ethanol_mpv", "pressure_relief",
                "main_propellant_valve", "PRESSURE_RELIEF"}

MCArrivals ==
  [header : {"SAC"}, loc : {"nitrous_mpv"}, type : {CLOSE_VENT, OPEN_VENT},
   priority : {ABORT_PRIORITY}]
  \cup
  [header : {"SGP"}, loc : {"nitrous_mpv"}, type : {0}, priority : {0}]

MCSensorList == <<>>
MCNothing == [s \in {} |-> 0]
MCValues == {0}
MCBoundary == [s \in Stages |-> 0]
MCGarbage == {MCBoundary}
============================================================================
