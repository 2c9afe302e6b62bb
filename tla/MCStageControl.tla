--------------------------- MODULE MCStageControl --------------------------
(***************************************************************************)
(* StageControl with a tick of 2.5 s: AUTOSEQUENCE_DELAY (5 s) is 2 ticks,  *)
(* request_interval (10 s) 4 ticks, and send_interval (2 s) rounds to 1.    *)
(* MaxTime leaves room for an autosequence entered at tick 2 to open its    *)
(* valves (after tick 6) and for two requests within one stage.             *)
(***************************************************************************)
EXTENDS StageControl

(* The igniter and one of the engine valves that the ground can open too;   *)
(* the other valves of StageControl are in no registry entry at first.      *)
MCLocations == EngineValves \cup RestValves
MCValves == {"igniter", "ethanol_mpv"}
MCGroundLocations == {"ethanol_mpv"}
MCGroundAsks == {Ask(OPEN_VENT, LOW_PRIORITY)}

(* By the slope and bias of full_config.json: no pressure, the pressure     *)
(* whose quotient as a double is just below 100, and above.                 *)
MCPressures == {-23, 0, 490, 491}
MCRoundsDown == {147, 245, 294, 490}
============================================================================
