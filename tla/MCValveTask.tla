---------------------------- MODULE MCValveTask ----------------------------
(***************************************************************************)
(* ValveTask on a normally closed and a normally open solenoid of          *)
(* full_config.json, in map order. Valves are independent, so two show      *)
(* every interaction there is: the exception of one before the other, or    *)
(* after it.                                                                *)
(***************************************************************************)
EXTENDS ValveTask

MCLocations == {"ethanol_drain", "nitrous_vent"}
MCValveList == <<"ethanol_drain", "nitrous_vent">>
MCNormallyClosed == {"nitrous_vent"}

(* The four actuation types and one code that names none.                   *)
MCTypeCodes == {ACT_NONE, CLOSE_VENT, OPEN_VENT, PULSE, 9}

(* NONE, one priority below PI_PRIORITY and one above, and a code that      *)
(* names none.                                                              *)
MCPriorityCodes == {PRI_NONE, LOW_PRIORITY, MAX_TELEMETRY_PRIORITY, 7}
============================================================================
