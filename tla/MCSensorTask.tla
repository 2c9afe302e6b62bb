---------------------------- MODULE MCSensorTask ---------------------------
(***************************************************************************)
(* Two load cells, two pressure sensors and a thermocouple of              *)
(* full_config.json, on any of two pins, with the slopes and biases of that *)
(* file. One reading is the number of a pin, one is the thermocouple fault. *)
(***************************************************************************)
EXTENDS SensorTask, TLC

MCSensorList == <<"LC-1", "LC-2", "PT-1", "PT-2", "TC-1">>
MCKind == ("LC-1" :> "load_cell") @@ ("LC-2" :> "load_cell")
          @@ ("PT-1" :> "pressure") @@ ("PT-2" :> "pressure")
          @@ ("TC-1" :> "thermocouple")
MCNone == [s \in {"LC-1", "LC-2", "TC-1"} |-> 0]
MCSlope == ("PT-1" :> 909) @@ ("PT-2" :> 1053) @@ MCNone
MCBias == ("PT-1" :> 34500) @@ ("PT-2" :> 22113) @@ MCNone
MCRaw == {0, 4, 420}
MCValues == MCRaw \cup {Converted(s, raw) : s \in {"PT-1", "PT-2"}, raw \in MCRaw}
MCPins == {-1, 4}
============================================================================
