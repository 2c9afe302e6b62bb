-------------------------- MODULE TelemetryControl -------------------------
(***************************************************************************)
(* control_tasks/TelemetryControl: takes the packets of the ground off the *)
(* ingest queue and calls the handler of their header.                     *)
(*                                                                         *)
(* A packet is a record. loc stands for the location code after the lookup *)
(* in the inverse maps of the header: a code that is not in the map gives  *)
(* "", which no map of the registry contains. Fields a header does not use *)
(* hold any value.                                                         *)
(***************************************************************************)
EXTENDS FlightTypes

CONSTANTS
  Sensors,         \* the configured sensors
  Locations,       \* every solenoid location some code names
  GroundLocations  \* the locations with a code in valve_location_inverse_map

VARIABLES
  linkUp,      \* global_registry.telemetry.status
  reset,       \* global_flag.telemetry.reset
  ingest,      \* global_registry.telemetry.ingest_queue
  softAbort,   \* global_registry.general.soft_abort
  progress,    \* global_flag.general.progress
  flagValves,  \* global_flag.valves["solenoid"]
  regValves,   \* global_registry.valves["solenoid"]
  regKeys,     \* the locations that have an entry in that map
  outbox,      \* packets in global_flag.telemetry.enqueue
  crashed      \* an exception has reached main and ended the program

handled == <<softAbort, progress, flagValves, regValves, regKeys, outbox>>

(* The keys of the member "functions". *)
Headers == {"HRT", "SAB", "UAB", "SAC", "SRQ", "VRQ", "SGP", "INF"}

Commands == [header : Headers \cup {"unknown"},
             loc : Sensors \cup GroundLocations \cup {""},
             type : Digits, priority : Digits]

Send(packet) == outbox' = outbox \cup {packet}

----------------------------------------------------------------------------
(* heartbeat *)
Heartbeat(c) ==
  /\ c.header = "HRT"
  /\ Send(<<"HRT">>)
  /\ UNCHANGED <<softAbort, progress, flagValves, regKeys, crashed>>

(* soft_abort and undo_soft_abort *)
SoftAbort(c) ==
  /\ c.header = "SAB"
  /\ softAbort' = TRUE
  /\ Send(<<"SAB">>)
  /\ UNCHANGED <<progress, flagValves, regKeys, crashed>>

UndoSoftAbort(c) ==
  /\ c.header = "UAB"
  /\ softAbort' = FALSE
  /\ Send(<<"UAB">>)
  /\ UNCHANGED <<progress, flagValves, regKeys, crashed>>

(* The two tests of solenoid_actuate: valve_exists, and the priority of the *)
(* current actuation. The types are not tested.                             *)
Acceptable(c) ==
  /\ c.loc \in regKeys
  /\ c.priority >= regValves[c.loc].priority

(* solenoid_actuate, with its reply *)
SolenoidActuate(c) ==
  /\ c.header = "SAC"
  /\ Acceptable(c)
  /\ flagValves' = [flagValves EXCEPT ![c.loc] = Ask(c.type, c.priority)]
  /\ Send(<<"SAC", c.loc, c.type, c.priority, "-1">>)
  /\ UNCHANGED <<softAbort, progress, regKeys, crashed>>

(* Slip: the exception is not thrown.                                       *)
SolenoidRefusedOnly(c) ==
  /\ c.header = "SAC"
  /\ ~Acceptable(c)
  /\ Send(<<"SAC", c.loc, c.type, c.priority, "-0">>)
  /\ UNCHANGED <<softAbort, progress, flagValves, regKeys, crashed>>

(* An SAC that is not acceptable: a reply is queued, and an exception       *)
(* thrown that nothing catches.                                             *)
SolenoidRefused(c) ==
  /\ c.header = "SAC"
  /\ ~Acceptable(c)
  /\ Send(<<"SAC", c.loc, c.type, c.priority, "-0">>)
  /\ crashed' = TRUE
  /\ UNCHANGED <<softAbort, progress, flagValves, regKeys>>

(* sensor_request and valve_request. *)
Exists(c) ==
  CASE c.header = "SRQ" -> c.loc \in Sensors
    [] c.header = "VRQ" -> c.loc \in regKeys
    [] OTHER -> FALSE

DataRequest(c) ==
  /\ c.header \in {"SRQ", "VRQ"}
  /\ Send(<<IF c.header = "SRQ" THEN "SDT" ELSE "VST", c.loc,
            IF Exists(c) THEN "data" ELSE "-0">>)
  /\ crashed' = ~Exists(c)
  /\ UNCHANGED <<softAbort, progress, flagValves, regKeys>>

(* stage_progression *)
StageProgression(c) ==
  /\ c.header = "SGP"
  /\ progress' = TRUE
  /\ UNCHANGED <<softAbort, flagValves, regKeys, outbox, crashed>>

(* info reads args[0] of an empty vector: the program may end or go on.     *)
Info(c) ==
  /\ c.header = "INF"
  /\ crashed' \in BOOLEAN
  /\ UNCHANGED <<softAbort, progress, flagValves, regKeys, outbox>>

(* A header without a handler throws. *)
UnknownHeader(c) ==
  /\ c.header \notin Headers
  /\ crashed' = TRUE
  /\ UNCHANGED <<softAbort, progress, flagValves, regKeys, outbox>>

(* One turn of the loop in execute(): ingest() of the packet on top. Which  *)
(* of several comes first depends on the timestamps the ground gave them,   *)
(* of which Log::from_string reads the decimal digits only: any may.        *)
Ingest(c) ==
  /\ linkUp
  /\ c \in ingest
  /\ ingest' = ingest \ {c}
  /\ reset' = FALSE
  /\ \/ Heartbeat(c)
     \/ SoftAbort(c)
     \/ UndoSoftAbort(c)
     \/ SolenoidActuate(c)
     \/ SolenoidRefused(c)
     \/ DataRequest(c)
     \/ StageProgression(c)
     \/ Info(c)
     \/ UnknownHeader(c)
  /\ UNCHANGED <<regValves, linkUp>>

(* The end of execute(): without a link it asks for a reset, and leaves the *)
(* queue alone.                                                             *)
Drained ==
  /\ linkUp => ingest = {}
  /\ reset' = ~linkUp
  /\ UNCHANGED <<ingest, linkUp, handled, crashed>>
============================================================================
