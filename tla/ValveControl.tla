---------------------------- MODULE ValveControl ---------------------------
(***************************************************************************)
(* control_tasks/ValveControl: follows the soft abort of the registry, and *)
(* reports the valve states to the ground.                                 *)
(***************************************************************************)
EXTENDS FlightTypes

CONSTANTS
  Locations,     \* every solenoid location some code names
  Valves,        \* the configured solenoids
  ValveInterval  \* send_interval of the valves

VARIABLES
  aborted,     \* the member aborted
  valveSend,   \* last_send_time
  softAbort,   \* global_registry.general.soft_abort
  flagValves,  \* global_flag.valves["solenoid"]
  regValves,   \* global_registry.valves["solenoid"]
  outbox,      \* packets in global_flag.telemetry.enqueue
  now          \* Util::getTime

InitValveControl ==
  /\ aborted = FALSE
  /\ valveSend = 0

(* The member "valves", over which abort() and undo_abort() iterate. No     *)
(* code ever adds an element to it.                                         *)
ControlledValves == {}

(* abort() *)
AbortRequests ==
  [l \in Locations |->
     IF /\ l \in ControlledValves
        /\ \/ regValves[l].type # OPEN_VENT
           \/ regValves[l].priority # ABORT_PRIORITY
     THEN Ask(OPEN_VENT, ABORT_PRIORITY) ELSE flagValves[l]]

(* undo_abort() *)
UndoRequests ==
  [l \in Locations |->
     IF l \in ControlledValves /\ regValves[l].priority = ABORT_PRIORITY
     THEN Ask(ACT_NONE, ABORT_PRIORITY) ELSE flagValves[l]]

(* Slip: an abort is taken up, but never left.                              *)
CheckAbortOneWay ==
  /\ aborted' = (aborted \/ softAbort)
  /\ UNCHANGED flagValves

(* check_abort() *)
CheckAbort ==
  /\ aborted' = softAbort
  /\ flagValves' = CASE softAbort /\ ~aborted -> AbortRequests
                     [] ~softAbort /\ aborted -> UndoRequests
                     [] OTHER -> flagValves

(* The VAL batch: the valves the registry shows open. *)
ValveReport == <<"VAL", {v \in Valves : regValves[v].state = "OPEN"}>>

(* ValveControl::execute *)
Execute ==
  LET due == valveSend = 0 \/ now > valveSend + ValveInterval
  IN /\ CheckAbort
     /\ valveSend' = IF due THEN now ELSE valveSend
     /\ outbox' = IF due THEN outbox \cup {ValveReport} ELSE outbox
============================================================================
