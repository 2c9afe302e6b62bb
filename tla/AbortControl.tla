---------------------------- MODULE AbortControl ---------------------------
(***************************************************************************)
(* control_tasks/AbortControl: raises the soft abort when a sensor is      *)
(* critical.                                                               *)
(***************************************************************************)
EXTENDS FlightTypes

CONSTANTS Sensors

VARIABLES
  grade,      \* status of each sensor in the registry
  softAbort,  \* global_registry.general.soft_abort
  outbox      \* packets in global_flag.telemetry.enqueue

CriticalSensors == {s \in Sensors : grade[s] = "CRITICAL"}

(* AbortControl::execute *)
Execute ==
  LET aborts == ~softAbort /\ CriticalSensors # {}
  IN /\ softAbort' = (softAbort \/ aborts)
     /\ outbox' = IF aborts THEN outbox \cup {<<"AAB", CriticalSensors>>}
                            ELSE outbox
============================================================================
