--------------------------- MODULE TelemetryTask ---------------------------
(***************************************************************************)
(* tasks/TelemetryTask over the XBee driver: moves packets between the     *)
(* radio and the queues of global_registry and global_flag.                *)
(*                                                                         *)
(* A packet that reaches read() has passed the checksum test of the        *)
(* driver, and has the three fields Log::from_string takes apart. Queues   *)
(* are sets here: no property of the flight loop is about the order in     *)
(* which packets leave them.                                               *)
(***************************************************************************)
EXTENDS FlightTypes

CONSTANTS
  Arrivals  \* the packets the ground may send

VARIABLES
  linkUp,  \* global_registry.telemetry.status
  ingest,  \* global_registry.telemetry.ingest_queue
  reset,   \* global_flag.telemetry.reset
  outbox,  \* global_flag.telemetry.enqueue and send_queue
  sent     \* what the last actuate() wrote, until the next read()

InitTelemetry ==
  /\ linkUp = FALSE
  /\ ingest = {}
  /\ reset = FALSE
  /\ outbox = {}
  /\ sent = {}

(* read(). XBee::read delivers at most one packet, and the status of the    *)
(* XBee driver is always up once connect() has returned.                    *)
Read ==
  /\ linkUp' = TRUE
  /\ \/ UNCHANGED ingest
     \/ \E c \in Arrivals : ingest' = ingest \cup {c}
  /\ sent' = {}
  /\ UNCHANGED <<reset, outbox>>

(* actuate(): resets the link, or writes every queued packet. *)
Actuate ==
  /\ outbox' = IF reset THEN outbox ELSE {}
  /\ sent' = IF reset THEN {} ELSE outbox
  /\ UNCHANGED <<linkUp, ingest, reset>>
============================================================================
