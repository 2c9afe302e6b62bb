----------------------------- MODULE MCDownlink ----------------------------
(***************************************************************************)
(* Four packets: one loop with a command, a batch and a report, and part   *)
(* of another, or four loops with a batch each; three times, so that the   *)
(* packets of one loop may all differ.                                     *)
(***************************************************************************)
EXTENDS Downlink
============================================================================
