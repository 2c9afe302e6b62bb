----------------------------- MODULE MCXBeeLink ----------------------------
(***************************************************************************)
(* Three packets: one that is damaged, and the packets before and after.   *)
(***************************************************************************)
EXTENDS XBeeLink
============================================================================
