--------------------------- MODULE StageSequence ---------------------------
(***************************************************************************)
(* What StageControl promises the ground: the flight goes through its      *)
(* stages in order, one at a time, each on a request of the ground, and    *)
(* the engine valves are asked to open only in the autosequence, never in  *)
(* the step that enters it.                                                *)
(***************************************************************************)
EXTENDS FlightTypes

VARIABLES
  stage,      \* the current stage
  requested,  \* the ground has asked for the next stage
  opening     \* an opening of an engine valve is waiting to be served

vars == <<stage, requested, opening>>

Init ==
  /\ stage = WAITING
  /\ requested = FALSE
  /\ opening = FALSE

(* The ground sends SGP; asking twice before an answer is asking once. *)
GroundRequest ==
  /\ requested' = TRUE
  /\ UNCHANGED <<stage, opening>>

Advance ==
  /\ requested
  /\ stage # POSTBURN
  /\ stage' = stage + 1
  /\ requested' = FALSE
  /\ UNCHANGED opening

(* A refused request, and a control cycle without one. *)
Stay ==
  /\ requested' = FALSE
  /\ opening' \in BOOLEAN
  /\ opening => opening'
  /\ opening' => opening \/ stage = AUTOSEQUENCE
  /\ UNCHANGED stage

(* The valve task has served the openings. *)
Serve ==
  /\ opening' = FALSE
  /\ UNCHANGED <<stage, requested>>

Next == GroundRequest \/ Advance \/ Stay \/ Serve

(* Every request is answered, with an advance or with a refusal. *)
Answer == requested /\ (Advance \/ Stay)

Spec == Init /\ [][Next]_vars /\ WF_vars(Answer)
============================================================================
