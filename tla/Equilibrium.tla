---------------------------- MODULE Equilibrium ----------------------------
(***************************************************************************)
(* What every version of the simulation promises: the plate goes through   *)
(* whole states, each computed from the one before, and stops at the first *)
(* state in which no inner cell changed by more than epsilon; k_states     *)
(* counts them.  The serial program is this loop, and it is the abstract   *)
(* specification the concurrent versions are shown to implement.           *)
(***************************************************************************)
EXTENDS PlateMatrix

VARIABLES
  plate,                (* the current state of the plate              *)
  k_states,             (* states computed so far                      *)
  reached_equilibrium   (* the last state was within epsilon           *)

vars == <<plate, k_states, reached_equilibrium>>

Init ==
  /\ plate \in InitialPlates
  /\ k_states = 0
  /\ reached_equilibrium = FALSE

\* One turn of while (!reached_equilibrium).
update_plate ==
  /\ ~ reached_equilibrium
  /\ plate' = NextPlate(plate)
  /\ k_states' = k_states + 1
  /\ reached_equilibrium' = Balanced(plate, plate')

Next == update_plate

Spec == Init /\ [][Next]_vars
=============================================================================
