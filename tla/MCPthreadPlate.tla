--------------------------- MODULE MCPthreadPlate ---------------------------
(***************************************************************************)
(* Small plates and integer arithmetic for the runs of PthreadPlate: a     *)
(* cell takes the average of its neighbours rounded down, and epsilon = 1, *)
(* so that the last two states differ.                                     *)
(***************************************************************************)
EXTENDS PthreadPlate

MCTemperatures == 0 .. 8

MCDiffuse(cell, top, right, bottom, left) ==
  cell + (top + right + bottom + left - 4 * cell) \div 4

MCExceeds(old, new) == new - old > 1 \/ old - new > 1

\* Balanced from the start; heated from two borders; one hot cell.
MCPlates ==
  {[r \in Rows |-> [c \in Cols |-> 2]],
   [r \in Rows |-> [c \in Cols |-> IF r = 0 \/ c = 0 THEN 8 ELSE 0]],
   [r \in Rows |-> [c \in Cols |-> IF r = 1 /\ c = 1 THEN 8 ELSE 0]]}
=============================================================================
