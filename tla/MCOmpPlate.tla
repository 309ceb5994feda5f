----------------------------- MODULE MCOmpPlate -----------------------------
(***************************************************************************)
(* Small plates and integer arithmetic for the runs of OmpPlate: a cell    *)
(* takes the average of its neighbours rounded down, and any change counts.*)
(***************************************************************************)
EXTENDS OmpPlate

MCTemperatures == 0 .. 4

MCDiffuse(cell, top, right, bottom, left) ==
  cell + (top + right + bottom + left - 4 * cell) \div 4

MCExceeds(old, new) == old # new

\* Balanced from the start, and heated from two borders.
MCPlates ==
  {[r \in Rows |-> [c \in Cols |-> 2]],
   [r \in Rows |-> [c \in Cols |-> IF r = 0 \/ c = 0 THEN 4 ELSE 0]]}
=============================================================================
