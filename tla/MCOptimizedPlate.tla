------------------------- MODULE MCOptimizedPlate -------------------------
(***************************************************************************)
(* Small plates and integer arithmetic for the runs of OptimizedPlate: a   *)
(* cell takes the average of its neighbours (mult_constant = 1/4) rounded  *)
(* down, and epsilon = 1, so that the last two states differ.              *)
(***************************************************************************)
EXTENDS OptimizedPlate

MCTemperatures == 0 .. 8

MCDiffuse(cell, top, right, bottom, left) ==
  cell + (top + right + bottom + left - 4 * cell) \div 4

MCExceeds(old, new) == new - old > 1 \/ old - new > 1

\* A cold plate with one hot cell.
HotCell(r, c, temperature) ==
  [rr \in Rows |-> [cc \in Cols |->
     IF <<rr, cc>> = <<r, c>> THEN temperature ELSE 0]]

\* Already balanced; heated from the border, so that the heat reaches one row
\* per state; hot in the middle, so that some blocks change and others do not.
MCPlates ==
  {[r \in Rows |-> [c \in Cols |-> 2]],
   [r \in Rows |-> [c \in Cols |-> IF r = 0 \/ c = 0 THEN 8 ELSE 0]],
   HotCell(RowCount - 2, 1, 8)}
=============================================================================
