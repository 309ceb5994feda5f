---------------------------- MODULE PlateMatrix ----------------------------
(***************************************************************************)
(* The plate of the heat-transfer homeworks: a rectangle of temperatures   *)
(* whose border never changes and whose inner cells are recomputed from    *)
(* their four neighbours, and the two tests built on it.  Every version of *)
(* the simulation (serial, pthread, optimized, omp_mpi) uses these         *)
(* operations.                                                             *)
(*                                                                         *)
(* The arithmetic on doubles is a parameter: Diffuse is any function of    *)
(* the five temperatures the stencil reads and Exceeds any predicate on an *)
(* old and a new temperature, so what is proved holds with rounding.       *)
(***************************************************************************)
EXTENDS Integers

CONSTANTS
  RowCount,               (* rows of the plate, its two border rows included *)
  ColCount,               (* columns, border included                        *)
  Temperatures,           (* the values a cell may hold                      *)
  Zero,                   (* what calloc leaves in a cell                    *)
  InitialPlates,          (* the plates a plate file may contain             *)
  Diffuse(_, _, _, _, _), (* new temperature from cell, top, right, bottom,
                             left                                            *)
  Exceeds(_, _)           (* fabs(new - old) > epsilon                       *)

Rows == 0 .. RowCount - 1
Cols == 0 .. ColCount - 1

\* The cells update_cell is called for: for (row = 1; row < rows - 1; ...),
\* for (col = 1; col < cols - 1; ...).
InnerRows == 1 .. RowCount - 2
InnerCols == 1 .. ColCount - 2

PlateType == [Rows -> [Cols -> Temperatures]]

(***************************************************************************)
(* A plate without inner rows gives the threaded versions a team of zero   *)
(* threads, which pthread_barrier_init refuses: plates have three rows or  *)
(* more.  ColCount may be so small that no column is inner.                *)
(***************************************************************************)
ASSUME PlateAssumption ==
  /\ RowCount \in Nat /\ RowCount >= 3
  /\ ColCount \in Nat /\ ColCount >= 1
  /\ Zero \in Temperatures
  /\ InitialPlates \subseteq PlateType
  /\ \A cell, top, right, bottom, left \in Temperatures :
        Diffuse(cell, top, right, bottom, left) \in Temperatures
  /\ \A old, new \in Temperatures : Exceeds(old, new) \in BOOLEAN

-----------------------------------------------------------------------------

\* The temperature one heat-diffusion step gives to an inner cell.
UpdateCell(current, row, col) ==
  Diffuse(current[row][col], current[row - 1][col], current[row][col + 1],
          current[row + 1][col], current[row][col - 1])

\* A row of the matrix being written after its inner cells were updated; the
\* first and the last cell are never written and keep what they held.
UpdatedRow(current, target, row) ==
  [col \in Cols |-> IF col \in InnerCols THEN UpdateCell(current, row, col)
                                         ELSE target[row][col]]

\* The row changed by more than epsilon somewhere.
RowChanged(old, new, row) ==
  \E col \in InnerCols : Exceeds(old[row][col], new[row][col])

\* The auxiliary matrix of a plate that was just read: calloc zeroes it and
\* init_auxiliary copies the four borders.
InitAuxiliary(plate) ==
  [row \in Rows |->
    [col \in Cols |-> IF row \in InnerRows /\ col \in InnerCols
                        THEN Zero ELSE plate[row][col]]]

-----------------------------------------------------------------------------

\* A whole state of the simulation: all inner cells at once.
NextPlate(plate) ==
  [row \in Rows |-> IF row \in InnerRows THEN UpdatedRow(plate, plate, row)
                                         ELSE plate[row]]

Balanced(old, new) == \A row \in InnerRows : ~ RowChanged(old, new, row)
=============================================================================
