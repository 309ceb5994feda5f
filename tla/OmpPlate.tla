------------------------------ MODULE OmpPlate ------------------------------
(***************************************************************************)
(* homeworks/omp_mpi: a plate equilibrated inside one parallel region.     *)
(* Every turn of the loop has a single section that starts the next state, *)
(* a work-sharing loop over the rows with a reduction of the verdict, the  *)
(* test of the verdict, and an explicit barrier.                           *)
(*                                                                         *)
(* OpenMP.  The team has one barrier, which a thread reaches at the end of *)
(* single, at the end of for, at the explicit barrier and at the end of    *)
(* the region, and which opens when the whole team waits, wherever each    *)
(* thread does.  The first thread to reach single executes it.  A static   *)
(* schedule gives the rows to the threads once and for all: any such       *)
(* partition is considered, not only the blocks of one implementation.     *)
(* The reduction joins the private copies one by one, in any order, before *)
(* the barrier of for.  The region is created whole or the program ends.   *)
(***************************************************************************)
EXTENDS PlateMatrix

CONSTANT Threads    (* the team of the parallel region                     *)

ASSUME ThreadsAssumption == Threads # {}

Buffers == {"first", "second"}

VARIABLES
  (* plate_t and its plate_matrix_t                                        *)
  k_states, buffer, matrix, auxiliary_matrix,
  equilibrated_plate,   (* shared                                          *)
  equilibrated_copy,    (* the reduction's private copies                  *)
  owner,                (* the thread the schedule gives each row to       *)
  todo,                 (* rows of the loop not updated yet                *)
  single_taken,         (* a thread executes or has executed single        *)
  pc                    (* where each thread is                            *)

plateVars == <<k_states, buffer, matrix, auxiliary_matrix>>
vars == <<plateVars, equilibrated_plate, equilibrated_copy, owner, todo,
          single_taken, pc>>

Labels == {"single", "start_state", "end_single", "wait_single",
           "rows", "reduction", "end_for", "wait_for",
           "check", "barrier", "wait_barrier",
           "end_parallel", "wait_parallel", "returned"}

Init ==
  /\ k_states = 0
  /\ matrix = "first" /\ auxiliary_matrix = "second"
  /\ \E plate \in InitialPlates :
        buffer = [b \in Buffers |-> IF b = "first" THEN plate
                                                   ELSE InitAuxiliary(plate)]
  /\ equilibrated_plate = TRUE
  /\ equilibrated_copy = [t \in Threads |-> TRUE]
  /\ owner \in [InnerRows -> Threads]
  /\ todo = {}
  /\ single_taken = FALSE
  /\ pc = [t \in Threads |-> "single"]

RowsOf(t) == {r \in InnerRows : owner[r] = t}

set_auxiliary ==
  /\ matrix' = auxiliary_matrix
  /\ auxiliary_matrix' = matrix
  /\ UNCHANGED buffer

\* The first thread to reach single is the one that executes it.
EnterSingle(t) ==
  /\ pc[t] = "single"
  /\ single_taken' = TRUE
  /\ pc' = [pc EXCEPT ![t] = IF single_taken THEN "end_single" ELSE "start_state"]
  /\ UNCHANGED <<plateVars, equilibrated_plate, equilibrated_copy, owner, todo>>

StartState(t) ==
  /\ pc[t] = "start_state"
  /\ k_states' = k_states + 1
  /\ set_auxiliary
  /\ equilibrated_plate' = TRUE
  /\ pc' = [pc EXCEPT ![t] = "end_single"]
  /\ UNCHANGED <<equilibrated_copy, owner, todo, single_taken>>

UpdateRow(t) ==
  /\ pc[t] = "rows"
  /\ \E row \in todo \cap RowsOf(t) :
       /\ buffer' = [buffer EXCEPT ![matrix][row] =
                       UpdatedRow(buffer[auxiliary_matrix], buffer[matrix], row)]
       /\ equilibrated_copy' =
            [equilibrated_copy EXCEPT ![t] =
               @ /\ ~ RowChanged(buffer[auxiliary_matrix], buffer'[matrix], row)]
       /\ todo' = todo \ {row}
  /\ UNCHANGED <<k_states, matrix, auxiliary_matrix, equilibrated_plate, owner,
                 single_taken, pc>>

RowsDone(t) ==
  /\ pc[t] = "rows" /\ todo \cap RowsOf(t) = {}
  /\ pc' = [pc EXCEPT ![t] = "reduction"]
  /\ UNCHANGED <<plateVars, equilibrated_plate, equilibrated_copy, owner, todo,
                 single_taken>>

\* Mistake: a shared clause where the code has a reduction, so that the last
\* thread to store its verdict wins.
ReduceLastWins(t) ==
  /\ pc[t] = "reduction"
  /\ equilibrated_plate' = equilibrated_copy[t]
  /\ pc' = [pc EXCEPT ![t] = "end_for"]
  /\ UNCHANGED <<plateVars, equilibrated_copy, owner, todo, single_taken>>

Reduce(t) ==
  /\ pc[t] = "reduction"
  /\ equilibrated_plate' = (equilibrated_plate /\ equilibrated_copy[t])
  /\ pc' = [pc EXCEPT ![t] = "end_for"]
  /\ UNCHANGED <<plateVars, equilibrated_copy, owner, todo, single_taken>>

\* Mistake: the explicit barrier is left out.
CheckWithoutBarrier(t) ==
  /\ pc[t] = "check"
  /\ pc' = [pc EXCEPT ![t] = IF equilibrated_plate THEN "end_parallel" ELSE "single"]
  /\ UNCHANGED <<plateVars, equilibrated_plate, equilibrated_copy, owner, todo,
                 single_taken>>

\* if (equilibrated_plate) break;
Check(t) ==
  /\ pc[t] = "check"
  /\ pc' = [pc EXCEPT ![t] = IF equilibrated_plate THEN "end_parallel" ELSE "barrier"]
  /\ UNCHANGED <<plateVars, equilibrated_plate, equilibrated_copy, owner, todo,
                 single_taken>>

-----------------------------------------------------------------------------
(* The barrier of the team *)

\* Mistake: nowait on the single section.
ArrivingNoWait ==
  [at \in {"end_single", "end_for", "barrier", "end_parallel"} |->
     CASE at = "end_single"   -> "rows"
       [] at = "end_for"      -> "wait_for"
       [] at = "barrier"      -> "wait_barrier"
       [] at = "end_parallel" -> "wait_parallel"]

Arriving == [at \in {"end_single", "end_for", "barrier", "end_parallel"} |->
               CASE at = "end_single"   -> "wait_single"
                 [] at = "end_for"      -> "wait_for"
                 [] at = "barrier"      -> "wait_barrier"
                 [] at = "end_parallel" -> "wait_parallel"]

Leaving == [at \in {"wait_single", "wait_for", "wait_barrier", "wait_parallel"} |->
              CASE at = "wait_single"   -> "rows"
                [] at = "wait_for"      -> "check"
                [] at = "wait_barrier"  -> "single"
                [] at = "wait_parallel" -> "returned"]

Wait(t) ==
  /\ pc[t] \in DOMAIN Arriving
  /\ pc' = [pc EXCEPT ![t] = Arriving[@]]
  /\ UNCHANGED <<plateVars, equilibrated_plate, equilibrated_copy, owner, todo,
                 single_taken>>

\* The barrier opens.  Threads that enter the loop start with fresh private
\* copies and their share of the rows; those past single forget who took it.
Open ==
  LET looping == {t \in Threads : pc[t] = "wait_single"} IN
  /\ \A t \in Threads : pc[t] \in DOMAIN Leaving
  /\ pc' = [t \in Threads |-> Leaving[pc[t]]]
  /\ equilibrated_copy' =
       [t \in Threads |-> t \in looping \/ equilibrated_copy[t]]
  /\ todo' = todo \cup {r \in InnerRows : owner[r] \in looping}
  /\ single_taken' = (single_taken /\ looping = {})
  /\ UNCHANGED <<plateVars, equilibrated_plate, owner>>

ThreadStep(t) ==
  \/ EnterSingle(t)
  \/ StartState(t)
  \/ UpdateRow(t)
  \/ RowsDone(t)
  \/ Reduce(t)
  \/ Check(t)
  \/ Wait(t)

\* The region is over and equilibrate_plate returns.
Finished ==
  /\ \A t \in Threads : pc[t] = "returned"
  /\ UNCHANGED vars

Next == (\E t \in Threads : ThreadStep(t)) \/ Open \/ Finished

Spec == Init /\ [][Next]_vars

Fairness == WF_vars(Open) /\ \A t \in Threads : WF_vars(ThreadStep(t))
FairSpec == Spec /\ Fairness

-----------------------------------------------------------------------------
(* Properties *)

TypeOK ==
  /\ k_states \in Nat
  /\ buffer \in [Buffers -> PlateType]
  /\ matrix \in Buffers /\ auxiliary_matrix \in Buffers
  /\ equilibrated_plate \in BOOLEAN
  /\ equilibrated_copy \in [Threads -> BOOLEAN]
  /\ owner \in [InnerRows -> Threads]
  /\ todo \in SUBSET InnerRows
  /\ single_taken \in BOOLEAN
  /\ pc \in [Threads -> Labels]

\* While one thread starts a state no other touches the matrices, the verdict
\* or a row: each is before the barrier that ends single (plate.c: the
\* barriers around the single section).
SingleIsAlone ==
  \A t \in Threads : pc[t] = "start_state" =>
    \A u \in Threads \ {t} : pc[u] \in {"single", "end_single", "wait_single"}

\* The verdict a thread tests does not change until all have tested it, so all
\* of them leave the loop at the same state (plate.c: "Make sure threads sync
\* before next iteration").
VerdictHolds ==
  [][(\E t \in Threads : pc[t] = "check") =>
        equilibrated_plate' = equilibrated_plate]_vars

\* A state is in preparation from the moment single swapped the matrices to
\* the moment the barrier of the loop opens.
Preparing ==
  \/ \E t \in Threads : pc[t] \in {"rows", "reduction", "end_for", "wait_for"}
  \/ single_taken /\ \A t \in Threads : pc[t] # "start_state"

CurrentPlate   == buffer[IF Preparing THEN auxiliary_matrix ELSE matrix]
StatesComputed == IF Preparing THEN k_states - 1 ELSE k_states

VerdictReached ==
  /\ equilibrated_plate
  /\ \A t \in Threads : pc[t] \in {"check", "end_parallel", "wait_parallel",
                                   "returned"}

Abstract == INSTANCE Equilibrium WITH
  plate <- CurrentPlate, k_states <- StatesComputed,
  reached_equilibrium <- VerdictReached

\* The parallel region computes the states of the serial loop and stops with
\* the same one, for every schedule of the rows.
ImplementsEquilibrium == Abstract!Spec

\* Every thread leaves the region and equilibrate_plate returns: no thread is
\* left at a barrier (plate.c: break before the explicit barrier).
Termination == <>(\A t \in Threads : pc[t] = "returned")

-----------------------------------------------------------------------------
(* The inductive invariant *)

\* The phases the barriers force the whole team through.
Entering == ~ single_taken /\ \A t \in Threads : pc[t] = "single"

Starting ==
  /\ single_taken
  /\ \E s \in Threads :
       /\ pc[s] = "start_state"
       /\ \A t \in Threads \ {s} : pc[t] \in {"single", "end_single", "wait_single"}

Started ==
  /\ single_taken
  /\ \A t \in Threads : pc[t] \in {"single", "end_single", "wait_single"}

Looping ==
  /\ ~ single_taken
  /\ \A t \in Threads : pc[t] \in {"rows", "reduction", "end_for", "wait_for"}

Checking ==
  /\ ~ single_taken
  /\ \A t \in Threads :
       \/ pc[t] = "check"
       \/ pc[t] \in {"barrier", "wait_barrier"} /\ ~ equilibrated_plate
       \/ pc[t] \in {"end_parallel", "wait_parallel"} /\ equilibrated_plate

Returned ==
  /\ ~ single_taken /\ equilibrated_plate
  /\ \A t \in Threads : pc[t] = "returned"

PhaseInv ==
  Entering \/ Starting \/ Started \/ Looping \/ Checking \/ Returned

\* The two matrices are distinct and have the same border.
MatrixInv ==
  /\ matrix # auxiliary_matrix
  /\ \A r \in Rows, c \in Cols :
       r \notin InnerRows \/ c \notin InnerCols =>
         buffer["first"][r][c] = buffer["second"][r][c]

\* The rows of the state in preparation that a thread has updated.
Written(t) == RowsOf(t) \ todo

Unchanged(t) ==
  \A r \in Written(t) : ~ RowChanged(buffer[auxiliary_matrix], buffer[matrix], r)

\* In the loop the rows written hold the next state, a thread leaves no row of
\* its own behind, the private copies are about the rows written, and the shared
\* verdict has in it the copies that were joined.
LoopInv ==
  /\ \A t \in Threads : \A r \in Written(t) : \A c \in InnerCols :
       buffer[matrix][r][c] = UpdateCell(buffer[auxiliary_matrix], r, c)
  /\ \A t \in Threads : pc[t] # "rows" => Written(t) = RowsOf(t)
  /\ \A t \in Threads : equilibrated_copy[t] <=> Unchanged(t)
  /\ equilibrated_plate <=>
       \A t \in Threads : pc[t] \in {"end_for", "wait_for"} => equilibrated_copy[t]

StateInv == (Started => equilibrated_plate) /\ (Looping => LoopInv)

IInv == TypeOK /\ PhaseInv /\ MatrixInv /\ StateInv
=============================================================================
