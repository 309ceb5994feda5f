---------------------------- MODULE PthreadPlate ----------------------------
(***************************************************************************)
(* homeworks/pthread: a plate equilibrated by a team of threads created    *)
(* and joined for every state.  Creation and joining are the only          *)
(* synchronisation: a thread updates its rows and its own verdict, and the *)
(* main thread collects the verdicts as it joins.                          *)
(*                                                                         *)
(* Grain.  A step of a thread is one row (OneWriterPerRow and              *)
(* NoThreadBetweenStates: nobody else writes it, nor the matrix it reads); *)
(* a step of the main thread is one creation, one join or one section      *)
(* between them.                                                           *)
(***************************************************************************)
EXTENDS PlateMatrix, StaticMap, BlockMap

CONSTANTS
  RequestedThreads,   (* thread_count argument of the program               *)
  CreateMayFail       (* threads whose pthread_create may return an error   *)

ASSUME TeamAssumption ==
  /\ RequestedThreads \in Nat \ {0}
  /\ CreateMayFail \subseteq Nat

ThreadCount == TeamSize(RequestedThreads, RowCount - 2)
Threads     == 0 .. ThreadCount - 1

starting_row(t) == BlockStart(t, RowCount - 2, ThreadCount)
ending_row(t)   == BlockEnd(t, RowCount - 2, ThreadCount)

Buffers == {"first", "second"}

VARIABLES
  (* main thread                                                           *)
  main,                 (* where it is in equilibrate_plate                *)
  created, joined,      (* threads of this state's team                    *)
  k_states, reached_equilibrium,
  plate_k,              (* curr_plate->k_states                            *)
  (* plate_matrix_t                                                        *)
  buffer, matrix, auxiliary_matrix,
  (* threads                                                               *)
  equilibrated,         (* private_data->equilibrated                      *)
  row,                  (* next row of equilibrate_rows                    *)
  pc

mainVars   == <<main, created, joined, k_states, reached_equilibrium, plate_k>>
matrixVars == <<buffer, matrix, auxiliary_matrix>>
threadVars == <<equilibrated, row, pc>>
vars == <<mainVars, matrixVars, threadVars>>

MainLabels == {"while", "create_threads", "join_threads", "join_created",
               "returned", "failed"}

Init ==
  /\ main = "while"
  /\ created = 0 /\ joined = 0
  /\ k_states = 0 /\ reached_equilibrium = FALSE
  /\ plate_k = 0
  /\ matrix = "first" /\ auxiliary_matrix = "second"
  /\ \E plate \in InitialPlates :
        buffer = [b \in Buffers |-> IF b = "first" THEN plate
                                                   ELSE InitAuxiliary(plate)]
  /\ equilibrated = [t \in Threads |-> TRUE]
  /\ row = [t \in Threads |-> starting_row(t)]
  /\ pc = [t \in Threads |-> "ended"]

-----------------------------------------------------------------------------
(* The main thread *)

\* A turn of while (!reached_equilibrium) begins with set_auxiliary.
StartState ==
  /\ main = "while" /\ ~ reached_equilibrium
  /\ main' = "create_threads"
  /\ created' = 0 /\ joined' = 0
  /\ matrix' = auxiliary_matrix
  /\ auxiliary_matrix' = matrix
  /\ UNCHANGED <<k_states, reached_equilibrium, plate_k, buffer, threadVars>>

CreateThread ==
  /\ main = "create_threads" /\ created < ThreadCount
  /\ created' = created + 1
  /\ pc' = [pc EXCEPT ![created] = "rows"]
  /\ row' = [row EXCEPT ![created] = starting_row(created)]
  /\ UNCHANGED <<main, joined, k_states, reached_equilibrium, plate_k,
                 matrixVars, equilibrated>>

\* pthread_create fails: the threads already created are joined.
CreateFails ==
  /\ main = "create_threads" /\ created < ThreadCount
  /\ created \in CreateMayFail
  /\ main' = "join_created"
  /\ UNCHANGED <<created, joined, k_states, reached_equilibrium, plate_k,
                 matrixVars, threadVars>>

AllCreated ==
  /\ main = "create_threads" /\ created = ThreadCount
  /\ main' = "join_threads"
  /\ reached_equilibrium' = TRUE
  /\ UNCHANGED <<created, joined, k_states, plate_k, matrixVars, threadVars>>

\* Mistake: the thread's verdict is not made true again.
JoinWithoutReset ==
  /\ main \in {"join_threads", "join_created"} /\ joined < created
  /\ pc[joined] = "ended"
  /\ joined' = joined + 1
  /\ reached_equilibrium' =
       IF main = "join_threads" THEN reached_equilibrium /\ equilibrated[joined]
                                ELSE reached_equilibrium
  /\ UNCHANGED <<main, created, k_states, plate_k, matrixVars, threadVars>>

\* The verdict of a joined thread is collected and made true again; after a
\* failed creation it goes to a temporary variable.
JoinThread ==
  /\ main \in {"join_threads", "join_created"} /\ joined < created
  /\ pc[joined] = "ended"
  /\ joined' = joined + 1
  /\ reached_equilibrium' =
       IF main = "join_threads" THEN reached_equilibrium /\ equilibrated[joined]
                                ELSE reached_equilibrium
  /\ equilibrated' = [equilibrated EXCEPT ![joined] = TRUE]
  /\ UNCHANGED <<main, created, k_states, plate_k, matrixVars, row, pc>>

AllJoined ==
  /\ main = "join_threads" /\ joined = created
  /\ main' = "while"
  /\ k_states' = k_states + 1
  /\ UNCHANGED <<created, joined, reached_equilibrium, plate_k, matrixVars,
                 threadVars>>

\* Mistake: the error is returned after joining a whole team.
ReturnErrorAfterTeam ==
  /\ main = "join_created" /\ joined = ThreadCount
  /\ main' = "failed"
  /\ UNCHANGED <<created, joined, k_states, reached_equilibrium, plate_k,
                 matrixVars, threadVars>>

ReturnError ==
  /\ main = "join_created" /\ joined = created
  /\ main' = "failed"
  /\ UNCHANGED <<created, joined, k_states, reached_equilibrium, plate_k,
                 matrixVars, threadVars>>

StoreResult ==
  /\ main = "while" /\ reached_equilibrium
  /\ main' = "returned"
  /\ plate_k' = k_states
  /\ UNCHANGED <<created, joined, k_states, reached_equilibrium, matrixVars,
                 threadVars>>

MainStep ==
  \/ StartState
  \/ CreateThread
  \/ CreateFails
  \/ AllCreated
  \/ JoinThread
  \/ AllJoined
  \/ ReturnError
  \/ StoreResult

-----------------------------------------------------------------------------
(* A thread of the team: equilibrate_rows *)

UpdateRow(t) ==
  /\ pc[t] = "rows" /\ row[t] <= ending_row(t)
  /\ buffer' = [buffer EXCEPT ![matrix][row[t]] =
                  UpdatedRow(buffer[auxiliary_matrix], buffer[matrix], row[t])]
  /\ equilibrated' =
       [equilibrated EXCEPT ![t] =
          @ /\ ~ RowChanged(buffer[auxiliary_matrix], buffer'[matrix], row[t])]
  /\ row' = [row EXCEPT ![t] = @ + 1]
  /\ UNCHANGED <<mainVars, matrix, auxiliary_matrix, pc>>

EndThread(t) ==
  /\ pc[t] = "rows" /\ row[t] > ending_row(t)
  /\ pc' = [pc EXCEPT ![t] = "ended"]
  /\ UNCHANGED <<mainVars, matrixVars, equilibrated, row>>

ThreadStep(t) == UpdateRow(t) \/ EndThread(t)

\* equilibrate_plate is over, with its result or an error.
Finished ==
  /\ main \in {"returned", "failed"}
  /\ UNCHANGED vars

Next == MainStep \/ (\E t \in Threads : ThreadStep(t)) \/ Finished

Spec == Init /\ [][Next]_vars

\* The scheduler runs every thread that can run.
Fairness == WF_vars(MainStep) /\ \A t \in Threads : WF_vars(ThreadStep(t))
FairSpec == Spec /\ Fairness

-----------------------------------------------------------------------------
(* Properties *)

TypeOK ==
  /\ main \in MainLabels
  /\ created \in 0 .. ThreadCount
  /\ joined \in 0 .. created
  /\ k_states \in Nat /\ plate_k \in Nat
  /\ reached_equilibrium \in BOOLEAN
  /\ buffer \in [Buffers -> PlateType]
  /\ matrix \in Buffers /\ auxiliary_matrix \in Buffers
  /\ equilibrated \in [Threads -> BOOLEAN]
  /\ row \in [Threads -> Nat]
  /\ \A t \in Threads : row[t] \in starting_row(t) .. ending_row(t) + 1
  /\ pc \in [Threads -> {"rows", "ended"}]

\* Between two states, and when equilibrate_plate returns, with its result or
\* an error, no thread runs and every verdict is ready for the next team
\* (threads.c: join_threads waits for each thread and makes its verdict true).
NoThreadBetweenStates ==
  main \in {"while", "returned", "failed"} =>
    \A t \in Threads : pc[t] = "ended" /\ equilibrated[t]

\* Two threads of a team never write the same row, and each writes inner rows
\* only (threads.c: the blocks of init_private_data).
OneWriterPerRow ==
  \A t \in Threads : pc[t] = "rows" /\ row[t] <= ending_row(t) =>
    /\ row[t] \in InnerRows
    /\ \A u \in Threads \ {t} : pc[u] = "rows" /\ row[u] <= ending_row(u)
                                  => row[u] # row[t]

\* The state of the serial loop that a state of this program stands for: while
\* a team works the current plate is the one the threads read.
CurrentPlate ==
  buffer[IF main \in {"while", "returned"} THEN matrix ELSE auxiliary_matrix]

VerdictReached == reached_equilibrium /\ main \in {"while", "returned"}

Abstract == INSTANCE Equilibrium WITH
  plate <- CurrentPlate, k_states <- k_states,
  reached_equilibrium <- VerdictReached

\* The teams compute the states the serial loop computes and stop where it
\* stops.
ImplementsEquilibrium == Abstract!Spec

\* The call returns, also when a thread cannot be created: the threads of an
\* incomplete team end by themselves.
Termination == <>(main \in {"returned", "failed"})

-----------------------------------------------------------------------------
(* The inductive invariant *)

\* What the main thread knows of the team: the threads not created yet and
\* those joined do not run and their verdicts are ready for another state; a
\* thread that ended has gone through its block.
TeamInv ==
  /\ \A t \in Threads : t < joined \/ t >= created => pc[t] = "ended" /\ equilibrated[t]
  /\ \A t \in Threads : t < created /\ pc[t] = "ended" => row[t] = ending_row(t) + 1
  /\ main = "create_threads" => joined = 0
  /\ main = "join_threads" => created = ThreadCount
  /\ main \in {"while", "returned", "failed"} => joined = created

\* The two matrices are distinct and have the same border.
MatrixInv ==
  /\ matrix # auxiliary_matrix
  /\ \A r \in Rows, c \in Cols :
       r \notin InnerRows \/ c \notin InnerCols =>
         buffer["first"][r][c] = buffer["second"][r][c]

RowsOf(t) == starting_row(t) .. ending_row(t)

\* The rows of the state in preparation that a thread has updated.
Written(t) == {r \in RowsOf(t) : t < created /\ r < row[t]}

Unchanged(t) ==
  \A r \in Written(t) : ~ RowChanged(buffer[auxiliary_matrix], buffer[matrix], r)

\* While a team works the rows written hold the next state; the verdict of a
\* thread that was not joined is about the rows it wrote, and the verdict
\* collected so far about the rows of the threads that were.
StateInv ==
  main \in {"create_threads", "join_threads"} =>
    /\ \A t \in Threads : \A r \in Written(t) : \A c \in InnerCols :
         buffer[matrix][r][c] = UpdateCell(buffer[auxiliary_matrix], r, c)
    /\ \A t \in Threads : t >= joined => (equilibrated[t] <=> Unchanged(t))
    /\ main = "create_threads" => ~ reached_equilibrium
    /\ main = "join_threads" =>
         (reached_equilibrium <=> \A t \in Threads : t < joined => Unchanged(t))

IInv == TypeOK /\ TeamInv /\ MatrixInv /\ StateInv
=============================================================================
