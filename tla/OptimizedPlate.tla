--------------------------- MODULE OptimizedPlate ---------------------------
(***************************************************************************)
(* homeworks/optimized/pthread_optimized: a plate equilibrated by a team   *)
(* of threads created once.  The team goes through the states of the plate *)
(* in lock step with two barriers; each thread updates its own rows, joins *)
(* its verdict to a shared flag under a mutex, and the serial thread of    *)
(* the first barrier counts the state and swaps the two matrices.          *)
(*                                                                         *)
(* Grain.  A step of a thread is one row, one critical section, one        *)
(* arrival at a barrier, or one section run by the serial thread alone.    *)
(* A row is written by one thread only, from a matrix nobody writes        *)
(* (OneWriterPerRow and SwapExcludesUpdates), so a row may be one step.  *)
(*                                                                         *)
(* Barriers.  A thread waits in can_continue1 or can_continue2 when its    *)
(* program counter is at one of that barrier's two waits; the arrival that *)
(* completes the team releases everybody at once, and any one of them gets *)
(* PTHREAD_BARRIER_SERIAL_THREAD (POSIX does not say which).               *)
(***************************************************************************)
EXTENDS PlateMatrix, StaticMap

CONSTANTS
  RequestedThreads,   (* thread_count argument of the program               *)
  CreateMayFail       (* threads whose pthread_create may return an error   *)

ASSUME TeamAssumption ==
  /\ RequestedThreads \in Nat \ {0}
  /\ CreateMayFail \subseteq Nat

ThreadCount == TeamSize(RequestedThreads, RowCount - 2)
Threads     == 0 .. ThreadCount - 1

starting_row(t) == StartingRow(t, RowCount - 2, ThreadCount)
finish_row(t)   == FinishRow(t, RowCount - 2, ThreadCount)
RowsOf(t)       == starting_row(t) .. finish_row(t) - 1

\* The two matrices plate_matrix_t allocates; its two pointers name them.
Buffers == {"first", "second"}

VARIABLES
  (* main thread: equilibrate_plate, create_threads, join_threads           *)
  main,               (* where the main thread is                           *)
  created,            (* threads created so far                             *)
  joined,             (* threads joined so far                              *)
  plate_k,            (* curr_plate->k_states                               *)
  (* plate_matrix_t                                                         *)
  buffer,             (* contents of the two matrices                       *)
  matrix,             (* pointer to the matrix being written                *)
  auxiliary_matrix,   (* pointer to the matrix being read                   *)
  (* shared_data_t                                                          *)
  equilibrated_plate,
  k_states,
  (* private_data_t and locals, one per thread                              *)
  equilibrated,
  row,                (* next row of the loop of equilibrate_rows           *)
  pc

mainVars   == <<main, created, joined, plate_k>>
matrixVars == <<buffer, matrix, auxiliary_matrix>>
sharedVars == <<equilibrated_plate, k_states>>
threadVars == <<equilibrated, row, pc>>
vars == <<mainVars, matrixVars, sharedVars, threadVars>>

MainLabels == {"set_auxiliary", "create_threads", "join_threads",
               "restore", "join_created", "returned", "failed"}

Labels == {"unborn", "rows", "publish",
           "arrive1", "wait1", "advance", "arrive2", "wait2",
           "check", "arrive1b", "wait1b", "reset", "arrive2b", "wait2b",
           "done"}

Init ==
  /\ main = "set_auxiliary"
  /\ created = 0 /\ joined = 0 /\ plate_k = 0
  /\ matrix = "first" /\ auxiliary_matrix = "second"
  /\ \E plate \in InitialPlates :
        buffer = [b \in Buffers |-> IF b = "first" THEN plate
                                                   ELSE InitAuxiliary(plate)]
  /\ equilibrated_plate = TRUE
  /\ k_states = 0
  /\ equilibrated = [t \in Threads |-> TRUE]
  /\ row = [t \in Threads |-> starting_row(t)]
  /\ pc = [t \in Threads |-> "unborn"]

set_auxiliary ==
  /\ matrix' = auxiliary_matrix
  /\ auxiliary_matrix' = matrix
  /\ UNCHANGED buffer

-----------------------------------------------------------------------------
(* The main thread *)

PrepareMatrices ==
  /\ main = "set_auxiliary"
  /\ main' = "create_threads"
  /\ set_auxiliary
  /\ UNCHANGED <<created, joined, plate_k, sharedVars, threadVars>>

\* The thread starts with private_data->equilibrated = true and its first row.
CreateThread ==
  /\ main = "create_threads" /\ created < ThreadCount
  /\ created' = created + 1
  /\ pc' = [pc EXCEPT ![created] = "rows"]
  /\ equilibrated' = [equilibrated EXCEPT ![created] = TRUE]
  /\ row' = [row EXCEPT ![created] = starting_row(created)]
  /\ UNCHANGED <<main, joined, plate_k, matrixVars, sharedVars>>

\* pthread_create fails: the threads already created are joined.
CreateFails ==
  /\ main = "create_threads" /\ created < ThreadCount
  /\ created \in CreateMayFail
  /\ main' = "join_created"
  /\ UNCHANGED <<created, joined, plate_k, matrixVars, sharedVars, threadVars>>

AllCreated ==
  /\ main = "create_threads" /\ created = ThreadCount
  /\ main' = "join_threads"
  /\ UNCHANGED <<created, joined, plate_k, matrixVars, sharedVars, threadVars>>

\* pthread_join of the next thread, in the order they were created.
JoinThread ==
  /\ main \in {"join_threads", "join_created"} /\ joined < created
  /\ pc[joined] = "done"
  /\ joined' = joined + 1
  /\ UNCHANGED <<main, created, plate_k, matrixVars, sharedVars, threadVars>>

\* Mistake: the loop of join_threads stops one thread early.
AllJoinedButOne ==
  /\ main \in {"join_threads", "join_created"} /\ joined + 1 = created
  /\ main' = IF main = "join_threads" THEN "restore" ELSE "failed"
  /\ UNCHANGED <<created, joined, plate_k, matrixVars, sharedVars, threadVars>>

AllJoined ==
  /\ main \in {"join_threads", "join_created"} /\ joined = created
  /\ main' = IF main = "join_threads" THEN "restore" ELSE "failed"
  /\ UNCHANGED <<created, joined, plate_k, matrixVars, sharedVars, threadVars>>

\* Mistake: the matrices are left as the team left them.
StoreResultOfAuxiliary ==
  /\ main = "restore"
  /\ main' = "returned"
  /\ plate_k' = k_states
  /\ UNCHANGED <<created, joined, matrixVars, sharedVars, threadVars>>

\* The last state is in the auxiliary matrix: main swaps once more and stores
\* the number of states in the plate.
StoreResult ==
  /\ main = "restore"
  /\ main' = "returned"
  /\ set_auxiliary
  /\ plate_k' = k_states
  /\ UNCHANGED <<created, joined, sharedVars, threadVars>>

MainStep ==
  \/ PrepareMatrices
  \/ CreateThread
  \/ CreateFails
  \/ AllCreated
  \/ JoinThread
  \/ AllJoined
  \/ StoreResult

-----------------------------------------------------------------------------
(* A thread of the team: equilibrate_plate_concurrent *)

\* One row of equilibrate_rows.
UpdateRow(t) ==
  LET new == UpdatedRow(buffer[auxiliary_matrix], buffer[matrix], row[t])
  IN
  /\ pc[t] = "rows" /\ row[t] < finish_row(t)
  /\ buffer' = [buffer EXCEPT ![matrix][row[t]] = new]
  /\ equilibrated' =
       [equilibrated EXCEPT ![t] =
          @ /\ ~ RowChanged(buffer[auxiliary_matrix], buffer'[matrix], row[t])]
  /\ row' = [row EXCEPT ![t] = @ + 1]
  /\ UNCHANGED <<mainVars, matrix, auxiliary_matrix, sharedVars, pc>>

RowsDone(t) ==
  /\ pc[t] = "rows" /\ row[t] = finish_row(t)
  /\ pc' = [pc EXCEPT ![t] = "publish"]
  /\ UNCHANGED <<mainVars, matrixVars, sharedVars, equilibrated, row>>

\* equilibrated_plate &= private_data->equilibrated, under the mutex.
Publish(t) ==
  /\ pc[t] = "publish"
  /\ equilibrated_plate' = (equilibrated_plate /\ equilibrated[t])
  /\ pc' = [pc EXCEPT ![t] = "arrive1"]
  /\ UNCHANGED <<mainVars, matrixVars, k_states, equilibrated, row>>

\* The threads blocked in each barrier, wherever in the loop they called it.
Waiting1 == {t \in Threads : pc[t] \in {"wait1", "wait1b"}}
Waiting2 == {t \in Threads : pc[t] \in {"wait2", "wait2b"}}

\* Mistake: no second wait for the threads that do not swap.
Arrive1ThenCheck(t) ==
  /\ pc[t] \in {"arrive1", "arrive1b"}
  /\ \/ /\ Waiting1 \cup {t} # Threads
        /\ pc' = [pc EXCEPT ![t] = IF @ = "arrive1" THEN "wait1" ELSE "wait1b"]
     \/ /\ Waiting1 \cup {t} = Threads
        /\ \E serial \in Threads :
             pc' = [u \in Threads |->
                      IF pc[u] \in {"arrive1", "wait1"}
                        THEN IF u = serial THEN "advance" ELSE "check"
                        ELSE IF u = serial THEN "reset" ELSE "arrive2b"]
  /\ UNCHANGED <<mainVars, matrixVars, sharedVars, equilibrated, row>>

Arrive1(t) ==
  /\ pc[t] \in {"arrive1", "arrive1b"}
  /\ \/ /\ Waiting1 \cup {t} # Threads
        /\ pc' = [pc EXCEPT ![t] = IF @ = "arrive1" THEN "wait1" ELSE "wait1b"]
     \/ /\ Waiting1 \cup {t} = Threads
        /\ \E serial \in Threads :
             pc' = [u \in Threads |->
                      IF pc[u] \in {"arrive1", "wait1"}
                        THEN IF u = serial THEN "advance" ELSE "arrive2"
                        ELSE IF u = serial THEN "reset" ELSE "arrive2b"]
  /\ UNCHANGED <<mainVars, matrixVars, sharedVars, equilibrated, row>>

\* Mistakes: the flag is reset here; the serial thread skips the second wait.
AdvanceAndReset(t) ==
  /\ pc[t] = "advance"
  /\ k_states' = k_states + 1
  /\ set_auxiliary
  /\ equilibrated_plate' = TRUE
  /\ pc' = [pc EXCEPT ![t] = "arrive2"]
  /\ UNCHANGED <<mainVars, equilibrated, row>>

AdvanceThenCheck(t) ==
  /\ pc[t] = "advance"
  /\ k_states' = k_states + 1
  /\ set_auxiliary
  /\ pc' = [pc EXCEPT ![t] = "check"]
  /\ UNCHANGED <<mainVars, equilibrated_plate, equilibrated, row>>

\* The serial thread of the first wait: ++k_states and set_auxiliary.
Advance(t) ==
  /\ pc[t] = "advance"
  /\ k_states' = k_states + 1
  /\ set_auxiliary
  /\ pc' = [pc EXCEPT ![t] = "arrive2"]
  /\ UNCHANGED <<mainVars, equilibrated_plate, equilibrated, row>>

\* Leaving the second wait a thread goes to check the flag; leaving the fourth
\* it starts a new turn of the loop: its private flag is reset, its rows too.
Arrive2(t) ==
  /\ pc[t] \in {"arrive2", "arrive2b"}
  /\ \/ /\ Waiting2 \cup {t} # Threads
        /\ pc' = [pc EXCEPT ![t] = IF @ = "arrive2" THEN "wait2" ELSE "wait2b"]
        /\ UNCHANGED <<equilibrated, row>>
     \/ LET again == {u \in Threads : pc[u] \in {"arrive2b", "wait2b"}} IN
        /\ Waiting2 \cup {t} = Threads
        /\ pc' = [u \in Threads |-> IF u \in again THEN "rows" ELSE "check"]
        /\ equilibrated' = [u \in Threads |-> equilibrated[u] \/ u \in again]
        /\ row' = [u \in Threads |-> IF u \in again THEN starting_row(u)
                                                    ELSE row[u]]
  /\ UNCHANGED <<mainVars, matrixVars, sharedVars>>

\* Mistake: no wait between reading the flag and resetting it.
CheckThenReset(t) ==
  /\ pc[t] = "check"
  /\ pc' = [pc EXCEPT ![t] = IF equilibrated_plate THEN "done" ELSE "reset"]
  /\ UNCHANGED <<mainVars, matrixVars, sharedVars, equilibrated, row>>

\* done = equilibrated_plate, under the mutex; if (done) break.
CheckDone(t) ==
  /\ pc[t] = "check"
  /\ pc' = [pc EXCEPT ![t] = IF equilibrated_plate THEN "done" ELSE "arrive1b"]
  /\ UNCHANGED <<mainVars, matrixVars, sharedVars, equilibrated, row>>

\* The serial thread of the third wait sets the flag for the next state.
ResetFlag(t) ==
  /\ pc[t] = "reset"
  /\ equilibrated_plate' = TRUE
  /\ pc' = [pc EXCEPT ![t] = "arrive2b"]
  /\ UNCHANGED <<mainVars, matrixVars, k_states, equilibrated, row>>

ThreadStep(t) ==
  \/ UpdateRow(t)
  \/ RowsDone(t)
  \/ Publish(t)
  \/ Arrive1(t)
  \/ Advance(t)
  \/ Arrive2(t)
  \/ CheckDone(t)
  \/ ResetFlag(t)

\* equilibrate_plate is over, with its result or an error.
Finished ==
  /\ main \in {"returned", "failed"}
  /\ UNCHANGED vars

Next == MainStep \/ (\E t \in Threads : ThreadStep(t)) \/ Finished

Spec == Init /\ [][Next]_vars

\* The scheduler runs every thread that can run.
Fairness == WF_vars(MainStep) /\ \A t \in Threads : WF_vars(ThreadStep(t))
FairSpec == Spec /\ Fairness

-----------------------------------------------------------------------------
(* Properties *)

TypeOK ==
  /\ main \in MainLabels
  /\ created \in 0 .. ThreadCount
  /\ joined \in 0 .. created
  /\ plate_k \in Nat
  /\ buffer \in [Buffers -> PlateType]
  /\ matrix \in Buffers /\ auxiliary_matrix \in Buffers
  /\ equilibrated_plate \in BOOLEAN
  /\ k_states \in Nat
  /\ equilibrated \in [Threads -> BOOLEAN]
  /\ row \in [Threads -> Nat]
  /\ \A t \in Threads : row[t] \in starting_row(t) .. finish_row(t)
  /\ pc \in [Threads -> Labels]

\* While the serial thread swaps the matrices every other thread is between
\* the two barriers: nobody updates a row, publishes a verdict or reads one
\* (plate.c: the two pthread_barrier_wait around set_auxiliary).
SwapExcludesUpdates ==
  \A t \in Threads : pc[t] = "advance" =>
    \A u \in Threads \ {t} : pc[u] \in {"arrive2", "wait2"}

\* Two threads never write the same row of a state, and each writes inner rows
\* only (threads.c: the blocks init_private_data hands out).
OneWriterPerRow ==
  \A t \in Threads : pc[t] = "rows" /\ row[t] < finish_row(t) =>
    /\ row[t] \in InnerRows
    /\ matrix # auxiliary_matrix
    /\ \A u \in Threads \ {t} : pc[u] = "rows" /\ row[u] < finish_row(u)
                                  => row[u] # row[t]

\* When one thread has left the loop all of them leave it at the same state:
\* no thread stays behind to wait at a barrier nobody else will reach
\* (plate.c: done is read between two barriers).
SameVerdict ==
  (\E t \in Threads : pc[t] = "done") =>
    equilibrated_plate /\ \A u \in Threads : pc[u] \in {"check", "done"}

\* The shared flag is not touched while some thread has yet to read it: the
\* verdict of a state is not overwritten by the reset for the next one
\* (plate.c: "Prevent equilibrated plate change during simul").
VerdictFrozen ==
  [][(\E t \in Threads : pc[t] \in {"wait2", "check"}) =>
        equilibrated_plate' = equilibrated_plate]_vars

\* When equilibrate_plate frees the team and its stack frame goes away, no
\* thread that uses them is still running (job.c: join_threads before free).
NoThreadOutlivesTeam ==
  main \in {"returned", "failed"} =>
    \A t \in Threads : pc[t] \in {"unborn", "done"}

\* The state of the abstract loop that a state of the team stands for.  While
\* the team exists the current plate is the one the threads read; before and
\* after, it is the one the main thread gave or gets.  The verdict counts from
\* the swap until the reset.
CurrentPlate ==
  buffer[IF main \in {"set_auxiliary", "returned"} THEN matrix
                                                   ELSE auxiliary_matrix]

ReportedStates == IF main = "returned" THEN plate_k ELSE k_states

VerdictReached ==
  /\ equilibrated_plate
  /\ \A t \in Threads : pc[t] \in {"arrive2", "wait2", "check", "done"}

Abstract == INSTANCE Equilibrium WITH
  plate <- CurrentPlate, k_states <- ReportedStates,
  reached_equilibrium <- VerdictReached

\* The team computes the states the serial loop computes, one whole state at a
\* time, stops where it stops, and hands that plate and its number back.
ImplementsEquilibrium == Abstract!Spec

\* Every plate whose diffusion settles is equilibrated and the call returns
\* (or reports that no thread could be created).
Termination == <>(main \in {"returned", "failed"})

\* threads.h: "On failure, it joins already created threads and returns an
\* error code."
CreateFailureReturns == (main = "join_created") ~> (main = "failed")

-----------------------------------------------------------------------------
(* The inductive invariant *)

\* The phases the two barriers force the whole team through.
Working ==
  \A t \in Threads : pc[t] \in {"unborn", "rows", "publish", "arrive1", "wait1"}

Swapping ==
  \E s \in Threads :
    /\ pc[s] = "advance"
    /\ \A t \in Threads \ {s} : pc[t] \in {"arrive2", "wait2"}

Swapped == \A t \in Threads : pc[t] \in {"arrive2", "wait2"}

Checking ==
  \A t \in Threads :
    \/ pc[t] = "check"
    \/ pc[t] = "done" /\ equilibrated_plate
    \/ pc[t] \in {"arrive1b", "wait1b"} /\ ~ equilibrated_plate

Resetting ==
  /\ ~ equilibrated_plate
  /\ \E s \in Threads :
       /\ pc[s] = "reset"
       /\ \A t \in Threads \ {s} : pc[t] \in {"arrive2b", "wait2b"}

Restarting ==
  /\ equilibrated_plate
  /\ \A t \in Threads : pc[t] \in {"arrive2b", "wait2b"}

PhaseInv ==
  Working \/ Swapping \/ Swapped \/ Checking \/ Resetting \/ Restarting

\* What the main thread knows of the team.
MainInv ==
  /\ \A t \in Threads : pc[t] = "unborn" <=> t >= created
  /\ main = "set_auxiliary" => created = 0
  /\ main \in {"join_threads", "restore", "returned"} => created = ThreadCount
  /\ \A t \in Threads : t < joined => pc[t] = "done"
  /\ main \in {"restore", "returned", "failed"} => joined = created
  /\ main = "returned" => plate_k = k_states

\* The two matrices are distinct and have the same border.
MatrixInv ==
  /\ matrix # auxiliary_matrix
  /\ \A r \in Rows, c \in Cols :
       r \notin InnerRows \/ c \notin InnerCols =>
         buffer["first"][r][c] = buffer["second"][r][c]

\* The thread has written all its rows of the state in preparation, and has
\* joined its verdict on them to the shared flag.
Complete(t) ==
  pc[t] \in {"publish", "arrive1", "wait1"} \/ \E s \in Threads : pc[s] = "advance"

Counted(t) ==
  pc[t] \in {"arrive1", "wait1"} \/ \E s \in Threads : pc[s] = "advance"

Written(t) ==
  {r \in RowsOf(t) : Complete(t) \/ (pc[t] = "rows" /\ r < row[t])}

\* The rows written hold the next state, and the verdicts are about them.
StateInv ==
  /\ \A t \in Threads : \A r \in Written(t) : \A c \in InnerCols :
       buffer[matrix][r][c] = UpdateCell(buffer[auxiliary_matrix], r, c)
  /\ \A t \in Threads :
       pc[t] = "rows" \/ Complete(t) =>
         (equilibrated[t] <=>
            \A r \in Written(t) :
              ~ RowChanged(buffer[auxiliary_matrix], buffer[matrix], r))
  /\ Working \/ Swapping =>
       (equilibrated_plate <=>
          \A t \in Threads : Counted(t) => equilibrated[t])

IInv == TypeOK /\ PhaseInv /\ MainInv /\ MatrixInv /\ StateInv
=============================================================================
