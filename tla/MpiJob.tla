------------------------------- MODULE MpiJob -------------------------------
(***************************************************************************)
(* homeworks/omp_mpi: the plates of a job simulated by several processes.  *)
(* The master (process 0) hands out plate indices, one at a time; a worker *)
(* simulates the plate, writes its file and answers with two messages, the *)
(* index and the number of states, which the master pairs by receiving the *)
(* first from any source and the second from that source.  The index       *)
(* plates_count tells a worker to leave.                                   *)
(*                                                                         *)
(* MPI.  Messages between two processes arrive in the order they were sent *)
(* and none is lost; nothing orders the messages of different senders.  A  *)
(* send of one int is buffered.  MPI_COMM_WORLD has the default error      *)
(* handler, which ends every process, so no call returns an error.         *)
(*                                                                         *)
(* Grain.  A step is one receive with the local code and the send after it,*)
(* or one send of a loop.                                                  *)
(***************************************************************************)
EXTENDS Integers, Sequences, FiniteSets

CONSTANTS
  ProcessCounts,  (* the -np the program may be started with               *)
  JobSizes,       (* the numbers of plates a job file may list             *)
  StatesOf(_),    (* the states that equilibrate the plate of an index     *)
  IntRange        (* an MPI_INT carries the low 32 bits of a uint64_t      *)

ASSUME MpiAssumption ==
  /\ ProcessCounts \subseteq Nat \ {0}
  /\ JobSizes \subseteq Nat
  /\ IntRange \in Nat \ {0}
  /\ \A size \in JobSizes : \A plate \in 0 .. size - 1 : StatesOf(plate) \in Nat

VARIABLES
  process_count, plates_count,      (* fixed when the program starts       *)
  (* master                                                                *)
  master,              (* where the master is                              *)
  process_number,      (* loop variable of the two loops over processes    *)
  current_plate_idx,
  available_workers,
  source,              (* status.MPI_SOURCE                                *)
  received_plate_idx,
  k_states,            (* job->plates[...]->k_states of the master         *)
  (* network: one channel from and one to each worker                      *)
  to_worker, from_worker,
  (* workers                                                               *)
  worker,              (* where each worker is                             *)
  working_plate_idx,
  (* disk                                                                  *)
  plate_files          (* times the updated file of each plate was written *)

started    == <<process_count, plates_count>>
masterVars == <<master, process_number, current_plate_idx, available_workers,
                source, received_plate_idx, k_states>>
workerVars == <<worker, working_plate_idx>>
vars == <<started, masterVars, to_worker, from_worker, workerVars, plate_files>>

Workers == 1 .. process_count - 1
Plates  == 0 .. plates_count - 1

\* Worker processes that are given plates: no more than there are plates.
working_processes ==
  IF process_count - 1 < plates_count THEN process_count - 1 ELSE plates_count

MasterLabels == {"process_plates", "distribute", "receive_index",
                 "receive_states", "stop", "report"}

WorkerLabels == {"receive", "process_plate", "send_index", "send_states", "done"}

Init ==
  /\ process_count \in ProcessCounts
  /\ plates_count \in JobSizes
  /\ master = IF process_count > 1 THEN "distribute" ELSE "process_plates"
  /\ process_number = 1
  /\ current_plate_idx = 0
  /\ available_workers = working_processes
  /\ source = 0
  /\ received_plate_idx = -1
  /\ k_states = [plate \in Plates |-> 0]
  /\ to_worker = [w \in Workers |-> <<>>]
  /\ from_worker = [w \in Workers |-> <<>>]
  /\ worker = [w \in Workers |-> "receive"]
  /\ working_plate_idx = [w \in Workers |-> 0]
  /\ plate_files = [plate \in Plates |-> 0]

SendToWorker(w, index) ==
  to_worker' = [to_worker EXCEPT ![w] = Append(@, index)]

SendToMaster(w, number) ==
  from_worker' = [from_worker EXCEPT ![w] = Append(@, number)]

-----------------------------------------------------------------------------
(* The master *)

\* Without workers the process simulates every plate itself, in order.
ProcessPlates ==
  /\ master = "process_plates"
  /\ \/ /\ current_plate_idx < plates_count
        /\ k_states' = [k_states EXCEPT ![current_plate_idx] =
                                   StatesOf(current_plate_idx)]
        /\ plate_files' = [plate_files EXCEPT ![current_plate_idx] = @ + 1]
        /\ current_plate_idx' = current_plate_idx + 1
        /\ UNCHANGED master
     \/ /\ current_plate_idx = plates_count
        /\ master' = "report"
        /\ UNCHANGED <<k_states, plate_files, current_plate_idx>>
  /\ UNCHANGED <<started, process_number, available_workers, source,
                 received_plate_idx, to_worker, from_worker, workerVars>>

\* Mistake: current_plate_idx does not move on to the next plate.
DistributeSamePlate ==
  /\ master = "distribute" /\ process_number < working_processes
  /\ SendToWorker(process_number, current_plate_idx)
  /\ available_workers' = available_workers - 1
  /\ process_number' = process_number + 1
  /\ UNCHANGED <<started, master, current_plate_idx, source,
                 received_plate_idx, k_states, from_worker, workerVars,
                 plate_files>>

\* The initial distribution: the loop ends before process working_processes.
Distribute ==
  /\ master = "distribute" /\ process_number < working_processes
  /\ SendToWorker(process_number, current_plate_idx)
  /\ current_plate_idx' = current_plate_idx + 1
  /\ available_workers' = available_workers - 1
  /\ process_number' = process_number + 1
  /\ UNCHANGED <<started, master, source, received_plate_idx, k_states,
                 from_worker, workerVars, plate_files>>

Distributed ==
  /\ master = "distribute" /\ process_number >= working_processes
  /\ master' = "receive_index"
  /\ UNCHANGED <<started, process_number, current_plate_idx, available_workers,
                 source, received_plate_idx, k_states, to_worker, from_worker,
                 workerVars, plate_files>>

\* MPI_Recv from MPI_ANY_SOURCE.
ReceiveIndex ==
  /\ master = "receive_index"
  /\ \E w \in Workers :
       /\ from_worker[w] # <<>>
       /\ received_plate_idx' = Head(from_worker[w])
       /\ source' = w
       /\ from_worker' = [from_worker EXCEPT ![w] = Tail(@)]
  /\ master' = "receive_states"
  /\ UNCHANGED <<started, process_number, current_plate_idx, available_workers,
                 k_states, to_worker, workerVars, plate_files>>

\* The processes the second receive accepts a message from.
AnyProcess == Workers
StatesFrom == {source}

\* Every worker is on standby again.
NoPlateLeft(available) == TRUE
OneStillWorks(available) == available >= working_processes - 1
AllAvailable(available) == available = working_processes

\* The states are recorded, and the source of the index gets the next plate if
\* there is one; the master leaves the loop when no plate is out.
ReceiveStates ==
  /\ master = "receive_states"
  /\ \E w \in StatesFrom :
       /\ from_worker[w] # <<>>
       /\ from_worker' = [from_worker EXCEPT ![w] = Tail(@)]
       /\ k_states' = [plate \in Plates |->
                         IF plate = received_plate_idx THEN Head(from_worker[w])
                                                       ELSE k_states[plate]]
  /\ \/ /\ current_plate_idx < plates_count
        /\ SendToWorker(source, current_plate_idx)
        /\ current_plate_idx' = current_plate_idx + 1
        /\ master' = "receive_index"
        /\ UNCHANGED <<available_workers, process_number>>
     \/ /\ current_plate_idx >= plates_count
        /\ available_workers' = available_workers + 1
        /\ IF AllAvailable(available_workers + 1)
             THEN master' = "stop" /\ process_number' = 1
             ELSE master' = "receive_index" /\ UNCHANGED process_number
        /\ UNCHANGED <<current_plate_idx, to_worker>>
  /\ UNCHANGED <<started, source, received_plate_idx, workerVars, plate_files>>

\* job_master_stop_workers: every worker, the idle ones too.  StopWorking
\* is a mistaken condition of its loop.
StopWorking  == process_number <= working_processes
StopAgain    == process_number < process_count

StopWorkers ==
  /\ master = "stop"
  /\ \/ /\ StopAgain
        /\ SendToWorker(process_number, plates_count)
        /\ process_number' = process_number + 1
        /\ UNCHANGED master
     \/ /\ ~ StopAgain
        /\ master' = "report"
        /\ UNCHANGED <<process_number, to_worker>>
  /\ UNCHANGED <<started, current_plate_idx, available_workers, source,
                 received_plate_idx, k_states, from_worker, workerVars,
                 plate_files>>

MasterStep ==
  \/ ProcessPlates
  \/ Distribute
  \/ Distributed
  \/ ReceiveIndex
  \/ ReceiveStates
  \/ StopWorkers

-----------------------------------------------------------------------------
(* A worker *)

ReceivePlate(w) ==
  /\ worker[w] = "receive" /\ to_worker[w] # <<>>
  /\ working_plate_idx' = [working_plate_idx EXCEPT ![w] = Head(to_worker[w])]
  /\ to_worker' = [to_worker EXCEPT ![w] = Tail(@)]
  /\ worker' = [worker EXCEPT ![w] =
                  IF Head(to_worker[w]) >= plates_count THEN "done"
                                                        ELSE "process_plate"]
  /\ UNCHANGED <<started, masterVars, from_worker, plate_files>>

\* equilibrate_plate, and clean_plate writes the file.
ProcessPlate(w) ==
  /\ worker[w] = "process_plate"
  /\ plate_files' = [plate_files EXCEPT ![working_plate_idx[w]] = @ + 1]
  /\ worker' = [worker EXCEPT ![w] = "send_index"]
  /\ UNCHANGED <<started, masterVars, to_worker, from_worker, working_plate_idx>>

SendIndex(w) ==
  /\ worker[w] = "send_index"
  /\ SendToMaster(w, working_plate_idx[w])
  /\ worker' = [worker EXCEPT ![w] = "send_states"]
  /\ UNCHANGED <<started, masterVars, to_worker, working_plate_idx, plate_files>>

\* One MPI_INT read from a uint64_t, and received in a uint64_t that is 0.
SentStates(plate) == StatesOf(plate) % IntRange

SendStates(w) ==
  /\ worker[w] = "send_states"
  /\ SendToMaster(w, SentStates(working_plate_idx[w]))
  /\ worker' = [worker EXCEPT ![w] = "receive"]
  /\ UNCHANGED <<started, masterVars, to_worker, working_plate_idx, plate_files>>

WorkerStep(w) ==
  \/ ReceivePlate(w)
  \/ ProcessPlate(w)
  \/ SendIndex(w)
  \/ SendStates(w)

\* Every process has left simulate.
Finished ==
  /\ master = "report"
  /\ \A w \in Workers : worker[w] = "done"
  /\ UNCHANGED vars

Next == MasterStep \/ (\E w \in Workers : WorkerStep(w)) \/ Finished

Spec == Init /\ [][Next]_vars

\* Every process runs on; every message sent can be received.
Processes == UNION {1 .. count - 1 : count \in ProcessCounts}

Fairness ==
  /\ WF_vars(MasterStep)
  /\ \A w \in Processes : WF_vars(w \in Workers /\ WorkerStep(w))

FairSpec == Spec /\ Fairness

-----------------------------------------------------------------------------
(* Properties *)

TypeOK ==
  /\ process_count \in ProcessCounts
  /\ plates_count \in JobSizes
  /\ master \in MasterLabels
  /\ process_number \in 1 .. process_count
  /\ current_plate_idx \in 0 .. plates_count
  /\ available_workers \in 0 .. working_processes
  /\ source \in 0 .. process_count - 1
  /\ received_plate_idx \in {-1} \cup Plates
  /\ k_states \in [Plates -> Nat]
  /\ to_worker \in [Workers -> Seq(Nat)]
  /\ from_worker \in [Workers -> Seq(Nat)]
  /\ worker \in [Workers -> WorkerLabels]
  /\ working_plate_idx \in [Workers -> Nat]
  /\ plate_files \in [Plates -> Nat]

Simulating(w) == worker[w] \in {"process_plate", "send_index", "send_states"}

\* No plate is simulated twice, by one worker or by two: nobody overwrites the
\* file another worker wrote (job.c: current_plate_idx moves on at each send).
EachPlateOnce ==
  /\ \A plate \in Plates : plate_files[plate] <= 1
  /\ \A v, w \in Workers :
       Simulating(v) /\ Simulating(w) /\ v # w =>
         working_plate_idx[v] # working_plate_idx[w]

\* The number the master writes down for a plate is that of this plate: the
\* two messages of a worker are never mixed with another worker's (job.c: the
\* second receive names status.MPI_SOURCE).  A zero is a plate not heard of.
OwnStates ==
  \A plate \in Plates :
    k_states[plate] \in {0, SentStates(plate), StatesOf(plate)}

\* The report covers the whole job: when the master stops the workers and when
\* it writes the report, each plate was simulated and its states are recorded,
\* exactly when an int can carry them (job.c: the loop ends when every worker
\* is available and no plate is left).
ReportIsComplete ==
  master \in {"stop", "report"} =>
    \A plate \in Plates :
      /\ plate_files[plate] = 1
      /\ StatesOf(plate) < IntRange => k_states[plate] = StatesOf(plate)

\* A worker that has left got the signal, with every answer of it received:
\* nothing is in transit when the processes call MPI_Finalize.
NothingInTransit ==
  \A w \in Workers : worker[w] = "done" =>
    to_worker[w] = <<>> /\ from_worker[w] = <<>>

\* The job ends in every process (design/readme.adoc: "Once all plates have
\* been updated" the master "signals the other processes to end").
JobFinishes == <>(master = "report" /\ \A w \in Workers : worker[w] = "done")

-----------------------------------------------------------------------------
(* The inductive invariant *)

\* The index of a plate arrived from w and its states did not: the channel of w
\* is one message short.
Expected(w) == master = "receive_states" /\ source = w

\* What a worker may be at, its two channels included.  It has no plate ...
Idle(w) ==
  worker[w] = "receive" /\ to_worker[w] = <<>> /\ from_worker[w] = <<>> /\ ~ Expected(w)

\* ... or a plate it has not simulated yet ...
Unwritten(w, plate) ==
  /\ from_worker[w] = <<>> /\ ~ Expected(w)
  /\ \/ worker[w] = "receive" /\ to_worker[w] = <<plate>>
     \/ worker[w] = "process_plate" /\ to_worker[w] = <<>> /\ working_plate_idx[w] = plate

\* ... or one it has simulated, whose answer the master does not have in full ...
Written(w, plate) ==
  /\ to_worker[w] = <<>> /\ working_plate_idx[w] = plate
  /\ \/ /\ ~ Expected(w)
        /\ \/ worker[w] = "send_index" /\ from_worker[w] = <<>>
           \/ worker[w] = "send_states" /\ from_worker[w] = <<plate>>
           \/ worker[w] = "receive" /\ from_worker[w] = <<plate, SentStates(plate)>>
     \/ /\ Expected(w) /\ received_plate_idx = plate
        /\ \/ worker[w] = "send_states" /\ from_worker[w] = <<>>
           \/ worker[w] = "receive" /\ from_worker[w] = <<SentStates(plate)>>

\* ... or it was told to leave, and later it has left.
Told(w) ==
  /\ worker[w] = "receive" /\ to_worker[w] = <<plates_count>>
  /\ from_worker[w] = <<>> /\ ~ Expected(w)

Left(w) ==
  worker[w] = "done" /\ to_worker[w] = <<>> /\ from_worker[w] = <<>> /\ ~ Expected(w)

\* The plate is out with w.
Out(w, plate) == Unwritten(w, plate) \/ Written(w, plate)

Busy == {w \in Workers : \E plate \in Plates : Out(w, plate)}

\* The plate came back, with what its process makes of its states.
Recorded(plate) ==
  /\ plate_files[plate] = 1
  /\ k_states[plate] = IF process_count = 1 THEN StatesOf(plate) ELSE SentStates(plate)

WorkerInv == \A w \in Workers : Idle(w) \/ w \in Busy \/ Told(w) \/ Left(w)

\* A plate is still to be given, out with one worker, or recorded.
PlateInv ==
  \A plate \in Plates :
    /\ \A v, w \in Workers : Out(v, plate) /\ Out(w, plate) => v = w
    /\ \A w \in Workers : Out(w, plate) =>
         /\ plate < current_plate_idx
         /\ plate_files[plate] = IF Unwritten(w, plate) THEN 0 ELSE 1
    /\ plate >= current_plate_idx => plate_files[plate] = 0
    /\ plate < current_plate_idx =>
         Recorded(plate) \/ \E w \in Workers : Out(w, plate)

\* Where the master is tells which workers may be busy and which were told.
MasterInv ==
  /\ master = "process_plates" => process_count = 1
  /\ master \in {"distribute", "receive_index", "receive_states"} =>
       /\ process_count > 1
       /\ \A w \in Workers : Idle(w) \/ (w \in Busy /\ w < working_processes)
  /\ master = "distribute" =>
       /\ current_plate_idx = process_number - 1
       /\ \A w \in Workers : w >= process_number => Idle(w)
  /\ master = "receive_states" => source \in Workers
  /\ master \in {"stop", "report"} => current_plate_idx = plates_count
  /\ master = "stop" =>
       \A w \in Workers : IF w < process_number THEN Told(w) \/ Left(w) ELSE Idle(w)
  /\ master = "report" => \A w \in Workers : Told(w) \/ Left(w)

\* The workers on standby, the ones the master never uses among them.
CountInv == available_workers = working_processes - Cardinality(Busy)

IInv == TypeOK /\ WorkerInv /\ PlateInv /\ MasterInv /\ CountInv /\ OwnStates
=============================================================================
