------------------------------ MODULE JobFile ------------------------------
(***************************************************************************)
(* simulate, in the job.c of the four versions of the heat simulation: who *)
(* owns the memory of a job and what each failure does.                    *)
(*                                                                         *)
(* set_job reads the plates of the job file into an array that doubles;    *)
(* process_plates reads each plate file, simulates it and writes the final *)
(* plate; report_results writes the report.  Any allocation or file may    *)
(* fail (MayFail), and every failure has a code in the table of errors of  *)
(* the version's readme.adoc.  Freeing a block twice, freeing a string     *)
(* literal, and using NULL or a freed block are undefined: the model stops *)
(* at "undefined".  The simulation of a plate is in the other modules; of  *)
(* omp_mpi, simulate is that of a single process.                          *)
(***************************************************************************)
EXTENDS Integers

CONSTANTS
  StartingCapacity,   (* STARTING_CAPACITY                                 *)
  MaxPlates,          (* bound: lines of the longest job file              *)
  MayFail,            (* what may fail                                     *)
  Versions

\* The failures and their codes, all in the table of the version's readme.adoc but
\* that of "path": set_plate_matrix returns EXIT_FAILURE for a path it cannot build.
\* first_thread is the creation of the first thread of a team of optimized,
\* pthread_create that of any thread of pthread.
ErrorCode ==
  [none |-> 0, path |-> 1, job |-> 11, array |-> 11, job_file |-> 12,
   plate |-> 13, file_name |-> 14, expand |-> 15, report_path |-> 16,
   report_file |-> 17, plate_file |-> 21, output_name |-> 22, header |-> 23,
   output_path |-> 24, output_file |-> 25,
   shared |-> 31, team |-> 32, first_thread |-> 33,
   pthread_team |-> 31, pthread_create |-> 32,
   mpi_rank |-> 32, mpi_size |-> 33]

\* Failures that no code is returned for: extract_directory cannot allocate or
\* finds no '/', init_plate_matrix returns NULL, only the first of the two barriers
\* is refused, and a thread other than the first cannot be created.
Failures == (DOMAIN ErrorCode \ {"none"})
              \cup {"directory", "no_directory", "matrix", "barrier", "later_thread"}

ASSUME JobAssumption ==
  /\ StartingCapacity \in Nat \ {0}
  /\ MaxPlates \in Nat
  /\ MayFail \subseteq Failures
  /\ Versions \subseteq {"serial", "pthread", "optimized", "omp_mpi"}

VARIABLES
  version, lines,     (* the program and the length of its job file        *)
  pc, after,          (* what runs next, and after destroy_job             *)
  job_plates_count, plates_capacity, plate_number,
  memory,             (* the state of every block                          *)
  error, failed,      (* the code simulate returns, and the failure met    *)
  written, reported   (* plates whose final file, and report, were written *)

counts  == <<job_plates_count, plates_capacity, plate_number>>
files   == <<written, reported>>
jobVars == <<version, lines, pc, after, counts, memory, error, failed, files>>

-----------------------------------------------------------------------------
(* Memory *)

JobPlates == 0 .. MaxPlates - 1

Job       == <<"job", 0>>
Directory == <<"source_directory", 0>>
Array     == <<"plates", 0>>
File      == <<"job_file", 0>>
Team      == <<"thread_team", 0>>
Plate(i)  == <<"plate", i>>
Name(i)   == <<"file_name", i>>
Matrix(i) == <<"plate_matrix", i>>

Blocks == {Job, Directory, Array, File, Team}
            \cup {Plate(i) : i \in JobPlates} \cup {Name(i) : i \in JobPlates}
            \cup {Matrix(i) : i \in JobPlates}

InState(state) == {b \in Blocks : memory[b] = state}

\* free does nothing to NULL.
FreeIn(mem, blocks) ==
  [b \in Blocks |-> IF b \in blocks /\ mem[b] = "live" THEN "freed" ELSE mem[b]]

Undefined == pc' = "undefined" /\ UNCHANGED memory

\* Uses the blocks of read, frees blocks and goes on.
Release(read, blocks, next) ==
  IF /\ read \subseteq InState("live")
     /\ blocks \cap (InState("freed") \cup InState("literal")) = {}
    THEN memory' = FreeIn(memory, blocks) /\ pc' = next
    ELSE Undefined

Fail(failure) ==
  /\ failure \in MayFail
  /\ failed' = failure
  /\ error' = ErrorCode[failure]

DestroyThen(next) == pc' = "destroy" /\ after' = next

JobInit ==
  /\ version \in Versions /\ lines \in 0 .. MaxPlates
  /\ pc = "init_job" /\ after = "returned"
  /\ job_plates_count = 0 /\ plates_capacity = StartingCapacity /\ plate_number = 0
  /\ memory = [b \in Blocks |-> "null"]
  /\ error = 0 /\ failed = "none"
  /\ written = {} /\ reported = FALSE

-----------------------------------------------------------------------------
(* The job *)

\* destroy_job: the plates and their names, the array, the directory, the job.
DestroyJob ==
  /\ pc = "destroy"
  /\ LET stored == 0 .. job_plates_count - 1 IN
     Release({Job} \cup {Array : i \in stored} \cup {Plate(i) : i \in stored},
             {Plate(i) : i \in stored} \cup {Name(i) : i \in stored}
               \cup {Array, Directory, Job}, after)
  /\ UNCHANGED <<version, lines, after, counts, error, failed, files>>

\* omp_mpi asks MPI first for its number and that of the processes.
\* extract_directory returns "" for a path without '/', and its failure is not
\* looked at.
InitJob ==
  /\ pc = "init_job"
  /\ \/ /\ \/ version = "omp_mpi" /\ (Fail("mpi_rank") \/ Fail("mpi_size"))
           \/ Fail("job")
        /\ pc' = "returned" /\ UNCHANGED <<after, memory>>
     \/ \E directory \in {"live"}
             \cup (IF "directory" \in MayFail THEN {"null"} ELSE {})
             \cup (IF "no_directory" \in MayFail THEN {"literal"} ELSE {}) :
          LET mem == [memory EXCEPT ![Job] = "live", ![Directory] = directory]
          IN \/ Fail("array") /\ DestroyThen("returned") /\ memory' = mem
             \/ /\ memory' = [mem EXCEPT ![Array] = "live"]
                /\ pc' = "set_job" /\ UNCHANGED <<after, error, failed>>
  /\ UNCHANGED <<version, lines, counts, files>>

\* Mistake: simulate destroys the job again when set_job fails.
OpenJobFileDestroyAgain ==
  /\ pc = "set_job"
  /\ \/ Fail("job_file") /\ DestroyThen("destroy") /\ UNCHANGED memory
     \/ /\ memory' = [memory EXCEPT ![File] = "live"]
        /\ pc' = "read" /\ UNCHANGED <<after, error, failed>>
  /\ UNCHANGED <<version, lines, counts, files>>

OpenJobFile ==
  /\ pc = "set_job"
  /\ \/ Fail("job_file") /\ DestroyThen("returned") /\ UNCHANGED memory
     \/ /\ memory' = [memory EXCEPT ![File] = "live"]
        /\ pc' = "read" /\ UNCHANGED <<after, error, failed>>
  /\ UNCHANGED <<version, lines, counts, files>>

\* Mistake: the capacity is checked before the new plate is counted.
StorePlateUncounted ==
  /\ memory' = [memory EXCEPT ![Plate(job_plates_count)] = "live",
                              ![Name(job_plates_count)] = "live"]
  /\ job_plates_count' = job_plates_count + 1
  /\ IF job_plates_count = plates_capacity
       THEN /\ plates_capacity' = 2 * plates_capacity
            /\ \/ Fail("expand") /\ DestroyThen("free_plate")
               \/ pc' = "read" /\ UNCHANGED <<after, error, failed>>
       ELSE pc' = "read" /\ UNCHANGED <<plates_capacity, after, error, failed>>

\* The new plate goes into the array; check_capacity doubles the array when it
\* is full, and expand_job destroys the job when it cannot.
StorePlate ==
  /\ memory' = [memory EXCEPT ![Plate(job_plates_count)] = "live",
                              ![Name(job_plates_count)] = "live"]
  /\ job_plates_count' = job_plates_count + 1
  /\ IF job_plates_count' = plates_capacity
       THEN /\ plates_capacity' = 2 * plates_capacity
            /\ \/ Fail("expand") /\ DestroyThen("free_plate")
               \/ pc' = "read" /\ UNCHANGED <<after, error, failed>>
       ELSE pc' = "read" /\ UNCHANGED <<plates_capacity, after, error, failed>>

\* One line of the job file.  No failure closes the file.
ReadPlate ==
  /\ pc = "read" /\ job_plates_count < lines
  /\ \/ /\ Fail("plate") /\ DestroyThen("returned")
        /\ UNCHANGED <<memory, job_plates_count, plates_capacity>>
     \/ /\ Fail("file_name") /\ DestroyThen("returned")
        /\ memory' = [memory EXCEPT ![Plate(job_plates_count)] = "freed"]
        /\ UNCHANGED <<job_plates_count, plates_capacity>>
     \/ StorePlate
  /\ UNCHANGED <<version, lines, plate_number, files>>

\* After expand_job failed: set_job frees the plate and destroys the job.
FreePlate ==
  /\ pc = "free_plate"
  /\ Release({}, {Plate(job_plates_count - 1)}, "destroy")
  /\ after' = "returned"
  /\ UNCHANGED <<version, lines, counts, error, failed, files>>

CloseJobFile ==
  /\ pc = "read" /\ job_plates_count = lines
  /\ memory' = [memory EXCEPT ![File] = "freed"]
  /\ pc' = "loop"
  /\ UNCHANGED <<version, lines, after, counts, error, failed, files>>

-----------------------------------------------------------------------------
(* Its plates *)

\* Mistake: one plate less.
LoopOneLess ==
  /\ pc = "loop"
  /\ IF memory[Job] # "live" THEN pc' = "undefined"
     ELSE pc' = IF plate_number + 1 < job_plates_count THEN "set_matrix" ELSE "report"
  /\ UNCHANGED <<version, lines, after, counts, memory, error, failed, files>>

\* process_plates asks the job for the number of plates before each one.
Loop ==
  /\ pc = "loop"
  /\ IF memory[Job] # "live" THEN pc' = "undefined"
     ELSE pc' = IF plate_number < job_plates_count THEN "set_matrix" ELSE "report"
  /\ UNCHANGED <<version, lines, after, counts, memory, error, failed, files>>

\* build_file_path: a plate path needs a directory, and memory.
NoPath ==
  /\ memory[Directory] = "null" \/ "path" \in MayFail
  /\ failed' = "path" /\ error' = ErrorCode["path"]

\* set_plate_matrix.  After a failure omp_mpi destroys the matrix, which is
\* still NULL; the others destroy the job.
SetPlateMatrix ==
  /\ pc = "set_matrix"
  /\ \/ /\ \/ NoPath
           \/ memory[Directory] # "null" /\ (Fail("plate_file") \/ Fail("header"))
        /\ IF version = "omp_mpi" THEN pc' = "undefined" /\ UNCHANGED after
                                  ELSE DestroyThen("returned")
        /\ UNCHANGED memory
     \/ /\ memory[Directory] # "null" /\ "matrix" \in MayFail
        /\ failed' = "matrix"
        /\ Undefined /\ UNCHANGED <<after, error>>
     \/ /\ memory[Directory] # "null"
        /\ memory' = [memory EXCEPT ![Matrix(plate_number)] = "live"]
        /\ pc' = "equilibrate" /\ UNCHANGED <<after, error, failed>>
  /\ UNCHANGED <<version, lines, counts, files>>

TeamIs(state) == memory' = [memory EXCEPT ![Team] = state]

Equilibrated == pc' = "clean" /\ UNCHANGED <<after, error, failed>>

\* Mistake: the team is not freed when its first thread cannot be created.
EquilibrateOptimizedTeamKept ==
  \/ (Fail("shared") \/ Fail("team")) /\ DestroyThen("returned") /\ UNCHANGED memory
  \/ /\ "barrier" \in MayFail /\ failed' = "barrier"
     /\ Undefined /\ UNCHANGED <<after, error>>
  \/ Fail("first_thread") /\ DestroyThen("returned") /\ TeamIs("live")
  \/ /\ "later_thread" \in MayFail /\ failed' = "later_thread"
     /\ pc' = "joining" /\ TeamIs("live") /\ UNCHANGED <<after, error>>
  \/ Equilibrated /\ TeamIs("freed")

\* equilibrate_plate of optimized.  init_shared_data only looks at the code of the
\* second barrier: the threads would wait at a first one that is not initialised.
\* create_threads joins the threads created so far.  With none it returns, the team is
\* freed and its code goes to main; with some, these wait at a barrier for the others
\* and the join does not end (OptimizedPlate).
EquilibrateOptimized ==
  \/ (Fail("shared") \/ Fail("team")) /\ DestroyThen("returned") /\ UNCHANGED memory
  \/ /\ "barrier" \in MayFail /\ failed' = "barrier"
     /\ Undefined /\ UNCHANGED <<after, error>>
  \/ Fail("first_thread") /\ DestroyThen("returned") /\ TeamIs("freed")
  \/ /\ "later_thread" \in MayFail /\ failed' = "later_thread"
     /\ pc' = "joining" /\ TeamIs("live") /\ UNCHANGED <<after, error>>
  \/ Equilibrated /\ TeamIs("freed")

\* equilibrate_plate of pthread, which has no barriers: the threads created so far end
\* and are joined, but their team is not freed.
EquilibratePthread ==
  \/ Fail("pthread_team") /\ DestroyThen("returned") /\ UNCHANGED memory
  \/ Fail("pthread_create") /\ DestroyThen("returned") /\ TeamIs("live")
  \/ Equilibrated /\ TeamIs("freed")

\* serial has no team, and that of omp_mpi belongs to the OpenMP runtime.
EquilibratePlate ==
  /\ pc = "equilibrate"
  /\ \/ version = "optimized" /\ EquilibrateOptimized
     \/ version = "pthread" /\ EquilibratePthread
     \/ version \in {"serial", "omp_mpi"} /\ Equilibrated /\ UNCHANGED memory
  /\ UNCHANGED <<version, lines, counts, files>>

\* clean_plate: update_plate_file, which closes a file it could not open (NULL),
\* and destroy_plate_matrix.  A failure destroys the job, and process_plates
\* drops the code and goes on.
CleanPlate ==
  /\ pc = "clean"
  /\ \/ \E failure \in {"output_name", "output_path"} \cap MayFail :
          failed' = failure /\ DestroyThen("loop")
          /\ UNCHANGED <<memory, written>>
     \/ /\ "output_file" \in MayFail /\ failed' = "output_file"
        /\ Undefined /\ UNCHANGED <<after, written>>
     \/ /\ written' = written \cup {plate_number}
        /\ Release({Matrix(plate_number)}, {Matrix(plate_number)}, "loop")
        /\ UNCHANGED <<after, failed>>
  /\ plate_number' = plate_number + 1
  /\ UNCHANGED <<version, lines, job_plates_count, plates_capacity, error, reported>>

\* report_results, whose code simulate drops.
ReportResults ==
  /\ pc = "report"
  /\ \/ /\ \E failure \in {"report_path", "report_file"} \cap MayFail :
             failed' = failure
        /\ UNCHANGED reported
     \/ reported' = TRUE /\ UNCHANGED failed
  /\ DestroyThen("returned")
  /\ UNCHANGED <<version, lines, counts, memory, error, written>>

\* simulate returned, is undefined, or joins threads that do not end.
Stopped == pc \in {"returned", "undefined", "joining"} /\ UNCHANGED jobVars

JobNext ==
  \/ InitJob \/ OpenJobFile \/ ReadPlate \/ FreePlate \/ CloseJobFile
  \/ Loop \/ SetPlateMatrix \/ EquilibratePlate \/ CleanPlate \/ ReportResults
  \/ DestroyJob
  \/ Stopped

JobSpec == JobInit /\ [][JobNext]_jobVars

-----------------------------------------------------------------------------
(* Properties *)

JobTypeOK ==
  /\ version \in Versions /\ lines \in 0 .. MaxPlates
  /\ pc \in {"init_job", "set_job", "read", "free_plate", "loop", "set_matrix",
             "equilibrate", "joining", "clean", "report", "destroy", "returned",
             "undefined"}
  /\ after \in {"returned", "free_plate", "loop"}
  /\ job_plates_count \in 0 .. lines
  /\ plate_number \in 0 .. job_plates_count
  /\ pc \in {"set_matrix", "equilibrate", "clean"} => plate_number < job_plates_count
  /\ plates_capacity \in Nat
  /\ memory \in [Blocks -> {"null", "live", "freed", "literal"}]
  /\ error \in 0 .. 33
  /\ failed \in Failures \cup {"none"}
  /\ written \subseteq JobPlates /\ reported \in BOOLEAN

\* job->plates has room for the next plate whenever a line is read: it grows as
\* soon as it is full (check_capacity).
RoomForNextPlate == pc = "read" => job_plates_count < plates_capacity

\* A failure on the way to the report ends simulate with the code that the table
\* of errors of readme.adoc gives it (1 for a plate path, which it does not have),
\* and with defined behaviour all the way through destroy_job.  Exempt: what the code
\* does not handle (an array that cannot grow, a matrix that cannot be allocated, a
\* first barrier that is refused, a thread that cannot be created when others were, a
\* final plate that cannot be written, a job path without directory; in omp_mpi, a
\* plate that cannot be read) and the report's own failures, which simulate drops.
ErrorIsReturned ==
  LET exempt == \/ failed \in {"expand", "matrix", "barrier", "later_thread",
                               "output_name", "output_path", "output_file",
                               "report_path", "report_file"}
                \/ version = "omp_mpi" /\ failed \in {"path", "plate_file", "header"}
                \/ memory[Directory] = "literal"
  IN ~exempt => /\ pc \notin {"undefined", "joining"}
                /\ pc = "returned" => error = ErrorCode[failed]

\* The failures of a team: the plate is not simulated.
TeamFailures == {"shared", "team", "first_thread", "pthread_team", "pthread_create"}

\* What simulate leaves allocated when it returns: nothing, except the job file
\* after a failure to read it, and the matrix of a plate whose simulation failed,
\* with the team if pthread could not create a thread of it.
LeftAtReturn ==
  pc = "returned" =>
    InState("live") =
      (IF failed \in {"plate", "file_name"} THEN {File} ELSE {})
      \cup (IF failed \in TeamFailures THEN {Matrix(plate_number)} ELSE {})
      \cup (IF failed = "pthread_create" THEN {Team} ELSE {})

\* Success means that every plate of the job file was simulated and written, and
\* the report too unless its own writing failed (readme.adoc: "updated plate
\* files ... will be stored in the same directory as the job file").
SuccessMeansWritten ==
  pc = "returned" /\ error = 0 =>
    /\ written = 0 .. lines - 1
    /\ reported \/ failed \in {"report_path", "report_file"}

\* The table of errors of readme.adoc: every failure ends the program with its
\* code.  What clean_plate meets does not.
DocumentedError ==
  /\ pc # "undefined"
  /\ pc = "returned" => error = ErrorCode[failed]

-----------------------------------------------------------------------------
(* The inductive invariant *)

\* A failure that destroys the job behind the back of its callers, or that uses NULL
\* or a barrier that is not initialised.
Doomed ==
  failed \in {"expand", "matrix", "barrier", "output_name", "output_path", "output_file"}

\* A failure that simulate does not tell its caller of.
Dropped == failed \in {"none", "report_path", "report_file"}

Reading == pc \in {"init_job", "set_job", "read"}
Working == pc \in {"loop", "set_matrix", "equilibrate", "clean", "report"}

\* The blocks destroy_job frees, all of them there: but the array that could not be
\* allocated, and the directory, which may be NULL or a string literal.
JobBlocks ==
  {Job, Directory, Array} \cup {Plate(i) : i \in 0 .. job_plates_count - 1}
                          \cup {Name(i) : i \in 0 .. job_plates_count - 1}

JobIsWhole ==
  /\ memory[Job] = "live" /\ memory[Directory] # "freed"
  /\ memory[Array] = IF failed = "array" THEN "null" ELSE "live"
  /\ \A i \in 0 .. job_plates_count - 1 :
       memory[Plate(i)] = "live" /\ memory[Name(i)] = "live"

\* The other blocks that are allocated.
Besides ==
  (IF pc = "read" \/ failed \in {"plate", "file_name"} THEN {File} ELSE {})
  \cup (IF pc \in {"equilibrate", "joining", "clean"} \/ failed \in TeamFailures
          THEN {Matrix(plate_number)} ELSE {})
  \cup (IF failed \in {"pthread_create", "later_thread"} THEN {Team} ELSE {})

MemoryInv ==
  /\ pc = "init_job" => \A b \in Blocks : memory[b] = "null"
  /\ pc # "undefined" /\ ~ Doomed =>
       /\ IF pc \in {"init_job", "returned"} THEN JobBlocks \cap InState("live") = {}
                                            ELSE JobIsWhole
       /\ InState("live") \ JobBlocks = Besides

\* After a failure that dooms the job the program meets a block it freed.
DoomedInv ==
  /\ Doomed => pc \in {"destroy", "free_plate", "loop", "undefined"}
  /\ failed = "expand" =>
       \/ pc = "destroy" /\ after = "free_plate" /\ job_plates_count > 0 /\ JobIsWhole
       \/ /\ pc = "free_plate" /\ job_plates_count > 0
          /\ memory[Plate(job_plates_count - 1)] = "freed"
       \/ pc = "undefined"
  /\ failed \in {"output_name", "output_path"} =>
       \/ pc = "destroy" /\ after = "loop" /\ JobIsWhole
       \/ pc = "loop" /\ memory[Job] = "freed"
       \/ pc = "undefined"
  /\ failed \in {"matrix", "barrier", "output_file"} => pc = "undefined"

\* How far the job is, and what the error says of it.
CourseInv ==
  /\ Reading \/ (Working /\ ~ Doomed) => failed = "none"
  /\ pc = "free_plate" => failed = "expand"
  /\ pc = "joining" <=> failed = "later_thread"
  /\ pc = "destroy" /\ ~ Doomed => after = "returned"
  /\ pc = "undefined" =>
       \/ Doomed \/ memory[Directory] = "literal"
       \/ version = "omp_mpi" /\ failed \in {"path", "plate_file", "header"}
  /\ Reading => /\ job_plates_count < plates_capacity
                /\ error = 0 /\ plate_number = 0 /\ written = {} /\ ~ reported
                /\ pc # "read" => job_plates_count = 0
  /\ Working /\ ~ Doomed =>
       /\ job_plates_count = lines /\ error = 0
       /\ written = 0 .. plate_number - 1 /\ ~ reported
  /\ pc = "report" => plate_number = job_plates_count
  /\ failed = "array" => job_plates_count = 0
  /\ pc \in {"destroy", "returned"} /\ Dropped =>
       error = 0 /\ written = 0 .. lines - 1 /\ (reported \/ failed # "none")
  /\ pc \in {"destroy", "returned"} /\ ~ Dropped /\ ~ Doomed =>
       error = ErrorCode[failed] /\ error # 0

JobInv == JobTypeOK /\ MemoryInv /\ DoomedInv /\ CourseInv
=============================================================================
