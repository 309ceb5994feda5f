# A verification project for the concurrent-programming course repository

The repository holds the programs of a course on concurrent and parallel
programming in C and C++: one heat-transfer simulation developed in four
versions (serial, threads, optimised threads, OpenMP + MPI), a family of network
simulations built on a producer-consumer library, and about forty small exercises
on threads, semaphores, barriers, OpenMP and MPI.  This directory holds TLA+
modules translated from that code, the TLC configurations that check them on
small instances, and TLAPS proofs of the main results for every instance.

Paths below are relative to the repository; `optimized/` stands for
`homeworks/optimized/pthread_optimized/src/`, `pthread/`, `omp_mpi/` and `serial/`
for `homeworks/<name>/src/`.

## 1. Inventory

### The heat-transfer simulation (`homeworks/`)

A job file lists plates.  Each plate is a binary matrix of temperatures whose
border never changes; it is advanced state by state, every inner cell recomputed
from its four neighbours, until no cell changes by more than epsilon.  The program
writes each final plate and a report with the number of states of each.

| Part | State | Operations | What is hard | What makes it correct |
|---|---|---|---|---|
| plate (`plate.c`, `plate_matrix.c`) | two matrices, `matrix` (written) and `auxiliary_matrix` (read) | `init_auxiliary`, `set_auxiliary` (swap), `update_cell` | the border of the second matrix; which pointer holds the result | a state is a function of the previous one |
| serial loop (`serial/job.c`, `plate.c`) | plate, `k_states`, flag | `update_plate` until equilibrium | nothing concurrent: the reference | stops at the first balanced state |
| fork-join team (`pthread/`) | team of threads per state, one flag per thread | `create_threads`, `equilibrate_rows`, `join_threads` | row blocks, resetting the flags, creation failing half way | same states as the serial loop, no thread left behind |
| barrier team (`optimized/`) | one team per plate, two barriers, a mutex, shared flag and count | `equilibrate_plate_concurrent` | the swap by one thread between barriers; the flag is reset while others may not have read it; creation failing half way | same states as the serial loop, the call returns |
| OpenMP team (`omp_mpi/plate.c`) | parallel region, reduction variable | `single`, `for reduction`, `break` out of the loop, `barrier` | the verdict read by all before `single` resets it | same states as the serial loop, all leave together |
| plate distribution (`omp_mpi/job.c`, `mpi_wrapper.c`) | master: next index, available workers; one channel each way per worker | initial distribution, receive answer and send next, stop loop | two-message answers from any source, idle workers, termination | each plate once, full report, every process leaves |
| job file (`job.c`, `common.c`) | growing array of plates, the report file | `init_job`, `set_job`, `expand_job`, `process_plates`, `destroy_job` | who frees what on each error path | nothing freed twice or used after being freed |

### Network simulations (`taskc/`)

Threads connected by thread-safe queues: one or several producers of packets, a
dispatcher that sends each to the queue of its addressee, one consumer per queue
and an assembler that loses packets and, in two versions, redirects them.  A special
packet (the stop condition) ends a consume loop.  State: the queues, counts of the
stop conditions met, `producedCount`.  Hard: who sends the stop condition and how
many, packets that go round (dispatcher to assembler and back), bounded queues
in a chain.  Correct when every packet not lost on purpose is consumed once
by its addressee and every thread ends.

### Exercises (`pthreads/`, `extra/`, `mpi/`, `omp/`, `common/ethread`)

| Programs | State | What is hard | What makes them correct |
|---|---|---|---|
| `hello_order_*`, `delayed_busy_wait`, `position_race`, `birthday_pinata` | turns or a mutex, a position or a pinata | order of what is printed; creation failing half way | greetings and positions in order, one thread breaks the pinata |
| `hello`, `recursive_hello`, `grandma_lottery`, `hello_w`, `hello_iw_*` | private and shared registers of the threads | who frees a register, and when | each thread greets as itself, from memory that is there |
| `team_shot_put` | two matrices, a thread per athlete | matrices allocated row by row | the score is that of the shots |
| `prod_cons_bound`, `prod_cons_unbound` | buffer or queue, semaphores, claims | claims against units, places shared without a mutex, one team missing | every unit consumed once |
| `building_tasks`, `common/ethread` | ten tasks, semaphores; a team that grows while it runs | two dependencies, two waiters; a failed creation | no task early, the team outlives its threads |
| `readers_writers` | read-write lock, counter, growing array of threads | threads run while the array grows | readers see the writers before them |
| `mist_cond_var`, `build_h2o` | a condition variable; semaphores and a reusable barrier | spurious wake-ups; entering and leaving at one barrier | nobody passes before the others came |
| `dish_stack` | stack under a mutex | test and removal together | each dish washed once |
| `mpi_relay_race`, `mpi_ping_pong`, `send_recv_*` | messages between processes | any source, order of different senders | output by rank, no message left |
| `mpi_hybrid_distr_*`, `hybrid_distr_bcast` | range, processes, threads | remainders, the sentinel -1 | each index run once |
| `mpi_lucky_number_*` | one number per process | who has the results, and when | what each says of itself is true |
| `omp_for`, `omp_team`, `omp_several_for_stages` | shared loops | implicit barriers | stages do not mix |
| `omp_stats`, `omp_mergesort` | a list | integer types that wrap around; tasks in any thread | the results are those of the definition |

`PROJECT.json` lists every component with its state of modelling, and under
`hazards` each place of the code that is hard to test, with the properties that
cover it or the reason none does yet.

## 2. Modules

| Module | Models | Form |
|---|---|---|
| `PlateMatrix` | the matrix operations shared by all versions | operators; the arithmetic is a parameter |
| `Equilibrium` | the serial loop, the abstract specification of every version | state machine |
| `StaticMap` | row blocks of the barrier team (`get_finish_row`) | operators |
| `BlockMap` | row blocks of the fork-join team (`get_intervals`) | operators |
| `OptimizedPlate` | the barrier team with its main thread | state machine, refines `Equilibrium` |
| `PthreadPlate` | the fork-join teams with their main thread | state machine, refines `Equilibrium` |
| `OmpPlate` | the OpenMP parallel region | state machine, refines `Equilibrium` |
| `MpiJob` | master, workers and channels | state machine |
| `NetworkSim` | the five network simulations and the queues they use | state machine, the version is a variable |
| `JobFile` | `simulate` in the four versions: the memory of a job, the files and the error codes | state machine, the version is a variable |
| `ProdConsBound` | the bounded producer and consumer | state machine |
| `UnboundBuffer` | `prod_cons_unbound`: teams of producers and consumers on a queue | state machine |
| `TeamOrder` | three programs of ordered greetings, `delayed_busy_wait`, `position_race`, `birthday_pinata` | state machine, the version is a variable |
| `BuildingTasks` | `building_tasks`: ten tasks ordered by eight semaphores | state machine |
| `BuildH2O` | `build_h2o`: semaphores and a barrier around a device | state machine |
| `EthreadTeam` | `ethread`: teams created at once or grown, threads without a team | state machine, the program's use of it is `usage` |
| `GreetingTeams` | the six first programs of threads | state machine, the program is a variable |
| `ShotPut` | `team_shot_put` | state machine |
| `ReadersWriters` | `readers_writers` | state machine |
| `Mist` | `mist_cond_var` with spurious wake-ups | state machine |
| `DishStack` | `dish_stack` | state machine |
| `MpiMessages` | the five programs of MPI messages and the wrapper they use | state machine, the program is a variable |
| `HybridDistribution` | the three hybrid distributions of a range | state machine, the program is a variable |
| `LuckyNumber` | the two lucky number programs and the reductions of the wrapper | state machine, the program is a variable |
| `OmpStages` | three programs of shared loops | state machine, the program is a variable |
| `OmpStats` | the statistics of `omp_stats` | state machine around recursive functions |
| `MergeSort` | the tasks of `omp_mergesort` | state machine |
| `WorkExercises` | the state of the exercises that share work out or hand it on | instances of five modules |
| `Exercises` | composes all the exercises: one program runs, chosen in `Init` | composition by INSTANCE |
| `PlateProofs` | proofs about the plate's operators: matrices, `StaticMap`, `BlockMap` | theorems |
| `OptimizedPlateProofs`, `PthreadPlateProofs`, `OmpPlateProofs` | proofs about the three teams | theorems |
| `JobProofs` | proofs about `MpiJob` and about `JobFile` | theorems |
| `NetworkSimProofs` | proofs about the network simulations | theorems |
| `WorkProofs` | lemmas about counting, and the invariants of the five modules of `WorkExercises` | lemmas |
| `ExercisesProofs` | proofs about `ProdConsBound` and about the programs of `Exercises` | theorems |
| `MC...` | plates, arithmetic and sizes for the runs | definitions of constants |

Definitions keep the names of the code (`set_auxiliary`, `update_plate`,
`get_finish_row`, `reached_equilibrium`); `PROJECT.json` maps each one to its lines.
Definitions introduced by a comment that begins with `Mistake:` are not part of
the specifications: each is a plausible error in the definition it precedes, kept
to show that the property named in `PROJECT.json` would notice it.

**Doubles.** `Diffuse`, `Exceeds` and `Temperatures` are constants of
`PlateMatrix`: any function of the five temperatures of the stencil, any
comparison, any set of values.  What is proved therefore holds with the
rounding of the real program.  It does not compare the arithmetic of the
versions: `serial/plate.c:64` truncates the cell area to an integer, the others do
not (listed as a hazard).

**Grain of the threads.** A thread's step is one row, one critical section, one
arrival at a barrier, or one section that a single thread runs.  A row can be one
step because nobody else writes that row nor the matrix it is computed from while
the thread works, which is what `OneWriterPerRow`, `SwapExcludesUpdates`,
`SingleIsAlone` and `NoThreadBetweenStates` say.  The pointers to the matrices,
the flag and the count are variables of their own.

**Barriers.** In `OptimizedPlate` a thread waits in a barrier when its `pc` is at one
of that barrier's two `pthread_barrier_wait` calls; the arrival that completes the
team releases everyone and any one thread becomes the serial one.  In `OmpPlate`
there is one barrier per team, reached at four places, and `Open` fires when the
whole team waits, wherever each thread does: a thread that broke out of the loop
waits at the end of the region and could be matched with one still inside, which
is the error the explicit barrier prevents.

**Main threads.** They are modelled with creation failures (`CreateMayFail`),
joining in order, and what happens to the team afterwards.

**MPI.** Messages between two processes keep their order and none is lost; nothing
orders different senders.  The default error handler ends all processes, so the
error branches of `mpi_wrapper.c` are not reachable.  A worker's answer is two
messages; the number of states goes through one `MPI_INT`, modelled by
`% IntRange`.

**Semaphores.** In `ProdConsBound` a `sem_wait` is a guard on the value, and a wait,
an access to the buffer and a post are separate steps.

**Network simulations.** The five versions share most of their code, so one module
has them all, and `version` (chosen once, in `Init`) decides how the queues are
connected, whether they have a capacity, how many producers there are and who
answers a stop condition.  `enqueue` and `dequeue` of `Queue.hpp` are atomic: the
element is pushed or popped under the mutex, the semaphores only make a thread
wait longer than the queue's length would, and each queue has one consumer.
A thread between a dequeue and the next enqueue has its message in hand
(`dispatched`, `assembled`), which is where packets could get lost.  Random targets
and losses are free choices within the range the code draws from:
`Util::random(min, max)` excludes `max`, so an assembler in the loop never sends a
packet to itself.

**Exercises.** `hello_order_busywait`, `delayed_busy_wait`, `hello_order_semaphor`,
`hello_order_cond_safe`, `position_race` and `birthday_pinata` have the same
`create_threads`, so `TeamOrder` has it once; after a failed creation they all join
threads that were never created, where the model stops at `undefined`.  A critical
section is not one step: the mutex is a variable, so that what is read or printed
inside it is seen to depend on it.  The busy wait is that of the default build,
which reads the number at each test.  In `UnboundBuffer` an operation of the queue,
which has a mutex of its own, is one step, and a unit whose node cannot be allocated
is `lost` although it is announced; when one team is missing the simulation is
destroyed under the other, and the threads take no more steps.  In `BuildH2O` an atom
waits at the barrier at one of two places, and the third arrival, wherever it is,
releases all three.  In `Mist` a thread leaves `pthread_cond_wait` by the broadcast or
spuriously, and takes the mutex again before it goes on.

A thread exists from its creation, so it may run before `pthread_create` returns to
its creator, and every join, free and failed allocation is a step of the main thread.
Where C leaves the effect undefined (joining a thread that was not created, using
memory that was freed) the behaviour ends at `undefined`; the properties say which
programs can get there and after which failure.

The MPI exercises have a channel for each pair of processes, in order; a send
returns when its message is received, or before if the library buffers it.  A
collective call is entered and left in two steps, and only the results that a
process needs make it wait for the others.  The OpenMP constructs end at their
implicit barriers; a schedule is any assignment of the chunks the program allows.  In
`MergeSort` a thread of the team that waits for its tasks may run others, so the
number of threads never blocks the sort.  `OmpStats` keeps the integer sums modulo the
width of the type and compares fractions without dividing: it has the algorithm,
not the rounding of `double`.

`Exercises` composes the modules with no shared variable: each keeps its own
specification, and a run of the composition is a run of one of them.  Its properties
are the conjunctions of those of the modules that are of one kind.

**Job file.** `JobFile` follows `simulate` from `init_job` to `destroy_job`, around
the simulation of each plate, which the other modules have.  Every block of memory
is `null`, `live`, `freed` or a string `literal`; `Release` says which blocks a
function reads and frees, and what C leaves undefined (freeing twice or freeing a
literal, using NULL or a freed block) ends the behaviour at `undefined`.  `failed`
remembers the failure met and `error` the code on its way to `main`, so that a code
dropped by a caller shows.  `destroy_job` is one action with the place it returns to
in `after`, as it is called at a dozen places.  The versions differ in how
`equilibrate_plate` can fail and in what follows a plate that cannot be read.  In
`optimized` the creation of the first thread fails with nobody to join: `create_threads`
returns 33 and `equilibrate_plate` frees the team (`first_thread`).  A later one
(`later_thread`) finds threads that wait at the barrier for the missing ones, and the
join never ends: the behaviour stays at `joining`, and `OptimizedPlate` shows why.  In
`pthread`, without barriers, any creation that fails returns 32 and leaves the team.  A
plate's path may fail for want of memory in any directory, or for want of a directory
(`NoPath`).  Of `omp_mpi` this is the single-process mode, `mpiwrapper_init` included; a
team that the OpenMP runtime cannot create ends the process there.  Results that the
code does not look at are taken to be good: those of `fread`, `fwrite` and `fclose`, and
of joining a thread that was created.

## 3. Runs

| Run | Instance | Shows |
|---|---|---|
| `plate_team` | 3 threads, 5 inner rows (blocks 2, 2, 1), 3 plates; the first creation may fail | the barrier team refines the serial loop; swap, row and verdict exclusion; it returns |
| `plate_create_failure` | 2 threads; the second creation may fail | *violation*: `create_threads` never returns |
| `omp_plate` | 3 threads, 3 rows, all 27 static schedules | the parallel region refines the serial loop and ends |
| `mpi_job` | 1, 3 or 4 processes; 2 to 4 plates, one with more states than an int | each plate once, complete report, all processes leave |
| `mpi_two_processes` | 2 processes, 2 plates | *violation*: the job never ends |
| `pthread_plate` | 3 threads, 7 inner rows (blocks 2, 2, 3); the third creation may fail | the fork-join teams refine the serial loop; a failure leaves no thread |
| `prod_cons_bound` | capacity 3, 3 rounds | no shared place, order kept, all consumed |
| `network_sim` | 3 packets, 2 consumers, 1 or 2 producers, capacity 1 in `bound`; all five versions | each packet in one place until lost on purpose or consumed, none left behind, the stop condition goes round once, every thread ends |
| `job_file` | up to 5 plates in an array of 2 places, four versions, everything may fail | the array grows in time, handled failures end with their code, what is left allocated, success means all plates written |
| `job_no_extension` | up to 2 plates whose files have no extension | *violation*: the job is used after being freed |
| `exercises` | teams of 3, a pinata of 3 hits, the last creation may fail; 3 units, 2 producers, 2 consumers, nodes and the second thread of a team may fail; 4 H and 2 O; 10 tasks; up to 5 processes; ranges around -1; lists of up to 7; 1 to 3 threads elsewhere | order of output and tasks; one breaker; work done once; rendezvous; results by definition; data outlives its threads; every program ends |
| `prod_cons_one_place` | capacity 1, 2 rounds | *violation*: the program never ends |

**Bounds.** The plate runs need blocks of different sizes, a thread with rows on
both borders and one with neither, a plate balanced from the start (one state), and
plates whose heat reaches some blocks earlier than others so that the threads'
verdicts differ; three threads are the least for which a third one can be early
while two are late.  `epsilon` is 1 in the runs of the threads, so the last two
states differ and handing back the wrong matrix shows.  `mpi_job` has fewer, as
many and more workers than plates; the plates need different numbers of states so
that mixed answers show.  In `network_sim` two packets can be in the loop of dispatcher
and assembler while a third is still to come, one producer can be slow while the
other runs past the last number, and every bounded queue gets full; a third
consumer adds only one more queue like the others.  In `job_file` the array starts
with two places (`StartingCapacity`; 10 in the code) so that five plates
(`MaxPlates`) make it grow twice and leave it partly full.  In `exercises` a thread of
three has another before and after it, the pinata breaks while two threads wait to
hit it, the two consumers compete for the last unit, and the atoms of the second
molecule come while those of the first are leaving.  The relay race has no team, a
half, one and two (1, 2, 3 and 5 processes); the ball stops after `MaxBall` hits, where
the program goes on for ever.  The ranges contain -1 and leave remainders for three
workers and two threads, or are empty.  `Width` 3 makes an integer type of eight
values, so that sums of three numbers wrap around.  The lists to sort have deferred
and immediate tasks, repeated elements and odd lengths (`SmallCount` and
`DeferredCount` stand for the 1024 and 5000 of the code).  In the unbounded buffer a
first thread is always created: with no producer and some of the consumers only, the
main thread would join consumers that wait for a unit for ever.  A growing
array of threads starts at one place and grows while its threads run.  No state constraint is
used: every instance is finite because the arithmetic settles and the loops have
ends.

**Types.** Most modules state a `TypeOK`.  Where there is an inductive invariant
(`IInv`) it is its first conjunct and proved with it; in the other exercises it
documents the state.  The inductive invariants are proved, and not repeated as properties of
the runs.

**Findings.** The four violations are behaviours of the code against its own
documentation:

1. `optimized/threads.c:98`: when a `pthread_create` fails, `create_threads` joins
   threads that wait at a barrier for the missing ones (`threads.h:70-71` promises
   an error code).
2. `omp_mpi/job.c:214`: the initial distribution stops one process short; with one
   worker nobody has work and everybody waits.  With more workers the last one
   receives nothing but the signal to stop, although `job.c:212` says one plate for
   each available worker.
3. `prod_cons_bound.c:212`: an additional `sem_wait` before the loops takes a place of
   the buffer for good, and a buffer of one place deadlocks.
4. `optimized/job.c:76`: when the final plate cannot be written (a plate file without
   extension, code 22 in the table of errors), `clean_plate` destroys the job and
   `process_plates` drops the code and goes on with the job that was freed.

`ErrorIsReturned` says that the other failures end with their documented code (or with
1, which the table of errors does not have, when a plate's path cannot be built:
`optimized/common.c:12-16`, `plate.c`), and names what it leaves out because the code
does not handle it:

- `expand_job` destroys the job when `realloc` fails, and `set_job` frees the plate and
  destroys the job again (`optimized/job.c:249`);
- `init_plate_matrix` can return NULL, which its callers use;
- `init_shared_data` overwrites the code of the first barrier with that of the second
  (`optimized/threads.c:48-50`): the threads would wait at a barrier that is not
  initialised;
- in `optimized`, a thread that cannot be created when others were (the first of the
  four findings);
- `update_plate_file` closes a file that it could not open, and a final plate without a
  name or path is the fourth finding;
- `extract_directory` returns the literal `""` for a path without directory
  (`common.h:28` says NULL), and `destroy_job` frees it;
- in `omp_mpi`, a plate that cannot be read makes `destroy_plate_matrix` follow a NULL
  pointer (`omp_mpi/job.c:314`);
- `simulate` drops the code of `report_results` (16 and 17).

`LeftAtReturn` exempts nothing that returns: it names the job file, which no failure to
read it closes, the matrix of a plate whose team failed (also after code 33 of
`optimized`, `optimized/job.c:62-65`), and the team of `pthread`.

The properties of the exercises name what they leave out in the same way:

- `prod_cons_unbound/simulation.c:171`: if one team cannot be created, the other is not
  joined and loses its data (`OnlyTheOtherTeamOutlives`);
- the teams of `pthreads/` and `readers_writers` join threads that could not be created,
  and `hello_order_semaphor` initialises semaphores in an array that may not exist
  (`hello_order_semaphore.c:77`) and posts one that may have been destroyed (`:199`,
  `SemaphoresOutliveTurns`);
- `ethread.c:117`: after a failure `add_threads` joins and frees the team, which its
  caller still has and may join again;
- `hello_iw_shr` and its likes leave a register behind when a later allocation fails
  (`GreetsAsItself` names the codes 12 and 22);
- a block that starts or ends at -1 is printed wrongly by the hybrid distributions, as
  -1 stands for no index (`PrintedAsRun`);
- `omp_stats`: the maximum of doubles starts at the smallest positive one, and the sum of
  the two middle values of a list of `uint` may wrap around (`StatisticsAreRight`).

**Fairness.** Weak fairness for each thread or process: the scheduler of the
operating system runs a thread that can run, and a blocking call returns once what
it waits for is there.  Nothing stronger is needed, as no two threads compete for
ever for one resource.  In `exercises` it is one condition, that as long as some thread or
process can take a step one is taken: the graph of each program has no cycle but
stuttering, so this is what weak fairness of each thread gives.  A spurious
wake-up and the early return of a send are not part of it, as nothing makes them
happen.  Termination of the plate runs rests also on the instance's
arithmetic settling; a diffusion that never settles does not end in the program
either.

## 4. Proofs

The components of the simulations, the bounded buffer and twelve modules of the exercises
have an inductive invariant `IInv`, at the end of their module; in the modules of proofs
each action preserves it by a lemma or a step of its own.
TLC checked each `IInv` on small instances first; a `Nat` that it cannot enumerate (the
places of a queue in `PlaceInv`) was read there as `0 .. 9`.

What the theorems assume of the constants is what the code or its use guarantees:

- plates of `RowCount >= 3` and `ColCount >= 1`, any arithmetic, any number of requested
  threads, any creations that fail (`PlateAssumption`, `TeamAssumption`); for OpenMP any
  non-empty team (`ThreadsAssumption`), with every assignment of rows to its threads;
- any numbers of processes and plates, any states a plate takes, any width of the `int`
  that carries them (`MpiAssumption`);
- any starting capacity, length of the job file and set of failures (`JobAssumption`);
- any number of packets, and at least one producer, one consumer and one place in each
  queue (`NetworkAssumption`);
- any capacity and number of rounds of the bounded buffer (`ArgumentsAssumption`);
- in the exercises any number of threads, units, hits, atoms and places, and any set of
  creations and allocations that fail (`ExercisesAssumption` and `WorkAssumption`, the
  conjunctions of those of the modules), but twice as many hydrogen as oxygen atoms (`AtomsAssumption`).

**`PlateProofs`** The operators the three plates share.  The blocks of `get_finish_row`
follow one another and have `rows / team` rows or one more (`BlocksAreBalanced`), are
disjoint, hold inner rows only and cover all of them.  Those of `get_intervals` are
disjoint and cover the inner rows as well (`BlockMapDisjoint`, `BlockMapCovers`), the
last thread taking what the division leaves over.  Further lemmas say what writing a
row does to a matrix; the proofs of the teams cite them.

**`OptimizedPlateProofs`** The invariants of the run are not inductive: that the
matrices are swapped alone depends on where every thread is.  `IInv` adds

- `PhaseInv`: the team is always in one of six phases (`Working`, `Swapping`,
  `Swapped`, `Checking`, `Resetting`, `Restarting`), and a barrier can only open at
  the end of a phase;
- `MainInv`: which threads exist and which have been joined;
- `MatrixInv`: the two matrices are distinct and have the same border;
- `StateInv`: the rows written so far hold the next state, each thread's verdict is
  about the rows it has written, and the shared flag is the conjunction of the
  verdicts published.

From `IInv` follow `SwapIsExclusive`, `RowsHaveOneWriter`, `VerdictIsCommon`,
`TeamIsOver` and `VerdictIsFrozen`.  `Implementation` shows that every step is a
stutter of `Equilibrium` except the swap, which is `update_plate`: at that point the
blocks cover the inner rows (`BlocksCoverTheRows`), so the matrix written is the
whole next state, and the flag is the verdict on it.

**`PthreadPlateProofs`** A team is created for each state, so `IInv` has no phases:
`TeamInv` says that the threads not yet created and those joined do not run, that a
thread that ended has gone through its block, and that between two states, and after a
creation failed, every thread created has been joined.  `StateInv` says that the rows
written hold the next state and that the verdict collected so far is about the threads
joined.  From it follow `TeamEndsWithItsState` and `RowsHaveOneWriter`.  In
`Implementation` the abstract step is the end of the join: only when the last thread is
joined (`AllJoined`) does the plate have its next state, and there the blocks cover
its rows.

**`OmpPlateProofs`** The barriers of the region, those implied by `single` and `for`
included, force the team through six phases (`Entering`, `Starting`, `Started`,
`Looping`, `Checking`, `Returned`), and `LoopInv` says what rows, private copies and
shared verdict hold within the loop, whatever rows the schedule gives each thread.
From it follow that the thread in the single section works alone
(`SingleHasNoCompany`) and that the verdict stays while someone has yet to read it
(`VerdictIsCommon`).  In `Implementation` the abstract step is the opening of the
barrier that ends the loop.

**`JobProofs`** In `MpiJob` a worker is idle, has a plate to simulate, has one simulated
and not answered in full, was told to leave, or left.  Each of these (`Idle`, `Unwritten`,
`Written`, `Told`, `Left`) says where the worker is together with what is in its two
channels: that the states received in the master's second receive belong to the index
of the first is not inductive without both.  `PlateInv` has each plate still to be
given, out with exactly one worker, or recorded; `CountInv` says that
`available_workers` counts the workers on standby, among them those that never get a
plate.  So when the loop ends nobody is out with a plate.  Theorems: `NoPlateTwice`,
`StatesOfTheirPlate`, `JobIsComplete`, `ChannelsAreEmpty`.

In `JobFile` (its specification is `JobSpec`, as this module extends both) `MemoryInv`
accounts for every block: while the program works on the job, the blocks of
`destroy_job` are all there (`JobIsWhole`) and the others that are allocated are exactly
`Besides`.  It cannot hold after a failure that destroys the job behind the back of its
callers, so `DoomedInv` follows these to the freed block they meet: a plate freed twice
after `expand_job`, the job read after `clean_plate`.  `CourseInv` relates the progress
to the error and to what was written, and says that a later thread of `optimized` is the
only failure that leaves simulate at `joining`.  Theorems:
`ArrayHasRoom`, `FailureHasItsCode`, `LeaksAreKnown` and `SuccessIsComplete`, the
properties of the run for every job file and every set of failures.

**`NetworkSimProofs`** One invariant for the five versions.  `ProducerInv` counts the
producers that drew a number past the last packet: the one that sends the stop
condition is the last to work (`StopComesLast`).  `PlaceInv` gives each packet one
place, in a queue, in a thread's hands or among the lost and consumed
(`NoPacketLostOrDoubled`).  That queues are left empty (`QueuesAreLeftEmpty`) has two
arguments.  Without a loop (`LineInv`) a stop condition is the last message of its queue.
In the fixed version (`FixInv`) packets may still be behind it: one stop condition
goes round (`StopGoesRound`) and, as behind it the dispatcher only gets packets for
consumers, the second round finds none for the assembler.  `EndInv` says that the
dispatcher's stop conditions close every consumer's queue.

**`ExercisesProofs`** For `ProdConsBound`, `IInv` says what each semaphore counts.  As
no value is negative, `0 <= count - consumed < buffer_capacity` when the producer
writes, and elements less than a capacity apart are at different places
(`DifferentPlaces`): what is yet to be read is never written over.

For `Exercises`, a step of the composition is a step or a stutter of each of its
modules (the lemmas `...Behave`), so an invariant of a module is one of
`ExercisesSpec`.  **`WorkProofs`** has the lemmas of the last four modules below and of
`UnboundBuffer`, **`ExercisesProofs`** those of the others and the theorems.  The modules and what makes their properties inductive:

- `TeamOrder` (`TurnsTheorem`, `SemaphoresTheorem`, `PartyTheorem`): whatever the version
  orders its threads by (a number, semaphores, a condition, places) one thread has the
  turn, `TurnOf`, and those before it have announced themselves.  The pinata breaks once
  because the hits counted are the sum of those of the threads, a thread being in the
  critical section at most, and the thread that makes the last one is the only that
  finds the resistance reached.  Sums are shown equal by the least index where they would
  differ, as no induction theorem can be instantiated.
- `BuildingTasks` (`BuildersWait`): a semaphore was posted by those of its tasks that
  ended, and a task that passed its waits has taken all of them.
- `BuildH2O` and `Mist` (`RendezvousTheorem`): of the atoms only ten numbers matter, how
  many of each kind are on their way in, about to bond, bonded, being released and done;
  `Molecules` relates them to the semaphores and counters linearly, and a lemma on
  counting (`NumMoves`) says how a step of one atom moves them.  The barrier opens for the
  three atoms that are there, which are then all inside.  In `Mist` the counter of the
  barrier is the number of threads that have come.
- `EthreadTeam` (`EthreadTheorem`): the registers are there from `call` to return
  (`MemoryInv`) and hold the threads added so far (`AddedInv`), also while the array grows
  under threads that run.
- `ReadersWriters` (`ReadersTheorem`, `RoomTheorem`): a writer excludes everyone, so the
  lines the mutex and the rwlock protect are read as they were last written
  (`ExclusionInv`, `CounterInv`).
- `GreetingTeams` (`GreetingsTheorem`): registers and shared data are live while a thread
  runs, and a thread of `recursive_hello` that has not greeted yet is the last one created
  (`NextInv`).
- `UnboundBuffer` (`UnitsTheorem`): each unit taken is in exactly one place (`PlacesIn`, a
  sum of numbers of occurrences), and the values 0 that consumers got in place of a lost
  unit are related to the semaphore by `TokenInv`: the units in the queue, and those lost
  that nobody missed yet, are what is announced or claimed by a `sem_wait`.  At the end
  nobody holds anything, so every number but those of the consumed and lost is zero.
  `JoinInv` says which team is missing and that its threads have been joined.

- `DishStack` (`DishesTheorem`): the stack always holds the first dishes (`StackInv`), and each
  of the others is with exactly one washer or was washed once, so none is lost and none
  is washed twice.
- `HybridDistribution` (`RangesTheorem`): every process calculates from the same range
  (`KnownInv`) and its threads have run their blocks of its part (`PartInv`).  The starts
  of consecutive blocks follow one another from the start of the range to its end, for
  processes and for threads alike, so an index is in exactly one block.
- `OmpStages` (`StagesTheorem`): `BarrierInv` has no thread more than one construct ahead,
  and then only of threads waiting at the barrier; `TakenInv` and `LinesInv` say that the indices handed out
  are those of the lines printed and of the threads about to print.
- `MpiMessages` (`MessagesTheorem`) has one invariant for each program: a greeting is in
  its channel or printed (`GreetingsInv`), those that have greeted are the first ones
  and the permission is with the last of them or on its way to the next (`PermissionInv`), a team has its place once both of its
  runners ran (`RaceInv`), the ball is with one process or in one channel (`BallInv`).
  That every greeting is printed when the root ends needs a counting argument
  (`AllPrinted`): as many lines as senders, no two of the same.

`DataTheorem`, `WorkTheorem` and `OutputTheorem` put together what these say of the data
of threads (`DataOutlivesThreads`), of the work shared out (`WorkDoneOnce`) and of what is
printed and in which order (`OutputInOrder`).

**Only model-checked.** Liveness, which is out of the prover's reach: that the plate
teams, the job, the network simulations and the bounded buffer end, and what the
exercises promise under fairness.  One invariant of the passing runs has no theorem,
`ResultsAreRight`: `OmpStats`, `MergeSort`, `LuckyNumber` and `ShotPut` compute by
recursion or by sums over data, and what these give for every input would need induction
over the data.

## 5. Not modelled

- Plates of fewer than three rows: the team would have no thread and its barriers
  a count of zero, which POSIX refuses (`PlateAssumption`; listed as a hazard).
- Failures of mutex and barrier initialisation in the modules of the teams (`JobFile` has
  what they do to the job), reads and writes cut short in an open file, and the contents
  of paths and dates.
- In `omp_mpi` with several processes, a plate file that a worker cannot read or write.
- In `prod_cons_bound`, failing to create the consumer: the producer then works on
  freed memory.
- In `hello_order_semaphor`, the effect of posting a destroyed semaphore: the last thread
  posts the semaphore of thread 0, which the main thread may have destroyed
  (`hello_order_semaphore.c:199`).  It has none in the C library used.
- In `build_h2o`, inputs without two hydrogen atoms for each oxygen atom: the rest wait
  at the barrier for ever (the tests of the repository have none).
- `create_thread_team`: undefined from its first thread on, as its `create_threads`
  gives each thread the shared data where `compete` expects private data (`main.c:221`),
  and allocates a pointer's size for each register (`main.c:215`).
- Delays.  In `mpi_relay_race` a runner of the second stage sleeps its stage before it
  waits for the baton (`main.cpp:50`), where the readme has it run after the baton came:
  the two stages overlap and only the times printed are wrong, not the places.
- What follows the join of threads that were never created, which is undefined
  (`position_race.c:135` and its likes): `TeamOrder` stops there, and `ProgramsEnd` counts
  that as an end.
- `mpi_hello` and `invert`: one line per process, and a sequential program.
- Errors of MPI calls (the wrapper throws, and the default handler has ended the
  processes before), of mutexes, semaphores and locks, of `pthread_create` in
  `mist_cond_var`, and exceptions of `std::thread` in `dish_stack` and `build_h2o`.
- The types of `omp_stats` that differ from those modelled in their width only, and the
  rounding of `double`.
- In the network simulations: the packets that `packet_loss` leaves behind (the
  repository's `README.adoc:33` presents them as the defect of that version, so
  `NoPacketLeft` promises nothing of its dispatcher), zero consumers, producers or
  capacity, delays, and who deletes the queues.
- Parsing of arguments, formatting of reports and times, logging.
- The pseudocode of `taskc/` (`taskc_patterns`, `dancing_pairs`, `dining_philosophers`):
  designs that no program of the repository follows.

## 6. Plan

Every invariant of the passing runs but `ResultsAreRight` has its theorem; it and the
liveness properties stay with TLC, for the reasons in section 4.  What the model could
still take in is in section 5: first the plate files of `omp_mpi` that a worker cannot
read or write, then `create_thread_team` once its threads get their private data.

The order of the work so far was the plate (serial loop as abstract specification,
then the three teams), the distribution of plates, the job around them, the network
simulations, the bounded buffer, and the exercises.
