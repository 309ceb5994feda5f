---------------------------- MODULE BuildingTasks ----------------------------
(***************************************************************************)
(* pthreads/building_tasks: ten builders, each with one task, ordered by   *)
(* eight semaphores that start at zero.  A builder waits for the           *)
(* semaphores of its task, starts, finishes and posts.  The threads are    *)
(* added to a team of ethread one by one and joined in the same order.     *)
(***************************************************************************)
EXTENDS Integers, Sequences

\* The tasks, in the order of add_thread.
Tasks ==
  <<"walls", "exterior_plumbing", "roof", "exterior_painting",
    "interior_plumbing", "electrical_installation", "exterior_finishes",
    "interior_painting", "floors", "interior_finishes">>

Task == {Tasks[i] : i \in DOMAIN Tasks}

\* The sem_wait calls of each task, in order.  A semaphore is named for the task
\* that posts it.
Waits ==
  [walls |-> <<>>,
   exterior_plumbing |-> <<"walls">>, roof |-> <<"walls">>,
   exterior_painting |-> <<"exterior_plumbing">>,
   interior_plumbing |-> <<"exterior_plumbing">>,
   electrical_installation |-> <<"roof">>,
   exterior_finishes |-> <<"exterior_painting">>,
   interior_painting |-> <<"interior_plumbing", "electrical_installation">>,
   floors |-> <<"interior_painting">>,
   interior_finishes |-> <<"floors">>]

\* Its sem_post calls.
Posts(task) ==
  CASE task \in {"walls", "exterior_plumbing"} -> 2
    [] task \in {"exterior_finishes", "interior_finishes"} -> 0
    [] OTHER -> 1

VARIABLES
  added, joined_tasks,     (* threads added to the team, and joined        *)
  stage,                   (* where each builder is                        *)
  waited, posted,          (* its waits and posts behind it                *)
  ready                    (* the semaphores                               *)

taskVars == <<added, joined_tasks, stage, waited, posted, ready>>

Init ==
  /\ added = 0 /\ joined_tasks = 0
  /\ waited = [task \in Task |-> 0] /\ posted = [task \in Task |-> 0]
  /\ stage = [task \in Task |-> "unborn"]
  /\ ready = [task \in Task |-> 0]

AddThread ==
  /\ added < Len(Tasks)
  /\ added' = added + 1
  /\ stage' = [stage EXCEPT ![Tasks[added']] = "waiting"]
  /\ UNCHANGED <<joined_tasks, waited, posted, ready>>

JoinThread ==
  /\ added = Len(Tasks) /\ joined_tasks < Len(Tasks)
  /\ stage[Tasks[joined_tasks + 1]] = "done"
  /\ joined_tasks' = joined_tasks + 1
  /\ UNCHANGED <<added, stage, waited, posted, ready>>

Wait(task) ==
  LET semaphore == Waits[task][waited[task] + 1]
  IN
  /\ stage[task] = "waiting" /\ waited[task] < Len(Waits[task])
  /\ ready[semaphore] > 0
  /\ ready' = [ready EXCEPT ![semaphore] = @ - 1]
  /\ waited' = [waited EXCEPT ![task] = @ + 1]
  /\ UNCHANGED <<added, joined_tasks, stage, posted>>

\* Mistake: a task with two dependencies waits for one of them.
StartEarly(task) ==
  /\ stage[task] = "waiting"
  /\ waited[task] = Len(Waits[task]) \/ waited[task] = 1
  /\ stage' = [stage EXCEPT ![task] = "working"]
  /\ UNCHANGED <<added, joined_tasks, waited, posted, ready>>

Start(task) ==
  /\ stage[task] = "waiting" /\ waited[task] = Len(Waits[task])
  /\ stage' = [stage EXCEPT ![task] = "working"]
  /\ UNCHANGED <<added, joined_tasks, waited, posted, ready>>

Finish(task) ==
  /\ stage[task] = "working"
  /\ stage' = [stage EXCEPT ![task] = "posting"]
  /\ UNCHANGED <<added, joined_tasks, waited, posted, ready>>

Post(task) ==
  /\ stage[task] = "posting" /\ posted[task] < Posts(task)
  /\ ready' = [ready EXCEPT ![task] = @ + 1]
  /\ posted' = [posted EXCEPT ![task] = @ + 1]
  /\ UNCHANGED <<added, joined_tasks, stage, waited>>

Return(task) ==
  /\ stage[task] = "posting" /\ posted[task] = Posts(task)
  /\ stage' = [stage EXCEPT ![task] = "done"]
  /\ UNCHANGED <<added, joined_tasks, waited, posted, ready>>

Builder(task) ==
  Wait(task) \/ Start(task) \/ Finish(task) \/ Post(task) \/ Return(task)

Foreman == AddThread \/ JoinThread

Built == joined_tasks = Len(Tasks)

Next == Foreman \/ (\E task \in Task : Builder(task)) \/ (Built /\ UNCHANGED taskVars)

Spec == Init /\ [][Next]_taskVars

-----------------------------------------------------------------------------
(* Properties *)

\* The arrows of the task graph of readme.adoc (img/building_tasks.svg).
Dependencies(task) ==
  CASE task \in {"exterior_plumbing", "roof"} -> {"walls"}
    [] task \in {"exterior_painting", "interior_plumbing"} -> {"exterior_plumbing"}
    [] task = "electrical_installation" -> {"roof"}
    [] task = "exterior_finishes" -> {"exterior_painting"}
    [] task = "interior_painting" -> {"interior_plumbing", "electrical_installation"}
    [] task = "floors" -> {"interior_painting"}
    [] task = "interior_finishes" -> {"floors"}
    [] OTHER -> {}

\* "The program is correct when no builder can start before all its dependencies
\* are completed" (readme.adoc of building_tasks).
TasksInOrder ==
  \A task \in Task : stage[task] \in {"working", "posting", "done"} =>
    \A dependency \in Dependencies(task) : stage[dependency] \in {"posting", "done"}

-----------------------------------------------------------------------------
(* The inductive invariant *)

TypeOK ==
  /\ added \in 0 .. Len(Tasks)
  /\ stage \in [Task -> {"unborn", "waiting", "working", "posting", "done"}]
  /\ waited \in [Task -> Nat] /\ posted \in [Task -> Nat] /\ ready \in [Task -> Nat]

\* A semaphore is posted by the builder that has finished, and one that a builder
\* has waited for was posted; nobody starts before the last of its waits.
SemaphoreInv ==
  \A task \in Task :
    /\ ready[task] > 0 => posted[task] > 0
    /\ posted[task] > 0 => stage[task] \in {"posting", "done"}
    /\ waited[task] <= Len(Waits[task])
    /\ \A n \in 1 .. waited[task] : posted[Waits[task][n]] > 0
    /\ stage[task] \in {"working", "posting", "done"} =>
         waited[task] = Len(Waits[task])

\* Threads are added once, in the order of the tasks.
AddedInv == \A n \in 1 .. Len(Tasks) : n > added => stage[Tasks[n]] = "unborn"

\* The waits of a builder are behind it when it works (main.c of building_tasks).
IInv == TypeOK /\ SemaphoreInv /\ AddedInv
=============================================================================
