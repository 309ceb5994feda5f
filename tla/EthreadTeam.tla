---------------------------- MODULE EthreadTeam ----------------------------
(***************************************************************************)
(* common/ethread: threads that know their team.  A program                *)
(*   - creates a team at once (create_threads) and joins it,               *)
(*   - reserves a team, adds threads to it, one by one or several at once, *)
(*     and joins it (building_tasks), or                                   *)
(*   - creates a thread without a team (create_thread) and joins it.       *)
(* The threads ask for their number and for the size of the team, which    *)
(* grows while they run.                                                   *)
(*                                                                         *)
(* A thread is counted before pthread_create: one that could not be        *)
(* created is joined, which is undefined.                                  *)
(***************************************************************************)
EXTENDS Naturals

CONSTANTS
  TeamCapacities,
  TeamMayFail            (* whether callocs and creations may fail         *)

EthreadAssumption == TeamCapacities \subseteq Nat \ {0} /\ TeamMayFail \in BOOLEAN

VARIABLES
  call,                  (* what the calling program is doing              *)
  usage,                 (* in which of the three ways                     *)
  team_memory,           (* the registers of team and threads              *)
  thread_capacity, team_thread_count,
  to_add,                (* threads that add_threads has still to add      *)
  team_joined,
  ethread,               (* where each thread is                           *)
  seen_count,            (* what get_thread_count answers to each          *)
  call_errors

ethreadVars == <<call, usage, team_memory, thread_capacity, team_thread_count,
                 to_add, team_joined, ethread, seen_count, call_errors>>

Members == 0 .. thread_capacity - 1

Init ==
  /\ call = "start" /\ usage = "none" /\ team_memory = "none"
  /\ thread_capacity = 0 /\ team_thread_count = 0 /\ to_add = 0 /\ team_joined = 0
  /\ ethread = <<>> /\ seen_count = <<>> /\ call_errors = {}

-----------------------------------------------------------------------------
(* The calls *)

\* create_threads reserves the team that it fills; create_thread allocates one
\* register, without a team.
Reserve ==
  /\ call = "start"
  /\ usage' \in {"create_threads", "reserve_threads", "create_thread"}
  /\ thread_capacity' \in IF usage' = "create_thread" THEN {1} ELSE TeamCapacities
  /\ ethread' = [t \in Members' |-> "unborn"]
  /\ seen_count' = [t \in Members' |-> 0]
  /\ \/ /\ team_memory' = "live"
        /\ call' = IF usage' = "reserve_threads" THEN "idle" ELSE "add"
        /\ to_add' = IF usage' = "reserve_threads" THEN 0 ELSE thread_capacity'
     \/ /\ TeamMayFail
        /\ call' = "returned" /\ UNCHANGED <<team_memory, to_add>>
  /\ UNCHANGED <<team_thread_count, team_joined, call_errors>>

\* The program with a team of its own calls add_thread or add_threads, which have
\* room or answer ENOSPC; add_threads adds all or nothing.
CallAdd(count) ==
  /\ call = "idle" /\ usage # "create_thread" /\ "ENOSPC" \notin call_errors
  /\ \/ /\ team_thread_count + count <= thread_capacity
        /\ call' = "add" /\ to_add' = count /\ UNCHANGED call_errors
     \/ /\ team_thread_count + count > thread_capacity
        /\ call_errors' = call_errors \cup {"ENOSPC"} /\ UNCHANGED <<call, to_add>>
  /\ UNCHANGED <<usage, team_memory, thread_capacity, team_thread_count, team_joined, ethread, seen_count>>

\* The argument of pthread_create increases the count.
AddThread ==
  LET t == team_thread_count
  IN
  /\ call = "add" /\ to_add > 0
  /\ ethread' = [ethread EXCEPT ![t] = "ask"]
  /\ team_thread_count' = team_thread_count + 1
  /\ to_add' = to_add - 1
  /\ UNCHANGED <<call, usage, team_memory, thread_capacity, team_joined, seen_count, call_errors>>

\* add_threads joins the team and releases it, and create_threads does so again;
\* create_thread releases the register of the thread.  A program that called
\* add_thread still has its team, with a thread too many.
CreationFails ==
  /\ TeamMayFail /\ call = "add" /\ to_add > 0
  /\ call_errors' = call_errors \cup {"EAGAIN"} /\ to_add' = 0
  /\ \/ /\ usage = "create_thread"
        /\ call' = "returned" /\ team_memory' = "freed" /\ UNCHANGED team_thread_count
     \/ /\ usage # "create_thread"
        /\ call' \in {"join"} \cup (IF usage = "reserve_threads" /\ to_add = 1 THEN {"idle"} ELSE {})
        /\ team_thread_count' = team_thread_count + 1 /\ UNCHANGED team_memory
  /\ UNCHANGED <<usage, thread_capacity, team_joined, ethread, seen_count>>

AllAdded ==
  /\ call = "add" /\ to_add = 0
  /\ call' = "idle"
  /\ UNCHANGED <<usage, team_memory, thread_capacity, team_thread_count, to_add, team_joined, ethread, seen_count, call_errors>>

CallJoin ==
  /\ call = "idle" /\ call' = "join"
  /\ UNCHANGED <<usage, team_memory, thread_capacity, team_thread_count, to_add, team_joined, ethread, seen_count, call_errors>>

JoinThread ==
  /\ call = "join" /\ team_joined < team_thread_count
  /\ CASE ethread[team_joined] = "done" -> team_joined' = team_joined + 1 /\ UNCHANGED call
       [] ethread[team_joined] = "unborn" -> call' = "undefined" /\ UNCHANGED team_joined
       [] OTHER -> FALSE
  /\ UNCHANGED <<usage, team_memory, thread_capacity, team_thread_count, to_add, ethread, seen_count, call_errors>>

FreeTeam ==
  /\ call = "join" /\ team_joined = team_thread_count
  /\ team_memory' = "freed" /\ call' = "returned"
  /\ UNCHANGED <<usage, thread_capacity, team_thread_count, to_add, team_joined, ethread, seen_count, call_errors>>

-----------------------------------------------------------------------------
(* The threads *)

\* get_thread_number and get_thread_count, without synchronization with add_thread.
AskCount(t) ==
  /\ ethread[t] = "ask"
  /\ seen_count' = [seen_count EXCEPT ![t] =
       IF usage = "create_thread" THEN 1 ELSE team_thread_count]
  /\ ethread' = [ethread EXCEPT ![t] = "working"]
  /\ UNCHANGED <<call, usage, team_memory, thread_capacity, team_thread_count, to_add, team_joined, call_errors>>

Finish(t) ==
  /\ ethread[t] = "working"
  /\ ethread' = [ethread EXCEPT ![t] = "done"]
  /\ UNCHANGED <<call, usage, team_memory, thread_capacity, team_thread_count, to_add, team_joined, seen_count, call_errors>>

EthreadStep ==
  \/ Reserve \/ (\E count \in 1 .. thread_capacity : CallAdd(count))
  \/ AddThread \/ CreationFails \/ AllAdded \/ CallJoin \/ JoinThread \/ FreeTeam
  \/ \E t \in Members : AskCount(t) \/ Finish(t)

EthreadEnded == call \in {"returned", "undefined"}

Next == (~EthreadEnded /\ EthreadStep) \/ (EthreadEnded /\ UNCHANGED ethreadVars)

Spec == Init /\ [][Next]_ethreadVars

-----------------------------------------------------------------------------
(* Properties *)

\* A thread runs only while the registers of its team are there, the size it is told
\* is greater than its number and at most the capacity, and what is undefined
\* happens only to a program that ignored a failed creation or was not let know of it.
TeamOutlivesThreads ==
  /\ \A t \in Members :
       /\ ethread[t] \in {"ask", "working"} => team_memory = "live"
       /\ seen_count[t] > 0 => seen_count[t] \in t + 1 .. thread_capacity
  /\ call = "undefined" => "EAGAIN" \in call_errors
  /\ call = "returned" => team_memory # "live"

-----------------------------------------------------------------------------
(* The inductive invariant *)

TypeOK ==
  /\ call \in {"start", "idle", "add", "join", "returned", "undefined"}
  /\ usage \in {"none", "create_threads", "reserve_threads", "create_thread"}
  /\ team_memory \in {"none", "live", "freed"}
  /\ thread_capacity \in Nat /\ team_thread_count \in 0 .. thread_capacity
  /\ team_joined \in 0 .. team_thread_count /\ to_add \in Nat
  /\ ethread \in [Members -> {"unborn", "ask", "working", "done"}]
  /\ seen_count \in [Members -> Nat]

\* The registers are there from the reservation to the end of the joins.
MemoryInv ==
  /\ team_memory = "live" <=> call \in {"idle", "add", "join", "undefined"}
  /\ call = "start" => thread_capacity = 0

\* There is room for the threads that are still to be added, and a thread that was
\* counted but not created is known from the error.
AddedInv ==
  /\ call = "add" => team_thread_count + to_add <= thread_capacity
  /\ usage = "create_thread" => thread_capacity = 1
  /\ \A t \in Members :
       /\ t >= team_thread_count => ethread[t] = "unborn"
       /\ t < team_joined => ethread[t] = "done"
       /\ t < team_thread_count /\ ethread[t] = "unborn" => "EAGAIN" \in call_errors

IInv == TypeOK /\ MemoryInv /\ AddedInv /\ TeamOutlivesThreads
=============================================================================
