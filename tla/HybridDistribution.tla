-------------------------- MODULE HybridDistribution --------------------------
(***************************************************************************)
(* mpi_hybrid_distr_arg, mpi_hybrid_distr_stdin and hybrid_distr_bcast:    *)
(* a range of indexes is divided among processes, and the range of each    *)
(* process among the threads of an OpenMP team.                            *)
(*                                                                         *)
(* The range is in the arguments, or process 0 reads it and sends it to    *)
(* each process (stdin) or broadcasts its two ends (bcast).  The threads   *)
(* note their first and last indexes in variables that start at -1, which  *)
(* is also an index.                                                       *)
(***************************************************************************)
EXTENDS Integers, Sequences, FiniteSets

CONSTANTS
  DistrVersions,
  Workers,               (* numbers of processes                           *)
  Ranges,                (* pairs <<overall_start, overall_finish>>        *)
  OmpThreads             (* threads of a team                              *)

DistrAssumption ==
  /\ Workers \subseteq Nat \ {0} /\ OmpThreads \in Nat \ {0}
  /\ Ranges \subseteq Int \X Int

VARIABLES
  distr_version, workers,
  given,                 (* where the range is: "arguments" or "stdin"     *)
  input,                 (* the range that the user gives                  *)
  distr_place,           (* where each process is                          *)
  overall,               (* the range as each process knows it             *)
  range_channel,         (* the message of process 0 to each other process *)
  process_range,         (* the range printed by each process              *)
  threads_done,          (* the threads that have finished, by process     *)
  executed,              (* the indexes run by each thread                 *)
  thread_range           (* the ranges that the threads print              *)

launched  == <<distr_version, workers, given, input>>
teams     == <<threads_done, executed, thread_range>>
distrVars == <<launched, distr_place, overall, range_channel, process_range, teams>>

Process == 0 .. workers - 1
Team    == 0 .. OmpThreads - 1

Init ==
  /\ distr_version = "none" /\ workers = 0 /\ given = "none" /\ input = <<0, 0>>
  /\ distr_place = <<>> /\ overall = <<>> /\ range_channel = <<>>
  /\ process_range = <<>> /\ threads_done = <<>> /\ executed = <<>> /\ thread_range = <<>>

Launch ==
  /\ workers = 0
  /\ distr_version' \in DistrVersions /\ workers' \in Workers
  /\ given' \in {"arguments", "stdin"} /\ input' \in Ranges
  /\ distr_place' = [r \in Process' |-> "start"]
  /\ overall' = [r \in Process' |-> <<-1, -1>>]
  /\ range_channel' = [r \in Process' |-> <<>>]
  /\ process_range' = [r \in Process' |-> <<>>]
  /\ threads_done' = [r \in Process' |-> {}]
  /\ executed' = [r \in Process' |-> [t \in Team |-> {}]]
  /\ thread_range' = [r \in Process' |-> [t \in Team |-> <<>>]]

-----------------------------------------------------------------------------
(* Integer division of C, which rounds towards zero *)

Quotient(a, b)  == IF a >= 0 THEN a \div b ELSE -((-a) \div b)
Remainder(a, b) == a - b * Quotient(a, b)
Least(a, b)     == IF a < b THEN a ELSE b

calculate_start(rank, end, count, begin) ==
  begin + rank * Quotient(end - begin, count) + Least(rank, Remainder(end - begin, count))

calculate_finish(rank, end, count, begin) == calculate_start(rank + 1, end, count, begin)

ProcessStart(r)  == calculate_start(r, overall[r][2], workers, overall[r][1])
ProcessFinish(r) == calculate_finish(r, overall[r][2], workers, overall[r][1])

\* The indexes that the static schedule gives to one thread.
OmpBlock(start, finish, t) ==
  IF finish <= start THEN {}
  ELSE calculate_start(t, finish, OmpThreads, start)
         .. calculate_finish(t, finish, OmpThreads, start) - 1

\* thread_start and thread_finish after the loop: an index that is -1 does not set the
\* first, and the last one sets the second.
ThreadRange(block) ==
  <<IF block \subseteq {-1} THEN -1 ELSE CHOOSE i \in block \ {-1} : \A j \in block \ {-1} : i <= j,
    IF block = {} THEN -1 ELSE 1 + CHOOSE i \in block : \A j \in block : i >= j>>

-----------------------------------------------------------------------------

GoTo(r, place) == distr_place' = [distr_place EXCEPT ![r] = place]

\* hybrid_distr_arg ends when there are no arguments.
ReadRange(r) ==
  /\ distr_place[r] = "start"
  /\ IF given = "arguments" \/ (r = 0 /\ distr_version # "arg")
       THEN overall' = [overall EXCEPT ![r] = input] ELSE UNCHANGED overall
  /\ GoTo(r, IF given = "arguments" THEN "calculate"
             ELSE CASE distr_version = "arg" -> "done"
                    [] distr_version = "bcast" -> "broadcast start"
                    [] OTHER -> IF r = 0 THEN "send" ELSE "receive")
  /\ UNCHANGED <<launched, range_channel, process_range, teams>>

\* To each destination in order; process 0 goes on before or after the message is
\* received, which nobody can tell.
SendRange(r) ==
  LET sent == {q \in Process \ {0} : range_channel[q] # <<>>}
      destination == Cardinality(sent) + 1
  IN
  /\ distr_place[r] = "send"
  /\ IF destination < workers
       THEN /\ range_channel' = [range_channel EXCEPT ![destination] = overall[r]]
            /\ UNCHANGED distr_place
       ELSE GoTo(r, "calculate") /\ UNCHANGED range_channel
  /\ UNCHANGED <<launched, overall, process_range, teams>>

ReceiveRange(r) ==
  /\ distr_place[r] = "receive" /\ range_channel[r] # <<>>
  /\ overall' = [overall EXCEPT ![r] = range_channel[r]]
  /\ GoTo(r, "calculate")
  /\ UNCHANGED <<launched, range_channel, process_range, teams>>

\* Two broadcasts: nobody leaves one before process 0 has called it.
Broadcast(r) ==
  LET end == IF distr_place[r] = "broadcast start" THEN 1 ELSE 2
      called == distr_place[0] \notin {"start", distr_place[r]}
                /\ (end = 2 => distr_place[0] # "broadcast start")
  IN
  /\ distr_place[r] \in {"broadcast start", "broadcast finish"}
  /\ r = 0 \/ called
  /\ overall' = [overall EXCEPT ![r][end] = overall[0][end]]
  /\ GoTo(r, IF end = 1 THEN "broadcast finish" ELSE "calculate")
  /\ UNCHANGED <<launched, range_channel, process_range, teams>>

\* The range of the process is printed before its team starts.
CalculateRange(r) ==
  /\ distr_place[r] = "calculate"
  /\ process_range' = [process_range EXCEPT ![r] = <<ProcessStart(r), ProcessFinish(r)>>]
  /\ GoTo(r, "parallel")
  /\ UNCHANGED <<launched, overall, range_channel, teams>>

\* One thread runs its indexes and prints its range; bcast omits a thread if one of
\* its variables is -1.
ThreadTask(r, t) ==
  LET block == OmpBlock(ProcessStart(r), ProcessFinish(r), t)
      range == ThreadRange(block)
  IN
  /\ distr_place[r] = "parallel" /\ t \notin threads_done[r]
  /\ threads_done' = [threads_done EXCEPT ![r] = @ \cup {t}]
  /\ executed' = [executed EXCEPT ![r][t] = block]
  /\ thread_range' = [thread_range EXCEPT ![r][t] =
       IF distr_version = "bcast" /\ (range[1] = -1 \/ range[2] = -1) THEN <<>> ELSE range]
  /\ UNCHANGED <<launched, distr_place, overall, range_channel, process_range>>

EndTeam(r) ==
  /\ distr_place[r] = "parallel" /\ threads_done[r] = Team
  /\ GoTo(r, "done")
  /\ UNCHANGED <<launched, overall, range_channel, process_range, teams>>

ProcessStep(r) ==
  /\ r \in Process
  /\ \/ ReadRange(r) \/ SendRange(r) \/ ReceiveRange(r) \/ Broadcast(r)
     \/ CalculateRange(r) \/ EndTeam(r) \/ \E t \in Team : ThreadTask(r, t)

Distributed == workers > 0 /\ \A r \in Process : distr_place[r] = "done"

Next == Launch \/ (\E r \in Process : ProcessStep(r)) \/ (Distributed /\ UNCHANGED distrVars)

Spec == Init /\ [][Next]_distrVars
-----------------------------------------------------------------------------
(* Properties *)

\* Wherever the range came from, the processes divide it into consecutive ranges that
\* differ by at most one index, and their threads run each index once; nobody runs
\* anything when the range is empty or backwards.
IndexesRunOnce ==
  LET start  == input[1]
      finish == input[2]
      printed == {r \in DOMAIN process_range : process_range[r] # <<>>}
      from(r) == process_range[r][1]
      to(r)   == process_range[r][2]
      run(i)  == {p \in Process \X Team : i \in executed[p[1]][p[2]]}
      shared == distr_version # "arg" \/ given = "arguments"
  IN /\ start <= finish => \A r, q \in printed :
          /\ r = 0 => from(r) = start
          /\ r = workers - 1 => to(r) = finish
          /\ q = r + 1 => to(r) = from(q)
          /\ (to(r) - from(r)) - (to(q) - from(q)) \in {0, 1, -1}
     /\ \A r \in Process, t \in Team : \A i \in executed[r][t] :
          i \in start .. finish - 1 /\ Cardinality(run(i)) = 1
     /\ Distributed /\ shared => \A i \in start .. finish - 1 : run(i) # {}

\* Each thread prints the range it ran.  Not so when an end is the -1 that stands for
\* no index: a block that starts at -1 is printed without it, and bcast omits a block
\* that ends there.
PrintedAsRun ==
  \A r \in Process : \A t \in threads_done[r] :
    LET range == thread_range[r][t]
        run   == executed[r][t]
        ends_at_minus_one == -2 \in run /\ -1 \notin run
        starts_at_minus_one == -1 \in run /\ -2 \notin run
        printed == IF range = <<>> THEN {} ELSE range[1] .. range[2] - 1
    IN CASE ends_at_minus_one /\ distr_version = "bcast" -> range = <<>>
         [] starts_at_minus_one /\ 0 \in run -> printed = run \ {-1}
         [] starts_at_minus_one /\ 0 \notin run /\ distr_version = "bcast" -> range = <<>>
         [] OTHER -> printed = run

-----------------------------------------------------------------------------
(* The inductive invariant *)

TypeOK ==
  /\ workers \in Nat /\ given \in {"none", "arguments", "stdin"} /\ input \in Int \X Int
  /\ distr_place \in [Process -> {"start", "send", "receive", "broadcast start", "broadcast finish",
                                  "calculate", "parallel", "done"}]
  /\ overall \in [Process -> Int \X Int]
  /\ range_channel \in [Process -> {<<>>, input}]
  /\ process_range \in [Process -> {<<>>} \cup Int \X Int]
  /\ threads_done \in [Process -> SUBSET Team]
  /\ executed \in [Process -> [Team -> SUBSET Int]]
  /\ thread_range \in [Process -> [Team -> {<<>>} \cup Int \X Int]]

\* Whether process 0 has the range when the others ask for it.
Shared == distr_version # "arg" \/ given = "arguments"

\* What a process knows of the range.
KnownInv ==
  /\ Shared => \A r \in Process : r = 0 /\ distr_place[r] # "start" => overall[r] = input
  /\ \A r \in Process :
       /\ distr_place[r] \in {"calculate", "parallel"} => Shared /\ overall[r] = input
       /\ distr_place[r] = "send" => r = 0 /\ Shared
       /\ distr_place[r] \in {"receive", "broadcast start", "broadcast finish"} => Shared
       /\ distr_place[r] = "broadcast finish" => overall[r][1] = input[1]

PartStart(r)  == calculate_start(r, input[2], workers, input[1])
PartFinish(r) == calculate_finish(r, input[2], workers, input[1])
Block(r, t)   == OmpBlock(PartStart(r), PartFinish(r), t)

\* A process has its part once it leaves "calculate", its threads run their blocks.
PartInv ==
  \A r \in Process :
    /\ process_range[r] \in {<<>>, <<PartStart(r), PartFinish(r)>>}
    /\ distr_place[r] = "done" /\ Shared => threads_done[r] = Team
    /\ \A t \in Team :
         IF t \in threads_done[r]
           THEN /\ executed[r][t] = Block(r, t)
                /\ thread_range[r][t] =
                     LET range == ThreadRange(Block(r, t))
                     IN IF distr_version = "bcast" /\ (range[1] = -1 \/ range[2] = -1) THEN <<>> ELSE range
           ELSE executed[r][t] = {}

IInv == TypeOK /\ KnownInv /\ PartInv
=============================================================================
