---------------------------- MODULE UnboundBuffer ----------------------------
(***************************************************************************)
(* pthreads/prod_cons_unbound: producers and consumers of unit_count       *)
(* numbered units around a queue protected by a mutex.                     *)
(*                                                                         *)
(* A producer takes the next number, a consumer claims one more unit, both *)
(* under a mutex and never more than unit_count in all; can_consume counts *)
(* the units announced.  The queue's mutex makes each operation atomic.    *)
(*                                                                         *)
(* The main thread creates both teams and joins them only when both exist. *)
(* A team whose thread cannot be created is abandoned once its other       *)
(* threads have ended, and the other team is then not joined: the          *)
(* simulation is destroyed under it, and what it does next is undefined.   *)
(***************************************************************************)
EXTENDS Integers, Sequences, FiniteSets

CONSTANTS
  unit_count, producer_count, consumer_count,    (* the arguments          *)
  CallocMayFail,         (* whether a node of the queue is not allocated   *)
  UnitCreationMayFail    (* threads, by number, whose creation may fail    *)

ArgumentsAssumption ==
  /\ unit_count \in Nat \ {0}
  /\ producer_count \in Nat \ {0} /\ consumer_count \in Nat \ {0}
  /\ CallocMayFail \in BOOLEAN
  /\ UnitCreationMayFail \subseteq 1 .. producer_count + consumer_count

Producers == {<<"producer", p>> : p \in 1 .. producer_count}
Consumers == {<<"consumer", c>> : c \in 1 .. consumer_count}
Threads   == Producers \cup Consumers

VARIABLES
  unit_main,             (* the main thread: create, rejoin, released      *)
  created_units,         (* threads gone through, producers first          *)
  missing,               (* teams that could not be created                *)
  unit_pc,               (* where each thread is                           *)
  my_unit,               (* the unit in the hands of each thread           *)
  next_unit, consumed_count,
  queue, can_consume,
  consuming,             (* values reported by the consumers               *)
  lost                   (* units whose node was not allocated             *)

unitMain == <<unit_main, created_units, missing>>
claims   == <<next_unit, consumed_count>>
unitVars == <<unitMain, unit_pc, my_unit, claims, queue, can_consume,
              consuming, lost>>

\* The thread that create_threads makes n-th.
Nth(n) == IF n <= producer_count THEN <<"producer", n>>
                                 ELSE <<"consumer", n - producer_count>>

Init ==
  /\ unit_main = "create" /\ created_units = 0 /\ missing = {}
  /\ unit_pc = [t \in Threads |-> "unborn"]
  /\ my_unit = [t \in Threads |-> 0]
  /\ next_unit = 0 /\ consumed_count = 0
  /\ queue = <<>> /\ can_consume = 0
  /\ consuming = <<>> /\ lost = {}

GoTo(t, place) == unit_pc' = [unit_pc EXCEPT ![t] = place]

CreateThread ==
  /\ unit_main = "create" /\ created_units < producer_count + consumer_count
  /\ created_units' = created_units + 1
  /\ GoTo(Nth(created_units'), "claim")
  /\ UNCHANGED <<unit_main, missing, my_unit, claims, queue, can_consume,
                 consuming, lost>>

\* pthread_create fails, or calloc before the first one: the rest of the team is not
\* created.
CreateFails ==
  /\ unit_main = "create" /\ created_units + 1 \in UnitCreationMayFail
  /\ unit_main' = "rejoin"
  /\ missing' = missing \cup {Nth(created_units + 1)[1]}
  /\ created_units' = IF created_units < producer_count
                        THEN producer_count ELSE producer_count + consumer_count
  /\ UNCHANGED <<unit_pc, my_unit, claims, queue, can_consume, consuming, lost>>

Over(t) == unit_pc[t] \in {"unborn", "done"}

\* The threads of the failed team that were created are joined.
JoinCreated ==
  /\ unit_main = "rejoin"
  /\ \A t \in Threads : t[1] = Nth(created_units)[1] => Over(t)
  /\ unit_main' = "create"
  /\ UNCHANGED <<created_units, missing>>
  /\ UNCHANGED <<unit_pc, my_unit, claims, queue, can_consume, consuming, lost>>

\* Both teams are joined, or neither; then simulation_destroy.
Release ==
  /\ unit_main = "create" /\ created_units = producer_count + consumer_count
  /\ missing = {} => \A t \in Threads : Over(t)
  /\ unit_main' = "released"
  /\ UNCHANGED <<created_units, missing>>
  /\ UNCHANGED <<unit_pc, my_unit, claims, queue, can_consume, consuming, lost>>

-----------------------------------------------------------------------------
(* produce *)

TakeUnit(p) ==
  /\ unit_pc[p] = "claim"
  /\ IF next_unit < unit_count
       THEN /\ next_unit' = next_unit + 1
            /\ my_unit' = [my_unit EXCEPT ![p] = next_unit']
            /\ GoTo(p, "enqueue")
       ELSE GoTo(p, "done") /\ UNCHANGED <<next_unit, my_unit>>
  /\ UNCHANGED <<unitMain, consumed_count, queue, can_consume, consuming, lost>>

\* queue_enqueue, whose error nobody looks at.
Enqueue(p) ==
  /\ unit_pc[p] = "enqueue"
  /\ \/ queue' = Append(queue, my_unit[p]) /\ UNCHANGED lost
     \/ CallocMayFail /\ lost' = lost \cup {my_unit[p]} /\ UNCHANGED queue
  /\ GoTo(p, "post")
  /\ UNCHANGED <<unitMain, my_unit, claims, can_consume, consuming>>

Post(p) ==
  /\ unit_pc[p] = "post"
  /\ can_consume' = can_consume + 1
  /\ GoTo(p, "claim")
  /\ UNCHANGED <<unitMain, my_unit, claims, queue, consuming, lost>>

-----------------------------------------------------------------------------
(* consume *)

\* Mistake: the count is read without the claim.
ClaimLate(c) ==
  /\ unit_pc[c] = "claim"
  /\ IF consumed_count < unit_count THEN GoTo(c, "wait") ELSE GoTo(c, "done")
  /\ consumed_count' = Len(consuming)
  /\ UNCHANGED <<unitMain, my_unit, next_unit, queue, can_consume, consuming, lost>>

ClaimUnit(c) ==
  /\ unit_pc[c] = "claim"
  /\ IF consumed_count < unit_count
       THEN consumed_count' = consumed_count + 1 /\ GoTo(c, "wait")
       ELSE GoTo(c, "done") /\ UNCHANGED consumed_count
  /\ UNCHANGED <<unitMain, my_unit, next_unit, queue, can_consume, consuming, lost>>

\* Mistake: nothing waits for the unit claimed.
NoWait(c) ==
  /\ unit_pc[c] = "wait"
  /\ GoTo(c, "dequeue")
  /\ UNCHANGED <<unitMain, my_unit, claims, queue, can_consume, consuming, lost>>

Wait(c) ==
  /\ unit_pc[c] = "wait"
  /\ can_consume > 0 /\ can_consume' = can_consume - 1
  /\ GoTo(c, "dequeue")
  /\ UNCHANGED <<unitMain, my_unit, claims, queue, consuming, lost>>

\* queue_dequeue leaves the value at 0 when the queue is empty.
Dequeue(c) ==
  /\ unit_pc[c] = "dequeue"
  /\ IF queue = <<>>
       THEN my_unit' = [my_unit EXCEPT ![c] = 0] /\ UNCHANGED queue
       ELSE my_unit' = [my_unit EXCEPT ![c] = Head(queue)] /\ queue' = Tail(queue)
  /\ GoTo(c, "consume")
  /\ UNCHANGED <<unitMain, claims, can_consume, consuming, lost>>

Consume(c) ==
  /\ unit_pc[c] = "consume"
  /\ consuming' = Append(consuming, my_unit[c])
  /\ GoTo(c, "claim")
  /\ UNCHANGED <<unitMain, my_unit, claims, queue, can_consume, lost>>

-----------------------------------------------------------------------------

Producer(p) == TakeUnit(p) \/ Enqueue(p) \/ Post(p)
Consumer(c) == ClaimUnit(c) \/ Wait(c) \/ Dequeue(c) \/ Consume(c)

Released == unit_main = "released"

MainStep == CreateThread \/ CreateFails \/ JoinCreated \/ Release

ThreadStep(t) ==
  /\ ~Released
  /\ (t \in Producers /\ Producer(t)) \/ (t \in Consumers /\ Consumer(t))

Next ==
  \/ MainStep
  \/ \E t \in Threads : ThreadStep(t)
  \/ Released /\ UNCHANGED unitVars

Spec == Init /\ [][Next]_unitVars

-----------------------------------------------------------------------------
(* Properties *)

Count(places, team) == Cardinality({t \in team : unit_pc[t] \in places})

\* The places where a unit is.
Holders(u, place, team) == {t \in team : unit_pc[t] = place /\ my_unit[t] = u}
Places(u) ==
  Cardinality(Holders(u, "enqueue", Producers))
  + Cardinality({i \in DOMAIN queue : queue[i] = u})
  + (IF u \in lost THEN 1 ELSE 0)
  + Cardinality(Holders(u, "consume", Consumers))
  + Cardinality({i \in DOMAIN consuming : consuming[i] = u})

\* At every moment each unit taken is in one place: with its producer, in the
\* queue, lost because its node was not allocated, with a consumer, or consumed;
\* and a consumer gets no unit (value 0) only in place of a lost one.
UnitsConsumedOnce ==
  /\ \A u \in 1 .. unit_count : Places(u) = (IF u <= next_unit THEN 1 ELSE 0)
  /\ Places(0) <= Cardinality(lost)
  /\ Released /\ missing = {} =>
       Places(0) = Cardinality(lost) /\ Len(consuming) = unit_count

\* The simulation is destroyed under no thread unless one of the teams could not be
\* created, and then under none of that team, whose threads are always joined
\* (create_threads): the consumers that exist have then consumed every unit.
OnlyTheOtherTeamOutlives ==
  LET outliving == {t \in Threads : ~Over(t)}
  IN Released =>
       /\ missing = {} => outliving = {}
       /\ \A t \in outliving : t[1] \notin missing
       /\ missing = {"consumer"} /\ consumed_count > 0 => Len(consuming) = unit_count

-----------------------------------------------------------------------------
(* The inductive invariant *)

TypeOK ==
  /\ unit_main \in {"create", "rejoin", "released"}
  /\ created_units \in 0 .. producer_count + consumer_count
  /\ missing \subseteq {"producer", "consumer"}
  /\ unit_pc \in [Threads -> {"unborn", "claim", "enqueue", "post", "wait", "dequeue", "consume", "done"}]
  /\ \A p \in Producers : unit_pc[p] \in {"unborn", "claim", "enqueue", "post", "done"}
  /\ \A c \in Consumers : unit_pc[c] \in {"unborn", "claim", "wait", "dequeue", "consume", "done"}
  /\ my_unit \in [Threads -> 0 .. unit_count]
  /\ \A p \in Producers : unit_pc[p] = "enqueue" => my_unit[p] > 0
  /\ next_unit \in 0 .. unit_count /\ consumed_count \in 0 .. unit_count
  /\ queue \in Seq(1 .. unit_count) /\ can_consume \in Nat
  /\ consuming \in Seq(0 .. unit_count) /\ lost \subseteq 1 .. unit_count

\* The main thread has gone through the first threads, and created those of the teams
\* that are not missing.
CreatedInv ==
  /\ \A n \in 1 .. producer_count + consumer_count :
       IF n > created_units THEN unit_pc[Nth(n)] = "unborn"
       ELSE Nth(n)[1] \in missing \/ unit_pc[Nth(n)] # "unborn"
  /\ "producer" \in missing => created_units >= producer_count
  /\ "consumer" \in missing => created_units = producer_count + consumer_count

\* A team that is missing has ended, or is being joined.
JoinInv ==
  /\ unit_main = "rejoin" => /\ Nth(created_units)[1] \in missing
                             /\ created_units \in {producer_count, producer_count + consumer_count}
  /\ \A t \in Threads :
       t[1] \in missing => Over(t) \/ (unit_main = "rejoin" /\ t[1] = Nth(created_units)[1])
  /\ Released => /\ created_units = producer_count + consumer_count
                 /\ missing = {} => \A t \in Threads : Over(t)

\* The units claimed are consumed or with a consumer; a thread ends when there are no
\* more for its team.
ClaimInv ==
  /\ consumed_count = Len(consuming) + Count({"wait", "dequeue", "consume"}, Consumers)
  /\ consumed_count > 0 => \E c \in Consumers : unit_pc[c] # "unborn"
  /\ \A c \in Consumers : unit_pc[c] = "done" => consumed_count = unit_count
  /\ \A p \in Producers : unit_pc[p] = "done" => next_unit = unit_count

\* The semaphore counts the units in the queue, and those lost that nobody missed yet;
\* the units taken are announced, or will be by their producer.
TokenInv ==
  /\ can_consume + Count({"dequeue"}, Consumers) + Count({"post"}, Producers)
       = Len(queue) + Cardinality(lost) - Places(0)
  /\ can_consume + Count({"dequeue", "consume"}, Consumers) + Len(consuming)
       + Count({"enqueue", "post"}, Producers) = next_unit

IInv == TypeOK /\ CreatedInv /\ JoinInv /\ ClaimInv /\ TokenInv
        /\ UnitsConsumedOnce /\ OnlyTheOtherTeamOutlives
=============================================================================
