------------------------------ MODULE TeamOrder ------------------------------
(***************************************************************************)
(* Six programs of pthreads/ with the same create_threads: a team is       *)
(* created one thread at a time and joined in order, and its threads       *)
(*   hello_order_busywait, delayed_busy_wait  wait for a shared number,    *)
(*   hello_order_semaphor    wait for a semaphore of their own,            *)
(*   hello_order_cond_safe   leave their greeting to the main thread,      *)
(*   position_race           take positions under a mutex,                 *)
(*   birthday_pinata         hit a pinata under a mutex until it breaks.   *)
(*                                                                         *)
(* When a thread cannot be created, all the programs go on to join the     *)
(* whole team; to join a thread that was never created is undefined.       *)
(***************************************************************************)
EXTENDS Integers, Sequences, FiniteSets

CONSTANTS
  thread_count,
  hit_resistance,        (* hits the pinata can take                       *)
  CreateMayFail,         (* threads whose creation may fail                *)
  AllocationMayFail,
  TeamVersions

TeamAssumption ==
  /\ thread_count \in Nat
  /\ hit_resistance \in Nat
  /\ CreateMayFail \subseteq 0 .. thread_count - 1
  /\ AllocationMayFail \in BOOLEAN
  /\ TeamVersions \subseteq
       {"hello_order_busywait", "delayed_busy_wait", "hello_order_semaphor",
        "hello_order_cond_safe", "position_race", "birthday_pinata"}

Team == 0 .. thread_count - 1

VARIABLES
  version,
  main, created, joined,        (* the main thread                         *)
  place,                        (* where each thread is                    *)
  next_thread, can_greet,       (* number and semaphores that give turns   *)
  mutex,                        (* the thread that holds it, if any        *)
  position, pinata, hits, broke_pinata,
  announced                     (* what was printed, in order              *)

mainTeam == <<main, created, joined>>
turns    == <<next_thread, can_greet>>
party    == <<pinata, hits, broke_pinata>>
teamVars == <<version, mainTeam, place, turns, mutex, position, party, announced>>

BusyWaiting == version \in {"hello_order_busywait", "delayed_busy_wait"}

Init ==
  /\ version \in TeamVersions
  /\ main = "create" /\ created = 0 /\ joined = 0
  /\ place = [t \in Team |-> "unborn"]
  /\ next_thread = 0
  /\ can_greet = [t \in Team |-> IF t = 0 THEN 1 ELSE 0]
  /\ mutex = {}
  /\ position = 0
  /\ pinata = hit_resistance /\ hits = [t \in Team |-> 0]
  /\ broke_pinata = [t \in Team |-> FALSE]
  /\ announced = <<>>

GoTo(t, there) == place' = [place EXCEPT ![t] = there]

-----------------------------------------------------------------------------
(* create_threads *)

\* The shared data, the array of threads or their private data is not allocated: an
\* error and no team.  hello_order_semaphor initialises its semaphores before it looks
\* whether there is an array of them.
AllocationFails ==
  /\ AllocationMayFail
  /\ main = "create" /\ created = 0
  /\ \/ main' = "no memory"
     \/ /\ version = "hello_order_semaphor" /\ thread_count > 0
        /\ main' = "undefined"
  /\ UNCHANGED <<version, created, joined, place, turns, mutex, position, party, announced>>

CreateThread ==
  /\ main = "create" /\ created < thread_count
  /\ created' = created + 1
  /\ GoTo(created, "start")
  /\ UNCHANGED <<version, main, joined, turns, mutex, position, party, announced>>

CreateFails ==
  /\ main = "create" /\ created \in CreateMayFail
  /\ main' = "join"
  /\ UNCHANGED <<version, created, joined, place, turns, mutex, position, party, announced>>

AllCreated ==
  /\ main = "create" /\ created = thread_count
  /\ main' = "join"
  /\ UNCHANGED <<version, created, joined, place, turns, mutex, position, party, announced>>

\* pthread_join in the order of creation, the threads that were never created
\* included.
JoinThread ==
  /\ main = "join" /\ joined < thread_count
  /\ IF joined < created
       THEN place[joined] = "done" /\ joined' = joined + 1 /\ UNCHANGED main
       ELSE main' = "undefined" /\ UNCHANGED joined
  /\ UNCHANGED <<version, created, place, turns, mutex, position, party, announced>>

\* What follows the joins: hello_order_cond_safe prints every greeting.
Return ==
  /\ main = "join" /\ joined = thread_count
  /\ main' = "returned"
  /\ announced' = IF version = "hello_order_cond_safe"
                    THEN [n \in 1 .. thread_count |->
                            IF place[n - 1] = "done" THEN n - 1 ELSE "empty"]
                    ELSE announced
  /\ UNCHANGED <<version, created, joined, place, turns, mutex, position, party>>

-----------------------------------------------------------------------------
(* greet *)

\* The loop that waits for the number.
BusyWait(t) ==
  /\ BusyWaiting
  /\ place[t] = "start" /\ next_thread >= t
  /\ GoTo(t, "greet")
  /\ UNCHANGED <<version, mainTeam, turns, mutex, position, party, announced>>

SemaphoreWait(t) ==
  /\ version = "hello_order_semaphor"
  /\ place[t] = "start" /\ can_greet[t] > 0
  /\ can_greet' = [can_greet EXCEPT ![t] = @ - 1]
  /\ GoTo(t, "greet")
  /\ UNCHANGED <<version, mainTeam, next_thread, mutex, position, party, announced>>

Greet(t) ==
  /\ place[t] = "greet"
  /\ announced' = Append(announced, t)
  /\ GoTo(t, "next")
  /\ UNCHANGED <<version, mainTeam, turns, mutex, position, party>>

\* Mistake: the turn is given before the greeting.
NextBeforeGreeting(t) ==
  /\ place[t] \in {"greet", "next"}
  /\ IF BusyWaiting
       THEN next_thread' = next_thread + 1 /\ UNCHANGED can_greet
       ELSE /\ can_greet' = [can_greet EXCEPT ![(t + 1) % thread_count] = @ + 1]
            /\ UNCHANGED next_thread
  /\ GoTo(t, "greet")
  /\ UNCHANGED <<version, mainTeam, mutex, position, party, announced>>

\* The last thread posts the semaphore of thread 0, which the main thread has
\* destroyed if it has joined thread 0 (it has no effect here).
NextThread(t) ==
  /\ place[t] = "next"
  /\ IF BusyWaiting
       THEN next_thread' = next_thread + 1 /\ UNCHANGED can_greet
       ELSE /\ can_greet' = [can_greet EXCEPT ![(t + 1) % thread_count] = @ + 1]
            /\ UNCHANGED next_thread
  /\ GoTo(t, "done")
  /\ UNCHANGED <<version, mainTeam, mutex, position, party, announced>>

\* A greeting left in the thread's own place of the array.
WriteGreeting(t) ==
  /\ version = "hello_order_cond_safe"
  /\ place[t] = "start"
  /\ GoTo(t, "done")
  /\ UNCHANGED <<version, mainTeam, turns, mutex, position, party, announced>>

-----------------------------------------------------------------------------
(* race and hit_pinata *)

Lock(t) ==
  /\ version \in {"position_race", "birthday_pinata"}
  /\ place[t] = "start" /\ mutex = {}
  /\ mutex' = {t}
  /\ GoTo(t, IF version = "position_race" THEN "advance" ELSE "look")
  /\ UNCHANGED <<version, mainTeam, turns, position, party, announced>>

Advance(t) ==
  /\ place[t] = "advance"
  /\ position' = position + 1
  /\ GoTo(t, "announce")
  /\ UNCHANGED <<version, mainTeam, turns, mutex, party, announced>>

\* my_position, printed before the mutex is unlocked.
Announce(t) ==
  /\ place[t] = "announce"
  /\ announced' = Append(announced, position)
  /\ mutex' = mutex \ {t}
  /\ GoTo(t, "done")
  /\ UNCHANGED <<version, mainTeam, turns, position, party>>

\* A broken pinata is not hit.
Look(t) ==
  /\ place[t] = "look"
  /\ IF pinata = 0 THEN mutex' = mutex \ {t} /\ GoTo(t, "done")
                   ELSE UNCHANGED mutex /\ GoTo(t, "hit")
  /\ UNCHANGED <<version, mainTeam, turns, position, party, announced>>

\* Mistake: whether it broke is asked after the mutex is unlocked.
HitThenAsk(t) ==
  \/ /\ place[t] = "hit"
     /\ pinata' = pinata - 1
     /\ hits' = [hits EXCEPT ![t] = @ + 1]
     /\ mutex' = mutex \ {t}
     /\ GoTo(t, "ask")
     /\ UNCHANGED <<version, mainTeam, turns, position, broke_pinata, announced>>
  \/ /\ place[t] = "ask"
     /\ broke_pinata' = [broke_pinata EXCEPT ![t] = pinata = 0]
     /\ GoTo(t, IF pinata = 0 THEN "done" ELSE "start")
     /\ UNCHANGED <<version, mainTeam, turns, mutex, position, pinata, hits, announced>>

\* One hit.  Whoever breaks the pinata stops at once; the others come back for
\* another turn.
Hit(t) ==
  /\ place[t] = "hit"
  /\ pinata' = pinata - 1
  /\ hits' = [hits EXCEPT ![t] = @ + 1]
  /\ broke_pinata' = [broke_pinata EXCEPT ![t] = pinata' = 0]
  /\ mutex' = mutex \ {t}
  /\ GoTo(t, IF pinata' = 0 THEN "done" ELSE "start")
  /\ UNCHANGED <<version, mainTeam, turns, position, announced>>

-----------------------------------------------------------------------------

ThreadStep(t) ==
  \/ BusyWait(t) \/ SemaphoreWait(t) \/ Greet(t) \/ NextThread(t)
  \/ WriteGreeting(t)
  \/ Lock(t) \/ Advance(t) \/ Announce(t)
  \/ Look(t) \/ Hit(t)

MainStep == AllocationFails \/ CreateThread \/ CreateFails \/ AllCreated \/ JoinThread \/ Return

Ended == main \in {"returned", "no memory", "undefined"}

Next ==
  \/ MainStep
  \/ \E t \in Team : ThreadStep(t)
  \/ Ended /\ UNCHANGED teamVars

Spec == Init /\ [][Next]_teamVars

-----------------------------------------------------------------------------
(* Properties *)

\* "The greetings will appear in order, from lowest to greatest number" (greet),
\* and positions are announced from the first to the last (race: "we want to
\* report in order"); a program that returns has announced the whole team.
AnnouncedInOrder ==
  LET first == IF version = "position_race" THEN 1 ELSE 0
  IN version # "birthday_pinata" =>
       /\ \A n \in DOMAIN announced : announced[n] = n - 1 + first
       /\ main = "returned" => Len(announced) = thread_count

\* The pinata takes exactly its resistance in hits, and when the party is over
\* exactly one thread has broken it (hit_pinata: "I broke the pinata").
OneThreadBreaksIt ==
  LET hit[n \in 0 .. thread_count] ==
        IF n = 0 THEN 0 ELSE hit[n - 1] + hits[n - 1]
      breakers == {t \in Team : broke_pinata[t]}
  IN version = "birthday_pinata" =>
       /\ pinata >= 0 /\ pinata + hit[thread_count] = hit_resistance
       /\ Cardinality(breakers) <= 1
       /\ breakers = {} <=> pinata > 0 \/ hit_resistance = 0
       /\ main = "returned" /\ thread_count > 0 => pinata = 0

\* hello_order_semaphor destroys the semaphore of a thread when it has joined it
\* (create_threads); nobody waits for a destroyed one nor posts it, except the last
\* thread, whose post to thread 0 wakes nobody (greet).
SemaphoresOutliveTurns ==
  version = "hello_order_semaphor" =>
    \A t \in Team :
      /\ place[t] = "start" => joined <= t
      /\ place[t] = "next" => joined <= t + 1 \/ t = thread_count - 1

-----------------------------------------------------------------------------
(* The inductive invariant *)

TypeOK ==
  /\ version \in TeamVersions
  /\ main \in {"create", "join", "returned", "no memory", "undefined"}
  /\ created \in 0 .. thread_count /\ joined \in 0 .. thread_count
  /\ place \in [Team -> {"unborn", "start", "greet", "next", "advance", "announce",
                         "look", "hit", "done"}]
  /\ next_thread \in Nat /\ can_greet \in [Team -> Nat]
  /\ mutex \in SUBSET Team /\ position \in Nat
  /\ pinata \in Nat /\ hits \in [Team -> Nat] /\ broke_pinata \in [Team -> BOOLEAN]
  /\ announced \in Seq(Nat)

CreatedInv ==
  /\ \A t \in Team : /\ t >= created <=> place[t] = "unborn"
                     /\ t < joined => place[t] = "done"
  /\ main = "returned" => joined = thread_count

Ordered == BusyWaiting \/ version = "hello_order_semaphor"

\* Which program a thread at each place is in.
PlaceInv ==
  /\ \A t \in Team :
       /\ place[t] \in {"greet", "next"} => Ordered
       /\ place[t] \in {"advance", "announce"} => version = "position_race"
       /\ place[t] \in {"look", "hit"} => version = "birthday_pinata"
  /\ version = "hello_order_cond_safe" =>
       announced = IF main = "returned" THEN [n \in 1 .. thread_count |-> n - 1] ELSE <<>>

MutexInv ==
  \A t \in Team : place[t] \in {"advance", "announce", "look", "hit"} => mutex = {t}

\* The turn is of thread k: the threads before it are done, those after it have not
\* got theirs, and the number or the semaphores say so.
TurnOf(k) ==
  /\ \A t \in Team : /\ t < k => place[t] = "done"
                     /\ t = k => place[t] # "done"
                     /\ t > k => place[t] \in {"unborn", "start"}
  /\ IF BusyWaiting
       THEN next_thread = k
       ELSE \A t \in Team : can_greet[t] =
              IF \/ t = k /\ place[t] \in {"unborn", "start"}
                 \/ t = 0 /\ k = thread_count THEN 1 ELSE 0
  /\ Len(announced) = IF k \in Team /\ place[k] = "next" THEN k + 1 ELSE k
  /\ \A n \in DOMAIN announced : announced[n] = n - 1

TurnInv == Ordered => \E k \in 0 .. thread_count : TurnOf(k)

\* The position is one ahead of the announcements while a thread has yet to announce.
RaceInv ==
  version = "position_race" =>
    /\ position = Len(announced) + (IF \E t \in Team : place[t] = "announce" THEN 1 ELSE 0)
    /\ Len(announced) = Cardinality({t \in Team : place[t] = "done"})
    /\ \A n \in DOMAIN announced : announced[n] = n

\* Nobody hits a broken pinata, and nobody leaves before it broke.
PinataInv ==
  version = "birthday_pinata" =>
    \A t \in Team : /\ place[t] = "hit" => pinata > 0
                    /\ place[t] = "done" \/ broke_pinata[t] => pinata = 0

IInv ==
  /\ TypeOK /\ CreatedInv /\ PlaceInv /\ MutexInv /\ TurnInv /\ RaceInv
  /\ PinataInv /\ OneThreadBreaksIt
=============================================================================
