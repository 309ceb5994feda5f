-------------------------------- MODULE Mist --------------------------------
(***************************************************************************)
(* pthreads/mist_cond_var: three threads meet in mistery(), a barrier made *)
(* of a counter, a mutex and a condition variable.  A thread that is not   *)
(* the last one waits once, without testing the counter again: it passes   *)
(* when the condition is broadcast, or when pthread_cond_wait returns      *)
(* spuriously.                                                             *)
(***************************************************************************)
EXTENDS Naturals

CONSTANT WakesSpuriously     (* threads whose wait may return by itself    *)

max == 3
MistThread == 0 .. max - 1

MistAssumption == WakesSpuriously \subseteq MistThread

VARIABLES
  mist_created, mist_joined,
  mist_at,               (* where each thread is                           *)
  mist_counter,
  spurious               (* threads that woke by themselves                *)

mistVars == <<mist_created, mist_joined, mist_at, mist_counter, spurious>>

Init ==
  /\ mist_created = 0 /\ mist_joined = 0
  /\ mist_at = [t \in MistThread |-> "unborn"]
  /\ mist_counter = 0 /\ spurious = {}

\* main does not look at the result of pthread_create, which succeeds here.
CreateThread ==
  /\ mist_created < max
  /\ mist_created' = mist_created + 1
  /\ mist_at' = [mist_at EXCEPT ![mist_created] = "before"]
  /\ UNCHANGED <<mist_joined, mist_counter, spurious>>

\* mist_destroy follows the last join.
JoinThread ==
  /\ mist_created = max /\ mist_joined < max /\ mist_at[mist_joined] = "done"
  /\ mist_joined' = mist_joined + 1
  /\ mist_counter' = IF mist_joined' = max THEN 0 ELSE mist_counter
  /\ UNCHANGED <<mist_created, mist_at, spurious>>

-----------------------------------------------------------------------------
(* mistery *)

MutexIsFree == \A t \in MistThread : mist_at[t] \notin {"count", "test", "unlock"}

Move(t, from, to) ==
  /\ mist_at[t] = from /\ mist_at' = [mist_at EXCEPT ![t] = to]
  /\ UNCHANGED <<mist_created, mist_joined>>

Lock(t) == MutexIsFree /\ Move(t, "before", "count") /\ UNCHANGED <<mist_counter, spurious>>

Count(t) ==
  /\ Move(t, "count", "test")
  /\ mist_counter' = mist_counter + 1
  /\ UNCHANGED spurious

\* pthread_cond_wait releases the mutex and waits in one step.
Wait(t) ==
  /\ mist_counter < max
  /\ Move(t, "test", "waiting") /\ UNCHANGED <<mist_counter, spurious>>

\* The last thread starts the counter again and wakes all that wait.
Broadcast(t) ==
  /\ mist_at[t] = "test" /\ mist_counter >= max
  /\ mist_counter' = 0
  /\ mist_at' = [w \in MistThread |->
       CASE w = t -> "unlock" [] mist_at[w] = "waiting" -> "woken" [] OTHER -> mist_at[w]]
  /\ UNCHANGED <<mist_created, mist_joined, spurious>>

WakeSpuriously(t) ==
  /\ t \in WakesSpuriously
  /\ Move(t, "waiting", "woken")
  /\ spurious' = spurious \cup {t}
  /\ UNCHANGED mist_counter

Relock(t) == MutexIsFree /\ Move(t, "woken", "unlock") /\ UNCHANGED <<mist_counter, spurious>>

Unlock(t) == Move(t, "unlock", "done") /\ UNCHANGED <<mist_counter, spurious>>

ThreadStep(t) ==
  Lock(t) \/ Count(t) \/ Wait(t) \/ Broadcast(t) \/ Relock(t) \/ Unlock(t)

\* What the scheduler runs: a spurious wake-up need never come.
MistStep == CreateThread \/ JoinThread \/ \E t \in MistThread : ThreadStep(t)

MistOver == mist_joined = max

Next ==
  \/ MistStep
  \/ \E t \in MistThread : WakeSpuriously(t)
  \/ MistOver /\ UNCHANGED mistVars

Spec == Init /\ [][Next]_mistVars

-----------------------------------------------------------------------------
(* Properties *)

\* A thread is past the barrier only after all three have come to it, or after a
\* spurious wake-up of its own: those of the others do not let it through.
PassedTogether ==
  \A t \in MistThread : mist_at[t] = "done" =>
    \/ t \in spurious
    \/ \A other \in MistThread : mist_at[other] \notin {"unborn", "before", "count"}

-----------------------------------------------------------------------------
(* The inductive invariant *)

TypeOK ==
  /\ mist_created \in 0 .. max /\ mist_joined \in 0 .. max
  /\ mist_at \in [MistThread -> {"unborn", "before", "count", "test", "waiting",
                                 "woken", "unlock", "done"}]
  /\ mist_counter \in Nat

CreatedInv ==
  \A t \in MistThread : /\ t >= mist_created => mist_at[t] = "unborn"
                        /\ t < mist_joined => mist_at[t] = "done"

\* Whether a thread has counted itself, as a number.
Counted(t) == IF mist_at[t] \in {"unborn", "before", "count"} THEN 0 ELSE 1

\* Until all have come the counter is the number of those that came, and nobody
\* leaves the wait but by itself.
CounterInv ==
  \/ \A t \in MistThread : Counted(t) = 1
  \/ /\ mist_counter = Counted(0) + Counted(1) + Counted(2)
     /\ \A t \in MistThread : mist_at[t] \in {"woken", "unlock", "done"} => t \in spurious

IInv == TypeOK /\ CreatedInv /\ CounterInv
=============================================================================
