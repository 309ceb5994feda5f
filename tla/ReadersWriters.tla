--------------------------- MODULE ReadersWriters ---------------------------
(***************************************************************************)
(* pthreads/readers_writers: main creates a reader for each R it reads and *)
(* a writer for each W; they share a counter under a read-write lock.  The *)
(* array of threads grows as they are created.                             *)
(*                                                                         *)
(* threads[count++] is evaluated before pthread_create, so a thread that   *)
(* could not be created is joined with the others, which is undefined.     *)
(***************************************************************************)
EXTENDS Naturals, Sequences, FiniteSets

CONSTANTS
  MaxInput,              (* characters of the input                        *)
  Growth,                (* factor of the array's capacity, 10 in resize   *)
  RwMayFail              (* whether allocations and creations may fail     *)

RwAssumption == MaxInput \in Nat /\ Growth \in Nat \ {0, 1} /\ RwMayFail \in BOOLEAN

VARIABLES
  rw_main, rw_error,
  typed,                 (* characters read so far                         *)
  rw_count, rw_capacity,
  rw_joined,
  role, rw_place,        (* of each thread created                         *)
  counter, my_value,
  rw_printed             (* the lines printed: a role and a number         *)

rwVars == <<rw_main, rw_error, typed, rw_count, rw_capacity, rw_joined, role,
            rw_place, counter, my_value, rw_printed>>

Init ==
  /\ rw_main = "start" /\ rw_error = 0 /\ typed = 0
  /\ rw_count = 0 /\ rw_capacity = 0 /\ rw_joined = 0
  /\ role = <<>> /\ rw_place = <<>> /\ my_value = <<>>
  /\ counter = 0 /\ rw_printed = <<>>

-----------------------------------------------------------------------------
(* main, resize and create_threads *)

\* The shared data and its lock, or error 12 or 11.
Start ==
  /\ rw_main = "start"
  /\ \/ rw_main' = "read" /\ UNCHANGED rw_error
     \/ RwMayFail /\ rw_main' = "returned" /\ rw_error' \in {11, 12}
  /\ UNCHANGED <<typed, rw_count, rw_capacity, rw_joined, role, rw_place, counter, my_value, rw_printed>>

resize ==
  IF rw_count < rw_capacity THEN rw_capacity
  ELSE Growth * (IF rw_capacity > 0 THEN rw_capacity ELSE 1)

\* Any character takes room; only the letters R and W create a thread.
ReadChar ==
  /\ rw_main = "read" /\ typed < MaxInput
  /\ typed' = typed + 1 /\ rw_capacity' = resize
  /\ \/ UNCHANGED <<rw_main, rw_error, rw_count, role, rw_place, my_value>>
     \/ /\ rw_count' = rw_count + 1
        /\ \E letter \in {"R", "W"} : role' = Append(role, letter)
        /\ my_value' = Append(my_value, 0)
        /\ \/ rw_place' = Append(rw_place, "lock") /\ UNCHANGED <<rw_main, rw_error>>
           \/ /\ RwMayFail /\ rw_place' = Append(rw_place, "unborn")
              /\ rw_main' = "join" /\ rw_error' = 21
  /\ UNCHANGED <<rw_joined, counter, rw_printed>>

ReallocFails ==
  /\ RwMayFail /\ rw_main = "read" /\ typed < MaxInput /\ resize # rw_capacity
  /\ typed' = typed + 1 /\ rw_main' = "join" /\ rw_error' = 22
  /\ UNCHANGED <<rw_count, rw_capacity, rw_joined, role, rw_place, counter, my_value, rw_printed>>

EndOfInput ==
  /\ rw_main = "read" /\ rw_main' = "join"
  /\ UNCHANGED <<rw_error, typed, rw_count, rw_capacity, rw_joined, role, rw_place, counter, my_value, rw_printed>>

JoinThread ==
  /\ rw_main = "join" /\ rw_joined < rw_count
  /\ CASE rw_place[rw_joined + 1] = "done" -> rw_joined' = rw_joined + 1 /\ UNCHANGED rw_main
       [] rw_place[rw_joined + 1] = "unborn" -> rw_main' = "undefined" /\ UNCHANGED rw_joined
       [] OTHER -> FALSE
  /\ UNCHANGED <<rw_error, typed, rw_count, rw_capacity, role, rw_place, counter, my_value, rw_printed>>

\* The array, the lock and the shared data are released.
Return ==
  /\ rw_main = "join" /\ rw_joined = rw_count
  /\ rw_main' = "returned"
  /\ UNCHANGED <<rw_error, typed, rw_count, rw_capacity, rw_joined, role, rw_place, counter, my_value, rw_printed>>

-----------------------------------------------------------------------------
(* reader and writer *)

Holding(t) == rw_place[t] \in {"access", "print", "unlock"}

\* The read-write lock is external.
CanLock(t) ==
  \A other \in DOMAIN rw_place :
    Holding(other) => role[t] = "R" /\ role[other] = "R"

MoveTo(t, where) ==
  /\ rw_place' = [rw_place EXCEPT ![t] = where]
  /\ UNCHANGED <<rw_main, rw_error, typed, rw_count, rw_capacity, rw_joined, role>>

Lock(t) ==
  /\ rw_place[t] = "lock" /\ CanLock(t)
  /\ MoveTo(t, "access") /\ UNCHANGED <<counter, my_value, rw_printed>>

Access(t) ==
  /\ rw_place[t] = "access"
  /\ counter' = IF role[t] = "W" THEN counter + 1 ELSE counter
  /\ my_value' = [my_value EXCEPT ![t] = counter']
  /\ MoveTo(t, "print") /\ UNCHANGED rw_printed

PrintValue(t) ==
  /\ rw_place[t] = "print"
  /\ rw_printed' = Append(rw_printed, <<role[t], my_value[t]>>)
  /\ MoveTo(t, "unlock") /\ UNCHANGED <<counter, my_value>>

Unlock(t) ==
  /\ rw_place[t] = "unlock"
  /\ MoveTo(t, "done") /\ UNCHANGED <<counter, my_value, rw_printed>>

RwStep ==
  \/ Start \/ ReadChar \/ ReallocFails \/ EndOfInput \/ JoinThread \/ Return
  \/ \E t \in DOMAIN rw_place : Lock(t) \/ Access(t) \/ PrintValue(t) \/ Unlock(t)

RwEnded == rw_main \in {"returned", "undefined"}

Next == (~RwEnded /\ RwStep) \/ (RwEnded /\ UNCHANGED rwVars)

Spec == Init /\ [][Next]_rwVars

-----------------------------------------------------------------------------
(* Properties *)

\* The writers print 1, 2, 3... in this order, and a reader prints how many writers
\* printed before it: no line is overtaken, although printing is the last thing done
\* with the lock.
ReadersSeeWriters ==
  \A n \in DOMAIN rw_printed :
    rw_printed[n][2] = Cardinality({m \in 1 .. n : rw_printed[m][1] = "W"})

\* A thread is stored within the array, and main releases array, lock and counter when
\* no thread is left that uses them.
RoomForThreads ==
  /\ rw_count <= rw_capacity
  /\ rw_main = "returned" => \A t \in DOMAIN rw_place : rw_place[t] = "done"

-----------------------------------------------------------------------------
(* The inductive invariant *)

Locking == {"unborn", "lock", "access", "print", "unlock", "done"}

TypeOK ==
  /\ rw_main \in {"start", "read", "join", "returned", "undefined"}
  /\ rw_count \in Nat /\ rw_capacity \in Nat /\ rw_joined \in 0 .. rw_count
  /\ role \in [1 .. rw_count -> {"R", "W"}] /\ role \in Seq({"R", "W"})
  /\ rw_place \in [1 .. rw_count -> Locking] /\ rw_place \in Seq(Locking)
  /\ my_value \in [1 .. rw_count -> Nat] /\ my_value \in Seq(Nat)
  /\ counter \in Nat /\ rw_printed \in Seq({"R", "W"} \X Nat)

\* Nobody is there before the lock is, and those joined have ended.
JoinedInv ==
  /\ rw_main = "start" => rw_count = 0
  /\ \A t \in 1 .. rw_joined : rw_place[t] = "done"

\* A writer that holds the lock holds it alone.
ExclusionInv ==
  \A t, other \in 1 .. rw_count :
    t # other /\ Holding(t) /\ Holding(other) => role[t] = "R" /\ role[other] = "R"

\* The writers among the first n lines.
Writers(n) == {m \in 1 .. n : rw_printed[m][1] = "W"}

\* The counter is one ahead of the lines while a writer has yet to print.
CounterInv ==
  /\ counter = Cardinality(Writers(Len(rw_printed)))
       + (IF \E t \in 1 .. rw_count : role[t] = "W" /\ rw_place[t] = "print" THEN 1 ELSE 0)
  /\ \A t \in 1 .. rw_count : rw_place[t] = "print" => my_value[t] = counter

IInv ==
  TypeOK /\ JoinedInv /\ ExclusionInv /\ CounterInv /\ ReadersSeeWriters /\ RoomForThreads
=============================================================================
