------------------------------ MODULE MergeSort ------------------------------
(***************************************************************************)
(* omp_mergesort: one thread of a team starts the sort of the whole list;  *)
(* a large section is sorted by two tasks, one for each half, and merged   *)
(* when both have ended.  A task is taken by any thread of the team, also  *)
(* by one that waits for its own tasks; the task of a left half that is    *)
(* short is run at once instead.                                           *)
(***************************************************************************)
EXTENDS Integers, Sequences, FiniteSets

CONSTANTS
  Lists,                 (* the lists given                                *)
  SortThreads,           (* threads of the team                            *)
  SmallCount,            (* 1024: a section that is not divided            *)
  DeferredCount          (* 5000: a left half worth a task                 *)

SortAssumption ==
  /\ SortThreads \in Nat \ {0} /\ SmallCount \in Nat \ {0} /\ DeferredCount \in Nat

VARIABLES
  given_list, list,      (* the list given, and the vector that is sorted  *)
  section                (* the state of each section <<left, right>>      *)

sortVars == <<given_list, list, section>>

Size   == Len(list)
Whole  == <<0, Size - 1>>
Mid(s) == (s[1] + s[2]) \div 2
LeftHalf(s)  == <<s[1], Mid(s)>>
RightHalf(s) == <<Mid(s) + 1, s[2]>>
Large(s) == s[2] - s[1] > SmallCount

\* The sections whose elements a thread reads or writes now.
Active == {s \in DOMAIN section : section[s] \in {"sorting", "merging"}}

Init ==
  /\ given_list = <<>> /\ list = <<>>
  /\ section = [s \in {} |-> "queued"]

\* main fills the vector; the single thread of the team takes all of it (right is -1
\* when it is empty).
Fill ==
  /\ DOMAIN section = {}
  /\ list' \in Lists /\ given_list' = list'
  /\ section' = [s \in {<<0, Len(list') - 1>>} |-> "queued"]

Becomes(s, state) == section' = [section EXCEPT ![s] = state] /\ UNCHANGED <<given_list, list>>

Create(s, state, tasks) ==
  /\ section' = [q \in DOMAIN section \cup tasks |->
                   IF q = s THEN state ELSE IF q \in tasks THEN "queued" ELSE section[q]]
  /\ UNCHANGED <<given_list, list>>

-----------------------------------------------------------------------------
(* mergesort *)

\* A thread takes the task.
Take(s) ==
  /\ section[s] = "queued" /\ Cardinality(Active) < SortThreads
  /\ Becomes(s, IF Large(s) THEN "dividing" ELSE "sorting")

\* The task of the left half, deferred or not.
CreateLeft(s) ==
  /\ section[s] = "dividing"
  /\ Create(s, IF Mid(s) - s[1] >= DeferredCount THEN "left created" ELSE "left running",
            {LeftHalf(s)})

LeftReturns(s) ==
  /\ section[s] = "left running" /\ section[LeftHalf(s)] = "sorted"
  /\ Becomes(s, "left created")

CreateRight(s) ==
  /\ section[s] = "left created"
  /\ Create(s, "waiting", {RightHalf(s)})

\* Mistake: the task of the right half is not waited for.
WaitForLeft(s) ==
  /\ section[s] = "waiting" /\ section[LeftHalf(s)] = "sorted"
  /\ Cardinality(Active) < SortThreads
  /\ Becomes(s, "merging")

\* The taskwait, and the end of the taskgroup after it.
TaskWait(s) ==
  /\ section[s] = "waiting"
  /\ section[LeftHalf(s)] = "sorted" /\ section[RightHalf(s)] = "sorted"
  /\ Cardinality(Active) < SortThreads
  /\ Becomes(s, "merging")

\* The elements from one position to another, numbered from 0.
Elements(from, to) == SubSeq(list, from + 1, to + 1)

\* Replace the elements of a section.
Store(s, elements) ==
  /\ list' = [n \in 1 .. Size |-> IF n - 1 \in s[1] .. s[2] THEN elements[n - s[1]] ELSE list[n]]
  /\ section' = [section EXCEPT ![s] = "sorted"]
  /\ UNCHANGED given_list

\* std::merge into temp, copied back.
Merge(s) ==
  LET a == Elements(s[1], Mid(s))
      b == Elements(Mid(s) + 1, s[2])
      temp[i \in 0 .. Len(a), j \in 0 .. Len(b)] ==      \* with i and j elements left
        IF i = 0 THEN SubSeq(b, Len(b) - j + 1, Len(b))
        ELSE IF j = 0 THEN SubSeq(a, Len(a) - i + 1, Len(a))
        ELSE IF b[Len(b) - j + 1] < a[Len(a) - i + 1]
          THEN <<b[Len(b) - j + 1]>> \o temp[i, j - 1]
          ELSE <<a[Len(a) - i + 1]>> \o temp[i - 1, j]
  IN section[s] = "merging" /\ Store(s, temp[Len(a), Len(b)])

\* std::sort of a small section: some permutation of it in order.
Sort(s) ==
  LET elements == Elements(s[1], s[2])
      places == 1 .. Len(elements)
  IN
  /\ section[s] = "sorting"
  /\ \E order \in [places -> places] :
       /\ \A i, j \in places : i < j => order[i] # order[j]
       /\ \A i, j \in places : i < j => elements[order[i]] <= elements[order[j]]
       /\ Store(s, [i \in places |-> elements[order[i]]])

SortStep ==
  Fill \/ \E s \in DOMAIN section :
    \/ Take(s) \/ CreateLeft(s) \/ LeftReturns(s) \/ CreateRight(s)
    \/ TaskWait(s) \/ Merge(s) \/ Sort(s)

Sorted == Whole \in DOMAIN section /\ section[Whole] = "sorted"

Next == SortStep \/ (Sorted /\ UNCHANGED sortVars)

Spec == Init /\ [][Next]_sortVars

-----------------------------------------------------------------------------
(* Properties *)

\* Two threads never work on the same element, and a task that has ended has left its
\* section in order, whatever the others do.
SectionsDoNotOverlap ==
  /\ \A s, q \in Active : s # q => s[1] .. s[2] \cap (q[1] .. q[2]) = {}
  /\ \A s \in DOMAIN section : section[s] = "sorted" =>
       \A i, j \in s[1] .. s[2] : i < j => list[i + 1] <= list[j + 1]

\* In the end the vector has the elements given, in order (the assert of main), and
\* no task is left.
ListIsSorted ==
  Sorted =>
    /\ \A s \in DOMAIN section : section[s] = "sorted"
    /\ \A i \in 2 .. Size : list[i - 1] <= list[i]
    /\ \A n \in 1 .. Size :
         Cardinality({i \in 1 .. Size : list[i] = list[n]}) =
           Cardinality({i \in 1 .. Size : given_list[i] = list[n]})

=============================================================================
