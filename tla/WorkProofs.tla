----------------------------- MODULE WorkProofs -----------------------------
(***************************************************************************)
(* What the steps of the exercises that share work out preserve, and what  *)
(* follows from it: for each program an inductive invariant and the lemmas *)
(* that ExercisesProofs makes theorems of the composition.                 *)
(***************************************************************************)
EXTENDS WorkExercises, Sequences, FiniteSetTheorems, SequenceTheorems,
        WellFoundedInduction, TLAPS

(* Counting *)

\* A set of natural numbers that has members has a least one.
LEMMA LeastNatural ==
  ASSUME NEW S \in SUBSET Nat, S # {}
  PROVE  \E least \in S : \A n \in S : least <= n
<1>1. PICK least \in S : \A n \in S : ~(<<n, least>> \in OpToRel(<, Nat))
  BY NatLessThanWellFounded, WFMin, Zenon
<1>2. \A n \in S : ~(n < least)
  BY <1>1, Zenon DEF OpToRel
<1>3. least \in Nat /\ \A n \in S : n \in Nat
  OBVIOUS
<1>4. \A n \in S : least <= n
  BY <1>2, <1>3
<1> QED BY <1>4

\* The members of C at some places.
Num(pc, S, C) == Cardinality({a \in C : pc[a] \in S})

LEMMA NumAdds ==
  ASSUME NEW pc, NEW C, IsFiniteSet(C)
  PROVE  /\ \A S : Num(pc, S, C) \in Nat
         /\ \A S : Num(pc, S, C) = 0 <=> \A a \in C : pc[a] \notin S
         /\ \A S, T : S \cap T = {} => Num(pc, S \cup T, C) = Num(pc, S, C) + Num(pc, T, C)
<1> DEFINE N(S) == {a \in C : pc[a] \in S}
<1>1. ASSUME NEW S PROVE IsFiniteSet(N(S)) /\ Cardinality(N(S)) \in Nat
  <2>1. N(S) \subseteq C
    OBVIOUS
  <2>2. IsFiniteSet(N(S))
    BY <2>1, FS_Subset
  <2> QED BY <2>2, FS_CardinalityType
<1>2. ASSUME NEW S PROVE Cardinality(N(S)) = 0 <=> \A a \in C : pc[a] \notin S
  <2>1. N(S) = {} <=> \A a \in C : pc[a] \notin S
    OBVIOUS
  <2> QED BY <1>1, <2>1, FS_EmptySet
<1>3. ASSUME NEW S, NEW T, S \cap T = {}
      PROVE  Cardinality(N(S \cup T)) = Cardinality(N(S)) + Cardinality(N(T))
  <2>1. N(S \cup T) = N(S) \cup N(T) /\ N(S) \cap N(T) = {}
    BY <1>3
  <2>2. Cardinality(N(S) \cap N(T)) = 0
    BY <2>1, FS_EmptySet
  <2>3. IsFiniteSet(N(S)) /\ IsFiniteSet(N(T))
    BY <1>1
  <2>4. Cardinality(N(S) \cup N(T)) = Cardinality(N(S)) + Cardinality(N(T)) - Cardinality(N(S) \cap N(T))
    <3> HIDE DEF N
    <3> QED BY <2>3, FS_Union
  <2>5. Cardinality(N(S)) \in Nat /\ Cardinality(N(T)) \in Nat
    BY <1>1
  <2> HIDE DEF N
  <2>6. Cardinality(N(S) \cup N(T)) = Cardinality(N(S)) + Cardinality(N(T))
    BY <2>2, <2>4, <2>5
  <2> QED BY <2>1, <2>6
<1> QED BY <1>1, <1>2, <1>3 DEF Num

\* An atom that moves leaves one place and comes to another.
LEMMA NumMoves ==
  ASSUME NEW old, NEW new, NEW C, IsFiniteSet(C), NEW a,
         \A b \in C : b # a => new[b] = old[b]
  PROVE  \A S : Num(new, S, C) = Num(old, S, C)
                  + (IF a \in C /\ new[a] \in S THEN 1 ELSE 0)
                  - (IF a \in C /\ old[a] \in S THEN 1 ELSE 0)
<1> SUFFICES ASSUME NEW S
             PROVE  Num(new, S, C) = Num(old, S, C)
                      + (IF a \in C /\ new[a] \in S THEN 1 ELSE 0)
                      - (IF a \in C /\ old[a] \in S THEN 1 ELSE 0)
  OBVIOUS
<1> DEFINE Rest == {b \in C : b # a /\ old[b] \in S}
           N(pc) == {b \in C : pc[b] \in S}
<1>1. Rest \subseteq C /\ a \notin Rest
  OBVIOUS
<1>2. IsFiniteSet(Rest) /\ Cardinality(Rest) \in Nat
  <2>1. IsFiniteSet(Rest)
    BY <1>1, FS_Subset
  <2> QED BY <2>1, FS_CardinalityType
<1>3. Cardinality(Rest \cup {a}) = Cardinality(Rest) + 1
  <2> HIDE DEF Rest
  <2> QED BY <1>1, <1>2, FS_AddElement
<1>4. N(old) = IF a \in C /\ old[a] \in S THEN Rest \cup {a} ELSE Rest
  OBVIOUS
<1>5. N(new) = IF a \in C /\ new[a] \in S THEN Rest \cup {a} ELSE Rest
  OBVIOUS
<1>6. Cardinality(N(old)) = Cardinality(Rest) + (IF a \in C /\ old[a] \in S THEN 1 ELSE 0)
  <2> HIDE DEF N, Rest
  <2> QED BY <1>2, <1>3, <1>4
<1>7. Cardinality(N(new)) = Cardinality(Rest) + (IF a \in C /\ new[a] \in S THEN 1 ELSE 0)
  <2> HIDE DEF N, Rest
  <2> QED BY <1>2, <1>3, <1>5
<1>8. Num(old, S, C) = Cardinality(N(old)) /\ Num(new, S, C) = Cardinality(N(new))
  BY DEF Num
<1> HIDE DEF N, Rest
<1> QED BY <1>2, <1>6, <1>7, <1>8

-----------------------------------------------------------------------------
(* The unbounded producers and consumers: where each unit is, in numbers.  *)

LEMMA UnitThreads ==
  /\ unit_count \in Nat \ {0} /\ producer_count \in Nat \ {0} /\ consumer_count \in Nat \ {0}
  /\ IsFiniteSet(Units!Producers) /\ IsFiniteSet(Units!Consumers)
  /\ Units!Threads = Units!Producers \cup Units!Consumers
  /\ \A t \in Units!Producers : t \notin Units!Consumers /\ t[1] = "producer"
  /\ \A t \in Units!Consumers : t \notin Units!Producers /\ t[1] = "consumer"
<1>1. /\ unit_count \in Nat \ {0} /\ producer_count \in Nat \ {0} /\ consumer_count \in Nat \ {0}
  BY WorkAssumption DEF Units!ArgumentsAssumption
<1>2. ASSUME NEW n \in Nat, NEW team
      PROVE  IsFiniteSet({<<team, i>> : i \in 1 .. n})
  <2> DEFINE T == {<<team, i>> : i \in 1 .. n}
             f == [i \in 1 .. n |-> <<team, i>>]
  <2>1. f \in [1 .. n -> T] /\ \A t \in T : \E i \in 1 .. n : f[i] = t
    OBVIOUS
  <2>2. f \in Surjection(1 .. n, T)
    <3> HIDE DEF f, T
    <3> QED BY <2>1 DEF Surjection
  <2>3. IsFiniteSet(1 .. n)
    BY FS_Interval
  <2> HIDE DEF f
  <2> QED BY <2>2, <2>3, FS_Surjection
<1>3. /\ \A t \in Units!Producers : t[1] = "producer"
      /\ \A t \in Units!Consumers : t[1] = "consumer"
  BY DEF Units!Producers, Units!Consumers
<1>4. IsFiniteSet(Units!Producers) /\ IsFiniteSet(Units!Consumers)
  BY <1>1, <1>2 DEF Units!Producers, Units!Consumers
<1> QED BY <1>1, <1>3, <1>4 DEF Units!Threads

\* How often a value is in a sequence.
Occurs(s, u) == Cardinality({i \in DOMAIN s : s[i] = u})

LEMMA OccursAppend ==
  ASSUME NEW S, NEW s \in Seq(S), NEW e \in S
  PROVE  \A u : /\ Occurs(s, u) \in Nat
                /\ Occurs(Append(s, e), u) = Occurs(s, u) + (IF e = u THEN 1 ELSE 0)
<1> SUFFICES ASSUME NEW u
             PROVE  /\ Occurs(s, u) \in Nat
                    /\ Occurs(Append(s, e), u) = Occurs(s, u) + (IF e = u THEN 1 ELSE 0)
  OBVIOUS
<1> DEFINE more == Append(s, e)
           last == Len(s)
           those == {i \in 1 .. last : s[i] = u}
<1>1. /\ last \in Nat /\ DOMAIN s = 1 .. last /\ DOMAIN more = 1 .. last + 1
      /\ \A n \in 1 .. last : more[n] = s[n]
      /\ more[last + 1] = e
  OBVIOUS
<1>2. IsFiniteSet(those) /\ Cardinality(those) \in Nat /\ last + 1 \notin those
  <2>1. those \subseteq 1 .. last /\ last + 1 \notin those
    BY <1>1
  <2>2. IsFiniteSet(1 .. last)
    BY <1>1, FS_Interval
  <2> HIDE DEF those
  <2>3. IsFiniteSet(those)
    BY <2>1, <2>2, FS_Subset
  <2> QED BY <2>1, <2>3, FS_CardinalityType
<1>3. Occurs(s, u) = Cardinality(those)
  BY <1>1 DEF Occurs
<1>4. {i \in DOMAIN more : more[i] = u} = IF e = u THEN those \cup {last + 1} ELSE those
  <2> HIDE DEF more, last
  <2> QED BY <1>1
<1>5. Cardinality(those \cup {last + 1}) = Cardinality(those) + 1
  <2> HIDE DEF those
  <2> QED BY <1>2, FS_AddElement
<1> HIDE DEF those, more, last
<1>6. Occurs(more, u) = Cardinality(those) + (IF e = u THEN 1 ELSE 0)
  <2>1. CASE e = u
    BY <1>4, <1>5, <2>1 DEF Occurs
  <2>2. CASE e # u
    <3>1. Occurs(more, u) = Cardinality(those)
      BY <1>4, <2>2 DEF Occurs
    <3> QED BY <1>2, <2>2, <3>1
  <2> QED BY <2>1, <2>2
<1> QED BY <1>2, <1>3, <1>6 DEF more

\* The indexes of the rest of a sequence, one further, are those of the sequence but
\* the first.
LEMMA OccursTail ==
  ASSUME NEW S, NEW s \in Seq(S), s # <<>>
  PROVE  \A u : /\ Occurs(Tail(s), u) \in Nat
                /\ Occurs(s, u) = Occurs(Tail(s), u) + (IF Head(s) = u THEN 1 ELSE 0)
<1> SUFFICES ASSUME NEW u
             PROVE  /\ Occurs(Tail(s), u) \in Nat
                    /\ Occurs(s, u) = Occurs(Tail(s), u) + (IF Head(s) = u THEN 1 ELSE 0)
  OBVIOUS
<1> DEFINE rest == Tail(s)
           last == Len(s)
           those == {i \in 1 .. last - 1 : rest[i] = u}
           further == {i \in 2 .. last : s[i] = u}
           f == [i \in those |-> i + 1]
<1>1. /\ last \in Nat /\ last >= 1 /\ DOMAIN s = 1 .. last /\ DOMAIN rest = 1 .. last - 1
      /\ \A n \in 1 .. last - 1 : rest[n] = s[n + 1]
      /\ Head(s) = s[1]
  OBVIOUS
<1> HIDE DEF rest, last
<1>2. IsFiniteSet(those)
  <2>1. those \subseteq 1 .. last - 1 /\ last - 1 \in Int
    BY <1>1
  <2>2. IsFiniteSet(1 .. last - 1)
    BY <1>1, FS_Interval
  <2> QED BY <2>1, <2>2, FS_Subset
<1>3. f \in Bijection(those, further)
  <2>1. \A i \in those : f[i] = i + 1 /\ i \in Int /\ i + 1 \in further
    BY <1>1
  <2>2. f \in [those -> further]
    BY <2>1
  <2>3. \A i, j \in those : f[i] = f[j] => i = j
    BY <2>1
  <2>4. \A j \in further : \E i \in those : f[i] = j
    <3> SUFFICES ASSUME NEW j \in further PROVE \E i \in those : f[i] = j
      OBVIOUS
    <3>1. j - 1 \in those /\ (j - 1) + 1 = j
      BY <1>1
    <3> QED BY <3>1, <2>1
  <2> HIDE DEF f, those, further
  <2> QED BY <2>2, <2>3, <2>4 DEF Bijection, Injection, Surjection, IsInjective
<1>4. Cardinality(further) = Cardinality(those) /\ IsFiniteSet(further) /\ Cardinality(those) \in Nat
  <2> HIDE DEF f, those, further
  <2>1. ExistsBijection(those, further)
    BY <1>3 DEF ExistsBijection
  <2> QED BY <1>2, <2>1, FS_Bijection, FS_CardinalityType
<1>5. Occurs(rest, u) = Cardinality(those)
  BY <1>1 DEF Occurs
<1>6. 1 \notin further
  BY <1>1
<1>7. {i \in DOMAIN s : s[i] = u} = IF Head(s) = u THEN further \cup {1} ELSE further
  BY <1>1
<1>8. Cardinality(further \cup {1}) = Cardinality(further) + 1
  <2> HIDE DEF further
  <2> QED BY <1>4, <1>6, FS_AddElement
<1> HIDE DEF those, further, f
<1>9. Occurs(s, u) = Cardinality(further) + (IF Head(s) = u THEN 1 ELSE 0)
  <2>1. CASE Head(s) = u
    BY <1>7, <1>8, <2>1 DEF Occurs
  <2>2. CASE Head(s) # u
    <3>1. Occurs(s, u) = Cardinality(further)
      BY <1>7, <2>2 DEF Occurs
    <3> QED BY <1>4, <2>2, <3>1
  <2> QED BY <2>1, <2>2
<1> QED BY <1>4, <1>5, <1>9 DEF rest

\* What each thread holds: a producer the unit to enqueue, a consumer the one to consume.
UnitsHeld(pc, mine) ==
  [t \in Units!Threads |-> IF pc[t] \in {"enqueue", "consume"} THEN mine[t] ELSE -1]

\* The places of a unit, in numbers.
PlacesIn(held, queued, eaten, gone, u) ==
  Num(held, {u}, Units!Producers) + Num(held, {u}, Units!Consumers)
  + Occurs(queued, u) + Occurs(eaten, u) + (IF u \in gone THEN 1 ELSE 0)

UnitNumbers(n_wait, n_dequeue, n_consume, n_enqueue, n_post, n_queue, n_eaten, n_gone,
            n_zero, claimed, next, tokens) ==
  /\ n_wait \in Nat /\ n_dequeue \in Nat /\ n_consume \in Nat /\ n_enqueue \in Nat /\ n_post \in Nat
  /\ n_queue \in Nat /\ n_eaten \in Nat /\ n_gone \in Nat /\ n_zero \in Nat
  /\ claimed \in Nat /\ next \in Nat /\ tokens \in Nat
  /\ claimed = n_eaten + n_wait + n_dequeue + n_consume
  /\ tokens + n_dequeue + n_post = n_queue + n_gone - n_zero
  /\ tokens + n_dequeue + n_consume + n_eaten + n_post + n_enqueue = next
  /\ n_zero <= n_gone

UnitsInNumbers(pc, mine, queued, eaten, gone, claimed, next, tokens) ==
  UnitNumbers(Num(pc, {"wait"}, Units!Consumers), Num(pc, {"dequeue"}, Units!Consumers),
              Num(pc, {"consume"}, Units!Consumers), Num(pc, {"enqueue"}, Units!Producers),
              Num(pc, {"post"}, Units!Producers), Len(queued), Len(eaten), Cardinality(gone),
              PlacesIn(UnitsHeld(pc, mine), queued, eaten, gone, 0), claimed, next, tokens)

UnitsInPlaces(pc, mine, queued, eaten, gone, next) ==
  \A u \in 1 .. unit_count :
    PlacesIn(UnitsHeld(pc, mine), queued, eaten, gone, u) = IF u <= next THEN 1 ELSE 0

UnitTypes(pc, mine, queued, eaten, gone, claimed, next, tokens) ==
  /\ \A p \in Units!Producers : pc[p] \in {"unborn", "claim", "enqueue", "post", "done"}
  /\ \A c \in Units!Consumers : pc[c] \in {"unborn", "claim", "wait", "dequeue", "consume", "done"}
  /\ pc \in [Units!Threads ->
              {"unborn", "claim", "enqueue", "post", "wait", "dequeue", "consume", "done"}]
  /\ mine \in [Units!Threads -> 0 .. unit_count]
  /\ \A p \in Units!Producers : pc[p] = "enqueue" => mine[p] > 0
  /\ next \in 0 .. unit_count /\ claimed \in 0 .. unit_count
  /\ queued \in Seq(1 .. unit_count) /\ tokens \in Nat
  /\ eaten \in Seq(0 .. unit_count) /\ gone \subseteq 1 .. unit_count

UnitsRight(pc, mine, queued, eaten, gone, claimed, next, tokens) ==
  /\ UnitTypes(pc, mine, queued, eaten, gone, claimed, next, tokens)
  /\ UnitsInNumbers(pc, mine, queued, eaten, gone, claimed, next, tokens)
  /\ UnitsInPlaces(pc, mine, queued, eaten, gone, next)

\* How the numbers of threads at places follow one of mine; those of the others stay.
NumbersFollow(old, new, t, mine, others) ==
  \A S : /\ Num(new, S, mine) = Num(old, S, mine)
              + (IF new[t] \in S THEN 1 ELSE 0) - (IF old[t] \in S THEN 1 ELSE 0)
         /\ Num(new, S, others) = Num(old, S, others)
         /\ old[t] \in S => Num(old, S, mine) > 0

\* A thread goes from a place to another.
LEMMA UnitThreadMoves ==
  ASSUME NEW old, NEW new, NEW t \in Units!Threads,
         \A s \in Units!Threads : s # t => new[s] = old[s]
  PROVE  /\ \A S : /\ Num(old, S, Units!Producers) \in Nat /\ Num(new, S, Units!Producers) \in Nat
                   /\ Num(old, S, Units!Consumers) \in Nat /\ Num(new, S, Units!Consumers) \in Nat
         /\ t \in Units!Producers => NumbersFollow(old, new, t, Units!Producers, Units!Consumers)
         /\ t \in Units!Consumers => NumbersFollow(old, new, t, Units!Consumers, Units!Producers)
<1>1. ASSUME NEW C \in {Units!Producers, Units!Consumers}
      PROVE  \A S : /\ Num(old, S, C) \in Nat /\ Num(new, S, C) \in Nat
                    /\ Num(new, S, C) = Num(old, S, C) + (IF t \in C /\ new[t] \in S THEN 1 ELSE 0)
                                          - (IF t \in C /\ old[t] \in S THEN 1 ELSE 0)
                    /\ t \in C /\ old[t] \in S => Num(old, S, C) > 0
  <2>1. IsFiniteSet(C) /\ C \subseteq Units!Threads
    BY UnitThreads
  <2>2. \A b \in C : b # t => new[b] = old[b]
    BY <2>1
  <2>3. \A S : Num(new, S, C) = Num(old, S, C) + (IF t \in C /\ new[t] \in S THEN 1 ELSE 0)
                                          - (IF t \in C /\ old[t] \in S THEN 1 ELSE 0)
    BY <2>1, <2>2, NumMoves
  <2>4. /\ \A S : Num(old, S, C) \in Nat /\ (Num(old, S, C) = 0 <=> \A a \in C : old[a] \notin S)
        /\ \A S : Num(new, S, C) \in Nat
    BY <2>1, NumAdds
  <2>5. \A S : t \in C /\ old[t] \in S => Num(old, S, C) > 0
    BY <2>4
  <2> QED BY <2>3, <2>4, <2>5
<1>2. /\ t \in Units!Producers => t \notin Units!Consumers
      /\ t \in Units!Consumers => t \notin Units!Producers
  BY UnitThreads
<1> DEFINE p(f, S) == Num(f, S, Units!Producers)
           c(f, S) == Num(f, S, Units!Consumers)
<1>3. \A S : /\ p(old, S) \in Nat /\ p(new, S) \in Nat
             /\ p(new, S) = p(old, S) + (IF t \in Units!Producers /\ new[t] \in S THEN 1 ELSE 0)
                                - (IF t \in Units!Producers /\ old[t] \in S THEN 1 ELSE 0)
             /\ t \in Units!Producers /\ old[t] \in S => p(old, S) > 0
  BY <1>1
<1>4. \A S : /\ c(old, S) \in Nat /\ c(new, S) \in Nat
             /\ c(new, S) = c(old, S) + (IF t \in Units!Consumers /\ new[t] \in S THEN 1 ELSE 0)
                                - (IF t \in Units!Consumers /\ old[t] \in S THEN 1 ELSE 0)
             /\ t \in Units!Consumers /\ old[t] \in S => c(old, S) > 0
  BY <1>1
<1> HIDE DEF p, c
<1>5. \A S : /\ p(old, S) \in Nat /\ p(new, S) \in Nat /\ c(old, S) \in Nat /\ c(new, S) \in Nat
  BY <1>3, <1>4
<1>6. t \in Units!Producers => \A S :
        /\ p(new, S) = p(old, S) + (IF new[t] \in S THEN 1 ELSE 0) - (IF old[t] \in S THEN 1 ELSE 0)
        /\ c(new, S) = c(old, S)
        /\ old[t] \in S => p(old, S) > 0
  BY <1>2, <1>3, <1>4
<1>7. t \in Units!Consumers => \A S :
        /\ c(new, S) = c(old, S) + (IF new[t] \in S THEN 1 ELSE 0) - (IF old[t] \in S THEN 1 ELSE 0)
        /\ p(new, S) = p(old, S)
        /\ old[t] \in S => c(old, S) > 0
  BY <1>2, <1>3, <1>4
<1>8. t \in Units!Producers => NumbersFollow(old, new, t, Units!Producers, Units!Consumers)
  BY <1>6 DEF p, c, NumbersFollow
<1>9. t \in Units!Consumers => NumbersFollow(old, new, t, Units!Consumers, Units!Producers)
  BY <1>7 DEF p, c, NumbersFollow
<1> QED BY <1>5, <1>8, <1>9 DEF p, c

\* How many threads hold a unit.
HeldBy(held, u) == Num(held, {u}, Units!Producers) + Num(held, {u}, Units!Consumers)

LEMMA UnitChangesHands ==
  ASSUME NEW old, NEW new, NEW t \in Units!Threads,
         \A s \in Units!Threads : s # t => new[s] = old[s]
  PROVE  \A u : /\ HeldBy(old, u) \in Nat
                /\ HeldBy(new, u) = HeldBy(old, u) + (IF new[t] = u THEN 1 ELSE 0)
                                      - (IF old[t] = u THEN 1 ELSE 0)
                /\ old[t] = u => HeldBy(old, u) > 0
<1> SUFFICES ASSUME NEW u
             PROVE  /\ HeldBy(old, u) \in Nat
                    /\ HeldBy(new, u) = HeldBy(old, u) + (IF new[t] = u THEN 1 ELSE 0)
                                      - (IF old[t] = u THEN 1 ELSE 0)
                    /\ old[t] = u => HeldBy(old, u) > 0
  OBVIOUS
<1> DEFINE a == Num(old, {u}, Units!Producers)
           b == Num(old, {u}, Units!Consumers)
           c == Num(new, {u}, Units!Producers)
           d == Num(new, {u}, Units!Consumers)
<1>1. a \in Nat /\ b \in Nat /\ c \in Nat /\ d \in Nat
  BY UnitThreadMoves
<1>2. CASE t \in Units!Producers
  <2>0. NumbersFollow(old, new, t, Units!Producers, Units!Consumers)
    BY <1>2, UnitThreadMoves
  <2>1. /\ c = a + (IF new[t] \in {u} THEN 1 ELSE 0) - (IF old[t] \in {u} THEN 1 ELSE 0)
        /\ d = b /\ (old[t] \in {u} => a > 0)
    BY <2>0 DEF NumbersFollow
  <2> HIDE DEF a, b, c, d
  <2>2. /\ a + b \in Nat
        /\ c + d = a + b + (IF new[t] = u THEN 1 ELSE 0) - (IF old[t] = u THEN 1 ELSE 0)
        /\ old[t] = u => a + b > 0
    BY <1>1, <2>1
  <2> QED BY <2>2 DEF a, b, c, d, HeldBy
<1>3. CASE t \in Units!Consumers
  <2>0. NumbersFollow(old, new, t, Units!Consumers, Units!Producers)
    BY <1>3, UnitThreadMoves
  <2>1. /\ d = b + (IF new[t] \in {u} THEN 1 ELSE 0) - (IF old[t] \in {u} THEN 1 ELSE 0)
        /\ c = a /\ (old[t] \in {u} => b > 0)
    BY <2>0 DEF NumbersFollow
  <2> HIDE DEF a, b, c, d
  <2>2. /\ a + b \in Nat
        /\ c + d = a + b + (IF new[t] = u THEN 1 ELSE 0) - (IF old[t] = u THEN 1 ELSE 0)
        /\ old[t] = u => a + b > 0
    BY <1>1, <2>1
  <2> QED BY <2>2 DEF a, b, c, d, HeldBy
<1> QED BY <1>2, <1>3, UnitThreads

\* What a thread holds when it goes to a place, with or without a unit.
LEMMA UnitsHeldNext ==
  ASSUME NEW pc, NEW mine, NEW t \in Units!Threads, NEW to, NEW unit,
         pc \in [Units!Threads -> {"unborn", "claim", "enqueue", "post", "wait", "dequeue", "consume", "done"}],
         mine \in [Units!Threads -> 0 .. unit_count], unit \in 0 .. unit_count,
         to \in {"unborn", "claim", "enqueue", "post", "wait", "dequeue", "consume", "done"}
  PROVE  LET old == UnitsHeld(pc, mine)
             new == UnitsHeld([pc EXCEPT ![t] = to], [mine EXCEPT ![t] = unit])
         IN /\ \A s \in Units!Threads : s # t => new[s] = old[s]
            /\ old[t] = IF pc[t] \in {"enqueue", "consume"} THEN mine[t] ELSE -1
            /\ new[t] = IF to \in {"enqueue", "consume"} THEN unit ELSE -1
BY DEF UnitsHeld

\* The threads at each place when a producer or a consumer goes to another.
LEMMA ProducerGoes ==
  ASSUME NEW old, NEW new, NEW t \in Units!Producers,
         \A s \in Units!Threads : s # t => new[s] = old[s]
  PROVE  /\ Num(new, {"wait"}, Units!Consumers) = Num(old, {"wait"}, Units!Consumers)
         /\ Num(new, {"dequeue"}, Units!Consumers) = Num(old, {"dequeue"}, Units!Consumers)
         /\ Num(new, {"consume"}, Units!Consumers) = Num(old, {"consume"}, Units!Consumers)
         /\ new[t] = "enqueue" /\ old[t] # "enqueue" => Num(new, {"enqueue"}, Units!Producers) = Num(old, {"enqueue"}, Units!Producers) + 1
         /\ new[t] # "enqueue" /\ old[t] = "enqueue" =>
              Num(new, {"enqueue"}, Units!Producers) = Num(old, {"enqueue"}, Units!Producers) - 1 /\ Num(old, {"enqueue"}, Units!Producers) > 0
         /\ (new[t] = "enqueue" <=> old[t] = "enqueue") => Num(new, {"enqueue"}, Units!Producers) = Num(old, {"enqueue"}, Units!Producers)
         /\ new[t] = "post" /\ old[t] # "post" => Num(new, {"post"}, Units!Producers) = Num(old, {"post"}, Units!Producers) + 1
         /\ new[t] # "post" /\ old[t] = "post" =>
              Num(new, {"post"}, Units!Producers) = Num(old, {"post"}, Units!Producers) - 1 /\ Num(old, {"post"}, Units!Producers) > 0
         /\ (new[t] = "post" <=> old[t] = "post") => Num(new, {"post"}, Units!Producers) = Num(old, {"post"}, Units!Producers)
<1>0. t \in Units!Threads
  BY UnitThreads
<1>1. \A S : Num(old, S, Units!Producers) \in Nat
  BY <1>0, UnitThreadMoves
<1>2. \A S : /\ Num(new, S, Units!Producers) = Num(old, S, Units!Producers)
                  + (IF new[t] \in S THEN 1 ELSE 0) - (IF old[t] \in S THEN 1 ELSE 0)
             /\ Num(new, S, Units!Consumers) = Num(old, S, Units!Consumers)
             /\ old[t] \in S => Num(old, S, Units!Producers) > 0
  <2>1. NumbersFollow(old, new, t, Units!Producers, Units!Consumers)
    BY <1>0, UnitThreadMoves
  <2> QED BY <2>1 DEF NumbersFollow
<1> DEFINE n(f, x) == Num(f, {x}, Units!Producers)
<1>3. \A x : /\ n(old, x) \in Nat
             /\ n(new, x) = n(old, x) + (IF new[t] = x THEN 1 ELSE 0) - (IF old[t] = x THEN 1 ELSE 0)
             /\ old[t] = x => n(old, x) > 0
  BY <1>1, <1>2
<1> HIDE DEF n
<1>4. \A x : /\ new[t] = x /\ old[t] # x => n(new, x) = n(old, x) + 1
             /\ new[t] # x /\ old[t] = x => n(new, x) = n(old, x) - 1 /\ n(old, x) > 0
             /\ (new[t] = x <=> old[t] = x) => n(new, x) = n(old, x)
  BY <1>3
<1> QED BY <1>2, <1>4 DEF n

LEMMA ConsumerGoes ==
  ASSUME NEW old, NEW new, NEW t \in Units!Consumers,
         \A s \in Units!Threads : s # t => new[s] = old[s]
  PROVE  /\ Num(new, {"enqueue"}, Units!Producers) = Num(old, {"enqueue"}, Units!Producers)
         /\ Num(new, {"post"}, Units!Producers) = Num(old, {"post"}, Units!Producers)
         /\ new[t] = "wait" /\ old[t] # "wait" => Num(new, {"wait"}, Units!Consumers) = Num(old, {"wait"}, Units!Consumers) + 1
         /\ new[t] # "wait" /\ old[t] = "wait" =>
              Num(new, {"wait"}, Units!Consumers) = Num(old, {"wait"}, Units!Consumers) - 1 /\ Num(old, {"wait"}, Units!Consumers) > 0
         /\ (new[t] = "wait" <=> old[t] = "wait") => Num(new, {"wait"}, Units!Consumers) = Num(old, {"wait"}, Units!Consumers)
         /\ new[t] = "dequeue" /\ old[t] # "dequeue" => Num(new, {"dequeue"}, Units!Consumers) = Num(old, {"dequeue"}, Units!Consumers) + 1
         /\ new[t] # "dequeue" /\ old[t] = "dequeue" =>
              Num(new, {"dequeue"}, Units!Consumers) = Num(old, {"dequeue"}, Units!Consumers) - 1 /\ Num(old, {"dequeue"}, Units!Consumers) > 0
         /\ (new[t] = "dequeue" <=> old[t] = "dequeue") => Num(new, {"dequeue"}, Units!Consumers) = Num(old, {"dequeue"}, Units!Consumers)
         /\ new[t] = "consume" /\ old[t] # "consume" => Num(new, {"consume"}, Units!Consumers) = Num(old, {"consume"}, Units!Consumers) + 1
         /\ new[t] # "consume" /\ old[t] = "consume" =>
              Num(new, {"consume"}, Units!Consumers) = Num(old, {"consume"}, Units!Consumers) - 1 /\ Num(old, {"consume"}, Units!Consumers) > 0
         /\ (new[t] = "consume" <=> old[t] = "consume") => Num(new, {"consume"}, Units!Consumers) = Num(old, {"consume"}, Units!Consumers)
<1>0. t \in Units!Threads
  BY UnitThreads
<1>1. \A S : Num(old, S, Units!Consumers) \in Nat
  BY <1>0, UnitThreadMoves
<1>2. \A S : /\ Num(new, S, Units!Consumers) = Num(old, S, Units!Consumers)
                  + (IF new[t] \in S THEN 1 ELSE 0) - (IF old[t] \in S THEN 1 ELSE 0)
             /\ Num(new, S, Units!Producers) = Num(old, S, Units!Producers)
             /\ old[t] \in S => Num(old, S, Units!Consumers) > 0
  <2>1. NumbersFollow(old, new, t, Units!Consumers, Units!Producers)
    BY <1>0, UnitThreadMoves
  <2> QED BY <2>1 DEF NumbersFollow
<1> DEFINE n(f, x) == Num(f, {x}, Units!Consumers)
<1>3. \A x : /\ n(old, x) \in Nat
             /\ n(new, x) = n(old, x) + (IF new[t] = x THEN 1 ELSE 0) - (IF old[t] = x THEN 1 ELSE 0)
             /\ old[t] = x => n(old, x) > 0
  BY <1>1, <1>2
<1> HIDE DEF n
<1>4. \A x : /\ new[t] = x /\ old[t] # x => n(new, x) = n(old, x) + 1
             /\ new[t] # x /\ old[t] = x => n(new, x) = n(old, x) - 1 /\ n(old, x) > 0
             /\ (new[t] = x <=> old[t] = x) => n(new, x) = n(old, x)
  BY <1>3
<1> QED BY <1>2, <1>4 DEF n

\* What each step does to the numbers.
LEMMA UnitArithmetic ==
  \A w, d, k, e, o, lq, le, lg, z, cc, nx, tk :
    UnitNumbers(w, d, k, e, o, lq, le, lg, z, cc, nx, tk) =>
      /\ UnitNumbers(w, d, k, e + 1, o, lq, le, lg, z, cc, nx + 1, tk)
      /\ e > 0 => /\ UnitNumbers(w, d, k, e - 1, o + 1, lq + 1, le, lg, z, cc, nx, tk)
                  /\ UnitNumbers(w, d, k, e - 1, o + 1, lq, le, lg + 1, z, cc, nx, tk)
      /\ o > 0 => UnitNumbers(w, d, k, e, o - 1, lq, le, lg, z, cc, nx, tk + 1)
      /\ UnitNumbers(w + 1, d, k, e, o, lq, le, lg, z, cc + 1, nx, tk)
      /\ w > 0 /\ tk > 0 => UnitNumbers(w - 1, d + 1, k, e, o, lq, le, lg, z, cc, nx, tk - 1)
      /\ d > 0 /\ lq > 0 => UnitNumbers(w, d - 1, k + 1, e, o, lq - 1, le, lg, z, cc, nx, tk)
      /\ d > 0 /\ lq = 0 => UnitNumbers(w, d - 1, k + 1, e, o, lq, le, lg, z + 1, cc, nx, tk)
      /\ k > 0 => UnitNumbers(w, d, k - 1, e, o, lq, le + 1, lg, z, cc, nx, tk)
BY DEF UnitNumbers

\* The number of places of a unit, with how many hold it.
LEMMA PlacesOfHeld ==
  \A held, queued, eaten, gone, u :
    PlacesIn(held, queued, eaten, gone, u) =
      HeldBy(held, u) + Occurs(queued, u) + Occurs(eaten, u) + (IF u \in gone THEN 1 ELSE 0)
BY DEF PlacesIn, HeldBy

\* A thread goes from a place without a unit to another one: created, ending, or after
\* the post of a producer and the claim or the wait of a consumer.
LEMMA UnitsStayInPlace ==
  ASSUME NEW pc, NEW mine, NEW t \in Units!Threads, NEW to,
         pc \in [Units!Threads -> {"unborn", "claim", "enqueue", "post", "wait", "dequeue", "consume", "done"}],
         pc[t] \notin {"enqueue", "consume"}, to \notin {"enqueue", "consume"}
  PROVE  UnitsHeld([pc EXCEPT ![t] = to], mine) = UnitsHeld(pc, mine)
<1> DEFINE pc2 == [pc EXCEPT ![t] = to]
<1>1. \A s \in Units!Threads : pc2[s] = IF s = t THEN to ELSE pc[s]
  OBVIOUS
<1> HIDE DEF pc2
<1>2. \A s \in Units!Threads : (IF pc2[s] \in {"enqueue", "consume"} THEN mine[s] ELSE -1)
                             = (IF pc[s] \in {"enqueue", "consume"} THEN mine[s] ELSE -1)
  BY <1>1
<1>3. UnitsHeld(pc2, mine) = UnitsHeld(pc, mine)
  BY <1>2 DEF UnitsHeld
<1> QED BY <1>3 DEF pc2

\* A producer is created.
LEMMA ProducerCreated ==
  ASSUME NEW pc, NEW mine, NEW queued, NEW eaten, NEW gone, NEW claimed, NEW next, NEW tokens,
         UnitsRight(pc, mine, queued, eaten, gone, claimed, next, tokens),
         NEW t \in Units!Producers, pc[t] = "unborn"
  PROVE  UnitsRight([pc EXCEPT ![t] = "claim"], mine, queued, eaten, gone, claimed, next, tokens)
<1> DEFINE pc2 == [pc EXCEPT ![t] = "claim"]
<1>1. /\ UnitTypes(pc, mine, queued, eaten, gone, claimed, next, tokens) /\ t \in Units!Threads
      /\ UnitsInNumbers(pc, mine, queued, eaten, gone, claimed, next, tokens)
      /\ UnitsInPlaces(pc, mine, queued, eaten, gone, next)
  BY UnitThreads DEF UnitsRight
<1>2. pc \in [Units!Threads -> {"unborn", "claim", "enqueue", "post", "wait", "dequeue", "consume", "done"}]
  BY <1>1 DEF UnitTypes
<1>3. UnitsHeld(pc2, mine) = UnitsHeld(pc, mine)
  BY <1>1, <1>2, UnitsStayInPlace
<1>4. \A s \in Units!Threads : pc2[s] = IF s = t THEN "claim" ELSE pc[s]
  BY <1>2
<1>5. pc2 \in [Units!Threads -> {"unborn", "claim", "enqueue", "post", "wait", "dequeue", "consume", "done"}]
  BY <1>2
<1> HIDE DEF pc2
<1>6. UnitTypes(pc2, mine, queued, eaten, gone, claimed, next, tokens)
  <2>1. /\ \A p \in Units!Producers : pc2[p] = IF p = t THEN "claim" ELSE pc[p]
        /\ \A p \in Units!Consumers : pc2[p] = IF p = t THEN "claim" ELSE pc[p]
    BY <1>4, UnitThreads
  <2>2. tokens \in Nat
    BY <1>1, UnitThreads DEF UnitTypes
  <2> QED BY <1>1, <1>5, <2>1, <2>2, UnitThreads DEF UnitTypes
<1>7. UnitsInNumbers(pc2, mine, queued, eaten, gone, claimed, next, tokens)
  <2> DEFINE W(f) == Num(f, {"wait"}, Units!Consumers)
             D(f) == Num(f, {"dequeue"}, Units!Consumers)
             K(f) == Num(f, {"consume"}, Units!Consumers)
             E(f) == Num(f, {"enqueue"}, Units!Producers)
             O(f) == Num(f, {"post"}, Units!Producers)
             z == PlacesIn(UnitsHeld(pc, mine), queued, eaten, gone, 0)
  <2>1. (\A s \in Units!Threads : s # t => pc2[s] = pc[s]) /\ pc2[t] = "claim"
    BY <1>1, <1>4
  <2>2. W(pc2) = W(pc) /\ D(pc2) = D(pc) /\ K(pc2) = K(pc) /\ E(pc2) = E(pc) /\ O(pc2) = O(pc)
    BY <2>1, ProducerGoes
  <2>3. UnitNumbers(W(pc), D(pc), K(pc), E(pc), O(pc), Len(queued), Len(eaten), Cardinality(gone),
                    z, claimed, next, tokens)
    BY <1>1 DEF UnitsInNumbers
  <2> HIDE DEF W, D, K, E, O, z
  <2>4. UnitNumbers(W(pc2), D(pc2), K(pc2), E(pc2), O(pc2), Len(queued), Len(eaten), Cardinality(gone),
                    z, claimed, next, tokens)
    BY <2>2, <2>3, UnitArithmetic
  <2> QED BY <1>3, <2>4 DEF UnitsInNumbers, W, D, K, E, O, z
<1>8. UnitsInPlaces(pc2, mine, queued, eaten, gone, next)
  BY <1>1, <1>3 DEF UnitsInPlaces
<1> QED BY <1>6, <1>7, <1>8 DEF UnitsRight, pc2

\* A producer ends.
LEMMA ProducerEnded ==
  ASSUME NEW pc, NEW mine, NEW queued, NEW eaten, NEW gone, NEW claimed, NEW next, NEW tokens,
         UnitsRight(pc, mine, queued, eaten, gone, claimed, next, tokens),
         NEW t \in Units!Producers, pc[t] = "claim"
  PROVE  UnitsRight([pc EXCEPT ![t] = "done"], mine, queued, eaten, gone, claimed, next, tokens)
<1> DEFINE pc2 == [pc EXCEPT ![t] = "done"]
<1>1. /\ UnitTypes(pc, mine, queued, eaten, gone, claimed, next, tokens) /\ t \in Units!Threads
      /\ UnitsInNumbers(pc, mine, queued, eaten, gone, claimed, next, tokens)
      /\ UnitsInPlaces(pc, mine, queued, eaten, gone, next)
  BY UnitThreads DEF UnitsRight
<1>2. pc \in [Units!Threads -> {"unborn", "claim", "enqueue", "post", "wait", "dequeue", "consume", "done"}]
  BY <1>1 DEF UnitTypes
<1>3. UnitsHeld(pc2, mine) = UnitsHeld(pc, mine)
  BY <1>1, <1>2, UnitsStayInPlace
<1>4. \A s \in Units!Threads : pc2[s] = IF s = t THEN "done" ELSE pc[s]
  BY <1>2
<1>5. pc2 \in [Units!Threads -> {"unborn", "claim", "enqueue", "post", "wait", "dequeue", "consume", "done"}]
  BY <1>2
<1> HIDE DEF pc2
<1>6. UnitTypes(pc2, mine, queued, eaten, gone, claimed, next, tokens)
  <2>1. /\ \A p \in Units!Producers : pc2[p] = IF p = t THEN "done" ELSE pc[p]
        /\ \A p \in Units!Consumers : pc2[p] = IF p = t THEN "done" ELSE pc[p]
    BY <1>4, UnitThreads
  <2>2. tokens \in Nat
    BY <1>1, UnitThreads DEF UnitTypes
  <2> QED BY <1>1, <1>5, <2>1, <2>2, UnitThreads DEF UnitTypes
<1>7. UnitsInNumbers(pc2, mine, queued, eaten, gone, claimed, next, tokens)
  <2> DEFINE W(f) == Num(f, {"wait"}, Units!Consumers)
             D(f) == Num(f, {"dequeue"}, Units!Consumers)
             K(f) == Num(f, {"consume"}, Units!Consumers)
             E(f) == Num(f, {"enqueue"}, Units!Producers)
             O(f) == Num(f, {"post"}, Units!Producers)
             z == PlacesIn(UnitsHeld(pc, mine), queued, eaten, gone, 0)
  <2>1. (\A s \in Units!Threads : s # t => pc2[s] = pc[s]) /\ pc2[t] = "done"
    BY <1>1, <1>4
  <2>2. W(pc2) = W(pc) /\ D(pc2) = D(pc) /\ K(pc2) = K(pc) /\ E(pc2) = E(pc) /\ O(pc2) = O(pc)
    BY <2>1, ProducerGoes
  <2>3. UnitNumbers(W(pc), D(pc), K(pc), E(pc), O(pc), Len(queued), Len(eaten), Cardinality(gone),
                    z, claimed, next, tokens)
    BY <1>1 DEF UnitsInNumbers
  <2> HIDE DEF W, D, K, E, O, z
  <2>4. UnitNumbers(W(pc2), D(pc2), K(pc2), E(pc2), O(pc2), Len(queued), Len(eaten), Cardinality(gone),
                    z, claimed, next, tokens)
    BY <2>2, <2>3, UnitArithmetic
  <2> QED BY <1>3, <2>4 DEF UnitsInNumbers, W, D, K, E, O, z
<1>8. UnitsInPlaces(pc2, mine, queued, eaten, gone, next)
  BY <1>1, <1>3 DEF UnitsInPlaces
<1> QED BY <1>6, <1>7, <1>8 DEF UnitsRight, pc2

\* A consumer is created.
LEMMA ConsumerCreated ==
  ASSUME NEW pc, NEW mine, NEW queued, NEW eaten, NEW gone, NEW claimed, NEW next, NEW tokens,
         UnitsRight(pc, mine, queued, eaten, gone, claimed, next, tokens),
         NEW t \in Units!Consumers, pc[t] = "unborn"
  PROVE  UnitsRight([pc EXCEPT ![t] = "claim"], mine, queued, eaten, gone, claimed, next, tokens)
<1> DEFINE pc2 == [pc EXCEPT ![t] = "claim"]
<1>1. /\ UnitTypes(pc, mine, queued, eaten, gone, claimed, next, tokens) /\ t \in Units!Threads
      /\ UnitsInNumbers(pc, mine, queued, eaten, gone, claimed, next, tokens)
      /\ UnitsInPlaces(pc, mine, queued, eaten, gone, next)
  BY UnitThreads DEF UnitsRight
<1>2. pc \in [Units!Threads -> {"unborn", "claim", "enqueue", "post", "wait", "dequeue", "consume", "done"}]
  BY <1>1 DEF UnitTypes
<1>3. UnitsHeld(pc2, mine) = UnitsHeld(pc, mine)
  BY <1>1, <1>2, UnitsStayInPlace
<1>4. \A s \in Units!Threads : pc2[s] = IF s = t THEN "claim" ELSE pc[s]
  BY <1>2
<1>5. pc2 \in [Units!Threads -> {"unborn", "claim", "enqueue", "post", "wait", "dequeue", "consume", "done"}]
  BY <1>2
<1> HIDE DEF pc2
<1>6. UnitTypes(pc2, mine, queued, eaten, gone, claimed, next, tokens)
  <2>1. /\ \A p \in Units!Producers : pc2[p] = IF p = t THEN "claim" ELSE pc[p]
        /\ \A p \in Units!Consumers : pc2[p] = IF p = t THEN "claim" ELSE pc[p]
    BY <1>4, UnitThreads
  <2>2. tokens \in Nat
    BY <1>1, UnitThreads DEF UnitTypes
  <2> QED BY <1>1, <1>5, <2>1, <2>2, UnitThreads DEF UnitTypes
<1>7. UnitsInNumbers(pc2, mine, queued, eaten, gone, claimed, next, tokens)
  <2> DEFINE W(f) == Num(f, {"wait"}, Units!Consumers)
             D(f) == Num(f, {"dequeue"}, Units!Consumers)
             K(f) == Num(f, {"consume"}, Units!Consumers)
             E(f) == Num(f, {"enqueue"}, Units!Producers)
             O(f) == Num(f, {"post"}, Units!Producers)
             z == PlacesIn(UnitsHeld(pc, mine), queued, eaten, gone, 0)
  <2>1. (\A s \in Units!Threads : s # t => pc2[s] = pc[s]) /\ pc2[t] = "claim"
    BY <1>1, <1>4
  <2>2. W(pc2) = W(pc) /\ D(pc2) = D(pc) /\ K(pc2) = K(pc) /\ E(pc2) = E(pc) /\ O(pc2) = O(pc)
    BY <2>1, ConsumerGoes
  <2>3. UnitNumbers(W(pc), D(pc), K(pc), E(pc), O(pc), Len(queued), Len(eaten), Cardinality(gone),
                    z, claimed, next, tokens)
    BY <1>1 DEF UnitsInNumbers
  <2> HIDE DEF W, D, K, E, O, z
  <2>4. UnitNumbers(W(pc2), D(pc2), K(pc2), E(pc2), O(pc2), Len(queued), Len(eaten), Cardinality(gone),
                    z, claimed, next, tokens)
    BY <2>2, <2>3, UnitArithmetic
  <2> QED BY <1>3, <2>4 DEF UnitsInNumbers, W, D, K, E, O, z
<1>8. UnitsInPlaces(pc2, mine, queued, eaten, gone, next)
  BY <1>1, <1>3 DEF UnitsInPlaces
<1> QED BY <1>6, <1>7, <1>8 DEF UnitsRight, pc2

\* A consumer ends.
LEMMA ConsumerEnded ==
  ASSUME NEW pc, NEW mine, NEW queued, NEW eaten, NEW gone, NEW claimed, NEW next, NEW tokens,
         UnitsRight(pc, mine, queued, eaten, gone, claimed, next, tokens),
         NEW t \in Units!Consumers, pc[t] = "claim"
  PROVE  UnitsRight([pc EXCEPT ![t] = "done"], mine, queued, eaten, gone, claimed, next, tokens)
<1> DEFINE pc2 == [pc EXCEPT ![t] = "done"]
<1>1. /\ UnitTypes(pc, mine, queued, eaten, gone, claimed, next, tokens) /\ t \in Units!Threads
      /\ UnitsInNumbers(pc, mine, queued, eaten, gone, claimed, next, tokens)
      /\ UnitsInPlaces(pc, mine, queued, eaten, gone, next)
  BY UnitThreads DEF UnitsRight
<1>2. pc \in [Units!Threads -> {"unborn", "claim", "enqueue", "post", "wait", "dequeue", "consume", "done"}]
  BY <1>1 DEF UnitTypes
<1>3. UnitsHeld(pc2, mine) = UnitsHeld(pc, mine)
  BY <1>1, <1>2, UnitsStayInPlace
<1>4. \A s \in Units!Threads : pc2[s] = IF s = t THEN "done" ELSE pc[s]
  BY <1>2
<1>5. pc2 \in [Units!Threads -> {"unborn", "claim", "enqueue", "post", "wait", "dequeue", "consume", "done"}]
  BY <1>2
<1> HIDE DEF pc2
<1>6. UnitTypes(pc2, mine, queued, eaten, gone, claimed, next, tokens)
  <2>1. /\ \A p \in Units!Producers : pc2[p] = IF p = t THEN "done" ELSE pc[p]
        /\ \A p \in Units!Consumers : pc2[p] = IF p = t THEN "done" ELSE pc[p]
    BY <1>4, UnitThreads
  <2>2. tokens \in Nat
    BY <1>1, UnitThreads DEF UnitTypes
  <2> QED BY <1>1, <1>5, <2>1, <2>2, UnitThreads DEF UnitTypes
<1>7. UnitsInNumbers(pc2, mine, queued, eaten, gone, claimed, next, tokens)
  <2> DEFINE W(f) == Num(f, {"wait"}, Units!Consumers)
             D(f) == Num(f, {"dequeue"}, Units!Consumers)
             K(f) == Num(f, {"consume"}, Units!Consumers)
             E(f) == Num(f, {"enqueue"}, Units!Producers)
             O(f) == Num(f, {"post"}, Units!Producers)
             z == PlacesIn(UnitsHeld(pc, mine), queued, eaten, gone, 0)
  <2>1. (\A s \in Units!Threads : s # t => pc2[s] = pc[s]) /\ pc2[t] = "done"
    BY <1>1, <1>4
  <2>2. W(pc2) = W(pc) /\ D(pc2) = D(pc) /\ K(pc2) = K(pc) /\ E(pc2) = E(pc) /\ O(pc2) = O(pc)
    BY <2>1, ConsumerGoes
  <2>3. UnitNumbers(W(pc), D(pc), K(pc), E(pc), O(pc), Len(queued), Len(eaten), Cardinality(gone),
                    z, claimed, next, tokens)
    BY <1>1 DEF UnitsInNumbers
  <2> HIDE DEF W, D, K, E, O, z
  <2>4. UnitNumbers(W(pc2), D(pc2), K(pc2), E(pc2), O(pc2), Len(queued), Len(eaten), Cardinality(gone),
                    z, claimed, next, tokens)
    BY <2>2, <2>3, UnitArithmetic
  <2> QED BY <1>3, <2>4 DEF UnitsInNumbers, W, D, K, E, O, z
<1>8. UnitsInPlaces(pc2, mine, queued, eaten, gone, next)
  BY <1>1, <1>3 DEF UnitsInPlaces
<1> QED BY <1>6, <1>7, <1>8 DEF UnitsRight, pc2

\* A producer announces the unit in the queue.
LEMMA UnitPosted ==
  ASSUME NEW pc, NEW mine, NEW queued, NEW eaten, NEW gone, NEW claimed, NEW next, NEW tokens,
         UnitsRight(pc, mine, queued, eaten, gone, claimed, next, tokens),
         NEW t \in Units!Producers, pc[t] = "post"
  PROVE  UnitsRight([pc EXCEPT ![t] = "claim"], mine, queued, eaten, gone, claimed, next, tokens + 1)
<1> DEFINE pc2 == [pc EXCEPT ![t] = "claim"]
<1>1. /\ UnitTypes(pc, mine, queued, eaten, gone, claimed, next, tokens) /\ t \in Units!Threads
      /\ UnitsInNumbers(pc, mine, queued, eaten, gone, claimed, next, tokens)
      /\ UnitsInPlaces(pc, mine, queued, eaten, gone, next)
  BY UnitThreads DEF UnitsRight
<1>2. pc \in [Units!Threads -> {"unborn", "claim", "enqueue", "post", "wait", "dequeue", "consume", "done"}]
  BY <1>1 DEF UnitTypes
<1>3. UnitsHeld(pc2, mine) = UnitsHeld(pc, mine)
  BY <1>1, <1>2, UnitsStayInPlace
<1>4. \A s \in Units!Threads : pc2[s] = IF s = t THEN "claim" ELSE pc[s]
  BY <1>2
<1>5. pc2 \in [Units!Threads -> {"unborn", "claim", "enqueue", "post", "wait", "dequeue", "consume", "done"}]
  BY <1>2
<1> HIDE DEF pc2
<1>6. UnitTypes(pc2, mine, queued, eaten, gone, claimed, next, tokens + 1)
  <2>1. /\ \A p \in Units!Producers : pc2[p] = IF p = t THEN "claim" ELSE pc[p]
        /\ \A p \in Units!Consumers : pc2[p] = IF p = t THEN "claim" ELSE pc[p]
    BY <1>4, UnitThreads
  <2>2. tokens + 1 \in Nat
    BY <1>1, UnitThreads DEF UnitTypes
  <2> QED BY <1>1, <1>5, <2>1, <2>2, UnitThreads DEF UnitTypes
<1>7. UnitsInNumbers(pc2, mine, queued, eaten, gone, claimed, next, tokens + 1)
  <2> DEFINE W(f) == Num(f, {"wait"}, Units!Consumers)
             D(f) == Num(f, {"dequeue"}, Units!Consumers)
             K(f) == Num(f, {"consume"}, Units!Consumers)
             E(f) == Num(f, {"enqueue"}, Units!Producers)
             O(f) == Num(f, {"post"}, Units!Producers)
             z == PlacesIn(UnitsHeld(pc, mine), queued, eaten, gone, 0)
  <2>1. (\A s \in Units!Threads : s # t => pc2[s] = pc[s]) /\ pc2[t] = "claim"
    BY <1>1, <1>4
  <2>2. /\ W(pc2) = W(pc) /\ D(pc2) = D(pc) /\ K(pc2) = K(pc) /\ E(pc2) = E(pc)
        /\ O(pc2) = O(pc) - 1 /\ O(pc) > 0
    BY <2>1, ProducerGoes
  <2>3. UnitNumbers(W(pc), D(pc), K(pc), E(pc), O(pc), Len(queued), Len(eaten), Cardinality(gone),
                    z, claimed, next, tokens)
    BY <1>1 DEF UnitsInNumbers
  <2> HIDE DEF W, D, K, E, O, z
  <2>4. UnitNumbers(W(pc2), D(pc2), K(pc2), E(pc2), O(pc2), Len(queued), Len(eaten), Cardinality(gone),
                    z, claimed, next, tokens + 1)
    BY <2>2, <2>3, UnitArithmetic
  <2> QED BY <1>3, <2>4 DEF UnitsInNumbers, W, D, K, E, O, z
<1>8. UnitsInPlaces(pc2, mine, queued, eaten, gone, next)
  BY <1>1, <1>3 DEF UnitsInPlaces
<1> QED BY <1>6, <1>7, <1>8 DEF UnitsRight, pc2

\* A consumer claims a unit.
LEMMA UnitClaimed ==
  ASSUME NEW pc, NEW mine, NEW queued, NEW eaten, NEW gone, NEW claimed, NEW next, NEW tokens,
         UnitsRight(pc, mine, queued, eaten, gone, claimed, next, tokens),
         NEW t \in Units!Consumers, pc[t] = "claim", claimed < unit_count
  PROVE  UnitsRight([pc EXCEPT ![t] = "wait"], mine, queued, eaten, gone, claimed + 1, next, tokens)
<1> DEFINE pc2 == [pc EXCEPT ![t] = "wait"]
<1>1. /\ UnitTypes(pc, mine, queued, eaten, gone, claimed, next, tokens) /\ t \in Units!Threads
      /\ UnitsInNumbers(pc, mine, queued, eaten, gone, claimed, next, tokens)
      /\ UnitsInPlaces(pc, mine, queued, eaten, gone, next)
  BY UnitThreads DEF UnitsRight
<1>2. pc \in [Units!Threads -> {"unborn", "claim", "enqueue", "post", "wait", "dequeue", "consume", "done"}]
  BY <1>1 DEF UnitTypes
<1>3. UnitsHeld(pc2, mine) = UnitsHeld(pc, mine)
  BY <1>1, <1>2, UnitsStayInPlace
<1>4. \A s \in Units!Threads : pc2[s] = IF s = t THEN "wait" ELSE pc[s]
  BY <1>2
<1>5. pc2 \in [Units!Threads -> {"unborn", "claim", "enqueue", "post", "wait", "dequeue", "consume", "done"}]
  BY <1>2
<1> HIDE DEF pc2
<1>6. UnitTypes(pc2, mine, queued, eaten, gone, claimed + 1, next, tokens)
  <2>1. /\ \A p \in Units!Producers : pc2[p] = IF p = t THEN "wait" ELSE pc[p]
        /\ \A p \in Units!Consumers : pc2[p] = IF p = t THEN "wait" ELSE pc[p]
    BY <1>4, UnitThreads
  <2>2. claimed + 1 \in 0 .. unit_count
    BY <1>1, UnitThreads DEF UnitTypes
  <2> QED BY <1>1, <1>5, <2>1, <2>2, UnitThreads DEF UnitTypes
<1>7. UnitsInNumbers(pc2, mine, queued, eaten, gone, claimed + 1, next, tokens)
  <2> DEFINE W(f) == Num(f, {"wait"}, Units!Consumers)
             D(f) == Num(f, {"dequeue"}, Units!Consumers)
             K(f) == Num(f, {"consume"}, Units!Consumers)
             E(f) == Num(f, {"enqueue"}, Units!Producers)
             O(f) == Num(f, {"post"}, Units!Producers)
             z == PlacesIn(UnitsHeld(pc, mine), queued, eaten, gone, 0)
  <2>1. (\A s \in Units!Threads : s # t => pc2[s] = pc[s]) /\ pc2[t] = "wait"
    BY <1>1, <1>4
  <2>2. /\ E(pc2) = E(pc) /\ O(pc2) = O(pc) /\ D(pc2) = D(pc) /\ K(pc2) = K(pc)
        /\ W(pc2) = W(pc) + 1
    BY <2>1, ConsumerGoes
  <2>3. UnitNumbers(W(pc), D(pc), K(pc), E(pc), O(pc), Len(queued), Len(eaten), Cardinality(gone),
                    z, claimed, next, tokens)
    BY <1>1 DEF UnitsInNumbers
  <2> HIDE DEF W, D, K, E, O, z
  <2>4. UnitNumbers(W(pc2), D(pc2), K(pc2), E(pc2), O(pc2), Len(queued), Len(eaten), Cardinality(gone),
                    z, claimed + 1, next, tokens)
    BY <2>2, <2>3, UnitArithmetic
  <2> QED BY <1>3, <2>4 DEF UnitsInNumbers, W, D, K, E, O, z
<1>8. UnitsInPlaces(pc2, mine, queued, eaten, gone, next)
  BY <1>1, <1>3 DEF UnitsInPlaces
<1> QED BY <1>6, <1>7, <1>8 DEF UnitsRight, pc2

\* A consumer has waited for a unit.
LEMMA UnitAwaited ==
  ASSUME NEW pc, NEW mine, NEW queued, NEW eaten, NEW gone, NEW claimed, NEW next, NEW tokens,
         UnitsRight(pc, mine, queued, eaten, gone, claimed, next, tokens),
         NEW t \in Units!Consumers, pc[t] = "wait", tokens > 0
  PROVE  UnitsRight([pc EXCEPT ![t] = "dequeue"], mine, queued, eaten, gone, claimed, next, tokens - 1)
<1> DEFINE pc2 == [pc EXCEPT ![t] = "dequeue"]
<1>1. /\ UnitTypes(pc, mine, queued, eaten, gone, claimed, next, tokens) /\ t \in Units!Threads
      /\ UnitsInNumbers(pc, mine, queued, eaten, gone, claimed, next, tokens)
      /\ UnitsInPlaces(pc, mine, queued, eaten, gone, next)
  BY UnitThreads DEF UnitsRight
<1>2. pc \in [Units!Threads -> {"unborn", "claim", "enqueue", "post", "wait", "dequeue", "consume", "done"}]
  BY <1>1 DEF UnitTypes
<1>3. UnitsHeld(pc2, mine) = UnitsHeld(pc, mine)
  BY <1>1, <1>2, UnitsStayInPlace
<1>4. \A s \in Units!Threads : pc2[s] = IF s = t THEN "dequeue" ELSE pc[s]
  BY <1>2
<1>5. pc2 \in [Units!Threads -> {"unborn", "claim", "enqueue", "post", "wait", "dequeue", "consume", "done"}]
  BY <1>2
<1> HIDE DEF pc2
<1>6. UnitTypes(pc2, mine, queued, eaten, gone, claimed, next, tokens - 1)
  <2>1. /\ \A p \in Units!Producers : pc2[p] = IF p = t THEN "dequeue" ELSE pc[p]
        /\ \A p \in Units!Consumers : pc2[p] = IF p = t THEN "dequeue" ELSE pc[p]
    BY <1>4, UnitThreads
  <2>2. tokens - 1 \in Nat
    BY <1>1, UnitThreads DEF UnitTypes
  <2> QED BY <1>1, <1>5, <2>1, <2>2, UnitThreads DEF UnitTypes
<1>7. UnitsInNumbers(pc2, mine, queued, eaten, gone, claimed, next, tokens - 1)
  <2> DEFINE W(f) == Num(f, {"wait"}, Units!Consumers)
             D(f) == Num(f, {"dequeue"}, Units!Consumers)
             K(f) == Num(f, {"consume"}, Units!Consumers)
             E(f) == Num(f, {"enqueue"}, Units!Producers)
             O(f) == Num(f, {"post"}, Units!Producers)
             z == PlacesIn(UnitsHeld(pc, mine), queued, eaten, gone, 0)
  <2>1. (\A s \in Units!Threads : s # t => pc2[s] = pc[s]) /\ pc2[t] = "dequeue"
    BY <1>1, <1>4
  <2>2. /\ E(pc2) = E(pc) /\ O(pc2) = O(pc) /\ K(pc2) = K(pc)
        /\ W(pc2) = W(pc) - 1 /\ D(pc2) = D(pc) + 1 /\ W(pc) > 0
    BY <2>1, ConsumerGoes
  <2>3. UnitNumbers(W(pc), D(pc), K(pc), E(pc), O(pc), Len(queued), Len(eaten), Cardinality(gone),
                    z, claimed, next, tokens)
    BY <1>1 DEF UnitsInNumbers
  <2> HIDE DEF W, D, K, E, O, z
  <2>4. UnitNumbers(W(pc2), D(pc2), K(pc2), E(pc2), O(pc2), Len(queued), Len(eaten), Cardinality(gone),
                    z, claimed, next, tokens - 1)
    BY <2>2, <2>3, UnitArithmetic
  <2> QED BY <1>3, <2>4 DEF UnitsInNumbers, W, D, K, E, O, z
<1>8. UnitsInPlaces(pc2, mine, queued, eaten, gone, next)
  BY <1>1, <1>3 DEF UnitsInPlaces
<1> QED BY <1>6, <1>7, <1>8 DEF UnitsRight, pc2


\* A producer takes the next unit.
LEMMA UnitTaken ==
  ASSUME NEW pc, NEW mine, NEW queued, NEW eaten, NEW gone, NEW claimed, NEW next, NEW tokens,
         UnitsRight(pc, mine, queued, eaten, gone, claimed, next, tokens),
         NEW t \in Units!Producers, pc[t] = "claim", next < unit_count
  PROVE  UnitsRight([pc EXCEPT ![t] = "enqueue"], [mine EXCEPT ![t] = next + 1], queued, eaten, gone, claimed, next + 1, tokens)
<1> DEFINE pc2 == [pc EXCEPT ![t] = "enqueue"]
           mine2 == [mine EXCEPT ![t] = next + 1]
           old == UnitsHeld(pc, mine)
           new == UnitsHeld(pc2, mine2)
<1>1. /\ UnitTypes(pc, mine, queued, eaten, gone, claimed, next, tokens) /\ t \in Units!Threads
      /\ UnitsInNumbers(pc, mine, queued, eaten, gone, claimed, next, tokens)
      /\ UnitsInPlaces(pc, mine, queued, eaten, gone, next)
  BY UnitThreads DEF UnitsRight
<1>2. /\ pc \in [Units!Threads -> {"unborn", "claim", "enqueue", "post", "wait", "dequeue", "consume", "done"}]
      /\ mine \in [Units!Threads -> 0 .. unit_count]
      /\ queued \in Seq(1 .. unit_count) /\ eaten \in Seq(0 .. unit_count) /\ gone \subseteq 1 .. unit_count
      /\ next \in 0 .. unit_count /\ unit_count \in Nat
      /\ next + 1 \in 1 .. unit_count /\ next + 1 > 0
  BY <1>1, UnitThreads DEF UnitTypes
<1>3. /\ \A s \in Units!Threads : pc2[s] = IF s = t THEN "enqueue" ELSE pc[s]
      /\ pc2 \in [Units!Threads -> {"unborn", "claim", "enqueue", "post", "wait", "dequeue", "consume", "done"}]
      /\ mine2 \in [Units!Threads -> 0 .. unit_count]
      /\ \A s \in Units!Threads : s # t => mine2[s] = mine[s]
      /\ mine2[t] = next + 1 /\ next + 1 \in 0 .. unit_count
  <2>1. next + 1 \in 0 .. unit_count
    BY <1>2
  <2> QED BY <1>1, <1>2, <2>1
<1>4. /\ \A s \in Units!Threads : s # t => new[s] = old[s]
      /\ old[t] = -1 /\ new[t] = next + 1
  BY <1>1, <1>2, <1>3 DEF UnitsHeld
<1> HIDE DEF pc2, mine2, old, new
<1>5. \A u : /\ HeldBy(old, u) \in Nat
             /\ HeldBy(new, u) = HeldBy(old, u) + (IF new[t] = u THEN 1 ELSE 0) - (IF old[t] = u THEN 1 ELSE 0)
             /\ old[t] = u => HeldBy(old, u) > 0
  <2>1. \A s \in Units!Threads : s # t => new[s] = old[s]
    BY <1>4
  <2> QED BY <1>1, <2>1, UnitChangesHands, Zenon
<1>6. \A u : Occurs(queued, u) \in Nat /\ Occurs(eaten, u) \in Nat
  <2>1. PICK Q : Q = 1 .. unit_count
    OBVIOUS
  <2>2. PICK B : B = 0 .. unit_count
    OBVIOUS
  <2>3. queued \in Seq(Q) /\ eaten \in Seq(B) /\ 1 \in Q /\ 0 \in B
    BY <1>2, <2>1, <2>2, UnitThreads
  <2> QED BY <2>3, OccursAppend
<1>7. \A u \in 0 .. unit_count :
        /\ PlacesIn(new, queued, eaten, gone, u) = PlacesIn(old, queued, eaten, gone, u) + (IF next + 1 = u THEN 1 ELSE 0)
        /\ PlacesIn(old, queued, eaten, gone, u) \in Nat
  <2> SUFFICES ASSUME NEW u \in 0 .. unit_count
               PROVE  /\ PlacesIn(new, queued, eaten, gone, u) = PlacesIn(old, queued, eaten, gone, u) + (IF next + 1 = u THEN 1 ELSE 0)
                      /\ PlacesIn(old, queued, eaten, gone, u) \in Nat
    OBVIOUS
  <2>1. -1 # u /\ u \in Int
    BY <1>2
  <2>2. /\ HeldBy(old, u) \in Nat
        /\ HeldBy(new, u) = HeldBy(old, u) + (IF next + 1 = u THEN 1 ELSE 0) - (IF -1 = u THEN 1 ELSE 0)
    BY <1>4, <1>5
  <2>3. /\ Occurs(queued, u) \in Nat /\ Occurs(eaten, u) \in Nat
        /\ TRUE
    BY <1>6
  <2>4. PlacesIn(old, queued, eaten, gone, u) =
          HeldBy(old, u) + Occurs(queued, u) + Occurs(eaten, u) + (IF u \in gone THEN 1 ELSE 0)
    BY PlacesOfHeld
  <2>5. PlacesIn(new, queued, eaten, gone, u) =
          HeldBy(new, u) + Occurs(queued, u) + Occurs(eaten, u) + (IF u \in gone THEN 1 ELSE 0)
    BY PlacesOfHeld
  <2> QED BY <2>1, <2>2, <2>3, <2>4, <2>5
<1>8. UnitTypes(pc2, mine2, queued, eaten, gone, claimed, next + 1, tokens)
  <2>1. /\ \A p \in Units!Producers : pc2[p] = IF p = t THEN "enqueue" ELSE pc[p]
        /\ \A c \in Units!Consumers : pc2[c] = IF c = t THEN "enqueue" ELSE pc[c]
        /\ \A p \in Units!Producers : p # t => mine2[p] = mine[p]
    BY <1>3, UnitThreads
  <2>2. /\ queued \in Seq(1 .. unit_count) /\ eaten \in Seq(0 .. unit_count) /\ gone \subseteq 1 .. unit_count
        /\ next + 1 \in 0 .. unit_count
    BY <1>2
  <2>3. \A p \in Units!Producers : pc2[p] = "enqueue" => mine2[p] > 0
    <3>1. \A p \in Units!Producers : pc[p] = "enqueue" => mine[p] > 0
      BY <1>1 DEF UnitTypes
    <3> QED BY <1>2, <1>3, <2>1, <3>1, UnitThreads
  <2> QED BY <1>1, <1>3, <2>1, <2>2, <2>3, UnitThreads DEF UnitTypes
<1>9. UnitsInNumbers(pc2, mine2, queued, eaten, gone, claimed, next + 1, tokens)
  <2> DEFINE W(f) == Num(f, {"wait"}, Units!Consumers)
             D(f) == Num(f, {"dequeue"}, Units!Consumers)
             K(f) == Num(f, {"consume"}, Units!Consumers)
             E(f) == Num(f, {"enqueue"}, Units!Producers)
             O(f) == Num(f, {"post"}, Units!Producers)
             z == PlacesIn(old, queued, eaten, gone, 0)
  <2>1. (\A s \in Units!Threads : s # t => pc2[s] = pc[s]) /\ pc2[t] = "enqueue"
    BY <1>1, <1>3
  <2>2. /\ W(pc2) = W(pc) /\ D(pc2) = D(pc) /\ K(pc2) = K(pc) /\ O(pc2) = O(pc)
        /\ E(pc2) = E(pc) + 1
    BY <2>1, ProducerGoes
  <2>3. UnitNumbers(W(pc), D(pc), K(pc), E(pc), O(pc), Len(queued), Len(eaten), Cardinality(gone),
                    z, claimed, next, tokens)
    BY <1>1 DEF UnitsInNumbers, old
  <2>4. PlacesIn(new, queued, eaten, gone, 0) = z
    <3>1. 0 \in 0 .. unit_count
      BY <1>2
    <3>2. PlacesIn(new, queued, eaten, gone, 0) = z + (IF next + 1 = 0 THEN 1 ELSE 0) /\ z \in Nat
      BY <1>7, <3>1
    <3> HIDE DEF z
    <3> QED BY <1>2, <3>2
  <2> HIDE DEF W, D, K, E, O, z
  <2>5. UnitNumbers(W(pc2), D(pc2), K(pc2), E(pc2), O(pc2), Len(queued), Len(eaten), Cardinality(gone),
                    z, claimed, next + 1, tokens)
    BY <1>2, <2>2, <2>3, UnitArithmetic
  <2>6. UnitNumbers(W(pc2), D(pc2), K(pc2), E(pc2), O(pc2), Len(queued), Len(eaten), Cardinality(gone),
                    PlacesIn(new, queued, eaten, gone, 0), claimed, next + 1, tokens)
    BY <1>2, <1>6, <2>4, <2>5
  <2> QED BY <2>6 DEF UnitsInNumbers, new, W, D, K, E, O
<1>10. UnitsInPlaces(pc2, mine2, queued, eaten, gone, next + 1)
  <2>1. \A u \in 1 .. unit_count : PlacesIn(new, queued, eaten, gone, u) = IF u <= next + 1 THEN 1 ELSE 0
    <3> SUFFICES ASSUME NEW u \in 1 .. unit_count
                 PROVE  PlacesIn(new, queued, eaten, gone, u) = IF u <= next + 1 THEN 1 ELSE 0
      OBVIOUS
    <3>1. PlacesIn(old, queued, eaten, gone, u) = IF u <= next THEN 1 ELSE 0
      BY <1>1 DEF UnitsInPlaces, old
    <3>2. u \in 0 .. unit_count /\ u > 0
      BY <1>2
    <3>3. /\ PlacesIn(new, queued, eaten, gone, u) = PlacesIn(old, queued, eaten, gone, u) + (IF next + 1 = u THEN 1 ELSE 0)
          /\ PlacesIn(old, queued, eaten, gone, u) \in Nat
      BY <1>7, <3>2
    <3>4. next \in Int /\ u \in Int
      BY <1>2
    <3> QED BY <3>1, <3>2, <3>3, <3>4
  <2> QED BY <2>1 DEF UnitsInPlaces, new
<1> QED BY <1>8, <1>9, <1>10 DEF UnitsRight, pc2, mine2

\* A producer enqueues its unit.
LEMMA UnitEnqueued ==
  ASSUME NEW pc, NEW mine, NEW queued, NEW eaten, NEW gone, NEW claimed, NEW next, NEW tokens,
         UnitsRight(pc, mine, queued, eaten, gone, claimed, next, tokens),
         NEW t \in Units!Producers, pc[t] = "enqueue"
  PROVE  UnitsRight([pc EXCEPT ![t] = "post"], mine, Append(queued, mine[t]), eaten, gone, claimed, next, tokens)
<1> DEFINE pc2 == [pc EXCEPT ![t] = "post"]
           mine2 == mine
           old == UnitsHeld(pc, mine)
           new == UnitsHeld(pc2, mine2)
<1>1. /\ UnitTypes(pc, mine, queued, eaten, gone, claimed, next, tokens) /\ t \in Units!Threads
      /\ UnitsInNumbers(pc, mine, queued, eaten, gone, claimed, next, tokens)
      /\ UnitsInPlaces(pc, mine, queued, eaten, gone, next)
  BY UnitThreads DEF UnitsRight
<1>2. /\ pc \in [Units!Threads -> {"unborn", "claim", "enqueue", "post", "wait", "dequeue", "consume", "done"}]
      /\ mine \in [Units!Threads -> 0 .. unit_count]
      /\ queued \in Seq(1 .. unit_count) /\ eaten \in Seq(0 .. unit_count) /\ gone \subseteq 1 .. unit_count
      /\ next \in 0 .. unit_count /\ unit_count \in Nat
      /\ mine[t] \in 1 .. unit_count
  BY <1>1, UnitThreads DEF UnitTypes
<1>3. /\ \A s \in Units!Threads : pc2[s] = IF s = t THEN "post" ELSE pc[s]
      /\ pc2 \in [Units!Threads -> {"unborn", "claim", "enqueue", "post", "wait", "dequeue", "consume", "done"}]
      /\ mine2 \in [Units!Threads -> 0 .. unit_count]
      /\ \A s \in Units!Threads : s # t => mine2[s] = mine[s]
      /\ mine2[t] = mine[t] /\ mine[t] \in 0 .. unit_count
  <2>1. mine[t] \in 0 .. unit_count
    BY <1>2
  <2> QED BY <1>1, <1>2, <2>1
<1>4. /\ \A s \in Units!Threads : s # t => new[s] = old[s]
      /\ old[t] = mine[t] /\ new[t] = -1
  BY <1>1, <1>2, <1>3 DEF UnitsHeld
<1> HIDE DEF pc2, mine2, old, new
<1>5. \A u : /\ HeldBy(old, u) \in Nat
             /\ HeldBy(new, u) = HeldBy(old, u) + (IF new[t] = u THEN 1 ELSE 0) - (IF old[t] = u THEN 1 ELSE 0)
             /\ old[t] = u => HeldBy(old, u) > 0
  <2>1. \A s \in Units!Threads : s # t => new[s] = old[s]
    BY <1>4
  <2> QED BY <1>1, <2>1, UnitChangesHands, Zenon
<1>6. /\ \A u : Occurs(queued, u) \in Nat /\ Occurs(eaten, u) \in Nat
      /\ \A u : Occurs(Append(queued, mine[t]), u) = Occurs(queued, u) + (IF mine[t] = u THEN 1 ELSE 0)
      /\ Len(Append(queued, mine[t])) = Len(queued) + 1
  <2>1. PICK Q : Q = 1 .. unit_count
    OBVIOUS
  <2>2. PICK B : B = 0 .. unit_count
    OBVIOUS
  <2>3. queued \in Seq(Q) /\ eaten \in Seq(B) /\ 1 \in Q /\ 0 \in B
    BY <1>2, <2>1, <2>2, UnitThreads
  <2>4. \A u : Occurs(queued, u) \in Nat /\ Occurs(eaten, u) \in Nat
    BY <2>3, OccursAppend
  <2>5. mine[t] \in Q
    BY <1>2, <2>1
  <2>6. \A u : Occurs(Append(queued, mine[t]), u) = Occurs(queued, u) + (IF mine[t] = u THEN 1 ELSE 0)
    BY <2>3, <2>5, OccursAppend
  <2>7. Len(Append(queued, mine[t])) = Len(queued) + 1
    BY <1>2
  <2> QED BY <2>4, <2>6, <2>7
<1>7. \A u \in 0 .. unit_count :
        /\ PlacesIn(new, Append(queued, mine[t]), eaten, gone, u) = PlacesIn(old, queued, eaten, gone, u) + 0
        /\ PlacesIn(old, queued, eaten, gone, u) \in Nat
  <2> SUFFICES ASSUME NEW u \in 0 .. unit_count
               PROVE  /\ PlacesIn(new, Append(queued, mine[t]), eaten, gone, u) = PlacesIn(old, queued, eaten, gone, u) + 0
                      /\ PlacesIn(old, queued, eaten, gone, u) \in Nat
    OBVIOUS
  <2>1. -1 # u /\ u \in Int
    BY <1>2
  <2>2. /\ HeldBy(old, u) \in Nat
        /\ HeldBy(new, u) = HeldBy(old, u) + (IF -1 = u THEN 1 ELSE 0) - (IF mine[t] = u THEN 1 ELSE 0)
    BY <1>4, <1>5
  <2>3. /\ Occurs(queued, u) \in Nat /\ Occurs(eaten, u) \in Nat
        /\ Occurs(Append(queued, mine[t]), u) = Occurs(queued, u) + (IF mine[t] = u THEN 1 ELSE 0)
    BY <1>6
  <2>4. PlacesIn(old, queued, eaten, gone, u) =
          HeldBy(old, u) + Occurs(queued, u) + Occurs(eaten, u) + (IF u \in gone THEN 1 ELSE 0)
    BY PlacesOfHeld
  <2>5. PlacesIn(new, Append(queued, mine[t]), eaten, gone, u) =
          HeldBy(new, u) + Occurs(Append(queued, mine[t]), u) + Occurs(eaten, u) + (IF u \in gone THEN 1 ELSE 0)
    BY PlacesOfHeld
  <2> QED BY <2>1, <2>2, <2>3, <2>4, <2>5
<1>8. UnitTypes(pc2, mine2, Append(queued, mine[t]), eaten, gone, claimed, next, tokens)
  <2>1. /\ \A p \in Units!Producers : pc2[p] = IF p = t THEN "post" ELSE pc[p]
        /\ \A c \in Units!Consumers : pc2[c] = IF c = t THEN "post" ELSE pc[c]
        /\ \A p \in Units!Producers : p # t => mine2[p] = mine[p]
    BY <1>3, UnitThreads
  <2>2. /\ Append(queued, mine[t]) \in Seq(1 .. unit_count) /\ eaten \in Seq(0 .. unit_count) /\ gone \subseteq 1 .. unit_count
        /\ next \in 0 .. unit_count
    BY <1>2
  <2>3. \A p \in Units!Producers : pc2[p] = "enqueue" => mine2[p] > 0
    <3>1. \A p \in Units!Producers : pc[p] = "enqueue" => mine[p] > 0
      BY <1>1 DEF UnitTypes
    <3> QED BY <1>2, <1>3, <2>1, <3>1, UnitThreads
  <2> QED BY <1>1, <1>3, <2>1, <2>2, <2>3, UnitThreads DEF UnitTypes
<1>9. UnitsInNumbers(pc2, mine2, Append(queued, mine[t]), eaten, gone, claimed, next, tokens)
  <2> DEFINE W(f) == Num(f, {"wait"}, Units!Consumers)
             D(f) == Num(f, {"dequeue"}, Units!Consumers)
             K(f) == Num(f, {"consume"}, Units!Consumers)
             E(f) == Num(f, {"enqueue"}, Units!Producers)
             O(f) == Num(f, {"post"}, Units!Producers)
             z == PlacesIn(old, queued, eaten, gone, 0)
  <2>1. (\A s \in Units!Threads : s # t => pc2[s] = pc[s]) /\ pc2[t] = "post"
    BY <1>1, <1>3
  <2>2. /\ W(pc2) = W(pc) /\ D(pc2) = D(pc) /\ K(pc2) = K(pc) /\ O(pc2) = O(pc) + 1
        /\ E(pc2) = E(pc) - 1 /\ E(pc) > 0
    BY <2>1, ProducerGoes
  <2>3. UnitNumbers(W(pc), D(pc), K(pc), E(pc), O(pc), Len(queued), Len(eaten), Cardinality(gone),
                    z, claimed, next, tokens)
    BY <1>1 DEF UnitsInNumbers, old
  <2>4. PlacesIn(new, Append(queued, mine[t]), eaten, gone, 0) = z
    <3>1. 0 \in 0 .. unit_count
      BY <1>2
    <3>2. PlacesIn(new, Append(queued, mine[t]), eaten, gone, 0) = z + 0 /\ z \in Nat
      BY <1>7, <3>1
    <3> HIDE DEF z
    <3> QED BY <1>2, <3>2
  <2> HIDE DEF W, D, K, E, O, z
  <2>5. UnitNumbers(W(pc2), D(pc2), K(pc2), E(pc2), O(pc2), Len(queued) + 1, Len(eaten), Cardinality(gone),
                    z, claimed, next, tokens)
    BY <1>2, <2>2, <2>3, UnitArithmetic
  <2>6. UnitNumbers(W(pc2), D(pc2), K(pc2), E(pc2), O(pc2), Len(Append(queued, mine[t])), Len(eaten), Cardinality(gone),
                    PlacesIn(new, Append(queued, mine[t]), eaten, gone, 0), claimed, next, tokens)
    BY <1>2, <1>6, <2>4, <2>5
  <2> QED BY <2>6 DEF UnitsInNumbers, new, W, D, K, E, O
<1>10. UnitsInPlaces(pc2, mine2, Append(queued, mine[t]), eaten, gone, next)
  <2>1. \A u \in 1 .. unit_count : PlacesIn(new, Append(queued, mine[t]), eaten, gone, u) = IF u <= next THEN 1 ELSE 0
    <3> SUFFICES ASSUME NEW u \in 1 .. unit_count
                 PROVE  PlacesIn(new, Append(queued, mine[t]), eaten, gone, u) = IF u <= next THEN 1 ELSE 0
      OBVIOUS
    <3>1. PlacesIn(old, queued, eaten, gone, u) = IF u <= next THEN 1 ELSE 0
      BY <1>1 DEF UnitsInPlaces, old
    <3>2. u \in 0 .. unit_count /\ u > 0
      BY <1>2
    <3>3. /\ PlacesIn(new, Append(queued, mine[t]), eaten, gone, u) = PlacesIn(old, queued, eaten, gone, u) + 0
          /\ PlacesIn(old, queued, eaten, gone, u) \in Nat
      BY <1>7, <3>2
    <3>4. next \in Int /\ u \in Int
      BY <1>2
    <3> QED BY <3>1, <3>2, <3>3, <3>4
  <2> QED BY <2>1 DEF UnitsInPlaces, new
<1> QED BY <1>8, <1>9, <1>10 DEF UnitsRight, pc2, mine2

\* The node of the queue for a unit is not allocated.
LEMMA UnitLost ==
  ASSUME NEW pc, NEW mine, NEW queued, NEW eaten, NEW gone, NEW claimed, NEW next, NEW tokens,
         UnitsRight(pc, mine, queued, eaten, gone, claimed, next, tokens),
         NEW t \in Units!Producers, pc[t] = "enqueue"
  PROVE  UnitsRight([pc EXCEPT ![t] = "post"], mine, queued, eaten, (gone \cup {mine[t]}), claimed, next, tokens)
<1> DEFINE pc2 == [pc EXCEPT ![t] = "post"]
           mine2 == mine
           old == UnitsHeld(pc, mine)
           new == UnitsHeld(pc2, mine2)
<1>1. /\ UnitTypes(pc, mine, queued, eaten, gone, claimed, next, tokens) /\ t \in Units!Threads
      /\ UnitsInNumbers(pc, mine, queued, eaten, gone, claimed, next, tokens)
      /\ UnitsInPlaces(pc, mine, queued, eaten, gone, next)
  BY UnitThreads DEF UnitsRight
<1>2. /\ pc \in [Units!Threads -> {"unborn", "claim", "enqueue", "post", "wait", "dequeue", "consume", "done"}]
      /\ mine \in [Units!Threads -> 0 .. unit_count]
      /\ queued \in Seq(1 .. unit_count) /\ eaten \in Seq(0 .. unit_count) /\ gone \subseteq 1 .. unit_count
      /\ next \in 0 .. unit_count /\ unit_count \in Nat
      /\ mine[t] \in 1 .. unit_count
  BY <1>1, UnitThreads DEF UnitTypes
<1>3. /\ \A s \in Units!Threads : pc2[s] = IF s = t THEN "post" ELSE pc[s]
      /\ pc2 \in [Units!Threads -> {"unborn", "claim", "enqueue", "post", "wait", "dequeue", "consume", "done"}]
      /\ mine2 \in [Units!Threads -> 0 .. unit_count]
      /\ \A s \in Units!Threads : s # t => mine2[s] = mine[s]
      /\ mine2[t] = mine[t] /\ mine[t] \in 0 .. unit_count
  <2>1. mine[t] \in 0 .. unit_count
    BY <1>2
  <2> QED BY <1>1, <1>2, <2>1
<1>4. /\ \A s \in Units!Threads : s # t => new[s] = old[s]
      /\ old[t] = mine[t] /\ new[t] = -1
  BY <1>1, <1>2, <1>3 DEF UnitsHeld
<1> HIDE DEF pc2, mine2, old, new
<1>5. \A u : /\ HeldBy(old, u) \in Nat
             /\ HeldBy(new, u) = HeldBy(old, u) + (IF new[t] = u THEN 1 ELSE 0) - (IF old[t] = u THEN 1 ELSE 0)
             /\ old[t] = u => HeldBy(old, u) > 0
  <2>1. \A s \in Units!Threads : s # t => new[s] = old[s]
    BY <1>4
  <2> QED BY <1>1, <2>1, UnitChangesHands, Zenon
<1>6. /\ \A u : Occurs(queued, u) \in Nat /\ Occurs(eaten, u) \in Nat
      /\ mine[t] \notin gone /\ Cardinality(gone \cup {mine[t]}) = Cardinality(gone) + 1
  <2>1. PICK Q : Q = 1 .. unit_count
    OBVIOUS
  <2>2. PICK B : B = 0 .. unit_count
    OBVIOUS
  <2>3. queued \in Seq(Q) /\ eaten \in Seq(B) /\ 1 \in Q /\ 0 \in B
    BY <1>2, <2>1, <2>2, UnitThreads
  <2>4. \A u : Occurs(queued, u) \in Nat /\ Occurs(eaten, u) \in Nat
    BY <2>3, OccursAppend
  <2>5. mine[t] \notin gone
    <3>1. /\ PlacesIn(old, queued, eaten, gone, mine[t]) = IF mine[t] <= next THEN 1 ELSE 0
          /\ PlacesIn(old, queued, eaten, gone, mine[t]) = HeldBy(old, mine[t]) + Occurs(queued, mine[t])
               + Occurs(eaten, mine[t]) + (IF mine[t] \in gone THEN 1 ELSE 0)
      BY <1>1, <1>2, PlacesOfHeld DEF UnitsInPlaces, old
    <3>2. HeldBy(old, mine[t]) \in Nat /\ HeldBy(old, mine[t]) > 0
          /\ Occurs(queued, mine[t]) \in Nat /\ Occurs(eaten, mine[t]) \in Nat
      BY <1>4, <1>5, <2>4
    <3> QED BY <3>1, <3>2
  <2>6. IsFiniteSet(gone)
    <3>1. IsFiniteSet(1 .. unit_count)
      BY <1>2, FS_Interval
    <3> QED BY <1>2, <3>1, FS_Subset
  <2>7. Cardinality(gone \cup {mine[t]}) = Cardinality(gone) + 1
    BY <2>5, <2>6, FS_AddElement
  <2> QED BY <2>4, <2>5, <2>7
<1>7. \A u \in 0 .. unit_count :
        /\ PlacesIn(new, queued, eaten, (gone \cup {mine[t]}), u) = PlacesIn(old, queued, eaten, gone, u) + 0
        /\ PlacesIn(old, queued, eaten, gone, u) \in Nat
  <2> SUFFICES ASSUME NEW u \in 0 .. unit_count
               PROVE  /\ PlacesIn(new, queued, eaten, (gone \cup {mine[t]}), u) = PlacesIn(old, queued, eaten, gone, u) + 0
                      /\ PlacesIn(old, queued, eaten, gone, u) \in Nat
    OBVIOUS
  <2>1. -1 # u /\ u \in Int
    BY <1>2
  <2>2. /\ HeldBy(old, u) \in Nat
        /\ HeldBy(new, u) = HeldBy(old, u) + (IF -1 = u THEN 1 ELSE 0) - (IF mine[t] = u THEN 1 ELSE 0)
    BY <1>4, <1>5
  <2>3. /\ Occurs(queued, u) \in Nat /\ Occurs(eaten, u) \in Nat
        /\ TRUE
    BY <1>6
  <2>4. PlacesIn(old, queued, eaten, gone, u) =
          HeldBy(old, u) + Occurs(queued, u) + Occurs(eaten, u) + (IF u \in gone THEN 1 ELSE 0)
    BY PlacesOfHeld
  <2>5. PlacesIn(new, queued, eaten, (gone \cup {mine[t]}), u) =
          HeldBy(new, u) + Occurs(queued, u) + Occurs(eaten, u) + (IF u \in (gone \cup {mine[t]}) THEN 1 ELSE 0)
    BY PlacesOfHeld
  <2>6. mine[t] \notin gone
    BY <1>6
  <2>7. CASE mine[t] = u
    <3>1. u \in gone \cup {mine[t]} /\ u \notin gone
      BY <2>6, <2>7
    <3> QED BY <2>1, <2>2, <2>3, <2>4, <2>5, <2>7, <3>1
  <2>8. CASE mine[t] # u
    <3>1. u \in gone \cup {mine[t]} <=> u \in gone
      BY <2>8
    <3> QED BY <2>1, <2>2, <2>3, <2>4, <2>5, <2>8, <3>1
  <2> QED BY <2>7, <2>8
<1>8. UnitTypes(pc2, mine2, queued, eaten, (gone \cup {mine[t]}), claimed, next, tokens)
  <2>1. /\ \A p \in Units!Producers : pc2[p] = IF p = t THEN "post" ELSE pc[p]
        /\ \A c \in Units!Consumers : pc2[c] = IF c = t THEN "post" ELSE pc[c]
        /\ \A p \in Units!Producers : p # t => mine2[p] = mine[p]
    BY <1>3, UnitThreads
  <2>2. /\ queued \in Seq(1 .. unit_count) /\ eaten \in Seq(0 .. unit_count) /\ (gone \cup {mine[t]}) \subseteq 1 .. unit_count
        /\ next \in 0 .. unit_count
    BY <1>2
  <2>3. \A p \in Units!Producers : pc2[p] = "enqueue" => mine2[p] > 0
    <3>1. \A p \in Units!Producers : pc[p] = "enqueue" => mine[p] > 0
      BY <1>1 DEF UnitTypes
    <3> QED BY <1>2, <1>3, <2>1, <3>1, UnitThreads
  <2> QED BY <1>1, <1>3, <2>1, <2>2, <2>3, UnitThreads DEF UnitTypes
<1>9. UnitsInNumbers(pc2, mine2, queued, eaten, (gone \cup {mine[t]}), claimed, next, tokens)
  <2> DEFINE W(f) == Num(f, {"wait"}, Units!Consumers)
             D(f) == Num(f, {"dequeue"}, Units!Consumers)
             K(f) == Num(f, {"consume"}, Units!Consumers)
             E(f) == Num(f, {"enqueue"}, Units!Producers)
             O(f) == Num(f, {"post"}, Units!Producers)
             z == PlacesIn(old, queued, eaten, gone, 0)
  <2>1. (\A s \in Units!Threads : s # t => pc2[s] = pc[s]) /\ pc2[t] = "post"
    BY <1>1, <1>3
  <2>2. /\ W(pc2) = W(pc) /\ D(pc2) = D(pc) /\ K(pc2) = K(pc) /\ O(pc2) = O(pc) + 1
        /\ E(pc2) = E(pc) - 1 /\ E(pc) > 0
    BY <2>1, ProducerGoes
  <2>3. UnitNumbers(W(pc), D(pc), K(pc), E(pc), O(pc), Len(queued), Len(eaten), Cardinality(gone),
                    z, claimed, next, tokens)
    BY <1>1 DEF UnitsInNumbers, old
  <2>4. PlacesIn(new, queued, eaten, (gone \cup {mine[t]}), 0) = z
    <3>1. 0 \in 0 .. unit_count
      BY <1>2
    <3>2. PlacesIn(new, queued, eaten, (gone \cup {mine[t]}), 0) = z + 0 /\ z \in Nat
      BY <1>7, <3>1
    <3> HIDE DEF z
    <3> QED BY <1>2, <3>2
  <2> HIDE DEF W, D, K, E, O, z
  <2>5. UnitNumbers(W(pc2), D(pc2), K(pc2), E(pc2), O(pc2), Len(queued), Len(eaten), Cardinality(gone) + 1,
                    z, claimed, next, tokens)
    BY <1>2, <2>2, <2>3, UnitArithmetic
  <2>6. UnitNumbers(W(pc2), D(pc2), K(pc2), E(pc2), O(pc2), Len(queued), Len(eaten), Cardinality((gone \cup {mine[t]})),
                    PlacesIn(new, queued, eaten, (gone \cup {mine[t]}), 0), claimed, next, tokens)
    BY <1>2, <1>6, <2>4, <2>5
  <2> QED BY <2>6 DEF UnitsInNumbers, new, W, D, K, E, O
<1>10. UnitsInPlaces(pc2, mine2, queued, eaten, (gone \cup {mine[t]}), next)
  <2>1. \A u \in 1 .. unit_count : PlacesIn(new, queued, eaten, (gone \cup {mine[t]}), u) = IF u <= next THEN 1 ELSE 0
    <3> SUFFICES ASSUME NEW u \in 1 .. unit_count
                 PROVE  PlacesIn(new, queued, eaten, (gone \cup {mine[t]}), u) = IF u <= next THEN 1 ELSE 0
      OBVIOUS
    <3>1. PlacesIn(old, queued, eaten, gone, u) = IF u <= next THEN 1 ELSE 0
      BY <1>1 DEF UnitsInPlaces, old
    <3>2. u \in 0 .. unit_count /\ u > 0
      BY <1>2
    <3>3. /\ PlacesIn(new, queued, eaten, (gone \cup {mine[t]}), u) = PlacesIn(old, queued, eaten, gone, u) + 0
          /\ PlacesIn(old, queued, eaten, gone, u) \in Nat
      BY <1>7, <3>2
    <3>4. next \in Int /\ u \in Int
      BY <1>2
    <3> QED BY <3>1, <3>2, <3>3, <3>4
  <2> QED BY <2>1 DEF UnitsInPlaces, new
<1> QED BY <1>8, <1>9, <1>10 DEF UnitsRight, pc2, mine2

\* A consumer dequeues a unit.
LEMMA UnitDequeued ==
  ASSUME NEW pc, NEW mine, NEW queued, NEW eaten, NEW gone, NEW claimed, NEW next, NEW tokens,
         UnitsRight(pc, mine, queued, eaten, gone, claimed, next, tokens),
         NEW t \in Units!Consumers, pc[t] = "dequeue", queued # <<>>
  PROVE  UnitsRight([pc EXCEPT ![t] = "consume"], [mine EXCEPT ![t] = Head(queued)], Tail(queued), eaten, gone, claimed, next, tokens)
<1> DEFINE pc2 == [pc EXCEPT ![t] = "consume"]
           mine2 == [mine EXCEPT ![t] = Head(queued)]
           old == UnitsHeld(pc, mine)
           new == UnitsHeld(pc2, mine2)
<1>1. /\ UnitTypes(pc, mine, queued, eaten, gone, claimed, next, tokens) /\ t \in Units!Threads
      /\ UnitsInNumbers(pc, mine, queued, eaten, gone, claimed, next, tokens)
      /\ UnitsInPlaces(pc, mine, queued, eaten, gone, next)
  BY UnitThreads DEF UnitsRight
<1>2. /\ pc \in [Units!Threads -> {"unborn", "claim", "enqueue", "post", "wait", "dequeue", "consume", "done"}]
      /\ mine \in [Units!Threads -> 0 .. unit_count]
      /\ queued \in Seq(1 .. unit_count) /\ eaten \in Seq(0 .. unit_count) /\ gone \subseteq 1 .. unit_count
      /\ next \in 0 .. unit_count /\ unit_count \in Nat
      /\ Head(queued) \in 1 .. unit_count
  BY <1>1, UnitThreads DEF UnitTypes
<1>3. /\ \A s \in Units!Threads : pc2[s] = IF s = t THEN "consume" ELSE pc[s]
      /\ pc2 \in [Units!Threads -> {"unborn", "claim", "enqueue", "post", "wait", "dequeue", "consume", "done"}]
      /\ mine2 \in [Units!Threads -> 0 .. unit_count]
      /\ \A s \in Units!Threads : s # t => mine2[s] = mine[s]
      /\ mine2[t] = Head(queued) /\ Head(queued) \in 0 .. unit_count
  <2>1. Head(queued) \in 0 .. unit_count
    BY <1>2
  <2> QED BY <1>1, <1>2, <2>1
<1>4. /\ \A s \in Units!Threads : s # t => new[s] = old[s]
      /\ old[t] = -1 /\ new[t] = Head(queued)
  BY <1>1, <1>2, <1>3 DEF UnitsHeld
<1> HIDE DEF pc2, mine2, old, new
<1>5. \A u : /\ HeldBy(old, u) \in Nat
             /\ HeldBy(new, u) = HeldBy(old, u) + (IF new[t] = u THEN 1 ELSE 0) - (IF old[t] = u THEN 1 ELSE 0)
             /\ old[t] = u => HeldBy(old, u) > 0
  <2>1. \A s \in Units!Threads : s # t => new[s] = old[s]
    BY <1>4
  <2> QED BY <1>1, <2>1, UnitChangesHands, Zenon
<1>6. /\ \A u : Occurs(queued, u) \in Nat /\ Occurs(eaten, u) \in Nat
      /\ \A u : /\ Occurs(Tail(queued), u) \in Nat
                /\ Occurs(queued, u) = Occurs(Tail(queued), u) + (IF Head(queued) = u THEN 1 ELSE 0)
      /\ Len(Tail(queued)) = Len(queued) - 1 /\ Len(queued) > 0 /\ Len(queued) \in Nat
  <2>1. PICK Q : Q = 1 .. unit_count
    OBVIOUS
  <2>2. PICK B : B = 0 .. unit_count
    OBVIOUS
  <2>3. queued \in Seq(Q) /\ eaten \in Seq(B) /\ 1 \in Q /\ 0 \in B
    BY <1>2, <2>1, <2>2, UnitThreads
  <2>4. \A u : Occurs(queued, u) \in Nat /\ Occurs(eaten, u) \in Nat
    BY <2>3, OccursAppend
  <2>6. \A u : /\ Occurs(Tail(queued), u) \in Nat
               /\ Occurs(queued, u) = Occurs(Tail(queued), u) + (IF Head(queued) = u THEN 1 ELSE 0)
    BY <2>3, OccursTail
  <2>7. Len(Tail(queued)) = Len(queued) - 1 /\ Len(queued) > 0 /\ Len(queued) \in Nat
    BY <1>2
  <2> QED BY <2>4, <2>6, <2>7
<1>7. \A u \in 0 .. unit_count :
        /\ PlacesIn(new, Tail(queued), eaten, gone, u) = PlacesIn(old, queued, eaten, gone, u) + 0
        /\ PlacesIn(old, queued, eaten, gone, u) \in Nat
  <2> SUFFICES ASSUME NEW u \in 0 .. unit_count
               PROVE  /\ PlacesIn(new, Tail(queued), eaten, gone, u) = PlacesIn(old, queued, eaten, gone, u) + 0
                      /\ PlacesIn(old, queued, eaten, gone, u) \in Nat
    OBVIOUS
  <2>1. -1 # u /\ u \in Int
    BY <1>2
  <2>2. /\ HeldBy(old, u) \in Nat
        /\ HeldBy(new, u) = HeldBy(old, u) + (IF Head(queued) = u THEN 1 ELSE 0) - (IF -1 = u THEN 1 ELSE 0)
    BY <1>4, <1>5
  <2>3. /\ Occurs(queued, u) \in Nat /\ Occurs(eaten, u) \in Nat
        /\ Occurs(queued, u) = Occurs(Tail(queued), u) + (IF Head(queued) = u THEN 1 ELSE 0) /\ Occurs(Tail(queued), u) \in Nat
    BY <1>6
  <2>4. PlacesIn(old, queued, eaten, gone, u) =
          HeldBy(old, u) + Occurs(queued, u) + Occurs(eaten, u) + (IF u \in gone THEN 1 ELSE 0)
    BY PlacesOfHeld
  <2>5. PlacesIn(new, Tail(queued), eaten, gone, u) =
          HeldBy(new, u) + Occurs(Tail(queued), u) + Occurs(eaten, u) + (IF u \in gone THEN 1 ELSE 0)
    BY PlacesOfHeld
  <2> QED BY <2>1, <2>2, <2>3, <2>4, <2>5
<1>8. UnitTypes(pc2, mine2, Tail(queued), eaten, gone, claimed, next, tokens)
  <2>1. /\ \A p \in Units!Producers : pc2[p] = IF p = t THEN "consume" ELSE pc[p]
        /\ \A c \in Units!Consumers : pc2[c] = IF c = t THEN "consume" ELSE pc[c]
        /\ \A p \in Units!Producers : p # t => mine2[p] = mine[p]
    BY <1>3, UnitThreads
  <2>2. /\ Tail(queued) \in Seq(1 .. unit_count) /\ eaten \in Seq(0 .. unit_count) /\ gone \subseteq 1 .. unit_count
        /\ next \in 0 .. unit_count
    BY <1>2
  <2>3. \A p \in Units!Producers : pc2[p] = "enqueue" => mine2[p] > 0
    <3>1. \A p \in Units!Producers : pc[p] = "enqueue" => mine[p] > 0
      BY <1>1 DEF UnitTypes
    <3> QED BY <1>2, <1>3, <2>1, <3>1, UnitThreads
  <2> QED BY <1>1, <1>3, <2>1, <2>2, <2>3, UnitThreads DEF UnitTypes
<1>9. UnitsInNumbers(pc2, mine2, Tail(queued), eaten, gone, claimed, next, tokens)
  <2> DEFINE W(f) == Num(f, {"wait"}, Units!Consumers)
             D(f) == Num(f, {"dequeue"}, Units!Consumers)
             K(f) == Num(f, {"consume"}, Units!Consumers)
             E(f) == Num(f, {"enqueue"}, Units!Producers)
             O(f) == Num(f, {"post"}, Units!Producers)
             z == PlacesIn(old, queued, eaten, gone, 0)
  <2>1. (\A s \in Units!Threads : s # t => pc2[s] = pc[s]) /\ pc2[t] = "consume"
    BY <1>1, <1>3
  <2>2. /\ E(pc2) = E(pc) /\ O(pc2) = O(pc) /\ W(pc2) = W(pc) /\ K(pc2) = K(pc) + 1
        /\ D(pc2) = D(pc) - 1 /\ D(pc) > 0
    BY <2>1, ConsumerGoes
  <2>3. UnitNumbers(W(pc), D(pc), K(pc), E(pc), O(pc), Len(queued), Len(eaten), Cardinality(gone),
                    z, claimed, next, tokens)
    BY <1>1 DEF UnitsInNumbers, old
  <2>4. PlacesIn(new, Tail(queued), eaten, gone, 0) = z
    <3>1. 0 \in 0 .. unit_count
      BY <1>2
    <3>2. PlacesIn(new, Tail(queued), eaten, gone, 0) = z + 0 /\ z \in Nat
      BY <1>7, <3>1
    <3> HIDE DEF z
    <3> QED BY <1>2, <3>2
  <2> HIDE DEF W, D, K, E, O, z
  <2>5. UnitNumbers(W(pc2), D(pc2), K(pc2), E(pc2), O(pc2), Len(queued) - 1, Len(eaten), Cardinality(gone),
                    z, claimed, next, tokens)
    BY <1>2, <2>2, <2>3, UnitArithmetic, <1>6
  <2>6. UnitNumbers(W(pc2), D(pc2), K(pc2), E(pc2), O(pc2), Len(Tail(queued)), Len(eaten), Cardinality(gone),
                    PlacesIn(new, Tail(queued), eaten, gone, 0), claimed, next, tokens)
    BY <1>2, <1>6, <2>4, <2>5
  <2> QED BY <2>6 DEF UnitsInNumbers, new, W, D, K, E, O
<1>10. UnitsInPlaces(pc2, mine2, Tail(queued), eaten, gone, next)
  <2>1. \A u \in 1 .. unit_count : PlacesIn(new, Tail(queued), eaten, gone, u) = IF u <= next THEN 1 ELSE 0
    <3> SUFFICES ASSUME NEW u \in 1 .. unit_count
                 PROVE  PlacesIn(new, Tail(queued), eaten, gone, u) = IF u <= next THEN 1 ELSE 0
      OBVIOUS
    <3>1. PlacesIn(old, queued, eaten, gone, u) = IF u <= next THEN 1 ELSE 0
      BY <1>1 DEF UnitsInPlaces, old
    <3>2. u \in 0 .. unit_count /\ u > 0
      BY <1>2
    <3>3. /\ PlacesIn(new, Tail(queued), eaten, gone, u) = PlacesIn(old, queued, eaten, gone, u) + 0
          /\ PlacesIn(old, queued, eaten, gone, u) \in Nat
      BY <1>7, <3>2
    <3>4. next \in Int /\ u \in Int
      BY <1>2
    <3> QED BY <3>1, <3>2, <3>3, <3>4
  <2> QED BY <2>1 DEF UnitsInPlaces, new
<1> QED BY <1>8, <1>9, <1>10 DEF UnitsRight, pc2, mine2

\* A consumer finds the queue empty.
LEMMA NothingDequeued ==
  ASSUME NEW pc, NEW mine, NEW queued, NEW eaten, NEW gone, NEW claimed, NEW next, NEW tokens,
         UnitsRight(pc, mine, queued, eaten, gone, claimed, next, tokens),
         NEW t \in Units!Consumers, pc[t] = "dequeue", queued = <<>>
  PROVE  UnitsRight([pc EXCEPT ![t] = "consume"], [mine EXCEPT ![t] = 0], queued, eaten, gone, claimed, next, tokens)
<1> DEFINE pc2 == [pc EXCEPT ![t] = "consume"]
           mine2 == [mine EXCEPT ![t] = 0]
           old == UnitsHeld(pc, mine)
           new == UnitsHeld(pc2, mine2)
<1>1. /\ UnitTypes(pc, mine, queued, eaten, gone, claimed, next, tokens) /\ t \in Units!Threads
      /\ UnitsInNumbers(pc, mine, queued, eaten, gone, claimed, next, tokens)
      /\ UnitsInPlaces(pc, mine, queued, eaten, gone, next)
  BY UnitThreads DEF UnitsRight
<1>2. /\ pc \in [Units!Threads -> {"unborn", "claim", "enqueue", "post", "wait", "dequeue", "consume", "done"}]
      /\ mine \in [Units!Threads -> 0 .. unit_count]
      /\ queued \in Seq(1 .. unit_count) /\ eaten \in Seq(0 .. unit_count) /\ gone \subseteq 1 .. unit_count
      /\ next \in 0 .. unit_count /\ unit_count \in Nat
      /\ Len(queued) = 0
  BY <1>1, UnitThreads DEF UnitTypes
<1>3. /\ \A s \in Units!Threads : pc2[s] = IF s = t THEN "consume" ELSE pc[s]
      /\ pc2 \in [Units!Threads -> {"unborn", "claim", "enqueue", "post", "wait", "dequeue", "consume", "done"}]
      /\ mine2 \in [Units!Threads -> 0 .. unit_count]
      /\ \A s \in Units!Threads : s # t => mine2[s] = mine[s]
      /\ mine2[t] = 0 /\ 0 \in 0 .. unit_count
  <2>1. 0 \in 0 .. unit_count
    BY <1>2
  <2> QED BY <1>1, <1>2, <2>1
<1>4. /\ \A s \in Units!Threads : s # t => new[s] = old[s]
      /\ old[t] = -1 /\ new[t] = 0
  BY <1>1, <1>2, <1>3 DEF UnitsHeld
<1> HIDE DEF pc2, mine2, old, new
<1>5. \A u : /\ HeldBy(old, u) \in Nat
             /\ HeldBy(new, u) = HeldBy(old, u) + (IF new[t] = u THEN 1 ELSE 0) - (IF old[t] = u THEN 1 ELSE 0)
             /\ old[t] = u => HeldBy(old, u) > 0
  <2>1. \A s \in Units!Threads : s # t => new[s] = old[s]
    BY <1>4
  <2> QED BY <1>1, <2>1, UnitChangesHands, Zenon
<1>6. \A u : Occurs(queued, u) \in Nat /\ Occurs(eaten, u) \in Nat
  <2>1. PICK Q : Q = 1 .. unit_count
    OBVIOUS
  <2>2. PICK B : B = 0 .. unit_count
    OBVIOUS
  <2>3. queued \in Seq(Q) /\ eaten \in Seq(B) /\ 1 \in Q /\ 0 \in B
    BY <1>2, <2>1, <2>2, UnitThreads
  <2> QED BY <2>3, OccursAppend
<1>7. \A u \in 0 .. unit_count :
        /\ PlacesIn(new, queued, eaten, gone, u) = PlacesIn(old, queued, eaten, gone, u) + (IF u = 0 THEN 1 ELSE 0)
        /\ PlacesIn(old, queued, eaten, gone, u) \in Nat
  <2> SUFFICES ASSUME NEW u \in 0 .. unit_count
               PROVE  /\ PlacesIn(new, queued, eaten, gone, u) = PlacesIn(old, queued, eaten, gone, u) + (IF u = 0 THEN 1 ELSE 0)
                      /\ PlacesIn(old, queued, eaten, gone, u) \in Nat
    OBVIOUS
  <2>1. -1 # u /\ u \in Int
    BY <1>2
  <2>2. /\ HeldBy(old, u) \in Nat
        /\ HeldBy(new, u) = HeldBy(old, u) + (IF 0 = u THEN 1 ELSE 0) - (IF -1 = u THEN 1 ELSE 0)
    BY <1>4, <1>5
  <2>3. /\ Occurs(queued, u) \in Nat /\ Occurs(eaten, u) \in Nat
        /\ TRUE
    BY <1>6
  <2>4. PlacesIn(old, queued, eaten, gone, u) =
          HeldBy(old, u) + Occurs(queued, u) + Occurs(eaten, u) + (IF u \in gone THEN 1 ELSE 0)
    BY PlacesOfHeld
  <2>5. PlacesIn(new, queued, eaten, gone, u) =
          HeldBy(new, u) + Occurs(queued, u) + Occurs(eaten, u) + (IF u \in gone THEN 1 ELSE 0)
    BY PlacesOfHeld
  <2> QED BY <2>1, <2>2, <2>3, <2>4, <2>5
<1>8. UnitTypes(pc2, mine2, queued, eaten, gone, claimed, next, tokens)
  <2>1. /\ \A p \in Units!Producers : pc2[p] = IF p = t THEN "consume" ELSE pc[p]
        /\ \A c \in Units!Consumers : pc2[c] = IF c = t THEN "consume" ELSE pc[c]
        /\ \A p \in Units!Producers : p # t => mine2[p] = mine[p]
    BY <1>3, UnitThreads
  <2>2. /\ queued \in Seq(1 .. unit_count) /\ eaten \in Seq(0 .. unit_count) /\ gone \subseteq 1 .. unit_count
        /\ next \in 0 .. unit_count
    BY <1>2
  <2>3. \A p \in Units!Producers : pc2[p] = "enqueue" => mine2[p] > 0
    <3>1. \A p \in Units!Producers : pc[p] = "enqueue" => mine[p] > 0
      BY <1>1 DEF UnitTypes
    <3> QED BY <1>2, <1>3, <2>1, <3>1, UnitThreads
  <2> QED BY <1>1, <1>3, <2>1, <2>2, <2>3, UnitThreads DEF UnitTypes
<1>9. UnitsInNumbers(pc2, mine2, queued, eaten, gone, claimed, next, tokens)
  <2> DEFINE W(f) == Num(f, {"wait"}, Units!Consumers)
             D(f) == Num(f, {"dequeue"}, Units!Consumers)
             K(f) == Num(f, {"consume"}, Units!Consumers)
             E(f) == Num(f, {"enqueue"}, Units!Producers)
             O(f) == Num(f, {"post"}, Units!Producers)
             z == PlacesIn(old, queued, eaten, gone, 0)
  <2>1. (\A s \in Units!Threads : s # t => pc2[s] = pc[s]) /\ pc2[t] = "consume"
    BY <1>1, <1>3
  <2>2. /\ E(pc2) = E(pc) /\ O(pc2) = O(pc) /\ W(pc2) = W(pc) /\ K(pc2) = K(pc) + 1
        /\ D(pc2) = D(pc) - 1 /\ D(pc) > 0
    BY <2>1, ConsumerGoes
  <2>3. UnitNumbers(W(pc), D(pc), K(pc), E(pc), O(pc), Len(queued), Len(eaten), Cardinality(gone),
                    z, claimed, next, tokens)
    BY <1>1 DEF UnitsInNumbers, old
  <2>4. PlacesIn(new, queued, eaten, gone, 0) = z + 1
    <3>1. 0 \in 0 .. unit_count
      BY <1>2
    <3>2. PlacesIn(new, queued, eaten, gone, 0) = z + (IF 0 = 0 THEN 1 ELSE 0) /\ z \in Nat
      BY <1>7, <3>1
    <3> HIDE DEF z
    <3> QED BY <1>2, <3>2
  <2> HIDE DEF W, D, K, E, O, z
  <2>5. UnitNumbers(W(pc2), D(pc2), K(pc2), E(pc2), O(pc2), Len(queued), Len(eaten), Cardinality(gone),
                    z + 1, claimed, next, tokens)
    BY <1>2, <2>2, <2>3, UnitArithmetic
  <2>6. UnitNumbers(W(pc2), D(pc2), K(pc2), E(pc2), O(pc2), Len(queued), Len(eaten), Cardinality(gone),
                    PlacesIn(new, queued, eaten, gone, 0), claimed, next, tokens)
    BY <1>2, <1>6, <2>4, <2>5
  <2> QED BY <2>6 DEF UnitsInNumbers, new, W, D, K, E, O
<1>10. UnitsInPlaces(pc2, mine2, queued, eaten, gone, next)
  <2>1. \A u \in 1 .. unit_count : PlacesIn(new, queued, eaten, gone, u) = IF u <= next THEN 1 ELSE 0
    <3> SUFFICES ASSUME NEW u \in 1 .. unit_count
                 PROVE  PlacesIn(new, queued, eaten, gone, u) = IF u <= next THEN 1 ELSE 0
      OBVIOUS
    <3>1. PlacesIn(old, queued, eaten, gone, u) = IF u <= next THEN 1 ELSE 0
      BY <1>1 DEF UnitsInPlaces, old
    <3>2. u \in 0 .. unit_count /\ u > 0
      BY <1>2
    <3>3. /\ PlacesIn(new, queued, eaten, gone, u) = PlacesIn(old, queued, eaten, gone, u) + (IF u = 0 THEN 1 ELSE 0)
          /\ PlacesIn(old, queued, eaten, gone, u) \in Nat
      BY <1>7, <3>2
    <3>4. next \in Int /\ u \in Int
      BY <1>2
    <3> QED BY <3>1, <3>2, <3>3, <3>4
  <2> QED BY <2>1 DEF UnitsInPlaces, new
<1> QED BY <1>8, <1>9, <1>10 DEF UnitsRight, pc2, mine2

\* A consumer consumes what it dequeued.
LEMMA UnitEaten ==
  ASSUME NEW pc, NEW mine, NEW queued, NEW eaten, NEW gone, NEW claimed, NEW next, NEW tokens,
         UnitsRight(pc, mine, queued, eaten, gone, claimed, next, tokens),
         NEW t \in Units!Consumers, pc[t] = "consume"
  PROVE  UnitsRight([pc EXCEPT ![t] = "claim"], mine, queued, Append(eaten, mine[t]), gone, claimed, next, tokens)
<1> DEFINE pc2 == [pc EXCEPT ![t] = "claim"]
           mine2 == mine
           old == UnitsHeld(pc, mine)
           new == UnitsHeld(pc2, mine2)
<1>1. /\ UnitTypes(pc, mine, queued, eaten, gone, claimed, next, tokens) /\ t \in Units!Threads
      /\ UnitsInNumbers(pc, mine, queued, eaten, gone, claimed, next, tokens)
      /\ UnitsInPlaces(pc, mine, queued, eaten, gone, next)
  BY UnitThreads DEF UnitsRight
<1>2. /\ pc \in [Units!Threads -> {"unborn", "claim", "enqueue", "post", "wait", "dequeue", "consume", "done"}]
      /\ mine \in [Units!Threads -> 0 .. unit_count]
      /\ queued \in Seq(1 .. unit_count) /\ eaten \in Seq(0 .. unit_count) /\ gone \subseteq 1 .. unit_count
      /\ next \in 0 .. unit_count /\ unit_count \in Nat
      /\ mine[t] \in 0 .. unit_count
  BY <1>1, UnitThreads DEF UnitTypes
<1>3. /\ \A s \in Units!Threads : pc2[s] = IF s = t THEN "claim" ELSE pc[s]
      /\ pc2 \in [Units!Threads -> {"unborn", "claim", "enqueue", "post", "wait", "dequeue", "consume", "done"}]
      /\ mine2 \in [Units!Threads -> 0 .. unit_count]
      /\ \A s \in Units!Threads : s # t => mine2[s] = mine[s]
      /\ mine2[t] = mine[t] /\ mine[t] \in 0 .. unit_count
  <2>1. mine[t] \in 0 .. unit_count
    BY <1>2
  <2> QED BY <1>1, <1>2, <2>1
<1>4. /\ \A s \in Units!Threads : s # t => new[s] = old[s]
      /\ old[t] = mine[t] /\ new[t] = -1
  BY <1>1, <1>2, <1>3 DEF UnitsHeld
<1> HIDE DEF pc2, mine2, old, new
<1>5. \A u : /\ HeldBy(old, u) \in Nat
             /\ HeldBy(new, u) = HeldBy(old, u) + (IF new[t] = u THEN 1 ELSE 0) - (IF old[t] = u THEN 1 ELSE 0)
             /\ old[t] = u => HeldBy(old, u) > 0
  <2>1. \A s \in Units!Threads : s # t => new[s] = old[s]
    BY <1>4
  <2> QED BY <1>1, <2>1, UnitChangesHands, Zenon
<1>6. /\ \A u : Occurs(queued, u) \in Nat /\ Occurs(eaten, u) \in Nat
      /\ \A u : Occurs(Append(eaten, mine[t]), u) = Occurs(eaten, u) + (IF mine[t] = u THEN 1 ELSE 0)
      /\ Len(Append(eaten, mine[t])) = Len(eaten) + 1
  <2>1. PICK Q : Q = 1 .. unit_count
    OBVIOUS
  <2>2. PICK B : B = 0 .. unit_count
    OBVIOUS
  <2>3. queued \in Seq(Q) /\ eaten \in Seq(B) /\ 1 \in Q /\ 0 \in B
    BY <1>2, <2>1, <2>2, UnitThreads
  <2>4. \A u : Occurs(queued, u) \in Nat /\ Occurs(eaten, u) \in Nat
    BY <2>3, OccursAppend
  <2>5. mine[t] \in B
    BY <1>2, <2>2
  <2>6. \A u : Occurs(Append(eaten, mine[t]), u) = Occurs(eaten, u) + (IF mine[t] = u THEN 1 ELSE 0)
    BY <2>3, <2>5, OccursAppend
  <2>7. Len(Append(eaten, mine[t])) = Len(eaten) + 1
    BY <1>2
  <2> QED BY <2>4, <2>6, <2>7
<1>7. \A u \in 0 .. unit_count :
        /\ PlacesIn(new, queued, Append(eaten, mine[t]), gone, u) = PlacesIn(old, queued, eaten, gone, u) + 0
        /\ PlacesIn(old, queued, eaten, gone, u) \in Nat
  <2> SUFFICES ASSUME NEW u \in 0 .. unit_count
               PROVE  /\ PlacesIn(new, queued, Append(eaten, mine[t]), gone, u) = PlacesIn(old, queued, eaten, gone, u) + 0
                      /\ PlacesIn(old, queued, eaten, gone, u) \in Nat
    OBVIOUS
  <2>1. -1 # u /\ u \in Int
    BY <1>2
  <2>2. /\ HeldBy(old, u) \in Nat
        /\ HeldBy(new, u) = HeldBy(old, u) + (IF -1 = u THEN 1 ELSE 0) - (IF mine[t] = u THEN 1 ELSE 0)
    BY <1>4, <1>5
  <2>3. /\ Occurs(queued, u) \in Nat /\ Occurs(eaten, u) \in Nat
        /\ Occurs(Append(eaten, mine[t]), u) = Occurs(eaten, u) + (IF mine[t] = u THEN 1 ELSE 0)
    BY <1>6
  <2>4. PlacesIn(old, queued, eaten, gone, u) =
          HeldBy(old, u) + Occurs(queued, u) + Occurs(eaten, u) + (IF u \in gone THEN 1 ELSE 0)
    BY PlacesOfHeld
  <2>5. PlacesIn(new, queued, Append(eaten, mine[t]), gone, u) =
          HeldBy(new, u) + Occurs(queued, u) + Occurs(Append(eaten, mine[t]), u) + (IF u \in gone THEN 1 ELSE 0)
    BY PlacesOfHeld
  <2> QED BY <2>1, <2>2, <2>3, <2>4, <2>5
<1>8. UnitTypes(pc2, mine2, queued, Append(eaten, mine[t]), gone, claimed, next, tokens)
  <2>1. /\ \A p \in Units!Producers : pc2[p] = IF p = t THEN "claim" ELSE pc[p]
        /\ \A c \in Units!Consumers : pc2[c] = IF c = t THEN "claim" ELSE pc[c]
        /\ \A p \in Units!Producers : p # t => mine2[p] = mine[p]
    BY <1>3, UnitThreads
  <2>2. /\ queued \in Seq(1 .. unit_count) /\ Append(eaten, mine[t]) \in Seq(0 .. unit_count) /\ gone \subseteq 1 .. unit_count
        /\ next \in 0 .. unit_count
    BY <1>2
  <2>3. \A p \in Units!Producers : pc2[p] = "enqueue" => mine2[p] > 0
    <3>1. \A p \in Units!Producers : pc[p] = "enqueue" => mine[p] > 0
      BY <1>1 DEF UnitTypes
    <3> QED BY <1>2, <1>3, <2>1, <3>1, UnitThreads
  <2> QED BY <1>1, <1>3, <2>1, <2>2, <2>3, UnitThreads DEF UnitTypes
<1>9. UnitsInNumbers(pc2, mine2, queued, Append(eaten, mine[t]), gone, claimed, next, tokens)
  <2> DEFINE W(f) == Num(f, {"wait"}, Units!Consumers)
             D(f) == Num(f, {"dequeue"}, Units!Consumers)
             K(f) == Num(f, {"consume"}, Units!Consumers)
             E(f) == Num(f, {"enqueue"}, Units!Producers)
             O(f) == Num(f, {"post"}, Units!Producers)
             z == PlacesIn(old, queued, eaten, gone, 0)
  <2>1. (\A s \in Units!Threads : s # t => pc2[s] = pc[s]) /\ pc2[t] = "claim"
    BY <1>1, <1>3
  <2>2. /\ E(pc2) = E(pc) /\ O(pc2) = O(pc) /\ W(pc2) = W(pc) /\ D(pc2) = D(pc)
        /\ K(pc2) = K(pc) - 1 /\ K(pc) > 0
    BY <2>1, ConsumerGoes
  <2>3. UnitNumbers(W(pc), D(pc), K(pc), E(pc), O(pc), Len(queued), Len(eaten), Cardinality(gone),
                    z, claimed, next, tokens)
    BY <1>1 DEF UnitsInNumbers, old
  <2>4. PlacesIn(new, queued, Append(eaten, mine[t]), gone, 0) = z
    <3>1. 0 \in 0 .. unit_count
      BY <1>2
    <3>2. PlacesIn(new, queued, Append(eaten, mine[t]), gone, 0) = z + 0 /\ z \in Nat
      BY <1>7, <3>1
    <3> HIDE DEF z
    <3> QED BY <1>2, <3>2
  <2> HIDE DEF W, D, K, E, O, z
  <2>5. UnitNumbers(W(pc2), D(pc2), K(pc2), E(pc2), O(pc2), Len(queued), Len(eaten) + 1, Cardinality(gone),
                    z, claimed, next, tokens)
    BY <1>2, <2>2, <2>3, UnitArithmetic
  <2>6. UnitNumbers(W(pc2), D(pc2), K(pc2), E(pc2), O(pc2), Len(queued), Len(Append(eaten, mine[t])), Cardinality(gone),
                    PlacesIn(new, queued, Append(eaten, mine[t]), gone, 0), claimed, next, tokens)
    BY <1>2, <1>6, <2>4, <2>5
  <2> QED BY <2>6 DEF UnitsInNumbers, new, W, D, K, E, O
<1>10. UnitsInPlaces(pc2, mine2, queued, Append(eaten, mine[t]), gone, next)
  <2>1. \A u \in 1 .. unit_count : PlacesIn(new, queued, Append(eaten, mine[t]), gone, u) = IF u <= next THEN 1 ELSE 0
    <3> SUFFICES ASSUME NEW u \in 1 .. unit_count
                 PROVE  PlacesIn(new, queued, Append(eaten, mine[t]), gone, u) = IF u <= next THEN 1 ELSE 0
      OBVIOUS
    <3>1. PlacesIn(old, queued, eaten, gone, u) = IF u <= next THEN 1 ELSE 0
      BY <1>1 DEF UnitsInPlaces, old
    <3>2. u \in 0 .. unit_count /\ u > 0
      BY <1>2
    <3>3. /\ PlacesIn(new, queued, Append(eaten, mine[t]), gone, u) = PlacesIn(old, queued, eaten, gone, u) + 0
          /\ PlacesIn(old, queued, eaten, gone, u) \in Nat
      BY <1>7, <3>2
    <3>4. next \in Int /\ u \in Int
      BY <1>2
    <3> QED BY <3>1, <3>2, <3>3, <3>4
  <2> QED BY <2>1 DEF UnitsInPlaces, new
<1> QED BY <1>8, <1>9, <1>10 DEF UnitsRight, pc2, mine2

\* The state of the program, as above.
UnitsState == UnitsRight(unit_pc, my_unit, queue, consuming, lost, consumed_count, next_unit, units_to_consume)

LEMMA UnitPlacesAre ==
  Units!TypeOK => \A u \in Nat :
    Units!Places(u) = PlacesIn(UnitsHeld(unit_pc, my_unit), queue, consuming, lost, u)
<1> SUFFICES ASSUME Units!TypeOK, NEW u \in Nat
             PROVE  Units!Places(u) = PlacesIn(UnitsHeld(unit_pc, my_unit), queue, consuming, lost, u)
  OBVIOUS
<1> DEFINE held == UnitsHeld(unit_pc, my_unit)
<1>1. \A S : Units!Cardinality(S) = Cardinality(S)
  BY DEF Units!Cardinality, Cardinality
<1>2. \A t \in Units!Threads : held[t] = IF unit_pc[t] \in {"enqueue", "consume"} THEN my_unit[t] ELSE -1
  BY DEF UnitsHeld
<1>3. /\ \A t \in Units!Producers : t \in Units!Threads /\ unit_pc[t] # "consume"
      /\ \A t \in Units!Consumers : t \in Units!Threads /\ unit_pc[t] # "enqueue"
  BY UnitThreads DEF Units!TypeOK
<1> HIDE DEF held
<1>4. -1 # u
  OBVIOUS
<1>5. Units!Holders(u, "enqueue", Units!Producers) = {t \in Units!Producers : held[t] \in {u}}
  BY <1>2, <1>3, <1>4 DEF Units!Holders
<1>6. Units!Holders(u, "consume", Units!Consumers) = {t \in Units!Consumers : held[t] \in {u}}
  BY <1>2, <1>3, <1>4 DEF Units!Holders
<1>7. /\ Cardinality({i \in DOMAIN queue : queue[i] = u}) = Occurs(queue, u)
      /\ Cardinality({i \in DOMAIN consuming : consuming[i] = u}) = Occurs(consuming, u)
  BY DEF Occurs
<1>8. /\ Cardinality({t \in Units!Producers : held[t] \in {u}}) = Num(held, {u}, Units!Producers)
      /\ Cardinality({t \in Units!Consumers : held[t] \in {u}}) = Num(held, {u}, Units!Consumers)
  BY DEF Num
<1>9. Units!Places(u) =
        Num(held, {u}, Units!Producers) + Occurs(queue, u) + (IF u \in lost THEN 1 ELSE 0)
        + Num(held, {u}, Units!Consumers) + Occurs(consuming, u)
  BY <1>1, <1>5, <1>6, <1>7, <1>8 DEF Units!Places
<1>10. ASSUME Units!TypeOK
       PROVE  /\ Num(held, {u}, Units!Producers) \in Nat /\ Num(held, {u}, Units!Consumers) \in Nat
              /\ Occurs(queue, u) \in Nat /\ Occurs(consuming, u) \in Nat
  <2>1. PICK Q : Q = 1 .. unit_count
    OBVIOUS
  <2>2. PICK B : B = 0 .. unit_count
    OBVIOUS
  <2>3. queue \in Seq(Q) /\ consuming \in Seq(B) /\ 1 \in Q /\ 0 \in B
    BY <1>10, <2>1, <2>2, UnitThreads DEF Units!TypeOK
  <2>4. Occurs(queue, u) \in Nat /\ Occurs(consuming, u) \in Nat
    BY <2>3, OccursAppend
  <2>5. Num(held, {u}, Units!Producers) \in Nat /\ Num(held, {u}, Units!Consumers) \in Nat
    BY UnitThreads, NumAdds
  <2> QED BY <2>4, <2>5
<1>11. PlacesIn(held, queue, consuming, lost, u) =
         Num(held, {u}, Units!Producers) + Num(held, {u}, Units!Consumers)
         + Occurs(queue, u) + Occurs(consuming, u) + (IF u \in lost THEN 1 ELSE 0)
  BY DEF PlacesIn
<1> QED BY <1>9, <1>10, <1>11 DEF held

LEMMA UnitCountsAre ==
  /\ \A S : /\ Units!Count(S, Units!Producers) = Num(unit_pc, S, Units!Producers)
            /\ Units!Count(S, Units!Consumers) = Num(unit_pc, S, Units!Consumers)
            /\ Num(unit_pc, S, Units!Producers) \in Nat /\ Num(unit_pc, S, Units!Consumers) \in Nat
  /\ Num(unit_pc, {"wait", "dequeue", "consume"}, Units!Consumers) =
       Num(unit_pc, {"wait"}, Units!Consumers) + Num(unit_pc, {"dequeue"}, Units!Consumers)
       + Num(unit_pc, {"consume"}, Units!Consumers)
  /\ Num(unit_pc, {"dequeue", "consume"}, Units!Consumers) =
       Num(unit_pc, {"dequeue"}, Units!Consumers) + Num(unit_pc, {"consume"}, Units!Consumers)
  /\ Num(unit_pc, {"enqueue", "post"}, Units!Producers) =
       Num(unit_pc, {"enqueue"}, Units!Producers) + Num(unit_pc, {"post"}, Units!Producers)
<1>1. \A S : Units!Cardinality(S) = Cardinality(S)
  BY DEF Units!Cardinality, Cardinality
<1>2. \A S : /\ Units!Count(S, Units!Producers) = Num(unit_pc, S, Units!Producers)
             /\ Units!Count(S, Units!Consumers) = Num(unit_pc, S, Units!Consumers)
  BY <1>1 DEF Units!Count, Num
<1>3. ASSUME NEW C \in {Units!Producers, Units!Consumers}
      PROVE  /\ \A S : Num(unit_pc, S, C) \in Nat
             /\ \A S, T : S \cap T = {} => Num(unit_pc, S \cup T, C) = Num(unit_pc, S, C) + Num(unit_pc, T, C)
  <2>1. IsFiniteSet(C)
    BY UnitThreads
  <2> QED BY <2>1, NumAdds
<1>4. /\ {"wait"} \cap {"dequeue", "consume"} = {} /\ {"dequeue"} \cap {"consume"} = {}
      /\ {"enqueue"} \cap {"post"} = {}
      /\ {"wait"} \cup {"dequeue", "consume"} = {"wait", "dequeue", "consume"}
      /\ {"dequeue"} \cup {"consume"} = {"dequeue", "consume"}
      /\ {"enqueue"} \cup {"post"} = {"enqueue", "post"}
  OBVIOUS
<1>5. \A S : Num(unit_pc, S, Units!Producers) \in Nat /\ Num(unit_pc, S, Units!Consumers) \in Nat
  BY <1>3
<1>6. Num(unit_pc, {"dequeue"} \cup {"consume"}, Units!Consumers) =
        Num(unit_pc, {"dequeue"}, Units!Consumers) + Num(unit_pc, {"consume"}, Units!Consumers)
  BY <1>3, <1>4
<1>7. Num(unit_pc, {"wait"} \cup {"dequeue", "consume"}, Units!Consumers) =
        Num(unit_pc, {"wait"}, Units!Consumers) + Num(unit_pc, {"dequeue", "consume"}, Units!Consumers)
  BY <1>3, <1>4
<1>8. Num(unit_pc, {"enqueue"} \cup {"post"}, Units!Producers) =
        Num(unit_pc, {"enqueue"}, Units!Producers) + Num(unit_pc, {"post"}, Units!Producers)
  BY <1>3, <1>4
<1>9. Num(unit_pc, {"dequeue", "consume"}, Units!Consumers) =
       Num(unit_pc, {"dequeue"}, Units!Consumers) + Num(unit_pc, {"consume"}, Units!Consumers)
  BY <1>4, <1>6
<1>10. Num(unit_pc, {"wait", "dequeue", "consume"}, Units!Consumers) =
       Num(unit_pc, {"wait"}, Units!Consumers) + Num(unit_pc, {"dequeue"}, Units!Consumers)
       + Num(unit_pc, {"consume"}, Units!Consumers)
  BY <1>4, <1>5, <1>7, <1>9
<1>11. Num(unit_pc, {"enqueue", "post"}, Units!Producers) =
       Num(unit_pc, {"enqueue"}, Units!Producers) + Num(unit_pc, {"post"}, Units!Producers)
  BY <1>4, <1>8
<1> QED BY <1>2, <1>5, <1>9, <1>10, <1>11

\* The part of the invariant that is about the units.
UnitsInvariant ==
  /\ Units!TypeOK
  /\ consumed_count = Len(consuming) + Units!Count({"wait", "dequeue", "consume"}, Units!Consumers)
  /\ Units!TokenInv
  /\ \A u \in 1 .. unit_count : Units!Places(u) = (IF u <= next_unit THEN 1 ELSE 0)
  /\ Units!Places(0) <= Units!Cardinality(lost)

\* What the type invariant says of the units, part by part.
LEMMA UnitTypesAre ==
  Units!TypeOK =>
    /\ UnitTypes(unit_pc, my_unit, queue, consuming, lost, consumed_count, next_unit, units_to_consume)
    /\ queue \in Seq(1 .. unit_count) /\ consuming \in Seq(0 .. unit_count)
    /\ lost \subseteq 1 .. unit_count /\ units_to_consume \in Nat
    /\ next_unit \in 0 .. unit_count /\ consumed_count \in 0 .. unit_count
<1> SUFFICES ASSUME Units!TypeOK
             PROVE  /\ UnitTypes(unit_pc, my_unit, queue, consuming, lost, consumed_count, next_unit, units_to_consume)
                    /\ queue \in Seq(1 .. unit_count) /\ consuming \in Seq(0 .. unit_count)
                    /\ lost \subseteq 1 .. unit_count /\ units_to_consume \in Nat
                    /\ next_unit \in 0 .. unit_count /\ consumed_count \in 0 .. unit_count
  OBVIOUS
<1>1. queue \in Seq(1 .. unit_count)
  BY Zenon DEF Units!TypeOK
<1>2. consuming \in Seq(0 .. unit_count)
  BY Zenon DEF Units!TypeOK
<1>3. lost \subseteq 1 .. unit_count
  BY Zenon DEF Units!TypeOK
<1>4. units_to_consume \in Nat
  BY Zenon DEF Units!TypeOK
<1>5. next_unit \in 0 .. unit_count
  BY Zenon DEF Units!TypeOK
<1>6. consumed_count \in 0 .. unit_count
  BY Zenon DEF Units!TypeOK
<1>7. unit_pc \in [Units!Threads -> {"unborn", "claim", "enqueue", "post", "wait", "dequeue", "consume", "done"}]
  BY Zenon DEF Units!TypeOK
<1>8. my_unit \in [Units!Threads -> 0 .. unit_count]
  BY Zenon DEF Units!TypeOK
<1>9. \A p \in Units!Producers : unit_pc[p] \in {"unborn", "claim", "enqueue", "post", "done"}
  BY Zenon DEF Units!TypeOK
<1>10. \A c \in Units!Consumers : unit_pc[c] \in {"unborn", "claim", "wait", "dequeue", "consume", "done"}
  BY Zenon DEF Units!TypeOK
<1>11. \A p \in Units!Producers : unit_pc[p] = "enqueue" => my_unit[p] > 0
  BY Zenon DEF Units!TypeOK
<1>12. UnitTypes(unit_pc, my_unit, queue, consuming, lost, consumed_count, next_unit, units_to_consume)
  BY Zenon, <1>1, <1>2, <1>3, <1>4, <1>5, <1>6, <1>7, <1>8, <1>9, <1>10, <1>11 DEF UnitTypes
<1> QED BY Zenon, <1>1, <1>2, <1>3, <1>4, <1>5, <1>6, <1>12

LEMMA UnitsInvariantIs ==
  Units!TypeOK => (UnitsInvariant <=> UnitsState)
<1> SUFFICES ASSUME Units!TypeOK PROVE UnitsInvariant <=> UnitsState
  OBVIOUS
<1> DEFINE w == Num(unit_pc, {"wait"}, Units!Consumers)
           d == Num(unit_pc, {"dequeue"}, Units!Consumers)
           k == Num(unit_pc, {"consume"}, Units!Consumers)
           e == Num(unit_pc, {"enqueue"}, Units!Producers)
           o == Num(unit_pc, {"post"}, Units!Producers)
           z == Units!Places(0)
           nq == Len(queue)
           nc == Len(consuming)
           nl == Cardinality(lost)
<1>1. /\ unit_count \in Nat /\ lost \subseteq 1 .. unit_count
      /\ queue \in Seq(1 .. unit_count) /\ consuming \in Seq(0 .. unit_count)
      /\ next_unit \in 0 .. unit_count /\ consumed_count \in 0 .. unit_count /\ units_to_consume \in Nat
  <2>1. unit_count \in Nat
    BY UnitThreads
  <2> QED BY Zenon, <2>1, UnitTypesAre
<1>2. Units!Cardinality(lost) = nl
  BY DEF Units!Cardinality, Cardinality
<1>3. nl \in Nat /\ nq \in Nat /\ nc \in Nat
  <2>1. IsFiniteSet(1 .. unit_count)
    BY <1>1, FS_Interval
  <2>2. IsFiniteSet(lost)
    BY <1>1, <2>1, FS_Subset
  <2>3. nl \in Nat
    BY <2>2, FS_CardinalityType
  <2>4. nq \in Nat /\ nc \in Nat
    BY <1>1
  <2> QED BY <2>3, <2>4
<1>4. UnitTypes(unit_pc, my_unit, queue, consuming, lost, consumed_count, next_unit, units_to_consume)
  BY Zenon, UnitTypesAre
<1>5. \A u \in Nat : /\ Units!Places(u) = PlacesIn(UnitsHeld(unit_pc, my_unit), queue, consuming, lost, u)
                     /\ PlacesIn(UnitsHeld(unit_pc, my_unit), queue, consuming, lost, u) \in Nat
  <2> SUFFICES ASSUME NEW u \in Nat
               PROVE  /\ Units!Places(u) = PlacesIn(UnitsHeld(unit_pc, my_unit), queue, consuming, lost, u)
                      /\ PlacesIn(UnitsHeld(unit_pc, my_unit), queue, consuming, lost, u) \in Nat
    OBVIOUS
  <2> DEFINE held == UnitsHeld(unit_pc, my_unit)
  <2>1. PICK Q : Q = 1 .. unit_count
    OBVIOUS
  <2>2. PICK B : B = 0 .. unit_count
    OBVIOUS
  <2>3. queue \in Seq(Q) /\ consuming \in Seq(B) /\ 1 \in Q /\ 0 \in B
    BY <1>1, <2>1, <2>2, UnitThreads
  <2>4. Occurs(queue, u) \in Nat /\ Occurs(consuming, u) \in Nat
    BY <2>3, OccursAppend
  <2>5. Num(held, {u}, Units!Producers) \in Nat /\ Num(held, {u}, Units!Consumers) \in Nat
    BY UnitThreads, NumAdds
  <2>6. PlacesIn(held, queue, consuming, lost, u) \in Nat
    <3> HIDE DEF held
    <3> QED BY <2>4, <2>5 DEF PlacesIn
  <2> QED BY <2>6, UnitPlacesAre
<1>6. z = PlacesIn(UnitsHeld(unit_pc, my_unit), queue, consuming, lost, 0) /\ z \in Nat
  BY <1>5
<1>7. (\A u \in 1 .. unit_count : Units!Places(u) = (IF u <= next_unit THEN 1 ELSE 0))
      <=> UnitsInPlaces(unit_pc, my_unit, queue, consuming, lost, next_unit)
  <2>1. \A u \in 1 .. unit_count : u \in Nat
    BY <1>1
  <2> QED BY <1>5, <2>1 DEF UnitsInPlaces
<1>8. /\ w \in Nat /\ d \in Nat /\ k \in Nat /\ e \in Nat /\ o \in Nat
      /\ Units!Count({"wait", "dequeue", "consume"}, Units!Consumers) = w + d + k
      /\ Units!Count({"dequeue", "consume"}, Units!Consumers) = d + k
      /\ Units!Count({"dequeue"}, Units!Consumers) = d
      /\ Units!Count({"post"}, Units!Producers) = o
      /\ Units!Count({"enqueue", "post"}, Units!Producers) = e + o
  BY UnitCountsAre
<1>9. Units!TokenInv <=> /\ units_to_consume + d + o = nq + nl - z
                         /\ units_to_consume + (d + k) + nc + (e + o) = next_unit
  <2>1. Units!TokenInv <=>
          /\ units_to_consume + Units!Count({"dequeue"}, Units!Consumers) + Units!Count({"post"}, Units!Producers)
               = nq + Units!Cardinality(lost) - z
          /\ units_to_consume + Units!Count({"dequeue", "consume"}, Units!Consumers) + nc
               + Units!Count({"enqueue", "post"}, Units!Producers) = next_unit
    BY DEF Units!TokenInv
  <2> HIDE DEF w, d, k, e, o, z, nq, nc, nl
  <2>2. /\ units_to_consume + Units!Count({"dequeue"}, Units!Consumers) + Units!Count({"post"}, Units!Producers)
             = units_to_consume + d + o
        /\ nq + Units!Cardinality(lost) - z = nq + nl - z
        /\ units_to_consume + Units!Count({"dequeue", "consume"}, Units!Consumers) + nc
              + Units!Count({"enqueue", "post"}, Units!Producers) = units_to_consume + (d + k) + nc + (e + o)
    BY <1>2, <1>8
  <2> QED BY <2>1, <2>2
<1>10. UnitsInNumbers(unit_pc, my_unit, queue, consuming, lost, consumed_count, next_unit, units_to_consume)
       <=> UnitNumbers(w, d, k, e, o, nq, nc, nl, z, consumed_count, next_unit, units_to_consume)
  BY <1>6 DEF UnitsInNumbers
<1> HIDE DEF w, d, k, e, o, z, nq, nc, nl
<1>11. UnitNumbers(w, d, k, e, o, nq, nc, nl, z, consumed_count, next_unit, units_to_consume)
       <=> /\ consumed_count = nc + (w + d + k)
           /\ units_to_consume + d + o = nq + nl - z
           /\ units_to_consume + (d + k) + nc + (e + o) = next_unit
           /\ z <= nl
  BY <1>1, <1>3, <1>6, <1>8 DEF UnitNumbers
<1>12. UnitsInvariant <=> /\ consumed_count = nc + (w + d + k)
                          /\ Units!TokenInv
                          /\ \A u \in 1 .. unit_count : Units!Places(u) = (IF u <= next_unit THEN 1 ELSE 0)
                          /\ z <= nl
  BY <1>2, <1>8 DEF UnitsInvariant, z, nc
<1> QED BY <1>4, <1>7, <1>9, <1>10, <1>11, <1>12 DEF UnitsState, UnitsRight

LEMMA UnitsInvariantNext == (Units!TypeOK => (UnitsInvariant <=> UnitsState))'
BY UnitsInvariantIs, PTL

\* The types of what the main thread of prod_cons_unbound keeps.
UnitMainTypes ==
  /\ unit_main \in {"create", "rejoin", "released"}
  /\ created_units \in 0 .. producer_count + consumer_count
  /\ missing \subseteq {"producer", "consumer"}

LEMMA UnitsInvariantParts == UnitsInvariant <=> UnitsState /\ UnitMainTypes
<1>1. Units!TypeOK <=>
        /\ UnitTypes(unit_pc, my_unit, queue, consuming, lost, consumed_count, next_unit, units_to_consume)
        /\ UnitMainTypes
  BY DEF Units!TypeOK, UnitTypes, UnitMainTypes
<1>2. UnitsInvariant => Units!TypeOK
  BY DEF UnitsInvariant
<1>3. UnitsState => UnitTypes(unit_pc, my_unit, queue, consuming, lost, consumed_count, next_unit, units_to_consume)
  BY DEF UnitsState, UnitsRight
<1> QED BY <1>1, <1>2, <1>3, UnitsInvariantIs

LEMMA UnitsInvariantPartsNext == (UnitsInvariant <=> UnitsState /\ UnitMainTypes)'
BY UnitsInvariantParts, PTL

\* The threads in the order create_threads makes them.
LEMMA NthThread ==
  /\ \A n \in 1 .. producer_count + consumer_count :
       /\ Units!Nth(n) \in Units!Threads
       /\ Units!Nth(n)[1] = IF n <= producer_count THEN "producer" ELSE "consumer"
       /\ Units!Nth(n) \in Units!Producers <=> n <= producer_count
  /\ \A n, m \in 1 .. producer_count + consumer_count : Units!Nth(n) = Units!Nth(m) => n = m
  /\ \A t \in Units!Threads : \E n \in 1 .. producer_count + consumer_count : t = Units!Nth(n)
<1>1. producer_count \in Nat \ {0} /\ consumer_count \in Nat \ {0}
  BY UnitThreads
<1>2. \A n \in 1 .. producer_count + consumer_count :
        /\ n <= producer_count => Units!Nth(n) = <<"producer", n>> /\ n \in 1 .. producer_count
        /\ ~(n <= producer_count) => /\ Units!Nth(n) = <<"consumer", n - producer_count>>
                                     /\ n - producer_count \in 1 .. consumer_count
  BY <1>1 DEF Units!Nth
<1>3. ASSUME NEW n \in 1 .. producer_count + consumer_count
      PROVE  /\ Units!Nth(n) \in Units!Threads
             /\ Units!Nth(n)[1] = IF n <= producer_count THEN "producer" ELSE "consumer"
             /\ Units!Nth(n) \in Units!Producers <=> n <= producer_count
  <2>1. CASE n <= producer_count
    <3>1. Units!Nth(n) = <<"producer", n>> /\ Units!Nth(n) \in Units!Producers
      BY <1>2, <2>1 DEF Units!Producers
    <3> QED BY <2>1, <3>1, UnitThreads
  <2>2. CASE ~(n <= producer_count)
    <3>1. Units!Nth(n) = <<"consumer", n - producer_count>> /\ Units!Nth(n) \in Units!Consumers
      BY <1>2, <2>2 DEF Units!Consumers
    <3>2. Units!Nth(n) \notin Units!Producers
      BY <3>1, UnitThreads
    <3> QED BY <2>2, <3>1, <3>2, UnitThreads
  <2> QED BY <2>1, <2>2
<1>4. ASSUME NEW n \in 1 .. producer_count + consumer_count,
             NEW m \in 1 .. producer_count + consumer_count, Units!Nth(n) = Units!Nth(m)
      PROVE  n = m
  <2>1. n <= producer_count <=> m <= producer_count
    BY <1>3, <1>4
  <2>2. CASE n <= producer_count
    <3>1. <<"producer", n>> = <<"producer", m>>
      BY <1>2, <1>4, <2>1, <2>2
    <3> QED BY <3>1
  <2>3. CASE ~(n <= producer_count)
    <3>1. <<"consumer", n - producer_count>> = <<"consumer", m - producer_count>>
      BY <1>2, <1>4, <2>1, <2>3
    <3>2. n - producer_count = m - producer_count
      BY <3>1
    <3> QED BY <1>1, <3>2
  <2> QED BY <2>2, <2>3
<1>5. ASSUME NEW t \in Units!Threads
      PROVE  \E n \in 1 .. producer_count + consumer_count : t = Units!Nth(n)
  <2>1. CASE t \in Units!Producers
    <3>1. PICK i \in 1 .. producer_count : t = <<"producer", i>>
      BY <2>1 DEF Units!Producers
    <3>2. i \in 1 .. producer_count + consumer_count /\ Units!Nth(i) = t
      BY <1>1, <3>1 DEF Units!Nth
    <3> QED BY <3>2
  <2>2. CASE t \in Units!Consumers
    <3>1. PICK i \in 1 .. consumer_count : t = <<"consumer", i>>
      BY <2>2 DEF Units!Consumers
    <3>2. /\ producer_count + i \in 1 .. producer_count + consumer_count
          /\ ~(producer_count + i <= producer_count) /\ (producer_count + i) - producer_count = i
      BY <1>1, <3>1
    <3>3. Units!Nth(producer_count + i) = t
      BY <3>1, <3>2 DEF Units!Nth
    <3> QED BY <3>2, <3>3
  <2> QED BY <2>1, <2>2, UnitThreads
<1> QED BY <1>3, <1>4, <1>5

\* When threads end: as in ClaimInv.
UnitClaims ==
  /\ consumed_count > 0 => \E c \in Units!Consumers : unit_pc[c] # "unborn"
  /\ \A c \in Units!Consumers : unit_pc[c] = "done" => consumed_count = unit_count
  /\ \A p \in Units!Producers : unit_pc[p] = "done" => next_unit = unit_count

\* The part of the invariant that is about the threads.
UnitLives == Units!CreatedInv /\ Units!JoinInv /\ UnitClaims

\* A thread that is neither unborn nor done goes on.
LEMMA UnitThreadGoes ==
  ASSUME UnitsInvariant, UnitLives, ~Units!Released,
         NEW t \in Units!Threads, unit_pc[t] \notin {"unborn", "done"},
         NEW to, to # "unborn", Units!GoTo(t, to),
         UNCHANGED <<unit_main, created_units, missing>>,
         next_unit = unit_count => next_unit' = unit_count,
         consumed_count = unit_count => consumed_count' = unit_count,
         t \in Units!Producers =>
           consumed_count' = consumed_count /\ (to = "done" => next_unit' = unit_count),
         t \in Units!Consumers => (to = "done" => consumed_count' = unit_count)
  PROVE  UnitLives'
<1>1. /\ \A s \in Units!Threads : unit_pc'[s] = IF s = t THEN to ELSE unit_pc[s]
  <2>1. unit_pc \in [Units!Threads -> {"unborn", "claim", "enqueue", "post", "wait", "dequeue", "consume", "done"}]
    BY Zenon DEF UnitsInvariant, Units!TypeOK
  <2>2. unit_pc' = [unit_pc EXCEPT ![t] = to]
    BY DEF Units!GoTo
  <2> QED BY <2>1, <2>2
<1>2. Units!CreatedInv'
  <2>1. Units!CreatedInv
    BY DEF UnitLives
  <2>2. ASSUME NEW n \in 1 .. producer_count + consumer_count
        PROVE  IF n > created_units THEN unit_pc'[Units!Nth(n)] = "unborn"
               ELSE Units!Nth(n)[1] \in missing \/ unit_pc'[Units!Nth(n)] # "unborn"
    <3>1. Units!Nth(n) \in Units!Threads
      BY NthThread
    <3>2. IF n > created_units THEN unit_pc[Units!Nth(n)] = "unborn"
          ELSE Units!Nth(n)[1] \in missing \/ unit_pc[Units!Nth(n)] # "unborn"
      BY <2>1 DEF Units!CreatedInv
    <3> QED BY <1>1, <3>1, <3>2
  <2>3. /\ "producer" \in missing => created_units >= producer_count
        /\ "consumer" \in missing => created_units = producer_count + consumer_count
    BY <2>1 DEF Units!CreatedInv
  <2>4. created_units' = created_units /\ missing' = missing
    OBVIOUS
  <2> QED BY <2>2, <2>3, <2>4 DEF Units!CreatedInv, Units!Nth
<1>3. Units!JoinInv'
  <2>1. Units!JoinInv
    BY DEF UnitLives
  <2>2. created_units' = created_units /\ missing' = missing /\ unit_main' = unit_main
    OBVIOUS
  <2>3. ASSUME NEW s \in Units!Threads, s[1] \in missing
        PROVE  unit_pc'[s] \in {"unborn", "done"} \/ (unit_main = "rejoin" /\ s[1] = Units!Nth(created_units)[1])
    <3>1. unit_pc[s] \in {"unborn", "done"} \/ (unit_main = "rejoin" /\ s[1] = Units!Nth(created_units)[1])
      BY <2>1, <2>3 DEF Units!JoinInv, Units!Over
    <3> QED BY <1>1, <3>1
  <2>4. unit_main # "released"
    BY DEF Units!Released
  <2>5. unit_main = "rejoin" => /\ Units!Nth(created_units)[1] \in missing
                                /\ created_units \in {producer_count, producer_count + consumer_count}
    BY <2>1 DEF Units!JoinInv
  <2> QED BY <2>2, <2>3, <2>4, <2>5 DEF Units!JoinInv, Units!Over, Units!Nth, Units!Released
<1>4. UnitClaims'
  <2>1. UnitClaims
    BY DEF UnitLives
  <2>2. /\ \A s \in Units!Producers : s \in Units!Threads /\ s \notin Units!Consumers
        /\ \A s \in Units!Consumers : s \in Units!Threads /\ s \notin Units!Producers
        /\ t \in Units!Producers \/ t \in Units!Consumers
    BY UnitThreads
  <2>3. consumed_count' > 0 => \E c \in Units!Consumers : unit_pc'[c] # "unborn"
    <3>1. CASE t \in Units!Consumers
      BY <1>1, <3>1
    <3>2. CASE t \in Units!Producers
      <4>1. consumed_count > 0 => \E c \in Units!Consumers : unit_pc[c] # "unborn"
        BY <2>1 DEF UnitClaims
      <4> QED BY <1>1, <2>2, <3>2, <4>1
    <3> QED BY <2>2, <3>1, <3>2
  <2>4. \A c \in Units!Consumers : unit_pc'[c] = "done" => consumed_count' = unit_count
    BY <1>1, <2>1, <2>2 DEF UnitClaims
  <2>5. \A p \in Units!Producers : unit_pc'[p] = "done" => next_unit' = unit_count
    BY <1>1, <2>1, <2>2 DEF UnitClaims
  <2> QED BY <2>3, <2>4, <2>5 DEF UnitClaims
<1> QED BY <1>2, <1>3, <1>4 DEF UnitLives

\* A step of a producer.
LEMMA UnitProducerStep ==
  ASSUME UnitsInvariant, UnitLives, ~Units!Released,
         NEW t \in Units!Producers, Units!Producer(t)
  PROVE  UnitsInvariant' /\ UnitLives'
<1>1. /\ UnitsRight(unit_pc, my_unit, queue, consuming, lost, consumed_count, next_unit, units_to_consume)
      /\ UnitMainTypes
  BY UnitsInvariantParts DEF UnitsState
<1>2. /\ t \in Units!Threads /\ t \notin Units!Consumers
      /\ unit_count \in Nat /\ next_unit \in Nat /\ next_unit <= unit_count
  <2>1. next_unit \in 0 .. unit_count
    BY Zenon, UnitTypesAre DEF UnitsInvariant
  <2> QED BY <2>1, UnitThreads
<1>3. /\ unit_main' = unit_main /\ created_units' = created_units /\ missing' = missing
      /\ consumed_count' = consumed_count /\ consuming' = consuming
  BY DEF Units!Producer, Units!TakeUnit, Units!Enqueue, Units!Post, Units!unitMain, Units!claims
<1>4. UnitMainTypes'
  BY <1>1, <1>3 DEF UnitMainTypes
<1>5. CASE Units!TakeUnit(t)
  <2>1. unit_pc[t] = "claim" /\ queue' = queue /\ units_to_consume' = units_to_consume /\ lost' = lost
    BY <1>5 DEF Units!TakeUnit
  <2>2. CASE next_unit < unit_count
    <3>1. next_unit' = next_unit + 1 /\ Units!GoTo(t, "enqueue") /\ my_unit' = [my_unit EXCEPT ![t] = next_unit']
      BY <1>5, <2>2 DEF Units!TakeUnit
    <3>2. my_unit' = [my_unit EXCEPT ![t] = next_unit + 1] /\ unit_pc' = [unit_pc EXCEPT ![t] = "enqueue"]
      BY <3>1 DEF Units!GoTo
    <3>3. UnitsRight([unit_pc EXCEPT ![t] = "enqueue"], [my_unit EXCEPT ![t] = next_unit + 1], queue,
                     consuming, lost, consumed_count, next_unit + 1, units_to_consume)
      BY <1>1, <2>1, <2>2, UnitTaken
    <3>4. UnitsState'
      BY <1>3, <2>1, <3>1, <3>2, <3>3 DEF UnitsState
    <3>5. UnitLives'
      BY <1>2, <1>3, <2>1, <2>2, <3>1, UnitThreadGoes
    <3> QED BY <1>4, <3>4, <3>5, UnitsInvariantPartsNext
  <2>3. CASE ~(next_unit < unit_count)
    <3>1. next_unit' = next_unit /\ Units!GoTo(t, "done") /\ my_unit' = my_unit
      BY <1>5, <2>3 DEF Units!TakeUnit
    <3>2. unit_pc' = [unit_pc EXCEPT ![t] = "done"]
      BY <3>1 DEF Units!GoTo
    <3>3. UnitsRight([unit_pc EXCEPT ![t] = "done"], my_unit, queue,
                     consuming, lost, consumed_count, next_unit, units_to_consume)
      BY <1>1, <2>1, ProducerEnded
    <3>4. UnitsState'
      BY <1>3, <2>1, <3>1, <3>2, <3>3 DEF UnitsState
    <3>5. next_unit' = unit_count
      BY <1>2, <2>3, <3>1
    <3>6. UnitLives'
      BY <1>2, <1>3, <2>1, <3>1, <3>5, UnitThreadGoes
    <3> QED BY <1>4, <3>4, <3>6, UnitsInvariantPartsNext
  <2> QED BY <2>2, <2>3
<1>6. CASE Units!Enqueue(t)
  <2>1. /\ unit_pc[t] = "enqueue" /\ units_to_consume' = units_to_consume
        /\ my_unit' = my_unit /\ next_unit' = next_unit /\ Units!GoTo(t, "post")
    BY <1>6 DEF Units!Enqueue, Units!claims
  <2>2. unit_pc' = [unit_pc EXCEPT ![t] = "post"]
    BY <2>1 DEF Units!GoTo
  <2>3. UnitLives'
    BY <1>2, <1>3, <2>1, UnitThreadGoes
  <2>4. CASE queue' = Append(queue, my_unit[t]) /\ UNCHANGED lost
    <3>1. UnitsRight([unit_pc EXCEPT ![t] = "post"], my_unit, Append(queue, my_unit[t]),
                     consuming, lost, consumed_count, next_unit, units_to_consume)
      BY <1>1, <2>1, UnitEnqueued
    <3>2. UnitsState'
      BY <1>3, <2>1, <2>2, <2>4, <3>1 DEF UnitsState
    <3> QED BY <1>4, <2>3, <3>2, UnitsInvariantPartsNext
  <2>5. CASE lost' = lost \cup {my_unit[t]} /\ UNCHANGED queue
    <3>1. UnitsRight([unit_pc EXCEPT ![t] = "post"], my_unit, queue,
                     consuming, lost \cup {my_unit[t]}, consumed_count, next_unit, units_to_consume)
      BY <1>1, <2>1, UnitLost
    <3>2. UnitsState'
      BY <1>3, <2>1, <2>2, <2>5, <3>1 DEF UnitsState
    <3> QED BY <1>4, <2>3, <3>2, UnitsInvariantPartsNext
  <2> QED BY <1>6, <2>4, <2>5 DEF Units!Enqueue
<1>7. CASE Units!Post(t)
  <2>1. /\ unit_pc[t] = "post" /\ units_to_consume' = units_to_consume + 1 /\ queue' = queue /\ lost' = lost
        /\ my_unit' = my_unit /\ next_unit' = next_unit /\ Units!GoTo(t, "claim")
    BY <1>7 DEF Units!Post, Units!claims
  <2>2. unit_pc' = [unit_pc EXCEPT ![t] = "claim"]
    BY <2>1 DEF Units!GoTo
  <2>3. UnitLives'
    BY <1>2, <1>3, <2>1, UnitThreadGoes
  <2>4. UnitsRight([unit_pc EXCEPT ![t] = "claim"], my_unit, queue,
                   consuming, lost, consumed_count, next_unit, units_to_consume + 1)
    BY <1>1, <2>1, UnitPosted
  <2>5. UnitsState'
    BY <1>3, <2>1, <2>2, <2>4 DEF UnitsState
  <2> QED BY <1>4, <2>3, <2>5, UnitsInvariantPartsNext
<1> QED BY <1>5, <1>6, <1>7 DEF Units!Producer

\* A step of a consumer.
LEMMA UnitConsumerStep ==
  ASSUME UnitsInvariant, UnitLives, ~Units!Released,
         NEW t \in Units!Consumers, Units!Consumer(t)
  PROVE  UnitsInvariant' /\ UnitLives'
<1>1. /\ UnitsRight(unit_pc, my_unit, queue, consuming, lost, consumed_count, next_unit, units_to_consume)
      /\ UnitMainTypes
  BY UnitsInvariantParts DEF UnitsState
<1>2. /\ t \in Units!Threads /\ t \notin Units!Producers
      /\ unit_count \in Nat /\ consumed_count \in Nat /\ consumed_count <= unit_count
      /\ units_to_consume \in Nat
  <2>1. consumed_count \in 0 .. unit_count /\ units_to_consume \in Nat
    BY Zenon, UnitTypesAre DEF UnitsInvariant
  <2> QED BY <2>1, UnitThreads
<1>3. /\ unit_main' = unit_main /\ created_units' = created_units /\ missing' = missing
      /\ next_unit' = next_unit /\ lost' = lost
  BY DEF Units!Consumer, Units!ClaimUnit, Units!Wait, Units!Dequeue, Units!Consume, Units!unitMain, Units!claims
<1>4. UnitMainTypes'
  BY <1>1, <1>3 DEF UnitMainTypes
<1>5. CASE Units!ClaimUnit(t)
  <2>1. /\ unit_pc[t] = "claim" /\ queue' = queue /\ units_to_consume' = units_to_consume
        /\ my_unit' = my_unit /\ consuming' = consuming
    BY <1>5 DEF Units!ClaimUnit
  <2>2. CASE consumed_count < unit_count
    <3>1. consumed_count' = consumed_count + 1 /\ Units!GoTo(t, "wait")
      BY <1>5, <2>2 DEF Units!ClaimUnit
    <3>2. unit_pc' = [unit_pc EXCEPT ![t] = "wait"]
      BY <3>1 DEF Units!GoTo
    <3>3. UnitsRight([unit_pc EXCEPT ![t] = "wait"], my_unit, queue,
                     consuming, lost, consumed_count + 1, next_unit, units_to_consume)
      BY <1>1, <2>1, <2>2, UnitClaimed
    <3>4. UnitsState'
      BY <1>3, <2>1, <3>1, <3>2, <3>3 DEF UnitsState
    <3>5. UnitLives'
      BY <1>2, <1>3, <2>1, <2>2, <3>1, UnitThreadGoes
    <3> QED BY <1>4, <3>4, <3>5, UnitsInvariantPartsNext
  <2>3. CASE ~(consumed_count < unit_count)
    <3>1. consumed_count' = consumed_count /\ Units!GoTo(t, "done")
      BY <1>5, <2>3 DEF Units!ClaimUnit
    <3>2. unit_pc' = [unit_pc EXCEPT ![t] = "done"]
      BY <3>1 DEF Units!GoTo
    <3>3. UnitsRight([unit_pc EXCEPT ![t] = "done"], my_unit, queue,
                     consuming, lost, consumed_count, next_unit, units_to_consume)
      BY <1>1, <2>1, ConsumerEnded
    <3>4. UnitsState'
      BY <1>3, <2>1, <3>1, <3>2, <3>3 DEF UnitsState
    <3>5. consumed_count' = unit_count
      BY <1>2, <2>3, <3>1
    <3>6. UnitLives'
      BY <1>2, <1>3, <2>1, <3>1, <3>5, UnitThreadGoes
    <3> QED BY <1>4, <3>4, <3>6, UnitsInvariantPartsNext
  <2> QED BY <2>2, <2>3
<1>6. CASE Units!Wait(t)
  <2>1. /\ unit_pc[t] = "wait" /\ units_to_consume > 0 /\ units_to_consume' = units_to_consume - 1
        /\ queue' = queue /\ consuming' = consuming /\ consumed_count' = consumed_count
        /\ my_unit' = my_unit /\ Units!GoTo(t, "dequeue")
    BY <1>6 DEF Units!Wait, Units!claims
  <2>2. unit_pc' = [unit_pc EXCEPT ![t] = "dequeue"]
    BY <2>1 DEF Units!GoTo
  <2>3. UnitLives'
    BY <1>2, <1>3, <2>1, UnitThreadGoes
  <2>4. UnitsRight([unit_pc EXCEPT ![t] = "dequeue"], my_unit, queue,
                   consuming, lost, consumed_count, next_unit, units_to_consume - 1)
    BY <1>1, <2>1, UnitAwaited
  <2>5. UnitsState'
    BY <1>3, <2>1, <2>2, <2>4 DEF UnitsState
  <2> QED BY <1>4, <2>3, <2>5, UnitsInvariantPartsNext
<1>7. CASE Units!Dequeue(t)
  <2>1. /\ unit_pc[t] = "dequeue" /\ units_to_consume' = units_to_consume
        /\ consuming' = consuming /\ consumed_count' = consumed_count /\ Units!GoTo(t, "consume")
    BY <1>7 DEF Units!Dequeue, Units!claims
  <2>2. unit_pc' = [unit_pc EXCEPT ![t] = "consume"]
    BY <2>1 DEF Units!GoTo
  <2>3. UnitLives'
    BY <1>2, <1>3, <2>1, UnitThreadGoes
  <2>4. CASE queue = <<>>
    <3>1. my_unit' = [my_unit EXCEPT ![t] = 0] /\ queue' = queue
      BY <1>7, <2>4 DEF Units!Dequeue
    <3>2. UnitsRight([unit_pc EXCEPT ![t] = "consume"], [my_unit EXCEPT ![t] = 0], queue,
                     consuming, lost, consumed_count, next_unit, units_to_consume)
      BY <1>1, <2>1, <2>4, NothingDequeued
    <3>3. UnitsState'
      BY <1>3, <2>1, <2>2, <3>1, <3>2 DEF UnitsState
    <3> QED BY <1>4, <2>3, <3>3, UnitsInvariantPartsNext
  <2>5. CASE queue # <<>>
    <3>1. my_unit' = [my_unit EXCEPT ![t] = Head(queue)] /\ queue' = Tail(queue)
      BY <1>7, <2>5 DEF Units!Dequeue
    <3>2. UnitsRight([unit_pc EXCEPT ![t] = "consume"], [my_unit EXCEPT ![t] = Head(queue)], Tail(queue),
                     consuming, lost, consumed_count, next_unit, units_to_consume)
      BY <1>1, <2>1, <2>5, UnitDequeued
    <3>3. UnitsState'
      BY <1>3, <2>1, <2>2, <3>1, <3>2 DEF UnitsState
    <3> QED BY <1>4, <2>3, <3>3, UnitsInvariantPartsNext
  <2> QED BY <2>4, <2>5
<1>8. CASE Units!Consume(t)
  <2>1. /\ unit_pc[t] = "consume" /\ units_to_consume' = units_to_consume /\ queue' = queue
        /\ my_unit' = my_unit /\ consumed_count' = consumed_count /\ Units!GoTo(t, "claim")
        /\ consuming' = Append(consuming, my_unit[t])
    BY <1>8 DEF Units!Consume, Units!claims
  <2>2. unit_pc' = [unit_pc EXCEPT ![t] = "claim"]
    BY <2>1 DEF Units!GoTo
  <2>3. UnitLives'
    BY <1>2, <1>3, <2>1, UnitThreadGoes
  <2>4. UnitsRight([unit_pc EXCEPT ![t] = "claim"], my_unit, queue,
                   Append(consuming, my_unit[t]), lost, consumed_count, next_unit, units_to_consume)
    BY <1>1, <2>1, UnitEaten
  <2>5. UnitsState'
    BY <1>3, <2>1, <2>2, <2>4 DEF UnitsState
  <2> QED BY <1>4, <2>3, <2>5, UnitsInvariantPartsNext
<1> QED BY <1>5, <1>6, <1>7, <1>8 DEF Units!Consumer

\* What the invariant says once the simulation is destroyed.
LEMMA UnitsAtRelease ==
  UnitsInvariant /\ UnitLives => Units!UnitsConsumedOnce /\ Units!OnlyTheOtherTeamOutlives
<1> SUFFICES ASSUME UnitsInvariant, UnitLives
             PROVE  Units!UnitsConsumedOnce /\ Units!OnlyTheOtherTeamOutlives
  OBVIOUS
<1> DEFINE z == Units!Places(0)
           nl == Units!Cardinality(lost)
           nq == Len(queue)
           nc == Len(consuming)
<1>1. /\ unit_count \in Nat /\ next_unit \in 0 .. unit_count /\ consumed_count \in 0 .. unit_count
      /\ units_to_consume \in Nat /\ nq \in Nat /\ nc \in Nat
  <2>1. /\ queue \in Seq(1 .. unit_count) /\ consuming \in Seq(0 .. unit_count) /\ units_to_consume \in Nat
        /\ next_unit \in 0 .. unit_count /\ consumed_count \in 0 .. unit_count
    BY Zenon, UnitTypesAre DEF UnitsInvariant
  <2> QED BY <2>1, UnitThreads
<1>2. z \in Nat /\ nl \in Nat
  <2>1. unit_count \in Nat /\ lost \subseteq 1 .. unit_count
    BY UnitTypesAre, UnitThreads DEF UnitsInvariant
  <2>2. IsFiniteSet(1 .. unit_count)
    BY <2>1, FS_Interval
  <2>3. IsFiniteSet(lost)
    BY <2>1, <2>2, FS_Subset
  <2>4. nl = Cardinality(lost)
    BY DEF Units!Cardinality, Cardinality
  <2>5. nl \in Nat
    BY <2>3, <2>4, FS_CardinalityType
  <2>6. z \in Nat
    <3> DEFINE held == UnitsHeld(unit_pc, my_unit)
    <3>1. PICK Q : Q = 1 .. unit_count
      OBVIOUS
    <3>2. PICK B : B = 0 .. unit_count
      OBVIOUS
    <3>3. queue \in Seq(Q) /\ consuming \in Seq(B) /\ 1 \in Q /\ 0 \in B
      <4>1. queue \in Seq(1 .. unit_count) /\ consuming \in Seq(0 .. unit_count)
        BY Zenon, UnitTypesAre DEF UnitsInvariant
      <4> QED BY <3>1, <3>2, <4>1, UnitThreads
    <3>4. Occurs(queue, 0) \in Nat /\ Occurs(consuming, 0) \in Nat
      BY <3>3, OccursAppend
    <3>5. Num(held, {0}, Units!Producers) \in Nat /\ Num(held, {0}, Units!Consumers) \in Nat
      BY UnitThreads, NumAdds
    <3>6. PlacesIn(held, queue, consuming, lost, 0) \in Nat
      <4> HIDE DEF held
      <4> QED BY <3>4, <3>5 DEF PlacesIn
    <3>7. z = PlacesIn(held, queue, consuming, lost, 0)
      BY UnitPlacesAre DEF UnitsInvariant
    <3> QED BY <3>6, <3>7
  <2> QED BY <2>5, <2>6
<1>3. \A S : /\ (\A t \in Units!Consumers : unit_pc[t] \notin S) => Units!Count(S, Units!Consumers) = 0
             /\ (\A t \in Units!Producers : unit_pc[t] \notin S) => Units!Count(S, Units!Producers) = 0
  <2>1. \A S : Num(unit_pc, S, Units!Consumers) = 0 <=> \A t \in Units!Consumers : unit_pc[t] \notin S
    BY UnitThreads, NumAdds
  <2>2. \A S : Num(unit_pc, S, Units!Producers) = 0 <=> \A t \in Units!Producers : unit_pc[t] \notin S
    BY UnitThreads, NumAdds
  <2> QED BY <2>1, <2>2, UnitCountsAre
<1>4. ASSUME Units!Released
      PROVE  /\ \A t \in Units!Threads : t[1] \in missing \/ unit_pc[t] # "unborn"
             /\ \A t \in Units!Threads : t[1] \in missing => unit_pc[t] \in {"unborn", "done"}
             /\ missing = {} => \A t \in Units!Threads : unit_pc[t] = "done"
  <2>1. /\ created_units = producer_count + consumer_count
        /\ missing = {} => \A t \in Units!Threads : unit_pc[t] \in {"unborn", "done"}
    BY <1>4 DEF UnitLives, Units!JoinInv, Units!Over
  <2>2. \A t \in Units!Threads : t[1] \in missing => unit_pc[t] \in {"unborn", "done"}
    <3>1. unit_main # "rejoin"
      BY <1>4 DEF Units!Released
    <3> QED BY <3>1 DEF UnitLives, Units!JoinInv, Units!Over
  <2>3. ASSUME NEW t \in Units!Threads
        PROVE  t[1] \in missing \/ unit_pc[t] # "unborn"
    <3>1. PICK n \in 1 .. producer_count + consumer_count : t = Units!Nth(n)
      BY NthThread
    <3>2. IF n > created_units THEN unit_pc[Units!Nth(n)] = "unborn"
          ELSE Units!Nth(n)[1] \in missing \/ unit_pc[Units!Nth(n)] # "unborn"
      BY DEF UnitLives, Units!CreatedInv
    <3>3. ~(n > created_units)
      BY <2>1, UnitThreads
    <3> QED BY <3>1, <3>2, <3>3
  <2> QED BY <2>1, <2>2, <2>3
<1>5. ASSUME Units!Released, missing = {}
      PROVE  z = nl /\ nc = unit_count
  <2>1. /\ \A t \in Units!Consumers : unit_pc[t] = "done"
        /\ \A t \in Units!Producers : unit_pc[t] = "done"
    BY <1>4, <1>5, UnitThreads
  <2>2. \E t \in Units!Consumers : TRUE
    <3>1. <<"consumer", 1>> \in Units!Consumers
      BY UnitThreads DEF Units!Consumers
    <3> QED BY <3>1
  <2>3. \E t \in Units!Producers : TRUE
    <3>1. <<"producer", 1>> \in Units!Producers
      BY UnitThreads DEF Units!Producers
    <3> QED BY <3>1
  <2>4. consumed_count = unit_count /\ next_unit = unit_count
    BY <2>1, <2>2, <2>3 DEF UnitLives, UnitClaims
  <2>5. /\ Units!Count({"wait", "dequeue", "consume"}, Units!Consumers) = 0
        /\ Units!Count({"dequeue", "consume"}, Units!Consumers) = 0
        /\ Units!Count({"dequeue"}, Units!Consumers) = 0
        /\ Units!Count({"enqueue", "post"}, Units!Producers) = 0
        /\ Units!Count({"post"}, Units!Producers) = 0
    BY <1>3, <2>1
  <2>6. /\ consumed_count = nc + Units!Count({"wait", "dequeue", "consume"}, Units!Consumers)
        /\ units_to_consume + Units!Count({"dequeue"}, Units!Consumers) + Units!Count({"post"}, Units!Producers)
             = nq + nl - z
        /\ units_to_consume + Units!Count({"dequeue", "consume"}, Units!Consumers) + nc
             + Units!Count({"enqueue", "post"}, Units!Producers) = next_unit
        /\ z <= nl
    BY DEF UnitsInvariant, Units!TokenInv
  <2> HIDE DEF z, nl, nq, nc
  <2> QED BY <1>1, <1>2, <2>4, <2>5, <2>6
<1>6. ASSUME Units!Released, missing = {"consumer"}, consumed_count > 0
      PROVE  nc = unit_count
  <2>1. \A t \in Units!Consumers : unit_pc[t] \in {"unborn", "done"}
    BY <1>4, <1>6, UnitThreads
  <2>2. Units!Count({"wait", "dequeue", "consume"}, Units!Consumers) = 0
    BY <1>3, <2>1
  <2>3. PICK c \in Units!Consumers : unit_pc[c] # "unborn"
    BY <1>6 DEF UnitLives, UnitClaims
  <2>4. consumed_count = unit_count
    BY <2>1, <2>3 DEF UnitLives, UnitClaims
  <2>5. consumed_count = nc + Units!Count({"wait", "dequeue", "consume"}, Units!Consumers)
    BY DEF UnitsInvariant
  <2> HIDE DEF nc
  <2> QED BY <1>1, <2>2, <2>4, <2>5
<1>7. Units!UnitsConsumedOnce
  BY <1>5 DEF Units!UnitsConsumedOnce, UnitsInvariant
<1>8. Units!OnlyTheOtherTeamOutlives
  BY <1>4, <1>6 DEF Units!OnlyTheOtherTeamOutlives, Units!Over
<1> QED BY <1>7, <1>8

\* What the main thread changes of the threads: their creation only.
LEMMA UnitMainStep ==
  ASSUME UnitsInvariant, UnitLives, Units!MainStep
  PROVE  UnitsInvariant' /\ UnitLives'
<1>1. /\ UnitsRight(unit_pc, my_unit, queue, consuming, lost, consumed_count, next_unit, units_to_consume)
      /\ UnitMainTypes
  BY UnitsInvariantParts DEF UnitsState
<1>2. /\ producer_count \in Nat \ {0} /\ consumer_count \in Nat \ {0}
      /\ created_units \in 0 .. producer_count + consumer_count
      /\ unit_pc \in [Units!Threads -> {"unborn", "claim", "enqueue", "post", "wait", "dequeue", "consume", "done"}]
  <2>1. unit_pc \in [Units!Threads -> {"unborn", "claim", "enqueue", "post", "wait", "dequeue", "consume", "done"}]
    BY Zenon DEF UnitsInvariant, Units!TypeOK
  <2> QED BY <1>1, <2>1, UnitThreads DEF UnitMainTypes
<1>3. /\ my_unit' = my_unit /\ queue' = queue /\ consuming' = consuming /\ lost' = lost
      /\ consumed_count' = consumed_count /\ next_unit' = next_unit /\ units_to_consume' = units_to_consume
  BY DEF Units!MainStep, Units!CreateThread, Units!CreateFails, Units!JoinCreated, Units!Release, Units!claims
<1>4. Units!CreatedInv /\ Units!JoinInv /\ UnitClaims
  BY DEF UnitLives
<1>5. /\ \A n \in 1 .. producer_count + consumer_count :
           IF n > created_units THEN unit_pc[Units!Nth(n)] = "unborn"
           ELSE Units!Nth(n)[1] \in missing \/ unit_pc[Units!Nth(n)] # "unborn"
      /\ "producer" \in missing => created_units >= producer_count
      /\ "consumer" \in missing => created_units = producer_count + consumer_count
  BY <1>4 DEF Units!CreatedInv
<1>6. ASSUME unit_pc' = unit_pc PROVE UnitsState' /\ UnitClaims'
  <2>1. UnitsState'
    BY <1>1, <1>3, <1>6 DEF UnitsState
  <2>2. UnitClaims'
    BY <1>3, <1>4, <1>6 DEF UnitClaims
  <2> QED BY <2>1, <2>2
<1>7. CASE Units!CreateThread
  <2> DEFINE n == created_units + 1
             t == Units!Nth(n)
  <2>1. /\ unit_main = "create" /\ unit_main' = "create" /\ missing' = missing /\ created_units' = n
        /\ created_units < producer_count + consumer_count /\ Units!GoTo(Units!Nth(created_units'), "claim")
    BY <1>7 DEF Units!CreateThread
  <2>2. /\ n \in 1 .. producer_count + consumer_count /\ n > created_units
        /\ n \in 0 .. producer_count + consumer_count
    BY <1>2, <2>1
  <2>3. unit_pc' = [unit_pc EXCEPT ![t] = "claim"]
    BY <2>1 DEF Units!GoTo
  <2>4. /\ t \in Units!Threads /\ unit_pc[t] = "unborn"
        /\ t[1] = (IF n <= producer_count THEN "producer" ELSE "consumer")
    BY <1>5, <2>2, NthThread
  <2>5. /\ \A s \in Units!Threads : unit_pc'[s] = IF s = t THEN "claim" ELSE unit_pc[s]
    <3> HIDE DEF t
    <3> QED BY <1>2, <2>3
  <2>6. t[1] \notin missing
    BY <1>1, <1>2, <1>5, <2>1, <2>4 DEF UnitMainTypes
  <2>7. UnitsState'
    <3>1. UnitsRight([unit_pc EXCEPT ![t] = "claim"], my_unit, queue,
                     consuming, lost, consumed_count, next_unit, units_to_consume)
      <4> HIDE DEF t
      <4>1. CASE t \in Units!Producers
        BY <1>1, <2>4, <4>1, ProducerCreated
      <4>2. CASE t \in Units!Consumers
        BY <1>1, <2>4, <4>2, ConsumerCreated
      <4> QED BY <2>4, <4>1, <4>2, UnitThreads
    <3> QED BY <1>3, <2>3, <3>1 DEF UnitsState
  <2>8. UnitMainTypes'
    BY <1>1, <2>1, <2>2 DEF UnitMainTypes
  <2>9. Units!CreatedInv'
    <3>1. ASSUME NEW m \in 1 .. producer_count + consumer_count
          PROVE  IF m > n THEN unit_pc'[Units!Nth(m)] = "unborn"
                 ELSE Units!Nth(m)[1] \in missing \/ unit_pc'[Units!Nth(m)] # "unborn"
      <4>1. Units!Nth(m) \in Units!Threads
        BY NthThread
      <4>2. CASE m = n
        BY <2>2, <2>5, <4>1, <4>2
      <4>3. CASE m # n
        <5>1. Units!Nth(m) # t
          BY <2>2, <4>3, NthThread
        <5>2. unit_pc'[Units!Nth(m)] = unit_pc[Units!Nth(m)]
          BY <2>5, <4>1, <5>1
        <5>3. m > n <=> m > created_units
          BY <1>2, <4>3
        <5> HIDE DEF n
        <5> QED BY <1>5, <5>2, <5>3
      <4> QED BY <4>2, <4>3
    <3>2. /\ "producer" \in missing => n >= producer_count
          /\ "consumer" \in missing => n = producer_count + consumer_count
      BY <1>2, <1>5, <2>1
    <3> HIDE DEF n
    <3> QED BY <2>1, <3>1, <3>2 DEF Units!CreatedInv, Units!Nth
  <2>10. Units!JoinInv'
    <3>1. ASSUME NEW s \in Units!Threads, s[1] \in missing
          PROVE  unit_pc'[s] \in {"unborn", "done"}
      <4>1. s # t
        BY <2>6, <3>1
      <4>2. unit_pc[s] \in {"unborn", "done"}
        BY <1>4, <2>1, <3>1 DEF Units!JoinInv, Units!Over
      <4> QED BY <2>5, <4>1, <4>2
    <3> QED BY <2>1, <3>1 DEF Units!JoinInv, Units!Over, Units!Released
  <2>11. UnitClaims'
    <3>1. \A s \in Units!Threads : unit_pc'[s] = "unborn" => unit_pc[s] = "unborn"
      BY <2>5
    <3>2. \A s \in Units!Threads : unit_pc'[s] = "done" => unit_pc[s] = "done"
      BY <2>5
    <3> QED BY <1>3, <1>4, <3>1, <3>2, UnitThreads DEF UnitClaims
  <2> QED BY <2>7, <2>8, <2>9, <2>10, <2>11, UnitsInvariantPartsNext DEF UnitLives
<1>8. CASE Units!CreateFails
  <2> DEFINE n == created_units + 1
             m == IF created_units < producer_count THEN producer_count ELSE producer_count + consumer_count
             team == Units!Nth(n)[1]
  <2>1. /\ unit_main = "create" /\ unit_main' = "rejoin" /\ missing' = missing \cup {team}
        /\ created_units' = m /\ unit_pc' = unit_pc /\ created_units + 1 \in UnitCreationMayFail
    BY <1>8 DEF Units!CreateFails
  <2>2. /\ n \in 1 .. producer_count + consumer_count
    BY <2>1, WorkAssumption DEF Units!ArgumentsAssumption
  <2>3. /\ m \in 1 .. producer_count + consumer_count /\ m \in 0 .. producer_count + consumer_count
        /\ m >= n /\ m >= created_units
        /\ m \in {producer_count, producer_count + consumer_count}
        /\ m >= producer_count /\ (n <= producer_count <=> m = producer_count)
        /\ (m <= producer_count <=> m = producer_count)
    BY <1>2, <2>2
  <2>4. team = (IF n <= producer_count THEN "producer" ELSE "consumer")
    BY <2>2, NthThread
  <2>5. Units!Nth(m)[1] = team
    <3>1. Units!Nth(m)[1] = IF m <= producer_count THEN "producer" ELSE "consumer"
      <4> HIDE DEF m
      <4> QED BY <2>3, NthThread
    <3> HIDE DEF m, n, team
    <3> QED BY <2>3, <2>4, <3>1
  <2>6. UnitMainTypes'
    <3>1. missing \cup {team} \subseteq {"producer", "consumer"}
      BY <1>1, <2>4 DEF UnitMainTypes
    <3> HIDE DEF m, team
    <3> QED BY <2>1, <2>3, <3>1 DEF UnitMainTypes
  <2>7. Units!CreatedInv'
    <3>1. ASSUME NEW i \in 1 .. producer_count + consumer_count
          PROVE  IF i > m THEN unit_pc[Units!Nth(i)] = "unborn"
                 ELSE Units!Nth(i)[1] \in missing \cup {team} \/ unit_pc[Units!Nth(i)] # "unborn"
      <4>1. CASE i > m
        <5>1. i > created_units
          BY <1>2, <4>1
        <5> HIDE DEF m, team
        <5> QED BY <1>5, <4>1, <5>1
      <4>2. CASE ~(i > m) /\ i > created_units
        <5>1. i <= producer_count <=> n <= producer_count
          BY <1>2, <2>2, <4>2
        <5>2. Units!Nth(i)[1] = team
          BY <2>4, <5>1, NthThread
        <5> HIDE DEF m, team
        <5> QED BY <4>2, <5>2
      <4>3. CASE ~(i > m) /\ ~(i > created_units)
        <5> HIDE DEF m, team
        <5> QED BY <1>5, <4>3
      <4> QED BY <4>1, <4>2, <4>3
    <3>2. "producer" \in missing \cup {team} => m >= producer_count
      BY <2>3
    <3>3. "consumer" \in missing \cup {team} => m = producer_count + consumer_count
      BY <1>2, <1>5, <2>2, <2>4
    <3> HIDE DEF m, team
    <3> QED BY <2>1, <3>1, <3>2, <3>3 DEF Units!CreatedInv, Units!Nth
  <2>8. Units!JoinInv'
    <3>1. ASSUME NEW s \in Units!Threads, s[1] \in missing \cup {team}
          PROVE  unit_pc[s] \in {"unborn", "done"} \/ s[1] = Units!Nth(m)[1]
      <4>1. CASE s[1] \in missing
        BY <1>4, <2>1, <4>1 DEF Units!JoinInv, Units!Over
      <4>2. CASE s[1] = team
        BY <2>5, <4>2
      <4> QED BY <3>1, <4>1, <4>2
    <3>2. Units!Nth(m)[1] \in missing \cup {team}
      BY <2>5
    <3> HIDE DEF m, team
    <3> QED BY <2>1, <2>3, <3>1, <3>2 DEF Units!JoinInv, Units!Over, Units!Released, Units!Nth
  <2> QED BY <1>6, <2>1, <2>6, <2>7, <2>8, UnitsInvariantPartsNext DEF UnitLives
<1>9. CASE Units!JoinCreated \/ Units!Release
  <2>1. created_units' = created_units /\ missing' = missing /\ unit_pc' = unit_pc
    BY <1>9 DEF Units!JoinCreated, Units!Release
  <2>2. /\ unit_main' \in {"create", "released"}
        /\ unit_main' = "released" => /\ created_units = producer_count + consumer_count
                                      /\ missing = {} => \A t \in Units!Threads : unit_pc[t] \in {"unborn", "done"}
    BY <1>9 DEF Units!JoinCreated, Units!Release, Units!Over
  <2>3. ASSUME NEW s \in Units!Threads, s[1] \in missing
        PROVE  unit_pc[s] \in {"unborn", "done"}
    <3>1. unit_pc[s] \in {"unborn", "done"} \/ (unit_main = "rejoin" /\ s[1] = Units!Nth(created_units)[1])
      BY <1>4, <2>3 DEF Units!JoinInv, Units!Over
    <3>2. unit_main = "rejoin" /\ s[1] = Units!Nth(created_units)[1] => unit_pc[s] \in {"unborn", "done"}
      BY <1>9 DEF Units!JoinCreated, Units!Release, Units!Over
    <3> QED BY <3>1, <3>2
  <2>4. UnitMainTypes'
    BY <1>1, <2>1, <2>2 DEF UnitMainTypes
  <2>5. Units!CreatedInv'
    BY <1>4, <2>1 DEF Units!CreatedInv, Units!Nth
  <2>6. Units!JoinInv'
    BY <2>1, <2>2, <2>3 DEF Units!JoinInv, Units!Over, Units!Released
  <2> QED BY <1>6, <2>1, <2>4, <2>5, <2>6, UnitsInvariantPartsNext DEF UnitLives
<1> QED BY <1>7, <1>8, <1>9 DEF Units!MainStep

LEMMA UnitsStart == Units!Init => UnitsInvariant /\ UnitLives
<1> SUFFICES ASSUME Units!Init PROVE UnitsInvariant /\ UnitLives
  OBVIOUS
<1>1. /\ unit_main = "create" /\ created_units = 0 /\ missing = {}
      /\ unit_pc = [t \in Units!Threads |-> "unborn"]
      /\ my_unit = [t \in Units!Threads |-> 0]
      /\ next_unit = 0 /\ consumed_count = 0
      /\ queue = <<>> /\ units_to_consume = 0
      /\ consuming = <<>> /\ lost = {}
  BY DEF Units!Init
<1>2. /\ unit_count \in Nat \ {0} /\ producer_count \in Nat \ {0} /\ consumer_count \in Nat \ {0}
  BY UnitThreads
<1>3. /\ \A t \in Units!Threads : unit_pc[t] = "unborn" /\ my_unit[t] = 0
      /\ unit_pc \in [Units!Threads -> {"unborn", "claim", "enqueue", "post", "wait", "dequeue", "consume", "done"}]
      /\ my_unit \in [Units!Threads -> 0 .. unit_count]
  BY <1>1, <1>2
<1>4. UnitTypes(unit_pc, my_unit, queue, consuming, lost, consumed_count, next_unit, units_to_consume)
  <2>1. /\ next_unit \in 0 .. unit_count /\ consumed_count \in 0 .. unit_count
        /\ queue \in Seq(1 .. unit_count) /\ units_to_consume \in Nat
        /\ consuming \in Seq(0 .. unit_count) /\ lost \subseteq 1 .. unit_count
    BY <1>1, <1>2
  <2>2. /\ \A p \in Units!Producers : unit_pc[p] = "unborn"
        /\ \A p \in Units!Consumers : unit_pc[p] = "unborn"
    BY <1>3, UnitThreads
  <2>3. /\ \A p \in Units!Producers : unit_pc[p] \in {"unborn", "claim", "enqueue", "post", "done"}
        /\ \A p \in Units!Producers : unit_pc[p] = "enqueue" => my_unit[p] > 0
        /\ \A c \in Units!Consumers : unit_pc[c] \in {"unborn", "claim", "wait", "dequeue", "consume", "done"}
    BY <2>2
  <2> QED BY Zenon, <1>3, <2>1, <2>3 DEF UnitTypes
<1>5. UnitMainTypes
  BY <1>1, <1>2 DEF UnitMainTypes
<1> DEFINE held == UnitsHeld(unit_pc, my_unit)
<1>6. \A t \in Units!Threads : held[t] = -1
  BY <1>3 DEF UnitsHeld
<1>7. /\ \A S : "unborn" \notin S =>
           Num(unit_pc, S, Units!Consumers) = 0 /\ Num(unit_pc, S, Units!Producers) = 0
      /\ \A u \in Nat : Num(held, {u}, Units!Consumers) = 0 /\ Num(held, {u}, Units!Producers) = 0
  <2>1. ASSUME NEW C \in {Units!Producers, Units!Consumers}
        PROVE  /\ \A S : "unborn" \notin S => Num(unit_pc, S, C) = 0
               /\ \A u \in Nat : Num(held, {u}, C) = 0
    <3>1. IsFiniteSet(C) /\ \A t \in C : unit_pc[t] = "unborn" /\ held[t] = -1
      BY <1>3, <1>6, UnitThreads
    <3> HIDE DEF held
    <3>2. \A S : Num(unit_pc, S, C) = 0 <=> \A a \in C : unit_pc[a] \notin S
      BY <3>1, NumAdds
    <3>3. \A S : Num(held, S, C) = 0 <=> \A a \in C : held[a] \notin S
      BY <3>1, NumAdds
    <3>4. \A u \in Nat : -1 \notin {u}
      OBVIOUS
    <3> QED BY <3>1, <3>2, <3>3, <3>4
  <2> QED BY <2>1
<1>8. /\ \A u : Occurs(queue, u) = 0 /\ Occurs(consuming, u) = 0
      /\ Len(queue) = 0 /\ Len(consuming) = 0 /\ Cardinality(lost) = 0
  <2>1. \A u : {i \in DOMAIN queue : queue[i] = u} = {} /\ {i \in DOMAIN consuming : consuming[i] = u} = {}
    BY <1>1
  <2>2. Cardinality({}) = 0
    BY FS_EmptySet
  <2>3. \A u : Occurs(queue, u) = 0 /\ Occurs(consuming, u) = 0
    BY <2>1, <2>2 DEF Occurs
  <2> QED BY <1>1, <2>2, <2>3
<1>9. \A u \in Nat : PlacesIn(held, queue, consuming, lost, u) = 0
  <2>1. \A u : u \notin lost
    BY <1>1
  <2> HIDE DEF held
  <2> QED BY <1>7, <1>8, <2>1 DEF PlacesIn
<1>10. UnitsInNumbers(unit_pc, my_unit, queue, consuming, lost, consumed_count, next_unit, units_to_consume)
  <2>1. /\ Num(unit_pc, {"wait"}, Units!Consumers) = 0 /\ Num(unit_pc, {"dequeue"}, Units!Consumers) = 0
        /\ Num(unit_pc, {"consume"}, Units!Consumers) = 0
        /\ Num(unit_pc, {"enqueue"}, Units!Producers) = 0 /\ Num(unit_pc, {"post"}, Units!Producers) = 0
    BY <1>7
  <2>2. PlacesIn(held, queue, consuming, lost, 0) = 0
    BY <1>9
  <2>3. UnitNumbers(0, 0, 0, 0, 0, 0, 0, 0, 0, 0, 0, 0)
    BY DEF UnitNumbers
  <2> QED BY <1>1, <1>8, <2>1, <2>2, <2>3 DEF UnitsInNumbers
<1>11. UnitsInPlaces(unit_pc, my_unit, queue, consuming, lost, next_unit)
  <2>1. \A u \in 1 .. unit_count : u \in Nat /\ ~(u <= next_unit)
    BY <1>1, <1>2
  <2> QED BY <1>9, <2>1 DEF UnitsInPlaces
<1>12. UnitsInvariant
  BY <1>4, <1>5, <1>10, <1>11, UnitsInvariantParts DEF UnitsState, UnitsRight
<1>13. Units!CreatedInv
  <2>1. \A n \in 1 .. producer_count + consumer_count : n > 0 /\ unit_pc[Units!Nth(n)] = "unborn"
    BY <1>3, NthThread
  <2> QED BY <1>1, <2>1 DEF Units!CreatedInv
<1>14. Units!JoinInv
  BY <1>1 DEF Units!JoinInv, Units!Released
<1>15. UnitClaims
  BY <1>1, <1>3, UnitThreads DEF UnitClaims
<1> QED BY <1>12, <1>13, <1>14, <1>15 DEF UnitLives

LEMMA UnitsStep ==
  UnitsInvariant /\ UnitLives /\ [Units!Next]_(Units!unitVars) => UnitsInvariant' /\ UnitLives'
<1> SUFFICES ASSUME UnitsInvariant, UnitLives, [Units!Next]_(Units!unitVars)
             PROVE  UnitsInvariant' /\ UnitLives'
  OBVIOUS
<1>1. CASE Units!MainStep
  BY <1>1, UnitMainStep
<1>2. ASSUME NEW t \in Units!Threads, Units!ThreadStep(t)
      PROVE  UnitsInvariant' /\ UnitLives'
  <2>1. ~Units!Released
    BY <1>2 DEF Units!ThreadStep
  <2>2. CASE t \in Units!Producers /\ Units!Producer(t)
    BY <2>1, <2>2, UnitProducerStep
  <2>3. CASE t \in Units!Consumers /\ Units!Consumer(t)
    BY <2>1, <2>3, UnitConsumerStep
  <2> QED BY <1>2, <2>2, <2>3 DEF Units!ThreadStep
<1>3. CASE UNCHANGED Units!unitVars
  <2>1. /\ unit_main' = unit_main /\ created_units' = created_units /\ missing' = missing
        /\ unit_pc' = unit_pc /\ my_unit' = my_unit
        /\ next_unit' = next_unit /\ consumed_count' = consumed_count
        /\ queue' = queue /\ units_to_consume' = units_to_consume
        /\ consuming' = consuming /\ lost' = lost
    BY <1>3 DEF Units!unitVars, Units!unitMain, Units!claims
  <2>2. UnitsState' /\ UnitMainTypes'
    BY <2>1, UnitsInvariantParts DEF UnitsState, UnitMainTypes
  <2>3. Units!CreatedInv'
    BY <2>1 DEF UnitLives, Units!CreatedInv, Units!Nth
  <2>4. Units!JoinInv'
    BY <2>1 DEF UnitLives, Units!JoinInv, Units!Over, Units!Released, Units!Nth
  <2>5. UnitClaims'
    BY <2>1 DEF UnitLives, UnitClaims
  <2> QED BY <2>2, <2>3, <2>4, <2>5, UnitsInvariantPartsNext DEF UnitLives
<1> QED BY <1>1, <1>2, <1>3 DEF Units!Next

-----------------------------------------------------------------------------
(* The dishes of dish_stack.                                               *)

\* The stack that main fills, from the bottom, and what is left of it.
LEMMA StackOfDishes ==
  \A k \in Nat : /\ Len([n \in 1 .. k |-> n - 1]) = k
                 /\ [n \in 1 .. k |-> n - 1] = <<>> <=> k = 0
                 /\ k > 0 => /\ [n \in 1 .. k |-> n - 1][k] = k - 1
                             /\ SubSeq([n \in 1 .. k |-> n - 1], 1, k - 1) = [n \in 1 .. k - 1 |-> n - 1]
<1> SUFFICES ASSUME NEW k \in Nat
             PROVE  /\ Len([n \in 1 .. k |-> n - 1]) = k
                    /\ [n \in 1 .. k |-> n - 1] = <<>> <=> k = 0
                    /\ k > 0 => /\ [n \in 1 .. k |-> n - 1][k] = k - 1
                                /\ SubSeq([n \in 1 .. k |-> n - 1], 1, k - 1) = [n \in 1 .. k - 1 |-> n - 1]
  OBVIOUS
<1> DEFINE s == [n \in 1 .. k |-> n - 1]
<1>1. s \in Seq(Int) /\ Len(s) = k
  OBVIOUS
<1>2. s = <<>> <=> k = 0
  BY <1>1, EmptySeq
<1>3. ASSUME k > 0 PROVE s[k] = k - 1
  BY <1>3
<1>4. ASSUME k > 0 PROVE SubSeq(s, 1, k - 1) = [n \in 1 .. k - 1 |-> n - 1]
  <2>1. /\ SubSeq(s, 1, k - 1) = [i \in 1 .. (k - 1) - 1 + 1 |-> s[i + 1 - 1]]
    BY <1>1, <1>4 DEF SubSeq
  <2>2. \A i \in 1 .. k - 1 : i + 1 - 1 = i /\ s[i] = i - 1
    BY <1>4
  <2>3. (k - 1) - 1 + 1 = k - 1
    OBVIOUS
  <2> HIDE DEF s
  <2> QED BY <2>1, <2>2, <2>3
<1> QED BY <1>1, <1>2, <1>3, <1>4

\* The invariant, with the height of the stack.
DishState(k) ==
  /\ Dishes!TypeOK
  /\ k \in Nat /\ dish_stack = [n \in 1 .. k |-> n - 1] /\ Len(dish_stack) = k
  /\ k <= dish_count
  /\ dish_stack = <<>> <=> k = 0

LEMMA DishStateIs == Dishes!IInv => DishState(Len(dish_stack))
<1> SUFFICES ASSUME Dishes!IInv PROVE DishState(Len(dish_stack))
  OBVIOUS
<1>1. Dishes!TypeOK /\ dish_count \in Nat
  BY DEF Dishes!IInv, Dishes!TypeOK
<1>2. Len(dish_stack) \in 0 .. dish_count /\ dish_stack = [n \in 1 .. Len(dish_stack) |-> n - 1]
  BY DEF Dishes!IInv, Dishes!StackInv
<1>3. PICK k : k = Len(dish_stack)
  OBVIOUS
<1>4. k \in Nat /\ k <= dish_count /\ dish_stack = [n \in 1 .. k |-> n - 1]
  BY <1>1, <1>2, <1>3
<1> QED BY <1>1, <1>3, <1>4, StackOfDishes DEF DishState

LEMMA DishesStart == Dishes!Init => Dishes!IInv
<1> SUFFICES ASSUME Dishes!Init PROVE Dishes!IInv
  OBVIOUS
<1>1. /\ dish_main = "read" /\ washer_count = 0 /\ dish_count = 0 /\ dishwashers = 0 /\ dish_joined = 0
      /\ dish_stack = <<>> /\ washer = <<>> /\ dish = <<>> /\ times_washed = <<>> /\ unwashed = -1
  BY DEF Dishes!Init, Dishes!STACK_EMPTY_FLAG
<1>2. /\ 1 .. washer_count = {} /\ Dishes!Dishes = {} /\ Len(dish_stack) = 0
  BY <1>1 DEF Dishes!Dishes
<1>3. /\ washer \in [{} -> {"unborn", "lock", "test", "pop", "wash", "done"}]
      /\ dish \in [{} -> Int] /\ times_washed \in [{} -> Nat]
      /\ dish_stack = [n \in 1 .. 0 |-> n - 1]
  BY <1>1
<1>4. Dishes!TypeOK
  BY <1>1, <1>2, <1>3 DEF Dishes!TypeOK
<1>5. Dishes!HiredInv
  BY <1>1, <1>2 DEF Dishes!HiredInv
<1>6. Dishes!StackInv
  BY <1>1, <1>2, <1>3 DEF Dishes!StackInv
<1> QED BY <1>4, <1>5, <1>6 DEF Dishes!IInv

LEMMA DishesFill ==
  ASSUME Dishes!IInv, Dishes!ReadAndFill PROVE Dishes!IInv'
<1>1. /\ washer_count' \in Nat /\ dish_count' \in Nat
      /\ dish_stack' = [n \in 1 .. dish_count' |-> n - 1]
      /\ times_washed' = [d \in 0 .. dish_count' - 1 |-> 0]
      /\ washer' = [w \in 1 .. washer_count' |-> "unborn"]
      /\ dish' = [w \in 1 .. washer_count' |-> -1]
      /\ dish_main' = "hire" /\ dishwashers' = dishwashers /\ dish_joined' = dish_joined
      /\ unwashed' = unwashed
  BY WorkAssumption DEF Dishes!DishAssumption, Dishes!ReadAndFill, Dishes!STACK_EMPTY_FLAG
<1>2. dishwashers = 0 /\ dish_joined = 0 /\ unwashed \in Int
  <2>1. dish_main = "read"
    BY DEF Dishes!ReadAndFill
  <2> QED BY <2>1 DEF Dishes!IInv, Dishes!TypeOK, Dishes!HiredInv
<1>3. /\ Len(dish_stack') = dish_count' /\ dish_stack' = <<>> <=> dish_count' = 0
  BY <1>1, StackOfDishes
<1>4. Dishes!TypeOK'
  BY <1>1, <1>2 DEF Dishes!TypeOK, Dishes!Dishes
<1>5. Dishes!HiredInv'
  BY <1>1, <1>2 DEF Dishes!HiredInv
<1>6. Dishes!StackInv'
  <2>1. /\ Len(dish_stack') \in 0 .. dish_count'
        /\ dish_stack' = [n \in 1 .. Len(dish_stack') |-> n - 1]
        /\ washer_count' = 0 => Len(dish_stack') = dish_count'
    BY <1>1, <1>3
  <2>2. \A w \in 1 .. washer_count' : washer'[w] = "unborn"
    BY <1>1
  <2>3. \A d \in 0 .. dish_count' - 1 : times_washed'[d] = 0 /\ d < Len(dish_stack')
    <3>1. PICK m : m = dish_count'
      OBVIOUS
    <3>2. m \in Nat /\ Len(dish_stack') = m /\ times_washed' = [d \in 0 .. m - 1 |-> 0]
      BY <1>1, <1>3, <3>1
    <3>3. \A d \in 0 .. m - 1 : times_washed'[d] = 0 /\ d < m
      BY <3>2
    <3> QED BY <3>1, <3>2, <3>3
  <2> QED BY <2>1, <2>2, <2>3 DEF Dishes!StackInv, Dishes!Dishes
<1> QED BY <1>4, <1>5, <1>6 DEF Dishes!IInv

\* A step of a washer that takes and washes nothing, or its creation.
LEMMA WasherMoves ==
  ASSUME Dishes!IInv, NEW w \in 1 .. washer_count, NEW to \in {"lock", "test", "done"},
         washer' = [washer EXCEPT ![w] = to], washer[w] \notin {"wash", "done"},
         to = "test" => \A v \in 1 .. washer_count : washer[v] \notin {"test", "pop"},
         to = "done" => dish_stack = <<>>,
         washer[w] = "unborn" => dishwashers < washer_count /\ w = dishwashers + 1 /\ dishwashers' = dishwashers + 1,
         washer[w] # "unborn" => dishwashers' = dishwashers,
         UNCHANGED <<dish_main, washer_count, dish_count, dish_joined, dish_stack, dish, times_washed, unwashed>>
  PROVE  Dishes!IInv'
<1>1. /\ dish_main' = dish_main /\ washer_count' = washer_count /\ dish_count' = dish_count
      /\ dish_joined' = dish_joined /\ dish_stack' = dish_stack /\ dish' = dish
      /\ times_washed' = times_washed /\ unwashed' = unwashed
  OBVIOUS
<1>2. Dishes!TypeOK /\ Dishes!HiredInv /\ Dishes!StackInv
  BY DEF Dishes!IInv
<1>3. /\ washer \in [1 .. washer_count -> {"unborn", "lock", "test", "pop", "wash", "done"}]
      /\ washer_count \in Nat /\ dishwashers \in 0 .. washer_count /\ dish_joined \in 0 .. dishwashers
  BY <1>2 DEF Dishes!TypeOK
<1>4. /\ \A v \in 1 .. washer_count : washer'[v] = IF v = w THEN to ELSE washer[v]
      /\ washer' \in [1 .. washer_count -> {"unborn", "lock", "test", "pop", "wash", "done"}]
  BY <1>3
<1>5. /\ dishwashers' \in 0 .. washer_count /\ dish_joined \in 0 .. dishwashers'
      /\ \A v \in 1 .. washer_count : v > dishwashers' => v > dishwashers /\ v # w
      /\ \A v \in 1 .. washer_count : v # w /\ v > dishwashers => v > dishwashers'
  <2>1. CASE washer[w] = "unborn"
    BY <1>3, <2>1
  <2>2. CASE washer[w] # "unborn"
    <3>1. ~(w > dishwashers)
      BY <1>2, <2>2 DEF Dishes!HiredInv
    <3> QED BY <1>3, <2>2, <3>1
  <2> QED BY <2>1, <2>2
<1>6. Dishes!TypeOK'
  BY <1>1, <1>2, <1>4, <1>5 DEF Dishes!TypeOK, Dishes!Dishes
<1>7. Dishes!HiredInv'
  <2>1. ASSUME NEW v \in 1 .. washer_count
        PROVE  /\ washer'[v] = "unborn" <=> v > dishwashers'
               /\ v <= dish_joined => washer'[v] = "done"
               /\ washer'[v] = "done" => dish_stack = <<>>
    <3>1. /\ washer[v] = "unborn" <=> v > dishwashers
          /\ v <= dish_joined => washer[v] = "done"
          /\ washer[v] = "done" => dish_stack = <<>>
      BY <1>2 DEF Dishes!HiredInv
    <3>2. CASE v = w
      <4>1. washer'[v] = to
        BY <1>4, <3>2
      <4>2. ~(v > dishwashers')
        BY <1>5, <3>2
      <4> QED BY <3>1, <3>2, <4>1, <4>2
    <3>3. CASE v # w
      BY <1>4, <1>5, <3>1, <3>3
    <3> QED BY <3>2, <3>3
  <2>2. /\ dish_main = "read" => washer_count = 0 /\ dish_count = 0
        /\ dish_main = "returned" => dish_joined = washer_count /\ unwashed = Len(dish_stack)
    BY <1>2 DEF Dishes!HiredInv
  <2> QED BY <1>1, <2>1, <2>2 DEF Dishes!HiredInv
<1>8. Dishes!StackInv'
  <2>1. /\ \A v \in 1 .. washer_count : washer'[v] = "wash" <=> washer[v] = "wash"
        /\ \A v \in 1 .. washer_count : washer'[v] = "pop" => washer[v] = "pop"
    BY <1>4
  <2>2. \A u, v \in 1 .. washer_count :
          washer'[u] \in {"test", "pop"} /\ washer'[v] \in {"test", "pop"} => u = v
    BY <1>2, <1>4 DEF Dishes!StackInv
  <2>3. /\ Len(dish_stack) \in 0 .. dish_count
        /\ dish_stack = [n \in 1 .. Len(dish_stack) |-> n - 1]
        /\ washer_count = 0 => Len(dish_stack) = dish_count
        /\ \A v \in 1 .. washer_count :
             washer'[v] = "pop" => dish_stack # <<>> /\ dish[v] = Len(dish_stack) - 1
    BY <1>2, <2>1 DEF Dishes!StackInv
  <2>4. /\ \A v \in 1 .. washer_count :
             washer'[v] = "wash" => /\ dish[v] \in Len(dish_stack) .. dish_count - 1
                                    /\ times_washed[dish[v]] = 0
        /\ \A u, v \in 1 .. washer_count :
             washer'[u] = "wash" /\ washer'[v] = "wash" /\ dish[u] = dish[v] => u = v
    BY <1>2, <2>1 DEF Dishes!StackInv
  <2>5. \A d \in Dishes!Dishes :
          IF d < Len(dish_stack) THEN times_washed[d] = 0
          ELSE \/ times_washed[d] = 1
               \/ times_washed[d] = 0 /\ \E v \in 1 .. washer_count : washer'[v] = "wash" /\ dish[v] = d
    BY <1>2, <2>1 DEF Dishes!StackInv
  <2> QED BY <1>1, <2>2, <2>3, <2>4, <2>5 DEF Dishes!StackInv, Dishes!Dishes
<1> QED BY <1>6, <1>7, <1>8 DEF Dishes!IInv

\* A washer sees a dish on the stack.
LEMMA WasherSees ==
  ASSUME Dishes!IInv, NEW w \in 1 .. washer_count, washer[w] = "test", dish_stack # <<>>,
         washer' = [washer EXCEPT ![w] = "pop"],
         dish' = [dish EXCEPT ![w] = dish_stack[Len(dish_stack)]],
         UNCHANGED <<dish_main, washer_count, dish_count, dishwashers, dish_joined, dish_stack, times_washed, unwashed>>
  PROVE  Dishes!IInv'
<1>1. /\ dish_main' = dish_main /\ washer_count' = washer_count /\ dish_count' = dish_count
      /\ dish_joined' = dish_joined /\ dishwashers' = dishwashers /\ dish_stack' = dish_stack
      /\ times_washed' = times_washed /\ unwashed' = unwashed
  OBVIOUS
<1>2. Dishes!TypeOK /\ Dishes!HiredInv /\ Dishes!StackInv
  BY DEF Dishes!IInv
<1>3. PICK k : k = Len(dish_stack)
  OBVIOUS
<1>4. /\ k \in Nat /\ k > 0 /\ k - 1 \in Int /\ dish_stack[k] = k - 1
  <2>1. DishState(k)
    BY <1>3, DishStateIs
  <2>2. k \in Nat /\ k # 0 /\ dish_stack = [n \in 1 .. k |-> n - 1]
    BY <2>1 DEF DishState
  <2> QED BY <2>2
<1>5. /\ washer \in [1 .. washer_count -> {"unborn", "lock", "test", "pop", "wash", "done"}]
      /\ dish \in [1 .. washer_count -> Int]
  BY <1>2 DEF Dishes!TypeOK
<1>6. /\ \A v \in 1 .. washer_count : washer'[v] = IF v = w THEN "pop" ELSE washer[v]
      /\ \A v \in 1 .. washer_count : dish'[v] = IF v = w THEN k - 1 ELSE dish[v]
      /\ washer' \in [1 .. washer_count -> {"unborn", "lock", "test", "pop", "wash", "done"}]
      /\ dish' \in [1 .. washer_count -> Int]
  <2>1. dish' = [dish EXCEPT ![w] = k - 1]
    BY <1>3, <1>4
  <2> QED BY <1>4, <1>5, <2>1
<1>7. Dishes!TypeOK'
  BY <1>1, <1>2, <1>6 DEF Dishes!TypeOK, Dishes!Dishes
<1>8. Dishes!HiredInv'
  <2>1. \A v \in 1 .. washer_count : /\ washer'[v] = "unborn" <=> v > dishwashers
                                     /\ v <= dish_joined => washer'[v] = "done"
                                     /\ washer'[v] = "done" => dish_stack = <<>>
    BY <1>2, <1>6 DEF Dishes!HiredInv
  <2>2. /\ dish_main = "read" => washer_count = 0 /\ dish_count = 0
        /\ dish_main = "returned" => dish_joined = washer_count /\ unwashed = Len(dish_stack)
    BY <1>2 DEF Dishes!HiredInv
  <2> QED BY <1>1, <2>1, <2>2 DEF Dishes!HiredInv
<1>9. Dishes!StackInv'
  <2>1. \A v \in 1 .. washer_count : washer'[v] = "wash" <=> washer[v] = "wash" /\ v # w
    BY <1>6
  <2>2. \A u, v \in 1 .. washer_count :
          washer'[u] \in {"test", "pop"} /\ washer'[v] \in {"test", "pop"} => u = v
    BY <1>2, <1>6 DEF Dishes!StackInv
  <2>3. /\ Len(dish_stack) \in 0 .. dish_count
        /\ dish_stack = [n \in 1 .. Len(dish_stack) |-> n - 1]
        /\ washer_count = 0 => Len(dish_stack) = dish_count
    BY <1>2 DEF Dishes!StackInv
  <2>4. \A v \in 1 .. washer_count : washer'[v] = "pop" => dish_stack # <<>> /\ dish'[v] = k - 1
    BY <1>2, <1>3, <1>6 DEF Dishes!StackInv
  <2>5. /\ \A v \in 1 .. washer_count :
             washer'[v] = "wash" => /\ dish'[v] \in k .. dish_count - 1
                                    /\ times_washed[dish'[v]] = 0
        /\ \A u, v \in 1 .. washer_count :
             washer'[u] = "wash" /\ washer'[v] = "wash" /\ dish'[u] = dish'[v] => u = v
    BY <1>2, <1>3, <1>6, <2>1 DEF Dishes!StackInv
  <2>6. \A d \in Dishes!Dishes :
          IF d < k THEN times_washed[d] = 0
          ELSE \/ times_washed[d] = 1
               \/ times_washed[d] = 0 /\ \E v \in 1 .. washer_count : washer'[v] = "wash" /\ dish'[v] = d
    <3>1. \A v \in 1 .. washer_count : washer[v] = "wash" => washer'[v] = "wash" /\ dish'[v] = dish[v]
      BY <1>6
    <3>2. \A d \in Dishes!Dishes :
            IF d < k THEN times_washed[d] = 0
            ELSE \/ times_washed[d] = 1
                 \/ times_washed[d] = 0 /\ \E v \in 1 .. washer_count : washer[v] = "wash" /\ dish[v] = d
      BY <1>2, <1>3 DEF Dishes!StackInv
    <3> QED BY <3>1, <3>2
  <2> QED BY <1>1, <1>3, <2>2, <2>3, <2>4, <2>5, <2>6 DEF Dishes!StackInv, Dishes!Dishes
<1> QED BY <1>7, <1>8, <1>9 DEF Dishes!IInv

LEMMA WasherPops ==
  ASSUME Dishes!IInv, NEW w \in 1 .. washer_count, Dishes!Pop(w)
  PROVE  Dishes!IInv'
<1>1. /\ dish_main' = dish_main /\ washer_count' = washer_count /\ dish_count' = dish_count
      /\ dish_joined' = dish_joined /\ dishwashers' = dishwashers /\ dish' = dish
      /\ times_washed' = times_washed /\ unwashed' = unwashed
      /\ washer[w] = "pop" /\ washer' = [washer EXCEPT ![w] = "wash"]
      /\ dish_stack' = SubSeq(dish_stack, 1, Len(dish_stack) - 1)
  BY DEF Dishes!Pop
<1>2. Dishes!TypeOK /\ Dishes!HiredInv /\ Dishes!StackInv
  BY DEF Dishes!IInv
<1>3. PICK k : k = Len(dish_stack)
  OBVIOUS
<1>4. /\ k \in Nat /\ k > 0 /\ k - 1 \in Nat /\ k <= dish_count /\ dish_count \in Nat /\ dish[w] = k - 1
      /\ dish_stack # <<>>
      /\ dish_stack' = [n \in 1 .. k - 1 |-> n - 1] /\ Len(dish_stack') = k - 1
      /\ \A v \in 1 .. washer_count : washer[v] # "done"
  <2>1. DishState(k)
    BY <1>3, DishStateIs
  <2>2. k \in Nat /\ k <= dish_count /\ dish_stack = [n \in 1 .. k |-> n - 1] /\ (dish_stack = <<>> <=> k = 0)
    BY <2>1 DEF DishState
  <2>3. dish_stack # <<>> /\ dish[w] = k - 1
    BY <1>1, <1>2, <1>3 DEF Dishes!StackInv
  <2>4. dish_stack' = [n \in 1 .. k - 1 |-> n - 1] /\ k - 1 \in Nat
    BY <1>1, <1>3, <2>2, <2>3, StackOfDishes
  <2>5. Len(dish_stack') = k - 1
    BY <2>4, StackOfDishes
  <2>6. \A v \in 1 .. washer_count : washer[v] # "done"
    BY <1>2, <2>3 DEF Dishes!HiredInv
  <2>7. dish_count \in Nat
    BY <1>2 DEF Dishes!TypeOK
  <2> QED BY <2>2, <2>3, <2>4, <2>5, <2>6, <2>7
<1>5. washer \in [1 .. washer_count -> {"unborn", "lock", "test", "pop", "wash", "done"}]
  BY <1>2 DEF Dishes!TypeOK
<1>6. /\ \A v \in 1 .. washer_count : washer'[v] = IF v = w THEN "wash" ELSE washer[v]
      /\ washer' \in [1 .. washer_count -> {"unborn", "lock", "test", "pop", "wash", "done"}]
  BY <1>1, <1>5
<1>7. Dishes!TypeOK'
  BY <1>1, <1>2, <1>6 DEF Dishes!TypeOK, Dishes!Dishes
<1>8. Dishes!HiredInv'
  <2>1. \A v \in 1 .. washer_count : /\ washer'[v] = "unborn" <=> v > dishwashers
                                     /\ v <= dish_joined => washer'[v] = "done"
                                     /\ washer'[v] = "done" => dish_stack' = <<>>
    BY <1>1, <1>2, <1>4, <1>6 DEF Dishes!HiredInv
  <2>2. dish_main = "read" => washer_count = 0 /\ dish_count = 0
    BY <1>2 DEF Dishes!HiredInv
  <2>3. dish_main # "returned"
    <3>1. dish_joined # washer_count \/ washer[w] = "done"
      <4>1. w <= dish_joined => washer[w] = "done"
        BY <1>2 DEF Dishes!HiredInv
      <4> QED BY <1>2, <4>1 DEF Dishes!TypeOK
    <3> QED BY <1>1, <1>2, <3>1 DEF Dishes!HiredInv
  <2> QED BY <1>1, <2>1, <2>2, <2>3 DEF Dishes!HiredInv
<1>9. Dishes!StackInv'
  <2>1. \A v \in 1 .. washer_count : washer[v] = "wash" => dish[v] \in k .. dish_count - 1 /\ times_washed[dish[v]] = 0
    BY <1>2, <1>3 DEF Dishes!StackInv
  <2>2. \A u, v \in 1 .. washer_count :
          washer'[u] \in {"test", "pop"} /\ washer'[v] \in {"test", "pop"} => u = v
    BY <1>2, <1>6 DEF Dishes!StackInv
  <2>3. \A v \in 1 .. washer_count : washer'[v] # "pop"
    <3>1. \A v \in 1 .. washer_count : washer[v] = "pop" => v = w
      BY <1>1, <1>2 DEF Dishes!StackInv
    <3> QED BY <1>6, <3>1
  <2>4. \A d \in Dishes!Dishes :
          IF d < k THEN times_washed[d] = 0
          ELSE \/ times_washed[d] = 1
               \/ times_washed[d] = 0 /\ \E v \in 1 .. washer_count : washer[v] = "wash" /\ dish[v] = d
    BY <1>2, <1>3 DEF Dishes!StackInv
  <2>5. \A v \in 1 .. washer_count :
          washer'[v] = "wash" => dish[v] \in k - 1 .. dish_count - 1 /\ times_washed[dish[v]] = 0
    <3>1. k - 1 \in Dishes!Dishes /\ k - 1 < k
      BY <1>4 DEF Dishes!Dishes
    <3>2. times_washed[k - 1] = 0
      BY <2>4, <3>1
    <3>3. \A v \in 1 .. washer_count : washer'[v] = "wash" /\ v # w =>
            dish[v] \in k .. dish_count - 1 /\ times_washed[dish[v]] = 0
      BY <1>6, <2>1
    <3>4. dish[w] \in k - 1 .. dish_count - 1 /\ times_washed[dish[w]] = 0
      BY <1>4, <3>2
    <3>5. \A e \in k .. dish_count - 1 : e \in k - 1 .. dish_count - 1
      BY <1>4
    <3> QED BY <3>3, <3>4, <3>5
  <2>6. \A u, v \in 1 .. washer_count :
          washer'[u] = "wash" /\ washer'[v] = "wash" /\ dish[u] = dish[v] => u = v
    <3>1. \A u, v \in 1 .. washer_count :
            washer[u] = "wash" /\ washer[v] = "wash" /\ dish[u] = dish[v] => u = v
      BY <1>2 DEF Dishes!StackInv
    <3>2. \A v \in 1 .. washer_count : washer[v] = "wash" => dish[v] # dish[w]
      BY <1>4, <2>1
    <3>3. \A v \in 1 .. washer_count : washer'[v] = "wash" => v = w \/ washer[v] = "wash"
      BY <1>6
    <3> QED BY <3>1, <3>2, <3>3
  <2>7. \A d \in Dishes!Dishes :
          IF d < k - 1 THEN times_washed[d] = 0
          ELSE \/ times_washed[d] = 1
               \/ times_washed[d] = 0 /\ \E v \in 1 .. washer_count : washer'[v] = "wash" /\ dish[v] = d
    <3> SUFFICES ASSUME NEW d \in Dishes!Dishes
                 PROVE  IF d < k - 1 THEN times_washed[d] = 0
                        ELSE \/ times_washed[d] = 1
                             \/ times_washed[d] = 0 /\ \E v \in 1 .. washer_count : washer'[v] = "wash" /\ dish[v] = d
      OBVIOUS
    <3>1. d \in Int
      BY <1>4 DEF Dishes!Dishes
    <3>2. CASE d = k - 1
      <4>1. times_washed[d] = 0
        BY <1>4, <2>4, <3>2
      <4>2. washer'[w] = "wash" /\ dish[w] = d
        BY <1>4, <1>6, <3>2
      <4> QED BY <1>4, <3>2, <4>1, <4>2
    <3>3. CASE d # k - 1
      <4>1. d < k - 1 <=> d < k
        BY <1>4, <3>1, <3>3
      <4>2. \A v \in 1 .. washer_count : washer[v] = "wash" => washer'[v] = "wash"
        BY <1>6
      <4> QED BY <2>4, <4>1, <4>2
    <3> QED BY <3>2, <3>3
  <2>8. /\ k - 1 \in 0 .. dish_count /\ washer_count # 0
    BY <1>2, <1>4 DEF Dishes!TypeOK
  <2> QED BY <1>1, <1>4, <2>2, <2>3, <2>5, <2>6, <2>7, <2>8 DEF Dishes!StackInv, Dishes!Dishes
<1> QED BY <1>7, <1>8, <1>9 DEF Dishes!IInv

LEMMA WasherWashes ==
  ASSUME Dishes!IInv, NEW w \in 1 .. washer_count, Dishes!Wash(w)
  PROVE  Dishes!IInv'
<1>1. /\ dish_main' = dish_main /\ washer_count' = washer_count /\ dish_count' = dish_count
      /\ dish_joined' = dish_joined /\ dishwashers' = dishwashers /\ dish_stack' = dish_stack
      /\ unwashed' = unwashed /\ washer[w] = "wash" /\ washer' = [washer EXCEPT ![w] = "lock"]
      /\ dish' = [dish EXCEPT ![w] = -1]
      /\ times_washed' = [times_washed EXCEPT ![dish[w]] = times_washed[dish[w]] + 1]
  BY DEF Dishes!Wash, Dishes!STACK_EMPTY_FLAG
<1>2. Dishes!TypeOK /\ Dishes!HiredInv /\ Dishes!StackInv
  BY DEF Dishes!IInv
<1>3. PICK k : k = Len(dish_stack)
  OBVIOUS
<1>4. k \in Nat /\ k <= dish_count /\ dish_count \in Nat
  <2>1. DishState(k)
    BY <1>3, DishStateIs
  <2> QED BY <2>1 DEF DishState, Dishes!TypeOK
<1>5. PICK d : d = dish[w]
  OBVIOUS
<1>6. /\ d \in k .. dish_count - 1 /\ times_washed[d] = 0 /\ d \in Dishes!Dishes
      /\ times_washed \in [Dishes!Dishes -> Nat]
  <2>1. d \in k .. dish_count - 1 /\ times_washed[d] = 0
    BY <1>1, <1>2, <1>3, <1>5 DEF Dishes!StackInv
  <2>2. d \in 0 .. dish_count - 1
    BY <1>4, <2>1
  <2> QED BY <1>2, <2>1, <2>2 DEF Dishes!TypeOK, Dishes!Dishes
<1>7. /\ washer \in [1 .. washer_count -> {"unborn", "lock", "test", "pop", "wash", "done"}]
      /\ dish \in [1 .. washer_count -> Int]
  BY <1>2 DEF Dishes!TypeOK
<1>8. /\ \A v \in 1 .. washer_count : washer'[v] = IF v = w THEN "lock" ELSE washer[v]
      /\ \A v \in 1 .. washer_count : v # w => dish'[v] = dish[v]
      /\ washer' \in [1 .. washer_count -> {"unborn", "lock", "test", "pop", "wash", "done"}]
      /\ dish' \in [1 .. washer_count -> Int]
  BY <1>1, <1>7
<1>9. /\ \A e \in Dishes!Dishes : times_washed'[e] = IF e = d THEN 1 ELSE times_washed[e]
      /\ times_washed' \in [Dishes!Dishes -> Nat]
  <2>1. times_washed' = [times_washed EXCEPT ![d] = 1]
    BY <1>1, <1>5, <1>6
  <2> QED BY <1>6, <2>1
<1>10. Dishes!TypeOK'
  BY <1>1, <1>2, <1>8, <1>9 DEF Dishes!TypeOK, Dishes!Dishes
<1>11. Dishes!HiredInv'
  <2>1. \A v \in 1 .. washer_count : /\ washer'[v] = "unborn" <=> v > dishwashers
                                     /\ v <= dish_joined => washer'[v] = "done"
                                     /\ washer'[v] = "done" => dish_stack = <<>>
    BY <1>1, <1>2, <1>8 DEF Dishes!HiredInv
  <2>2. /\ dish_main = "read" => washer_count = 0 /\ dish_count = 0
        /\ dish_main = "returned" => dish_joined = washer_count /\ unwashed = Len(dish_stack)
    BY <1>2 DEF Dishes!HiredInv
  <2> QED BY <1>1, <2>1, <2>2 DEF Dishes!HiredInv
<1>12. Dishes!StackInv'
  <2>1. \A v \in 1 .. washer_count : /\ washer'[v] = "wash" <=> washer[v] = "wash" /\ v # w
                                     /\ washer'[v] = "pop" <=> washer[v] = "pop"
                                     /\ washer'[v] = "test" <=> washer[v] = "test"
                                     /\ washer[v] = "pop" => v # w
    BY <1>1, <1>8
  <2>2. \A u, v \in 1 .. washer_count :
          washer'[u] \in {"test", "pop"} /\ washer'[v] \in {"test", "pop"} => u = v
    BY <1>2, <2>1 DEF Dishes!StackInv
  <2>3. /\ Len(dish_stack) \in 0 .. dish_count
        /\ dish_stack = [n \in 1 .. Len(dish_stack) |-> n - 1]
        /\ washer_count = 0 => Len(dish_stack) = dish_count
    BY <1>2 DEF Dishes!StackInv
  <2>4. \A v \in 1 .. washer_count : washer'[v] = "pop" => dish_stack # <<>> /\ dish'[v] = Len(dish_stack) - 1
    BY <1>2, <1>8, <2>1 DEF Dishes!StackInv
  <2>5. \A u, v \in 1 .. washer_count :
          washer[u] = "wash" /\ washer[v] = "wash" /\ dish[u] = dish[v] => u = v
    BY <1>2 DEF Dishes!StackInv
  <2>6. \A u, v \in 1 .. washer_count :
          washer'[u] = "wash" /\ washer'[v] = "wash" /\ dish'[u] = dish'[v] => u = v
    BY <1>8, <2>1, <2>5
  <2>7. \A v \in 1 .. washer_count : washer[v] = "wash" => dish[v] \in k .. dish_count - 1 /\ times_washed[dish[v]] = 0
    BY <1>2, <1>3 DEF Dishes!StackInv
  <2>8. ASSUME NEW v \in 1 .. washer_count, washer'[v] = "wash"
        PROVE  dish'[v] \in k .. dish_count - 1 /\ times_washed'[dish'[v]] = 0
    <3>1. washer[v] = "wash" /\ v # w /\ dish'[v] = dish[v]
      BY <1>8, <2>1, <2>8
    <3>2. dish[v] # d
      BY <1>1, <1>5, <2>5, <3>1
    <3>3. dish[v] \in k .. dish_count - 1 /\ times_washed[dish[v]] = 0
      BY <2>7, <3>1
    <3>4. dish[v] \in Dishes!Dishes
      BY <1>4, <3>3 DEF Dishes!Dishes
    <3> QED BY <1>9, <3>1, <3>2, <3>3, <3>4
  <2>9. ASSUME NEW e \in Dishes!Dishes
        PROVE  IF e < k THEN times_washed'[e] = 0
               ELSE \/ times_washed'[e] = 1
                    \/ times_washed'[e] = 0 /\ \E v \in 1 .. washer_count : washer'[v] = "wash" /\ dish'[v] = e
    <3>1. IF e < k THEN times_washed[e] = 0
          ELSE \/ times_washed[e] = 1
               \/ times_washed[e] = 0 /\ \E v \in 1 .. washer_count : washer[v] = "wash" /\ dish[v] = e
      BY <1>2, <1>3 DEF Dishes!StackInv
    <3>2. CASE e = d
      <4>1. ~(e < k)
        BY <1>4, <1>6, <3>2
      <4> QED BY <1>9, <3>2, <4>1
    <3>3. CASE e # d
      <4>1. times_washed'[e] = times_washed[e]
        BY <1>9, <3>3
      <4>2. \A v \in 1 .. washer_count : washer[v] = "wash" /\ dish[v] = e => washer'[v] = "wash" /\ dish'[v] = e
        BY <1>5, <1>8, <2>1, <3>3
      <4> QED BY <3>1, <4>1, <4>2
    <3> QED BY <3>2, <3>3
  <2> QED BY <1>1, <1>3, <2>2, <2>3, <2>4, <2>6, <2>8, <2>9 DEF Dishes!StackInv, Dishes!Dishes
<1> QED BY <1>10, <1>11, <1>12 DEF Dishes!IInv

\* What main does once the washers are hired.
LEMMA DishMainMoves ==
  ASSUME Dishes!IInv, Dishes!Join \/ Dishes!PrintUnwashed \/ UNCHANGED Dishes!dishVars
  PROVE  Dishes!IInv'
<1>1. /\ washer_count' = washer_count /\ dish_count' = dish_count /\ dishwashers' = dishwashers
      /\ dish_stack' = dish_stack /\ dish' = dish /\ washer' = washer /\ times_washed' = times_washed
  BY DEF Dishes!Join, Dishes!PrintUnwashed, Dishes!dishVars
<1>2. Dishes!TypeOK /\ Dishes!HiredInv /\ Dishes!StackInv
  BY DEF Dishes!IInv
<1>3. Dishes!StackInv'
  BY <1>1, <1>2 DEF Dishes!StackInv, Dishes!Dishes
<1>4. /\ dishwashers \in 0 .. washer_count /\ dish_joined \in 0 .. dishwashers /\ washer_count \in Nat
      /\ dish_main \in {"read", "hire", "returned"} /\ unwashed \in Int
      /\ Len(dish_stack) \in Int /\ dish_count \in Nat
  <2>1. DishState(Len(dish_stack))
    BY DishStateIs
  <2> QED BY <1>2, <2>1 DEF Dishes!TypeOK, DishState
<1>5. CASE Dishes!Join
  <2>1. /\ dish_main' = dish_main /\ unwashed' = unwashed /\ dish_joined' = dish_joined + 1
        /\ dish_main = "hire" /\ dishwashers = washer_count /\ dish_joined < washer_count
        /\ washer[dish_joined + 1] = "done"
    BY <1>5 DEF Dishes!Join
  <2>2. dish_joined' \in 0 .. dishwashers
    BY <1>4, <2>1
  <2>3. Dishes!TypeOK'
    BY <1>1, <1>2, <2>1, <2>2 DEF Dishes!TypeOK, Dishes!Dishes
  <2>4. \A v \in 1 .. washer_count : v <= dish_joined' => washer[v] = "done"
    <3>1. \A v \in 1 .. washer_count : v <= dish_joined + 1 => v <= dish_joined \/ v = dish_joined + 1
      BY <1>4
    <3> QED BY <1>2, <2>1, <3>1 DEF Dishes!HiredInv
  <2>5. Dishes!HiredInv'
    BY <1>1, <1>2, <2>1, <2>4 DEF Dishes!HiredInv
  <2> QED BY <1>3, <2>3, <2>5 DEF Dishes!IInv
<1>6. CASE Dishes!PrintUnwashed
  <2>1. /\ dish_main' = "returned" /\ unwashed' = Len(dish_stack) /\ dish_joined' = dish_joined
        /\ dish_joined = washer_count
    BY <1>6 DEF Dishes!PrintUnwashed
  <2>2. Dishes!TypeOK'
    BY <1>1, <1>2, <1>4, <2>1 DEF Dishes!TypeOK, Dishes!Dishes
  <2>3. Dishes!HiredInv'
    BY <1>1, <1>2, <2>1 DEF Dishes!HiredInv
  <2> QED BY <1>3, <2>2, <2>3 DEF Dishes!IInv
<1>7. CASE UNCHANGED Dishes!dishVars
  <2>1. dish_main' = dish_main /\ unwashed' = unwashed /\ dish_joined' = dish_joined
    BY <1>7 DEF Dishes!dishVars
  <2>2. Dishes!TypeOK'
    BY <1>1, <1>2, <2>1 DEF Dishes!TypeOK, Dishes!Dishes
  <2>3. Dishes!HiredInv'
    BY <1>1, <1>2, <2>1 DEF Dishes!HiredInv
  <2> QED BY <1>3, <2>2, <2>3 DEF Dishes!IInv
<1> QED BY <1>5, <1>6, <1>7

LEMMA DishesStep == Dishes!IInv /\ [Dishes!Next]_(Dishes!dishVars) => Dishes!IInv'
<1> SUFFICES ASSUME Dishes!IInv, [Dishes!Next]_(Dishes!dishVars) PROVE Dishes!IInv'
  OBVIOUS
<1>1. /\ DOMAIN washer = 1 .. washer_count /\ washer_count \in Nat /\ dishwashers \in 0 .. washer_count
      /\ \A w \in 1 .. washer_count : washer[w] = "unborn" <=> w > dishwashers
  BY DEF Dishes!IInv, Dishes!TypeOK, Dishes!HiredInv
<1>2. CASE Dishes!Hire
  <2>1. /\ dishwashers < washer_count /\ dishwashers' = dishwashers + 1
        /\ washer' = [washer EXCEPT ![dishwashers'] = "lock"]
        /\ UNCHANGED <<dish_main, washer_count, dish_count, dish_joined, dish_stack, dish, times_washed, unwashed>>
    BY <1>2 DEF Dishes!Hire
  <2>2. PICK w : w = dishwashers + 1
    OBVIOUS
  <2>3. w \in 1 .. washer_count /\ w > dishwashers /\ washer' = [washer EXCEPT ![w] = "lock"]
    BY <1>1, <2>1, <2>2
  <2>4. washer[w] = "unborn"
    BY <1>1, <2>3
  <2> QED BY <2>1, <2>2, <2>3, <2>4, WasherMoves
<1>3. ASSUME NEW w \in 1 .. washer_count, Dishes!Lock(w) PROVE Dishes!IInv'
  <2>1. /\ washer[w] = "lock" /\ washer' = [washer EXCEPT ![w] = "test"] /\ dishwashers' = dishwashers
        /\ UNCHANGED <<dish_main, washer_count, dish_count, dish_joined, dish_stack, dish, times_washed, unwashed>>
    BY <1>3 DEF Dishes!Lock
  <2>2. \A v \in 1 .. washer_count : washer[v] \notin {"test", "pop"}
    BY <1>1, <1>3 DEF Dishes!Lock, Dishes!StackIsLocked
  <2> QED BY <2>1, <2>2, WasherMoves
<1>4. ASSUME NEW w \in 1 .. washer_count, Dishes!Top(w) PROVE Dishes!IInv'
  <2>1. /\ washer[w] = "test" /\ dishwashers' = dishwashers
        /\ UNCHANGED <<dish_main, washer_count, dish_count, dish_joined, dish_stack, times_washed, unwashed>>
    BY <1>4 DEF Dishes!Top
  <2>2. CASE dish_stack = <<>> /\ washer' = [washer EXCEPT ![w] = "done"] /\ UNCHANGED dish
    BY <2>1, <2>2, WasherMoves
  <2>3. CASE /\ dish_stack # <<>> /\ washer' = [washer EXCEPT ![w] = "pop"]
             /\ dish' = [dish EXCEPT ![w] = dish_stack[Len(dish_stack)]]
    BY <2>1, <2>3, WasherSees
  <2> QED BY <1>4, <2>2, <2>3 DEF Dishes!Top
<1> QED BY <1>1, <1>2, <1>3, <1>4, DishesFill, WasherPops, WasherWashes, DishMainMoves
        DEF Dishes!Next, Dishes!DishStep

-----------------------------------------------------------------------------
(* The ranges of the hybrid distributions.                                 *)

\* calculate_start for a range that is not backwards: the first parts have one index more.
LEMMA PartsOfRange ==
  ASSUME NEW begin \in Int, NEW end \in Int, NEW parts \in Nat \ {0}, begin <= end
  PROVE  \E q \in Nat, m \in 0 .. parts - 1 :
           /\ end = begin + parts * q + m
           /\ \A r : Distr!calculate_start(r, end, parts, begin) = begin + r * q + (IF r < m THEN r ELSE m)
<1> DEFINE d == end - begin
           q == d \div parts
           m == d - parts * q
<1>1. d \in Nat
  OBVIOUS
<1>2. q \in Nat /\ m \in 0 .. parts - 1
  <2> HIDE DEF d
  <2> QED BY <1>1
<1>3. Distr!Quotient(d, parts) = q /\ Distr!Remainder(d, parts) = m
  <2> HIDE DEF d
  <2> QED BY <1>1 DEF Distr!Quotient, Distr!Remainder
<1>4. end = begin + parts * q + m
  <2> HIDE DEF q
  <2> QED BY <1>2
<1>5. ASSUME NEW r
      PROVE  Distr!calculate_start(r, end, parts, begin) = begin + r * q + (IF r < m THEN r ELSE m)
  <2>1. Distr!calculate_start(r, end, parts, begin)
          = begin + r * Distr!Quotient(d, parts) + Distr!Least(r, Distr!Remainder(d, parts))
    BY DEF Distr!calculate_start
  <2> HIDE DEF q, m
  <2> QED BY <1>3, <2>1 DEF Distr!Least
<1> HIDE DEF q, m
<1> QED BY <1>2, <1>4, <1>5

LEMMA ProductsGrow ==
  \A a, b, c \in Nat : a <= b => a * c <= b * c /\ a * c \in Nat /\ b * c \in Nat
<1> SUFFICES ASSUME NEW a \in Nat, NEW b \in Nat, NEW c \in Nat, a <= b
             PROVE  a * c <= b * c /\ a * c \in Nat /\ b * c \in Nat
  OBVIOUS
<1>1. PICK n \in Nat : b = a + n
  <2>1. b - a \in Nat /\ b = a + (b - a)
    OBVIOUS
  <2> QED BY <2>1
<1>2. b * c = a * c + n * c /\ n * c \in Nat /\ a * c \in Nat
  BY <1>1
<1> QED BY <1>2

\* The parts of a range are consecutive, have as many indexes or one more, and are the range.
LEMMA PartsInOrder ==
  ASSUME NEW begin \in Int, NEW end \in Int, NEW parts \in Nat \ {0}, begin <= end
  PROVE  LET from(r) == Distr!calculate_start(r, end, parts, begin)
         IN /\ from(0) = begin /\ from(parts) = end
            /\ \A r \in 0 .. parts : from(r) \in Int
            /\ \A r, s \in 0 .. parts : r <= s => from(r) <= from(s)
            /\ \A r, s \in 0 .. parts - 1 : (from(r + 1) - from(r)) - (from(s + 1) - from(s)) \in {0, 1, -1}
            /\ \A i \in begin .. end - 1 : \E r \in 0 .. parts - 1 : from(r) <= i /\ i < from(r + 1)
<1> DEFINE from(r) == Distr!calculate_start(r, end, parts, begin)
<1>1. PICK q \in Nat, m \in 0 .. parts - 1 :
        /\ end = begin + parts * q + m
        /\ \A r : from(r) = begin + r * q + (IF r < m THEN r ELSE m)
  BY PartsOfRange
<1> HIDE DEF from
<1>2. from(0) = begin
  BY <1>1
<1>3. from(parts) = end
  BY <1>1
<1>4. \A r \in 0 .. parts : r * q \in Nat /\ from(r) \in Int
  <2>1. \A r \in 0 .. parts : r \in Nat /\ r * q \in Nat
    OBVIOUS
  <2> QED BY <1>1, <2>1
<1>5. ASSUME NEW r \in 0 .. parts, NEW s \in 0 .. parts, r <= s
      PROVE  from(r) <= from(s)
  <2>1. r * q <= s * q /\ r * q \in Nat /\ s * q \in Nat
    BY <1>5, ProductsGrow
  <2>2. (IF r < m THEN r ELSE m) <= (IF s < m THEN s ELSE m)
    BY <1>5
  <2>3. /\ from(r) = begin + r * q + (IF r < m THEN r ELSE m)
        /\ from(s) = begin + s * q + (IF s < m THEN s ELSE m)
    BY <1>1
  <2>4. \A x, y \in Nat, u, v \in Int : x <= y /\ u <= v => begin + x + u <= begin + y + v
    OBVIOUS
  <2>5. (IF r < m THEN r ELSE m) \in Int /\ (IF s < m THEN s ELSE m) \in Int
    OBVIOUS
  <2> QED BY <2>1, <2>2, <2>3, <2>4, <2>5
<1>6. ASSUME NEW r \in 0 .. parts - 1
      PROVE  from(r + 1) - from(r) = q \/ from(r + 1) - from(r) = q + 1
  <2>1. (r + 1) * q = r * q + q /\ r * q \in Nat
    OBVIOUS
  <2>2. /\ from(r) = begin + r * q + (IF r < m THEN r ELSE m)
        /\ from(r + 1) = begin + (r * q + q) + (IF r + 1 < m THEN r + 1 ELSE m)
    BY <1>1, <2>1
  <2>3. \A x \in Nat, u, v \in Int : (begin + (x + q) + v) - (begin + x + u) = q + (v - u)
    OBVIOUS
  <2>4. from(r + 1) - from(r) = q + ((IF r + 1 < m THEN r + 1 ELSE m) - (IF r < m THEN r ELSE m))
    BY <2>1, <2>2, <2>3
  <2> QED BY <2>4
<1>7. \A r, s \in 0 .. parts - 1 : (from(r + 1) - from(r)) - (from(s + 1) - from(s)) \in {0, 1, -1}
  BY <1>6
<1>8. ASSUME NEW i \in begin .. end - 1
      PROVE  \E r \in 0 .. parts - 1 : from(r) <= i /\ i < from(r + 1)
  <2> DEFINE Above == {r \in 0 .. parts : i < from(r)}
  <2>1. parts \in Above /\ Above \subseteq Nat
    BY <1>3, <1>8
  <2>2. PICK n \in Above : \A r \in Above : n <= r
    <3> HIDE DEF Above
    <3> QED BY <2>1, LeastNatural
  <2>3. n \in 0 .. parts /\ i < from(n)
    BY <2>2
  <2>4. n # 0
    BY <1>2, <1>8, <2>3
  <2>5. n - 1 \in 0 .. parts - 1 /\ n - 1 \in 0 .. parts /\ (n - 1) + 1 = n /\ ~(n <= n - 1)
    BY <2>3, <2>4
  <2>6. ~(i < from(n - 1))
    BY <2>2, <2>5
  <2>7. from(n - 1) <= i
    BY <1>4, <1>8, <2>5, <2>6
  <2> QED BY <2>3, <2>5, <2>7
<1> QED BY <1>2, <1>3, <1>4, <1>5, <1>7, <1>8 DEF from

\* No part of a backwards range has an index.
LEMMA PartsBackwards ==
  ASSUME NEW begin \in Int, NEW end \in Int, NEW parts \in Nat \ {0}, end < begin,
         NEW r \in 0 .. parts - 1
  PROVE  Distr!calculate_start(r + 1, end, parts, begin) <= Distr!calculate_start(r, end, parts, begin)
<1> DEFINE d == begin - end
           q == d \div parts
           m == d - parts * q
<1>1. d \in Nat /\ d > 0 /\ end - begin = -d /\ ~(end - begin >= 0)
  OBVIOUS
<1>2. q \in Nat /\ m \in 0 .. parts - 1
  <2> HIDE DEF d
  <2> QED BY <1>1
<1>3. Distr!Quotient(end - begin, parts) = -q
  <2>1. -(end - begin) = d
    OBVIOUS
  <2> HIDE DEF d
  <2> QED BY <1>1, <2>1 DEF Distr!Quotient
<1>4. Distr!Remainder(end - begin, parts) = -m
  <2>1. Distr!Remainder(end - begin, parts) = (end - begin) - parts * (-q)
    BY <1>3 DEF Distr!Remainder
  <2>2. parts * (-q) = -(parts * q) /\ parts * q \in Int
    BY <1>2
  <2> HIDE DEF q
  <2> QED BY <2>1, <2>2
<1> HIDE DEF q, m, d
<1>5. \A x \in Nat : Distr!Least(x, -m) = -m
  BY <1>2 DEF Distr!Least
<1>6. /\ Distr!calculate_start(r, end, parts, begin) = begin + r * (-q) + -m
      /\ Distr!calculate_start(r + 1, end, parts, begin) = begin + (r + 1) * (-q) + -m
  BY <1>3, <1>4, <1>5 DEF Distr!calculate_start
<1>7. (r + 1) * (-q) = r * (-q) + -q /\ r * (-q) \in Int
  BY <1>2
<1> QED BY <1>2, <1>6, <1>7

\* The blocks that the static schedule gives to the threads of a team.
LEMMA BlocksOfTeam ==
  ASSUME NEW start \in Int, NEW finish \in Int
  PROVE  /\ \A t \in Distr!Team : Distr!OmpBlock(start, finish, t) \subseteq start .. finish - 1
         /\ \A t \in Distr!Team : \E lo, hi \in Int : Distr!OmpBlock(start, finish, t) = lo .. hi - 1
         /\ \A t, u \in Distr!Team, i \in Int :
              i \in Distr!OmpBlock(start, finish, t) /\ i \in Distr!OmpBlock(start, finish, u) => t = u
         /\ \A i \in start .. finish - 1 : \E t \in Distr!Team : i \in Distr!OmpBlock(start, finish, t)
<1>1. OmpThreads \in Nat \ {0} /\ Distr!Team = 0 .. OmpThreads - 1
  BY WorkAssumption DEF Distr!DistrAssumption, Distr!Team
<1>2. CASE finish <= start
  <2>1. \A t \in Distr!Team : Distr!OmpBlock(start, finish, t) = {}
    BY <1>2 DEF Distr!OmpBlock
  <2>2. start .. finish - 1 = {} /\ 0 .. 0 - 1 = {} /\ 0 \in Int
    BY <1>2
  <2> QED BY <2>1, <2>2
<1>3. CASE ~(finish <= start)
  <2> DEFINE from(r) == Distr!calculate_start(r, finish, OmpThreads, start)
  <2>1. \A t \in Distr!Team : Distr!OmpBlock(start, finish, t) = from(t) .. from(t + 1) - 1
    BY <1>3 DEF Distr!OmpBlock, Distr!calculate_finish
  <2>2. /\ from(0) = start /\ from(OmpThreads) = finish
        /\ \A r \in 0 .. OmpThreads : from(r) \in Int
        /\ \A r, s \in 0 .. OmpThreads : r <= s => from(r) <= from(s)
        /\ \A i \in start .. finish - 1 : \E r \in 0 .. OmpThreads - 1 : from(r) <= i /\ i < from(r + 1)
    <3>1. start <= finish
      BY <1>3
    <3> QED BY <1>1, <3>1, PartsInOrder
  <2> HIDE DEF from
  <2>3. \A t \in Distr!Team : /\ t \in 0 .. OmpThreads /\ t + 1 \in 0 .. OmpThreads
                              /\ 0 <= t /\ t + 1 <= OmpThreads /\ t \in Int
    BY <1>1
  <2>4. 0 \in 0 .. OmpThreads /\ OmpThreads \in 0 .. OmpThreads
    BY <1>1
  <2>5. \A t \in Distr!Team : from(t) \in Int /\ from(t + 1) \in Int /\ start <= from(t) /\ from(t + 1) <= finish
    BY <2>2, <2>3, <2>4
  <2>6. ASSUME NEW t \in Distr!Team PROVE Distr!OmpBlock(start, finish, t) \subseteq start .. finish - 1
    BY <2>1, <2>5
  <2>7. ASSUME NEW t \in Distr!Team PROVE \E lo, hi \in Int : Distr!OmpBlock(start, finish, t) = lo .. hi - 1
    BY <2>1, <2>5
  <2>8. ASSUME NEW t \in Distr!Team, NEW u \in Distr!Team, NEW i \in Int,
               i \in Distr!OmpBlock(start, finish, t), i \in Distr!OmpBlock(start, finish, u)
        PROVE  ~(t < u)
    <3> SUFFICES ASSUME t < u PROVE FALSE
      OBVIOUS
    <3>1. i < from(t + 1) /\ from(u) <= i
      BY <2>1, <2>5, <2>8
    <3>2. t + 1 <= u
      BY <2>3
    <3>3. from(t + 1) <= from(u)
      BY <2>2, <2>3, <3>2
    <3> QED BY <2>5, <3>1, <3>3
  <2>9. ASSUME NEW t \in Distr!Team, NEW u \in Distr!Team, NEW i \in Int,
               i \in Distr!OmpBlock(start, finish, t), i \in Distr!OmpBlock(start, finish, u)
        PROVE  t = u
    <3>1. ~(t < u) /\ ~(u < t)
      BY <2>8, <2>9
    <3> QED BY <2>3, <3>1
  <2>10. ASSUME NEW i \in start .. finish - 1
         PROVE  \E t \in Distr!Team : i \in Distr!OmpBlock(start, finish, t)
    <3>1. PICK r \in 0 .. OmpThreads - 1 : from(r) <= i /\ i < from(r + 1)
      BY <2>2
    <3>2. r \in Distr!Team
      BY <1>1
    <3>3. i \in from(r) .. from(r + 1) - 1
      BY <2>5, <3>1, <3>2
    <3> QED BY <2>1, <3>2, <3>3
  <2> QED BY <2>6, <2>7, <2>9, <2>10
<1> QED BY <1>2, <1>3

LEMMA BlockIsInterval ==
  ASSUME NEW a \in Int, NEW b \in Int, NEW t \in Distr!Team
  PROVE  \E lo, hi \in Int : Distr!OmpBlock(a, b, t) = lo .. hi - 1
<1>1. \A u \in Distr!Team : \E lo, hi \in Int : Distr!OmpBlock(a, b, u) = lo .. hi - 1
  BY BlocksOfTeam
<1> QED BY Zenon, <1>1

\* The part of each process and the blocks of its threads: no index is in two, and they
\* are all the indexes of the range.
LEMMA BlocksOfRange ==
  ASSUME workers \in Nat, input \in Int \X Int
  PROVE  /\ \A r \in Distr!Process : Distr!PartStart(r) \in Int /\ Distr!PartFinish(r) \in Int
         /\ \A r \in Distr!Process, t \in Distr!Team : Distr!Block(r, t) \subseteq input[1] .. input[2] - 1
         /\ \A r \in Distr!Process, t \in Distr!Team : \E lo, hi \in Int : Distr!Block(r, t) = lo .. hi - 1
         /\ \A r, s \in Distr!Process, t, u \in Distr!Team, i \in Int :
              i \in Distr!Block(r, t) /\ i \in Distr!Block(s, u) => r = s /\ t = u
         /\ workers > 0 => \A i \in input[1] .. input[2] - 1 :
              \E r \in Distr!Process, t \in Distr!Team : i \in Distr!Block(r, t)
<1> DEFINE start == input[1]
           finish == input[2]
           from(r) == Distr!calculate_start(r, finish, workers, start)
<1>1. start \in Int /\ finish \in Int /\ Distr!Process = 0 .. workers - 1
  BY DEF Distr!Process
<1>2. \A r, t : Distr!Block(r, t) = Distr!OmpBlock(from(r), from(r + 1), t)
  BY DEF Distr!Block, Distr!PartStart, Distr!PartFinish, Distr!calculate_finish
<1>3. \A r : Distr!PartStart(r) = from(r) /\ Distr!PartFinish(r) = from(r + 1)
  BY DEF Distr!PartStart, Distr!PartFinish, Distr!calculate_finish
<1>4. CASE workers = 0
  <2>1. Distr!Process = {}
    BY <1>1, <1>4
  <2> QED BY <1>4, <2>1
<1>5. CASE workers # 0
  <2>1. workers \in Nat \ {0}
    BY <1>5
  <2>2. \A r \in Distr!Process : from(r) \in Int /\ from(r + 1) \in Int
    <3>1. CASE start <= finish
      <4>1. \A r \in 0 .. workers : from(r) \in Int
        <5> HIDE DEF start, finish
        <5> QED BY <1>1, <2>1, <3>1, PartsInOrder
      <4>2. \A r \in Distr!Process : r \in 0 .. workers /\ r + 1 \in 0 .. workers
        BY <1>1, <2>1
      <4> HIDE DEF from
      <4> QED BY <4>1, <4>2
    <3>2. CASE finish < start
      <4>1. ASSUME NEW r \in Int PROVE from(r) \in Int
        <5>1. /\ finish - start \in Int /\ ~(finish - start >= 0) /\ -(finish - start) \in Nat
          BY <1>1, <3>2
        <5>2. Distr!Quotient(finish - start, workers) \in Int
          <6>1. -(finish - start) \div workers \in Int
            BY <2>1, <5>1
          <6> HIDE DEF start, finish
          <6> QED BY <2>1, <5>1 DEF Distr!Quotient
        <5>3. Distr!Remainder(finish - start, workers) \in Int
          <6> HIDE DEF start, finish
          <6> QED BY <2>1, <5>1, <5>2 DEF Distr!Remainder
        <5>4. Distr!Least(r, Distr!Remainder(finish - start, workers)) \in Int
          BY <5>3 DEF Distr!Least
        <5> HIDE DEF start, finish
        <5> QED BY <1>1, <2>1, <5>2, <5>4 DEF Distr!calculate_start
      <4>2. \A r \in Distr!Process : r \in Int /\ r + 1 \in Int
        BY <1>1
      <4> HIDE DEF from
      <4> QED BY <4>1, <4>2
    <3> QED BY <1>1, <3>1, <3>2
  <2>3. ASSUME NEW r \in Distr!Process, NEW t \in Distr!Team
        PROVE  \E lo, hi \in Int : Distr!Block(r, t) = lo .. hi - 1
    <3> HIDE DEF from
    <3>1. Distr!Block(r, t) = Distr!OmpBlock(from(r), from(r + 1), t) /\ from(r) \in Int /\ from(r + 1) \in Int
      BY <1>2, <2>2
    <3>2. PICK lo \in Int, hi \in Int : Distr!OmpBlock(from(r), from(r + 1), t) = lo .. hi - 1
      BY <3>1, BlockIsInterval
    <3>3. Distr!Block(r, t) = lo .. hi - 1
      BY <3>1, <3>2
    <3> QED BY <3>3
  <2>4. CASE finish < start
    <3>1. ASSUME NEW r \in Distr!Process PROVE from(r + 1) <= from(r)
      <4> HIDE DEF start, finish
      <4> QED BY <1>1, <2>1, <2>4, PartsBackwards
    <3>2. \A r \in Distr!Process, t \in Distr!Team : Distr!Block(r, t) = {}
      <4> HIDE DEF from
      <4> QED BY <1>2, <3>1 DEF Distr!OmpBlock
    <3>3. start .. finish - 1 = {}
      BY <1>1, <2>4
    <3> QED BY <1>3, <2>2, <2>3, <3>2, <3>3
  <2>5. CASE start <= finish
    <3>1. /\ from(0) = start /\ from(workers) = finish
          /\ \A r \in 0 .. workers : from(r) \in Int
          /\ \A r, s \in 0 .. workers : r <= s => from(r) <= from(s)
          /\ \A i \in start .. finish - 1 : \E r \in 0 .. workers - 1 : from(r) <= i /\ i < from(r + 1)
      <4> HIDE DEF start, finish
      <4> QED BY <1>1, <2>1, <2>5, PartsInOrder
    <3> HIDE DEF from
    <3>2. \A r \in Distr!Process : /\ r \in 0 .. workers /\ r + 1 \in 0 .. workers
                                   /\ 0 <= r /\ r + 1 <= workers /\ r \in Int
      BY <1>1, <2>1
    <3>3. 0 \in 0 .. workers /\ workers \in 0 .. workers
      BY <2>1
    <3>4. \A r \in Distr!Process : start <= from(r) /\ from(r + 1) <= finish
      BY <3>1, <3>2, <3>3
    <3>5. \A r \in Distr!Process, t \in Distr!Team : Distr!Block(r, t) \subseteq from(r) .. from(r + 1) - 1
      BY <1>2, <2>2, BlocksOfTeam
    <3>6. \A r \in Distr!Process, t \in Distr!Team : Distr!Block(r, t) \subseteq start .. finish - 1
      <4>1. \A r \in Distr!Process : from(r) .. from(r + 1) - 1 \subseteq start .. finish - 1
        <5> HIDE DEF start, finish
        <5> QED BY <1>1, <2>2, <3>4
      <4> QED BY <3>5, <4>1
    <3>7. ASSUME NEW r \in Distr!Process, NEW s \in Distr!Process, NEW t \in Distr!Team, NEW u \in Distr!Team,
                 NEW i \in Int, i \in Distr!Block(r, t), i \in Distr!Block(s, u)
          PROVE  ~(r < s)
      <4> SUFFICES ASSUME r < s PROVE FALSE
        OBVIOUS
      <4>1. i \in from(r) .. from(r + 1) - 1 /\ i \in from(s) .. from(s + 1) - 1
        BY <3>5, <3>7
      <4>2. r + 1 <= s
        BY <3>2
      <4>3. from(r + 1) <= from(s)
        BY <3>1, <3>2, <4>2
      <4> QED BY <2>2, <4>1, <4>3
    <3>8. ASSUME NEW r \in Distr!Process, NEW s \in Distr!Process, NEW t \in Distr!Team, NEW u \in Distr!Team,
                 NEW i \in Int, i \in Distr!Block(r, t), i \in Distr!Block(s, u)
          PROVE  r = s /\ t = u
      <4>1. ~(r < s) /\ ~(s < r)
        BY <3>7, <3>8
      <4>2. r = s
        BY <3>2, <4>1
      <4>3. i \in Distr!OmpBlock(from(r), from(r + 1), t) /\ i \in Distr!OmpBlock(from(r), from(r + 1), u)
        BY <1>2, <3>8, <4>2
      <4>4. t = u
        BY <2>2, <4>3, BlocksOfTeam
      <4> QED BY <4>2, <4>4
    <3>9. ASSUME NEW i \in start .. finish - 1
          PROVE  \E r \in Distr!Process, t \in Distr!Team : i \in Distr!Block(r, t)
      <4>1. PICK r \in Distr!Process : from(r) <= i /\ i < from(r + 1)
        BY <1>1, <3>1
      <4>2. i \in from(r) .. from(r + 1) - 1
        BY <2>2, <4>1, <1>1
      <4>3. \E t \in Distr!Team : i \in Distr!OmpBlock(from(r), from(r + 1), t)
        BY <2>2, <4>2, BlocksOfTeam
      <4> QED BY <1>2, <4>3
    <3> HIDE DEF start, finish
    <3>10. /\ \A r \in Distr!Process : Distr!PartStart(r) \in Int /\ Distr!PartFinish(r) \in Int
      BY <1>3, <2>2
    <3> QED BY <2>3, <3>6, <3>8, <3>9, <3>10 DEF start, finish
  <2>6. start <= finish \/ finish < start
    BY <1>1
  <2> HIDE DEF start, finish, from
  <2> QED BY <2>4, <2>5, <2>6 DEF start, finish
<1> QED BY <1>4, <1>5

\* What a thread notes of a block: a first index that is -1 is not noted.
LEMMA ThreadRangeIs ==
  ASSUME NEW a \in Int, NEW b \in Int
  PROVE  /\ b <= a => Distr!ThreadRange(a .. b - 1) = <<-1, -1>>
         /\ a = -1 /\ b = 0 => Distr!ThreadRange(a .. b - 1) = <<-1, 0>>
         /\ a = -1 /\ b > 0 => Distr!ThreadRange(a .. b - 1) = <<0, b>>
         /\ a < b /\ a # -1 => Distr!ThreadRange(a .. b - 1) = <<a, b>>
<1> DEFINE S == a .. b - 1
           First == CHOOSE i \in S \ {-1} : \A j \in S \ {-1} : i <= j
           Last  == CHOOSE i \in S : \A j \in S : i >= j
<1>1. Distr!ThreadRange(S) = <<IF S \subseteq {-1} THEN -1 ELSE First, IF S = {} THEN -1 ELSE 1 + Last>>
  BY DEF Distr!ThreadRange
<1>2. ASSUME a < b PROVE Last = b - 1 /\ S # {} /\ 1 + Last = b
  <2>1. b - 1 \in S /\ \A j \in S : b - 1 >= j
    BY <1>2
  <2>2. Last \in S /\ \A j \in S : Last >= j
    <3> HIDE DEF S
    <3> QED BY <2>1
  <2>3. Last \in Int /\ Last >= b - 1 /\ b - 1 >= Last
    BY <2>1, <2>2
  <2>4. S # {}
    BY <2>1
  <2> HIDE DEF Last, S
  <2> QED BY <2>3, <2>4
<1>3. ASSUME NEW m \in Int, m \in S \ {-1}, \A j \in S \ {-1} : m <= j
      PROVE  First = m /\ ~(S \subseteq {-1})
  <2>1. First \in S \ {-1} /\ \A j \in S \ {-1} : First <= j
    <3> HIDE DEF S
    <3> QED BY <1>3
  <2>2. First \in Int /\ First <= m /\ m <= First
    BY <1>3, <2>1
  <2> HIDE DEF First
  <2> QED BY <1>3, <2>2
<1>4. b <= a => S = {}
  OBVIOUS
<1>5. a = -1 /\ b = 0 => S \subseteq {-1}
  OBVIOUS
<1>6. ASSUME a = -1, b > 0 PROVE First = 0 /\ ~(S \subseteq {-1})
  <2>1. 0 \in S \ {-1} /\ \A j \in S \ {-1} : 0 <= j
    BY <1>6
  <2> HIDE DEF First, S
  <2> QED BY <1>3, <2>1
<1>7. ASSUME a < b, a # -1 PROVE First = a /\ ~(S \subseteq {-1})
  <2>1. a \in S \ {-1} /\ \A j \in S \ {-1} : a <= j
    BY <1>7
  <2> HIDE DEF First, S
  <2> QED BY <1>3, <2>1
<1>8. b <= a => Distr!ThreadRange(S) = <<-1, -1>>
  <2> HIDE DEF First, Last, S
  <2> QED BY <1>1, <1>4
<1>9. a = -1 /\ b = 0 => Distr!ThreadRange(S) = <<-1, 0>>
  <2>1. a = -1 /\ b = 0 => a < b
    OBVIOUS
  <2> HIDE DEF First, Last, S
  <2> QED BY <1>1, <1>2, <1>5, <2>1
<1>10. a = -1 /\ b > 0 => Distr!ThreadRange(S) = <<0, b>>
  <2>1. a = -1 /\ b > 0 => a < b
    OBVIOUS
  <2> HIDE DEF First, Last, S
  <2> QED BY <1>1, <1>2, <1>6, <2>1
<1>11. a < b /\ a # -1 => Distr!ThreadRange(S) = <<a, b>>
  <2> HIDE DEF First, Last, S
  <2> QED BY <1>1, <1>2, <1>7
<1> QED BY <1>8, <1>9, <1>10, <1>11

LEMMA ThreadRangeIsPair ==
  ASSUME NEW a \in Int, NEW b \in Int
  PROVE  Distr!ThreadRange(a .. b - 1) \in Int \X Int
<1>1. b <= a \/ (a = -1 /\ b = 0) \/ (a = -1 /\ b > 0) \/ (a < b /\ a # -1)
  OBVIOUS
<1>2. <<-1, -1>> \in Int \X Int /\ <<-1, 0>> \in Int \X Int /\ <<0, b>> \in Int \X Int /\ <<a, b>> \in Int \X Int
  OBVIOUS
<1> QED BY <1>1, <1>2, ThreadRangeIs

LEMMA DistrStarts == Distr!Init => Distr!IInv
<1> SUFFICES ASSUME Distr!Init PROVE Distr!IInv
  OBVIOUS
<1>1. /\ workers = 0 /\ given = "none" /\ input = <<0, 0>> /\ distr_place = <<>> /\ overall = <<>>
      /\ range_channel = <<>> /\ process_range = <<>> /\ threads_done = <<>> /\ executed = <<>>
      /\ thread_range = <<>>
  BY DEF Distr!Init
<1>2. Distr!Process = {}
  BY <1>1 DEF Distr!Process
<1>3. \A T : <<>> \in [{} -> T]
  OBVIOUS
<1>4. workers \in Nat /\ given \in {"none", "arguments", "stdin"} /\ input \in Int \X Int
  BY <1>1
<1>5. Distr!TypeOK
  BY <1>1, <1>2, <1>3, <1>4 DEF Distr!TypeOK
<1>6. Distr!KnownInv /\ Distr!PartInv
  BY <1>2 DEF Distr!KnownInv, Distr!PartInv
<1> QED BY <1>5, <1>6 DEF Distr!IInv

LEMMA DistrLaunches ==
  ASSUME Distr!IInv, Distr!Launch
  PROVE  Distr!IInv'
<1>1. /\ workers' \in Workers /\ given' \in {"arguments", "stdin"} /\ input' \in Ranges
      /\ distr_place' = [r \in Distr!Process' |-> "start"]
      /\ overall' = [r \in Distr!Process' |-> <<-1, -1>>]
      /\ range_channel' = [r \in Distr!Process' |-> <<>>]
      /\ process_range' = [r \in Distr!Process' |-> <<>>]
      /\ threads_done' = [r \in Distr!Process' |-> {}]
      /\ executed' = [r \in Distr!Process' |-> [t \in Distr!Team |-> {}]]
      /\ thread_range' = [r \in Distr!Process' |-> [t \in Distr!Team |-> <<>>]]
  BY Zenon DEF Distr!Launch
<1>2. workers' \in Nat /\ input' \in Int \X Int /\ <<-1, -1>> \in Int \X Int
  BY <1>1, WorkAssumption DEF Distr!DistrAssumption
<1>3. PICK P : P = Distr!Process'
  OBVIOUS
<1>4. PICK T : T = Distr!Team
  OBVIOUS
<1>5. /\ distr_place' = [r \in P |-> "start"] /\ overall' = [r \in P |-> <<-1, -1>>]
      /\ range_channel' = [r \in P |-> <<>>] /\ process_range' = [r \in P |-> <<>>]
      /\ threads_done' = [r \in P |-> {}] /\ executed' = [r \in P |-> [t \in T |-> {}]]
      /\ thread_range' = [r \in P |-> [t \in T |-> <<>>]]
  BY <1>1, <1>3, <1>4
<1>6. Distr!Team' = T
  BY <1>4 DEF Distr!Team
<1>7. Distr!TypeOK'
  <2>1. /\ [r \in P |-> "start"] \in [P -> {"start", "send", "receive", "broadcast start", "broadcast finish",
                                            "calculate", "parallel", "done"}]
        /\ [r \in P |-> <<-1, -1>>] \in [P -> Int \X Int]
        /\ [r \in P |-> <<>>] \in [P -> {<<>>, input'}]
        /\ [r \in P |-> <<>>] \in [P -> {<<>>} \cup Int \X Int]
        /\ [r \in P |-> {}] \in [P -> SUBSET T]
        /\ [r \in P |-> [t \in T |-> {}]] \in [P -> [T -> SUBSET Int]]
        /\ [r \in P |-> [t \in T |-> <<>>]] \in [P -> [T -> {<<>>} \cup Int \X Int]]
    BY <1>2
  <2> QED BY <1>1, <1>2, <1>3, <1>5, <1>6, <2>1 DEF Distr!TypeOK
<1>8. \A r \in P : /\ distr_place'[r] = "start" /\ process_range'[r] = <<>> /\ threads_done'[r] = {}
                   /\ \A t \in T : executed'[r][t] = {}
  BY <1>5
<1>9. Distr!KnownInv'
  BY <1>3, <1>8 DEF Distr!KnownInv
<1>10. Distr!PartInv'
  BY <1>3, <1>6, <1>8 DEF Distr!PartInv
<1> QED BY <1>7, <1>9, <1>10 DEF Distr!IInv


\* What the processes and their threads have printed and run stays.
LEMMA DistrPartsStay ==
  ASSUME Distr!PartInv,
         UNCHANGED <<distr_version, workers, given, input, process_range,
                     threads_done, executed, thread_range>>,
         \A r \in Distr!Process : distr_place'[r] = "done" /\ Distr!Shared => threads_done[r] = Distr!Team
  PROVE  Distr!PartInv'
<1>1. /\ distr_version' = distr_version /\ workers' = workers /\ given' = given /\ input' = input
      /\ process_range' = process_range
      /\ threads_done' = threads_done /\ executed' = executed /\ thread_range' = thread_range
  OBVIOUS
<1>2. /\ Distr!Process' = Distr!Process /\ Distr!Team' = Distr!Team /\ (Distr!Shared' <=> Distr!Shared)
      /\ \A q, t : Distr!Block(q, t)' = Distr!Block(q, t)
      /\ \A q : Distr!PartStart(q)' = Distr!PartStart(q) /\ Distr!PartFinish(q)' = Distr!PartFinish(q)
  BY <1>1 DEF Distr!Process, Distr!Team, Distr!Shared, Distr!PartStart, Distr!PartFinish, Distr!Block
<1>3. \A q \in Distr!Process : distr_place'[q] = "done" /\ Distr!Shared' => threads_done'[q] = Distr!Team'
  BY <1>1, <1>2
<1>4. \A q \in Distr!Process : process_range'[q] \in {<<>>, <<Distr!PartStart(q)', Distr!PartFinish(q)'>>}
  BY <1>1, <1>2 DEF Distr!PartInv
<1>5. \A q \in Distr!Process, t \in Distr!Team :
        IF t \in threads_done[q]
          THEN /\ executed[q][t] = Distr!Block(q, t)
               /\ thread_range[q][t] =
                    LET range == Distr!ThreadRange(Distr!Block(q, t))
                    IN IF distr_version = "bcast" /\ (range[1] = -1 \/ range[2] = -1) THEN <<>> ELSE range
          ELSE executed[q][t] = {}
  BY Zenon DEF Distr!PartInv
<1>6. \A q \in Distr!Process, t \in Distr!Team :
        IF t \in threads_done'[q]
          THEN /\ executed'[q][t] = Distr!Block(q, t)'
               /\ thread_range'[q][t] =
                    LET range == Distr!ThreadRange(Distr!Block(q, t)')
                    IN IF distr_version' = "bcast" /\ (range[1] = -1 \/ range[2] = -1) THEN <<>> ELSE range
          ELSE executed'[q][t] = {}
  BY <1>1, <1>2, <1>5
<1> HIDE DEF Distr!Block
<1> QED BY <1>2, <1>3, <1>4, <1>6 DEF Distr!PartInv

\* A process goes to another place of the program, with what it knows of the range.
LEMMA DistrMoves ==
  ASSUME Distr!IInv, NEW r \in Distr!Process, NEW o \in Int \X Int,
         NEW p \in {"start", "send", "receive", "broadcast start", "broadcast finish",
                    "calculate", "parallel", "done"},
         distr_place' = [distr_place EXCEPT ![r] = p], overall' = [overall EXCEPT ![r] = o],
         UNCHANGED <<distr_version, workers, given, input, range_channel, process_range,
                     threads_done, executed, thread_range>>,
         Distr!Shared /\ r = 0 => o = input,
         p \in {"calculate", "parallel"} => Distr!Shared /\ o = input,
         p = "send" => r = 0 /\ Distr!Shared,
         p \in {"receive", "broadcast start", "broadcast finish"} => Distr!Shared,
         p = "broadcast finish" => o[1] = input[1],
         p = "done" /\ Distr!Shared => threads_done[r] = Distr!Team
  PROVE  Distr!IInv'
<1>1. Distr!TypeOK /\ Distr!KnownInv /\ Distr!PartInv
  BY DEF Distr!IInv
<1>2. /\ distr_version' = distr_version /\ workers' = workers /\ given' = given /\ input' = input
      /\ range_channel' = range_channel /\ process_range' = process_range
      /\ threads_done' = threads_done /\ executed' = executed /\ thread_range' = thread_range
  OBVIOUS
<1>3. Distr!Process' = Distr!Process /\ Distr!Team' = Distr!Team /\ (Distr!Shared' <=> Distr!Shared)
  BY <1>2 DEF Distr!Process, Distr!Team, Distr!Shared
<1>4. /\ distr_place \in [Distr!Process -> {"start", "send", "receive", "broadcast start", "broadcast finish",
                                            "calculate", "parallel", "done"}]
      /\ overall \in [Distr!Process -> Int \X Int]
  BY <1>1, Zenon DEF Distr!TypeOK
<1>5. /\ \A q \in Distr!Process : distr_place'[q] = IF q = r THEN p ELSE distr_place[q]
      /\ \A q \in Distr!Process : overall'[q] = IF q = r THEN o ELSE overall[q]
      /\ distr_place' \in [Distr!Process -> {"start", "send", "receive", "broadcast start", "broadcast finish",
                                             "calculate", "parallel", "done"}]
      /\ overall' \in [Distr!Process -> Int \X Int]
  BY <1>4
<1>6. Distr!TypeOK'
  <2>1. /\ workers \in Nat /\ given \in {"none", "arguments", "stdin"} /\ input \in Int \X Int
        /\ range_channel \in [Distr!Process -> {<<>>, input}]
        /\ process_range \in [Distr!Process -> {<<>>} \cup Int \X Int]
        /\ threads_done \in [Distr!Process -> SUBSET Distr!Team]
        /\ executed \in [Distr!Process -> [Distr!Team -> SUBSET Int]]
        /\ thread_range \in [Distr!Process -> [Distr!Team -> {<<>>} \cup Int \X Int]]
    BY <1>1, Zenon DEF Distr!TypeOK
  <2>2. /\ workers' \in Nat /\ given' \in {"none", "arguments", "stdin"} /\ input' \in Int \X Int
        /\ range_channel' \in [Distr!Process' -> {<<>>, input'}]
        /\ process_range' \in [Distr!Process' -> {<<>>} \cup Int \X Int]
        /\ threads_done' \in [Distr!Process' -> SUBSET Distr!Team']
        /\ executed' \in [Distr!Process' -> [Distr!Team' -> SUBSET Int]]
        /\ thread_range' \in [Distr!Process' -> [Distr!Team' -> {<<>>} \cup Int \X Int]]
    BY <1>2, <1>3, <2>1
  <2> QED BY <1>3, <1>5, <2>2 DEF Distr!TypeOK
<1>7. Distr!KnownInv'
  <2>1. \A q \in Distr!Process :
          /\ Distr!Shared => (q = 0 /\ distr_place[q] # "start" => overall[q] = input)
          /\ distr_place[q] \in {"calculate", "parallel"} => Distr!Shared /\ overall[q] = input
          /\ distr_place[q] = "send" => q = 0 /\ Distr!Shared
          /\ distr_place[q] \in {"receive", "broadcast start", "broadcast finish"} => Distr!Shared
          /\ distr_place[q] = "broadcast finish" => overall[q][1] = input[1]
    BY <1>1 DEF Distr!KnownInv
  <2>2. \A q \in Distr!Process :
          /\ Distr!Shared => (q = 0 /\ distr_place'[q] # "start" => overall'[q] = input)
          /\ distr_place'[q] \in {"calculate", "parallel"} => Distr!Shared /\ overall'[q] = input
          /\ distr_place'[q] = "send" => q = 0 /\ Distr!Shared
          /\ distr_place'[q] \in {"receive", "broadcast start", "broadcast finish"} => Distr!Shared
          /\ distr_place'[q] = "broadcast finish" => overall'[q][1] = input[1]
    BY <1>5, <2>1
  <2>3. /\ \A q \in Distr!Process' :
             /\ distr_place'[q] \in {"calculate", "parallel"} => Distr!Shared' /\ overall'[q] = input'
             /\ distr_place'[q] = "send" => q = 0 /\ Distr!Shared'
             /\ distr_place'[q] \in {"receive", "broadcast start", "broadcast finish"} => Distr!Shared'
             /\ distr_place'[q] = "broadcast finish" => overall'[q][1] = input'[1]
        /\ Distr!Shared' => \A q \in Distr!Process' : q = 0 /\ distr_place'[q] # "start" => overall'[q] = input'
    BY <1>2, <1>3, <2>2
  <2> QED BY Zenon, <2>3 DEF Distr!KnownInv
<1>8. Distr!PartInv'
  <2>1. \A q \in Distr!Process : distr_place'[q] = "done" /\ Distr!Shared => threads_done[q] = Distr!Team
    BY <1>1, <1>5 DEF Distr!PartInv
  <2> QED BY <1>1, <1>2, <2>1, DistrPartsStay
<1> QED BY <1>6, <1>7, <1>8 DEF Distr!IInv

LEMMA DistrReads ==
  ASSUME Distr!IInv, NEW r \in Distr!Process, Distr!ReadRange(r)
  PROVE  Distr!IInv'
<1>1. Distr!TypeOK /\ distr_place[r] = "start"
  BY DEF Distr!IInv, Distr!ReadRange
<1>2. overall[r] \in Int \X Int /\ input \in Int \X Int
  BY <1>1 DEF Distr!TypeOK
<1>3. overall \in [Distr!Process -> Int \X Int]
  BY <1>1, Zenon DEF Distr!TypeOK
<1>4. PICK o : o = IF given = "arguments" \/ (r = 0 /\ distr_version # "arg") THEN input ELSE overall[r]
  OBVIOUS
<1>5. o \in Int \X Int /\ overall' = [overall EXCEPT ![r] = o]
  BY <1>2, <1>3, <1>4 DEF Distr!ReadRange
<1>6. UNCHANGED <<distr_version, workers, given, input, range_channel, process_range,
                  threads_done, executed, thread_range>>
  BY DEF Distr!ReadRange, Distr!launched, Distr!teams
<1>7. Distr!Shared /\ r = 0 => o = input
  BY <1>4 DEF Distr!Shared
<1>8. CASE given = "arguments"
  <2>1. distr_place' = [distr_place EXCEPT ![r] = "calculate"]
    BY <1>8 DEF Distr!ReadRange, Distr!GoTo
  <2>2. Distr!Shared /\ o = input
    BY <1>4, <1>8 DEF Distr!Shared
  <2> QED BY <1>5, <1>6, <1>7, <2>1, <2>2, DistrMoves
<1>9. CASE given # "arguments" /\ distr_version = "arg"
  <2>1. distr_place' = [distr_place EXCEPT ![r] = "done"]
    BY <1>9 DEF Distr!ReadRange, Distr!GoTo
  <2>2. ~Distr!Shared
    BY <1>9 DEF Distr!Shared
  <2> QED BY <1>5, <1>6, <1>7, <2>1, <2>2, DistrMoves
<1>10. CASE given # "arguments" /\ distr_version = "bcast"
  <2>1. distr_place' = [distr_place EXCEPT ![r] = "broadcast start"]
    BY <1>10 DEF Distr!ReadRange, Distr!GoTo
  <2>2. Distr!Shared
    BY <1>10 DEF Distr!Shared
  <2> QED BY <1>5, <1>6, <1>7, <2>1, <2>2, DistrMoves
<1>11. CASE given # "arguments" /\ distr_version \notin {"arg", "bcast"}
  <2>1. distr_place' = [distr_place EXCEPT ![r] = IF r = 0 THEN "send" ELSE "receive"]
    BY <1>11 DEF Distr!ReadRange, Distr!GoTo
  <2>2. Distr!Shared
    BY <1>11 DEF Distr!Shared
  <2>3. CASE r = 0
    BY <1>5, <1>6, <1>7, <2>1, <2>2, <2>3, DistrMoves
  <2>4. CASE r # 0
    BY <1>5, <1>6, <1>7, <2>1, <2>2, <2>4, DistrMoves
  <2> QED BY <2>3, <2>4
<1> QED BY <1>8, <1>9, <1>10, <1>11

LEMMA DistrSends ==
  ASSUME Distr!IInv, NEW r \in Distr!Process, Distr!SendRange(r)
  PROVE  Distr!IInv'
<1>1. Distr!TypeOK /\ Distr!KnownInv /\ Distr!PartInv /\ distr_place[r] = "send"
  BY DEF Distr!IInv, Distr!SendRange
<1>2. /\ UNCHANGED <<distr_version, workers, given, input, process_range,
                     threads_done, executed, thread_range>>
      /\ overall' = overall
  BY DEF Distr!SendRange, Distr!launched, Distr!teams
<1>3. overall \in [Distr!Process -> Int \X Int] /\ range_channel \in [Distr!Process -> {<<>>, input}]
  BY <1>1, Zenon DEF Distr!TypeOK
<1>4. r = 0 /\ Distr!Shared /\ overall[r] = input
  BY <1>1 DEF Distr!KnownInv
<1>5. CASE distr_place' = [distr_place EXCEPT ![r] = "calculate"] /\ range_channel' = range_channel
  <2>1. overall' = [overall EXCEPT ![r] = input] /\ input \in Int \X Int
    BY <1>2, <1>3, <1>4
  <2> QED BY <1>2, <1>4, <1>5, <2>1, DistrMoves
<1>6. ASSUME NEW destination, range_channel' = [range_channel EXCEPT ![destination] = overall[r]],
             distr_place' = distr_place
      PROVE  Distr!IInv'
  <2>1. range_channel' \in [Distr!Process -> {<<>>, input}]
    BY <1>3, <1>4, <1>6
  <2>2. Distr!Process' = Distr!Process /\ Distr!Team' = Distr!Team /\ (Distr!Shared' <=> Distr!Shared)
    BY <1>2 DEF Distr!Process, Distr!Team, Distr!Shared
  <2>3. Distr!TypeOK'
    <3>1. /\ workers \in Nat /\ given \in {"none", "arguments", "stdin"}
          /\ distr_place \in [Distr!Process -> {"start", "send", "receive", "broadcast start",
                                                "broadcast finish", "calculate", "parallel", "done"}]
          /\ process_range \in [Distr!Process -> {<<>>} \cup Int \X Int]
          /\ threads_done \in [Distr!Process -> SUBSET Distr!Team]
          /\ executed \in [Distr!Process -> [Distr!Team -> SUBSET Int]]
          /\ thread_range \in [Distr!Process -> [Distr!Team -> {<<>>} \cup Int \X Int]]
      BY <1>1, Zenon DEF Distr!TypeOK
    <3>2. /\ workers' \in Nat /\ given' \in {"none", "arguments", "stdin"} /\ input' \in Int \X Int
          /\ distr_place' \in [Distr!Process' -> {"start", "send", "receive", "broadcast start",
                                                  "broadcast finish", "calculate", "parallel", "done"}]
          /\ overall' \in [Distr!Process' -> Int \X Int]
          /\ range_channel' \in [Distr!Process' -> {<<>>, input'}]
          /\ process_range' \in [Distr!Process' -> {<<>>} \cup Int \X Int]
          /\ threads_done' \in [Distr!Process' -> SUBSET Distr!Team']
          /\ executed' \in [Distr!Process' -> [Distr!Team' -> SUBSET Int]]
          /\ thread_range' \in [Distr!Process' -> [Distr!Team' -> {<<>>} \cup Int \X Int]]
      BY <1>2, <1>3, <1>4, <1>6, <2>1, <2>2, <3>1
    <3> QED BY <3>2 DEF Distr!TypeOK
  <2>4. Distr!KnownInv'
    BY <1>1, <1>2, <1>6, <2>2 DEF Distr!KnownInv
  <2>5. \A q \in Distr!Process : distr_place'[q] = "done" /\ Distr!Shared => threads_done[q] = Distr!Team
    BY <1>1, <1>6 DEF Distr!PartInv
  <2>6. Distr!PartInv'
    BY <1>1, <1>2, <2>5, DistrPartsStay
  <2> QED BY <2>3, <2>4, <2>6 DEF Distr!IInv
<1> QED BY <1>5, <1>6 DEF Distr!SendRange, Distr!GoTo

\* An end of the range that process 0 broadcasts.
LEMMA DistrBroadcasts ==
  ASSUME Distr!IInv, NEW r \in Distr!Process, Distr!Broadcast(r)
  PROVE  Distr!IInv'
<1>1. Distr!TypeOK /\ Distr!KnownInv /\ Distr!PartInv
  BY DEF Distr!IInv
<1>2. PICK end : end = IF distr_place[r] = "broadcast start" THEN 1 ELSE 2
  OBVIOUS
<1>3. /\ distr_place[r] \in {"broadcast start", "broadcast finish"}
      /\ r = 0 \/ distr_place[0] # "start"
      /\ overall' = [overall EXCEPT ![r][end] = overall[0][end]]
      /\ distr_place' = [distr_place EXCEPT ![r] = IF end = 1 THEN "broadcast finish" ELSE "calculate"]
      /\ UNCHANGED <<distr_version, workers, given, input, range_channel, process_range,
                     threads_done, executed, thread_range>>
  BY <1>2 DEF Distr!Broadcast, Distr!GoTo, Distr!launched, Distr!teams
<1>4. workers \in Nat /\ input \in Int \X Int /\ overall \in [Distr!Process -> Int \X Int]
  BY <1>1, Zenon DEF Distr!TypeOK
<1>5. 0 \in Distr!Process
  BY <1>4 DEF Distr!Process
<1>6. Distr!Shared /\ overall[0] = input
  <2>1. Distr!Shared
    BY <1>1, <1>3 DEF Distr!KnownInv
  <2>2. distr_place[0] # "start"
    BY <1>3
  <2> QED BY <1>1, <1>5, <2>1, <2>2 DEF Distr!KnownInv
<1>7. \A o \in Int \X Int, e \in Int : [o EXCEPT ![1] = e] = <<e, o[2]>> /\ [o EXCEPT ![2] = e] = <<o[1], e>>
  OBVIOUS
<1>8. overall[r] \in Int \X Int /\ input[1] \in Int /\ input[2] \in Int /\ overall[r][1] \in Int /\ overall[r][2] \in Int
  BY <1>4
<1>9. CASE distr_place[r] = "broadcast start"
  <2>6. end = 1
    BY <1>2, <1>9
  <2>1. overall' = [overall EXCEPT ![r] = <<input[1], overall[r][2]>>]
    BY <1>3, <1>4, <1>6, <1>7, <1>8, <2>6
  <2>2. r = 0 => overall[r] = input
    BY <1>6
  <2>3. /\ <<input[1], overall[r][2]>> \in Int \X Int /\ <<input[1], overall[r][2]>>[1] = input[1]
        /\ r = 0 => <<input[1], overall[r][2]>> = input
    BY <1>4, <1>8, <2>2
  <2>4. PICK o : o = <<input[1], overall[r][2]>>
    OBVIOUS
  <2> QED BY <1>3, <1>6, <2>6, <2>1, <2>3, <2>4, DistrMoves
<1>10. CASE distr_place[r] = "broadcast finish"
  <2>1. end = 2
    BY <1>2, <1>10
  <2>2. overall[r][1] = input[1]
    BY <1>1, <1>10 DEF Distr!KnownInv
  <2>3. overall' = [overall EXCEPT ![r] = <<overall[r][1], input[2]>>]
    BY <1>3, <1>4, <1>6, <1>7, <1>8, <2>1
  <2>4. <<overall[r][1], input[2]>> = input
    BY <1>4, <2>2
  <2>5. overall' = [overall EXCEPT ![r] = input]
    BY <2>3, <2>4
  <2> QED BY <1>3, <1>4, <1>6, <2>1, <2>5, DistrMoves
<1> QED BY <1>3, <1>9, <1>10

LEMMA DistrReceives ==
  ASSUME Distr!IInv, NEW r \in Distr!Process, Distr!ReceiveRange(r)
  PROVE  Distr!IInv'
<1>1. Distr!TypeOK /\ Distr!KnownInv
  BY DEF Distr!IInv
<1>2. /\ distr_place[r] = "receive" /\ range_channel[r] # <<>>
      /\ overall' = [overall EXCEPT ![r] = range_channel[r]]
      /\ distr_place' = [distr_place EXCEPT ![r] = "calculate"]
      /\ UNCHANGED <<distr_version, workers, given, input, range_channel, process_range,
                     threads_done, executed, thread_range>>
  BY DEF Distr!ReceiveRange, Distr!GoTo, Distr!launched, Distr!teams
<1>3. input \in Int \X Int /\ range_channel \in [Distr!Process -> {<<>>, input}]
  BY <1>1, Zenon DEF Distr!TypeOK
<1>4. range_channel[r] = input
  BY <1>2, <1>3
<1>5. Distr!Shared
  BY <1>1, <1>2 DEF Distr!KnownInv
<1>6. overall' = [overall EXCEPT ![r] = input]
  BY <1>2, <1>4
<1> QED BY <1>2, <1>3, <1>5, <1>6, DistrMoves

LEMMA DistrEnds ==
  ASSUME Distr!IInv, NEW r \in Distr!Process, Distr!EndTeam(r)
  PROVE  Distr!IInv'
<1>1. Distr!TypeOK /\ Distr!KnownInv
  BY DEF Distr!IInv
<1>2. /\ distr_place[r] = "parallel" /\ threads_done[r] = Distr!Team
      /\ overall' = overall /\ distr_place' = [distr_place EXCEPT ![r] = "done"]
      /\ UNCHANGED <<distr_version, workers, given, input, range_channel, process_range,
                     threads_done, executed, thread_range>>
  BY DEF Distr!EndTeam, Distr!GoTo, Distr!launched, Distr!teams
<1>3. input \in Int \X Int /\ overall \in [Distr!Process -> Int \X Int]
  BY <1>1, Zenon DEF Distr!TypeOK
<1>4. overall[r] = input
  BY <1>1, <1>2 DEF Distr!KnownInv
<1>5. overall' = [overall EXCEPT ![r] = input]
  BY <1>2, <1>3, <1>4
<1> QED BY <1>2, <1>3, <1>5, DistrMoves


LEMMA DistrCalculates ==
  ASSUME Distr!IInv, NEW r \in Distr!Process, Distr!CalculateRange(r)
  PROVE  Distr!IInv'
<1>1. Distr!TypeOK /\ Distr!KnownInv /\ Distr!PartInv /\ distr_place[r] = "calculate"
  BY DEF Distr!IInv, Distr!CalculateRange
<1>2. /\ distr_version' = distr_version /\ workers' = workers /\ given' = given /\ input' = input
      /\ overall' = overall /\ range_channel' = range_channel
      /\ threads_done' = threads_done /\ executed' = executed /\ thread_range' = thread_range
      /\ process_range' = [process_range EXCEPT ![r] = <<Distr!ProcessStart(r), Distr!ProcessFinish(r)>>]
      /\ distr_place' = [distr_place EXCEPT ![r] = "parallel"]
  BY DEF Distr!CalculateRange, Distr!GoTo, Distr!launched, Distr!teams
<1>3. Distr!Shared /\ overall[r] = input
  BY <1>1 DEF Distr!KnownInv
<1>4. Distr!ProcessStart(r) = Distr!PartStart(r) /\ Distr!ProcessFinish(r) = Distr!PartFinish(r)
  BY <1>3 DEF Distr!ProcessStart, Distr!ProcessFinish, Distr!PartStart, Distr!PartFinish
<1>5. /\ workers \in Nat /\ input \in Int \X Int /\ given \in {"none", "arguments", "stdin"}
      /\ distr_place \in [Distr!Process -> {"start", "send", "receive", "broadcast start", "broadcast finish",
                                            "calculate", "parallel", "done"}]
      /\ overall \in [Distr!Process -> Int \X Int]
      /\ range_channel \in [Distr!Process -> {<<>>, input}]
      /\ process_range \in [Distr!Process -> {<<>>} \cup Int \X Int]
      /\ threads_done \in [Distr!Process -> SUBSET Distr!Team]
      /\ executed \in [Distr!Process -> [Distr!Team -> SUBSET Int]]
      /\ thread_range \in [Distr!Process -> [Distr!Team -> {<<>>} \cup Int \X Int]]
  BY <1>1, Zenon DEF Distr!TypeOK
<1>6. PICK part : part = <<Distr!PartStart(r), Distr!PartFinish(r)>>
  OBVIOUS
<1>7. part \in {<<>>} \cup Int \X Int
  <2>1. Distr!PartStart(r) \in Int /\ Distr!PartFinish(r) \in Int
    BY <1>5, BlocksOfRange
  <2> QED BY <1>6, <2>1
<1>8. /\ \A q \in Distr!Process : distr_place'[q] = IF q = r THEN "parallel" ELSE distr_place[q]
      /\ \A q \in Distr!Process : process_range'[q] = IF q = r THEN part ELSE process_range[q]
      /\ distr_place' \in [Distr!Process -> {"start", "send", "receive", "broadcast start", "broadcast finish",
                                             "calculate", "parallel", "done"}]
      /\ process_range' \in [Distr!Process -> {<<>>} \cup Int \X Int]
  BY <1>2, <1>4, <1>5, <1>6, <1>7
<1>9. /\ Distr!Process' = Distr!Process /\ Distr!Team' = Distr!Team /\ (Distr!Shared' <=> Distr!Shared)
      /\ \A q, t : Distr!Block(q, t)' = Distr!Block(q, t)
      /\ \A q : Distr!PartStart(q)' = Distr!PartStart(q) /\ Distr!PartFinish(q)' = Distr!PartFinish(q)
  BY <1>2 DEF Distr!Process, Distr!Team, Distr!Shared, Distr!PartStart, Distr!PartFinish, Distr!Block
<1>10. Distr!TypeOK'
  <2>1. /\ workers' \in Nat /\ given' \in {"none", "arguments", "stdin"} /\ input' \in Int \X Int
        /\ distr_place' \in [Distr!Process' -> {"start", "send", "receive", "broadcast start",
                                                "broadcast finish", "calculate", "parallel", "done"}]
        /\ overall' \in [Distr!Process' -> Int \X Int]
        /\ range_channel' \in [Distr!Process' -> {<<>>, input'}]
        /\ process_range' \in [Distr!Process' -> {<<>>} \cup Int \X Int]
        /\ threads_done' \in [Distr!Process' -> SUBSET Distr!Team']
        /\ executed' \in [Distr!Process' -> [Distr!Team' -> SUBSET Int]]
        /\ thread_range' \in [Distr!Process' -> [Distr!Team' -> {<<>>} \cup Int \X Int]]
    BY <1>2, <1>5, <1>8, <1>9
  <2> QED BY <2>1 DEF Distr!TypeOK
<1>11. Distr!KnownInv'
  <2>1. /\ \A q \in Distr!Process :
             /\ distr_place'[q] \in {"calculate", "parallel"} => Distr!Shared /\ overall[q] = input
             /\ distr_place'[q] = "send" => q = 0 /\ Distr!Shared
             /\ distr_place'[q] \in {"receive", "broadcast start", "broadcast finish"} => Distr!Shared
             /\ distr_place'[q] = "broadcast finish" => overall[q][1] = input[1]
        /\ Distr!Shared => \A q \in Distr!Process : q = 0 /\ distr_place'[q] # "start" => overall[q] = input
    BY <1>1, <1>3, <1>8 DEF Distr!KnownInv
  <2> QED BY <1>2, <1>9, <2>1 DEF Distr!KnownInv
<1>12. Distr!PartInv'
  <2>1. \A q \in Distr!Process : distr_place'[q] = "done" /\ Distr!Shared' => threads_done'[q] = Distr!Team'
    BY <1>1, <1>2, <1>8, <1>9 DEF Distr!PartInv
  <2>2. \A q \in Distr!Process : process_range'[q] \in {<<>>, <<Distr!PartStart(q)', Distr!PartFinish(q)'>>}
    BY <1>1, <1>6, <1>8, <1>9 DEF Distr!PartInv
  <2>3. \A q \in Distr!Process, t \in Distr!Team :
          IF t \in threads_done[q]
            THEN /\ executed[q][t] = Distr!Block(q, t)
                 /\ thread_range[q][t] =
                      LET range == Distr!ThreadRange(Distr!Block(q, t))
                      IN IF distr_version = "bcast" /\ (range[1] = -1 \/ range[2] = -1) THEN <<>> ELSE range
            ELSE executed[q][t] = {}
    BY <1>1, Zenon DEF Distr!PartInv
  <2>4. \A q \in Distr!Process, t \in Distr!Team :
          IF t \in threads_done'[q]
            THEN /\ executed'[q][t] = Distr!Block(q, t)'
                 /\ thread_range'[q][t] =
                      LET range == Distr!ThreadRange(Distr!Block(q, t)')
                      IN IF distr_version' = "bcast" /\ (range[1] = -1 \/ range[2] = -1) THEN <<>> ELSE range
            ELSE executed'[q][t] = {}
    BY <1>2, <1>9, <2>3
  <2> QED BY <1>9, <2>1, <2>2, <2>4 DEF Distr!PartInv
<1> QED BY <1>10, <1>11, <1>12 DEF Distr!IInv

LEMMA DistrRuns ==
  ASSUME Distr!IInv, NEW r \in Distr!Process, NEW u \in Distr!Team, Distr!ThreadTask(r, u)
  PROVE  Distr!IInv'
<1>1. Distr!TypeOK /\ Distr!KnownInv /\ Distr!PartInv /\ distr_place[r] = "parallel"
  BY DEF Distr!IInv, Distr!ThreadTask
<1>2. Distr!Shared /\ overall[r] = input
  BY <1>1 DEF Distr!KnownInv
<1>3. Distr!OmpBlock(Distr!ProcessStart(r), Distr!ProcessFinish(r), u) = Distr!Block(r, u)
  BY <1>2 DEF Distr!ProcessStart, Distr!ProcessFinish, Distr!PartStart, Distr!PartFinish, Distr!Block
<1>4. PICK note : note = LET range == Distr!ThreadRange(Distr!Block(r, u))
                         IN IF distr_version = "bcast" /\ (range[1] = -1 \/ range[2] = -1) THEN <<>> ELSE range
  OBVIOUS
<1>5. PICK run : run = Distr!Block(r, u)
  OBVIOUS
<1>6. /\ distr_version' = distr_version /\ workers' = workers /\ given' = given /\ input' = input
      /\ distr_place' = distr_place /\ overall' = overall /\ range_channel' = range_channel
      /\ process_range' = process_range
      /\ threads_done' = [threads_done EXCEPT ![r] = threads_done[r] \cup {u}]
      /\ executed' = [executed EXCEPT ![r][u] = run]
      /\ thread_range' = [thread_range EXCEPT ![r][u] = note]
  BY <1>3, <1>4, <1>5 DEF Distr!ThreadTask, Distr!launched
<1>7. /\ workers \in Nat /\ input \in Int \X Int /\ given \in {"none", "arguments", "stdin"}
      /\ distr_place \in [Distr!Process -> {"start", "send", "receive", "broadcast start", "broadcast finish",
                                            "calculate", "parallel", "done"}]
      /\ overall \in [Distr!Process -> Int \X Int]
      /\ range_channel \in [Distr!Process -> {<<>>, input}]
      /\ process_range \in [Distr!Process -> {<<>>} \cup Int \X Int]
      /\ threads_done \in [Distr!Process -> SUBSET Distr!Team]
      /\ executed \in [Distr!Process -> [Distr!Team -> SUBSET Int]]
      /\ thread_range \in [Distr!Process -> [Distr!Team -> {<<>>} \cup Int \X Int]]
  BY <1>1, Zenon DEF Distr!TypeOK
<1>8. run \in SUBSET Int /\ note \in {<<>>} \cup Int \X Int
  <2>1. PICK lo \in Int, hi \in Int : Distr!Block(r, u) = lo .. hi - 1
    <3>1. \A q \in Distr!Process, t \in Distr!Team : \E lo, hi \in Int : Distr!Block(q, t) = lo .. hi - 1
      BY <1>7, BlocksOfRange
    <3> QED BY <3>1, Zenon
  <2>2. lo .. hi - 1 \in SUBSET Int
    BY <2>1
  <2>3. Distr!ThreadRange(Distr!Block(r, u)) \in Int \X Int
    BY <2>1, ThreadRangeIsPair
  <2> QED BY <1>4, <1>5, <2>1, <2>2, <2>3
<1>9. /\ \A q \in Distr!Process : threads_done'[q] = IF q = r THEN threads_done[q] \cup {u} ELSE threads_done[q]
      /\ \A q \in Distr!Process, t \in Distr!Team :
           /\ executed'[q][t] = IF q = r /\ t = u THEN run ELSE executed[q][t]
           /\ thread_range'[q][t] = IF q = r /\ t = u THEN note ELSE thread_range[q][t]
      /\ threads_done' \in [Distr!Process -> SUBSET Distr!Team]
      /\ executed' \in [Distr!Process -> [Distr!Team -> SUBSET Int]]
      /\ thread_range' \in [Distr!Process -> [Distr!Team -> {<<>>} \cup Int \X Int]]
  <2>1. threads_done' \in [Distr!Process -> SUBSET Distr!Team]
    BY <1>6, <1>7
  <2>2. executed' \in [Distr!Process -> [Distr!Team -> SUBSET Int]]
    BY <1>6, <1>7, <1>8
  <2>3. thread_range' \in [Distr!Process -> [Distr!Team -> {<<>>} \cup Int \X Int]]
    BY <1>6, <1>7, <1>8
  <2>4. \A q \in Distr!Process : threads_done'[q] = IF q = r THEN threads_done[q] \cup {u} ELSE threads_done[q]
    BY <1>6, <1>7
  <2>5. \A q \in Distr!Process, t \in Distr!Team : executed'[q][t] = IF q = r /\ t = u THEN run ELSE executed[q][t]
    BY <1>6, <1>7
  <2>6. \A q \in Distr!Process, t \in Distr!Team :
          thread_range'[q][t] = IF q = r /\ t = u THEN note ELSE thread_range[q][t]
    BY <1>6, <1>7
  <2> QED BY <2>1, <2>2, <2>3, <2>4, <2>5, <2>6
<1>10. /\ Distr!Process' = Distr!Process /\ Distr!Team' = Distr!Team /\ (Distr!Shared' <=> Distr!Shared)
       /\ \A q, t : Distr!Block(q, t)' = Distr!Block(q, t)
       /\ \A q : Distr!PartStart(q)' = Distr!PartStart(q) /\ Distr!PartFinish(q)' = Distr!PartFinish(q)
  BY <1>6 DEF Distr!Process, Distr!Team, Distr!Shared, Distr!PartStart, Distr!PartFinish, Distr!Block
<1>11. Distr!TypeOK'
  <2>1. /\ workers' \in Nat /\ given' \in {"none", "arguments", "stdin"} /\ input' \in Int \X Int
        /\ distr_place' \in [Distr!Process' -> {"start", "send", "receive", "broadcast start",
                                                "broadcast finish", "calculate", "parallel", "done"}]
        /\ overall' \in [Distr!Process' -> Int \X Int]
        /\ range_channel' \in [Distr!Process' -> {<<>>, input'}]
        /\ process_range' \in [Distr!Process' -> {<<>>} \cup Int \X Int]
        /\ threads_done' \in [Distr!Process' -> SUBSET Distr!Team']
        /\ executed' \in [Distr!Process' -> [Distr!Team' -> SUBSET Int]]
        /\ thread_range' \in [Distr!Process' -> [Distr!Team' -> {<<>>} \cup Int \X Int]]
    BY <1>6, <1>7, <1>9, <1>10
  <2> QED BY <2>1 DEF Distr!TypeOK
<1>12. Distr!KnownInv'
  BY <1>1, <1>6, <1>10 DEF Distr!KnownInv
<1>13. Distr!PartInv'
  <2>1. \A q \in Distr!Process : distr_place'[q] = "done" /\ Distr!Shared' => threads_done'[q] = Distr!Team'
    BY <1>1, <1>6, <1>9, <1>10 DEF Distr!PartInv
  <2>2. \A q \in Distr!Process : process_range'[q] \in {<<>>, <<Distr!PartStart(q)', Distr!PartFinish(q)'>>}
    BY <1>1, <1>6, <1>10 DEF Distr!PartInv
  <2>3. \A q \in Distr!Process, t \in Distr!Team :
          IF t \in threads_done[q]
            THEN /\ executed[q][t] = Distr!Block(q, t)
                 /\ thread_range[q][t] =
                      LET range == Distr!ThreadRange(Distr!Block(q, t))
                      IN IF distr_version = "bcast" /\ (range[1] = -1 \/ range[2] = -1) THEN <<>> ELSE range
            ELSE executed[q][t] = {}
    BY <1>1, Zenon DEF Distr!PartInv
  <2>4. ASSUME NEW q \in Distr!Process, NEW t \in Distr!Team
        PROVE  IF t \in threads_done'[q]
                 THEN /\ executed'[q][t] = Distr!Block(q, t)
                      /\ thread_range'[q][t] =
                           LET range == Distr!ThreadRange(Distr!Block(q, t))
                           IN IF distr_version = "bcast" /\ (range[1] = -1 \/ range[2] = -1) THEN <<>> ELSE range
                 ELSE executed'[q][t] = {}
    <3>1. CASE q = r /\ t = u
      <4>1. t \in threads_done'[q] /\ executed'[q][t] = run /\ thread_range'[q][t] = note
        BY <1>9, <3>1
      <4> QED BY <1>4, <1>5, <3>1, <4>1
    <3>2. CASE ~(q = r /\ t = u)
      <4>1. /\ t \in threads_done'[q] <=> t \in threads_done[q]
            /\ executed'[q][t] = executed[q][t] /\ thread_range'[q][t] = thread_range[q][t]
        BY <1>9, <3>2
      <4> QED BY <2>3, <4>1
    <3> QED BY <3>1, <3>2
  <2>5. \A q \in Distr!Process, t \in Distr!Team :
          IF t \in threads_done'[q]
            THEN /\ executed'[q][t] = Distr!Block(q, t)'
                 /\ thread_range'[q][t] =
                      LET range == Distr!ThreadRange(Distr!Block(q, t)')
                      IN IF distr_version' = "bcast" /\ (range[1] = -1 \/ range[2] = -1) THEN <<>> ELSE range
            ELSE executed'[q][t] = {}
    BY <1>6, <1>10, <2>4
  <2> QED BY <1>10, <2>1, <2>2, <2>5 DEF Distr!PartInv
<1> QED BY <1>11, <1>12, <1>13 DEF Distr!IInv

LEMMA DistrStep == Distr!IInv /\ [Distr!Next]_(Distr!distrVars) => Distr!IInv'
<1> SUFFICES ASSUME Distr!IInv, [Distr!Next]_(Distr!distrVars) PROVE Distr!IInv'
  OBVIOUS
<1>1. CASE UNCHANGED Distr!distrVars
  <2>1. UNCHANGED <<distr_version, workers, given, input, distr_place, overall, range_channel,
                    process_range, threads_done, executed, thread_range>>
    BY <1>1 DEF Distr!distrVars, Distr!launched, Distr!teams
  <2> QED BY <2>1 DEF Distr!IInv, Distr!TypeOK, Distr!KnownInv, Distr!PartInv, Distr!Shared, Distr!Process,
                      Distr!Team, Distr!Block, Distr!PartStart, Distr!PartFinish
<1>2. ASSUME NEW r \in Distr!Process, Distr!ProcessStep(r) PROVE Distr!IInv'
  BY <1>2, DistrReads, DistrSends, DistrReceives, DistrBroadcasts, DistrCalculates, DistrEnds, DistrRuns
     DEF Distr!ProcessStep
<1> QED BY <1>1, <1>2, DistrLaunches DEF Distr!Next


LEMMA DistrCardinalities == \A S : Distr!Cardinality(S) = Cardinality(S)
BY DEF Distr!Cardinality, Cardinality

LEMMA OneElement == \A x : Cardinality({x}) = 1
BY FS_Singleton

LEMMA BlocksApart ==
  ASSUME workers \in Nat, input \in Int \X Int
  PROVE  \A x, z \in Distr!Process, y, w \in Distr!Team, j \in Int :
           j \in Distr!Block(x, y) /\ j \in Distr!Block(z, w) => x = z /\ y = w
BY BlocksOfRange, Zenon

LEMMA IndexesAreRunOnce == Distr!IInv => Distr!IndexesRunOnce
<1> SUFFICES ASSUME Distr!IInv PROVE Distr!IndexesRunOnce
  OBVIOUS
<1> DEFINE begin  == input[1]
           end    == input[2]
           shown == {r \in DOMAIN process_range : process_range[r] # <<>>}
           runners(i) == {p \in Distr!Process \X Distr!Team : i \in executed[p[1]][p[2]]}
<1>1. Distr!TypeOK /\ Distr!KnownInv /\ Distr!PartInv
  BY DEF Distr!IInv
<1>2. /\ workers \in Nat /\ input \in Int \X Int /\ begin \in Int /\ end \in Int
      /\ Distr!Process = 0 .. workers - 1
      /\ DOMAIN process_range = Distr!Process /\ DOMAIN executed = Distr!Process
      /\ \A r \in Distr!Process : DOMAIN executed[r] = Distr!Team
  BY <1>1 DEF Distr!TypeOK, Distr!Process
<1>3. ASSUME begin <= end, NEW r \in shown, NEW q \in shown
      PROVE  /\ r = 0 => process_range[r][1] = begin
             /\ r = workers - 1 => process_range[r][2] = end
             /\ q = r + 1 => process_range[r][2] = process_range[q][1]
             /\ (process_range[r][2] - process_range[r][1])
                  - (process_range[q][2] - process_range[q][1]) \in {0, 1, -1}
  <2> DEFINE from(x) == Distr!calculate_start(x, end, workers, begin)
  <2>1. r \in Distr!Process /\ q \in Distr!Process /\ workers \in Nat \ {0}
    BY <1>2
  <2>2. /\ process_range[r] = <<from(r), from(r + 1)>>
        /\ process_range[q] = <<from(q), from(q + 1)>>
    BY <1>1, <2>1 DEF Distr!PartInv, Distr!PartStart, Distr!PartFinish, Distr!calculate_finish
  <2>3. /\ from(0) = begin /\ from(workers) = end
        /\ \A x, y \in 0 .. workers - 1 : (from(x + 1) - from(x)) - (from(y + 1) - from(y)) \in {0, 1, -1}
    <3> HIDE DEF begin, end
    <3> QED BY <1>2, <1>3, <2>1, PartsInOrder
  <2> HIDE DEF from, begin, end
  <2>4. r = 0 => process_range[r][1] = begin
    BY <2>2, <2>3
  <2>5. r = workers - 1 => process_range[r][2] = end
    <3>1. r = workers - 1 => r + 1 = workers
      BY <1>2
    <3> QED BY <2>2, <2>3, <3>1
  <2>6. q = r + 1 => process_range[r][2] = process_range[q][1]
    BY <2>2
  <2>7. (from(r + 1) - from(r)) - (from(q + 1) - from(q)) \in {0, 1, -1}
    BY <1>2, <2>1, <2>3
  <2> QED BY <2>2, <2>4, <2>5, <2>6, <2>7
<1>4. \A i : \A r \in Distr!Process, t \in Distr!Team : i \in executed[r][t] => i \in Distr!Block(r, t) /\ i \in Int
  <2>1. \A r \in Distr!Process, t \in Distr!Team : executed[r][t] = Distr!Block(r, t) \/ executed[r][t] = {}
    BY <1>1, Zenon DEF Distr!PartInv
  <2>2. \A r \in Distr!Process, t \in Distr!Team : executed[r][t] \subseteq Int
    BY <1>1 DEF Distr!TypeOK
  <2> QED BY <2>1, <2>2
<1>5. ASSUME NEW r \in Distr!Process, NEW t \in Distr!Team, NEW i \in executed[r][t]
      PROVE  i \in begin .. end - 1 /\ Distr!Cardinality(runners(i)) = 1
  <2>2. i \in Distr!Block(r, t) /\ i \in Int
    BY <1>4
  <2>3. i \in begin .. end - 1
    <3>1. \A x \in Distr!Process, y \in Distr!Team : Distr!Block(x, y) \subseteq input[1] .. input[2] - 1
      BY <1>2, BlocksOfRange
    <3> QED BY <2>2, <3>1
  <2>4. \A x \in Distr!Process, y \in Distr!Team : i \in executed[x][y] => x = r /\ y = t
    <3>1. \A x, z \in Distr!Process, y, w \in Distr!Team, j \in Int :
            j \in Distr!Block(x, y) /\ j \in Distr!Block(z, w) => x = z /\ y = w
      BY <1>2, BlocksApart
    <3> QED BY <1>4, <2>2, <3>1
  <2>5. runners(i) = {<<r, t>>}
    BY <2>4
  <2>6. Cardinality({<<r, t>>}) = 1
    BY OneElement, Zenon
  <2> QED BY <2>3, <2>5, <2>6, DistrCardinalities
<1>6. ASSUME Distr!Distributed, Distr!Shared, NEW i \in begin .. end - 1
      PROVE  runners(i) # {}
  <2>1. workers > 0 /\ \A r \in Distr!Process : threads_done[r] = Distr!Team
    BY <1>1, <1>6 DEF Distr!Distributed, Distr!PartInv
  <2>2. \A r \in Distr!Process, t \in Distr!Team : executed[r][t] = Distr!Block(r, t)
    <3>1. \A r \in Distr!Process, t \in Distr!Team :
            t \in threads_done[r] => executed[r][t] = Distr!Block(r, t)
      BY <1>1, Zenon DEF Distr!PartInv
    <3> QED BY <2>1, <3>1
  <2>3. PICK r \in Distr!Process, t \in Distr!Team : i \in Distr!Block(r, t)
    <3>1. \A j \in input[1] .. input[2] - 1 : \E r \in Distr!Process, t \in Distr!Team : j \in Distr!Block(r, t)
      BY <1>2, <2>1, BlocksOfRange
    <3> QED BY <3>1, Zenon
  <2>4. <<r, t>> \in runners(i)
    BY <2>2, <2>3
  <2> QED BY <2>4
<1>7. Distr!Shared <=> distr_version # "arg" \/ given = "arguments"
  BY DEF Distr!Shared
<1>8. begin <= end => \A r, q \in shown :
                        /\ r = 0 => process_range[r][1] = begin
                        /\ r = workers - 1 => process_range[r][2] = end
                        /\ q = r + 1 => process_range[r][2] = process_range[q][1]
                        /\ (process_range[r][2] - process_range[r][1])
                             - (process_range[q][2] - process_range[q][1]) \in {0, 1, -1}
  BY <1>3
<1>9. \A r \in Distr!Process, t \in Distr!Team : \A i \in executed[r][t] :
        i \in begin .. end - 1 /\ Distr!Cardinality(runners(i)) = 1
  BY <1>5
<1>10. Distr!Distributed /\ (distr_version # "arg" \/ given = "arguments")
         => \A i \in begin .. end - 1 : runners(i) # {}
  BY <1>6, <1>7
<1> QED BY <1>8, <1>9, <1>10, Zenon DEF Distr!IndexesRunOnce

LEMMA ThreadsPrintWhatTheyRun == Distr!IInv => Distr!PrintedAsRun
<1> SUFFICES ASSUME Distr!IInv, NEW r \in Distr!Process, NEW t \in threads_done[r]
             PROVE  LET range == thread_range[r][t]
                        run   == executed[r][t]
                        ends_at_minus_one == -2 \in run /\ -1 \notin run
                        starts_at_minus_one == -1 \in run /\ -2 \notin run
                        shown == IF range = <<>> THEN {} ELSE range[1] .. range[2] - 1
                    IN CASE ends_at_minus_one /\ distr_version = "bcast" -> range = <<>>
                         [] starts_at_minus_one /\ 0 \in run -> shown = run \ {-1}
                         [] starts_at_minus_one /\ 0 \notin run /\ distr_version = "bcast" -> range = <<>>
                         [] OTHER -> shown = run
  BY Zenon DEF Distr!PrintedAsRun
<1>1. /\ workers \in Nat /\ input \in Int \X Int /\ t \in Distr!Team
      /\ executed[r][t] = Distr!Block(r, t)
      /\ thread_range[r][t] =
           LET range == Distr!ThreadRange(Distr!Block(r, t))
           IN IF distr_version = "bcast" /\ (range[1] = -1 \/ range[2] = -1) THEN <<>> ELSE range
  <2>1. workers \in Nat /\ input \in Int \X Int /\ t \in Distr!Team
    BY DEF Distr!IInv, Distr!TypeOK
  <2> QED BY <2>1, Zenon DEF Distr!IInv, Distr!PartInv
<1>2. PICK a \in Int, b \in Int : Distr!Block(r, t) = a .. b - 1
  <2>1. \A q \in Distr!Process, u \in Distr!Team : \E lo, hi \in Int : Distr!Block(q, u) = lo .. hi - 1
    BY <1>1, BlocksOfRange
  <2> QED BY <1>1, <2>1, Zenon
<1>3. PICK range : range = thread_range[r][t]
  OBVIOUS
<1>4. PICK run : run = a .. b - 1
  OBVIOUS
<1>5. PICK note : note = Distr!ThreadRange(a .. b - 1)
  OBVIOUS
<1>6. /\ executed[r][t] = run
      /\ range = IF distr_version = "bcast" /\ (note[1] = -1 \/ note[2] = -1) THEN <<>> ELSE note
  BY <1>1, <1>2, <1>3, <1>4, <1>5
<1>7. \A x, y \in Int : <<x, y>> # <<>> /\ <<x, y>>[1] = x /\ <<x, y>>[2] = y
  OBVIOUS
<1>8. SUFFICES LET ends_at_minus_one == -2 \in run /\ -1 \notin run
                   starts_at_minus_one == -1 \in run /\ -2 \notin run
                   shown == IF range = <<>> THEN {} ELSE range[1] .. range[2] - 1
               IN CASE ends_at_minus_one /\ distr_version = "bcast" -> range = <<>>
                    [] starts_at_minus_one /\ 0 \in run -> shown = run \ {-1}
                    [] starts_at_minus_one /\ 0 \notin run /\ distr_version = "bcast" -> range = <<>>
                    [] OTHER -> shown = run
  BY <1>3, <1>6
<1>9. CASE b <= a
  <2>1. note = <<-1, -1>> /\ run = {}
    BY <1>4, <1>5, <1>9, ThreadRangeIs
  <2>2. IF distr_version = "bcast" THEN range = <<>> ELSE range = <<-1, -1>> /\ range # <<>>
    BY <1>6, <1>7, <2>1
  <2>3. (-1) .. (-1) - 1 = {}
    OBVIOUS
  <2> QED BY <1>7, <2>1, <2>2, <2>3
<1>10. CASE a = -1 /\ b = 0
  <2>1. note = <<-1, 0>> /\ run = {-1} /\ (-1) .. 0 - 1 = {-1}
    <3>1. Distr!ThreadRange(a .. b - 1) = <<-1, 0>>
      BY <1>10, ThreadRangeIs
    <3>2. run = {-1} /\ (-1) .. 0 - 1 = {-1}
      BY <1>4, <1>10
    <3> QED BY <1>5, <3>1, <3>2
  <2>2. IF distr_version = "bcast" THEN range = <<>> ELSE range = <<-1, 0>> /\ range # <<>>
    BY <1>6, <1>7, <2>1
  <2>3. -1 \in run /\ -2 \notin run /\ 0 \notin run
    BY <2>1
  <2> QED BY <1>7, <2>1, <2>2, <2>3
<1>11. CASE a = -1 /\ b > 0
  <2>1. note = <<0, b>> /\ 0 # -1 /\ b # -1
    <3>1. Distr!ThreadRange(a .. b - 1) = <<0, b>>
      BY <1>11, ThreadRangeIs
    <3> QED BY <1>5, <1>11, <3>1
  <2>2. range = <<0, b>> /\ range # <<>> /\ range[1] = 0 /\ range[2] = b
    BY <1>6, <1>7, <2>1
  <2>3. -1 \in run /\ -2 \notin run /\ 0 \in run /\ 0 .. b - 1 = run \ {-1}
    BY <1>4, <1>11
  <2> QED BY <2>2, <2>3
<1>12. CASE a < b /\ a # -1
  <2>1. note = <<a, b>> /\ note[1] = a /\ note[2] = b /\ note # <<>>
    <3>1. Distr!ThreadRange(a .. b - 1) = <<a, b>>
      BY <1>12, ThreadRangeIs
    <3> QED BY <1>5, <1>7, <3>1
  <2>2. ~(-1 \in run /\ -2 \notin run)
    BY <1>4, <1>12
  <2>3. CASE b = -1
    <3>1. -2 \in run /\ -1 \notin run
      BY <1>4, <1>12, <2>3
    <3>2. IF distr_version = "bcast" THEN range = <<>> ELSE range = note
      BY <1>6, <2>1, <2>3
    <3> QED BY <1>4, <2>1, <2>2, <3>1, <3>2
  <2>4. CASE b # -1
    <3>1. range = note
      BY <1>6, <1>12, <2>1, <2>4
    <3>2. ~(-2 \in run /\ -1 \notin run)
      BY <1>4, <1>12, <2>4
    <3> QED BY <1>4, <2>1, <2>2, <3>1, <3>2
  <2> QED BY <2>3, <2>4
<1>13. b <= a \/ (a = -1 /\ b = 0) \/ (a = -1 /\ b > 0) \/ (a < b /\ a # -1)
  OBVIOUS
<1> QED BY <1>9, <1>10, <1>11, <1>12, <1>13

-----------------------------------------------------------------------------
(* The loops of the OpenMP programs, one after the other.                  *)

ConstructsFacts ==
  /\ Len(Stages!Constructs) \in Nat /\ DOMAIN Stages!Constructs = 1 .. Len(Stages!Constructs)
  /\ \A k \in 1 .. Len(Stages!Constructs) : Stages!Lines(k) \subseteq Nat
  /\ \A k \in 1 .. Len(Stages!Constructs) :
       Stages!Constructs[k] = "greet" => Stages!Lines(k) = Stages!RegionTeam
  /\ omp_program = "none" => Len(Stages!Constructs) = 0

LEMMA ConstructsAre == ConstructsFacts
<1>1. RegionThreads \in Nat \ {0} /\ iteration_count \in Nat
  BY WorkAssumption DEF Stages!OmpAssumption
<1>2. \E S : Stages!Constructs \in Seq(S)
  <2> DEFINE Names == {"for dynamic", "single", "for runtime", "greet"}
  <2>1. /\ <<"for dynamic", "single", "for dynamic", "single", "for dynamic">> \in Seq(Names)
        /\ <<"for runtime">> \in Seq(Names) /\ <<"greet">> \in Seq(Names) /\ <<>> \in Seq(Names)
    OBVIOUS
  <2>2. Stages!Constructs \in Seq(Names)
    BY <2>1 DEF Stages!Constructs
  <2> HIDE DEF Names
  <2> QED BY <2>2
<1>3. Len(Stages!Constructs) \in Nat /\ DOMAIN Stages!Constructs = 1 .. Len(Stages!Constructs)
  <2>1. PICK S : Stages!Constructs \in Seq(S)
    BY <1>2
  <2> QED BY <2>1
<1>4. \A k : Stages!Lines(k) = {0} \/ Stages!Lines(k) = Stages!RegionTeam \/ Stages!Lines(k) = 0 .. iteration_count - 1
  BY DEF Stages!Lines
<1>5. {0} \subseteq Nat /\ Stages!RegionTeam \subseteq Nat /\ 0 .. iteration_count - 1 \subseteq Nat
  BY <1>1 DEF Stages!RegionTeam
<1>6. \A k : Stages!Constructs[k] = "greet" => Stages!Lines(k) = Stages!RegionTeam
  BY DEF Stages!Lines
<1>7. omp_program = "none" => Len(Stages!Constructs) = 0
  BY DEF Stages!Constructs
<1> QED BY <1>3, <1>4, <1>5, <1>6, <1>7 DEF ConstructsFacts

\* A thread arrives when it can take no line; the lines it takes are there to be taken.
LEMMA ChunksAre ==
  ASSUME NEW t, NEW k
  PROVE  /\ \A next \in Stages!NextChunks(t, k) : next \subseteq remaining[k]
         /\ Stages!NextChunks(t, k) = {} =>
              IF Stages!Constructs[k] = "greet" THEN t \notin remaining[k] ELSE remaining[k] = {}
<1>1. CASE Stages!Constructs[k] = "for dynamic"
  <2>1. Stages!NextChunks(t, k) = IF remaining[k] = {} THEN {}
          ELSE {{i \in remaining[k] : Stages!Cardinality({j \in remaining[k] : j < i}) < 2}}
    BY <1>1 DEF Stages!NextChunks
  <2> DEFINE first == {i \in remaining[k] : Stages!Cardinality({j \in remaining[k] : j < i}) < 2}
  <2>2. first \subseteq remaining[k]
    OBVIOUS
  <2> HIDE DEF first
  <2>3. Stages!NextChunks(t, k) = IF remaining[k] = {} THEN {} ELSE {first}
    BY <2>1 DEF first
  <2> QED BY <1>1, <2>2, <2>3
<1>2. CASE Stages!Constructs[k] = "greet"
  <2>1. Stages!NextChunks(t, k) = {{t} \cap remaining[k]} \ {{}}
    BY <1>2 DEF Stages!NextChunks
  <2>2. t \in remaining[k] => {t} \cap remaining[k] \in {{t} \cap remaining[k]} \ {{}}
    OBVIOUS
  <2> QED BY <1>2, <2>1, <2>2
<1>3. CASE Stages!Constructs[k] \notin {"for dynamic", "greet"}
  <2>1. Stages!NextChunks(t, k) = {{i} : i \in remaining[k]}
    BY <1>3 DEF Stages!NextChunks
  <2> QED BY <1>3, <2>1
<1> QED BY <1>1, <1>2, <1>3

LEMMA StagesStart == Stages!Init => Stages!IInv
<1> SUFFICES ASSUME Stages!Init PROVE Stages!IInv
  OBVIOUS
<1>1. /\ omp_program = "none" /\ construct = [t \in Stages!RegionTeam |-> 1]
      /\ arrived = [t \in Stages!RegionTeam |-> FALSE] /\ chunk = [t \in Stages!RegionTeam |-> {}]
      /\ remaining = <<>> /\ printed = <<>> /\ main_greeted = FALSE
  BY Zenon DEF Stages!Init
<1>2. Len(Stages!Constructs) = 0
  BY <1>1, ConstructsAre DEF ConstructsFacts
<1>3. /\ \A t \in Stages!RegionTeam : construct[t] = 1 /\ arrived[t] = FALSE /\ chunk[t] = {}
      /\ DOMAIN printed = {} /\ 1 .. 0 = {} /\ 1 \in 1 .. 0 + 1
  BY <1>1
<1>4. Stages!TypeOK
  <2>1. <<>> \in [1 .. 0 -> SUBSET Nat]
    OBVIOUS
  <2> QED BY <1>1, <1>2, <1>3, <2>1 DEF Stages!TypeOK
<1>5. Stages!BarrierInv /\ Stages!LinesInv /\ Stages!TakenInv
  BY <1>1, <1>3 DEF Stages!BarrierInv, Stages!LinesInv, Stages!TakenInv
<1> QED BY <1>4, <1>5 DEF Stages!IInv

LEMMA StagesLaunch ==
  ASSUME Stages!IInv, Stages!Launch
  PROVE  Stages!IInv'
<1>1. Stages!TypeOK /\ Stages!BarrierInv /\ Stages!LinesInv
  BY DEF Stages!IInv
<1>2. /\ omp_program = "none" /\ construct' = construct /\ arrived' = arrived /\ chunk' = chunk
      /\ main_greeted' = main_greeted
      /\ remaining' = [k \in DOMAIN Stages!Constructs' |-> Stages!Lines(k)']
      /\ printed' = [k \in DOMAIN Stages!Constructs' |-> [i \in Stages!Lines(k)' |-> 0]]
  BY DEF Stages!Launch
<1>3. Len(Stages!Constructs) = 0
  BY <1>2, ConstructsAre DEF ConstructsFacts
<1>4. PICK n : n = Len(Stages!Constructs)'
  OBVIOUS
<1>5. /\ n \in Nat /\ DOMAIN Stages!Constructs' = 1 .. n
      /\ \A k \in 1 .. n : Stages!Lines(k)' \subseteq Nat
  <2>1. /\ Len(Stages!Constructs)' \in Nat /\ DOMAIN Stages!Constructs' = 1 .. Len(Stages!Constructs)'
        /\ \A k \in 1 .. Len(Stages!Constructs)' : Stages!Lines(k)' \subseteq Nat
    <3>1. ConstructsFacts'
      BY ConstructsAre, PTL
    <3> QED BY <3>1 DEF ConstructsFacts
  <2> QED BY <1>4, <2>1
<1>6. \A t \in Stages!RegionTeam : construct[t] = 1 /\ arrived[t] = FALSE /\ chunk[t] = {}
  <2>1. construct \in [Stages!RegionTeam -> 1 .. 0 + 1] /\ arrived \in [Stages!RegionTeam -> BOOLEAN]
    BY <1>1, <1>3 DEF Stages!TypeOK
  <2>2. \A t \in Stages!RegionTeam : construct[t] = 1 /\ ~(construct[t] <= 0)
    BY <2>1
  <2>3. \A t \in Stages!RegionTeam : (arrived[t] => construct[t] <= 0) /\ (chunk[t] # {} => construct[t] <= 0)
    BY <1>1, <1>3 DEF Stages!BarrierInv, Stages!LinesInv
  <2> QED BY <2>1, <2>2, <2>3
<1>7. ~main_greeted
  BY <1>1, <1>2 DEF Stages!BarrierInv, Stages!RegionEnded
<1>8. /\ DOMAIN printed' = 1 .. n
      /\ \A k \in 1 .. n : remaining'[k] = Stages!Lines(k)' /\ printed'[k] = [i \in Stages!Lines(k)' |-> 0]
      /\ remaining' \in [1 .. n -> SUBSET Nat]
      /\ \A k \in 1 .. n : printed'[k] \in [Stages!Lines(k)' -> Nat]
  BY <1>2, <1>5
<1>9. Stages!RegionTeam' = Stages!RegionTeam
  BY DEF Stages!RegionTeam
<1>10. Stages!TypeOK'
  <2>1. /\ construct \in [Stages!RegionTeam -> 1 .. 0 + 1] /\ arrived \in [Stages!RegionTeam -> BOOLEAN]
        /\ main_greeted \in BOOLEAN /\ chunk \in [Stages!RegionTeam -> SUBSET Nat]
    BY <1>1, <1>3 DEF Stages!TypeOK
  <2>2. construct \in [Stages!RegionTeam -> 1 .. n + 1]
    BY <1>5, <2>1
  <2> QED BY <1>2, <1>4, <1>8, <1>9, <2>1, <2>2 DEF Stages!TypeOK
<1>11. Stages!BarrierInv'
  BY <1>2, <1>6, <1>7, <1>9 DEF Stages!BarrierInv
<1>12. Stages!LinesInv'
  BY <1>2, <1>6, <1>8, <1>9 DEF Stages!LinesInv
<1>13. Stages!TakenInv'
  <2>1. \A k \in 1 .. n : \A t \in Stages!RegionTeam : ~(construct[t] > k \/ (construct[t] = k /\ arrived[t]))
    BY <1>5, <1>6
  <2> QED BY <1>2, <1>8, <1>9, <2>1 DEF Stages!TakenInv
<1> QED BY <1>10, <1>11, <1>12, <1>13 DEF Stages!IInv


\* What a step leaves alone while the program stays.
LEMMA StagesStay ==
  omp_program' = omp_program =>
    /\ Stages!Constructs' = Stages!Constructs /\ Stages!RegionTeam' = Stages!RegionTeam
    /\ \A k : Stages!Lines(k)' = Stages!Lines(k)
BY DEF Stages!Constructs, Stages!RegionTeam, Stages!Lines

LEMMA ThreadTakes ==
  ASSUME Stages!IInv, NEW t \in Stages!RegionTeam, Stages!TakeChunk(t)
  PROVE  Stages!IInv'
<1>1. Stages!TypeOK /\ Stages!BarrierInv /\ Stages!LinesInv /\ Stages!TakenInv
  BY DEF Stages!IInv
<1>2. PICK k : k = construct[t]
  OBVIOUS
<1>3. PICK n : n = Len(Stages!Constructs)
  OBVIOUS
<1>4. n \in Nat /\ k \in 1 .. n /\ ~arrived[t]
  BY <1>1, <1>2, <1>3, ConstructsAre DEF ConstructsFacts, Stages!TakeChunk, Stages!Inside, Stages!TypeOK
<1>5. PICK next \in Stages!NextChunks(t, k) :
        /\ chunk' = [chunk EXCEPT ![t] = next]
        /\ remaining' = [remaining EXCEPT ![k] = remaining[k] \ next]
  BY <1>2 DEF Stages!TakeChunk
<1>6. /\ omp_program' = omp_program /\ construct' = construct /\ arrived' = arrived /\ printed' = printed
      /\ main_greeted' = main_greeted /\ chunk[t] = {}
  BY DEF Stages!TakeChunk
<1>7. next \subseteq remaining[k]
  BY <1>5, ChunksAre
<1>8. /\ Stages!Constructs' = Stages!Constructs /\ Stages!RegionTeam' = Stages!RegionTeam
      /\ \A j : Stages!Lines(j)' = Stages!Lines(j)
  BY <1>6, StagesStay
<1>9. /\ construct \in [Stages!RegionTeam -> 1 .. n + 1] /\ arrived \in [Stages!RegionTeam -> BOOLEAN]
      /\ main_greeted \in BOOLEAN /\ chunk \in [Stages!RegionTeam -> SUBSET Nat]
      /\ remaining \in [1 .. n -> SUBSET Nat] /\ DOMAIN printed = 1 .. n
      /\ \A j \in 1 .. n : printed[j] \in [Stages!Lines(j) -> Nat]
  BY <1>1, <1>3 DEF Stages!TypeOK
<1>10. remaining[k] \subseteq Nat /\ remaining[k] \subseteq Stages!Lines(k)
  BY <1>1, <1>4, <1>9 DEF Stages!TakenInv
<1>11. /\ \A u \in Stages!RegionTeam : chunk'[u] = IF u = t THEN next ELSE chunk[u]
       /\ \A j \in 1 .. n : remaining'[j] = IF j = k THEN remaining[k] \ next ELSE remaining[j]
       /\ chunk' \in [Stages!RegionTeam -> SUBSET Nat] /\ remaining' \in [1 .. n -> SUBSET Nat]
  BY <1>5, <1>7, <1>9, <1>10
<1>12. Stages!TypeOK'
  BY <1>3, <1>6, <1>8, <1>9, <1>11 DEF Stages!TypeOK
<1>13. Stages!BarrierInv'
  <2>1. Stages!RegionEnded' <=> Stages!RegionEnded
    BY <1>6, <1>8 DEF Stages!RegionEnded
  <2>2. \A u \in Stages!RegionTeam : arrived[u] => chunk'[u] = {} /\ construct[u] <= n
    BY <1>1, <1>3, <1>4, <1>11 DEF Stages!BarrierInv
  <2> QED BY <1>1, <1>3, <1>6, <1>8, <2>1, <2>2 DEF Stages!BarrierInv
<1>14. Stages!LinesInv'
  <2>1. \A u \in Stages!RegionTeam : chunk[u] # {} =>
          construct[u] <= n /\ chunk[u] \subseteq Stages!Lines(construct[u]) \ remaining[construct[u]]
    BY <1>1, <1>3 DEF Stages!LinesInv
  <2>2. ASSUME NEW u \in Stages!RegionTeam, chunk'[u] # {}
        PROVE  construct[u] <= n /\ chunk'[u] \subseteq Stages!Lines(construct[u]) \ remaining'[construct[u]]
    <3>1. CASE u = t
      <4>1. construct[u] = k /\ chunk'[u] = next /\ remaining'[k] = remaining[k] \ next /\ k <= n
        BY <1>2, <1>4, <1>11, <3>1
      <4> QED BY <1>7, <1>10, <4>1
    <3>2. CASE u # t
      <4>1. chunk'[u] = chunk[u]
        BY <1>11, <3>2
      <4>2. construct[u] \in 1 .. n
        BY <1>4, <1>9, <2>1, <2>2, <4>1
      <4>3. remaining'[construct[u]] \subseteq remaining[construct[u]]
        BY <1>11, <4>2
      <4> QED BY <2>1, <2>2, <4>1, <4>2, <4>3
    <3> QED BY <3>1, <3>2
  <2>3. \A u \in Stages!RegionTeam : construct[u] = k => chunk[u] \cap remaining[k] = {}
    BY <2>1
  <2>4. \A u, v \in Stages!RegionTeam : construct[u] = construct[v] /\ u # v => chunk'[u] \cap chunk'[v] = {}
    <3>1. \A u, v \in Stages!RegionTeam : construct[u] = construct[v] /\ u # v => chunk[u] \cap chunk[v] = {}
      BY <1>1 DEF Stages!LinesInv
    <3>2. \A u \in Stages!RegionTeam : construct[u] = k => chunk[u] \cap next = {}
      BY <1>7, <2>3
    <3> QED BY <1>2, <1>11, <3>1, <3>2
  <2>5. ASSUME NEW j \in 1 .. n, NEW i \in Stages!Lines(j)
        PROVE  printed[j][i] =
                 IF i \in remaining'[j] \/ (\E u \in Stages!RegionTeam : construct[u] = j /\ i \in chunk'[u])
                   THEN 0 ELSE 1
    <3>1. printed[j][i] =
            IF i \in remaining[j] \/ (\E u \in Stages!RegionTeam : construct[u] = j /\ i \in chunk[u])
              THEN 0 ELSE 1
      BY <1>1, <1>9 DEF Stages!LinesInv
    <3>2. i \in remaining[j] => i \in remaining'[j] \/ (construct[t] = j /\ i \in chunk'[t])
      BY <1>2, <1>11
    <3>3. i \in remaining'[j] => i \in remaining[j]
      BY <1>11
    <3>4. \A u \in Stages!RegionTeam : i \in chunk[u] => i \in chunk'[u]
      BY <1>6, <1>11
    <3>5. \A u \in Stages!RegionTeam : construct[u] = j /\ i \in chunk'[u] => i \in chunk[u] \/ i \in remaining[j]
      BY <1>2, <1>7, <1>11
    <3> QED BY <3>1, <3>2, <3>3, <3>4, <3>5
  <2> QED BY <1>3, <1>6, <1>8, <1>9, <2>2, <2>4, <2>5 DEF Stages!LinesInv
<1>15. Stages!TakenInv'
  <2>1. \A j \in 1 .. n :
          /\ remaining'[j] \subseteq Stages!Lines(j)
          /\ \A u \in Stages!RegionTeam : construct[u] > j \/ (construct[u] = j /\ arrived[u]) =>
               IF Stages!Constructs[j] = "greet" THEN u \notin remaining'[j] ELSE remaining'[j] = {}
    BY <1>1, <1>9, <1>11 DEF Stages!TakenInv
  <2>2. \A j \in 1 .. n : remaining'[j] # Stages!Lines(j) => \E u \in Stages!RegionTeam : construct[u] >= j
    <3>1. construct[t] >= k
      BY <1>2, <1>4
    <3>2. \A j \in 1 .. n : remaining[j] # Stages!Lines(j) => \E u \in Stages!RegionTeam : construct[u] >= j
      BY <1>1, <1>9 DEF Stages!TakenInv
    <3> QED BY <1>11, <3>1, <3>2
  <2> QED BY <1>6, <1>8, <1>9, <2>1, <2>2 DEF Stages!TakenInv
<1> QED BY <1>12, <1>13, <1>14, <1>15 DEF Stages!IInv


LEMMA ThreadPrints ==
  ASSUME Stages!IInv, NEW t \in Stages!RegionTeam, Stages!PrintLine(t)
  PROVE  Stages!IInv'
<1>1. Stages!TypeOK /\ Stages!BarrierInv /\ Stages!LinesInv /\ Stages!TakenInv
  BY DEF Stages!IInv
<1>2. PICK k : k = construct[t]
  OBVIOUS
<1>3. PICK n : n = Len(Stages!Constructs)
  OBVIOUS
<1>4. PICK i : i = CHOOSE m \in chunk[t] : \A l \in chunk[t] : m <= l
  OBVIOUS
<1>5. /\ chunk' = [chunk EXCEPT ![t] = chunk[t] \ {i}]
      /\ printed' = [printed EXCEPT ![k][i] = printed[k][i] + 1]
      /\ omp_program' = omp_program /\ construct' = construct /\ arrived' = arrived
      /\ remaining' = remaining /\ main_greeted' = main_greeted /\ chunk[t] # {}
  BY <1>2, <1>4 DEF Stages!PrintLine
<1>6. /\ Stages!Constructs' = Stages!Constructs /\ Stages!RegionTeam' = Stages!RegionTeam
      /\ \A j : Stages!Lines(j)' = Stages!Lines(j)
  BY <1>5, StagesStay
<1>7. /\ construct \in [Stages!RegionTeam -> 1 .. n + 1] /\ arrived \in [Stages!RegionTeam -> BOOLEAN]
      /\ main_greeted \in BOOLEAN /\ chunk \in [Stages!RegionTeam -> SUBSET Nat]
      /\ remaining \in [1 .. n -> SUBSET Nat] /\ DOMAIN printed = 1 .. n
      /\ \A j \in 1 .. n : printed[j] \in [Stages!Lines(j) -> Nat]
  BY <1>1, <1>3 DEF Stages!TypeOK
<1>8. i \in chunk[t]
  <2>1. chunk[t] \subseteq Nat
    BY <1>7
  <2>2. \E m \in chunk[t] : \A l \in chunk[t] : m <= l
    BY <1>5, <2>1, LeastNatural
  <2> QED BY <1>4, <2>2
<1>9. k \in 1 .. n /\ i \in Stages!Lines(k) /\ i \notin remaining[k]
  <2>1. construct[t] <= n /\ chunk[t] \subseteq Stages!Lines(construct[t]) \ remaining[construct[t]]
    BY <1>1, <1>3, <1>5 DEF Stages!LinesInv
  <2>2. n \in Nat
    BY <1>3, ConstructsAre DEF ConstructsFacts
  <2> QED BY <1>2, <1>7, <1>8, <2>1, <2>2
<1>10. printed[k][i] = 0
  BY <1>1, <1>2, <1>7, <1>8, <1>9 DEF Stages!LinesInv
<1>11. /\ \A u \in Stages!RegionTeam : chunk'[u] = IF u = t THEN chunk[t] \ {i} ELSE chunk[u]
       /\ chunk' \in [Stages!RegionTeam -> SUBSET Nat]
  BY <1>5, <1>7
<1>12. /\ DOMAIN printed' = 1 .. n
       /\ \A l : \A j \in 1 .. n : l \in Stages!Lines(j) => printed'[j][l] = IF j = k /\ l = i THEN 1 ELSE printed[j][l]
       /\ \A j \in 1 .. n : printed'[j] \in [Stages!Lines(j) -> Nat]
  <2>1. printed' = [printed EXCEPT ![k] = [printed[k] EXCEPT ![i] = 1]]
    BY <1>5, <1>7, <1>9, <1>10
  <2>2. printed[k] \in [Stages!Lines(k) -> Nat]
    BY <1>7, <1>9
  <2>3. [printed[k] EXCEPT ![i] = 1] \in [Stages!Lines(k) -> Nat]
    BY <2>2
  <2>4. \A l \in Stages!Lines(k) : [printed[k] EXCEPT ![i] = 1][l] = IF l = i THEN 1 ELSE printed[k][l]
    BY <2>2
  <2>5. \A j \in 1 .. n : printed'[j] = IF j = k THEN [printed[k] EXCEPT ![i] = 1] ELSE printed[j]
    BY <1>7, <1>9, <2>1
  <2>6. DOMAIN printed' = 1 .. n
    BY <1>7, <2>1
  <2> QED BY <1>7, <2>3, <2>4, <2>5, <2>6
<1>13. Stages!TypeOK'
  BY <1>3, <1>5, <1>6, <1>7, <1>11, <1>12 DEF Stages!TypeOK
<1>14. Stages!BarrierInv'
  <2>1. Stages!RegionEnded' <=> Stages!RegionEnded
    BY <1>5, <1>6 DEF Stages!RegionEnded
  <2>2. \A u \in Stages!RegionTeam : arrived[u] => chunk'[u] = {} /\ construct[u] <= n
    BY <1>1, <1>3, <1>8, <1>11 DEF Stages!BarrierInv
  <2> QED BY <1>1, <1>3, <1>5, <1>6, <2>1, <2>2 DEF Stages!BarrierInv
<1>15. Stages!LinesInv'
  <2>1. \A u \in Stages!RegionTeam : chunk'[u] \subseteq chunk[u]
    BY <1>11
  <2>2. \A u \in Stages!RegionTeam : chunk'[u] # {} =>
          construct[u] <= n /\ chunk'[u] \subseteq Stages!Lines(construct[u]) \ remaining[construct[u]]
    <3>1. \A u \in Stages!RegionTeam : chunk[u] # {} =>
            construct[u] <= n /\ chunk[u] \subseteq Stages!Lines(construct[u]) \ remaining[construct[u]]
      BY <1>1, <1>3 DEF Stages!LinesInv
    <3> QED BY <2>1, <3>1
  <2>3. \A u, v \in Stages!RegionTeam : construct[u] = construct[v] /\ u # v => chunk[u] \cap chunk[v] = {}
    BY <1>1 DEF Stages!LinesInv
  <2>4. \A u, v \in Stages!RegionTeam : construct[u] = construct[v] /\ u # v => chunk'[u] \cap chunk'[v] = {}
    BY <2>1, <2>3
  <2>5. ASSUME NEW j \in 1 .. n, NEW l \in Stages!Lines(j)
        PROVE  printed'[j][l] =
                 IF l \in remaining[j] \/ (\E u \in Stages!RegionTeam : construct[u] = j /\ l \in chunk'[u])
                   THEN 0 ELSE 1
    <3>1. printed[j][l] =
            IF l \in remaining[j] \/ (\E u \in Stages!RegionTeam : construct[u] = j /\ l \in chunk[u])
              THEN 0 ELSE 1
      BY <1>1, <1>7 DEF Stages!LinesInv
    <3>2. CASE j = k /\ l = i
      <4>1. \A u \in Stages!RegionTeam : construct[u] = k => i \notin chunk'[u]
        <5>1. \A u \in Stages!RegionTeam : construct[u] = k /\ u # t => i \notin chunk[u]
          BY <1>2, <1>8, <2>3
        <5> QED BY <1>11, <5>1
      <4> QED BY <1>9, <1>12, <3>2, <4>1
    <3>3. CASE ~(j = k /\ l = i)
      <4>1. \A u \in Stages!RegionTeam : construct[u] = j => (l \in chunk'[u] <=> l \in chunk[u])
        BY <1>2, <1>11, <3>3
      <4>2. printed'[j][l] = printed[j][l]
        BY <1>12, <3>3
      <4> QED BY <3>1, <4>1, <4>2
    <3> QED BY <3>2, <3>3
  <2> QED BY <1>3, <1>5, <1>6, <1>12, <2>2, <2>4, <2>5 DEF Stages!LinesInv
<1>16. Stages!TakenInv'
  BY <1>1, <1>5, <1>6, <1>7, <1>12 DEF Stages!TakenInv
<1> QED BY <1>13, <1>14, <1>15, <1>16 DEF Stages!IInv

LEMMA ThreadArrives ==
  ASSUME Stages!IInv, NEW t \in Stages!RegionTeam, Stages!Arrive(t)
  PROVE  Stages!IInv'
<1>1. Stages!TypeOK /\ Stages!BarrierInv /\ Stages!LinesInv /\ Stages!TakenInv
  BY DEF Stages!IInv
<1>2. /\ arrived' = [arrived EXCEPT ![t] = TRUE] /\ omp_program' = omp_program /\ construct' = construct
      /\ chunk' = chunk /\ remaining' = remaining /\ printed' = printed /\ main_greeted' = main_greeted
      /\ chunk[t] = {} /\ construct[t] <= Len(Stages!Constructs)
      /\ Stages!NextChunks(t, construct[t]) = {}
  BY DEF Stages!Arrive, Stages!Inside
<1>3. /\ Stages!Constructs' = Stages!Constructs /\ Stages!RegionTeam' = Stages!RegionTeam
      /\ \A j : Stages!Lines(j)' = Stages!Lines(j)
  BY <1>2, StagesStay
<1>4. /\ \A u \in Stages!RegionTeam : arrived'[u] = IF u = t THEN TRUE ELSE arrived[u]
      /\ arrived' \in [Stages!RegionTeam -> BOOLEAN]
  BY <1>1, <1>2 DEF Stages!TypeOK
<1>5. Stages!TypeOK'
  BY <1>1, <1>2, <1>3, <1>4 DEF Stages!TypeOK
<1>6. Stages!BarrierInv'
  <2>1. Stages!RegionEnded' <=> Stages!RegionEnded
    BY <1>2, <1>3 DEF Stages!RegionEnded
  <2> QED BY <1>1, <1>2, <1>3, <1>4, <2>1 DEF Stages!BarrierInv
<1>7. Stages!LinesInv'
  BY <1>1, <1>2, <1>3 DEF Stages!LinesInv
<1>8. Stages!TakenInv'
  <2>1. IF Stages!Constructs[construct[t]] = "greet" THEN t \notin remaining[construct[t]]
        ELSE remaining[construct[t]] = {}
    BY <1>2, ChunksAre
  <2>2. \A k \in DOMAIN printed : \A u \in Stages!RegionTeam :
          construct[u] > k \/ (construct[u] = k /\ arrived'[u]) =>
            IF Stages!Constructs[k] = "greet" THEN u \notin remaining[k] ELSE remaining[k] = {}
    BY <1>1, <1>4, <2>1 DEF Stages!TakenInv
  <2> QED BY <1>1, <1>2, <1>3, <2>2 DEF Stages!TakenInv
<1> QED BY <1>5, <1>6, <1>7, <1>8 DEF Stages!IInv

LEMMA ThreadLeaves ==
  ASSUME Stages!IInv, NEW t \in Stages!RegionTeam, Stages!Leave(t)
  PROVE  Stages!IInv'
<1>1. Stages!TypeOK /\ Stages!BarrierInv /\ Stages!LinesInv /\ Stages!TakenInv
  BY DEF Stages!IInv
<1>2. PICK k : k = construct[t]
  OBVIOUS
<1>3. PICK n : n = Len(Stages!Constructs)
  OBVIOUS
<1>4. /\ construct' = [construct EXCEPT ![t] = k + 1] /\ arrived' = [arrived EXCEPT ![t] = FALSE]
      /\ omp_program' = omp_program /\ chunk' = chunk /\ remaining' = remaining /\ printed' = printed
      /\ main_greeted' = main_greeted /\ arrived[t]
      /\ \A u \in Stages!RegionTeam : construct[u] > k \/ (construct[u] = k /\ arrived[u])
  BY <1>2 DEF Stages!Leave
<1>5. /\ Stages!Constructs' = Stages!Constructs /\ Stages!RegionTeam' = Stages!RegionTeam
      /\ \A j : Stages!Lines(j)' = Stages!Lines(j)
  BY <1>4, StagesStay
<1>6. /\ construct \in [Stages!RegionTeam -> 1 .. n + 1] /\ arrived \in [Stages!RegionTeam -> BOOLEAN]
      /\ main_greeted \in BOOLEAN /\ chunk \in [Stages!RegionTeam -> SUBSET Nat]
      /\ remaining \in [1 .. n -> SUBSET Nat] /\ DOMAIN printed = 1 .. n
      /\ \A j \in 1 .. n : printed[j] \in [Stages!Lines(j) -> Nat]
  BY <1>1, <1>3 DEF Stages!TypeOK
<1>7. n \in Nat /\ k \in 1 .. n /\ chunk[t] = {}
  <2>1. n \in Nat
    BY <1>3, ConstructsAre DEF ConstructsFacts
  <2>2. construct[t] <= n /\ chunk[t] = {}
    BY <1>1, <1>3, <1>4 DEF Stages!BarrierInv
  <2> QED BY <1>2, <1>6, <2>1, <2>2
<1>8. /\ \A u \in Stages!RegionTeam : construct'[u] = IF u = t THEN k + 1 ELSE construct[u]
      /\ \A u \in Stages!RegionTeam : arrived'[u] = IF u = t THEN FALSE ELSE arrived[u]
      /\ construct' \in [Stages!RegionTeam -> 1 .. n + 1] /\ arrived' \in [Stages!RegionTeam -> BOOLEAN]
  BY <1>4, <1>6, <1>7
<1>9. \A u \in Stages!RegionTeam : construct[u] \in 1 .. n + 1
  BY <1>6
<1>10. Stages!TypeOK'
  BY <1>1, <1>3, <1>4, <1>5, <1>8 DEF Stages!TypeOK
<1>11. Stages!BarrierInv'
  <2>1. ~main_greeted
    <3>1. ~(construct[t] > n)
      BY <1>2, <1>7
    <3> QED BY <1>1, <1>3, <3>1 DEF Stages!BarrierInv, Stages!RegionEnded
  <2>2. \A u \in Stages!RegionTeam : arrived'[u] => chunk[u] = {} /\ construct'[u] <= n
    BY <1>1, <1>3, <1>8 DEF Stages!BarrierInv
  <2>3. \A u, v \in Stages!RegionTeam : construct[u] < construct[v] => arrived[u] /\ construct[v] = construct[u] + 1
    BY <1>1 DEF Stages!BarrierInv
  <2>4. \A u \in Stages!RegionTeam : construct[u] = k + 1 \/ (construct[u] = k /\ arrived[u])
    <3>1. \A u \in Stages!RegionTeam : k < construct[u] => construct[u] = k + 1
      BY <1>2, <2>3
    <3>2. \A u \in Stages!RegionTeam : construct[u] > k => k < construct[u]
      BY <1>7, <1>9
    <3> QED BY <1>4, <3>1, <3>2
  <2>5. ASSUME NEW u \in Stages!RegionTeam, NEW v \in Stages!RegionTeam, construct'[u] < construct'[v]
        PROVE  arrived'[u] /\ construct'[v] = construct'[u] + 1
    <3>1. construct'[u] = k /\ u # t /\ construct'[v] = k + 1
      <4>1. construct'[u] \in {k, k + 1} /\ construct'[v] \in {k, k + 1}
        BY <1>8, <2>4
      <4>2. ~(k < k) /\ ~(k + 1 < k) /\ ~(k + 1 < k + 1) /\ k # k + 1
        BY <1>7
      <4> QED BY <1>8, <2>5, <4>1, <4>2
    <3>2. construct[u] = k /\ k # k + 1
      BY <1>7, <1>8, <3>1
    <3>3. arrived[u]
      BY <2>4, <3>2
    <3> QED BY <1>8, <3>1, <3>3
  <2> QED BY <1>3, <1>4, <1>5, <2>1, <2>2, <2>5 DEF Stages!BarrierInv
<1>12. Stages!LinesInv'
  <2>1. \A u \in Stages!RegionTeam : chunk[u] # {} => construct'[u] = construct[u]
    BY <1>7, <1>8
  <2>2. \A u \in Stages!RegionTeam : chunk[u] # {} =>
          construct'[u] <= n /\ chunk[u] \subseteq Stages!Lines(construct'[u]) \ remaining[construct'[u]]
    BY <1>1, <1>3, <2>1 DEF Stages!LinesInv
  <2>3. \A u, v \in Stages!RegionTeam : construct'[u] = construct'[v] /\ u # v => chunk[u] \cap chunk[v] = {}
    <3>1. \A u, v \in Stages!RegionTeam : construct[u] = construct[v] /\ u # v => chunk[u] \cap chunk[v] = {}
      BY <1>1 DEF Stages!LinesInv
    <3> QED BY <1>7, <1>8, <3>1
  <2>4. ASSUME NEW j \in 1 .. n, NEW i \in Stages!Lines(j)
        PROVE  printed[j][i] =
                 IF i \in remaining[j] \/ (\E u \in Stages!RegionTeam : construct'[u] = j /\ i \in chunk[u])
                   THEN 0 ELSE 1
    <3>1. printed[j][i] =
            IF i \in remaining[j] \/ (\E u \in Stages!RegionTeam : construct[u] = j /\ i \in chunk[u])
              THEN 0 ELSE 1
      BY <1>1, <1>6 DEF Stages!LinesInv
    <3>2. (\E u \in Stages!RegionTeam : construct'[u] = j /\ i \in chunk[u])
            <=> \E u \in Stages!RegionTeam : construct[u] = j /\ i \in chunk[u]
      BY <2>1
    <3> QED BY <3>1, <3>2
  <2> QED BY <1>3, <1>4, <1>5, <1>6, <2>2, <2>3, <2>4 DEF Stages!LinesInv
<1>13. Stages!TakenInv'
  <2>1. \A j \in 1 .. n, u \in Stages!RegionTeam :
          construct'[u] > j \/ (construct'[u] = j /\ arrived'[u]) => construct[u] > j \/ (construct[u] = j /\ arrived[u])
    <3>1. \A j \in 1 .. n : k + 1 > j => k > j \/ k = j
      BY <1>7
    <3> QED BY <1>2, <1>4, <1>8, <3>1
  <2>2. \A j \in 1 .. n, u \in Stages!RegionTeam : construct[u] >= j => construct'[u] >= j
    BY <1>2, <1>7, <1>8
  <2>3. \A j \in 1 .. n :
          /\ remaining[j] \subseteq Stages!Lines(j)
          /\ \A u \in Stages!RegionTeam : construct'[u] > j \/ (construct'[u] = j /\ arrived'[u]) =>
               IF Stages!Constructs[j] = "greet" THEN u \notin remaining[j] ELSE remaining[j] = {}
    BY <1>1, <1>6, <2>1 DEF Stages!TakenInv
  <2>4. \A j \in 1 .. n : remaining[j] # Stages!Lines(j) => \E u \in Stages!RegionTeam : construct'[u] >= j
    <3>1. \A j \in 1 .. n : remaining[j] # Stages!Lines(j) => \E u \in Stages!RegionTeam : construct[u] >= j
      BY <1>1, <1>6 DEF Stages!TakenInv
    <3> QED BY <2>2, <3>1
  <2> QED BY <1>4, <1>5, <1>6, <2>3, <2>4 DEF Stages!TakenInv
<1> QED BY <1>10, <1>11, <1>12, <1>13 DEF Stages!IInv

LEMMA MainThreadGreets ==
  ASSUME Stages!IInv, Stages!MainGreets \/ UNCHANGED Stages!stagesVars
  PROVE  Stages!IInv'
<1>1. /\ omp_program' = omp_program /\ construct' = construct /\ arrived' = arrived /\ chunk' = chunk
      /\ remaining' = remaining /\ printed' = printed
      /\ main_greeted' = main_greeted \/ (main_greeted' = TRUE /\ Stages!RegionEnded)
  BY DEF Stages!MainGreets, Stages!stagesVars
<1>2. /\ Stages!Constructs' = Stages!Constructs /\ Stages!RegionTeam' = Stages!RegionTeam
      /\ \A j : Stages!Lines(j)' = Stages!Lines(j)
  BY <1>1, StagesStay
<1>3. Stages!RegionEnded' <=> Stages!RegionEnded
  BY <1>1, <1>2 DEF Stages!RegionEnded
<1>4. Stages!TypeOK'
  BY <1>1, <1>2 DEF Stages!IInv, Stages!TypeOK
<1>5. Stages!BarrierInv'
  BY <1>1, <1>2, <1>3 DEF Stages!IInv, Stages!BarrierInv
<1>6. Stages!LinesInv'
  BY <1>1, <1>2 DEF Stages!IInv, Stages!LinesInv
<1>7. Stages!TakenInv'
  BY <1>1, <1>2 DEF Stages!IInv, Stages!TakenInv
<1> QED BY <1>4, <1>5, <1>6, <1>7 DEF Stages!IInv

LEMMA StagesStep == Stages!IInv /\ [Stages!Next]_(Stages!stagesVars) => Stages!IInv'
BY StagesLaunch, ThreadTakes, ThreadPrints, ThreadArrives, ThreadLeaves, MainThreadGreets
   DEF Stages!Next, Stages!RegionStep


\* A construct that the whole team has passed or waits to pass is complete.
LEMMA StageIsComplete ==
  ASSUME Stages!IInv, NEW k \in DOMAIN printed,
         \A t \in Stages!RegionTeam : construct[t] > k \/ (construct[t] = k /\ arrived[t])
  PROVE  \A i \in Stages!Lines(k) : printed[k][i] = 1
<1>1. DOMAIN printed = 1 .. Len(Stages!Constructs) /\ construct \in [Stages!RegionTeam -> 1 .. Len(Stages!Constructs) + 1]
  BY DEF Stages!IInv, Stages!TypeOK
<1>2. remaining[k] = {}
  <2>1. /\ remaining[k] \subseteq Stages!Lines(k)
        /\ \A t \in Stages!RegionTeam :
             IF Stages!Constructs[k] = "greet" THEN t \notin remaining[k] ELSE remaining[k] = {}
    BY DEF Stages!IInv, Stages!TakenInv
  <2>2. \E t : t \in Stages!RegionTeam
    <3>1. 0 \in Stages!RegionTeam
      BY WorkAssumption DEF Stages!OmpAssumption, Stages!RegionTeam
    <3> QED BY <3>1
  <2>3. Stages!Constructs[k] = "greet" => Stages!Lines(k) = Stages!RegionTeam
    BY <1>1, ConstructsAre DEF ConstructsFacts
  <2> QED BY <2>1, <2>2, <2>3
<1>3. \A t \in Stages!RegionTeam : construct[t] = k => chunk[t] = {}
  <2>1. \A t \in Stages!RegionTeam : construct[t] \in Int /\ (arrived[t] => chunk[t] = {})
    BY <1>1, ConstructsAre DEF ConstructsFacts, Stages!IInv, Stages!BarrierInv
  <2>2. k \in Int
    BY <1>1
  <2>3. \A t \in Stages!RegionTeam : construct[t] = k => ~(construct[t] > k)
    BY <2>1, <2>2
  <2> QED BY <2>1, <2>3
<1>4. \A i \in Stages!Lines(k) :
        printed[k][i] =
          IF i \in remaining[k] \/ (\E t \in Stages!RegionTeam : construct[t] = k /\ i \in chunk[t]) THEN 0 ELSE 1
  BY DEF Stages!IInv, Stages!LinesInv
<1> QED BY <1>2, <1>3, <1>4

-----------------------------------------------------------------------------
(* The messages of the MPI programs.                                       *)

\* One more line in the output.
LEMMA LineAdded ==
  ASSUME NEW lines \in Seq(Nat), NEW v \in Nat
  PROVE  /\ Append(lines, v) \in Seq(Nat) /\ Append(lines, v) # <<>>
         /\ Len(lines) \in Nat /\ Len(Append(lines, v)) = Len(lines) + 1
         /\ DOMAIN lines = 1 .. Len(lines) /\ DOMAIN Append(lines, v) = 1 .. Len(lines) + 1
         /\ \A i \in 1 .. Len(lines) : Append(lines, v)[i] = lines[i] /\ lines[i] \in Nat
         /\ Append(lines, v)[Len(lines) + 1] = v
         /\ lines = <<>> <=> Len(lines) = 0
<1>1. /\ Append(lines, v) \in Seq(Nat) /\ Len(lines) \in Nat /\ Len(Append(lines, v)) = Len(lines) + 1
      /\ DOMAIN lines = 1 .. Len(lines)
      /\ \A i \in 1 .. Len(lines) : Append(lines, v)[i] = lines[i] /\ lines[i] \in Nat
      /\ Append(lines, v)[Len(lines) + 1] = v
  OBVIOUS
<1>2. DOMAIN Append(lines, v) = 1 .. Len(Append(lines, v))
  BY <1>1, LenProperties
<1>3. Append(lines, v) # <<>>
  <2>1. Len(<<>>) = 0
    OBVIOUS
  <2> QED BY <1>1, <2>1
<1>4. lines = <<>> <=> Len(lines) = 0
  OBVIOUS
<1> QED BY <1>1, <1>2, <1>3, <1>4

\* A channel gets or loses a message.
LEMMA ChannelChanges ==
  ASSUME NEW P, NEW S, NEW old \in [P \X P -> S], NEW a \in P, NEW b \in P, NEW v \in S,
         NEW new, new = [old EXCEPT ![<<a, b>>] = v]
  PROVE  /\ new \in [P \X P -> S]
         /\ \A x, y \in P : new[<<x, y>>] = IF x = a /\ y = b THEN v ELSE old[<<x, y>>]
<1>1. new \in [P \X P -> S]
  OBVIOUS
<1>2. ASSUME NEW x \in P, NEW y \in P
      PROVE  new[<<x, y>>] = IF x = a /\ y = b THEN v ELSE old[<<x, y>>]
  <2>1. <<x, y>> \in P \X P
    OBVIOUS
  <2>2. new[<<x, y>>] = IF <<x, y>> = <<a, b>> THEN v ELSE old[<<x, y>>]
    BY <2>1
  <2>3. <<x, y>> = <<a, b>> <=> x = a /\ y = b
    OBVIOUS
  <2> QED BY <2>2, <2>3
<1> QED BY <1>1, <1>2

LEMMA MessagesStart == Messages!Init => Messages!IInv
<1> SUFFICES ASSUME Messages!Init PROVE Messages!IInv
  OBVIOUS
<1>1. /\ mpi_program = "none" /\ process_count = 0 /\ rank_place = <<>> /\ last_received = <<>>
      /\ channel = <<>> /\ output = <<>>
  BY DEF Messages!Init
<1>2. Messages!Rank = {} /\ Messages!Rank \X Messages!Rank = {}
  BY <1>1 DEF Messages!Rank
<1>3. (\A T : <<>> \in [{} -> T]) /\ <<>> \in Seq(Nat)
  OBVIOUS
<1>4. Messages!TypeOK
  BY <1>1, <1>2, <1>3 DEF Messages!TypeOK
<1> QED BY <1>1, <1>4 DEF Messages!IInv

\* What every step of a process keeps of the types.
LEMMA MessageTypes ==
  ASSUME Messages!TypeOK, NEW r \in Messages!Rank,
         NEW p \in {"barrier", "send", "sending", "receive", "greet", "done"},
         rank_place' = [rank_place EXCEPT ![r] = p],
         mpi_program' = mpi_program, process_count' = process_count,
         last_received' \in [Messages!Rank -> Nat],
         \A q \in Messages!Rank : q # r => last_received'[q] = last_received[q],
         channel' \in [Messages!Rank \X Messages!Rank -> Seq(Nat)], output' \in Seq(Nat)
  PROVE  /\ Messages!TypeOK' /\ Messages!Rank' = Messages!Rank
         /\ \A q \in Messages!Rank : rank_place'[q] = IF q = r THEN p ELSE rank_place[q]
<1>1. Messages!Rank' = Messages!Rank
  BY DEF Messages!Rank
<1>2. rank_place \in [Messages!Rank -> {"start", "barrier", "send", "sending", "receive", "greet", "done"}]
  BY DEF Messages!TypeOK
<1>3. /\ \A q \in Messages!Rank : rank_place'[q] = IF q = r THEN p ELSE rank_place[q]
      /\ rank_place' \in [Messages!Rank -> {"start", "barrier", "send", "sending", "receive", "greet", "done"}]
  BY <1>2
<1>4. \A q \in Messages!Rank : rank_place'[q] = "start" => last_received'[q] = 0
  <2>1. \A q \in Messages!Rank : rank_place[q] = "start" => last_received[q] = 0
    BY DEF Messages!TypeOK
  <2> QED BY <1>3, <2>1
<1>5. process_count # 0
  BY DEF Messages!Rank
<1>6. Messages!TypeOK'
  BY <1>1, <1>3, <1>4, <1>5 DEF Messages!TypeOK
<1> QED BY <1>1, <1>3, <1>6


LEMMA MessagesLaunch ==
  ASSUME Messages!IInv, Messages!Launch
  PROVE  Messages!IInv'
<1>1. PICK P : P = Messages!Rank'
  OBVIOUS
<1>2. PICK N : N = process_count'
  OBVIOUS
<1>3. /\ process_count = 0 /\ mpi_program' \in MpiPrograms /\ N \in ProcessCounts
      /\ rank_place' = [r \in P |-> "start"] /\ last_received' = [r \in P |-> 0]
      /\ channel' = [pair \in P \X P |-> <<>>] /\ output' = output
  BY <1>1, <1>2 DEF Messages!Launch
<1>4. N \in Nat \ {0} /\ P = 0 .. N - 1
  BY <1>1, <1>2, <1>3, WorkAssumption DEF Messages!MpiAssumption, Messages!Rank
<1>5. output' = <<>> /\ Len(output') = 0 /\ DOMAIN output' = {}
  <2>1. output = <<>>
    BY <1>3 DEF Messages!IInv, Messages!TypeOK
  <2>2. DOMAIN <<>> = {} /\ Len(<<>>) = 0
    OBVIOUS
  <2> QED BY <1>3, <2>1, <2>2
<1>6. \A r \in P : rank_place'[r] = "start" /\ last_received'[r] = 0
  BY <1>3
<1>7. \A r, q \in P : channel'[<<r, q>>] = <<>>
  <2>1. \A r, q \in P : <<r, q>> \in P \X P
    OBVIOUS
  <2> QED BY <1>3, <2>1
<1>8. Messages!TypeOK'
  <2>1. /\ rank_place' \in [P -> {"start", "barrier", "send", "sending", "receive", "greet", "done"}]
        /\ last_received' \in [P -> Nat] /\ <<>> \in Seq(Nat)
    BY <1>3
  <2>2. channel' \in [P \X P -> Seq(Nat)]
    BY <1>3, <2>1
  <2> QED BY <1>1, <1>2, <1>3, <1>4, <1>5, <1>6, <2>1, <2>2 DEF Messages!TypeOK
<1>9. /\ Messages!PrintedOnce' /\ Messages!PrintedInOrder' /\ \A v : ~Messages!Printed(v)'
  BY <1>5 DEF Messages!PrintedOnce, Messages!PrintedInOrder, Messages!Printed
<1>10. Messages!GreetingsInv'
  BY <1>1, <1>4, <1>5, <1>6, <1>7, <1>9 DEF Messages!GreetingsInv
<1>11. Messages!PermissionInv'
  <2>1. 0 <= process_count'
    BY <1>2, <1>4
  <2>2. \A r \in P : ~(r < 0)
    BY <1>4
  <2>3. \A r \in P :
          /\ rank_place'[r] # "barrier"
          /\ r < 0 <=> rank_place'[r] \in {"send", "sending", "done"}
          /\ rank_place'[r] \in {"send", "sending"} => r + 1 < process_count'
          /\ rank_place'[r] = "receive" => r # 0
          /\ r # 0 /\ rank_place'[r] \notin {"start", "receive"} => rank_place'[r - 1] \in {"sending", "done"}
    BY <1>6, <2>2
  <2> QED BY <1>1, <1>5, <1>7, <1>9, <2>1, <2>3 DEF Messages!PermissionInv
<1>12. Messages!RaceInv'
  <2>1. mpi_program' = "mpi_relay_race" /\ N >= 3 => (N - 1) \div 2 > 0
    BY <1>4
  <2>2. CASE N >= 3 /\ N % 2 = 1 /\ mpi_program' = "mpi_relay_race"
    <3>1. Messages!Lines' = (N - 1) \div 2
      BY <1>2, <2>2 DEF Messages!Lines
    <3>2. 0 < Messages!Lines'
      BY <1>4, <2>1, <2>2, <3>1
    <3> QED BY <1>1, <1>2, <1>5, <1>6, <1>7, <1>9, <2>2, <3>2 DEF Messages!RaceInv
  <2>3. CASE N >= 3 /\ N % 2 = 1 /\ mpi_program' # "mpi_relay_race"
    <3>1. Messages!Lines' = N
      BY <1>2, <2>3 DEF Messages!Lines
    <3>2. 0 < Messages!Lines'
      BY <1>4, <3>1
    <3> QED BY <1>1, <1>2, <1>5, <1>6, <1>7, <1>9, <2>3, <3>2 DEF Messages!RaceInv
  <2>4. CASE ~(N >= 3 /\ N % 2 = 1)
    BY <1>1, <1>2, <1>5, <1>6, <1>7, <2>4 DEF Messages!RaceInv
  <2> QED BY <2>2, <2>3, <2>4
<1>13. Messages!BallInv'
  <2>1. N = 2 => 0 \in P /\ 1 \in P
    BY <1>4
  <2> QED BY <1>1, <1>2, <1>5, <1>6, <1>7, <1>9, <2>1 DEF Messages!BallInv
<1>14. mpi_program' # "none"
  BY <1>3, WorkAssumption DEF Messages!MpiAssumption
<1> QED BY <1>8, <1>10, <1>11, <1>12, <1>13, <1>14 DEF Messages!IInv

\* The steps of the programs in which process 0 prints the greetings.
LEMMA GreetingPrinted ==
  ASSUME Messages!TypeOK, Messages!GreetingsInv, NEW v \in Messages!Rank, ~Messages!Printed(v),
         mpi_program = "send_recv_ord_itm" => v = Len(output), output = <<>> => v = 0,
         output' = Append(output, v), mpi_program' = mpi_program, process_count' = process_count
  PROVE  /\ output' \in Seq(Nat) /\ output' # <<>> /\ Len(output') = Len(output) + 1 /\ Len(output) \in Nat
         /\ Messages!PrintedOnce' /\ (mpi_program = "send_recv_ord_itm" => Messages!PrintedInOrder')
         /\ \A i \in DOMAIN output' : output'[i] \in Messages!Rank
         /\ output'[1] = 0
         /\ \A u : Messages!Printed(u)' <=> Messages!Printed(u) \/ u = v
<1>1. output \in Seq(Nat) /\ v \in Nat
  BY DEF Messages!TypeOK, Messages!Rank
<1>2. PICK n : n = Len(output)
  OBVIOUS
<1>3. /\ output' \in Seq(Nat) /\ output' # <<>> /\ n \in Nat /\ Len(output') = n + 1
      /\ DOMAIN output = 1 .. n /\ DOMAIN output' = 1 .. n + 1
      /\ \A i \in 1 .. n : output'[i] = output[i] /\ output[i] \in Nat
      /\ output'[n + 1] = v /\ (output = <<>> <=> n = 0)
  BY <1>1, <1>2, LineAdded
<1>4. \A i \in 1 .. n : output[i] # v
  BY <1>3 DEF Messages!Printed
<1>5. \A i \in 1 .. n + 1 : i \in 1 .. n \/ i = n + 1
  BY <1>3
<1>6. \A i \in 1 .. n : i \in 1 .. n + 1
  BY <1>3
<1>7. Messages!PrintedOnce'
  <2>1. \A i, j \in 1 .. n : output[i] = output[j] => i = j
    BY <1>3 DEF Messages!GreetingsInv, Messages!PrintedOnce
  <2>2. \A i, j \in 1 .. n + 1 : output'[i] = output'[j] => i = j
    BY <1>3, <1>4, <1>5, <2>1
  <2> QED BY <1>3, <2>2 DEF Messages!PrintedOnce
<1>8. mpi_program = "send_recv_ord_itm" => Messages!PrintedInOrder'
  <2> SUFFICES ASSUME mpi_program = "send_recv_ord_itm" PROVE Messages!PrintedInOrder'
    OBVIOUS
  <2>1. \A i \in 1 .. n : output[i] = i - 1
    BY <1>3 DEF Messages!GreetingsInv, Messages!PrintedInOrder
  <2>2. v = n /\ (n + 1) - 1 = n
    BY <1>2, <1>3
  <2>3. \A i \in 1 .. n + 1 : output'[i] = i - 1
    BY <1>3, <1>5, <2>1, <2>2
  <2> QED BY <1>3, <2>3 DEF Messages!PrintedInOrder
<1>9. \A i \in DOMAIN output' : output'[i] \in Messages!Rank
  <2>1. \A i \in 1 .. n : output[i] \in Messages!Rank
    BY <1>3 DEF Messages!GreetingsInv
  <2> QED BY <1>3, <1>5, <2>1
<1>10. output'[1] = 0
  <2>1. CASE n = 0
    BY <1>3, <2>1
  <2>2. CASE n # 0
    <3>1. 1 \in 1 .. n
      BY <1>3, <2>2
    <3> QED BY <1>3, <2>2, <3>1 DEF Messages!GreetingsInv
  <2> QED BY <2>1, <2>2
<1>11. n + 1 \in 1 .. n + 1
  BY <1>3
<1>12. \A u : (\E i \in 1 .. n + 1 : output'[i] = u) <=> (\E i \in 1 .. n : output[i] = u) \/ u = v
  BY <1>3, <1>5, <1>6, <1>11
<1>13. \A u : Messages!Printed(u)' <=> Messages!Printed(u) \/ u = v
  BY <1>3, <1>12 DEF Messages!Printed
<1> QED BY <1>2, <1>3, <1>7, <1>8, <1>9, <1>10, <1>13

\* What each process knows of its own place, and what a step leaves alone.
LEMMA MessageStart ==
  ASSUME Messages!TypeOK, NEW r \in Messages!Rank
  PROVE  /\ process_count \in Nat \ {0} /\ Messages!Rank = 0 .. process_count - 1
         /\ 0 \in Messages!Rank /\ r \in Nat
         /\ rank_place[r] \in {"start", "barrier", "send", "sending", "receive", "greet", "done"}
         /\ last_received \in [Messages!Rank -> Nat] /\ last_received[r] \in Nat
         /\ \A q \in Messages!Rank : channel[<<r, q>>] \in Seq(Nat) /\ channel[<<q, r>>] \in Seq(Nat)
         /\ output \in Seq(Nat)
<1>1. process_count \in Nat \ {0} /\ Messages!Rank = 0 .. process_count - 1
  BY DEF Messages!TypeOK, Messages!Rank
<1>2. /\ last_received \in [Messages!Rank -> Nat]
      /\ rank_place \in [Messages!Rank -> {"start", "barrier", "send", "sending", "receive", "greet", "done"}]
      /\ channel \in [Messages!Rank \X Messages!Rank -> Seq(Nat)] /\ output \in Seq(Nat)
  BY DEF Messages!TypeOK
<1>3. \A q \in Messages!Rank : <<r, q>> \in Messages!Rank \X Messages!Rank /\ <<q, r>> \in Messages!Rank \X Messages!Rank
  OBVIOUS
<1>4. \A q \in Messages!Rank : channel[<<r, q>>] \in Seq(Nat) /\ channel[<<q, r>>] \in Seq(Nat)
  BY <1>2, <1>3
<1> QED BY <1>1, <1>2, <1>4

\* send_recv_urd and send_recv_ord_itm: the program starts.
LEMMA GreetingsStart ==
  ASSUME Messages!TypeOK, Messages!GreetingsInv, mpi_program \in {"send_recv_urd", "send_recv_ord_itm"},
         NEW r \in Messages!Rank, Messages!Start(r)
  PROVE  Messages!TypeOK' /\ Messages!GreetingsInv'
<1>1. PICK N : N = process_count
  OBVIOUS
<1>2. /\ N \in Nat \ {0} /\ 0 \in Messages!Rank /\ output \in Seq(Nat) /\ r \in Nat
      /\ last_received \in [Messages!Rank -> Nat]
  BY <1>1, MessageStart
<1>3. /\ rank_place[r] = "start" /\ mpi_program' = mpi_program /\ process_count' = process_count
      /\ last_received' = last_received /\ channel' = channel
      /\ output' = (IF r = 0 THEN Append(output, last_received[r]) ELSE output)
  BY DEF Messages!Start, Messages!FIRST_PROCESS
<1>4. PICK p \in {"send", "done", "receive"} :
         /\ rank_place' = [rank_place EXCEPT ![r] = p]
         /\ r # 0 => p = "send"
         /\ r = 0 => p = IF N = 1 THEN "done" ELSE "receive"
  <2>1. Messages!Lines = N
    BY <1>1 DEF Messages!Lines
  <2> DEFINE p == IF r # 0 THEN "send" ELSE IF N = 1 THEN "done" ELSE "receive"
  <2>2. rank_place' = [rank_place EXCEPT ![r] = p]
    BY <2>1 DEF Messages!Start, Messages!GoTo, Messages!FIRST_PROCESS
  <2>3. p \in {"send", "done", "receive"} /\ (r # 0 => p = "send") /\ (r = 0 => p = IF N = 1 THEN "done" ELSE "receive")
    OBVIOUS
  <2> HIDE DEF p
  <2> QED BY <2>2, <2>3
<1>5. last_received[r] = 0 /\ channel \in [Messages!Rank \X Messages!Rank -> Seq(Nat)]
  BY <1>3 DEF Messages!TypeOK
<1>8. /\ p \in {"barrier", "send", "sending", "receive", "greet", "done"}
      /\ last_received' \in [Messages!Rank -> Nat]
      /\ \A q \in Messages!Rank : q # r => last_received'[q] = last_received[q]
      /\ channel' \in [Messages!Rank \X Messages!Rank -> Seq(Nat)]
  BY <1>2, <1>3, <1>5
<1>6. CASE r = 0
  <2>1. output = <<>>
    BY <1>2, <1>3, <1>6 DEF Messages!GreetingsInv
  <2>2. ~Messages!Printed(0) /\ Len(output) = 0
    <3>1. DOMAIN output = {} /\ Len(output) = 0
      BY <2>1
    <3> QED BY <3>1 DEF Messages!Printed
  <2>3. output' = Append(output, 0)
    BY <1>3, <1>5, <1>6
  <2>4. /\ output' \in Seq(Nat) /\ output' # <<>> /\ Len(output') = Len(output) + 1 /\ Len(output) \in Nat
        /\ Messages!PrintedOnce' /\ (mpi_program = "send_recv_ord_itm" => Messages!PrintedInOrder')
        /\ \A i \in DOMAIN output' : output'[i] \in Messages!Rank
        /\ output'[1] = 0
        /\ \A u : Messages!Printed(u)' <=> Messages!Printed(u) \/ u = 0
    BY <1>2, <1>3, <2>1, <2>2, <2>3, GreetingPrinted
  <2>5. /\ Messages!TypeOK' /\ Messages!Rank' = Messages!Rank
        /\ \A q \in Messages!Rank : rank_place'[q] = IF q = r THEN p ELSE rank_place[q]
    BY <1>3, <1>4, <1>8, <2>4, MessageTypes
  <2>6. Len(output') = 1
    BY <2>2, <2>4
  <2>7. (p = "done" /\ N = 1) \/ (p = "receive" /\ N > 1)
    BY <1>2, <1>4, <1>6
  <2>8. \A x, y \in Messages!Rank : channel'[<<x, y>>] # <<>> =>
          y = 0 /\ x # 0 /\ channel'[<<x, y>>] = <<x>> /\ rank_place'[x] \in {"sending", "done"}
    BY <1>3, <1>6, <2>5 DEF Messages!GreetingsInv
  <2>9. \A q \in Messages!Rank : q # 0 =>
          /\ rank_place'[q] \in {"start", "send", "sending", "done"}
          /\ Messages!Printed(q)' <=> rank_place'[q] \in {"sending", "done"} /\ channel'[<<q, 0>>] = <<>>
    BY <1>3, <1>6, <2>4, <2>5 DEF Messages!GreetingsInv
  <2>10. /\ rank_place'[0] = p /\ p \in {"start", "receive", "done"}
         /\ p = "receive" => Len(output') < N
         /\ p = "done" => Len(output') = N
    BY <1>2, <1>4, <1>6, <2>5, <2>6, <2>7
  <2> QED BY <1>1, <1>3, <1>4, <2>4, <2>5, <2>8, <2>9, <2>10 DEF Messages!GreetingsInv
<1>7. CASE r # 0
  <2>1. output' = output /\ p = "send"
    BY <1>3, <1>4, <1>7
  <2>2. /\ Messages!TypeOK' /\ Messages!Rank' = Messages!Rank
        /\ \A q \in Messages!Rank : rank_place'[q] = IF q = r THEN p ELSE rank_place[q]
    <3>1. output' \in Seq(Nat)
      BY <1>2, <2>1
    <3> QED BY <1>3, <1>4, <1>8, <3>1, MessageTypes
  <2>3. /\ Messages!PrintedOnce' = Messages!PrintedOnce /\ Messages!PrintedInOrder' = Messages!PrintedInOrder
        /\ \A u : Messages!Printed(u)' = Messages!Printed(u)
    BY <2>1 DEF Messages!PrintedOnce, Messages!PrintedInOrder, Messages!Printed
  <2>4. \A x, y \in Messages!Rank : channel'[<<x, y>>] # <<>> =>
          y = 0 /\ x # 0 /\ channel'[<<x, y>>] = <<x>> /\ rank_place'[x] \in {"sending", "done"}
    BY <1>3, <2>2 DEF Messages!GreetingsInv
  <2>5. \A q \in Messages!Rank : q # 0 =>
          /\ rank_place'[q] \in {"start", "send", "sending", "done"}
          /\ Messages!Printed(q)' <=> rank_place'[q] \in {"sending", "done"} /\ channel'[<<q, 0>>] = <<>>
    BY <1>3, <2>1, <2>2, <2>3 DEF Messages!GreetingsInv
  <2>6. rank_place'[0] = rank_place[0]
    BY <1>2, <1>7, <2>2
  <2> QED BY <1>2, <1>3, <2>1, <2>2, <2>3, <2>4, <2>5, <2>6 DEF Messages!GreetingsInv
<1> QED BY <1>6, <1>7

\* A greeting is sent to process 0.
LEMMA GreetingsSend ==
  ASSUME Messages!TypeOK, Messages!GreetingsInv, mpi_program \in {"send_recv_urd", "send_recv_ord_itm"},
         NEW r \in Messages!Rank, Messages!Send(r)
  PROVE  Messages!TypeOK' /\ Messages!GreetingsInv'
<1>1. /\ 0 \in Messages!Rank /\ r \in Nat /\ output \in Seq(Nat)
      /\ last_received \in [Messages!Rank -> Nat]
  BY MessageStart
<1>2. Messages!Destination(r) = 0 /\ Messages!Content(r) = r
  BY DEF Messages!Destination, Messages!Content, Messages!FIRST_PROCESS
<1>3. /\ rank_place[r] = "send" /\ rank_place' = [rank_place EXCEPT ![r] = "sending"]
      /\ mpi_program' = mpi_program /\ process_count' = process_count
      /\ last_received' = last_received /\ output' = output
  BY DEF Messages!Send, Messages!GoTo
<1>4. r # 0 /\ channel[<<r, 0>>] = <<>> /\ ~Messages!Printed(r)
  BY <1>1, <1>3 DEF Messages!GreetingsInv
<1>5. <<r>> # <<>>
  OBVIOUS
<1>6. /\ channel' \in [Messages!Rank \X Messages!Rank -> Seq(Nat)]
      /\ \A x, y \in Messages!Rank : channel'[<<x, y>>] = IF x = r /\ y = 0 THEN <<r>> ELSE channel[<<x, y>>]
  <2>1. 0 \in Messages!Rank /\ r \in Nat
    BY <1>1
  <2>2. channel[<<r, 0>>] = <<>>
    BY <1>4
  <2>3. channel \in [Messages!Rank \X Messages!Rank -> Seq(Nat)] /\ <<r>> \in Seq(Nat) /\ Append(<<>>, r) = <<r>>
    BY <2>1 DEF Messages!TypeOK
  <2>4. channel' = [channel EXCEPT ![<<r, 0>>] = <<r>>]
    BY <1>2, <2>2, <2>3 DEF Messages!Send
  <2> QED BY <2>1, <2>3, <2>4, ChannelChanges
<1>7. /\ Messages!TypeOK' /\ Messages!Rank' = Messages!Rank
      /\ \A q \in Messages!Rank : rank_place'[q] = IF q = r THEN "sending" ELSE rank_place[q]
  BY <1>1, <1>3, <1>6, MessageTypes
<1>8. /\ Messages!PrintedOnce' = Messages!PrintedOnce /\ Messages!PrintedInOrder' = Messages!PrintedInOrder
      /\ \A u : Messages!Printed(u)' = Messages!Printed(u)
  BY <1>3 DEF Messages!PrintedOnce, Messages!PrintedInOrder, Messages!Printed
<1>9. \A x, y \in Messages!Rank : channel'[<<x, y>>] # <<>> =>
        y = 0 /\ x # 0 /\ channel'[<<x, y>>] = <<x>> /\ rank_place'[x] \in {"sending", "done"}
  <2>1. \A x, y \in Messages!Rank : channel[<<x, y>>] # <<>> =>
          y = 0 /\ x # 0 /\ channel[<<x, y>>] = <<x>> /\ rank_place[x] \in {"sending", "done"}
    BY DEF Messages!GreetingsInv
  <2>2. ASSUME NEW x \in Messages!Rank, NEW y \in Messages!Rank, channel'[<<x, y>>] # <<>>
        PROVE  y = 0 /\ x # 0 /\ channel'[<<x, y>>] = <<x>> /\ rank_place'[x] \in {"sending", "done"}
    <3>1. CASE x = r /\ y = 0
      BY <1>4, <1>6, <1>7, <3>1
    <3>2. CASE ~(x = r /\ y = 0)
      <4>1. channel'[<<x, y>>] = channel[<<x, y>>]
        BY <1>6, <3>2
      <4>2. y = 0 /\ x # 0 /\ channel[<<x, y>>] = <<x>> /\ rank_place[x] \in {"sending", "done"}
        BY <2>1, <2>2, <4>1
      <4> QED BY <1>7, <4>1, <4>2
    <3> QED BY <3>1, <3>2
  <2> QED BY <2>2
<1>10. \A q \in Messages!Rank : q # 0 =>
         /\ rank_place'[q] \in {"start", "send", "sending", "done"}
         /\ Messages!Printed(q)' <=> rank_place'[q] \in {"sending", "done"} /\ channel'[<<q, 0>>] = <<>>
  <2>1. \A q \in Messages!Rank : q # 0 =>
          /\ rank_place[q] \in {"start", "send", "sending", "done"}
          /\ Messages!Printed(q) <=> rank_place[q] \in {"sending", "done"} /\ channel[<<q, 0>>] = <<>>
    BY DEF Messages!GreetingsInv
  <2>2. ASSUME NEW q \in Messages!Rank, q # 0
        PROVE  /\ rank_place'[q] \in {"start", "send", "sending", "done"}
               /\ Messages!Printed(q)' <=> rank_place'[q] \in {"sending", "done"} /\ channel'[<<q, 0>>] = <<>>
    <3>1. CASE q = r
      BY <1>1, <1>4, <1>5, <1>6, <1>7, <1>8, <3>1
    <3>2. CASE q # r
      <4>1. rank_place'[q] = rank_place[q] /\ channel'[<<q, 0>>] = channel[<<q, 0>>]
        BY <1>1, <1>6, <1>7, <3>2
      <4> QED BY <1>8, <2>1, <2>2, <4>1
    <3> QED BY <3>1, <3>2
  <2> QED BY <2>2
<1>11. rank_place'[0] = rank_place[0]
  BY <1>1, <1>4, <1>7
<1> QED BY <1>1, <1>3, <1>7, <1>8, <1>9, <1>10, <1>11 DEF Messages!GreetingsInv

\* The send of a greeting returns.
LEMMA GreetingsSendReturns ==
  ASSUME Messages!TypeOK, Messages!GreetingsInv, mpi_program \in {"send_recv_urd", "send_recv_ord_itm"},
         NEW r \in Messages!Rank, Messages!SendReturns(r)
  PROVE  Messages!TypeOK' /\ Messages!GreetingsInv'
<1>1. /\ 0 \in Messages!Rank /\ output \in Seq(Nat) /\ last_received \in [Messages!Rank -> Nat]
      /\ channel \in [Messages!Rank \X Messages!Rank -> Seq(Nat)]
  BY MessageStart DEF Messages!TypeOK
<1>2. /\ rank_place[r] = "sending" /\ rank_place' = [rank_place EXCEPT ![r] = "done"]
      /\ mpi_program' = mpi_program /\ process_count' = process_count
      /\ last_received' = last_received /\ output' = output /\ channel' = channel
  BY DEF Messages!SendReturns, Messages!GoTo
<1>3. /\ Messages!TypeOK' /\ Messages!Rank' = Messages!Rank
      /\ \A q \in Messages!Rank : rank_place'[q] = IF q = r THEN "done" ELSE rank_place[q]
  BY <1>1, <1>2, MessageTypes
<1>4. /\ Messages!PrintedOnce' = Messages!PrintedOnce /\ Messages!PrintedInOrder' = Messages!PrintedInOrder
      /\ \A u : Messages!Printed(u)' = Messages!Printed(u)
  BY <1>2 DEF Messages!PrintedOnce, Messages!PrintedInOrder, Messages!Printed
<1>5. r # 0
  BY <1>1, <1>2 DEF Messages!GreetingsInv
<1>6. \A q \in Messages!Rank : q # 0 =>
         /\ rank_place'[q] \in {"start", "send", "sending", "done"}
         /\ Messages!Printed(q)' <=> rank_place'[q] \in {"sending", "done"} /\ channel'[<<q, 0>>] = <<>>
  BY <1>2, <1>3, <1>4 DEF Messages!GreetingsInv
<1>7. \A x, y \in Messages!Rank : channel'[<<x, y>>] # <<>> =>
        y = 0 /\ x # 0 /\ channel'[<<x, y>>] = <<x>> /\ rank_place'[x] \in {"sending", "done"}
  <2>1. \A x, y \in Messages!Rank : channel[<<x, y>>] # <<>> =>
          y = 0 /\ x # 0 /\ channel[<<x, y>>] = <<x>> /\ rank_place[x] \in {"sending", "done"}
    BY DEF Messages!GreetingsInv
  <2> QED BY <1>2, <1>3, <2>1
<1>8. rank_place'[0] = rank_place[0]
  BY <1>1, <1>3, <1>5
<1> QED BY <1>1, <1>2, <1>3, <1>4, <1>6, <1>7, <1>8 DEF Messages!GreetingsInv

\* Process 0 receives a greeting and prints it.
LEMMA GreetingsReceive ==
  ASSUME Messages!TypeOK, Messages!GreetingsInv, mpi_program \in {"send_recv_urd", "send_recv_ord_itm"},
         NEW r \in Messages!Rank, Messages!Receive(r)
  PROVE  Messages!TypeOK' /\ Messages!GreetingsInv'
<1>1. PICK N : N = process_count
  OBVIOUS
<1>2. /\ N \in Nat \ {0} /\ Messages!Rank = 0 .. N - 1 /\ 0 \in Messages!Rank
      /\ output \in Seq(Nat) /\ last_received \in [Messages!Rank -> Nat]
  BY <1>1, MessageStart
<1>3. /\ rank_place[r] = "receive" /\ mpi_program' = mpi_program /\ process_count' = process_count
      /\ output' = Append(output, last_received'[r])
      /\ rank_place' = [rank_place EXCEPT ![r] = IF Len(output') = Messages!Lines THEN "done" ELSE "receive"]
  BY DEF Messages!Receive, Messages!GoTo
<1>4. Messages!Lines = N
  BY <1>1 DEF Messages!Lines
<1>5. r = 0 /\ output # <<>> /\ Len(output) < N
  <2>1. r = 0
    BY <1>3 DEF Messages!GreetingsInv
  <2>2. output # <<>> /\ Len(output) < N
    BY <1>1, <1>2, <1>3, <2>1 DEF Messages!GreetingsInv
  <2> QED BY <2>1, <2>2
<1>6. Len(output) \in Nat
  BY <1>2
<1>7. PICK s \in Messages!Rank :
         /\ mpi_program = "send_recv_ord_itm" => s = Len(output)
         /\ channel[<<s, 0>>] # <<>>
         /\ last_received' = [last_received EXCEPT ![0] = Head(channel[<<s, 0>>])]
         /\ channel' = [channel EXCEPT ![<<s, 0>>] = Tail(@)]
  <2>1. PICK s \in Messages!Sources(0) :
         /\ channel[<<s, 0>>] # <<>>
         /\ last_received' = [last_received EXCEPT ![0] = Head(channel[<<s, 0>>])]
         /\ channel' = [channel EXCEPT ![<<s, 0>>] = Tail(@)]
    BY <1>5 DEF Messages!Receive
  <2>2. CASE mpi_program = "send_recv_ord_itm"
    <3>1. s = Len(output)
      BY <2>1, <2>2 DEF Messages!Sources
    <3>2. s \in Messages!Rank
      BY <1>2, <1>5, <1>6, <3>1
    <3> QED BY <2>1, <3>1, <3>2
  <2>3. CASE mpi_program = "send_recv_urd"
    <3>1. s \in Messages!Rank
      BY <2>1, <2>3 DEF Messages!Sources
    <3> QED BY <2>1, <2>3, <3>1
  <2> QED BY <2>2, <2>3
<1>8. s # 0 /\ channel[<<s, 0>>] = <<s>> /\ rank_place[s] \in {"sending", "done"} /\ s \in Nat
  <2>1. \A x, y \in Messages!Rank : channel[<<x, y>>] # <<>> =>
          x # 0 /\ channel[<<x, y>>] = <<x>> /\ rank_place[x] \in {"sending", "done"}
    BY DEF Messages!GreetingsInv
  <2>2. s \in Messages!Rank /\ 0 \in Messages!Rank /\ channel[<<s, 0>>] # <<>>
    BY <1>2, <1>7
  <2>3. s \in Nat
    BY <1>2
  <2> QED BY <2>1, <2>2, <2>3
<1>9. ~Messages!Printed(s)
  BY <1>7, <1>8 DEF Messages!GreetingsInv
<1>10. /\ channel' \in [Messages!Rank \X Messages!Rank -> Seq(Nat)]
       /\ \A x, y \in Messages!Rank : channel'[<<x, y>>] = IF x = s /\ y = 0 THEN <<>> ELSE channel[<<x, y>>]
       /\ last_received' \in [Messages!Rank -> Nat]
       /\ \A q \in Messages!Rank : last_received'[q] = IF q = 0 THEN s ELSE last_received[q]
  <2>1. /\ last_received' = [last_received EXCEPT ![0] = Head(channel[<<s, 0>>])]
        /\ channel' = [channel EXCEPT ![<<s, 0>>] = Tail(@)]
    BY <1>7
  <2>2. 0 \in Messages!Rank /\ s \in Nat /\ channel[<<s, 0>>] = <<s>>
    BY <1>2, <1>8
  <2>3. /\ channel \in [Messages!Rank \X Messages!Rank -> Seq(Nat)] /\ <<>> \in Seq(Nat)
        /\ last_received \in [Messages!Rank -> Nat]
    BY DEF Messages!TypeOK
  <2>4. Head(<<s>>) = s /\ Tail(<<s>>) = <<>>
    OBVIOUS
  <2>5. channel' = [channel EXCEPT ![<<s, 0>>] = <<>>] /\ last_received' = [last_received EXCEPT ![0] = s]
    BY <2>1, <2>2, <2>4
  <2>6. /\ last_received' \in [Messages!Rank -> Nat]
        /\ \A q \in Messages!Rank : last_received'[q] = IF q = 0 THEN s ELSE last_received[q]
    BY <2>2, <2>3, <2>5
  <2> QED BY <2>2, <2>3, <2>5, <2>6, ChannelChanges
<1>11. output' = Append(output, s)
  BY <1>2, <1>3, <1>5, <1>10
<1>12. /\ output' \in Seq(Nat) /\ output' # <<>> /\ Len(output') = Len(output) + 1
       /\ Messages!PrintedOnce' /\ (mpi_program = "send_recv_ord_itm" => Messages!PrintedInOrder')
       /\ \A i \in DOMAIN output' : output'[i] \in Messages!Rank
       /\ output'[1] = 0
       /\ \A u : Messages!Printed(u)' <=> Messages!Printed(u) \/ u = s
  BY <1>3, <1>5, <1>7, <1>9, <1>11, GreetingPrinted
<1>13. PICK p \in {"done", "receive"} :
          /\ rank_place' = [rank_place EXCEPT ![r] = p]
          /\ p = "done" => Len(output') = N
          /\ p = "receive" => Len(output') # N
  <2> DEFINE p == IF Len(output') = N THEN "done" ELSE "receive"
  <2>1. rank_place' = [rank_place EXCEPT ![r] = p]
    BY <1>3, <1>4
  <2>2. p \in {"done", "receive"} /\ (p = "done" => Len(output') = N) /\ (p = "receive" => Len(output') # N)
    OBVIOUS
  <2> HIDE DEF p
  <2> QED BY <2>1, <2>2
<1>14. /\ Messages!TypeOK' /\ Messages!Rank' = Messages!Rank
       /\ \A q \in Messages!Rank : rank_place'[q] = IF q = r THEN p ELSE rank_place[q]
  <2>1. p \in {"barrier", "send", "sending", "receive", "greet", "done"}
    OBVIOUS
  <2>2. \A q \in Messages!Rank : q # r => last_received'[q] = last_received[q]
    BY <1>5, <1>10
  <2>3. /\ rank_place' = [rank_place EXCEPT ![r] = p] /\ output' \in Seq(Nat)
        /\ mpi_program' = mpi_program /\ process_count' = process_count
        /\ last_received' \in [Messages!Rank -> Nat]
        /\ channel' \in [Messages!Rank \X Messages!Rank -> Seq(Nat)]
    BY <1>3, <1>10, <1>12, <1>13
  <2> QED BY <2>1, <2>2, <2>3, MessageTypes
<1>15. \A x, y \in Messages!Rank : channel'[<<x, y>>] # <<>> =>
        y = 0 /\ x # 0 /\ channel'[<<x, y>>] = <<x>> /\ rank_place'[x] \in {"sending", "done"}
  <2>1. \A x, y \in Messages!Rank : channel[<<x, y>>] # <<>> =>
          y = 0 /\ x # 0 /\ channel[<<x, y>>] = <<x>> /\ rank_place[x] \in {"sending", "done"}
    BY DEF Messages!GreetingsInv
  <2>2. ASSUME NEW x \in Messages!Rank, NEW y \in Messages!Rank, channel'[<<x, y>>] # <<>>
        PROVE  y = 0 /\ x # 0 /\ channel'[<<x, y>>] = <<x>> /\ rank_place'[x] \in {"sending", "done"}
    <3>1. channel'[<<x, y>>] = channel[<<x, y>>]
      BY <1>10, <2>2
    <3> QED BY <1>5, <1>14, <2>1, <2>2, <3>1
  <2> QED BY <2>2
<1>16. \A q \in Messages!Rank : q # 0 =>
         /\ rank_place'[q] \in {"start", "send", "sending", "done"}
         /\ Messages!Printed(q)' <=> rank_place'[q] \in {"sending", "done"} /\ channel'[<<q, 0>>] = <<>>
  <2>1. \A q \in Messages!Rank : q # 0 =>
          /\ rank_place[q] \in {"start", "send", "sending", "done"}
          /\ Messages!Printed(q) <=> rank_place[q] \in {"sending", "done"} /\ channel[<<q, 0>>] = <<>>
    BY DEF Messages!GreetingsInv
  <2>2. ASSUME NEW q \in Messages!Rank, q # 0
        PROVE  /\ rank_place'[q] \in {"start", "send", "sending", "done"}
               /\ Messages!Printed(q)' <=> rank_place'[q] \in {"sending", "done"} /\ channel'[<<q, 0>>] = <<>>
    <3>0. rank_place'[q] = rank_place[q]
      BY <1>5, <1>14, <2>2
    <3>1. CASE q = s
      <4>1. Messages!Printed(q)' /\ channel'[<<q, 0>>] = <<>> /\ rank_place[q] \in {"sending", "done"}
        BY <1>2, <1>8, <1>10, <1>12, <3>1
      <4> QED BY <3>0, <4>1
    <3>2. CASE q # s
      <4>1. channel'[<<q, 0>>] = channel[<<q, 0>>] /\ (Messages!Printed(q)' <=> Messages!Printed(q))
        BY <1>2, <1>10, <1>12, <3>2
      <4> QED BY <2>1, <2>2, <3>0, <4>1
    <3> QED BY <3>1, <3>2
  <2> QED BY <2>2
<1>17. /\ rank_place'[0] = p
       /\ p = "receive" => Len(output') < N
  BY <1>2, <1>5, <1>6, <1>12, <1>13, <1>14
<1>18. \A q \in Messages!Rank :
         IF q = 0 THEN /\ rank_place'[q] \in {"start", "receive", "done"}
                       /\ rank_place'[q] = "start" <=> output' = <<>>
                       /\ rank_place'[q] = "receive" => Len(output') < process_count'
                       /\ rank_place'[q] = "done" => Len(output') = process_count'
         ELSE /\ rank_place'[q] \in {"start", "send", "sending", "done"}
              /\ Messages!Printed(q)' <=> rank_place'[q] \in {"sending", "done"} /\ channel'[<<q, 0>>] = <<>>
  <2>1. process_count' = N /\ output' # <<>>
    BY <1>1, <1>3, <1>12
  <2>2. /\ rank_place'[0] \in {"start", "receive", "done"} /\ rank_place'[0] # "start"
        /\ rank_place'[0] = "receive" => Len(output') < N
        /\ rank_place'[0] = "done" => Len(output') = N
    BY <1>13, <1>17
  <2> QED BY <1>16, <2>1, <2>2
<1>19. mpi_program' = mpi_program
  BY <1>3
<1> QED BY <1>12, <1>14, <1>15, <1>18, <1>19 DEF Messages!GreetingsInv

\* send_recv_ord_sem: what the invariant says of the places.
PermissionPlaces(standing, N, n) ==
  \A q \in 0 .. N - 1 :
    /\ standing[q] # "barrier"
    /\ q < n <=> standing[q] \in {"send", "sending", "done"}
    /\ standing[q] \in {"send", "sending"} => q + 1 < N
    /\ standing[q] = "receive" => q # 0
    /\ q # 0 /\ standing[q] \notin {"start", "receive"} => standing[q - 1] \in {"sending", "done"}

\* A process goes on, having greeted when it did.
LEMMA PermissionPlacesKept ==
  ASSUME NEW N \in Nat, NEW r \in 0 .. N - 1, NEW n \in Nat, NEW m \in Nat, NEW old, NEW new, NEW p,
         PermissionPlaces(old, N, n), \A q \in 0 .. N - 1 : new[q] = IF q = r THEN p ELSE old[q],
         \/ p = "receive" /\ r # 0 /\ old[r] = "start" /\ m = n
         \/ p = "greet" /\ r = 0 /\ old[r] = "start" /\ m = n
         \/ p = "greet" /\ r # 0 /\ old[r] = "receive" /\ old[r - 1] \in {"sending", "done"} /\ m = n
         \/ p = "send" /\ old[r] = "greet" /\ n = r /\ m = n + 1 /\ r + 1 < N
         \/ p = "done" /\ old[r] = "greet" /\ n = r /\ m = n + 1
         \/ p = "sending" /\ old[r] = "send" /\ m = n
         \/ p = "done" /\ old[r] = "sending" /\ m = n
  PROVE  PermissionPlaces(new, N, m)
<1> SUFFICES ASSUME NEW q \in 0 .. N - 1
             PROVE  /\ new[q] # "barrier"
                    /\ q < m <=> new[q] \in {"send", "sending", "done"}
                    /\ new[q] \in {"send", "sending"} => q + 1 < N
                    /\ new[q] = "receive" => q # 0
                    /\ q # 0 /\ new[q] \notin {"start", "receive"} => new[q - 1] \in {"sending", "done"}
  BY DEF PermissionPlaces
<1>1. /\ old[q] # "barrier"
      /\ q < n <=> old[q] \in {"send", "sending", "done"}
      /\ old[q] \in {"send", "sending"} => q + 1 < N
      /\ old[q] = "receive" => q # 0
      /\ q # 0 /\ old[q] \notin {"start", "receive"} => old[q - 1] \in {"sending", "done"}
  BY DEF PermissionPlaces
<1>2. /\ old[r] # "barrier"
      /\ r < n <=> old[r] \in {"send", "sending", "done"}
      /\ old[r] \in {"send", "sending"} => r + 1 < N
      /\ r # 0 /\ old[r] \notin {"start", "receive"} => old[r - 1] \in {"sending", "done"}
  BY DEF PermissionPlaces
<1>3. CASE q = r
  <2>1. new[q] = p
    BY <1>3
  <2>2. q # 0 => new[q - 1] = old[q - 1]
    <3>1. q # 0 => q - 1 \in 0 .. N - 1 /\ q - 1 # r
      BY <1>3
    <3> QED BY <3>1
  <2> QED BY <1>2, <1>3, <2>1, <2>2
<1>4. CASE q # r
  <2>1. new[q] = old[q]
    BY <1>4
  <2>2. q < m <=> q < n
    BY <1>4
  <2>3. q # 0 /\ old[q - 1] \in {"sending", "done"} => new[q - 1] \in {"sending", "done"}
    <3>1. CASE q # 0 /\ q - 1 = r
      <4>1. new[q - 1] = p /\ (old[r] \in {"sending", "done"} => p = "done")
        BY <3>1
      <4> QED BY <3>1, <4>1
    <3>2. CASE q # 0 /\ q - 1 # r
      <4>1. q - 1 \in 0 .. N - 1
        BY <3>2
      <4> QED BY <3>2, <4>1
    <3> QED BY <3>1, <3>2
  <2> QED BY <1>1, <2>1, <2>2, <2>3
<1> QED BY <1>3, <1>4

\* What the invariant says, and how it is shown of the next state.
LEMMA PermissionFacts ==
  ASSUME Messages!TypeOK, Messages!PermissionInv, NEW r \in Messages!Rank
  PROVE  /\ process_count \in Nat \ {0} /\ Messages!Rank = 0 .. process_count - 1
         /\ r \in Nat /\ r < process_count
         /\ Len(output) \in Nat /\ Len(output) <= process_count
         /\ PermissionPlaces(rank_place, process_count, Len(output))
         /\ r < Len(output) <=> rank_place[r] \in {"send", "sending", "done"}
         /\ rank_place[r] \in {"send", "sending"} => r + 1 < process_count
         /\ rank_place[r] = "receive" => r # 0
         /\ rank_place[r] # "barrier"
         /\ r # 0 /\ rank_place[r] \notin {"start", "receive"} => rank_place[r - 1] \in {"sending", "done"}
         /\ output \in Seq(Nat) /\ last_received \in [Messages!Rank -> Nat]
         /\ channel \in [Messages!Rank \X Messages!Rank -> Seq(Nat)]
         /\ \A x, y \in Messages!Rank : channel[<<x, y>>] # <<>> =>
              /\ y = x + 1 /\ channel[<<x, y>>] = <<1>>
              /\ rank_place[x] \in {"sending", "done"} /\ rank_place[y] \in {"start", "receive"}
<1>1. /\ process_count \in Nat \ {0} /\ Messages!Rank = 0 .. process_count - 1
      /\ output \in Seq(Nat) /\ last_received \in [Messages!Rank -> Nat]
      /\ channel \in [Messages!Rank \X Messages!Rank -> Seq(Nat)]
  BY MessageStart DEF Messages!TypeOK
<1>2. Len(output) \in Nat /\ r \in Nat /\ r < process_count
  BY <1>1
<1>3. Len(output) <= process_count
  BY DEF Messages!PermissionInv
<1>4. \A x, y \in Messages!Rank : channel[<<x, y>>] # <<>> =>
        /\ y = x + 1 /\ channel[<<x, y>>] = <<1>>
        /\ rank_place[x] \in {"sending", "done"} /\ rank_place[y] \in {"start", "receive"}
  BY DEF Messages!PermissionInv
<1>5. PermissionPlaces(rank_place, process_count, Len(output))
  BY <1>1 DEF Messages!PermissionInv, PermissionPlaces
<1>6. /\ r < Len(output) <=> rank_place[r] \in {"send", "sending", "done"}
      /\ rank_place[r] \in {"send", "sending"} => r + 1 < process_count
      /\ rank_place[r] = "receive" => r # 0
      /\ rank_place[r] # "barrier"
      /\ r # 0 /\ rank_place[r] \notin {"start", "receive"} => rank_place[r - 1] \in {"sending", "done"}
  BY <1>1, <1>5 DEF PermissionPlaces
<1> QED BY <1>1, <1>2, <1>3, <1>4, <1>5, <1>6

LEMMA PermissionNext ==
  ASSUME Messages!PrintedInOrder', Len(output') <= process_count', process_count' = process_count,
         Messages!Rank = 0 .. process_count - 1,
         PermissionPlaces(rank_place', process_count, Len(output')),
         \A x, y \in Messages!Rank : channel'[<<x, y>>] # <<>> =>
           /\ y = x + 1 /\ channel'[<<x, y>>] = << 1 >>
           /\ rank_place'[x] \in {"sending", "done"} /\ rank_place'[y] \in {"start", "receive"}
  PROVE  Messages!PermissionInv'
<1>1. Messages!Rank' = Messages!Rank
  BY DEF Messages!Rank
<1>2. \A q \in Messages!Rank :
        /\ rank_place'[q] # "barrier"
        /\ q < Len(output') <=> rank_place'[q] \in {"send", "sending", "done"}
        /\ rank_place'[q] \in {"send", "sending"} => q + 1 < process_count'
        /\ rank_place'[q] = "receive" => q # 0
        /\ q # 0 /\ rank_place'[q] \notin {"start", "receive"} => rank_place'[q - 1] \in {"sending", "done"}
  BY DEF PermissionPlaces
<1> QED BY <1>1, <1>2 DEF Messages!PermissionInv

\* send_recv_ord_sem: process 0 is about to greet, the others wait for permission.
LEMMA PermissionStart ==
  ASSUME Messages!TypeOK, Messages!PermissionInv, mpi_program = "send_recv_ord_sem",
         NEW r \in Messages!Rank, Messages!Start(r)
  PROVE  Messages!TypeOK' /\ Messages!PermissionInv'
<1>1. PICK p \in {"greet", "receive"} :
         rank_place' = [rank_place EXCEPT ![r] = p] /\ (r = 0 => p = "greet") /\ (r # 0 => p = "receive")
  <2> DEFINE p == IF r = 0 THEN "greet" ELSE "receive"
  <2>1. rank_place' = [rank_place EXCEPT ![r] = p]
    BY DEF Messages!Start, Messages!GoTo, Messages!FIRST_PROCESS
  <2>2. p \in {"greet", "receive"} /\ (r = 0 => p = "greet") /\ (r # 0 => p = "receive")
    OBVIOUS
  <2> HIDE DEF p
  <2> QED BY <2>1, <2>2
<1>2. /\ rank_place[r] = "start" /\ mpi_program' = mpi_program /\ process_count' = process_count
      /\ last_received' = last_received /\ channel' = channel /\ output' = output
  BY DEF Messages!Start
<1>3. /\ process_count \in Nat \ {0} /\ Messages!Rank = 0 .. process_count - 1
      /\ Len(output) \in Nat /\ Len(output) <= process_count
      /\ PermissionPlaces(rank_place, process_count, Len(output))
      /\ output \in Seq(Nat) /\ last_received \in [Messages!Rank -> Nat]
      /\ channel \in [Messages!Rank \X Messages!Rank -> Seq(Nat)]
      /\ \A x, y \in Messages!Rank : channel[<<x, y>>] # <<>> =>
           /\ y = x + 1 /\ channel[<<x, y>>] = <<1>>
           /\ rank_place[x] \in {"sending", "done"} /\ rank_place[y] \in {"start", "receive"}
  BY PermissionFacts
<1>4. /\ Messages!TypeOK' /\ Messages!Rank' = Messages!Rank
      /\ \A q \in Messages!Rank : rank_place'[q] = IF q = r THEN p ELSE rank_place[q]
  <2>1. /\ p \in {"barrier", "send", "sending", "receive", "greet", "done"}
        /\ last_received' \in [Messages!Rank -> Nat]
        /\ \A q \in Messages!Rank : q # r => last_received'[q] = last_received[q]
        /\ channel' \in [Messages!Rank \X Messages!Rank -> Seq(Nat)] /\ output' \in Seq(Nat)
    BY <1>2, <1>3
  <2> QED BY <1>1, <1>2, <2>1, MessageTypes
<1>5. PermissionPlaces(rank_place', process_count, Len(output'))
  <2>1. \A q \in 0 .. process_count - 1 : rank_place'[q] = IF q = r THEN p ELSE rank_place[q]
    BY <1>3, <1>4
  <2>2. PICK n \in Nat : n = Len(output) /\ n = Len(output')
    BY <1>2, <1>3
  <2>3. PermissionPlaces(rank_place, process_count, n)
    BY <1>2, <1>3, <2>2
  <2>4. \/ p = "receive" /\ r # 0 /\ rank_place[r] = "start"
        \/ p = "greet" /\ r = 0 /\ rank_place[r] = "start"
    BY <1>1, <1>2
  <2>5. process_count \in Nat /\ r \in 0 .. process_count - 1
    BY <1>3
  <2>6. PermissionPlaces(rank_place', process_count, n)
    BY <2>1, <2>3, <2>4, <2>5, PermissionPlacesKept
  <2> QED BY <2>2, <2>6
<1>6. ASSUME NEW x \in Messages!Rank, NEW y \in Messages!Rank, channel'[<<x, y>>] # <<>>
      PROVE  /\ y = x + 1 /\ channel'[<<x, y>>] = <<1>>
             /\ rank_place'[x] \in {"sending", "done"} /\ rank_place'[y] \in {"start", "receive"}
  <2>1. /\ y = x + 1 /\ channel[<<x, y>>] = <<1>>
        /\ rank_place[x] \in {"sending", "done"} /\ rank_place[y] \in {"start", "receive"}
    BY <1>2, <1>3, <1>6
  <2>2. x # r /\ (y = r => p = "receive")
    BY <1>1, <1>2, <1>3, <2>1
  <2> QED BY <1>2, <1>4, <2>1, <2>2
<1>7. Messages!PrintedInOrder'
  BY <1>2 DEF Messages!PermissionInv, Messages!PrintedInOrder
<1> QED BY <1>2, <1>3, <1>4, <1>5, <1>6, <1>7, PermissionNext

\* Permission arrives.
LEMMA PermissionReceive ==
  ASSUME Messages!TypeOK, Messages!PermissionInv, mpi_program = "send_recv_ord_sem",
         NEW r \in Messages!Rank, Messages!Receive(r)
  PROVE  Messages!TypeOK' /\ Messages!PermissionInv'
<1>1. /\ rank_place[r] = "receive" /\ mpi_program' = mpi_program /\ process_count' = process_count
      /\ rank_place' = [rank_place EXCEPT ![r] = "greet"] /\ output' = output
      /\ channel[<<r - 1, r>>] # <<>>
      /\ last_received' = [last_received EXCEPT ![r] = Head(channel[<<r - 1, r>>])]
      /\ channel' = [channel EXCEPT ![<<r - 1, r>>] = Tail(@)]
  BY DEF Messages!Receive, Messages!GoTo, Messages!Sources
<1>2. /\ process_count \in Nat \ {0} /\ Messages!Rank = 0 .. process_count - 1
      /\ Len(output) \in Nat /\ Len(output) <= process_count
      /\ PermissionPlaces(rank_place, process_count, Len(output))
      /\ output \in Seq(Nat) /\ last_received \in [Messages!Rank -> Nat]
      /\ channel \in [Messages!Rank \X Messages!Rank -> Seq(Nat)]
      /\ \A x, y \in Messages!Rank : channel[<<x, y>>] # <<>> =>
           /\ y = x + 1 /\ channel[<<x, y>>] = <<1>>
           /\ rank_place[x] \in {"sending", "done"} /\ rank_place[y] \in {"start", "receive"}
      /\ rank_place[r] = "receive" => r # 0
  BY PermissionFacts
<1>3. r - 1 \in Messages!Rank /\ r # 0 /\ (r - 1) + 1 = r
  BY <1>1, <1>2
<1>4. channel[<<r - 1, r>>] = <<1>> /\ rank_place[r - 1] \in {"sending", "done"}
  <2>1. \A x, y \in Messages!Rank : channel[<<x, y>>] # <<>> =>
          y = x + 1 /\ channel[<<x, y>>] = <<1>> /\ rank_place[x] \in {"sending", "done"}
    BY <1>2
  <2>2. channel[<<r - 1, r>>] # <<>>
    BY <1>1
  <2> QED BY <1>3, <2>1, <2>2
<1>5. /\ channel' = [channel EXCEPT ![<<r - 1, r>>] = <<>>] /\ last_received' = [last_received EXCEPT ![r] = 1]
      /\ <<>> \in Seq(Nat)
  <2>1. Head(<<1>>) = 1 /\ Tail(<<1>>) = <<>> /\ <<>> \in Seq(Nat)
    OBVIOUS
  <2> QED BY <1>1, <1>4, <2>1
<1>6. /\ channel' \in [Messages!Rank \X Messages!Rank -> Seq(Nat)]
      /\ \A x, y \in Messages!Rank : channel'[<<x, y>>] = IF x = r - 1 /\ y = r THEN <<>> ELSE channel[<<x, y>>]
  <2>1. channel \in [Messages!Rank \X Messages!Rank -> Seq(Nat)]
    BY <1>2
  <2> QED BY <1>3, <1>5, <2>1, ChannelChanges
<1>7. /\ Messages!TypeOK' /\ Messages!Rank' = Messages!Rank
      /\ \A q \in Messages!Rank : rank_place'[q] = IF q = r THEN "greet" ELSE rank_place[q]
  <2>1. /\ last_received' \in [Messages!Rank -> Nat]
        /\ \A q \in Messages!Rank : q # r => last_received'[q] = last_received[q]
    <3>1. last_received' = [last_received EXCEPT ![r] = 1] /\ last_received \in [Messages!Rank -> Nat]
      BY <1>2, <1>5
    <3> QED BY <3>1
  <2>2. channel' \in [Messages!Rank \X Messages!Rank -> Seq(Nat)]
    BY <1>6
  <2>3. output' \in Seq(Nat)
    BY <1>1, <1>2
  <2>4. /\ rank_place' = [rank_place EXCEPT ![r] = "greet"]
        /\ mpi_program' = mpi_program /\ process_count' = process_count
    BY <1>1
  <2> QED BY <2>1, <2>2, <2>3, <2>4, MessageTypes
<1>8. PermissionPlaces(rank_place', process_count, Len(output'))
  <2>1. \A q \in 0 .. process_count - 1 : rank_place'[q] = IF q = r THEN "greet" ELSE rank_place[q]
    BY <1>2, <1>7
  <2>2. PICK n \in Nat : n = Len(output) /\ n = Len(output')
    BY <1>1, <1>2
  <2>3. PermissionPlaces(rank_place, process_count, n)
    BY <1>1, <1>2, <2>2
  <2>4. r # 0 /\ rank_place[r] = "receive" /\ rank_place[r - 1] \in {"sending", "done"}
    BY <1>1, <1>3, <1>4
  <2>5. process_count \in Nat /\ r \in 0 .. process_count - 1
    BY <1>2
  <2>6. PermissionPlaces(rank_place', process_count, n)
    BY <2>1, <2>3, <2>4, <2>5, PermissionPlacesKept
  <2> QED BY <2>2, <2>6
<1>9. ASSUME NEW x \in Messages!Rank, NEW y \in Messages!Rank, channel'[<<x, y>>] # <<>>
      PROVE  /\ y = x + 1 /\ channel'[<<x, y>>] = <<1>>
             /\ rank_place'[x] \in {"sending", "done"} /\ rank_place'[y] \in {"start", "receive"}
  <2>1. ~(x = r - 1 /\ y = r) /\ channel'[<<x, y>>] = channel[<<x, y>>]
    BY <1>6, <1>9
  <2>2. /\ y = x + 1 /\ channel[<<x, y>>] = <<1>>
        /\ rank_place[x] \in {"sending", "done"} /\ rank_place[y] \in {"start", "receive"}
    BY <1>2, <1>9, <2>1
  <2>3. x # r /\ y # r
    <3>1. x # r
      BY <1>1, <2>2
    <3>2. y = r => x = r - 1
      BY <1>2, <2>2
    <3> QED BY <2>1, <3>1, <3>2
  <2> QED BY <1>7, <2>1, <2>2, <2>3
<1>10. Messages!PrintedInOrder'
  BY <1>1 DEF Messages!PermissionInv, Messages!PrintedInOrder
<1> QED BY <1>1, <1>2, <1>7, <1>8, <1>9, <1>10, PermissionNext

\* Everyone before has greeted, and this one greets.
LEMMA PermissionGreet ==
  ASSUME Messages!TypeOK, Messages!PermissionInv, mpi_program = "send_recv_ord_sem",
         NEW r \in Messages!Rank, Messages!Greet(r)
  PROVE  Messages!TypeOK' /\ Messages!PermissionInv'
<1>1. /\ process_count \in Nat \ {0} /\ Messages!Rank = 0 .. process_count - 1
      /\ Len(output) \in Nat /\ Len(output) <= process_count /\ r \in Nat /\ r < process_count
      /\ PermissionPlaces(rank_place, process_count, Len(output))
      /\ output \in Seq(Nat) /\ last_received \in [Messages!Rank -> Nat]
      /\ channel \in [Messages!Rank \X Messages!Rank -> Seq(Nat)]
      /\ \A x, y \in Messages!Rank : channel[<<x, y>>] # <<>> =>
           /\ y = x + 1 /\ channel[<<x, y>>] = <<1>>
           /\ rank_place[x] \in {"sending", "done"} /\ rank_place[y] \in {"start", "receive"}
      /\ r < Len(output) <=> rank_place[r] \in {"send", "sending", "done"}
      /\ r # 0 /\ rank_place[r] \notin {"start", "receive"} => rank_place[r - 1] \in {"sending", "done"}
  BY PermissionFacts
<1>2. PICK p \in {"send", "done"} :
         rank_place' = [rank_place EXCEPT ![r] = p] /\ (p = "send" => r + 1 < process_count)
  <2> DEFINE p == IF r + 1 < process_count THEN "send" ELSE "done"
  <2>1. rank_place' = [rank_place EXCEPT ![r] = p]
    BY DEF Messages!Greet, Messages!GoTo
  <2>2. p \in {"send", "done"} /\ (p = "send" => r + 1 < process_count)
    OBVIOUS
  <2> HIDE DEF p
  <2> QED BY <2>1, <2>2
<1>3. /\ rank_place[r] = "greet" /\ mpi_program' = mpi_program /\ process_count' = process_count
      /\ last_received' = last_received /\ channel' = channel /\ output' = Append(output, r)
  BY DEF Messages!Greet
<1>4. Len(output) = r
  <2>1. ~(r < Len(output))
    BY <1>1, <1>3
  <2>2. CASE r = 0
    BY <1>1, <2>1, <2>2
  <2>3. CASE r # 0
    <3>1. rank_place[r - 1] \in {"sending", "done"} /\ r - 1 \in 0 .. process_count - 1
      BY <1>1, <1>3, <2>3
    <3>2. r - 1 < Len(output)
      BY <1>1, <3>1 DEF PermissionPlaces
    <3> QED BY <1>1, <2>1, <3>2
  <2> QED BY <2>2, <2>3
<1>5. /\ output' \in Seq(Nat) /\ Len(output') = r + 1 /\ Messages!PrintedInOrder'
  <2>1. /\ Append(output, r) \in Seq(Nat) /\ Len(Append(output, r)) = r + 1
        /\ DOMAIN output = 1 .. r /\ DOMAIN Append(output, r) = 1 .. r + 1
        /\ \A i \in 1 .. r : Append(output, r)[i] = output[i]
        /\ Append(output, r)[r + 1] = r
    BY <1>1, <1>4, LineAdded
  <2>2. \A i \in 1 .. r : output[i] = i - 1
    BY <2>1 DEF Messages!PermissionInv, Messages!PrintedInOrder
  <2>3. \A i \in 1 .. r + 1 : output'[i] = i - 1
    <3>1. \A i \in 1 .. r + 1 : i \in 1 .. r \/ i = r + 1
      BY <1>1
    <3>2. (r + 1) - 1 = r
      BY <1>1
    <3> QED BY <1>3, <2>1, <2>2, <3>1, <3>2
  <2> QED BY <1>3, <2>1, <2>3 DEF Messages!PrintedInOrder
<1>6. /\ Messages!TypeOK' /\ Messages!Rank' = Messages!Rank
      /\ \A q \in Messages!Rank : rank_place'[q] = IF q = r THEN p ELSE rank_place[q]
  <2>1. /\ p \in {"barrier", "send", "sending", "receive", "greet", "done"}
        /\ last_received' \in [Messages!Rank -> Nat]
        /\ \A q \in Messages!Rank : q # r => last_received'[q] = last_received[q]
        /\ channel' \in [Messages!Rank \X Messages!Rank -> Seq(Nat)]
    BY <1>1, <1>2, <1>3
  <2>2. output' \in Seq(Nat) /\ rank_place' = [rank_place EXCEPT ![r] = p]
    BY <1>2, <1>5
  <2>3. mpi_program' = mpi_program /\ process_count' = process_count
    BY <1>3
  <2> QED BY <2>1, <2>2, <2>3, MessageTypes
<1>7. PermissionPlaces(rank_place', process_count, r + 1)
  <2>1. \A q \in 0 .. process_count - 1 : rank_place'[q] = IF q = r THEN p ELSE rank_place[q]
    BY <1>1, <1>6
  <2>2. PermissionPlaces(rank_place, process_count, r)
    BY <1>1, <1>4
  <2>3. \/ p = "send" /\ rank_place[r] = "greet" /\ r + 1 < process_count
        \/ p = "done" /\ rank_place[r] = "greet"
    BY <1>2, <1>3
  <2>4. process_count \in Nat /\ r \in 0 .. process_count - 1 /\ r + 1 \in Nat /\ r \in Nat
    BY <1>1
  <2> QED BY <2>1, <2>2, <2>3, <2>4, PermissionPlacesKept
<1>8. ASSUME NEW x \in Messages!Rank, NEW y \in Messages!Rank, channel'[<<x, y>>] # <<>>
      PROVE  /\ y = x + 1 /\ channel'[<<x, y>>] = <<1>>
             /\ rank_place'[x] \in {"sending", "done"} /\ rank_place'[y] \in {"start", "receive"}
  <2>1. /\ y = x + 1 /\ channel[<<x, y>>] = <<1>>
        /\ rank_place[x] \in {"sending", "done"} /\ rank_place[y] \in {"start", "receive"}
    BY <1>1, <1>3, <1>8
  <2>2. x # r /\ y # r
    BY <1>3, <2>1
  <2> QED BY <1>3, <1>6, <2>1, <2>2
<1>9. Len(output') <= process_count' /\ PermissionPlaces(rank_place', process_count, Len(output'))
  BY <1>1, <1>3, <1>5, <1>7
<1> QED BY <1>1, <1>3, <1>5, <1>6, <1>8, <1>9, PermissionNext

\* Permission is given to the next process.
LEMMA PermissionSend ==
  ASSUME Messages!TypeOK, Messages!PermissionInv, mpi_program = "send_recv_ord_sem",
         NEW r \in Messages!Rank, Messages!Send(r)
  PROVE  Messages!TypeOK' /\ Messages!PermissionInv'
<1>1. /\ rank_place[r] = "send" /\ rank_place' = [rank_place EXCEPT ![r] = "sending"]
      /\ mpi_program' = mpi_program /\ process_count' = process_count
      /\ last_received' = last_received /\ output' = output
      /\ channel' = [channel EXCEPT ![<<r, r + 1>>] = Append(@, 1)]
  BY DEF Messages!Send, Messages!GoTo, Messages!Destination, Messages!Content
<1>2. /\ process_count \in Nat \ {0} /\ Messages!Rank = 0 .. process_count - 1
      /\ Len(output) \in Nat /\ Len(output) <= process_count /\ r \in Nat
      /\ PermissionPlaces(rank_place, process_count, Len(output))
      /\ output \in Seq(Nat) /\ last_received \in [Messages!Rank -> Nat]
      /\ channel \in [Messages!Rank \X Messages!Rank -> Seq(Nat)]
      /\ \A x, y \in Messages!Rank : channel[<<x, y>>] # <<>> =>
           /\ y = x + 1 /\ channel[<<x, y>>] = <<1>>
           /\ rank_place[x] \in {"sending", "done"} /\ rank_place[y] \in {"start", "receive"}
      /\ rank_place[r] \in {"send", "sending"} => r + 1 < process_count
  BY PermissionFacts
<1>3. r + 1 \in Messages!Rank /\ r + 1 # 0 /\ (r + 1) - 1 = r
  BY <1>1, <1>2
<1>4. channel[<<r, r + 1>>] = <<>>
  BY <1>1, <1>2, <1>3
<1>5. rank_place[r + 1] \in {"start", "receive"}
  <2>1. rank_place[r + 1] \notin {"start", "receive"} => rank_place[(r + 1) - 1] \in {"sending", "done"}
    BY <1>2, <1>3 DEF PermissionPlaces
  <2> QED BY <1>1, <1>3, <2>1
<1>6. channel' = [channel EXCEPT ![<<r, r + 1>>] = <<1>>] /\ <<1>> \in Seq(Nat)
  <2>1. Append(<<>>, 1) = <<1>> /\ <<1>> \in Seq(Nat)
    OBVIOUS
  <2> QED BY <1>1, <1>4, <2>1
<1>7. /\ channel' \in [Messages!Rank \X Messages!Rank -> Seq(Nat)]
      /\ \A x, y \in Messages!Rank : channel'[<<x, y>>] = IF x = r /\ y = r + 1 THEN <<1>> ELSE channel[<<x, y>>]
  <2>1. channel \in [Messages!Rank \X Messages!Rank -> Seq(Nat)]
    BY <1>2
  <2> QED BY <1>3, <1>6, <2>1, ChannelChanges
<1>8. /\ Messages!TypeOK' /\ Messages!Rank' = Messages!Rank
      /\ \A q \in Messages!Rank : rank_place'[q] = IF q = r THEN "sending" ELSE rank_place[q]
  <2>1. last_received' \in [Messages!Rank -> Nat] /\ output' \in Seq(Nat)
    BY <1>1, <1>2
  <2>2. channel' \in [Messages!Rank \X Messages!Rank -> Seq(Nat)]
    BY <1>7
  <2> QED BY <1>1, <2>1, <2>2, MessageTypes
<1>9. PermissionPlaces(rank_place', process_count, Len(output'))
  <2>1. \A q \in 0 .. process_count - 1 : rank_place'[q] = IF q = r THEN "sending" ELSE rank_place[q]
    BY <1>2, <1>8
  <2>2. PICK n \in Nat : n = Len(output) /\ n = Len(output')
    BY <1>1, <1>2
  <2>3. PermissionPlaces(rank_place, process_count, n)
    BY <1>1, <1>2, <2>2
  <2>4. process_count \in Nat /\ r \in 0 .. process_count - 1
    BY <1>2
  <2>5. PermissionPlaces(rank_place', process_count, n)
    BY <1>1, <2>1, <2>3, <2>4, PermissionPlacesKept
  <2> QED BY <2>2, <2>5
<1>10. ASSUME NEW x \in Messages!Rank, NEW y \in Messages!Rank, channel'[<<x, y>>] # <<>>
       PROVE  /\ y = x + 1 /\ channel'[<<x, y>>] = <<1>>
              /\ rank_place'[x] \in {"sending", "done"} /\ rank_place'[y] \in {"start", "receive"}
  <2>1. CASE x = r /\ y = r + 1
    <3>1. y # r
      BY <1>2, <2>1
    <3> QED BY <1>5, <1>7, <1>8, <2>1, <3>1
  <2>2. CASE ~(x = r /\ y = r + 1)
    <3>1. channel'[<<x, y>>] = channel[<<x, y>>]
      BY <1>7, <2>2
    <3>2. /\ y = x + 1 /\ channel[<<x, y>>] = <<1>>
          /\ rank_place[x] \in {"sending", "done"} /\ rank_place[y] \in {"start", "receive"}
      BY <1>2, <1>10, <3>1
    <3>3. x # r /\ y # r
      BY <1>1, <3>2
    <3> QED BY <1>8, <3>1, <3>2, <3>3
  <2> QED BY <2>1, <2>2
<1>11. Messages!PrintedInOrder'
  BY <1>1 DEF Messages!PermissionInv, Messages!PrintedInOrder
<1> QED BY <1>1, <1>2, <1>8, <1>9, <1>10, <1>11, PermissionNext

\* The send of a permission returns.
LEMMA PermissionSendReturns ==
  ASSUME Messages!TypeOK, Messages!PermissionInv, mpi_program = "send_recv_ord_sem",
         NEW r \in Messages!Rank, Messages!SendReturns(r)
  PROVE  Messages!TypeOK' /\ Messages!PermissionInv'
<1>1. /\ rank_place[r] = "sending" /\ rank_place' = [rank_place EXCEPT ![r] = "done"]
      /\ mpi_program' = mpi_program /\ process_count' = process_count
      /\ last_received' = last_received /\ output' = output /\ channel' = channel
  BY DEF Messages!SendReturns, Messages!GoTo
<1>2. /\ process_count \in Nat \ {0} /\ Messages!Rank = 0 .. process_count - 1
      /\ Len(output) \in Nat /\ Len(output) <= process_count
      /\ PermissionPlaces(rank_place, process_count, Len(output))
      /\ output \in Seq(Nat) /\ last_received \in [Messages!Rank -> Nat]
      /\ channel \in [Messages!Rank \X Messages!Rank -> Seq(Nat)]
      /\ \A x, y \in Messages!Rank : channel[<<x, y>>] # <<>> =>
           /\ y = x + 1 /\ channel[<<x, y>>] = <<1>>
           /\ rank_place[x] \in {"sending", "done"} /\ rank_place[y] \in {"start", "receive"}
  BY PermissionFacts
<1>3. /\ Messages!TypeOK' /\ Messages!Rank' = Messages!Rank
      /\ \A q \in Messages!Rank : rank_place'[q] = IF q = r THEN "done" ELSE rank_place[q]
  BY <1>1, <1>2, MessageTypes
<1>4. PermissionPlaces(rank_place', process_count, Len(output'))
  <2>1. \A q \in 0 .. process_count - 1 : rank_place'[q] = IF q = r THEN "done" ELSE rank_place[q]
    BY <1>2, <1>3
  <2>2. PICK n \in Nat : n = Len(output) /\ n = Len(output')
    BY <1>1, <1>2
  <2>3. PermissionPlaces(rank_place, process_count, n)
    BY <1>1, <1>2, <2>2
  <2>4. process_count \in Nat /\ r \in 0 .. process_count - 1
    BY <1>2
  <2>5. PermissionPlaces(rank_place', process_count, n)
    BY <1>1, <2>1, <2>3, <2>4, PermissionPlacesKept
  <2> QED BY <2>2, <2>5
<1>5. ASSUME NEW x \in Messages!Rank, NEW y \in Messages!Rank, channel'[<<x, y>>] # <<>>
      PROVE  /\ y = x + 1 /\ channel'[<<x, y>>] = <<1>>
             /\ rank_place'[x] \in {"sending", "done"} /\ rank_place'[y] \in {"start", "receive"}
  <2>1. /\ y = x + 1 /\ channel[<<x, y>>] = <<1>>
        /\ rank_place[x] \in {"sending", "done"} /\ rank_place[y] \in {"start", "receive"}
    BY <1>1, <1>2, <1>5
  <2>2. y # r
    BY <1>1, <2>1
  <2> QED BY <1>1, <1>3, <2>1, <2>2
<1>6. Messages!PrintedInOrder'
  BY <1>1 DEF Messages!PermissionInv, Messages!PrintedInOrder
<1> QED BY <1>1, <1>2, <1>3, <1>4, <1>5, <1>6, PermissionNext

\* mpi_relay_race: the runners of a team are the processes 2 k - 1 and 2 k.
LEMMA RaceTeams ==
  ASSUME NEW N \in Nat, N >= 3, N % 2 = 1
  PROVE  /\ (N - 1) \div 2 \in Nat /\ (N - 1) \div 2 >= 1 /\ N = 2 * ((N - 1) \div 2) + 1
         /\ \A q \in 0 .. N - 1 :
              IF q % 2 = 1 THEN /\ q # 0 /\ q + 1 \in 0 .. N - 1 /\ q + 1 # 0 /\ (q + 1) % 2 # 1 /\ (q + 1) - 1 = q
              ELSE q # 0 => /\ q \div 2 \in 1 .. (N - 1) \div 2 /\ q = 2 * (q \div 2)
                            /\ q - 1 \in 0 .. N - 1 /\ (q - 1) % 2 = 1 /\ (q - 1) + 1 = q
<1>1. (N - 1) \div 2 \in Nat /\ (N - 1) \div 2 >= 1 /\ N = 2 * ((N - 1) \div 2) + 1
  OBVIOUS
<1>2. ASSUME NEW q \in 0 .. N - 1, q % 2 = 1
      PROVE  q # 0 /\ q + 1 \in 0 .. N - 1 /\ q + 1 # 0 /\ (q + 1) % 2 # 1 /\ (q + 1) - 1 = q
  BY <1>2
<1>3. ASSUME NEW q \in 0 .. N - 1, q % 2 # 1, q # 0
      PROVE  /\ q \div 2 \in 1 .. (N - 1) \div 2 /\ q = 2 * (q \div 2)
             /\ q - 1 \in 0 .. N - 1 /\ (q - 1) % 2 = 1 /\ (q - 1) + 1 = q
  BY <1>3
<1> QED BY <1>1, <1>2, <1>3

RacePlaces(standing, N) ==
  \A q \in 0 .. N - 1 :
    /\ q = 0 => standing[q] \in {"start", "barrier", "receive", "done"}
    /\ q % 2 = 1 => standing[q] \in {"start", "barrier", "send", "sending", "done"}
    /\ q # 0 /\ q % 2 # 1 =>
         /\ standing[q] \in {"start", "barrier", "receive", "send", "sending", "done"}
         /\ standing[q] \in {"send", "sending", "done"} => standing[q - 1] \in {"sending", "done"}

LEMMA RacePlacesKept ==
  ASSUME NEW N \in Nat, N >= 3, N % 2 = 1, NEW r \in 0 .. N - 1, NEW old, NEW new, NEW p,
         RacePlaces(old, N), \A q \in 0 .. N - 1 : new[q] = IF q = r THEN p ELSE old[q],
         \/ p = "barrier" /\ old[r] = "start"
         \/ p = "send" /\ r % 2 = 1 /\ old[r] = "barrier"
         \/ p = "receive" /\ r % 2 # 1 /\ old[r] = "barrier"
         \/ p = "sending" /\ old[r] = "send"
         \/ p = "done" /\ old[r] = "sending"
         \/ p = "send" /\ r # 0 /\ old[r] = "receive" /\ old[r - 1] \in {"sending", "done"}
         \/ p \in {"receive", "done"} /\ r = 0 /\ old[r] = "receive"
  PROVE  RacePlaces(new, N)
<1> SUFFICES ASSUME NEW q \in 0 .. N - 1
             PROVE  /\ q = 0 => new[q] \in {"start", "barrier", "receive", "done"}
                    /\ q % 2 = 1 => new[q] \in {"start", "barrier", "send", "sending", "done"}
                    /\ q # 0 /\ q % 2 # 1 =>
                         /\ new[q] \in {"start", "barrier", "receive", "send", "sending", "done"}
                         /\ new[q] \in {"send", "sending", "done"} => new[q - 1] \in {"sending", "done"}
  BY DEF RacePlaces
<1>1. /\ q = 0 => old[q] \in {"start", "barrier", "receive", "done"}
      /\ q % 2 = 1 => old[q] \in {"start", "barrier", "send", "sending", "done"}
      /\ q # 0 /\ q % 2 # 1 =>
           /\ old[q] \in {"start", "barrier", "receive", "send", "sending", "done"}
           /\ old[q] \in {"send", "sending", "done"} => old[q - 1] \in {"sending", "done"}
  BY DEF RacePlaces
<1>2. /\ r = 0 => old[r] \in {"start", "barrier", "receive", "done"}
      /\ r % 2 = 1 => old[r] \in {"start", "barrier", "send", "sending", "done"}
      /\ r # 0 /\ r % 2 # 1 =>
           /\ old[r] \in {"start", "barrier", "receive", "send", "sending", "done"}
           /\ old[r] \in {"send", "sending", "done"} => old[r - 1] \in {"sending", "done"}
  BY DEF RacePlaces
<1>3. 0 % 2 # 1 /\ \A k : k = 0 \/ k # 0
  OBVIOUS
<1>4. CASE q = r
  <2>1. new[q] = p
    BY <1>4
  <2>2. q # 0 => new[q - 1] = old[q - 1]
    <3>1. q # 0 => q - 1 \in 0 .. N - 1 /\ q - 1 # r
      BY <1>4
    <3> QED BY <3>1
  <2>3. q = 0 => p \in {"barrier", "receive", "done"}
    BY <1>2, <1>3, <1>4
  <2>4. q % 2 = 1 => p \in {"barrier", "send", "sending", "done"}
    BY <1>2, <1>3, <1>4
  <2>5. q # 0 /\ q % 2 # 1 =>
          /\ p \in {"barrier", "receive", "send", "sending", "done"}
          /\ p \in {"send", "sending", "done"} => old[q - 1] \in {"sending", "done"}
    BY <1>2, <1>4
  <2> QED BY <2>1, <2>2, <2>3, <2>4, <2>5
<1>5. CASE q # r
  <2>1. new[q] = old[q]
    BY <1>5
  <2>2. q # 0 /\ old[q - 1] \in {"sending", "done"} /\ q % 2 # 1 => new[q - 1] \in {"sending", "done"}
    <3>1. CASE q # 0 /\ q - 1 = r /\ q % 2 # 1
      <4>1. new[q - 1] = p /\ r # 0
        BY <3>1
      <4>2. old[r] \in {"sending", "done"} => p = "done"
        BY <4>1
      <4> QED BY <3>1, <4>1, <4>2
    <3>2. CASE q # 0 /\ q - 1 # r
      <4>1. q - 1 \in 0 .. N - 1
        BY <3>2
      <4> QED BY <3>2, <4>1
    <3> QED BY <3>1, <3>2
  <2> QED BY <1>1, <2>1, <2>2
<1> QED BY <1>4, <1>5

\* The messages of a race.
RaceMessages(standing, sent, N) ==
  \A x, y \in 0 .. N - 1 : sent[<<x, y>>] # <<>> =>
    /\ standing[x] \in {"sending", "done"}
    /\ IF x % 2 = 1 THEN /\ y = x + 1 /\ sent[<<x, y>>] = <<1>>
                         /\ standing[y] \in {"start", "barrier", "receive"}
       ELSE y = 0 /\ x # 0 /\ sent[<<x, y>>] = <<x \div 2>>

Racing == process_count >= 3 /\ process_count % 2 = 1

\* A team has its place when its message was received.
RacePrinted ==
  /\ Messages!PrintedOnce /\ \A i \in DOMAIN output : output[i] \in 1 .. (process_count - 1) \div 2
  /\ IF rank_place[0] = "done" THEN Len(output) = (process_count - 1) \div 2
     ELSE Len(output) < (process_count - 1) \div 2
  /\ \A q \in Messages!Rank : q # 0 /\ q % 2 # 1 =>
       (Messages!Printed(q \div 2) <=> rank_place[q] \in {"sending", "done"} /\ channel[<<q, 0>>] = <<>>)

\* The parts of the invariant.
LEMMA RaceParts ==
  mpi_program = "mpi_relay_race" /\ Racing /\ Messages!TypeOK =>
    (Messages!RaceInv <=> /\ RacePlaces(rank_place, process_count)
                          /\ RaceMessages(rank_place, channel, process_count) /\ RacePrinted)
<1> SUFFICES ASSUME mpi_program = "mpi_relay_race", Racing, Messages!TypeOK
             PROVE  Messages!RaceInv <=> /\ RacePlaces(rank_place, process_count)
                                         /\ RaceMessages(rank_place, channel, process_count) /\ RacePrinted
  OBVIOUS
<1>1. PICK N : N = process_count
  OBVIOUS
<1>2. /\ N \in Nat /\ N >= 3 /\ N % 2 = 1 /\ Messages!Rank = 0 .. N - 1 /\ 0 \in 0 .. N - 1
      /\ \A q \in 0 .. N - 1 : rank_place[q] \in {"start", "barrier", "send", "sending", "receive", "greet", "done"}
  <2>1. process_count \in Nat /\ Messages!Rank = 0 .. N - 1
    BY <1>1 DEF Messages!TypeOK, Messages!Rank
  <2>2. rank_place \in [Messages!Rank -> {"start", "barrier", "send", "sending", "receive", "greet", "done"}]
    BY DEF Messages!TypeOK
  <2> QED BY <1>1, <2>1, <2>2 DEF Racing
<1>3. Messages!Lines = (N - 1) \div 2
  BY <1>1 DEF Messages!Lines
<1>4. 0 % 2 # 1
  OBVIOUS
<1> DEFINE L == (N - 1) \div 2
           Messaging == \A x, y \in 0 .. N - 1 : channel[<<x, y>>] # <<>> =>
                          /\ rank_place[x] \in {"sending", "done"}
                          /\ IF x % 2 = 1 THEN /\ y = x + 1 /\ channel[<<x, y>>] = <<1>>
                                               /\ rank_place[y] \in {"start", "barrier", "receive"}
                             ELSE y = 0 /\ x # 0 /\ channel[<<x, y>>] = <<x \div 2>>
           Printing == Messages!PrintedOnce /\ \A i \in DOMAIN output : output[i] \in 1 .. L
           Referee == IF rank_place[0] = "done" THEN Len(output) = L ELSE Len(output) < L
           Standing(q) ==
             /\ q = 0 => rank_place[q] \in {"start", "barrier", "receive", "done"}
             /\ q % 2 = 1 => rank_place[q] \in {"start", "barrier", "send", "sending", "done"}
             /\ q # 0 /\ q % 2 # 1 =>
                  /\ rank_place[q] # "greet"
                  /\ rank_place[q] \in {"send", "sending", "done"} => rank_place[q - 1] \in {"sending", "done"}
           Team(q) == q # 0 /\ q % 2 # 1 =>
                        (Messages!Printed(q \div 2) <=> rank_place[q] \in {"sending", "done"} /\ channel[<<q, 0>>] = <<>>)
<1>5. Messages!RaceInv <=> /\ Printing /\ Messaging
                           /\ \A q \in 0 .. N - 1 : Standing(q) /\ Team(q) /\ (q = 0 => Referee)
  <2>1. process_count >= 3 /\ process_count % 2 = 1
    BY DEF Racing
  <2>2. Messages!RaceInv <=>
          /\ Messages!PrintedOnce /\ \A i \in DOMAIN output : output[i] \in 1 .. L
          /\ Messaging
          /\ \A r \in 0 .. N - 1 :
               /\ r = 0 => /\ rank_place[r] \in {"start", "barrier", "receive", "done"}
                           /\ IF rank_place[r] = "done" THEN Len(output) = L ELSE Len(output) < L
               /\ r % 2 = 1 => rank_place[r] \in {"start", "barrier", "send", "sending", "done"}
               /\ r # 0 /\ ~(r % 2 = 1) =>
                    /\ rank_place[r] # "greet"
                    /\ rank_place[r] \in {"send", "sending", "done"} => rank_place[r - 1] \in {"sending", "done"}
                    /\ Messages!Printed(r \div 2) <=> rank_place[r] \in {"sending", "done"} /\ channel[<<r, 0>>] = <<>>
    BY <1>1, <1>2, <1>3, <2>1 DEF Messages!RaceInv
  <2> HIDE DEF Messaging, L
  <2> QED BY <2>2
<1>6. RacePlaces(rank_place, process_count) <=> \A q \in 0 .. N - 1 : Standing(q)
  BY <1>1, <1>2 DEF RacePlaces
<1>7. RaceMessages(rank_place, channel, process_count) <=> Messaging
  BY <1>1 DEF RaceMessages
<1>8. RacePrinted <=> Printing /\ Referee /\ \A q \in 0 .. N - 1 : Team(q)
  BY <1>1, <1>2 DEF RacePrinted
<1> HIDE DEF Messaging, Printing, Referee, Standing, Team
<1> QED BY <1>2, <1>5, <1>6, <1>7, <1>8

LEMMA RaceNext ==
  ASSUME mpi_program = "mpi_relay_race", mpi_program' = mpi_program, process_count' = process_count,
         Racing, Messages!TypeOK', RacePlaces(rank_place', process_count),
         RaceMessages(rank_place', channel', process_count), RacePrinted'
  PROVE  Messages!RaceInv'
<1>1. (mpi_program = "mpi_relay_race" /\ Racing /\ Messages!TypeOK =>
        (Messages!RaceInv <=> /\ RacePlaces(rank_place, process_count)
                              /\ RaceMessages(rank_place, channel, process_count) /\ RacePrinted))'
  BY RaceParts, PTL
<1>2. Racing'
  BY DEF Racing
<1>3. RacePlaces(rank_place, process_count)'
  BY DEF RacePlaces
<1>4. RaceMessages(rank_place, channel, process_count)'
  BY DEF RaceMessages
<1> QED BY <1>1, <1>2, <1>3, <1>4

LEMMA RaceFacts ==
  ASSUME Messages!TypeOK, Messages!RaceInv, mpi_program = "mpi_relay_race", Racing, NEW r \in Messages!Rank
  PROVE  /\ process_count \in Nat /\ process_count >= 3 /\ process_count % 2 = 1
         /\ Messages!Rank = 0 .. process_count - 1 /\ r \in Nat /\ 0 \in Messages!Rank
         /\ Messages!Lines = (process_count - 1) \div 2
         /\ RacePlaces(rank_place, process_count) /\ RaceMessages(rank_place, channel, process_count) /\ RacePrinted
         /\ r = 0 => rank_place[r] \in {"start", "barrier", "receive", "done"}
         /\ r % 2 = 1 => rank_place[r] \in {"start", "barrier", "send", "sending", "done"}
         /\ r # 0 /\ r % 2 # 1 =>
              /\ rank_place[r] \in {"start", "barrier", "receive", "send", "sending", "done"}
              /\ rank_place[r] \in {"send", "sending", "done"} => rank_place[r - 1] \in {"sending", "done"}
         /\ \A x, y \in Messages!Rank : channel[<<x, y>>] # <<>> =>
              /\ rank_place[x] \in {"sending", "done"}
              /\ IF x % 2 = 1 THEN /\ y = x + 1 /\ channel[<<x, y>>] = <<1>>
                                   /\ rank_place[y] \in {"start", "barrier", "receive"}
                 ELSE y = 0 /\ x # 0 /\ channel[<<x, y>>] = <<x \div 2>>
         /\ output \in Seq(Nat) /\ last_received \in [Messages!Rank -> Nat]
         /\ channel \in [Messages!Rank \X Messages!Rank -> Seq(Nat)]
<1>1. /\ process_count \in Nat /\ process_count >= 3 /\ process_count % 2 = 1
      /\ Messages!Rank = 0 .. process_count - 1 /\ r \in Nat /\ 0 \in Messages!Rank
      /\ output \in Seq(Nat) /\ last_received \in [Messages!Rank -> Nat]
      /\ channel \in [Messages!Rank \X Messages!Rank -> Seq(Nat)]
  BY MessageStart DEF Racing, Messages!TypeOK
<1>2. RacePlaces(rank_place, process_count) /\ RaceMessages(rank_place, channel, process_count) /\ RacePrinted
  BY RaceParts
<1>3. /\ r = 0 => rank_place[r] \in {"start", "barrier", "receive", "done"}
      /\ r % 2 = 1 => rank_place[r] \in {"start", "barrier", "send", "sending", "done"}
      /\ r # 0 /\ r % 2 # 1 =>
           /\ rank_place[r] \in {"start", "barrier", "receive", "send", "sending", "done"}
           /\ rank_place[r] \in {"send", "sending", "done"} => rank_place[r - 1] \in {"sending", "done"}
  BY <1>1, <1>2 DEF RacePlaces
<1>4. \A x, y \in Messages!Rank : channel[<<x, y>>] # <<>> =>
        /\ rank_place[x] \in {"sending", "done"}
        /\ IF x % 2 = 1 THEN /\ y = x + 1 /\ channel[<<x, y>>] = <<1>>
                             /\ rank_place[y] \in {"start", "barrier", "receive"}
           ELSE y = 0 /\ x # 0 /\ channel[<<x, y>>] = <<x \div 2>>
  BY <1>1, <1>2 DEF RaceMessages
<1>5. Messages!Lines = (process_count - 1) \div 2
  BY DEF Messages!Lines
<1> QED BY <1>1, <1>2, <1>3, <1>4, <1>5

\* A step that sends and receives nothing: to the barrier, through it, and the return
\* of a send.
LEMMA RaceQuiet ==
  ASSUME Messages!TypeOK, Messages!RaceInv, mpi_program = "mpi_relay_race", Racing, NEW r \in Messages!Rank,
         Messages!Start(r) \/ Messages!Barrier(r) \/ Messages!SendReturns(r)
  PROVE  Messages!TypeOK' /\ Messages!RaceInv'
<1>1. /\ process_count \in Nat /\ process_count >= 3 /\ process_count % 2 = 1
      /\ Messages!Rank = 0 .. process_count - 1 /\ r \in Nat /\ 0 \in Messages!Rank
      /\ RacePlaces(rank_place, process_count) /\ RaceMessages(rank_place, channel, process_count) /\ RacePrinted
      /\ r = 0 => rank_place[r] \in {"start", "barrier", "receive", "done"}
      /\ r % 2 = 1 => rank_place[r] \in {"start", "barrier", "send", "sending", "done"}
      /\ output \in Seq(Nat) /\ last_received \in [Messages!Rank -> Nat]
      /\ channel \in [Messages!Rank \X Messages!Rank -> Seq(Nat)]
  BY RaceFacts
<1>2. PICK p \in {"barrier", "send", "receive", "done"} :
         /\ rank_place' = [rank_place EXCEPT ![r] = p]
         /\ \/ p = "barrier" /\ rank_place[r] = "start"
            \/ p = "send" /\ r % 2 = 1 /\ rank_place[r] = "barrier"
            \/ p = "receive" /\ r % 2 # 1 /\ rank_place[r] = "barrier"
            \/ p = "done" /\ rank_place[r] = "sending"
  <2>1. CASE Messages!Start(r)
    <3>1. rank_place' = [rank_place EXCEPT ![r] = "barrier"] /\ rank_place[r] = "start"
      BY <2>1 DEF Messages!Start, Messages!GoTo, Racing
    <3> QED BY <3>1
  <2>2. CASE Messages!Barrier(r) /\ r % 2 = 1
    <3>1. rank_place' = [rank_place EXCEPT ![r] = "send"] /\ rank_place[r] = "barrier"
      BY <2>2 DEF Messages!Barrier, Messages!GoTo
    <3> QED BY <2>2, <3>1
  <2>3. CASE Messages!Barrier(r) /\ r % 2 # 1
    <3>1. rank_place' = [rank_place EXCEPT ![r] = "receive"] /\ rank_place[r] = "barrier"
      BY <2>3 DEF Messages!Barrier, Messages!GoTo
    <3> QED BY <2>3, <3>1
  <2>4. CASE Messages!SendReturns(r)
    <3>1. rank_place' = [rank_place EXCEPT ![r] = "done"] /\ rank_place[r] = "sending"
      BY <2>4 DEF Messages!SendReturns, Messages!GoTo
    <3> QED BY <3>1
  <2> QED BY <2>1, <2>2, <2>3, <2>4
<1>3. /\ mpi_program' = mpi_program /\ process_count' = process_count
      /\ last_received' = last_received /\ channel' = channel /\ output' = output
  <2>1. CASE Messages!Start(r)
    BY <2>1 DEF Messages!Start
  <2>2. CASE Messages!Barrier(r)
    BY <2>2 DEF Messages!Barrier
  <2>3. CASE Messages!SendReturns(r)
    BY <2>3 DEF Messages!SendReturns
  <2> QED BY <2>1, <2>2, <2>3
<1>4. /\ Messages!TypeOK' /\ Messages!Rank' = Messages!Rank
      /\ \A q \in Messages!Rank : rank_place'[q] = IF q = r THEN p ELSE rank_place[q]
  <2>1. /\ p \in {"barrier", "send", "sending", "receive", "greet", "done"}
        /\ last_received' \in [Messages!Rank -> Nat]
        /\ \A q \in Messages!Rank : q # r => last_received'[q] = last_received[q]
        /\ channel' \in [Messages!Rank \X Messages!Rank -> Seq(Nat)] /\ output' \in Seq(Nat)
        /\ rank_place' = [rank_place EXCEPT ![r] = p]
    BY <1>1, <1>2, <1>3
  <2> QED BY <1>3, <2>1, MessageTypes
<1>5. RacePlaces(rank_place', process_count)
  <2>1. \A q \in 0 .. process_count - 1 : rank_place'[q] = IF q = r THEN p ELSE rank_place[q]
    BY <1>1, <1>4
  <2>2. \/ p = "barrier" /\ rank_place[r] = "start"
        \/ p = "send" /\ r % 2 = 1 /\ rank_place[r] = "barrier"
        \/ p = "receive" /\ r % 2 # 1 /\ rank_place[r] = "barrier"
        \/ p = "done" /\ rank_place[r] = "sending"
    BY <1>2
  <2>3. process_count \in Nat /\ process_count >= 3 /\ process_count % 2 = 1 /\ r \in 0 .. process_count - 1
    BY <1>1
  <2>4. RacePlaces(rank_place, process_count)
    BY <1>1
  <2> QED BY <2>1, <2>2, <2>3, <2>4, RacePlacesKept
<1>6. RaceMessages(rank_place', channel', process_count)
  <2>1. ASSUME NEW x \in 0 .. process_count - 1, NEW y \in 0 .. process_count - 1, channel'[<<x, y>>] # <<>>
        PROVE  /\ rank_place'[x] \in {"sending", "done"}
               /\ IF x % 2 = 1 THEN /\ y = x + 1 /\ channel'[<<x, y>>] = <<1>>
                                    /\ rank_place'[y] \in {"start", "barrier", "receive"}
                  ELSE y = 0 /\ x # 0 /\ channel'[<<x, y>>] = <<x \div 2>>
    <3>1. /\ rank_place[x] \in {"sending", "done"}
          /\ IF x % 2 = 1 THEN /\ y = x + 1 /\ channel[<<x, y>>] = <<1>>
                               /\ rank_place[y] \in {"start", "barrier", "receive"}
             ELSE y = 0 /\ x # 0 /\ channel[<<x, y>>] = <<x \div 2>>
      BY <1>1, <1>3, <2>1 DEF RaceMessages
    <3>2. rank_place'[x] \in {"sending", "done"}
      BY <1>1, <1>2, <1>4, <3>1
    <3>3. CASE x % 2 = 1
      <4>1. y = x + 1 /\ channel[<<x, y>>] = <<1>> /\ rank_place[y] \in {"start", "barrier", "receive"}
        BY <3>1, <3>3
      <4>2. y % 2 # 1
        BY <3>3, <4>1
      <4>3. rank_place'[y] \in {"start", "barrier", "receive"}
        BY <1>1, <1>2, <1>4, <4>1, <4>2
      <4> QED BY <1>3, <3>2, <3>3, <4>1, <4>3
    <3>4. CASE x % 2 # 1
      BY <1>3, <3>1, <3>2, <3>4
    <3> QED BY <3>3, <3>4
  <2> QED BY <2>1 DEF RaceMessages
<1>7. RacePrinted'
  <2>1. /\ Messages!PrintedOnce' /\ \A i \in DOMAIN output' : output'[i] \in 1 .. (process_count' - 1) \div 2
        /\ \A u : Messages!Printed(u)' = Messages!Printed(u)
    BY <1>1, <1>3 DEF RacePrinted, Messages!PrintedOnce, Messages!Printed
  <2>2. rank_place'[0] = "done" <=> rank_place[0] = "done"
    BY <1>1, <1>2, <1>4
  <2>3. IF rank_place'[0] = "done" THEN Len(output') = (process_count' - 1) \div 2
        ELSE Len(output') < (process_count' - 1) \div 2
    BY <1>1, <1>3, <2>2 DEF RacePrinted
  <2>4. \A q \in Messages!Rank : q # 0 /\ q % 2 # 1 =>
          (Messages!Printed(q \div 2)' <=> rank_place'[q] \in {"sending", "done"} /\ channel'[<<q, 0>>] = <<>>)
    <3>1. \A q \in Messages!Rank : q # 0 /\ q % 2 # 1 =>
            (Messages!Printed(q \div 2) <=> rank_place[q] \in {"sending", "done"} /\ channel[<<q, 0>>] = <<>>)
      BY <1>1 DEF RacePrinted
    <3>2. \A q \in Messages!Rank : rank_place'[q] \in {"sending", "done"} <=> rank_place[q] \in {"sending", "done"}
      BY <1>2, <1>4
    <3> QED BY <1>3, <2>1, <3>1, <3>2
  <2> QED BY <1>4, <2>1, <2>3, <2>4 DEF RacePrinted
<1> QED BY <1>3, <1>4, <1>5, <1>6, <1>7, RaceNext

\* A runner passes the baton, or tells process 0 of the team.
LEMMA RaceSend ==
  ASSUME Messages!TypeOK, Messages!RaceInv, mpi_program = "mpi_relay_race", Racing, NEW r \in Messages!Rank,
         Messages!Send(r)
  PROVE  Messages!TypeOK' /\ Messages!RaceInv'
<1>1. /\ process_count \in Nat /\ process_count >= 3 /\ process_count % 2 = 1
      /\ Messages!Rank = 0 .. process_count - 1 /\ r \in Nat /\ 0 \in Messages!Rank
      /\ RacePlaces(rank_place, process_count) /\ RaceMessages(rank_place, channel, process_count) /\ RacePrinted
      /\ r = 0 => rank_place[r] \in {"start", "barrier", "receive", "done"}
      /\ \A x, y \in Messages!Rank : channel[<<x, y>>] # <<>> =>
           /\ rank_place[x] \in {"sending", "done"}
           /\ IF x % 2 = 1 THEN /\ y = x + 1 /\ channel[<<x, y>>] = <<1>>
                                /\ rank_place[y] \in {"start", "barrier", "receive"}
              ELSE y = 0 /\ x # 0 /\ channel[<<x, y>>] = <<x \div 2>>
      /\ output \in Seq(Nat) /\ last_received \in [Messages!Rank -> Nat]
      /\ channel \in [Messages!Rank \X Messages!Rank -> Seq(Nat)]
  BY RaceFacts
<1>2. /\ rank_place[r] = "send" /\ rank_place' = [rank_place EXCEPT ![r] = "sending"]
      /\ mpi_program' = mpi_program /\ process_count' = process_count
      /\ last_received' = last_received /\ output' = output
      /\ channel' = [channel EXCEPT ![<<r, Messages!Destination(r)>>] = Append(@, Messages!Content(r))]
  BY DEF Messages!Send, Messages!GoTo
<1>3. \A q \in 0 .. process_count - 1 :
        IF q % 2 = 1 THEN /\ q # 0 /\ q + 1 \in 0 .. process_count - 1 /\ q + 1 # 0 /\ (q + 1) % 2 # 1 /\ (q + 1) - 1 = q
        ELSE q # 0 => /\ q \div 2 \in 1 .. (process_count - 1) \div 2 /\ q = 2 * (q \div 2)
                      /\ q - 1 \in 0 .. process_count - 1 /\ (q - 1) % 2 = 1 /\ (q - 1) + 1 = q
  BY <1>1, RaceTeams
<1>4. r # 0
  BY <1>1, <1>2
<1>5. PICK d \in Messages!Rank, v \in Nat :
         /\ Messages!Destination(r) = d /\ Messages!Content(r) = v
         /\ r % 2 = 1 => d = r + 1 /\ v = 1 /\ rank_place[d] \in {"start", "barrier", "receive"}
         /\ r % 2 # 1 => d = 0 /\ v = r \div 2
  <2>1. CASE r % 2 = 1
    <3>1. Messages!Destination(r) = r + 1 /\ Messages!Content(r) = 1
      BY <1>2, <2>1 DEF Messages!Destination, Messages!Content
    <3>2. r + 1 \in 0 .. process_count - 1 /\ r + 1 # 0 /\ (r + 1) % 2 # 1 /\ (r + 1) - 1 = r
      BY <1>1, <1>3, <2>1
    <3>3. /\ rank_place[r + 1] \in {"start", "barrier", "receive", "send", "sending", "done"}
          /\ rank_place[r + 1] \in {"send", "sending", "done"} => rank_place[(r + 1) - 1] \in {"sending", "done"}
      BY <1>1, <3>2 DEF RacePlaces
    <3>4. rank_place[r + 1] \in {"start", "barrier", "receive"}
      BY <1>2, <3>2, <3>3
    <3> QED BY <1>1, <2>1, <3>1, <3>2, <3>4
  <2>2. CASE r % 2 # 1
    <3>1. Messages!Destination(r) = 0 /\ Messages!Content(r) = r \div 2
      BY <1>2, <2>2 DEF Messages!Destination, Messages!Content, Messages!FIRST_PROCESS
    <3>2. r \div 2 \in Nat
      BY <1>1
    <3> QED BY <1>1, <2>2, <3>1, <3>2
  <2> QED BY <2>1, <2>2
<1>6. channel[<<r, d>>] = <<>>
  BY <1>1, <1>2
<1>7. /\ channel' \in [Messages!Rank \X Messages!Rank -> Seq(Nat)]
      /\ \A x, y \in Messages!Rank : channel'[<<x, y>>] = IF x = r /\ y = d THEN <<v>> ELSE channel[<<x, y>>]
  <2>1. <<v>> \in Seq(Nat) /\ Append(<<>>, v) = <<v>>
    OBVIOUS
  <2>2. channel' = [channel EXCEPT ![<<r, d>>] = <<v>>]
    BY <1>2, <1>5, <1>6, <2>1
  <2>3. channel \in [Messages!Rank \X Messages!Rank -> Seq(Nat)]
    BY <1>1
  <2> QED BY <2>1, <2>2, <2>3, ChannelChanges
<1>8. /\ Messages!TypeOK' /\ Messages!Rank' = Messages!Rank
      /\ \A q \in Messages!Rank : rank_place'[q] = IF q = r THEN "sending" ELSE rank_place[q]
  <2>1. last_received' \in [Messages!Rank -> Nat] /\ output' \in Seq(Nat)
    BY <1>1, <1>2
  <2>2. channel' \in [Messages!Rank \X Messages!Rank -> Seq(Nat)]
    BY <1>7
  <2> QED BY <1>2, <2>1, <2>2, MessageTypes
<1>9. RacePlaces(rank_place', process_count)
  <2>1. \A q \in 0 .. process_count - 1 : rank_place'[q] = IF q = r THEN "sending" ELSE rank_place[q]
    BY <1>1, <1>8
  <2>2. process_count \in Nat /\ process_count >= 3 /\ process_count % 2 = 1 /\ r \in 0 .. process_count - 1
    BY <1>1
  <2>3. RacePlaces(rank_place, process_count) /\ rank_place[r] = "send"
    BY <1>1, <1>2
  <2> QED BY <2>1, <2>2, <2>3, RacePlacesKept
<1>10. RaceMessages(rank_place', channel', process_count)
  <2>1. ASSUME NEW x \in Messages!Rank, NEW y \in Messages!Rank, channel'[<<x, y>>] # <<>>
        PROVE  /\ rank_place'[x] \in {"sending", "done"}
               /\ IF x % 2 = 1 THEN /\ y = x + 1 /\ channel'[<<x, y>>] = <<1>>
                                    /\ rank_place'[y] \in {"start", "barrier", "receive"}
                  ELSE y = 0 /\ x # 0 /\ channel'[<<x, y>>] = <<x \div 2>>
    <3>1. CASE x = r /\ y = d
      <4>1. channel'[<<x, y>>] = <<v>> /\ rank_place'[x] = "sending"
        BY <1>7, <1>8, <3>1
      <4>2. CASE r % 2 = 1
        <5>1. rank_place'[d] \in {"start", "barrier", "receive"}
          BY <1>2, <1>5, <1>8, <4>2
        <5> QED BY <1>5, <3>1, <4>1, <4>2, <5>1
      <4>3. CASE r % 2 # 1
        BY <1>4, <1>5, <3>1, <4>1, <4>3
      <4> QED BY <4>2, <4>3
    <3>2. CASE ~(x = r /\ y = d)
      <4>1. channel'[<<x, y>>] = channel[<<x, y>>]
        BY <1>7, <3>2
      <4>2. /\ rank_place[x] \in {"sending", "done"}
            /\ IF x % 2 = 1 THEN /\ y = x + 1 /\ channel[<<x, y>>] = <<1>>
                                 /\ rank_place[y] \in {"start", "barrier", "receive"}
               ELSE y = 0 /\ x # 0 /\ channel[<<x, y>>] = <<x \div 2>>
        BY <1>1, <2>1, <4>1
      <4>3. rank_place'[x] \in {"sending", "done"} /\ (rank_place[y] \in {"start", "barrier", "receive"} => rank_place'[y] = rank_place[y])
        BY <1>2, <1>8, <4>2
      <4> QED BY <4>1, <4>2, <4>3
    <3> QED BY <3>1, <3>2
  <2> QED BY <1>1, <2>1 DEF RaceMessages
<1>11. RacePrinted'
  <2>1. /\ Messages!PrintedOnce' /\ \A i \in DOMAIN output' : output'[i] \in 1 .. (process_count' - 1) \div 2
        /\ \A u : Messages!Printed(u)' = Messages!Printed(u)
    BY <1>1, <1>2 DEF RacePrinted, Messages!PrintedOnce, Messages!Printed
  <2>2. rank_place'[0] = rank_place[0]
    BY <1>1, <1>4, <1>8
  <2>3. IF rank_place'[0] = "done" THEN Len(output') = (process_count' - 1) \div 2
        ELSE Len(output') < (process_count' - 1) \div 2
    BY <1>1, <1>2, <2>2 DEF RacePrinted
  <2>4. ASSUME NEW q \in Messages!Rank, q # 0, q % 2 # 1
        PROVE  Messages!Printed(q \div 2)' <=> rank_place'[q] \in {"sending", "done"} /\ channel'[<<q, 0>>] = <<>>
    <3>1. Messages!Printed(q \div 2) <=> rank_place[q] \in {"sending", "done"} /\ channel[<<q, 0>>] = <<>>
      BY <1>1, <2>4 DEF RacePrinted
    <3>2. CASE q = r
      <4>1. channel'[<<q, 0>>] = <<v>> /\ <<v>> # <<>>
        BY <1>1, <1>5, <1>7, <2>4, <3>2
      <4> QED BY <1>2, <2>1, <3>1, <3>2, <4>1
    <3>3. CASE q # r
      <4>1. channel'[<<q, 0>>] = channel[<<q, 0>>] /\ rank_place'[q] = rank_place[q]
        BY <1>1, <1>7, <1>8, <3>3
      <4> QED BY <2>1, <3>1, <4>1
    <3> QED BY <3>2, <3>3
  <2> QED BY <1>8, <2>1, <2>3, <2>4 DEF RacePrinted
<1> QED BY <1>2, <1>8, <1>9, <1>10, <1>11, RaceNext

\* The second runner of a team gets the baton.
LEMMA RaceBaton ==
  ASSUME Messages!TypeOK, Messages!RaceInv, mpi_program = "mpi_relay_race", Racing, NEW r \in Messages!Rank,
         Messages!Receive(r), r # 0
  PROVE  Messages!TypeOK' /\ Messages!RaceInv'
<1>1. /\ process_count \in Nat /\ process_count >= 3 /\ process_count % 2 = 1
      /\ Messages!Rank = 0 .. process_count - 1 /\ r \in Nat /\ 0 \in Messages!Rank
      /\ RacePlaces(rank_place, process_count) /\ RaceMessages(rank_place, channel, process_count) /\ RacePrinted
      /\ r % 2 = 1 => rank_place[r] \in {"start", "barrier", "send", "sending", "done"}
      /\ \A x, y \in Messages!Rank : channel[<<x, y>>] # <<>> =>
           /\ rank_place[x] \in {"sending", "done"}
           /\ IF x % 2 = 1 THEN /\ y = x + 1 /\ channel[<<x, y>>] = <<1>>
                                /\ rank_place[y] \in {"start", "barrier", "receive"}
              ELSE y = 0 /\ x # 0 /\ channel[<<x, y>>] = <<x \div 2>>
      /\ output \in Seq(Nat) /\ last_received \in [Messages!Rank -> Nat]
      /\ channel \in [Messages!Rank \X Messages!Rank -> Seq(Nat)]
  BY RaceFacts
<1>2. /\ rank_place[r] = "receive" /\ rank_place' = [rank_place EXCEPT ![r] = "send"]
      /\ mpi_program' = mpi_program /\ process_count' = process_count /\ output' = output
      /\ channel[<<r - 1, r>>] # <<>>
      /\ last_received' = [last_received EXCEPT ![r] = Head(channel[<<r - 1, r>>])]
      /\ channel' = [channel EXCEPT ![<<r - 1, r>>] = Tail(@)]
  BY DEF Messages!Receive, Messages!GoTo, Messages!Sources, Messages!FIRST_PROCESS
<1>3. r % 2 # 1
  BY <1>1, <1>2
<1>4. r - 1 \in Messages!Rank /\ (r - 1) % 2 = 1 /\ (r - 1) + 1 = r
  <2>1. \A q \in 0 .. process_count - 1 :
        IF q % 2 = 1 THEN /\ q # 0 /\ q + 1 \in 0 .. process_count - 1 /\ q + 1 # 0 /\ (q + 1) % 2 # 1 /\ (q + 1) - 1 = q
        ELSE q # 0 => /\ q \div 2 \in 1 .. (process_count - 1) \div 2 /\ q = 2 * (q \div 2)
                      /\ q - 1 \in 0 .. process_count - 1 /\ (q - 1) % 2 = 1 /\ (q - 1) + 1 = q
    BY <1>1, RaceTeams
  <2> QED BY <1>1, <1>3, <2>1
<1>5. channel[<<r - 1, r>>] = <<1>> /\ rank_place[r - 1] \in {"sending", "done"}
  <2>1. \A x, y \in Messages!Rank : channel[<<x, y>>] # <<>> =>
          /\ rank_place[x] \in {"sending", "done"}
          /\ x % 2 = 1 => channel[<<x, y>>] = <<1>>
    BY <1>1
  <2>2. channel[<<r - 1, r>>] # <<>>
    BY <1>2
  <2> QED BY <1>4, <2>1, <2>2
<1>6. /\ channel' = [channel EXCEPT ![<<r - 1, r>>] = <<>>] /\ last_received' = [last_received EXCEPT ![r] = 1]
      /\ <<>> \in Seq(Nat)
  <2>1. Head(<<1>>) = 1 /\ Tail(<<1>>) = <<>> /\ <<>> \in Seq(Nat)
    OBVIOUS
  <2> QED BY <1>2, <1>5, <2>1
<1>7. /\ channel' \in [Messages!Rank \X Messages!Rank -> Seq(Nat)]
      /\ \A x, y \in Messages!Rank : channel'[<<x, y>>] = IF x = r - 1 /\ y = r THEN <<>> ELSE channel[<<x, y>>]
  <2>1. channel \in [Messages!Rank \X Messages!Rank -> Seq(Nat)]
    BY <1>1
  <2> QED BY <1>4, <1>6, <2>1, ChannelChanges
<1>8. /\ Messages!TypeOK' /\ Messages!Rank' = Messages!Rank
      /\ \A q \in Messages!Rank : rank_place'[q] = IF q = r THEN "send" ELSE rank_place[q]
  <2>1. /\ last_received' \in [Messages!Rank -> Nat]
        /\ \A q \in Messages!Rank : q # r => last_received'[q] = last_received[q]
        /\ output' \in Seq(Nat)
    <3>1. last_received \in [Messages!Rank -> Nat] /\ output' \in Seq(Nat)
      BY <1>1, <1>2
    <3>2. last_received' = [last_received EXCEPT ![r] = 1]
      BY <1>6
    <3> QED BY <3>1, <3>2
  <2>2. channel' \in [Messages!Rank \X Messages!Rank -> Seq(Nat)]
    BY <1>7
  <2> QED BY <1>2, <2>1, <2>2, MessageTypes
<1>9. RacePlaces(rank_place', process_count)
  <2>1. \A q \in 0 .. process_count - 1 : rank_place'[q] = IF q = r THEN "send" ELSE rank_place[q]
    BY <1>1, <1>8
  <2>2. process_count \in Nat /\ process_count >= 3 /\ process_count % 2 = 1 /\ r \in 0 .. process_count - 1
    BY <1>1
  <2>3. RacePlaces(rank_place, process_count) /\ rank_place[r] = "receive"
    BY <1>1, <1>2
  <2> QED BY <1>5, <2>1, <2>2, <2>3, RacePlacesKept
<1>10. RaceMessages(rank_place', channel', process_count)
  <2>1. ASSUME NEW x \in Messages!Rank, NEW y \in Messages!Rank, channel'[<<x, y>>] # <<>>
        PROVE  /\ rank_place'[x] \in {"sending", "done"}
               /\ IF x % 2 = 1 THEN /\ y = x + 1 /\ channel'[<<x, y>>] = <<1>>
                                    /\ rank_place'[y] \in {"start", "barrier", "receive"}
                  ELSE y = 0 /\ x # 0 /\ channel'[<<x, y>>] = <<x \div 2>>
    <3>1. channel'[<<x, y>>] = channel[<<x, y>>] /\ ~(x = r - 1 /\ y = r)
      BY <1>7, <2>1
    <3>2. /\ rank_place[x] \in {"sending", "done"}
          /\ IF x % 2 = 1 THEN /\ y = x + 1 /\ channel[<<x, y>>] = <<1>>
                               /\ rank_place[y] \in {"start", "barrier", "receive"}
             ELSE y = 0 /\ x # 0 /\ channel[<<x, y>>] = <<x \div 2>>
      BY <1>1, <2>1, <3>1
    <3>3. rank_place'[x] = rank_place[x]
      BY <1>2, <1>8, <3>2
    <3>4. CASE x % 2 = 1
      <4>1. y # r
        <5>1. y = r => x = r - 1
          BY <1>1, <3>2, <3>4
        <5> QED BY <3>1, <5>1
      <4> QED BY <1>8, <3>1, <3>2, <3>3, <3>4, <4>1
    <3>5. CASE x % 2 # 1
      BY <3>1, <3>2, <3>3, <3>5
    <3> QED BY <3>4, <3>5
  <2> QED BY <1>1, <2>1 DEF RaceMessages
<1>11. RacePrinted'
  <2>1. /\ Messages!PrintedOnce' /\ \A i \in DOMAIN output' : output'[i] \in 1 .. (process_count' - 1) \div 2
        /\ \A u : Messages!Printed(u)' = Messages!Printed(u)
    BY <1>1, <1>2 DEF RacePrinted, Messages!PrintedOnce, Messages!Printed
  <2>2. rank_place'[0] = rank_place[0]
    BY <1>1, <1>8
  <2>3. IF rank_place'[0] = "done" THEN Len(output') = (process_count' - 1) \div 2
        ELSE Len(output') < (process_count' - 1) \div 2
    BY <1>1, <1>2, <2>2 DEF RacePrinted
  <2>4. ASSUME NEW q \in Messages!Rank, q # 0, q % 2 # 1
        PROVE  Messages!Printed(q \div 2)' <=> rank_place'[q] \in {"sending", "done"} /\ channel'[<<q, 0>>] = <<>>
    <3>1. Messages!Printed(q \div 2) <=> rank_place[q] \in {"sending", "done"} /\ channel[<<q, 0>>] = <<>>
      BY <1>1, <2>4 DEF RacePrinted
    <3>2. channel'[<<q, 0>>] = channel[<<q, 0>>]
      BY <1>1, <1>7
    <3>3. rank_place'[q] \in {"sending", "done"} <=> rank_place[q] \in {"sending", "done"}
      BY <1>2, <1>8
    <3> QED BY <2>1, <3>1, <3>2, <3>3
  <2> QED BY <1>8, <2>1, <2>3, <2>4 DEF RacePrinted
<1> QED BY <1>2, <1>8, <1>9, <1>10, <1>11, RaceNext

\* Process 0 gives a team its place.
LEMMA RaceReferee ==
  ASSUME Messages!TypeOK, Messages!RaceInv, mpi_program = "mpi_relay_race", Racing,
         Messages!Receive(0), 0 \in Messages!Rank
  PROVE  Messages!TypeOK' /\ Messages!RaceInv'
<1>1. /\ process_count \in Nat /\ process_count >= 3 /\ process_count % 2 = 1
      /\ Messages!Rank = 0 .. process_count - 1
      /\ Messages!Lines = (process_count - 1) \div 2
      /\ RacePlaces(rank_place, process_count) /\ RaceMessages(rank_place, channel, process_count) /\ RacePrinted
      /\ \A x, y \in Messages!Rank : channel[<<x, y>>] # <<>> =>
           /\ rank_place[x] \in {"sending", "done"}
           /\ IF x % 2 = 1 THEN /\ y = x + 1 /\ channel[<<x, y>>] = <<1>>
                                /\ rank_place[y] \in {"start", "barrier", "receive"}
              ELSE y = 0 /\ x # 0 /\ channel[<<x, y>>] = <<x \div 2>>
      /\ output \in Seq(Nat) /\ last_received \in [Messages!Rank -> Nat]
      /\ channel \in [Messages!Rank \X Messages!Rank -> Seq(Nat)]
  BY RaceFacts
<1>2. /\ rank_place[0] = "receive" /\ mpi_program' = mpi_program /\ process_count' = process_count
      /\ output' = Append(output, last_received'[0])
      /\ rank_place' = [rank_place EXCEPT ![0] = IF Len(output') = Messages!Lines THEN "done" ELSE "receive"]
  BY DEF Messages!Receive, Messages!GoTo, Messages!FIRST_PROCESS
<1>3. PICK s \in Messages!Rank :
         /\ channel[<<s, 0>>] # <<>>
         /\ last_received' = [last_received EXCEPT ![0] = Head(channel[<<s, 0>>])]
         /\ channel' = [channel EXCEPT ![<<s, 0>>] = Tail(@)]
  <2>1. Messages!Sources(0) = Messages!Rank
    BY DEF Messages!Sources, Messages!FIRST_PROCESS
  <2> QED BY <2>1 DEF Messages!Receive
<1>4. PICK L \in Nat : L = (process_count - 1) \div 2
  BY <1>1, RaceTeams
<1>5. \A q \in 0 .. process_count - 1 :
        IF q % 2 = 1 THEN /\ q # 0 /\ q + 1 \in 0 .. process_count - 1 /\ q + 1 # 0 /\ (q + 1) % 2 # 1 /\ (q + 1) - 1 = q
        ELSE q # 0 => /\ q \div 2 \in 1 .. (process_count - 1) \div 2 /\ q = 2 * (q \div 2)
                      /\ q - 1 \in 0 .. process_count - 1 /\ (q - 1) % 2 = 1 /\ (q - 1) + 1 = q
  BY <1>1, RaceTeams
<1>6. s # 0 /\ s % 2 # 1 /\ channel[<<s, 0>>] = <<s \div 2>> /\ rank_place[s] \in {"sending", "done"}
  <2>1. s % 2 = 1 => 0 # s + 1
    BY <1>1
  <2> QED BY <1>1, <1>3, <2>1
<1>7. PICK k \in 1 .. L : k = s \div 2 /\ s = 2 * k
  BY <1>1, <1>4, <1>5, <1>6
<1>8. ~Messages!Printed(k)
  <2>1. Messages!Printed(s \div 2) <=> rank_place[s] \in {"sending", "done"} /\ channel[<<s, 0>>] = <<>>
    BY <1>1, <1>6 DEF RacePrinted
  <2> QED BY <1>3, <1>7, <2>1
<1>9. /\ channel' = [channel EXCEPT ![<<s, 0>>] = <<>>] /\ last_received' = [last_received EXCEPT ![0] = k]
      /\ <<>> \in Seq(Nat)
  <2>1. Head(<<k>>) = k /\ Tail(<<k>>) = <<>> /\ <<>> \in Seq(Nat)
    OBVIOUS
  <2> QED BY <1>3, <1>6, <1>7, <2>1
<1>10. /\ channel' \in [Messages!Rank \X Messages!Rank -> Seq(Nat)]
       /\ \A x, y \in Messages!Rank : channel'[<<x, y>>] = IF x = s /\ y = 0 THEN <<>> ELSE channel[<<x, y>>]
  <2>1. channel \in [Messages!Rank \X Messages!Rank -> Seq(Nat)]
    BY <1>1
  <2> QED BY <1>9, <2>1, ChannelChanges
<1>11. /\ last_received' \in [Messages!Rank -> Nat] /\ last_received'[0] = k
       /\ \A q \in Messages!Rank : q # 0 => last_received'[q] = last_received[q]
  BY <1>1, <1>9
<1>12. PICK n \in Nat : n = Len(output)
  BY <1>1
<1>13. /\ output' \in Seq(Nat) /\ Len(output') = n + 1
       /\ DOMAIN output = 1 .. n /\ DOMAIN output' = 1 .. n + 1
       /\ \A i \in 1 .. n : output'[i] = output[i] /\ output[i] \in Nat
       /\ output'[n + 1] = k
  <2>1. output \in Seq(Nat) /\ k \in Nat
    BY <1>1
  <2> QED BY <1>2, <1>11, <1>12, <2>1, LineAdded
<1>14. n < L
  BY <1>1, <1>2, <1>4, <1>12 DEF RacePrinted
<1>15. PICK p \in {"receive", "done"} :
          /\ rank_place' = [rank_place EXCEPT ![0] = p]
          /\ IF p = "done" THEN n + 1 = L ELSE n + 1 < L
  <2> DEFINE p == IF n + 1 = L THEN "done" ELSE "receive"
  <2>1. rank_place' = [rank_place EXCEPT ![0] = p]
    BY <1>1, <1>2, <1>4, <1>13
  <2>2. p \in {"receive", "done"} /\ IF p = "done" THEN n + 1 = L ELSE n + 1 < L
    BY <1>14
  <2> HIDE DEF p
  <2> QED BY <2>1, <2>2
<1>16. /\ Messages!TypeOK' /\ Messages!Rank' = Messages!Rank
       /\ \A q \in Messages!Rank : rank_place'[q] = IF q = 0 THEN p ELSE rank_place[q]
  <2>1. p \in {"barrier", "send", "sending", "receive", "greet", "done"} /\ rank_place' = [rank_place EXCEPT ![0] = p]
    BY <1>15
  <2>2. channel' \in [Messages!Rank \X Messages!Rank -> Seq(Nat)] /\ output' \in Seq(Nat)
    BY <1>10, <1>13
  <2>3. /\ mpi_program' = mpi_program /\ process_count' = process_count
        /\ last_received' \in [Messages!Rank -> Nat]
        /\ \A q \in Messages!Rank : q # 0 => last_received'[q] = last_received[q]
    BY <1>2, <1>11
  <2> QED BY <2>1, <2>2, <2>3, MessageTypes
<1>17. RacePlaces(rank_place', process_count)
  <2>1. \A q \in 0 .. process_count - 1 : rank_place'[q] = IF q = 0 THEN p ELSE rank_place[q]
    BY <1>1, <1>16
  <2>2. process_count \in Nat /\ process_count >= 3 /\ process_count % 2 = 1 /\ 0 \in 0 .. process_count - 1
    BY <1>1
  <2>3. RacePlaces(rank_place, process_count) /\ rank_place[0] = "receive" /\ p \in {"receive", "done"}
    BY <1>1, <1>2
  <2> QED BY <2>1, <2>2, <2>3, RacePlacesKept
<1>18. RaceMessages(rank_place', channel', process_count)
  <2>1. ASSUME NEW x \in Messages!Rank, NEW y \in Messages!Rank, channel'[<<x, y>>] # <<>>
        PROVE  /\ rank_place'[x] \in {"sending", "done"}
               /\ IF x % 2 = 1 THEN /\ y = x + 1 /\ channel'[<<x, y>>] = <<1>>
                                    /\ rank_place'[y] \in {"start", "barrier", "receive"}
                  ELSE y = 0 /\ x # 0 /\ channel'[<<x, y>>] = <<x \div 2>>
    <3>1. channel'[<<x, y>>] = channel[<<x, y>>]
      BY <1>10, <2>1
    <3>2. /\ rank_place[x] \in {"sending", "done"}
          /\ IF x % 2 = 1 THEN /\ y = x + 1 /\ channel[<<x, y>>] = <<1>>
                               /\ rank_place[y] \in {"start", "barrier", "receive"}
             ELSE y = 0 /\ x # 0 /\ channel[<<x, y>>] = <<x \div 2>>
      BY <1>1, <2>1, <3>1
    <3>3. rank_place'[x] = rank_place[x]
      BY <1>2, <1>16, <3>2
    <3>4. x % 2 = 1 => y # 0
      BY <1>1, <3>2
    <3> QED BY <1>16, <3>1, <3>2, <3>3, <3>4
  <2> QED BY <1>1, <2>1 DEF RaceMessages
<1>19. \A i \in 1 .. n + 1 : i \in 1 .. n \/ i = n + 1
  OBVIOUS
<1>20. n + 1 \in 1 .. n + 1 /\ \A i \in 1 .. n : i \in 1 .. n + 1 /\ i # n + 1
  OBVIOUS
<1>21. \A i \in 1 .. n : output[i] # k
  BY <1>8, <1>13 DEF Messages!Printed
<1>22. Messages!PrintedOnce'
  <2>1. \A i, j \in 1 .. n : output[i] = output[j] => i = j
    BY <1>1, <1>13 DEF RacePrinted, Messages!PrintedOnce
  <2>2. \A i, j \in 1 .. n + 1 : output'[i] = output'[j] => i = j
    BY <1>13, <1>19, <1>21, <2>1
  <2> QED BY <1>13, <2>2 DEF Messages!PrintedOnce
<1>23. \A i \in DOMAIN output' : output'[i] \in 1 .. (process_count' - 1) \div 2
  <2>1. \A i \in 1 .. n : output[i] \in 1 .. L
    BY <1>1, <1>4, <1>13 DEF RacePrinted
  <2> QED BY <1>2, <1>4, <1>13, <1>19, <2>1
<1>24. \A u : Messages!Printed(u)' <=> Messages!Printed(u) \/ u = k
  <2>1. \A u : (\E i \in 1 .. n + 1 : output'[i] = u) <=> (\E i \in 1 .. n : output[i] = u) \/ u = k
    BY <1>13, <1>19, <1>20
  <2> QED BY <1>13, <2>1 DEF Messages!Printed
<1>25. RacePrinted'
  <2>1. IF rank_place'[0] = "done" THEN Len(output') = (process_count' - 1) \div 2
        ELSE Len(output') < (process_count' - 1) \div 2
    BY <1>2, <1>4, <1>13, <1>15, <1>16
  <2>2. ASSUME NEW q \in Messages!Rank, q # 0, q % 2 # 1
        PROVE  Messages!Printed(q \div 2)' <=> rank_place'[q] \in {"sending", "done"} /\ channel'[<<q, 0>>] = <<>>
    <3>1. Messages!Printed(q \div 2) <=> rank_place[q] \in {"sending", "done"} /\ channel[<<q, 0>>] = <<>>
      BY <1>1, <2>2 DEF RacePrinted
    <3>2. rank_place'[q] = rank_place[q]
      BY <1>16, <2>2
    <3>3. CASE q = s
      BY <1>6, <1>7, <1>10, <1>24, <3>2, <3>3
    <3>4. CASE q # s
      <4>1. channel'[<<q, 0>>] = channel[<<q, 0>>]
        BY <1>10, <3>4
      <4>2. q = 2 * (q \div 2)
        BY <1>1, <1>5, <2>2
      <4>3. q \div 2 # k
        BY <1>7, <3>4, <4>2
      <4> QED BY <1>24, <3>1, <3>2, <4>1, <4>3
    <3> QED BY <3>3, <3>4
  <2> QED BY <1>16, <1>22, <1>23, <2>1, <2>2 DEF RacePrinted
<1> QED BY <1>2, <1>16, <1>17, <1>18, <1>25, RaceNext

\* Too few or an even number of processes: nobody runs.
LEMMA RaceIdle ==
  ASSUME Messages!TypeOK, Messages!RaceInv, mpi_program = "mpi_relay_race", ~Racing, NEW r \in Messages!Rank,
         Messages!Start(r)
  PROVE  Messages!TypeOK' /\ Messages!RaceInv'
<1>1. /\ rank_place[r] = "start" /\ rank_place' = [rank_place EXCEPT ![r] = "done"]
      /\ mpi_program' = mpi_program /\ process_count' = process_count
      /\ last_received' = last_received /\ output' = output /\ channel' = channel
  BY DEF Messages!Start, Messages!GoTo, Racing
<1>2. /\ output \in Seq(Nat) /\ last_received \in [Messages!Rank -> Nat]
      /\ channel \in [Messages!Rank \X Messages!Rank -> Seq(Nat)]
  BY DEF Messages!TypeOK
<1>3. /\ Messages!TypeOK' /\ Messages!Rank' = Messages!Rank
      /\ \A q \in Messages!Rank : rank_place'[q] = IF q = r THEN "done" ELSE rank_place[q]
  BY <1>1, <1>2, MessageTypes
<1> QED BY <1>1, <1>3 DEF Messages!RaceInv, Racing

\* mpi_ping_pong: where the ball is after n hits.
BallState(standing, received, sent, n) ==
  /\ standing[0] = "start" <=> n = 0
  /\ n = 0 => standing[1] # "send" /\ \A x, y \in 0 .. 1 : sent[<<x, y>>] = <<>>
  /\ \A q \in 0 .. 1 :
       /\ standing[q] \in {"start", "send", "sending", "receive"}
       /\ received[q] = 0 \/ received[q] < n
       /\ standing[q] = "send" => /\ received[q] = n - 1 /\ standing[1 - q] # "send"
                                  /\ \A x, y \in 0 .. 1 : sent[<<x, y>>] = <<>>
  /\ \A x, y \in 0 .. 1 : sent[<<x, y>>] # <<>> =>
       y = 1 - x /\ sent[<<x, y>>] = <<n>> /\ sent[<<y, x>>] = <<>> /\ n <= MaxBall

LEMMA BallParts ==
  process_count = 2 /\ Messages!TypeOK =>
    (Messages!BallInv <=> Messages!PrintedInOrder /\ BallState(rank_place, last_received, channel, Len(output)))
<1> SUFFICES ASSUME process_count = 2, Messages!TypeOK
             PROVE  Messages!BallInv <=> Messages!PrintedInOrder /\ BallState(rank_place, last_received, channel, Len(output))
  OBVIOUS
<1>1. Messages!Rank = 0 .. 1
  BY DEF Messages!Rank
<1>2. output = <<>> <=> Len(output) = 0
  BY LineAdded, 0 \in Nat DEF Messages!TypeOK
<1> QED BY <1>1, <1>2 DEF Messages!BallInv, BallState

LEMMA BallNext ==
  ASSUME process_count = 2, process_count' = process_count, Messages!TypeOK', Messages!PrintedInOrder',
         NEW n, n = Len(output'), BallState(rank_place', last_received', channel', n)
  PROVE  Messages!BallInv'
<1>1. (process_count = 2 /\ Messages!TypeOK =>
        (Messages!BallInv <=> Messages!PrintedInOrder /\ BallState(rank_place, last_received, channel, Len(output))))'
  BY BallParts, PTL
<1>2. BallState(rank_place, last_received, channel, Len(output))'
  BY DEF BallState
<1> QED BY <1>1, <1>2

LEMMA BallFacts ==
  ASSUME Messages!TypeOK, Messages!BallInv, process_count = 2
  PROVE  /\ Messages!Rank = 0 .. 1 /\ Messages!PrintedInOrder
         /\ BallState(rank_place, last_received, channel, Len(output)) /\ Len(output) \in Nat
         /\ output \in Seq(Nat) /\ last_received \in [Messages!Rank -> Nat]
         /\ channel \in [Messages!Rank \X Messages!Rank -> Seq(Nat)]
<1>1. /\ output \in Seq(Nat) /\ last_received \in [Messages!Rank -> Nat] /\ Messages!Rank = 0 .. 1
      /\ channel \in [Messages!Rank \X Messages!Rank -> Seq(Nat)]
  BY DEF Messages!TypeOK, Messages!Rank
<1>2. Len(output) \in Nat
  BY <1>1
<1> QED BY <1>1, <1>2, BallParts

\* One more hit printed.
LEMMA BallPrinted ==
  ASSUME Messages!PrintedInOrder, output \in Seq(Nat), NEW n \in Nat, n = Len(output), output' = Append(output, n)
  PROVE  Messages!PrintedInOrder' /\ output' \in Seq(Nat) /\ Len(output') = n + 1
<1>1. /\ output' \in Seq(Nat) /\ Len(output') = n + 1
      /\ DOMAIN output = 1 .. n /\ DOMAIN output' = 1 .. n + 1
      /\ \A i \in 1 .. n : output'[i] = output[i]
      /\ output'[n + 1] = n
  BY LineAdded
<1>2. \A i \in 1 .. n : output[i] = i - 1
  BY <1>1 DEF Messages!PrintedInOrder
<1>3. \A i \in 1 .. n + 1 : output'[i] = i - 1
  <2>1. (\A i \in 1 .. n + 1 : i \in 1 .. n \/ i = n + 1) /\ (n + 1) - 1 = n
    OBVIOUS
  <2> QED BY <1>1, <1>2, <2>1
<1> QED BY <1>1, <1>3 DEF Messages!PrintedInOrder

\* A step that sends and receives nothing.
LEMMA BallQuiet ==
  ASSUME Messages!TypeOK, Messages!BallInv, process_count = 2, mpi_program = "mpi_ping_pong",
         NEW r \in Messages!Rank, Messages!Start(r) \/ Messages!SendReturns(r)
  PROVE  Messages!TypeOK' /\ Messages!BallInv'
<1>1. /\ Messages!Rank = 0 .. 1 /\ Messages!PrintedInOrder
      /\ BallState(rank_place, last_received, channel, Len(output))
      /\ output \in Seq(Nat) /\ last_received \in [Messages!Rank -> Nat]
      /\ channel \in [Messages!Rank \X Messages!Rank -> Seq(Nat)]
  BY BallFacts
<1>2. PICK n \in Nat : n = Len(output)
  BY BallFacts
<1>3. mpi_program' = mpi_program /\ process_count' = process_count /\ last_received' = last_received /\ channel' = channel
  <2>1. CASE Messages!Start(r)
    BY <2>1 DEF Messages!Start
  <2>2. CASE Messages!SendReturns(r)
    BY <2>2 DEF Messages!SendReturns
  <2> QED BY <2>1, <2>2
<1>4. CASE Messages!Start(r) /\ r = 0
  <2>1. /\ rank_place[0] = "start" /\ rank_place' = [rank_place EXCEPT ![0] = "send"]
        /\ output' = Append(output, last_received[0])
    BY <1>4 DEF Messages!Start, Messages!GoTo, Messages!FIRST_PROCESS
  <2>2. last_received[0] = 0
    BY <1>1, <2>1 DEF Messages!TypeOK
  <2>3. n = 0
    BY <1>1, <1>2, <2>1 DEF BallState
  <2>4. Messages!PrintedInOrder' /\ output' \in Seq(Nat) /\ Len(output') = n + 1
    BY <1>1, <1>2, <2>1, <2>2, <2>3, BallPrinted
  <2>5. /\ Messages!TypeOK' /\ \A q \in Messages!Rank : rank_place'[q] = IF q = 0 THEN "send" ELSE rank_place[q]
    BY <1>1, <1>3, <1>4, <2>1, <2>4, MessageTypes
  <2>6. BallState(rank_place', last_received', channel', 1)
    <3>1. rank_place[1] # "send" /\ \A x, y \in 0 .. 1 : channel[<<x, y>>] = <<>>
      BY <1>1, <1>2, <2>3 DEF BallState
    <3>2. \A q \in 0 .. 1 : /\ rank_place[q] \in {"start", "send", "sending", "receive"}
                            /\ last_received[q] = 0 \/ last_received[q] < 0
      BY <1>1, <1>2, <2>3 DEF BallState
    <3>3. \A q \in 0 .. 1 : last_received[q] = 0
      BY <1>1, <3>2
    <3>4. rank_place'[0] = "send" /\ rank_place'[1] = rank_place[1] /\ \A q \in 0 .. 1 : q = 0 \/ q = 1
      BY <1>1, <2>5
    <3> QED BY <1>1, <1>3, <3>1, <3>2, <3>3, <3>4 DEF BallState
  <2> QED BY <1>3, <2>3, <2>4, <2>5, <2>6, BallNext
<1>5. CASE ~(Messages!Start(r) /\ r = 0)
  <2>1. /\ output' = output /\ rank_place' = [rank_place EXCEPT ![r] = "receive"]
        /\ rank_place[r] = "sending" \/ (rank_place[r] = "start" /\ r = 1)
    <3>1. CASE Messages!Start(r)
      <4>1. r = 1
        BY <1>1, <1>5, <3>1
      <4> QED BY <3>1, <4>1 DEF Messages!Start, Messages!GoTo, Messages!FIRST_PROCESS
    <3>2. CASE Messages!SendReturns(r)
      BY <3>2 DEF Messages!SendReturns, Messages!GoTo
    <3> QED BY <3>1, <3>2
  <2>2. Messages!PrintedInOrder'
    BY <1>1, <2>1 DEF Messages!PrintedInOrder
  <2>3. /\ Messages!TypeOK' /\ \A q \in Messages!Rank : rank_place'[q] = IF q = r THEN "receive" ELSE rank_place[q]
    BY <1>1, <1>3, <2>1, MessageTypes
  <2>4. BallState(rank_place', last_received', channel', n)
    <3>1. rank_place'[0] = "start" <=> rank_place[0] = "start"
      BY <1>1, <2>1, <2>3
    <3>2. \A q \in 0 .. 1 : rank_place'[q] = "send" => rank_place[q] = "send"
      BY <1>1, <2>3
    <3>3. \A q \in 0 .. 1 : rank_place'[q] \in {"start", "send", "sending", "receive"} /\ 1 - q \in 0 .. 1
      BY <1>1, <2>3 DEF BallState
    <3> QED BY <1>1, <1>2, <1>3, <3>1, <3>2, <3>3 DEF BallState
  <2> QED BY <1>2, <1>3, <2>1, <2>2, <2>3, <2>4, BallNext
<1> QED BY <1>4, <1>5

\* The ball is hit.
LEMMA BallSend ==
  ASSUME Messages!TypeOK, Messages!BallInv, process_count = 2, mpi_program = "mpi_ping_pong", MaxBall \in Nat,
         NEW r \in Messages!Rank, Messages!Send(r)
  PROVE  Messages!TypeOK' /\ Messages!BallInv'
<1>1. /\ Messages!Rank = 0 .. 1 /\ Messages!PrintedInOrder
      /\ BallState(rank_place, last_received, channel, Len(output))
      /\ output \in Seq(Nat) /\ last_received \in [Messages!Rank -> Nat]
      /\ channel \in [Messages!Rank \X Messages!Rank -> Seq(Nat)]
  BY BallFacts
<1>2. PICK n \in Nat : n = Len(output)
  BY BallFacts
<1>3. /\ rank_place[r] = "send" /\ rank_place' = [rank_place EXCEPT ![r] = "sending"]
      /\ mpi_program' = mpi_program /\ process_count' = process_count
      /\ last_received' = last_received /\ output' = output /\ last_received[r] < MaxBall
      /\ channel' = [channel EXCEPT ![<<r, (r + 1) % 2>>] = Append(@, last_received[r] + 1)]
  BY DEF Messages!Send, Messages!GoTo, Messages!Destination, Messages!Content
<1>4. /\ last_received[r] = n - 1 /\ rank_place[1 - r] # "send"
      /\ \A x, y \in 0 .. 1 : channel[<<x, y>>] = <<>>
  BY <1>1, <1>2, <1>3 DEF BallState
<1>5. (r + 1) % 2 = 1 - r /\ 1 - r \in 0 .. 1 /\ r \in 0 .. 1 /\ r # 1 - r /\ 1 - (1 - r) = r
  <2>1. r = 0 \/ r = 1
    BY <1>1
  <2> QED BY <2>1
<1>6. n # 0 /\ n <= MaxBall /\ last_received[r] + 1 = n
  <2>1. last_received[r] \in Nat
    BY <1>1
  <2> QED BY <1>3, <1>4, <2>1
<1>7. /\ channel' \in [Messages!Rank \X Messages!Rank -> Seq(Nat)]
      /\ \A x, y \in 0 .. 1 : channel'[<<x, y>>] = IF x = r /\ y = 1 - r THEN <<n>> ELSE <<>>
  <2>1. <<n>> \in Seq(Nat) /\ Append(<<>>, n) = <<n>>
    OBVIOUS
  <2>2. channel' = [channel EXCEPT ![<<r, 1 - r>>] = <<n>>]
    BY <1>3, <1>4, <1>5, <1>6, <2>1
  <2>3. channel \in [Messages!Rank \X Messages!Rank -> Seq(Nat)] /\ 1 - r \in Messages!Rank
    BY <1>1, <1>5
  <2>4. /\ channel' \in [Messages!Rank \X Messages!Rank -> Seq(Nat)]
        /\ \A x, y \in Messages!Rank : channel'[<<x, y>>] = IF x = r /\ y = 1 - r THEN <<n>> ELSE channel[<<x, y>>]
    BY <2>1, <2>2, <2>3, ChannelChanges
  <2> QED BY <1>1, <1>4, <2>4
<1>8. Messages!TypeOK' /\ \A q \in Messages!Rank : rank_place'[q] = IF q = r THEN "sending" ELSE rank_place[q]
  <2>1. last_received' \in [Messages!Rank -> Nat] /\ output' \in Seq(Nat)
    BY <1>1, <1>3
  <2>2. channel' \in [Messages!Rank \X Messages!Rank -> Seq(Nat)]
    BY <1>7
  <2> QED BY <1>3, <2>1, <2>2, MessageTypes
<1>9. Messages!PrintedInOrder'
  BY <1>1, <1>3 DEF Messages!PrintedInOrder
<1>10. BallState(rank_place', last_received', channel', n)
  <2>1. rank_place'[0] # "start" /\ \A q \in 0 .. 1 : rank_place'[q] # "send" /\ rank_place'[q] \in {"start", "send", "sending", "receive"}
    <3>1. rank_place[0] # "start"
      BY <1>1, <1>2, <1>6 DEF BallState
    <3>2. \A q \in 0 .. 1 : q = r \/ q = 1 - r
      BY <1>5
    <3>3. \A q \in 0 .. 1 : rank_place[q] \in {"start", "send", "sending", "receive"}
      BY <1>1 DEF BallState
    <3> QED BY <1>1, <1>4, <1>8, <3>1, <3>2, <3>3
  <2>2. \A q \in 0 .. 1 : last_received'[q] = 0 \/ last_received'[q] < n
    BY <1>1, <1>2, <1>3 DEF BallState
  <2>3. ASSUME NEW x \in 0 .. 1, NEW y \in 0 .. 1, channel'[<<x, y>>] # <<>>
        PROVE  y = 1 - x /\ channel'[<<x, y>>] = <<n>> /\ channel'[<<y, x>>] = <<>> /\ n <= MaxBall
    <3>1. x = r /\ y = 1 - r
      BY <1>7, <2>3
    <3> QED BY <1>5, <1>6, <1>7, <3>1
  <2> QED BY <1>6, <2>1, <2>2, <2>3 DEF BallState
<1> QED BY <1>2, <1>3, <1>8, <1>9, <1>10, BallNext

\* The ball arrives: the hit is printed.
LEMMA BallReceive ==
  ASSUME Messages!TypeOK, Messages!BallInv, process_count = 2, mpi_program = "mpi_ping_pong",
         NEW r \in Messages!Rank, Messages!Receive(r)
  PROVE  Messages!TypeOK' /\ Messages!BallInv'
<1>1. /\ Messages!Rank = 0 .. 1 /\ Messages!PrintedInOrder
      /\ BallState(rank_place, last_received, channel, Len(output))
      /\ output \in Seq(Nat) /\ last_received \in [Messages!Rank -> Nat]
      /\ channel \in [Messages!Rank \X Messages!Rank -> Seq(Nat)]
  BY BallFacts
<1>2. PICK n \in Nat : n = Len(output)
  BY BallFacts
<1>3. /\ rank_place[r] = "receive" /\ rank_place' = [rank_place EXCEPT ![r] = "send"]
      /\ mpi_program' = mpi_program /\ process_count' = process_count
      /\ output' = Append(output, last_received'[r])
  BY DEF Messages!Receive, Messages!GoTo
<1>4. PICK s \in 0 .. 1 :
         /\ channel[<<s, r>>] # <<>>
         /\ last_received' = [last_received EXCEPT ![r] = Head(channel[<<s, r>>])]
         /\ channel' = [channel EXCEPT ![<<s, r>>] = Tail(@)]
  <2>1. Messages!Sources(r) = 0 .. 1
    BY <1>1 DEF Messages!Sources
  <2> QED BY <2>1 DEF Messages!Receive
<1>5. r = 1 - s /\ channel[<<s, r>>] = <<n>> /\ channel[<<r, s>>] = <<>> /\ r \in 0 .. 1
  BY <1>1, <1>2, <1>4 DEF BallState
<1>6. s = 1 - r /\ s # r /\ \A x : x \in 0 .. 1 <=> x = r \/ x = s
  <2>1. (s = 0 /\ r = 1) \/ (s = 1 /\ r = 0)
    BY <1>5
  <2> QED BY <2>1
<1>7. n # 0 /\ \A q \in 0 .. 1 : rank_place[q] # "send"
  BY <1>1, <1>2, <1>4, <1>5 DEF BallState
<1>8. /\ channel' = [channel EXCEPT ![<<s, r>>] = <<>>] /\ last_received' = [last_received EXCEPT ![r] = n]
      /\ <<>> \in Seq(Nat)
  <2>1. Head(<<n>>) = n /\ Tail(<<n>>) = <<>> /\ <<>> \in Seq(Nat)
    OBVIOUS
  <2> QED BY <1>4, <1>5, <2>1
<1>9. /\ channel' \in [Messages!Rank \X Messages!Rank -> Seq(Nat)]
      /\ \A x, y \in 0 .. 1 : channel'[<<x, y>>] = <<>>
  <2>1. channel \in [Messages!Rank \X Messages!Rank -> Seq(Nat)] /\ s \in Messages!Rank
    BY <1>1
  <2>2. /\ channel' \in [Messages!Rank \X Messages!Rank -> Seq(Nat)]
        /\ \A x, y \in Messages!Rank : channel'[<<x, y>>] = IF x = s /\ y = r THEN <<>> ELSE channel[<<x, y>>]
    BY <1>8, <2>1, ChannelChanges
  <2>3. \A x, y \in 0 .. 1 : channel[<<x, y>>] # <<>> => y = 1 - x
    BY <1>1 DEF BallState
  <2>4. ASSUME NEW x \in 0 .. 1, NEW y \in 0 .. 1
        PROVE  channel'[<<x, y>>] = <<>>
    <3>1. CASE x = s /\ y = r
      BY <1>1, <2>2, <3>1
    <3>2. CASE x = r /\ y = s
      BY <1>1, <1>5, <2>2, <3>2
    <3>3. CASE x = y
      <4>1. y # 1 - x
        BY <3>3
      <4>2. channel[<<x, y>>] = <<>>
        BY <2>3, <4>1
      <4>3. x \in Messages!Rank /\ y \in Messages!Rank /\ ~(x = s /\ y = r)
        BY <1>1, <1>6, <3>3
      <4> QED BY <2>2, <4>2, <4>3
    <3> QED BY <1>6, <3>1, <3>2, <3>3
  <2> QED BY <2>2, <2>4
<1>10. last_received' \in [Messages!Rank -> Nat] /\ \A q \in 0 .. 1 : last_received'[q] = IF q = r THEN n ELSE last_received[q]
  <2>1. last_received \in [Messages!Rank -> Nat] /\ Messages!Rank = 0 .. 1
    BY <1>1
  <2> QED BY <1>8, <2>1
<1>11. Messages!PrintedInOrder' /\ output' \in Seq(Nat) /\ Len(output') = n + 1
  <2>1. output' = Append(output, n)
    BY <1>3, <1>5, <1>10
  <2> QED BY <1>1, <1>2, <2>1, BallPrinted
<1>12. Messages!TypeOK' /\ \A q \in Messages!Rank : rank_place'[q] = IF q = r THEN "send" ELSE rank_place[q]
  <2>1. /\ last_received' \in [Messages!Rank -> Nat]
        /\ \A q \in Messages!Rank : q # r => last_received'[q] = last_received[q]
    BY <1>1, <1>10
  <2>2. channel' \in [Messages!Rank \X Messages!Rank -> Seq(Nat)] /\ output' \in Seq(Nat)
    BY <1>9, <1>11
  <2> QED BY <1>3, <2>1, <2>2, MessageTypes
<1>13. BallState(rank_place', last_received', channel', n + 1)
  <2>1. \A q \in 0 .. 1 : rank_place[q] \in {"start", "send", "sending", "receive"} /\ (last_received[q] = 0 \/ last_received[q] < n)
    BY <1>1, <1>2 DEF BallState
  <2>2. rank_place[0] # "start"
    BY <1>1, <1>2, <1>7 DEF BallState
  <2>3. rank_place'[0] # "start" /\ \A q \in 0 .. 1 : rank_place'[q] \in {"start", "send", "sending", "receive"}
    BY <1>1, <1>12, <2>1, <2>2
  <2>4. \A q \in 0 .. 1 : last_received'[q] = 0 \/ last_received'[q] < n + 1
    <3>1. \A q \in 0 .. 1 : last_received[q] \in Nat
      BY <1>1
    <3> QED BY <1>10, <2>1, <3>1
  <2>5. ASSUME NEW q \in 0 .. 1, rank_place'[q] = "send"
        PROVE  last_received'[q] = (n + 1) - 1 /\ rank_place'[1 - q] # "send"
    <3>1. q = r
      BY <1>1, <1>7, <1>12, <2>5
    <3>2. rank_place'[s] = rank_place[s] /\ 1 - q = s
      BY <1>1, <1>6, <1>12, <3>1
    <3>3. last_received'[q] = n
      BY <1>10, <3>1
    <3> QED BY <1>7, <3>2, <3>3
  <2>6. n + 1 # 0
    OBVIOUS
  <2> QED BY <1>9, <2>3, <2>4, <2>5, <2>6 DEF BallState
<1> QED BY <1>3, <1>11, <1>12, <1>13, BallNext

\* Any other number of processes: nobody plays.
LEMMA BallIdle ==
  ASSUME Messages!TypeOK, Messages!BallInv, mpi_program = "mpi_ping_pong", process_count # 2,
         NEW r \in Messages!Rank, Messages!Start(r)
  PROVE  Messages!TypeOK' /\ Messages!BallInv'
<1>1. /\ rank_place[r] = "start" /\ rank_place' = [rank_place EXCEPT ![r] = "done"]
      /\ mpi_program' = mpi_program /\ process_count' = process_count
      /\ last_received' = last_received /\ output' = output /\ channel' = channel
  BY DEF Messages!Start, Messages!GoTo
<1>2. /\ output \in Seq(Nat) /\ last_received \in [Messages!Rank -> Nat]
      /\ channel \in [Messages!Rank \X Messages!Rank -> Seq(Nat)]
  BY DEF Messages!TypeOK
<1>3. /\ Messages!TypeOK' /\ Messages!Rank' = Messages!Rank
      /\ \A q \in Messages!Rank : rank_place'[q] = IF q = r THEN "done" ELSE rank_place[q]
  BY <1>1, <1>2, MessageTypes
<1> QED BY <1>1, <1>3 DEF Messages!BallInv

\* Each program keeps its invariant, and the others' are about programs that do not run.
LEMMA MessagesKept ==
  ASSUME Messages!IInv, NEW r \in Messages!Rank, Messages!ProcessStep(r) \/ Messages!SendReturns(r)
  PROVE  Messages!IInv'
<1>1. /\ Messages!TypeOK
      /\ mpi_program = "none" => process_count = 0
      /\ mpi_program \in {"send_recv_urd", "send_recv_ord_itm"} => Messages!GreetingsInv
      /\ mpi_program = "send_recv_ord_sem" => Messages!PermissionInv
      /\ mpi_program = "mpi_relay_race" => Messages!RaceInv
      /\ mpi_program = "mpi_ping_pong" => Messages!BallInv
  BY DEF Messages!IInv
<1>2. \/ Messages!Start(r) \/ Messages!Barrier(r) \/ Messages!Send(r) \/ Messages!Receive(r) \/ Messages!Greet(r)
      \/ Messages!SendReturns(r)
  BY DEF Messages!ProcessStep
<1>3. /\ mpi_program \in {"send_recv_urd", "send_recv_ord_itm", "send_recv_ord_sem", "mpi_relay_race", "mpi_ping_pong"}
      /\ process_count # 0 /\ MaxBall \in Nat
  <2>1. process_count # 0
    BY <1>1, MessageStart
  <2>2. mpi_program \in {"none"} \cup MpiPrograms /\ mpi_program # "none"
    BY <1>1, <2>1 DEF Messages!TypeOK
  <2> QED BY <2>1, <2>2, WorkAssumption DEF Messages!MpiAssumption
<1>4. mpi_program' = mpi_program
  <2>1. CASE Messages!Start(r)
    BY <2>1 DEF Messages!Start
  <2>2. CASE Messages!Barrier(r)
    BY <2>2 DEF Messages!Barrier
  <2>3. CASE Messages!Send(r)
    BY <2>3 DEF Messages!Send
  <2>4. CASE Messages!Receive(r)
    BY <2>4 DEF Messages!Receive
  <2>5. CASE Messages!Greet(r)
    BY <2>5 DEF Messages!Greet
  <2>6. CASE Messages!SendReturns(r)
    BY <2>6 DEF Messages!SendReturns
  <2> QED BY <1>2, <2>1, <2>2, <2>3, <2>4, <2>5, <2>6
<1>5. /\ Messages!Start(r) => rank_place[r] = "start"
      /\ Messages!Barrier(r) => rank_place[r] = "barrier"
      /\ Messages!Send(r) => rank_place[r] = "send"
      /\ Messages!Receive(r) => rank_place[r] = "receive"
      /\ Messages!Greet(r) => rank_place[r] = "greet"
      /\ Messages!SendReturns(r) => rank_place[r] = "sending"
  BY DEF Messages!Start, Messages!Barrier, Messages!Send, Messages!Receive, Messages!Greet, Messages!SendReturns
<1>6. CASE mpi_program \in {"send_recv_urd", "send_recv_ord_itm"}
  <2>1. Messages!GreetingsInv
    BY <1>1, <1>6
  <2>2. rank_place[r] # "barrier" /\ rank_place[r] # "greet"
    <3>1. CASE r = 0
      BY <2>1, <3>1 DEF Messages!GreetingsInv
    <3>2. CASE r # 0
      BY <2>1, <3>2 DEF Messages!GreetingsInv
    <3> QED BY <3>1, <3>2
  <2>3. Messages!TypeOK' /\ Messages!GreetingsInv'
    <3>1. Messages!Start(r) \/ Messages!Send(r) \/ Messages!Receive(r) \/ Messages!SendReturns(r)
      BY <1>2, <1>5, <2>2
    <3> QED BY <1>1, <1>6, <2>1, <3>1, GreetingsStart, GreetingsSend, GreetingsReceive, GreetingsSendReturns
  <2> QED BY <1>4, <1>6, <2>3 DEF Messages!IInv
<1>7. CASE mpi_program = "send_recv_ord_sem"
  <2>1. Messages!PermissionInv
    BY <1>1, <1>7
  <2>2. rank_place[r] # "barrier"
    BY <2>1 DEF Messages!PermissionInv
  <2>3. Messages!TypeOK' /\ Messages!PermissionInv'
    <3>1. Messages!Start(r) \/ Messages!Send(r) \/ Messages!Receive(r) \/ Messages!Greet(r) \/ Messages!SendReturns(r)
      BY <1>2, <1>5, <2>2
    <3> QED BY <1>1, <1>7, <2>1, <3>1, PermissionStart, PermissionSend, PermissionReceive, PermissionGreet,
               PermissionSendReturns
  <2> QED BY <1>4, <1>7, <2>3 DEF Messages!IInv
<1>8. CASE mpi_program = "mpi_relay_race"
  <2>1. Messages!RaceInv
    BY <1>1, <1>8
  <2>2. CASE Racing
    <3>1. /\ r = 0 => rank_place[r] \in {"start", "barrier", "receive", "done"}
          /\ r % 2 = 1 => rank_place[r] \in {"start", "barrier", "send", "sending", "done"}
          /\ r # 0 /\ r % 2 # 1 => rank_place[r] \in {"start", "barrier", "receive", "send", "sending", "done"}
      BY <1>1, <1>8, <2>1, <2>2, RaceFacts
    <3>2. rank_place[r] # "greet"
      BY <3>1
    <3>3. \/ Messages!Start(r) \/ Messages!Barrier(r) \/ Messages!SendReturns(r) \/ Messages!Send(r)
          \/ Messages!Receive(r) /\ r # 0
          \/ Messages!Receive(0) /\ 0 \in Messages!Rank
      BY <1>2, <1>5, <3>2
    <3>4. Messages!TypeOK' /\ Messages!RaceInv'
      BY <1>1, <1>8, <2>1, <2>2, <3>3, RaceQuiet, RaceSend, RaceBaton, RaceReferee
    <3> QED BY <1>4, <1>8, <3>4 DEF Messages!IInv
  <2>3. CASE ~Racing
    <3>1. rank_place[r] \in {"start", "done"}
      BY <2>1, <2>3 DEF Messages!RaceInv, Racing
    <3>2. Messages!Start(r)
      BY <1>2, <1>5, <3>1
    <3>3. Messages!TypeOK' /\ Messages!RaceInv'
      BY <1>1, <1>8, <2>1, <2>3, <3>2, RaceIdle
    <3> QED BY <1>4, <1>8, <3>3 DEF Messages!IInv
  <2> QED BY <2>2, <2>3
<1>9. CASE mpi_program = "mpi_ping_pong"
  <2>1. Messages!BallInv
    BY <1>1, <1>9
  <2>2. CASE process_count = 2
    <3>1. rank_place[r] \in {"start", "send", "sending", "receive"}
      BY <2>1, <2>2 DEF Messages!BallInv
    <3>2. Messages!Start(r) \/ Messages!SendReturns(r) \/ Messages!Send(r) \/ Messages!Receive(r)
      BY <1>2, <1>5, <3>1
    <3>3. Messages!TypeOK' /\ Messages!BallInv'
      BY <1>1, <1>3, <1>9, <2>1, <2>2, <3>2, BallQuiet, BallSend, BallReceive
    <3> QED BY <1>4, <1>9, <3>3 DEF Messages!IInv
  <2>3. CASE process_count # 2
    <3>1. rank_place[r] \in {"start", "done"}
      BY <2>1, <2>3 DEF Messages!BallInv
    <3>2. Messages!Start(r)
      BY <1>2, <1>5, <3>1
    <3>3. Messages!TypeOK' /\ Messages!BallInv'
      BY <1>1, <1>9, <2>1, <2>3, <3>2, BallIdle
    <3> QED BY <1>4, <1>9, <3>3 DEF Messages!IInv
  <2> QED BY <2>2, <2>3
<1> QED BY <1>3, <1>6, <1>7, <1>8, <1>9

LEMMA MessagesStep == Messages!IInv /\ [Messages!Next]_(Messages!messageVars) => Messages!IInv'
<1> SUFFICES ASSUME Messages!IInv, [Messages!Next]_(Messages!messageVars) PROVE Messages!IInv'
  OBVIOUS
<1>1. CASE Messages!Launch
  BY <1>1, MessagesLaunch
<1>2. CASE \E r \in Messages!Rank : Messages!ProcessStep(r) \/ Messages!SendReturns(r)
  BY <1>2, MessagesKept
<1>3. CASE UNCHANGED Messages!messageVars
  <2>1. /\ mpi_program' = mpi_program /\ process_count' = process_count /\ rank_place' = rank_place
        /\ last_received' = last_received /\ channel' = channel /\ output' = output
    BY <1>3 DEF Messages!messageVars
  <2>2. Messages!Rank' = Messages!Rank /\ Messages!Lines' = Messages!Lines
    BY <2>1 DEF Messages!Rank, Messages!Lines
  <2>3. /\ Messages!PrintedOnce' = Messages!PrintedOnce /\ Messages!PrintedInOrder' = Messages!PrintedInOrder
        /\ \A u : Messages!Printed(u)' = Messages!Printed(u)
    BY <2>1 DEF Messages!PrintedOnce, Messages!PrintedInOrder, Messages!Printed
  <2>4. Messages!TypeOK' = Messages!TypeOK
    BY <2>1, <2>2 DEF Messages!TypeOK
  <2>5. Messages!GreetingsInv' = Messages!GreetingsInv
    BY <2>1, <2>2, <2>3 DEF Messages!GreetingsInv
  <2>6. Messages!PermissionInv' = Messages!PermissionInv
    BY <2>1, <2>2, <2>3 DEF Messages!PermissionInv
  <2>7. Messages!RaceInv' = Messages!RaceInv
    BY <2>1, <2>2, <2>3 DEF Messages!RaceInv
  <2>8. Messages!BallInv' = Messages!BallInv
    BY <2>1, <2>2, <2>3 DEF Messages!BallInv
  <2> QED BY <2>1, <2>4, <2>5, <2>6, <2>7, <2>8 DEF Messages!IInv
<1> QED BY <1>1, <1>2, <1>3 DEF Messages!Next

\* As many different lines as there can be are all of them.
LEMMA AllPrinted ==
  ASSUME Messages!PrintedOnce, output \in Seq(Nat), NEW a \in Nat, NEW b \in Nat, a <= b,
         Len(output) = b - a + 1, \A i \in DOMAIN output : output[i] \in a .. b
  PROVE  \A v \in a .. b : Messages!Printed(v)
<1>1. PICK n \in Nat : n = Len(output)
  OBVIOUS
<1>2. DOMAIN output = 1 .. n /\ output \in [1 .. n -> a .. b]
  <2>1. output \in [1 .. n -> Nat] /\ DOMAIN output = 1 .. n
    BY <1>1
  <2> QED BY <2>1
<1>3. \A i, j \in 1 .. n : output[i] = output[j] => i = j
  BY <1>2 DEF Messages!PrintedOnce
<1>4. output \in Injection(1 .. n, a .. b)
  BY <1>2, <1>3 DEF Injection, IsInjective
<1>5. IsFiniteSet(a .. b) /\ Cardinality(a .. b) = n /\ Cardinality(1 .. n) = n
  <2>1. a \in Int /\ b \in Int /\ ~(a > b) /\ n = b - a + 1 /\ 1 \in Int /\ n \in Int /\ ~(1 > n)
    BY <1>1
  <2>2. IsFiniteSet(a .. b) /\ Cardinality(a .. b) = IF a > b THEN 0 ELSE b - a + 1
    BY <2>1, FS_Interval
  <2>3. Cardinality(1 .. n) = IF 1 > n THEN 0 ELSE n - 1 + 1
    BY <2>1, FS_Interval
  <2> QED BY <2>1, <2>2, <2>3
<1>6. output \in Surjection(1 .. n, a .. b)
  BY <1>4, <1>5, FS_Injection
<1>7. \A v \in a .. b : \E i \in 1 .. n : output[i] = v
  BY <1>6 DEF Surjection
<1> QED BY <1>2, <1>7 DEF Messages!Printed

\* What the invariants say of the order of the lines.
LEMMA MessagesAreInOrder == Messages!IInv => Messages!MessagesInOrder
<1> SUFFICES ASSUME Messages!IInv PROVE Messages!MessagesInOrder
  OBVIOUS
<1>1. /\ Messages!TypeOK
      /\ mpi_program \in {"send_recv_urd", "send_recv_ord_itm"} => Messages!GreetingsInv
      /\ mpi_program = "send_recv_ord_sem" => Messages!PermissionInv
      /\ mpi_program = "mpi_relay_race" => Messages!RaceInv
      /\ mpi_program = "mpi_ping_pong" => Messages!BallInv
  BY DEF Messages!IInv
<1>2. CASE mpi_program = "send_recv_ord_itm"
  <2>1. Messages!PrintedInOrder
    BY <1>1, <1>2 DEF Messages!GreetingsInv
  <2> QED BY <1>2, <2>1 DEF Messages!MessagesInOrder, Messages!PrintedInOrder
<1>3. CASE mpi_program = "send_recv_ord_sem"
  <2>1. Messages!PrintedInOrder
    BY <1>1, <1>3 DEF Messages!PermissionInv
  <2> QED BY <1>3, <2>1 DEF Messages!MessagesInOrder, Messages!PrintedInOrder
<1>4. CASE mpi_program = "send_recv_urd"
  <2>1. Messages!PrintedOnce /\ (output # <<>> => output[1] = 0)
    BY <1>1, <1>4 DEF Messages!GreetingsInv
  <2> QED BY <1>4, <2>1 DEF Messages!MessagesInOrder, Messages!PrintedOnce
<1>5. CASE mpi_program = "mpi_relay_race" /\ Racing
  <2>1. process_count # 0 /\ process_count \in Nat
    BY <1>1, <1>5 DEF Racing, Messages!TypeOK
  <2>2. 0 \in Messages!Rank
    BY <2>1 DEF Messages!Rank
  <2>3. /\ process_count \in Nat /\ process_count >= 3 /\ process_count % 2 = 1
        /\ Messages!Rank = 0 .. process_count - 1 /\ RacePlaces(rank_place, process_count) /\ RacePrinted
    BY <1>1, <1>5, <2>2, RaceFacts
  <2>4. Messages!PrintedOnce
    BY <2>3 DEF RacePrinted
  <2>5. ASSUME NEW i \in DOMAIN output
        PROVE  /\ rank_place[2 * output[i]] \notin {"start", "barrier", "receive", "send"}
               /\ rank_place[2 * output[i] - 1] \notin {"start", "barrier", "receive", "send"}
    <3>1. PICK L \in Nat : L = (process_count - 1) \div 2 /\ process_count = 2 * L + 1
      BY <2>3, RaceTeams
    <3>2. PICK v \in 1 .. L : v = output[i]
      BY <2>3, <3>1 DEF RacePrinted
    <3>3. 2 * v \in 0 .. process_count - 1 /\ 2 * v # 0 /\ (2 * v) % 2 # 1 /\ (2 * v) \div 2 = v
      BY <3>1
    <3>4. Messages!Printed(v)
      BY <3>2 DEF Messages!Printed
    <3>5. rank_place[2 * v] \in {"sending", "done"}
      <4>1. Messages!Printed((2 * v) \div 2) <=> rank_place[2 * v] \in {"sending", "done"} /\ channel[<<2 * v, 0>>] = <<>>
        BY <2>3, <3>3 DEF RacePrinted
      <4> QED BY <3>3, <3>4, <4>1
    <3>6. rank_place[2 * v - 1] \in {"sending", "done"}
      BY <2>3, <3>3, <3>5 DEF RacePlaces
    <3> QED BY <3>2, <3>5, <3>6
  <2> QED BY <1>5, <2>4, <2>5 DEF Messages!MessagesInOrder, Messages!PrintedOnce
<1>6. CASE mpi_program = "mpi_relay_race" /\ ~Racing
  <2>1. output = <<>>
    BY <1>1, <1>6 DEF Messages!RaceInv, Racing
  <2>2. DOMAIN output = {}
    BY <2>1
  <2> QED BY <1>6, <2>2 DEF Messages!MessagesInOrder
<1>7. CASE mpi_program = "mpi_ping_pong"
  <2>1. (\A S : Messages!Cardinality(S) = Cardinality(S)) /\ Cardinality({}) = 0 /\ \A x : Cardinality({x}) = 1
    <3>1. \A S : Messages!Cardinality(S) = Cardinality(S)
      BY DEF Messages!Cardinality, Cardinality
    <3> QED BY <3>1, OneElement, FS_EmptySet
  <2> DEFINE hitting == {r \in Messages!Rank : rank_place[r] = "send"}
  <2>2. (\A i \in DOMAIN output : output[i] = i - 1) /\ (hitting = {} \/ \E x : hitting = {x})
    <3>1. CASE process_count = 2
      <4>1. Messages!PrintedInOrder
        BY <1>1, <1>7, <3>1 DEF Messages!BallInv
      <4>2. Messages!Rank = 0 .. 1 /\ BallState(rank_place, last_received, channel, Len(output))
        BY <1>1, <1>7, <3>1, BallFacts
      <4>3. ~(rank_place[0] = "send" /\ rank_place[1] = "send")
        <5>1. 0 \in 0 .. 1 /\ 1 - 0 = 1
          OBVIOUS
        <5> QED BY <4>2, <5>1 DEF BallState
      <4>4. \A r : r \in Messages!Rank <=> r = 0 \/ r = 1
        BY <4>2
      <4>5. hitting = {} \/ hitting = {0} \/ hitting = {1}
        BY <4>3, <4>4
      <4> QED BY <4>1, <4>5 DEF Messages!PrintedInOrder
    <3>2. CASE process_count # 2
      <4>1. output = <<>> /\ \A r \in Messages!Rank : rank_place[r] \in {"start", "done"}
        BY <1>1, <1>7, <3>2 DEF Messages!BallInv
      <4>2. DOMAIN output = {} /\ hitting = {}
        BY <4>1
      <4> QED BY <4>2
    <3> QED BY <3>1, <3>2
  <2> HIDE DEF hitting
  <2>3. Messages!Cardinality(hitting) <= 1
    <3>1. Messages!Cardinality(hitting) = 0 \/ Messages!Cardinality(hitting) = 1
      BY <2>1, <2>2
    <3> QED BY <3>1
  <2> QED BY <1>7, <2>2, <2>3 DEF Messages!MessagesInOrder, hitting
<1>8. CASE mpi_program \notin {"send_recv_ord_itm", "send_recv_ord_sem", "send_recv_urd", "mpi_relay_race", "mpi_ping_pong"}
  BY <1>8 DEF Messages!MessagesInOrder
<1> QED BY <1>2, <1>3, <1>4, <1>5, <1>6, <1>7, <1>8

\* When the processes have ended, every message was received and every line printed.
LEMMA NothingIsLeft == Messages!IInv => Messages!NoMessageLeft
<1> SUFFICES ASSUME Messages!IInv, Messages!MessagesEnd
             PROVE  /\ \A pair \in DOMAIN channel : channel[pair] = <<>>
                    /\ mpi_program \in {"send_recv_urd", "send_recv_ord_itm", "send_recv_ord_sem"} =>
                         Len(output) = process_count
                    /\ mpi_program = "mpi_relay_race" /\ process_count >= 3 /\ process_count % 2 = 1 =>
                         Len(output) = Messages!Lines
  BY DEF Messages!NoMessageLeft
<1>1. /\ Messages!TypeOK
      /\ mpi_program = "none" => process_count = 0
      /\ mpi_program \in {"send_recv_urd", "send_recv_ord_itm"} => Messages!GreetingsInv
      /\ mpi_program = "send_recv_ord_sem" => Messages!PermissionInv
      /\ mpi_program = "mpi_relay_race" => Messages!RaceInv
      /\ mpi_program = "mpi_ping_pong" => Messages!BallInv
  BY DEF Messages!IInv
<1>2. /\ process_count \in Nat \ {0} /\ Messages!Rank = 0 .. process_count - 1 /\ 0 \in Messages!Rank
      /\ channel \in [Messages!Rank \X Messages!Rank -> Seq(Nat)] /\ output \in Seq(Nat)
  <2>1. process_count \in Nat \ {0}
    BY <1>1 DEF Messages!TypeOK, Messages!MessagesEnd
  <2>2. 0 \in Messages!Rank
    BY <2>1 DEF Messages!Rank
  <2> QED BY <1>1, <2>1, <2>2, MessageStart DEF Messages!TypeOK
<1>3. mpi_program \in {"send_recv_urd", "send_recv_ord_itm", "send_recv_ord_sem", "mpi_relay_race", "mpi_ping_pong"}
      /\ MaxBall \in Nat
  <2>1. mpi_program \in {"none"} \cup MpiPrograms /\ mpi_program # "none"
    BY <1>1, <1>2 DEF Messages!TypeOK
  <2> QED BY <2>1, WorkAssumption DEF Messages!MpiAssumption
<1>4. (\A x, y \in Messages!Rank : channel[<<x, y>>] = <<>>) => \A pair \in DOMAIN channel : channel[pair] = <<>>
  BY <1>2
<1>5. mpi_program # "mpi_ping_pong" => \A q \in Messages!Rank : rank_place[q] = "done"
  BY DEF Messages!MessagesEnd
<1>6. CASE mpi_program \in {"send_recv_urd", "send_recv_ord_itm"}
  <2>1. Messages!GreetingsInv
    BY <1>1, <1>6
  <2>2. \A q \in Messages!Rank : rank_place[q] = "done"
    BY <1>5, <1>6
  <2>3. Len(output) = process_count
    BY <1>2, <2>1, <2>2 DEF Messages!GreetingsInv
  <2>4. \A v \in Messages!Rank : Messages!Printed(v)
    <3>1. Messages!PrintedOnce /\ \A i \in DOMAIN output : output[i] \in 0 .. process_count - 1
      BY <1>2, <2>1 DEF Messages!GreetingsInv
    <3>2. Len(output) = (process_count - 1) - 0 + 1 /\ process_count - 1 \in Nat /\ 0 \in Nat /\ 0 <= process_count - 1
      BY <1>2, <2>3
    <3> QED BY <1>2, <3>1, <3>2, AllPrinted
  <2>5. ASSUME NEW x \in Messages!Rank, NEW y \in Messages!Rank
        PROVE  channel[<<x, y>>] = <<>>
    <3>1. channel[<<x, y>>] # <<>> => y = 0 /\ x # 0
      BY <2>1 DEF Messages!GreetingsInv
    <3>2. x # 0 => channel[<<x, 0>>] = <<>>
      BY <2>1, <2>4 DEF Messages!GreetingsInv
    <3> QED BY <3>1, <3>2
  <2> QED BY <1>4, <1>6, <2>3, <2>5
<1>7. CASE mpi_program = "send_recv_ord_sem"
  <2>1. Messages!PermissionInv
    BY <1>1, <1>7
  <2>2. \A q \in Messages!Rank : rank_place[q] = "done"
    BY <1>5, <1>7
  <2>3. \A x, y \in Messages!Rank : channel[<<x, y>>] = <<>>
    BY <2>1, <2>2 DEF Messages!PermissionInv
  <2>4. Len(output) = process_count
    <3>1. process_count - 1 \in Messages!Rank
      BY <1>2
    <3>2. process_count - 1 < Len(output) /\ Len(output) <= process_count /\ Len(output) \in Nat
      BY <1>2, <2>1, <2>2, <3>1 DEF Messages!PermissionInv
    <3> QED BY <1>2, <3>2
  <2> QED BY <1>4, <1>7, <2>3, <2>4
<1>8. CASE mpi_program = "mpi_relay_race" /\ Racing
  <2>1. /\ process_count >= 3 /\ process_count % 2 = 1
        /\ Messages!Lines = (process_count - 1) \div 2 /\ RacePrinted
        /\ \A x, y \in Messages!Rank : channel[<<x, y>>] # <<>> =>
             /\ rank_place[x] \in {"sending", "done"}
             /\ IF x % 2 = 1 THEN /\ y = x + 1 /\ channel[<<x, y>>] = <<1>>
                                  /\ rank_place[y] \in {"start", "barrier", "receive"}
                ELSE y = 0 /\ x # 0 /\ channel[<<x, y>>] = <<x \div 2>>
    BY <1>1, <1>2, <1>8, RaceFacts
  <2>2. \A q \in Messages!Rank : rank_place[q] = "done"
    BY <1>5, <1>8
  <2>3. PICK L \in Nat : L = (process_count - 1) \div 2 /\ L >= 1
    BY <1>2, <2>1, RaceTeams
  <2>4. Len(output) = L
    BY <1>2, <2>1, <2>2, <2>3 DEF RacePrinted
  <2>5. \A v \in 1 .. L : Messages!Printed(v)
    <3>1. Messages!PrintedOnce /\ \A i \in DOMAIN output : output[i] \in 1 .. L
      BY <2>1, <2>3 DEF RacePrinted
    <3>2. Len(output) = L - 1 + 1 /\ 1 \in Nat /\ 1 <= L
      BY <2>3, <2>4
    <3> QED BY <1>2, <3>1, <3>2, AllPrinted
  <2>6. ASSUME NEW x \in Messages!Rank, NEW y \in Messages!Rank
        PROVE  channel[<<x, y>>] = <<>>
    <3>1. CASE x % 2 = 1
      BY <2>1, <2>2, <3>1
    <3>2. CASE x % 2 # 1
      <4>1. channel[<<x, y>>] # <<>> => y = 0 /\ x # 0
        BY <2>1, <3>2
      <4>2. x # 0 => x \div 2 \in 1 .. L
        BY <1>2, <2>1, <2>3, <3>2, RaceTeams
      <4>3. x # 0 => channel[<<x, 0>>] = <<>>
        BY <2>1, <2>5, <3>2, <4>2 DEF RacePrinted
      <4> QED BY <4>1, <4>3
    <3> QED BY <3>1, <3>2
  <2> QED BY <1>4, <1>8, <2>1, <2>3, <2>4, <2>6
<1>9. CASE mpi_program = "mpi_relay_race" /\ ~Racing
  <2>1. \A x, y \in Messages!Rank : channel[<<x, y>>] = <<>>
    BY <1>1, <1>9 DEF Messages!RaceInv, Racing
  <2> QED BY <1>4, <1>9, <2>1 DEF Racing
<1>10. CASE mpi_program = "mpi_ping_pong"
  <2>1. CASE process_count = 2
    <3>1. /\ Messages!Rank = 0 .. 1 /\ BallState(rank_place, last_received, channel, Len(output))
          /\ Len(output) \in Nat /\ last_received \in [Messages!Rank -> Nat]
      BY <1>1, <1>10, <2>1, BallFacts
    <3>2. \A q \in 0 .. 1 : rank_place[q] # "done"
      BY <3>1 DEF BallState
    <3>3. PICK q \in 0 .. 1 : last_received[q] = MaxBall
      <4>1. 0 \in Messages!Rank /\ rank_place[0] # "done"
        BY <1>2, <3>1, <3>2
      <4> QED BY <3>1, <4>1 DEF Messages!MessagesEnd
    <3>4. last_received[q] = 0 \/ last_received[q] < Len(output)
      BY <3>1 DEF BallState
    <3>5. ASSUME NEW x \in 0 .. 1, NEW y \in 0 .. 1, channel[<<x, y>>] # <<>>
          PROVE  FALSE
      <4>1. Len(output) <= MaxBall /\ Len(output) # 0
        BY <3>1, <3>5 DEF BallState
      <4> QED BY <1>3, <3>1, <3>3, <3>4, <4>1
    <3> QED BY <1>4, <1>10, <3>1, <3>5
  <2>2. CASE process_count # 2
    <3>1. \A x, y \in Messages!Rank : channel[<<x, y>>] = <<>>
      BY <1>1, <1>10, <2>2 DEF Messages!BallInv
    <3> QED BY <1>4, <1>10, <3>1
  <2> QED BY <2>1, <2>2
<1> QED BY <1>3, <1>6, <1>7, <1>8, <1>9, <1>10
=============================================================================
