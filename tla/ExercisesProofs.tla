-------------------------- MODULE ExercisesProofs --------------------------
(***************************************************************************)
(* The exercises.  A step of the composition is a step of the program that *)
(* runs or leaves its state alone (the lemmas ...Behave), so an invariant  *)
(* that the module of the program keeps is one of the composition.         *)
(***************************************************************************)
EXTENDS ProdConsBound, Exercises, WorkProofs, Sequences, FiniteSetTheorems,
        SequenceTheorems, WellFoundedInduction, TLAPS

-----------------------------------------------------------------------------
(* prod_cons_bound.  The two semaphores are enough: for every capacity and *)
(* number of rounds the threads stay at different places of the buffer and *)
(* the elements arrive in order.  The argument is IInv: can_consume counts *)
(* the elements posted and not waited for, can_produce the places nobody   *)
(* has claimed, so between them they bound count - consumed; places less   *)
(* than a capacity apart are different, so a write spares what is to be    *)
(* read.                                                                   *)

\* Elements less than a capacity apart are at different places: the index of
\* a loop over the buffer is the number of the element modulo the capacity.
LEMMA DifferentPlaces ==
  ASSUME NEW capacity \in Nat \ {0}, NEW m \in Nat, NEW n \in Nat,
         m < n, n < m + capacity
  PROVE  m % capacity # n % capacity
<1> DEFINE qm == m \div capacity
           qn == n \div capacity
<1>1. qm \in Int /\ qn \in Int
  OBVIOUS
<1>2. /\ m = capacity * qm + (m % capacity)
      /\ n = capacity * qn + (n % capacity)
  OBVIOUS
<1>3. m % capacity \in Int /\ n % capacity \in Int
  OBVIOUS
<1> HIDE DEF qm, qn
<1>4. SUFFICES ASSUME m % capacity = n % capacity PROVE FALSE
  OBVIOUS
<1>5. n - m = capacity * (qn - qm)
  BY <1>1, <1>2, <1>3, <1>4
<1>6. CASE qn - qm <= 0
  <2>1. capacity * (qn - qm) <= 0
    BY <1>1, <1>6
  <2> QED BY <1>1, <1>5, <2>1
<1>7. CASE qn - qm >= 1
  <2>1. capacity * (qn - qm) >= capacity
    BY <1>1, <1>7
  <2> QED BY <1>1, <1>5, <2>1
<1> QED BY <1>1, <1>6, <1>7

\* An element always has a place, and there is one element or more.
LEMMA PlaceOfElement ==
  /\ Total \in Nat \ {0}
  /\ \A n \in Nat : n % buffer_capacity \in Places
<1>1. rounds * buffer_capacity \in Nat \ {0}
  BY ArgumentsAssumption
<1> QED BY <1>1, ArgumentsAssumption DEF Total, Places

\* Where a thread is, as a number.
LEMMA AtRange == \A here, places : At(here, places) \in {0, 1}
BY DEF At

\* The elements in the buffer, the one being written included, always fit in
\* it: what the semaphores say once their values cannot be negative.
LEMMA Distance ==
  ASSUME TypeOK, SemaphoreInv, LoopInv
  PROVE  /\ consumed <= count
         /\ consumer \in {"consume", "signal"} => consumed < count
         /\ count - consumed <= buffer_capacity
         /\ producer = "produce" => count - consumed < buffer_capacity
<1> USE ArgumentsAssumption DEF TypeOK, SemaphoreInv
<1>1. /\ count \in Nat /\ consumed \in Nat
      /\ can_produce \in Nat /\ can_consume \in Nat
  BY PlaceOfElement
<1>2. /\ At(producer, {"signal"}) >= 0
      /\ At(producer, {"signal"}) \in Int
      /\ At(consumer, {"consume", "signal"}) >= 0
      /\ At(consumer, {"consume", "signal"}) \in Int
      /\ consumer \in {"consume", "signal"} =>
           At(consumer, {"consume", "signal"}) = 1
  BY DEF At
<1>3. /\ At(producer, {"wait", "produce", "signal", "ended"}) >= 0
      /\ At(producer, {"wait", "produce", "signal", "ended"}) \in Int
      /\ At(producer, {"produce"}) >= 0
      /\ At(producer, {"produce"}) \in Int
      /\ producer = "produce" => At(producer, {"produce"}) = 1
  BY DEF At
<1> QED BY <1>1, <1>2, <1>3

-----------------------------------------------------------------------------

\* The invariant holds when the buffer is empty and nobody was created.
LEMMA InitEstablishes == Init => IInv
<1> SUFFICES ASSUME Init PROVE IInv
  OBVIOUS
<1> USE ArgumentsAssumption, PlaceOfElement DEF Init
<1>1. TypeOK
  BY DEF TypeOK
<1>2. SemaphoreInv
  <2>1. /\ At(producer, {"signal"}) = 0
        /\ At(consumer, {"consume", "signal"}) = 0
        /\ At(producer, {"wait", "produce", "signal", "ended"}) = 0
        /\ At(producer, {"produce"}) = 0
    BY DEF At
  <2> QED BY <2>1 DEF SemaphoreInv
<1>3. LoopInv
  BY DEF LoopInv
<1>4. BufferInv
  BY DEF BufferInv, ConsumedInOrder
<1> QED BY <1>1, <1>2, <1>3, <1>4 DEF IInv

\* Nothing but the values of the variables matters.
LEMMA StutterPreserves == IInv /\ UNCHANGED vars => IInv'
BY DEF IInv, TypeOK, SemaphoreInv, LoopInv, BufferInv, ConsumedInOrder, Total,
       Places, At, vars

\* The main thread only lets the others begin, where the semaphores count
\* nothing yet.
LEMMA MainPreserves == IInv /\ MainStep => IInv'
<1> SUFFICES ASSUME IInv, MainStep PROVE IInv'
  OBVIOUS
<1> USE ArgumentsAssumption, PlaceOfElement
<1> USE DEF IInv, MainStep, CreateProducer, CreateConsumer, Join
<1>1. TypeOK'
  BY DEF TypeOK, Places, Total
<1>2. /\ UNCHANGED <<can_produce, can_consume, buffer, count, consumed, value>>
      /\ \/ producer' = producer
         \/ producer = "unborn" /\ producer' = "reserve"
      /\ \/ consumer' = consumer
         \/ consumer = "unborn" /\ consumer' = "wait"
  BY DEF LoopInv
<1> HIDE DEF MainStep, CreateProducer, CreateConsumer, Join
<1>3. SemaphoreInv'
  <2>1. /\ At(producer, {"signal"})' = At(producer, {"signal"})
        /\ At(consumer, {"consume", "signal"})'
             = At(consumer, {"consume", "signal"})
        /\ At(producer, {"wait", "produce", "signal", "ended"})'
             = At(producer, {"wait", "produce", "signal", "ended"})
        /\ At(producer, {"produce"})' = At(producer, {"produce"})
    BY <1>2 DEF At
  <2> QED BY <1>2, <2>1 DEF SemaphoreInv
<1>4. LoopInv'
  BY <1>2 DEF LoopInv, TypeOK, Total, MainStep, CreateProducer,
              CreateConsumer, Join
<1>5. BufferInv'
  BY <1>2 DEF BufferInv, ConsumedInOrder, TypeOK
<1> QED BY <1>1, <1>3, <1>4, <1>5

\* A step of the producer: a wait needs a free place, and the place written
\* holds no element that the consumer still has to read.
LEMMA ProducerPreserves == IInv /\ ProducerStep => IInv'
<1> SUFFICES ASSUME IInv, ProducerStep PROVE IInv'
  OBVIOUS
<1> USE ArgumentsAssumption, PlaceOfElement DEF IInv
<1>0. Total' = Total /\ Places' = Places
  BY DEF Total, Places
<1>1. /\ count \in Nat /\ consumed \in Nat /\ can_produce \in Nat
      /\ can_consume \in Nat /\ Total \in Nat
  BY DEF TypeOK
<1>2. /\ consumed <= count
      /\ count - consumed <= buffer_capacity
      /\ producer = "produce" => count - consumed < buffer_capacity
  BY Distance
<1>3. /\ At(consumer, {"consume", "signal"}) \in {0, 1}
      /\ UNCHANGED <<main, consumer, consumed, value>>
  BY AtRange DEF ProducerStep, Reserve, WaitToProduce, Produce, SignalConsumer
<1>4. At(consumer, {"consume", "signal"})' = At(consumer, {"consume", "signal"})
  BY <1>3 DEF At
<1>5. CASE Reserve
  <2>1. SemaphoreInv'
    <3>1. /\ At(producer, {"signal"}) = 0 /\ At(producer, {"signal"})' = 0
          /\ At(producer, {"wait", "produce", "signal", "ended"}) = 0
          /\ At(producer, {"wait", "produce", "signal", "ended"})' = 1
          /\ At(producer, {"produce"}) = 0 /\ At(producer, {"produce"})' = 0
      BY <1>5 DEF At, Reserve
    <3> QED BY <1>1, <1>3, <1>4, <1>5, <3>1 DEF SemaphoreInv, Reserve
  <2>2. TypeOK'
    BY <1>0, <1>1, <1>5 DEF TypeOK, Reserve
  <2>3. LoopInv' /\ BufferInv'
    BY <1>0, <1>1, <1>5 DEF LoopInv, BufferInv, ConsumedInOrder, Reserve
  <2> QED BY <2>1, <2>2, <2>3
<1>6. CASE WaitToProduce
  <2>1. SemaphoreInv'
    <3>1. /\ At(producer, {"signal"}) = 0 /\ At(producer, {"signal"})' = 0
          /\ At(producer, {"wait", "produce", "signal", "ended"}) = 1
          /\ At(producer, {"wait", "produce", "signal", "ended"})' = 1
          /\ At(producer, {"produce"}) = 0 /\ At(producer, {"produce"})' = 1
      BY <1>6 DEF At, WaitToProduce
    <3> QED BY <1>1, <1>3, <1>4, <1>6, <3>1 DEF SemaphoreInv, WaitToProduce
  <2>2. TypeOK'
    BY <1>0, <1>1, <1>6 DEF TypeOK, WaitToProduce
  <2>3. LoopInv' /\ BufferInv'
    BY <1>0, <1>1, <1>6 DEF LoopInv, BufferInv, ConsumedInOrder, WaitToProduce
  <2> QED BY <2>1, <2>2, <2>3
<1>7. CASE Produce
  <2>1. SemaphoreInv'
    <3>1. /\ At(producer, {"signal"}) = 0 /\ At(producer, {"signal"})' = 1
          /\ At(producer, {"wait", "produce", "signal", "ended"}) = 1
          /\ At(producer, {"wait", "produce", "signal", "ended"})' = 1
          /\ At(producer, {"produce"}) = 1 /\ At(producer, {"produce"})' = 0
      BY <1>7 DEF At, Produce
    <3> QED BY <1>1, <1>3, <1>4, <1>7, <3>1 DEF SemaphoreInv, Produce
  <2>2. TypeOK'
    <3>1. count + 1 \in 0 .. Total
      BY <1>1, <1>7 DEF Produce, LoopInv
    <3>2. buffer' \in [Places -> Nat]
      <4>1. buffer \in [Places -> Nat] /\ count + 1 \in Nat
        BY <1>1 DEF TypeOK
      <4> QED BY ONLY <1>7, <4>1 DEF Produce
    <3> QED BY <1>0, <1>7, <3>1, <3>2 DEF TypeOK, Produce
  <2>4. LoopInv'
    BY <1>0, <1>1, <1>7 DEF LoopInv, Produce
  <2>3. BufferInv'
    <3>1. ASSUME NEW n \in consumed .. count
          PROVE  buffer'[n % buffer_capacity] = n + 1
      <4>1. CASE n = count
        BY <1>1, <1>7, <4>1 DEF Produce, TypeOK
      <4>2. CASE n # count
        <5>1. n \in Nat /\ n < count /\ count < n + buffer_capacity
          BY <1>1, <1>2, <1>7, <4>2 DEF Produce
        <5>2. n % buffer_capacity # count % buffer_capacity
          BY <1>1, <5>1, DifferentPlaces
        <5>3. buffer[n % buffer_capacity] = n + 1
          <6>1. n \in consumed .. count - 1
            BY <1>1, <5>1
          <6> QED BY <6>1 DEF BufferInv
        <5>4. /\ buffer \in [Places -> Nat]
              /\ n % buffer_capacity \in Places
          BY <5>1 DEF TypeOK
        <5> QED BY <1>7, <5>2, <5>3, <5>4 DEF Produce
      <4> QED BY <4>1, <4>2
    <3> QED BY <1>1, <1>3, <1>7, <3>1
            DEF BufferInv, ConsumedInOrder, Produce
  <2> QED BY <2>1, <2>2, <2>3, <2>4
<1>8. CASE SignalConsumer
  <2>1. SemaphoreInv'
    <3>1. /\ At(producer, {"signal"}) = 1 /\ At(producer, {"signal"})' = 0
          /\ At(producer, {"wait", "produce", "signal", "ended"}) = 1
          /\ At(producer, {"wait", "produce", "signal", "ended"})' = 1
          /\ At(producer, {"produce"}) = 0 /\ At(producer, {"produce"})' = 0
      BY <1>8 DEF At, SignalConsumer
    <3> QED BY <1>1, <1>3, <1>4, <1>8, <3>1 DEF SemaphoreInv, SignalConsumer
  <2>2. can_consume' <= buffer_capacity
    BY <1>1, <1>2, <1>3, <1>4, <1>8, <2>1 DEF SemaphoreInv, SignalConsumer, At
  <2>3. TypeOK'
    BY <1>0, <1>1, <1>8, <2>2 DEF TypeOK, SignalConsumer
  <2>4. LoopInv'
    BY <1>0, <1>1, <1>8, <2>3 DEF LoopInv, TypeOK, SignalConsumer
  <2>5. BufferInv'
    BY <1>1, <1>8 DEF BufferInv, ConsumedInOrder, SignalConsumer
  <2> QED BY <2>1, <2>3, <2>4, <2>5
<1> QED BY <1>5, <1>6, <1>7, <1>8 DEF ProducerStep

\* A step of the consumer: it reads the element whose turn it is.
LEMMA ConsumerPreserves == IInv /\ ConsumerStep => IInv'
<1> SUFFICES ASSUME IInv, ConsumerStep PROVE IInv'
  OBVIOUS
<1> USE ArgumentsAssumption, PlaceOfElement DEF IInv
<1>0. Total' = Total /\ Places' = Places
  BY DEF Total, Places
<1>1. /\ count \in Nat /\ consumed \in Nat /\ can_produce \in Nat
      /\ can_consume \in Nat /\ Total \in Nat
  BY DEF TypeOK
<1>2. /\ consumed <= count
      /\ consumer \in {"consume", "signal"} => consumed < count
      /\ count - consumed <= buffer_capacity
  BY Distance
<1>3. /\ At(producer, {"signal"}) \in {0, 1}
      /\ At(producer, {"wait", "produce", "signal", "ended"}) \in {0, 1}
      /\ At(producer, {"produce"}) \in {0, 1}
      /\ UNCHANGED <<main, producer, count, buffer>>
  BY AtRange DEF ConsumerStep, WaitToConsume, Consume, SignalProducer
<1>4. /\ At(producer, {"signal"})' = At(producer, {"signal"})
      /\ At(producer, {"wait", "produce", "signal", "ended"})'
           = At(producer, {"wait", "produce", "signal", "ended"})
      /\ At(producer, {"produce"})' = At(producer, {"produce"})
  BY <1>3 DEF At
<1>5. CASE WaitToConsume
  <2>1. SemaphoreInv'
    <3>1. /\ At(consumer, {"consume", "signal"}) = 0
          /\ At(consumer, {"consume", "signal"})' = 1
      BY <1>5 DEF At, WaitToConsume
    <3> QED BY <1>1, <1>3, <1>4, <1>5, <3>1 DEF SemaphoreInv, WaitToConsume
  <2>2. TypeOK'
    BY <1>0, <1>1, <1>5 DEF TypeOK, WaitToConsume
  <2>3. LoopInv' /\ BufferInv'
    BY <1>0, <1>1, <1>5 DEF LoopInv, BufferInv, ConsumedInOrder, WaitToConsume
  <2> QED BY <2>1, <2>2, <2>3
<1>6. CASE Consume
  <2>1. SemaphoreInv'
    <3>1. /\ At(consumer, {"consume", "signal"}) = 1
          /\ At(consumer, {"consume", "signal"})' = 1
      BY <1>6 DEF At, Consume
    <3> QED BY <1>1, <1>3, <1>4, <1>6, <3>1 DEF SemaphoreInv, Consume
  <2>2. value' = consumed + 1
    <3>1. consumed \in consumed .. count - 1
      BY <1>1, <1>2, <1>6 DEF Consume
    <3> QED BY <1>6, <3>1 DEF Consume, BufferInv
  <2>3. TypeOK'
    BY <1>0, <1>1, <1>6, <2>2 DEF TypeOK, Consume
  <2>4. LoopInv'
    BY <1>0, <1>1, <1>6 DEF LoopInv, Consume
  <2>5. BufferInv'
    BY <1>1, <1>6, <2>2 DEF BufferInv, ConsumedInOrder, Consume
  <2> QED BY <2>1, <2>3, <2>4, <2>5
<1>7. CASE SignalProducer
  <2>1. SemaphoreInv'
    <3>1. /\ At(consumer, {"consume", "signal"}) = 1
          /\ At(consumer, {"consume", "signal"})' = 0
      BY <1>7 DEF At, SignalProducer
    <3> QED BY <1>1, <1>3, <1>4, <1>7, <3>1 DEF SemaphoreInv, SignalProducer
  <2>2. can_produce' <= buffer_capacity
    BY <1>1, <1>2, <1>3, <1>4, <1>7, <2>1 DEF SemaphoreInv, SignalProducer
  <2>3. TypeOK'
    <3>1. consumed + 1 \in 0 .. Total
      BY <1>1, <1>7 DEF SignalProducer, LoopInv
    <3> QED BY <1>0, <1>1, <1>7, <2>2, <3>1 DEF TypeOK, SignalProducer
  <2>4. LoopInv'
    BY <1>0, <1>1, <1>7, <2>3 DEF LoopInv, TypeOK, SignalProducer
  <2>5. BufferInv'
    <3>1. ASSUME NEW n \in consumed + 1 .. count - 1
          PROVE  n \in consumed .. count - 1
      BY <1>1
    <3> QED BY <1>7, <3>1 DEF BufferInv, ConsumedInOrder, SignalProducer
  <2> QED BY <2>1, <2>3, <2>4, <2>5
<1> QED BY <1>5, <1>6, <1>7 DEF ConsumerStep

-----------------------------------------------------------------------------

\* Every step of the program keeps the inductive invariant (prod_cons_bound.c:
\* produce, consume and create_threads).
THEOREM Invariance == Spec => []IInv
<1>1. IInv /\ [Next]_vars => IInv'
  BY StutterPreserves, MainPreserves, ProducerPreserves, ConsumerPreserves
     DEF Next, Finished
<1> QED BY InitEstablishes, <1>1, PTL DEF Spec

\* Every variable keeps its type; no semaphore goes above the capacity.
THEOREM TypeCorrect == Spec => []TypeOK
<1>1. IInv => TypeOK
  BY DEF IInv
<1> QED BY Invariance, <1>1, PTL

\* The producer never writes a place that the consumer reads or still has to
\* read (prod_cons_bound.c:226).
THEOREM PlacesAreDifferent == Spec => []NeverSamePlace
<1>1. IInv => NeverSamePlace
  <2> SUFFICES ASSUME IInv, producer = "produce"
               PROVE  /\ count - consumed < buffer_capacity
                      /\ consumer = "consume" =>
                           count % buffer_capacity # consumed % buffer_capacity
    BY DEF NeverSamePlace
  <2>1. count \in Nat /\ consumed \in Nat
    BY PlaceOfElement DEF IInv, TypeOK
  <2>2. /\ count - consumed < buffer_capacity
        /\ consumer = "consume" => consumed < count
    BY Distance DEF IInv
  <2>3. ASSUME consumer = "consume"
        PROVE  count % buffer_capacity # consumed % buffer_capacity
    <3>1. consumed < count /\ count < consumed + buffer_capacity
      BY <2>1, <2>2, <2>3, ArgumentsAssumption
    <3> QED BY <2>1, <3>1, DifferentPlaces, ArgumentsAssumption
  <2> QED BY <2>2, <2>3
<1> QED BY Invariance, <1>1, PTL

\* The consumer takes the elements in the order of production, each once
\* (prod_cons_bound.c:248).
THEOREM OrderIsKept == Spec => []ConsumedInOrder
<1>1. IInv => ConsumedInOrder
  BY DEF IInv, BufferInv
<1> QED BY Invariance, <1>1, PTL

-----------------------------------------------------------------------------
(* building_tasks *)

LEMMA TasksBehave ==
  [ExercisesNext]_allVars => [Builds!Next]_(Builds!taskVars)
BY DEF ExercisesNext, OthersUnchanged, Unless, allVars, taskVars, Builds!taskVars

LEMMA TaskNames ==
  /\ Len(Builds!Tasks) = 10 /\ DOMAIN Builds!Tasks = 1 .. 10
  /\ \A n \in 1 .. 10 : Builds!Tasks[n] \in Builds!Task
  /\ \A m, n \in 1 .. 10 : Builds!Tasks[m] = Builds!Tasks[n] => m = n
<1>1. Len(Builds!Tasks) = 10 /\ DOMAIN Builds!Tasks = 1 .. 10
  BY DEF Builds!Tasks
<1>2. \A m, n \in 1 .. 10 : Builds!Tasks[m] = Builds!Tasks[n] => m = n
  BY DEF Builds!Tasks
<1> QED BY <1>1, <1>2 DEF Builds!Task

LEMMA TaskWaits ==
  ASSUME NEW task \in Builds!Task
  PROVE  /\ Len(Builds!Waits[task]) \in Nat
         /\ \A n \in 1 .. Len(Builds!Waits[task]) : Builds!Waits[task][n] \in Builds!Task
         /\ \A dependency \in Builds!Dependencies(task) :
              dependency \in Builds!Task
              /\ \E n \in 1 .. Len(Builds!Waits[task]) : Builds!Waits[task][n] = dependency
<1>1. Builds!Task = {"walls", "exterior_plumbing", "roof", "exterior_painting",
         "interior_plumbing", "electrical_installation", "exterior_finishes",
         "interior_painting", "floors", "interior_finishes"}
  BY DEF Builds!Task, Builds!Tasks
<1>2. CASE task = "walls"
  <2>1. Builds!Waits[task] = <<>> /\ Builds!Dependencies(task) = {}
    BY <1>2 DEF Builds!Waits, Builds!Dependencies
  <2> QED BY <1>1, <2>1
<1>3. CASE task = "interior_painting"
  <2>1. /\ Builds!Waits[task] = <<"interior_plumbing", "electrical_installation">>
        /\ Builds!Dependencies(task) = {"interior_plumbing", "electrical_installation"}
    BY <1>3 DEF Builds!Waits, Builds!Dependencies
  <2> QED BY <1>1, <2>1
<1>4. CASE task \notin {"walls", "interior_painting"}
  <2>1. \E dependency \in Builds!Task : /\ Builds!Waits[task] = <<dependency>>
                               /\ Builds!Dependencies(task) = {dependency}
    BY <1>1, <1>4 DEF Builds!Waits, Builds!Dependencies
  <2> QED BY <1>1, <2>1
<1> QED BY <1>2, <1>3, <1>4

LEMMA TasksInit == Builds!Init => Builds!IInv
<1> SUFFICES ASSUME Builds!Init PROVE Builds!IInv
  OBVIOUS
<1>1. Builds!TypeOK
  BY TaskNames DEF Builds!Init, Builds!TypeOK
<1>2. Builds!SemaphoreInv
  <2> SUFFICES ASSUME NEW task \in Builds!Task
               PROVE  /\ ready[task] = 0 /\ posted[task] = 0 /\ waited[task] = 0
                      /\ stage[task] = "unborn" /\ Len(Builds!Waits[task]) \in Nat
    BY DEF Builds!SemaphoreInv
  <2> QED BY TaskWaits DEF Builds!Init
<1>3. Builds!AddedInv
  BY TaskNames DEF Builds!Init, Builds!AddedInv
<1> QED BY <1>1, <1>2, <1>3 DEF Builds!IInv

LEMMA BuilderStep ==
  ASSUME Builds!IInv, NEW task \in Builds!Task, Builds!Builder(task)
  PROVE  Builds!IInv'
<1>1. /\ Builds!TypeOK /\ Builds!SemaphoreInv /\ Builds!AddedInv /\ added' = added
      /\ stage[task] \in {"waiting", "working", "posting"}
  BY DEF Builds!IInv, Builds!Builder, Builds!Wait, Builds!Start, Builds!Finish,
         Builds!Post, Builds!Return
<1>2. /\ stage' \in [Builds!Task -> {"unborn", "waiting", "working", "posting", "done"}]
      /\ stage'[task] # "unborn"
      /\ stage[task] = "posting" => stage'[task] \in {"posting", "done"}
      /\ \A t \in Builds!Task \ {task} : stage'[t] = stage[t]
  BY <1>1 DEF Builds!TypeOK, Builds!Builder, Builds!Wait, Builds!Start, Builds!Finish,
              Builds!Post, Builds!Return
<1>3. /\ posted' \in [Builds!Task -> Nat]
      /\ \A t \in Builds!Task \ {task} : posted'[t] = posted[t]
      /\ posted'[task] >= posted[task]
      /\ posted'[task] # posted[task] => stage[task] = "posting"
  BY <1>1 DEF Builds!TypeOK, Builds!Builder, Builds!Wait, Builds!Start, Builds!Finish,
              Builds!Post, Builds!Return
<1>4. /\ ready' \in [Builds!Task -> Nat]
      /\ \A t \in Builds!Task : ready'[t] > ready[t] => posted'[t] > 0
  <2>1. CASE Builds!Wait(task)
    <3>1. waited[task] \in Nat
      BY <1>1 DEF Builds!TypeOK
    <3>2. waited[task] + 1 \in 1 .. Len(Builds!Waits[task])
      BY <2>1, <3>1, TaskWaits DEF Builds!Wait
    <3>3. PICK dependency \in Builds!Task : dependency = Builds!Waits[task][waited[task] + 1]
      BY <3>2, TaskWaits
    <3>4. ready[dependency] > 0 /\ ready' = [ready EXCEPT ![dependency] = @ - 1]
      BY <2>1, <3>3 DEF Builds!Wait
    <3> QED BY <1>1, <3>4 DEF Builds!TypeOK
  <2>2. CASE Builds!Post(task)
    BY <1>1, <2>2 DEF Builds!TypeOK, Builds!Post
  <2>3. CASE UNCHANGED ready
    BY <1>1, <2>3 DEF Builds!TypeOK
  <2> QED BY <2>1, <2>2, <2>3 DEF Builds!Builder, Builds!Start, Builds!Finish, Builds!Return
<1>5. /\ waited' \in [Builds!Task -> Nat]
      /\ \A t \in Builds!Task \ {task} : waited'[t] = waited[t]
      /\ waited'[task] <= Len(Builds!Waits[task])
      /\ \A n \in 1 .. waited'[task] : posted[Builds!Waits[task][n]] > 0
      /\ stage'[task] \in {"working", "posting", "done"} =>
           waited'[task] = Len(Builds!Waits[task])
  <2>0. /\ waited[task] \in Nat /\ Len(Builds!Waits[task]) \in Nat
        /\ waited[task] <= Len(Builds!Waits[task])
        /\ \A n \in 1 .. waited[task] : posted[Builds!Waits[task][n]] > 0
        /\ stage[task] \in {"working", "posting", "done"} =>
             waited[task] = Len(Builds!Waits[task])
    BY <1>1, TaskWaits DEF Builds!TypeOK, Builds!SemaphoreInv
  <2>1. CASE Builds!Wait(task)
    <3>1. PICK n \in Nat : n = waited[task] + 1
      BY <2>0
    <3>2. /\ waited' = [waited EXCEPT ![task] = n] /\ n <= Len(Builds!Waits[task])
          /\ stage'[task] = "waiting" /\ ready[Builds!Waits[task][n]] > 0
      BY <2>0, <2>1, <3>1 DEF Builds!Wait
    <3>3. posted[Builds!Waits[task][n]] > 0
      BY <1>1, <2>0, <3>1, <3>2, TaskWaits DEF Builds!SemaphoreInv
    <3>4. waited'[task] = n /\ \A t \in Builds!Task \ {task} : waited'[t] = waited[t]
      BY <1>1, <3>2 DEF Builds!TypeOK
    <3>5. waited' \in [Builds!Task -> Nat]
      BY <1>1, <3>1, <3>2 DEF Builds!TypeOK
    <3> QED BY <2>0, <3>1, <3>2, <3>3, <3>4, <3>5
  <2>2. CASE waited' = waited /\ ~ Builds!Wait(task)
    <3>1. stage'[task] \in {"working", "posting", "done"} =>
            waited[task] = Len(Builds!Waits[task])
      BY <1>1, <2>0, <2>2 DEF Builds!TypeOK, Builds!Builder, Builds!Start, Builds!Finish,
              Builds!Post, Builds!Return
    <3> QED BY <1>1, <2>0, <2>2, <3>1 DEF Builds!TypeOK
  <2> QED BY <2>1, <2>2 DEF Builds!Builder, Builds!Start, Builds!Finish, Builds!Post, Builds!Return
<1>6. Builds!SemaphoreInv'
  <2> SUFFICES ASSUME NEW t \in Builds!Task
               PROVE  /\ ready'[t] > 0 => posted'[t] > 0
                      /\ posted'[t] > 0 => stage'[t] \in {"posting", "done"}
                      /\ waited'[t] <= Len(Builds!Waits[t])
                      /\ \A n \in 1 .. waited'[t] : posted'[Builds!Waits[t][n]] > 0
                      /\ stage'[t] \in {"working", "posting", "done"} =>
                           waited'[t] = Len(Builds!Waits[t])
    BY DEF Builds!SemaphoreInv
  <2>1. /\ ready[t] > 0 => posted[t] > 0
        /\ posted[t] > 0 => stage[t] \in {"posting", "done"}
        /\ waited[t] <= Len(Builds!Waits[t])
        /\ \A n \in 1 .. waited[t] : posted[Builds!Waits[t][n]] > 0
        /\ stage[t] \in {"working", "posting", "done"} =>
             waited[t] = Len(Builds!Waits[t])
    BY <1>1 DEF Builds!SemaphoreInv
  <2>2. \A s \in Builds!Task : posted[s] \in Nat /\ posted'[s] \in Nat /\ posted'[s] >= posted[s]
    <3> TAKE s \in Builds!Task
    <3>1. posted[s] \in Nat /\ posted'[s] \in Nat
      BY <1>1, <1>3 DEF Builds!TypeOK
    <3> QED BY <1>3, <3>1
  <2>3. ready'[t] > 0 => posted'[t] > 0
    BY <1>1, <1>4, <2>1, <2>2 DEF Builds!TypeOK
  <2>4. posted'[t] > 0 => stage'[t] \in {"posting", "done"}
    BY <1>1, <1>2, <1>3, <2>1
  <2>5. \A n \in 1 .. waited'[t] : posted'[Builds!Waits[t][n]] > 0
    <3>1. \A n \in 1 .. waited'[t] : n \in 1 .. Len(Builds!Waits[t]) /\ posted[Builds!Waits[t][n]] > 0
      BY <1>5, <2>1, TaskWaits
    <3> QED BY <2>2, <3>1, TaskWaits
  <2> QED BY <1>2, <1>5, <2>1, <2>3, <2>4, <2>5
<1>7. Builds!AddedInv'
  <2>1. \A n \in 1 .. 10 : n > added => Builds!Tasks[n] \in Builds!Task \ {task}
    BY <1>1, TaskNames DEF Builds!AddedInv
  <2> QED BY <1>1, <1>2, <2>1, TaskNames DEF Builds!AddedInv
<1> QED BY <1>1, <1>2, <1>3, <1>4, <1>5, <1>6, <1>7 DEF Builds!IInv, Builds!TypeOK

LEMMA ForemanStep ==
  ASSUME Builds!IInv, Builds!Foreman
  PROVE  Builds!IInv'
<1>1. /\ Builds!TypeOK /\ Builds!SemaphoreInv /\ Builds!AddedInv
      /\ UNCHANGED <<waited, posted, ready>>
  BY DEF Builds!IInv, Builds!Foreman, Builds!AddThread, Builds!JoinThread
<1>2. CASE Builds!JoinThread
  BY <1>1, <1>2 DEF Builds!JoinThread, Builds!IInv, Builds!TypeOK, Builds!SemaphoreInv,
                    Builds!AddedInv
<1>3. CASE Builds!AddThread
  <2>1. PICK n \in 1 .. 10 : n = added + 1
    BY <1>1, <1>3, TaskNames DEF Builds!AddThread, Builds!TypeOK
  <2>2. PICK task \in Builds!Task : task = Builds!Tasks[n]
    BY TaskNames
  <2>3. /\ added' = n /\ stage' = [stage EXCEPT ![task] = "waiting"] /\ stage[task] = "unborn"
    BY <1>1, <1>3, <2>1, <2>2, TaskNames DEF Builds!AddThread, Builds!AddedInv, Builds!TypeOK
  <2>4. Builds!TypeOK'
    BY <1>1, <2>1, <2>3, TaskNames DEF Builds!TypeOK
  <2>5. Builds!SemaphoreInv'
    BY <1>1, <2>3 DEF Builds!TypeOK, Builds!SemaphoreInv
  <2>6. Builds!AddedInv'
    BY <1>1, <2>1, <2>2, <2>3, TaskNames DEF Builds!TypeOK, Builds!AddedInv
  <2> QED BY <2>4, <2>5, <2>6 DEF Builds!IInv
<1> QED BY <1>2, <1>3 DEF Builds!Foreman

LEMMA TasksStep == Builds!IInv /\ [Builds!Next]_(Builds!taskVars) => Builds!IInv'
<1>1. ASSUME Builds!IInv, UNCHANGED Builds!taskVars PROVE Builds!IInv'
  BY <1>1 DEF Builds!taskVars, Builds!IInv, Builds!TypeOK, Builds!SemaphoreInv, Builds!AddedInv
<1> QED BY <1>1, BuilderStep, ForemanStep DEF Builds!Next

\* No task of building_tasks starts before the tasks it depends on are finished: a
\* dependency posts the semaphore of its dependents once, at its end (perform_task).
THEOREM BuildersWait == ExercisesSpec => []TasksInOrder
<1>1. ExercisesInit => Builds!IInv
  BY TasksInit DEF ExercisesInit
<1>2. Builds!IInv => TasksInOrder
  <2> SUFFICES ASSUME Builds!IInv, NEW task \in Builds!Task,
                      stage[task] \in {"working", "posting", "done"},
                      NEW dependency \in Builds!Dependencies(task)
               PROVE  stage[dependency] \in {"posting", "done"}
    BY DEF TasksInOrder, Builds!TasksInOrder
  <2>1. dependency \in Builds!Task /\ posted[dependency] > 0
    BY TaskWaits DEF Builds!IInv, Builds!SemaphoreInv
  <2> QED BY <2>1 DEF Builds!IInv, Builds!SemaphoreInv
<1> QED BY <1>1, <1>2, TasksBehave, TasksStep, PTL DEF ExercisesSpec

-----------------------------------------------------------------------------
(* The programs with an ordered team.  At any time one thread has the turn *)
(* (TurnOf), or holds the mutex.                                           *)

LEMMA OrderBehaves == [ExercisesNext]_allVars => [Order!Next]_(Order!teamVars)
BY DEF ExercisesNext, OthersUnchanged, Unless, allVars, teamVars, Order!teamVars,
       Order!mainTeam, Order!turns, Order!party

\* The hits of the first n threads, as OneThreadBreaksIt adds them.
SumDef(f, hs) == f = [n \in 0 .. thread_count |-> IF n = 0 THEN 0 ELSE f[n - 1] + hs[n - 1]]
HitSum(hs) == CHOOSE f : SumDef(f, hs)

LEMMA SumEquations ==
  ASSUME NEW h, NEW hs, SumDef(h, hs), thread_count \in Nat
  PROVE  h[0] = 0 /\ \A n \in 1 .. thread_count : h[n] = h[n - 1] + hs[n - 1]
<1> DEFINE F(n) == IF n = 0 THEN 0 ELSE h[n - 1] + hs[n - 1]
<1>1. h = [n \in 0 .. thread_count |-> F(n)]
  BY DEF SumDef
<1> HIDE DEF F
<1>2. \A n \in 0 .. thread_count : h[n] = F(n)
  BY <1>1
<1>3. 0 \in 0 .. thread_count /\ \A n \in 1 .. thread_count : n \in 0 .. thread_count
  OBVIOUS
<1>4. h[0] = F(0) /\ \A n \in 1 .. thread_count : h[n] = F(n)
  BY <1>2, <1>3
<1> QED BY <1>4 DEF F

\* There is such a function on the first n threads: the least n without one is not 0,
\* and the function of n - 1 extends to it.
LEMMA SumsExist ==
  ASSUME NEW hs, thread_count \in Nat, \A t \in 0 .. thread_count - 1 : hs[t] \in Nat
  PROVE  /\ SumDef(HitSum(hs), hs)
         /\ HitSum(hs) \in [0 .. thread_count -> Nat]
<1> DEFINE Sums(f, n) == f \in [0 .. n -> Nat] /\ f[0] = 0
                         /\ \A i \in 1 .. n : f[i] = f[i - 1] + hs[i - 1]
           Without == {n \in 0 .. thread_count : \A f : ~Sums(f, n)}
<1> HIDE DEF Sums
<1>1. Without = {}
  <2> SUFFICES ASSUME Without # {} PROVE FALSE
    OBVIOUS
  <2>1. Without \in SUBSET Nat
    OBVIOUS
  <2>2. PICK n \in Without : \A m \in Without : n <= m
    BY <2>1, LeastNatural
  <2>3. n \in 0 .. thread_count /\ \A f : ~Sums(f, n)
    BY <2>2
  <2>4. CASE n = 0
    <3>1. Sums([i \in 0 .. 0 |-> 0], 0)
      BY DEF Sums
    <3> QED BY <2>3, <2>4, <3>1
  <2>5. CASE n # 0
    <3>1. n - 1 \in 0 .. thread_count /\ n - 1 \notin Without
      BY <2>2, <2>3, <2>5
    <3>2. PICK f : Sums(f, n - 1)
      BY <3>1
    <3>3. hs[n - 1] \in Nat /\ f[n - 1] \in Nat /\ n \in Nat /\ n >= 1
      BY <2>3, <2>5, <3>2 DEF Sums
    <3> DEFINE g == [i \in 0 .. n |-> IF i = n THEN f[n - 1] + hs[n - 1] ELSE f[i]]
    <3>4. g \in [0 .. n -> Nat] /\ g[0] = 0
      BY <3>2, <3>3 DEF Sums
    <3>5. ASSUME NEW i \in 1 .. n PROVE g[i] = g[i - 1] + hs[i - 1]
      BY <3>2, <3>3 DEF Sums
    <3> HIDE DEF g
    <3>6. Sums(g, n)
      BY <3>4, <3>5 DEF Sums
    <3> QED BY <2>3, <3>6
  <2> QED BY <2>4, <2>5
<1>2. PICK f : Sums(f, thread_count)
  BY <1>1
<1>3. SumDef(f, hs)
  <2>1. f = [n \in 0 .. thread_count |-> f[n]]
    BY <1>2 DEF Sums
  <2>2. \A n \in 0 .. thread_count : f[n] = IF n = 0 THEN 0 ELSE f[n - 1] + hs[n - 1]
    BY <1>2 DEF Sums
  <2>3. [n \in 0 .. thread_count |-> f[n]] =
          [n \in 0 .. thread_count |-> IF n = 0 THEN 0 ELSE f[n - 1] + hs[n - 1]]
    BY <2>2
  <2> QED BY <2>1, <2>3 DEF SumDef
<1>4. SumDef(HitSum(hs), hs)
  BY <1>3 DEF HitSum
<1>5. ASSUME NEW h, SumDef(h, hs) PROVE h \in [0 .. thread_count -> Nat]
  <2>1. h = [n \in 0 .. thread_count |-> IF n = 0 THEN 0 ELSE h[n - 1] + hs[n - 1]]
    BY <1>5 DEF SumDef
  <2>2. h = [n \in 0 .. thread_count |-> h[n]]
    BY <2>1
  <2>3. h[0] = 0 /\ \A n \in 1 .. thread_count : h[n] = h[n - 1] + hs[n - 1]
    BY <1>5, SumEquations
  <2> DEFINE Wrong == {n \in 0 .. thread_count : h[n] \notin Nat}
  <2>4. Wrong = {}
    <3> SUFFICES ASSUME Wrong # {} PROVE FALSE
      OBVIOUS
    <3>1. Wrong \in SUBSET Nat
      OBVIOUS
    <3>2. PICK n \in Wrong : \A m \in Wrong : n <= m
      BY <3>1, LeastNatural
    <3>3. n \in 1 .. thread_count /\ n - 1 \in 0 .. thread_count /\ n - 1 \notin Wrong
      BY <2>3, <3>2
    <3> QED BY <2>3, <3>2, <3>3
  <2> QED BY <2>2, <2>4
<1> QED BY <1>4, <1>5

\* One hit more of a thread is one more in all.
LEMMA HitAdds ==
  ASSUME NEW old, NEW new, NEW t \in 0 .. thread_count - 1, thread_count \in Nat,
         \A u \in 0 .. thread_count - 1 :
           /\ old[u] \in Nat
           /\ new[u] = IF u = t THEN old[u] + 1 ELSE old[u]
  PROVE  /\ HitSum(new)[thread_count] = HitSum(old)[thread_count] + 1
         /\ HitSum(old)[thread_count] \in Nat
<1> DEFINE h == HitSum(old)
           g == HitSum(new)
<1>1. \A u \in 0 .. thread_count - 1 : new[u] \in Nat
  OBVIOUS
<1>2. SumDef(h, old) /\ h \in [0 .. thread_count -> Nat]
  BY SumsExist
<1>3. SumDef(g, new) /\ g \in [0 .. thread_count -> Nat]
  BY <1>1, SumsExist
<1> HIDE DEF h, g
<1>4. /\ h[0] = 0 /\ \A n \in 1 .. thread_count : h[n] = h[n - 1] + old[n - 1]
      /\ g[0] = 0 /\ \A n \in 1 .. thread_count : g[n] = g[n - 1] + new[n - 1]
  BY <1>2, <1>3, SumEquations
<1> DEFINE Wrong == {n \in 0 .. thread_count : g[n] # h[n] + (IF n > t THEN 1 ELSE 0)}
<1>5. Wrong = {}
  <2> SUFFICES ASSUME Wrong # {} PROVE FALSE
    OBVIOUS
  <2>1. Wrong \in SUBSET Nat
    OBVIOUS
  <2>2. PICK n \in Wrong : \A m \in Wrong : n <= m
    BY <2>1, LeastNatural
  <2>3. n \in 1 .. thread_count /\ n - 1 \in 0 .. thread_count /\ n - 1 \notin Wrong
    BY <1>4, <2>2
  <2>4. /\ h[n] = h[n - 1] + old[n - 1] /\ g[n] = g[n - 1] + new[n - 1]
        /\ n - 1 \in 0 .. thread_count - 1 /\ old[n - 1] \in Nat /\ h[n - 1] \in Nat
        /\ g[n - 1] = h[n - 1] + (IF n - 1 > t THEN 1 ELSE 0)
        /\ new[n - 1] = IF n - 1 = t THEN old[n - 1] + 1 ELSE old[n - 1]
    BY <1>2, <1>4, <2>3
  <2> QED BY <2>2, <2>3, <2>4
<1>6. g[thread_count] = h[thread_count] + 1 /\ h[thread_count] \in Nat
  BY <1>2, <1>5
<1> QED BY <1>6 DEF h, g

\* Nobody has hit the pinata yet.
LEMMA NoHits ==
  ASSUME NEW hs, thread_count \in Nat, \A t \in 0 .. thread_count - 1 : hs[t] = 0
  PROVE  HitSum(hs)[thread_count] = 0
<1> DEFINE h == HitSum(hs)
<1>0. \A t \in 0 .. thread_count - 1 : hs[t] \in Nat
  OBVIOUS
<1>1. SumDef(h, hs) /\ h \in [0 .. thread_count -> Nat]
  BY <1>0, SumsExist
<1> HIDE DEF h
<1>2. h[0] = 0 /\ \A n \in 1 .. thread_count : h[n] = h[n - 1] + hs[n - 1]
  BY <1>1, SumEquations
<1> DEFINE Wrong == {n \in 0 .. thread_count : h[n] # 0}
<1>3. Wrong = {}
  <2> SUFFICES ASSUME Wrong # {} PROVE FALSE
    OBVIOUS
  <2>1. Wrong \in SUBSET Nat
    OBVIOUS
  <2>2. PICK n \in Wrong : \A m \in Wrong : n <= m
    BY <2>1, LeastNatural
  <2>3. n \in 1 .. thread_count /\ n - 1 \in 0 .. thread_count /\ n - 1 \notin Wrong
    BY <1>2, <2>2
  <2> QED BY <1>2, <2>2, <2>3
<1>4. h[thread_count] = 0
  BY <1>3
<1> QED BY <1>4 DEF h

LEMMA PinataBreaks ==
  Order!OneThreadBreaksIt <=>
    (version = "birthday_pinata" =>
       /\ pinata >= 0 /\ pinata + HitSum(hits)[thread_count] = hit_resistance
       /\ Order!Cardinality({t \in Order!Team : broke_pinata[t]}) <= 1
       /\ {t \in Order!Team : broke_pinata[t]} = {} <=> pinata > 0 \/ hit_resistance = 0
       /\ team_main = "returned" /\ thread_count > 0 => pinata = 0)
BY DEF Order!OneThreadBreaksIt, HitSum, SumDef

LEMMA PinataBreaksNext ==
  (Order!OneThreadBreaksIt <=>
    (version = "birthday_pinata" =>
       /\ pinata >= 0 /\ pinata + HitSum(hits)[thread_count] = hit_resistance
       /\ Order!Cardinality({t \in Order!Team : broke_pinata[t]}) <= 1
       /\ {t \in Order!Team : broke_pinata[t]} = {} <=> pinata > 0 \/ hit_resistance = 0
       /\ team_main = "returned" /\ thread_count > 0 => pinata = 0))'
BY PinataBreaks, PTL

LEMMA OrderCounts == \A S : Order!Cardinality(S) = Cardinality(S)
BY DEF Order!Cardinality, Cardinality

\* The thread whose turn is next.
LEMMA NextOfTeam ==
  ASSUME NEW n \in Nat, NEW t \in 0 .. n - 1
  PROVE  (t + 1) % n = IF t = n - 1 THEN 0 ELSE t + 1
OBVIOUS

\* What the proofs ask of the constants.
LEMMA OrderConstants ==
  /\ thread_count \in Nat /\ hit_resistance \in Nat
  /\ TurnCreateMayFail \subseteq Order!Team
  /\ TeamVersions \subseteq
       {"hello_order_busywait", "delayed_busy_wait", "hello_order_semaphor",
        "hello_order_cond_safe", "position_race", "birthday_pinata"}
BY ExercisesAssumption DEF Order!TeamAssumption, Order!Team

\* The programs with a team start in the invariant.
LEMMA OrderStarts == Order!Init => Order!IInv
<1> SUFFICES ASSUME Order!Init PROVE Order!IInv
  OBVIOUS
<1>1. /\ version \in TeamVersions /\ team_main = "create" /\ created = 0 /\ joined = 0
      /\ place = [t \in Order!Team |-> "unborn"] /\ next_thread = 0
      /\ can_greet = [t \in Order!Team |-> IF t = 0 THEN 1 ELSE 0]
      /\ mutex = {} /\ position = 0 /\ pinata = hit_resistance
      /\ hits = [t \in Order!Team |-> 0] /\ broke_pinata = [t \in Order!Team |-> FALSE]
      /\ announced = <<>>
  BY DEF Order!Init
<1>2. thread_count \in Nat /\ hit_resistance \in Nat
  BY OrderConstants
<1>3. \A t \in Order!Team : t \in 0 .. thread_count - 1 /\ place[t] = "unborn"
  BY <1>1 DEF Order!Team
<1>4. Order!TypeOK
  BY <1>1, <1>2 DEF Order!TypeOK
<1>5. Order!CreatedInv /\ Order!PlaceInv /\ Order!MutexInv
  BY <1>1, <1>2, <1>3 DEF Order!CreatedInv, Order!PlaceInv, Order!MutexInv
<1>6. Order!TurnInv
  <2>1. Order!TurnOf(0)
    BY <1>1, <1>2, <1>3 DEF Order!TurnOf, Order!Team
  <2> QED BY <1>2, <2>1 DEF Order!TurnInv
<1>7. Order!RaceInv
  <2>1. {t \in Order!Team : place[t] = "done"} = {}
    BY <1>3
  <2>2. Cardinality({t \in Order!Team : place[t] = "done"}) = 0
    BY <2>1, FS_EmptySet
  <2> QED BY <1>1, <1>3, <2>2, OrderCounts DEF Order!RaceInv
<1>8. Order!PinataInv
  BY <1>1, <1>3 DEF Order!PinataInv
<1>9. Order!OneThreadBreaksIt
  <2>1. HitSum(hits)[thread_count] = 0
    BY <1>1, <1>2, NoHits DEF Order!Team
  <2>2. {t \in Order!Team : broke_pinata[t]} = {}
    BY <1>1
  <2>3. Order!Cardinality({t \in Order!Team : broke_pinata[t]}) = 0
    BY <2>2, FS_EmptySet, OrderCounts
  <2> QED BY <1>1, <1>2, <2>1, <2>2, <2>3, PinataBreaks
<1> QED BY <1>4, <1>5, <1>6, <1>7, <1>8, <1>9 DEF Order!IInv

\* Steps of the main thread that create no thread and print nothing.
LEMMA OrderMainStep ==
  ASSUME Order!IInv,
         UNCHANGED <<version, created, place, next_thread, can_greet, mutex, position,
                     pinata, hits, broke_pinata, announced>>,
         \/ UNCHANGED <<team_main, joined>>
         \/ team_main # "returned" /\ team_main' \in {"create", "join", "no memory", "undefined"},
         joined' \in 0 .. thread_count, \A t \in Order!Team : t < joined' => place[t] = "done"
  PROVE  Order!IInv'
<1>1. /\ Order!TypeOK /\ Order!CreatedInv /\ Order!PlaceInv /\ Order!MutexInv /\ Order!TurnInv
      /\ Order!RaceInv /\ Order!PinataInv /\ Order!OneThreadBreaksIt
  BY DEF Order!IInv
<1>2. /\ team_main' = "returned" => team_main = "returned" /\ joined' = joined
      /\ team_main' \in {"create", "join", "returned", "no memory", "undefined"}
  BY <1>1 DEF Order!TypeOK
<1>3. Order!TypeOK'
  BY <1>1, <1>2 DEF Order!TypeOK
<1>4. Order!CreatedInv'
  BY <1>1, <1>2 DEF Order!CreatedInv
<1>5. Order!PlaceInv'
  <2>1. team_main' = "returned" <=> team_main = "returned"
    BY <1>2
  <2> QED BY <1>1, <2>1 DEF Order!PlaceInv, Order!Ordered, Order!BusyWaiting
<1>6. Order!MutexInv' /\ Order!RaceInv' /\ Order!PinataInv'
  BY <1>1 DEF Order!MutexInv, Order!RaceInv, Order!PinataInv
<1>7. Order!TurnInv'
  BY <1>1 DEF Order!TurnInv, Order!TurnOf, Order!Ordered, Order!BusyWaiting
<1>8. Order!OneThreadBreaksIt'
  BY <1>1, <1>2, PinataBreaks, PinataBreaksNext
<1> QED BY <1>3, <1>4, <1>5, <1>6, <1>7, <1>8 DEF Order!IInv

\* A thread that moves was created and has not been joined.
LEMMA OrderMoves ==
  ASSUME Order!TypeOK, Order!CreatedInv, NEW t \in Order!Team, place[t] \notin {"unborn", "done"},
         NEW there \in {"start", "greet", "next", "advance", "announce", "look", "hit", "done"},
         Order!GoTo(t, there), UNCHANGED <<team_main, created, joined>>
  PROVE  /\ team_main # "returned" /\ Order!CreatedInv'
         /\ place' \in [Order!Team -> {"unborn", "start", "greet", "next", "advance", "announce",
                                       "look", "hit", "done"}]
         /\ place'[t] = there /\ \A u \in Order!Team : u # t => place'[u] = place[u]
<1>1. thread_count \in Nat /\ t \in 0 .. thread_count - 1
  BY OrderConstants DEF Order!Team
<1>2. /\ place' \in [Order!Team -> {"unborn", "start", "greet", "next", "advance", "announce",
                                    "look", "hit", "done"}]
      /\ place'[t] = there /\ \A u \in Order!Team : u # t => place'[u] = place[u]
  BY DEF Order!TypeOK, Order!GoTo
<1>3. t < created /\ ~(t < joined)
  <2>1. created \in 0 .. thread_count
    BY DEF Order!TypeOK
  <2>2. (t >= created <=> place[t] = "unborn") /\ (t < joined => place[t] = "done")
    BY DEF Order!CreatedInv
  <2> QED BY <1>1, <2>1, <2>2
<1>4. team_main # "returned"
  BY <1>1, <1>3 DEF Order!CreatedInv
<1>5. Order!CreatedInv'
  <2>1. ASSUME NEW u \in Order!Team
        PROVE  (u >= created <=> place'[u] = "unborn") /\ (u < joined => place'[u] = "done")
    BY <1>2, <1>3 DEF Order!CreatedInv
  <2> QED BY <1>4, <2>1 DEF Order!CreatedInv
<1> QED BY <1>2, <1>4, <1>5

\* A thread of the programs that greet in turn waits for its turn, greets and gives the
\* turn to the next one.
LEMMA OrderTurns ==
  ASSUME Order!IInv, NEW t \in Order!Team,
         Order!BusyWait(t) \/ Order!SemaphoreWait(t) \/ Order!Greet(t) \/ Order!NextThread(t)
  PROVE  Order!IInv'
<1>1. /\ Order!TypeOK /\ Order!CreatedInv /\ Order!PlaceInv /\ Order!MutexInv /\ Order!TurnInv
      /\ Order!RaceInv /\ Order!PinataInv /\ Order!OneThreadBreaksIt
  BY DEF Order!IInv
<1>2. /\ Order!Ordered /\ version \notin {"hello_order_cond_safe", "position_race", "birthday_pinata"}
      /\ UNCHANGED <<version, team_main, created, joined, mutex, position, pinata, hits,
                     broke_pinata>>
      /\ place[t] \in {"start", "greet", "next"}
  BY <1>1 DEF Order!BusyWait, Order!SemaphoreWait, Order!Greet, Order!NextThread, Order!Ordered,
         Order!BusyWaiting, Order!PlaceInv, Order!mainTeam, Order!turns, Order!party
<1>3. PICK there \in {"greet", "next", "done"} : Order!GoTo(t, there)
  BY DEF Order!BusyWait, Order!SemaphoreWait, Order!Greet, Order!NextThread
<1>4. /\ team_main # "returned" /\ Order!CreatedInv'
      /\ place' \in [Order!Team -> {"unborn", "start", "greet", "next", "advance", "announce",
                                    "look", "hit", "done"}]
      /\ place'[t] = there /\ \A u \in Order!Team : u # t => place'[u] = place[u]
  BY <1>1, <1>2, <1>3, OrderMoves
<1>5. thread_count \in Nat /\ t \in 0 .. thread_count - 1 /\ t \in Nat
  BY OrderConstants DEF Order!Team
<1>6. PICK k \in 0 .. thread_count : Order!TurnOf(k)
  BY <1>1, <1>2 DEF Order!TurnInv
<1>7. /\ next_thread \in Nat /\ can_greet \in [Order!Team -> Nat] /\ announced \in Seq(Nat)
  BY <1>1 DEF Order!TypeOK
<1>8. k \in Nat /\ \A u \in Order!Team : u \in 0 .. thread_count - 1
  BY <1>5 DEF Order!Team
<1>9. t = k
  <2>1. ~(t < k)
    BY <1>2, <1>6 DEF Order!TurnOf
  <2>2. ASSUME t > k PROVE FALSE
    <3>1. place[t] = "start"
      BY <1>2, <1>6, <1>8, <2>2 DEF Order!TurnOf
    <3>2. \/ Order!BusyWaiting /\ next_thread >= t
          \/ ~Order!BusyWaiting /\ can_greet[t] > 0
      BY <1>2, <3>1 DEF Order!BusyWait, Order!SemaphoreWait, Order!Greet, Order!NextThread,
             Order!BusyWaiting
    <3>3. IF Order!BusyWaiting THEN next_thread = k ELSE can_greet[t] = 0
      BY <1>5, <1>6, <1>8, <2>2 DEF Order!TurnOf
    <3> QED BY <1>5, <1>8, <2>2, <3>2, <3>3
  <2> QED BY <1>5, <1>8, <2>1, <2>2
<1>10. /\ \A u \in Order!Team : (u < k => place[u] = "done") /\ (u > k => place[u] \in {"unborn", "start"})
       /\ \A n \in DOMAIN announced : announced[n] = n - 1
       /\ Len(announced) = IF place[t] = "next" THEN k + 1 ELSE k
       /\ DOMAIN announced = 1 .. Len(announced)
  BY <1>6, <1>7, <1>9 DEF Order!TurnOf
<1>11. Order!BusyWaiting' = Order!BusyWaiting /\ Order!Ordered'
  BY <1>2 DEF Order!BusyWaiting, Order!Ordered
<1>12. /\ next_thread' \in Nat /\ can_greet' \in [Order!Team -> Nat] /\ announced' \in Seq(Nat)
       /\ Order!TurnInv'
  <2>1. CASE Order!BusyWait(t)
    <3>1. /\ place[t] = "start" /\ there = "greet" /\ Order!BusyWaiting
          /\ UNCHANGED <<next_thread, can_greet, announced>>
      BY <1>3, <1>4, <1>7, <2>1 DEF Order!BusyWait, Order!turns, Order!GoTo, Order!TypeOK
    <3>2. Order!TurnOf(k)'
      BY <1>4, <1>6, <1>8, <1>9, <1>10, <1>11, <3>1 DEF Order!TurnOf
    <3> QED BY <1>7, <3>1, <3>2 DEF Order!TurnInv
  <2>2. CASE Order!SemaphoreWait(t)
    <3>1. /\ place[t] = "start" /\ ~Order!BusyWaiting /\ can_greet[t] > 0
          /\ can_greet' = [can_greet EXCEPT ![t] = @ - 1]
          /\ UNCHANGED <<next_thread, announced>> /\ Order!GoTo(t, "greet")
      BY <2>2 DEF Order!SemaphoreWait, Order!BusyWaiting
    <3>2. place'[t] = "greet"
      BY <1>1, <3>1 DEF Order!GoTo, Order!TypeOK
    <3>3. can_greet' \in [Order!Team -> Nat]
      BY <1>7, <3>1
    <3>4. \A u \in Order!Team : can_greet'[u] = 0
      BY <1>6, <1>7, <1>8, <1>9, <3>1 DEF Order!TurnOf
    <3>5. Order!TurnOf(k)'
      BY <1>4, <1>5, <1>8, <1>9, <1>10, <1>11, <3>1, <3>2, <3>4 DEF Order!TurnOf
    <3> QED BY <1>7, <3>1, <3>3, <3>5 DEF Order!TurnInv
  <2>3. CASE Order!Greet(t)
    <3>1. /\ place[t] = "greet" /\ announced' = Append(announced, t)
          /\ UNCHANGED <<next_thread, can_greet>> /\ Order!GoTo(t, "next")
      BY <2>3 DEF Order!Greet, Order!turns
    <3>2. place'[t] = "next"
      BY <1>1, <3>1 DEF Order!GoTo, Order!TypeOK
    <3>3. /\ announced' \in Seq(Nat) /\ Len(announced') = k + 1 /\ DOMAIN announced' = 1 .. k + 1
          /\ \A n \in DOMAIN announced' : announced'[n] = n - 1
      BY <1>5, <1>7, <1>9, <1>10, <3>1
    <3>4. Order!TurnOf(k)'
      <4>1. IF Order!BusyWaiting THEN next_thread' = k
              ELSE \A u \in Order!Team : can_greet'[u] =
                IF \/ u = k /\ place'[u] \in {"unborn", "start"}
                   \/ u = 0 /\ k = thread_count THEN 1 ELSE 0
        BY <1>4, <1>6, <1>9, <3>1, <3>2 DEF Order!TurnOf
      <4> QED BY <1>4, <1>5, <1>8, <1>9, <1>10, <1>11, <3>2, <3>3, <4>1 DEF Order!TurnOf
    <3> QED BY <1>7, <3>1, <3>3, <3>4 DEF Order!TurnInv
  <2>4. CASE Order!NextThread(t)
    <3>1. /\ place[t] = "next" /\ UNCHANGED announced /\ Order!GoTo(t, "done")
          /\ IF Order!BusyWaiting
               THEN next_thread' = next_thread + 1 /\ UNCHANGED can_greet
               ELSE /\ can_greet' = [can_greet EXCEPT ![(t + 1) % thread_count] = @ + 1]
                    /\ UNCHANGED next_thread
      BY <2>4 DEF Order!NextThread
    <3>2. place'[t] = "done"
      BY <1>1, <3>1 DEF Order!GoTo, Order!TypeOK
    <3>3. (t + 1) % thread_count = IF t = thread_count - 1 THEN 0 ELSE t + 1
      BY <1>5, NextOfTeam
    <3> DEFINE next == IF t = thread_count - 1 THEN 0 ELSE t + 1
    <3>4. next \in Order!Team
      BY <1>5 DEF Order!Team
    <3>5. /\ next_thread' \in Nat /\ can_greet' \in [Order!Team -> Nat]
          /\ ~Order!BusyWaiting => \A u \in Order!Team :
               can_greet'[u] = IF u = next THEN can_greet[u] + 1 ELSE can_greet[u]
      BY <1>7, <3>1, <3>3, <3>4
    <3>6. IF Order!BusyWaiting THEN next_thread = k ELSE \A u \in Order!Team : can_greet[u] = 0
      BY <1>5, <1>6, <1>8, <1>9, <3>1 DEF Order!TurnOf
    <3>7. k + 1 \in 0 .. thread_count /\ Len(announced') = k + 1
      BY <1>5, <1>9, <1>10, <3>1
    <3>8. \A u \in Order!Team : u > k => place'[u] \in {"unborn", "start"}
      BY <1>4, <1>9, <1>10
    <3>9. IF Order!BusyWaiting THEN next_thread' = k + 1
            ELSE \A u \in Order!Team : can_greet'[u] =
              IF \/ u = k + 1 /\ place'[u] \in {"unborn", "start"}
                 \/ u = 0 /\ k + 1 = thread_count THEN 1 ELSE 0
      <4>1. CASE Order!BusyWaiting
        BY <3>1, <3>6, <4>1
      <4>2. CASE ~Order!BusyWaiting
        <5>1. ASSUME NEW u \in Order!Team
              PROVE  can_greet'[u] =
                       IF \/ u = k + 1 /\ place'[u] \in {"unborn", "start"}
                          \/ u = 0 /\ k + 1 = thread_count THEN 1 ELSE 0
          <6>1. can_greet'[u] = IF u = next THEN 1 ELSE 0
            BY <1>7, <3>5, <3>6, <4>2
          <6>2. u \in 0 .. thread_count - 1
            BY <1>8
          <6>3. u = k + 1 => place'[u] \in {"unborn", "start"}
            BY <1>8, <3>8
          <6> QED BY <1>5, <1>9, <6>1, <6>2, <6>3
        <5> QED BY <4>2, <5>1
      <4> QED BY <4>1, <4>2
    <3>10. /\ \A u \in Order!Team : /\ u < k + 1 => place'[u] = "done"
                                    /\ u = k + 1 => place'[u] # "done"
                                    /\ u > k + 1 => place'[u] \in {"unborn", "start"}
           /\ ~(k + 1 \in Order!Team /\ place'[k + 1] = "next")
      <4>1. ASSUME NEW u \in Order!Team
            PROVE  /\ u < k + 1 => place'[u] = "done"
                   /\ u > k => place'[u] \in {"unborn", "start"}
        <5>1. u \in 0 .. thread_count - 1
          BY <1>8
        <5>2. u < k + 1 => (u = t \/ (u # t /\ u < k))
          BY <1>5, <1>9, <5>1
        <5> QED BY <1>4, <1>10, <3>2, <3>8, <5>2
      <4>2. k + 1 > k /\ \A u \in Order!Team : u > k + 1 \/ u = k + 1 => u > k
        BY <1>8
      <4> QED BY <4>1, <4>2
    <3>11. Order!TurnOf(k + 1)'
      <4>1. \A n \in DOMAIN announced' : announced'[n] = n - 1
        BY <1>10, <3>1
      <4> QED BY <1>11, <3>7, <3>9, <3>10, <4>1 DEF Order!TurnOf
    <3> QED BY <1>7, <3>1, <3>5, <3>7, <3>11 DEF Order!TurnInv
  <2> QED BY <2>1, <2>2, <2>3, <2>4
<1>13. Order!TypeOK'
  BY <1>1, <1>2, <1>4, <1>12 DEF Order!TypeOK
<1>14. Order!PlaceInv' /\ Order!MutexInv'
  <2>1. \A u \in Order!Team : place[u] \notin {"advance", "announce", "look", "hit"}
    BY <1>1, <1>2 DEF Order!PlaceInv
  <2>2. \A u \in Order!Team : place'[u] \notin {"advance", "announce", "look", "hit"}
    BY <1>4, <2>1
  <2> QED BY <1>2, <1>11, <2>2 DEF Order!PlaceInv, Order!MutexInv
<1>15. Order!RaceInv' /\ Order!PinataInv' /\ Order!OneThreadBreaksIt'
  BY <1>2, PinataBreaksNext DEF Order!RaceInv, Order!PinataInv
<1> QED BY <1>4, <1>12, <1>13, <1>14, <1>15 DEF Order!IInv

\* The main thread creates a thread.
LEMMA OrderCreates == Order!IInv /\ Order!CreateThread => Order!IInv'
<1> SUFFICES ASSUME Order!IInv, Order!CreateThread PROVE Order!IInv'
  OBVIOUS
<1>1. /\ Order!TypeOK /\ Order!CreatedInv /\ Order!PlaceInv /\ Order!MutexInv /\ Order!TurnInv
      /\ Order!RaceInv /\ Order!PinataInv /\ Order!OneThreadBreaksIt
  BY DEF Order!IInv
<1>2. /\ team_main = "create" /\ created < thread_count /\ created' = created + 1
      /\ UNCHANGED <<version, team_main, joined, next_thread, can_greet, mutex, position, pinata,
                     hits, broke_pinata, announced>>
      /\ Order!GoTo(created, "start")
  BY DEF Order!CreateThread, Order!turns, Order!party
<1>3. thread_count \in Nat /\ created \in 0 .. thread_count - 1 /\ joined \in 0 .. thread_count
  BY <1>1, <1>2, OrderConstants DEF Order!TypeOK
<1>4. /\ place' \in [Order!Team -> {"unborn", "start", "greet", "next", "advance", "announce",
                                    "look", "hit", "done"}]
      /\ created \in Order!Team /\ place[created] = "unborn" /\ place'[created] = "start"
      /\ \A u \in Order!Team : u # created => place'[u] = place[u]
  BY <1>1, <1>2, <1>3 DEF Order!TypeOK, Order!GoTo, Order!CreatedInv, Order!Team
<1>5. Order!TypeOK'
  BY <1>1, <1>2, <1>3, <1>4 DEF Order!TypeOK
<1>6. Order!CreatedInv'
  <2>1. ASSUME NEW u \in Order!Team
        PROVE  (u >= created + 1 <=> place'[u] = "unborn") /\ (u < joined => place'[u] = "done")
    <3>1. u \in 0 .. thread_count - 1
      BY DEF Order!Team
    <3>2. (u >= created <=> place[u] = "unborn") /\ (u < joined => place[u] = "done")
      BY <1>1 DEF Order!CreatedInv
    <3>3. ~(created < joined)
      BY <1>1, <1>4 DEF Order!CreatedInv
    <3>4. CASE u = created
      BY <1>3, <1>4, <3>3, <3>4
    <3>5. CASE u # created
      BY <1>3, <1>4, <3>1, <3>2, <3>5
    <3> QED BY <3>4, <3>5
  <2> QED BY <1>2, <2>1 DEF Order!CreatedInv
<1>7. Order!PlaceInv' /\ Order!MutexInv' /\ Order!PinataInv'
  <2>1. ASSUME NEW u \in Order!Team PROVE place'[u] = place[u] \/ place'[u] = "start"
    BY <1>4
  <2>2. Order!PlaceInv'
    BY <1>1, <1>2, <2>1 DEF Order!PlaceInv, Order!Ordered, Order!BusyWaiting
  <2>3. Order!MutexInv' /\ Order!PinataInv'
    BY <1>1, <1>2, <2>1 DEF Order!MutexInv, Order!PinataInv
  <2> QED BY <2>2, <2>3
<1>8. Order!TurnInv'
  <2>1. Order!Ordered' = Order!Ordered /\ Order!BusyWaiting' = Order!BusyWaiting
    BY <1>2 DEF Order!Ordered, Order!BusyWaiting
  <2>2. ASSUME NEW k \in 0 .. thread_count, Order!TurnOf(k) PROVE Order!TurnOf(k)'
    <3>1. \A u \in Order!Team : /\ place'[u] = "done" <=> place[u] = "done"
                                /\ place'[u] \in {"unborn", "start"} <=> place[u] \in {"unborn", "start"}
                                /\ place'[u] = "next" <=> place[u] = "next"
      BY <1>4
    <3> QED BY <1>2, <2>1, <2>2, <3>1 DEF Order!TurnOf
  <2> QED BY <1>1, <2>1, <2>2 DEF Order!TurnInv
<1>9. Order!RaceInv'
  <2>1. {u \in Order!Team : place'[u] = "done"} = {u \in Order!Team : place[u] = "done"}
    BY <1>4
  <2>2. (\E u \in Order!Team : place'[u] = "announce") <=> (\E u \in Order!Team : place[u] = "announce")
    BY <1>4
  <2> QED BY <1>1, <1>2, <2>1, <2>2 DEF Order!RaceInv
<1>10. Order!OneThreadBreaksIt'
  BY <1>1, <1>2, PinataBreaks, PinataBreaksNext
<1> QED BY <1>5, <1>6, <1>7, <1>8, <1>9, <1>10 DEF Order!IInv

\* The program returns when every thread is done.
LEMMA OrderReturns == Order!IInv /\ Order!Return => Order!IInv'
<1> SUFFICES ASSUME Order!IInv, Order!Return PROVE Order!IInv'
  OBVIOUS
<1>1. /\ Order!TypeOK /\ Order!CreatedInv /\ Order!PlaceInv /\ Order!MutexInv /\ Order!TurnInv
      /\ Order!RaceInv /\ Order!PinataInv /\ Order!OneThreadBreaksIt
  BY DEF Order!IInv
<1>2. /\ team_main = "join" /\ joined = thread_count /\ team_main' = "returned"
      /\ announced' = IF version = "hello_order_cond_safe"
                        THEN [n \in 1 .. thread_count |->
                                IF place[n - 1] = "done" THEN n - 1 ELSE "empty"]
                        ELSE announced
      /\ UNCHANGED <<version, created, joined, place, next_thread, can_greet, mutex, position,
                     pinata, hits, broke_pinata>>
  BY DEF Order!Return, Order!turns, Order!party
<1>3. thread_count \in Nat /\ \A u \in Order!Team : u < joined /\ place[u] = "done"
  BY <1>1, <1>2, OrderConstants DEF Order!CreatedInv, Order!Team
<1>4. version = "hello_order_cond_safe" => announced' = [n \in 1 .. thread_count |-> n - 1]
  <2>1. \A n \in 1 .. thread_count : n - 1 \in Order!Team
    BY <1>3 DEF Order!Team
  <2>2. \A n \in 1 .. thread_count : (IF place[n - 1] = "done" THEN n - 1 ELSE "empty") = n - 1
    BY <1>3, <2>1
  <2> QED BY <1>2, <2>2
<1>5. announced' \in Seq(Nat)
  <2>1. [n \in 1 .. thread_count |-> n - 1] \in Seq(Nat)
    BY <1>3
  <2> QED BY <1>1, <1>2, <1>4, <2>1 DEF Order!TypeOK
<1>6. Order!TypeOK' /\ Order!CreatedInv' /\ Order!MutexInv' /\ Order!PinataInv'
  BY <1>1, <1>2, <1>5 DEF Order!TypeOK, Order!CreatedInv, Order!MutexInv, Order!PinataInv
<1>7. Order!PlaceInv'
  BY <1>1, <1>2, <1>4 DEF Order!PlaceInv, Order!Ordered, Order!BusyWaiting
<1>8. Order!TurnInv' /\ Order!RaceInv'
  <2>1. version # "hello_order_cond_safe" => announced' = announced
    BY <1>2
  <2>2. Order!Ordered \/ version = "position_race" => announced' = announced
    BY <2>1 DEF Order!Ordered, Order!BusyWaiting
  <2>3. Order!Ordered' = Order!Ordered /\ Order!BusyWaiting' = Order!BusyWaiting
    BY <1>2 DEF Order!Ordered, Order!BusyWaiting
  <2> QED BY <1>1, <1>2, <2>2, <2>3 DEF Order!TurnInv, Order!TurnOf, Order!RaceInv
<1>9. Order!OneThreadBreaksIt'
  <2>1. version = "birthday_pinata" /\ thread_count > 0 => pinata = 0
    <3>1. thread_count > 0 => 0 \in Order!Team
      BY <1>3 DEF Order!Team
    <3> QED BY <1>1, <1>3, <3>1 DEF Order!PinataInv
  <2> QED BY <1>1, <1>2, <2>1, PinataBreaks, PinataBreaksNext
<1> QED BY <1>6, <1>7, <1>8, <1>9 DEF Order!IInv

\* Threads leave their greetings to the main thread.
LEMMA OrderWrites ==
  ASSUME Order!IInv, NEW t \in Order!Team, Order!WriteGreeting(t)
  PROVE  Order!IInv'
<1>1. /\ Order!TypeOK /\ Order!CreatedInv /\ Order!PlaceInv /\ Order!MutexInv
  BY DEF Order!IInv
<1>2. /\ version = "hello_order_cond_safe" /\ place[t] = "start" /\ Order!GoTo(t, "done")
      /\ UNCHANGED <<version, team_main, created, joined, next_thread, can_greet, mutex, position,
                     pinata, hits, broke_pinata, announced>>
  BY DEF Order!WriteGreeting, Order!mainTeam, Order!turns, Order!party
<1>3. /\ Order!CreatedInv'
      /\ place' \in [Order!Team -> {"unborn", "start", "greet", "next", "advance", "announce",
                                    "look", "hit", "done"}]
      /\ place'[t] = "done" /\ \A u \in Order!Team : u # t => place'[u] = place[u]
  BY <1>1, <1>2, OrderMoves
<1>4. Order!TypeOK'
  BY <1>1, <1>2, <1>3 DEF Order!TypeOK
<1>5. Order!PlaceInv' /\ Order!MutexInv'
  <2>1. \A u \in Order!Team : place'[u] = place[u] \/ place'[u] = "done"
    BY <1>3
  <2>2. Order!PlaceInv'
    BY <1>1, <1>2, <2>1 DEF Order!PlaceInv, Order!Ordered, Order!BusyWaiting
  <2>3. Order!MutexInv'
    BY <1>1, <1>2, <2>1 DEF Order!MutexInv
  <2> QED BY <2>2, <2>3
<1>6. Order!TurnInv' /\ Order!RaceInv' /\ Order!PinataInv' /\ Order!OneThreadBreaksIt'
  BY <1>2, PinataBreaksNext
     DEF Order!TurnInv, Order!RaceInv, Order!PinataInv, Order!Ordered, Order!BusyWaiting
<1> QED BY <1>3, <1>4, <1>5, <1>6 DEF Order!IInv

\* The thread that holds the mutex is the only one inside.
LEMMA OrderInside ==
  ASSUME Order!MutexInv, NEW t \in Order!Team,
         place[t] \in {"advance", "announce", "look", "hit"} \/ mutex = {}
  PROVE  \A u \in Order!Team : u # t => place[u] \notin {"advance", "announce", "look", "hit"}
<1> SUFFICES ASSUME NEW u \in Order!Team, place[u] \in {"advance", "announce", "look", "hit"}
             PROVE  u = t
  OBVIOUS
<1>1. mutex = {u} /\ (mutex = {t} \/ mutex = {})
  BY DEF Order!MutexInv
<1> QED BY <1>1

\* The race: a thread takes the next position and announces it before another one does.
LEMMA OrderRaces ==
  ASSUME Order!IInv, NEW t \in Order!Team, version = "position_race",
         Order!Lock(t) \/ Order!Advance(t) \/ Order!Announce(t)
  PROVE  Order!IInv'
<1>1. /\ Order!TypeOK /\ Order!CreatedInv /\ Order!PlaceInv /\ Order!MutexInv /\ Order!RaceInv
  BY DEF Order!IInv
<1>2. /\ version = "position_race"
      /\ UNCHANGED <<version, team_main, created, joined, next_thread, can_greet, pinata, hits,
                     broke_pinata>>
      /\ place[t] \in {"start", "advance", "announce"}
  BY <1>1 DEF Order!Lock, Order!Advance, Order!Announce, Order!mainTeam, Order!turns, Order!party
<1>3. PICK there \in {"advance", "announce", "done"} : Order!GoTo(t, there)
  BY <1>2 DEF Order!Lock, Order!Advance, Order!Announce
<1>4. /\ team_main # "returned" /\ Order!CreatedInv'
      /\ place' \in [Order!Team -> {"unborn", "start", "greet", "next", "advance", "announce",
                                    "look", "hit", "done"}]
      /\ place'[t] = there /\ \A u \in Order!Team : u # t => place'[u] = place[u]
  BY <1>1, <1>2, <1>3, OrderMoves
<1>5. \A u \in Order!Team : u # t => place[u] \notin {"advance", "announce", "look", "hit"}
  BY <1>1, OrderInside DEF Order!Lock, Order!Advance, Order!Announce
<1>6. thread_count \in Nat /\ IsFiniteSet(Order!Team)
  BY OrderConstants, FS_Interval DEF Order!Team
<1> DEFINE Arrived == {u \in Order!Team : place[u] = "done"}
<1>7. IsFiniteSet(Arrived) /\ Cardinality(Arrived) \in Nat
  <2>1. Arrived \in SUBSET Order!Team
    OBVIOUS
  <2>2. IsFiniteSet(Arrived)
    BY <1>6, <2>1, FS_Subset
  <2> QED BY <2>2, FS_CardinalityType
<1>8. /\ position \in Nat /\ announced \in Seq(Nat) /\ Len(announced) \in Nat
      /\ DOMAIN announced = 1 .. Len(announced)
      /\ position = Len(announced) + (IF place[t] = "announce" THEN 1 ELSE 0)
      /\ Len(announced) = Cardinality(Arrived)
      /\ \A n \in DOMAIN announced : announced[n] = n
  <2>1. (\E u \in Order!Team : place[u] = "announce") <=> place[t] = "announce"
    BY <1>5
  <2>2. position \in Nat /\ announced \in Seq(Nat)
    BY <1>1 DEF Order!TypeOK
  <2>3. /\ position = Len(announced) + (IF place[t] = "announce" THEN 1 ELSE 0)
        /\ Len(announced) = Cardinality(Arrived)
        /\ \A n \in DOMAIN announced : announced[n] = n
    BY <1>1, <1>2, <2>1, OrderCounts DEF Order!RaceInv
  <2> QED BY <2>2, <2>3
<1>9. (\E u \in Order!Team : place'[u] = "announce") <=> there = "announce"
  BY <1>4, <1>5
<1>10. /\ position' \in Nat /\ announced' \in Seq(Nat) /\ mutex' \in SUBSET Order!Team
       /\ Order!RaceInv' /\ (there # "done" => mutex' = {t})
  <2>1. CASE Order!Lock(t)
    <3>1. /\ there = "advance" /\ place[t] = "start" /\ mutex' = {t}
          /\ UNCHANGED <<position, announced>>
      <4>1. Order!GoTo(t, "advance") /\ place[t] = "start" /\ mutex' = {t}
            /\ UNCHANGED <<position, announced>>
        BY <1>2, <2>1 DEF Order!Lock
      <4> QED BY <1>1, <1>4, <4>1 DEF Order!GoTo, Order!TypeOK
    <3>2. {u \in Order!Team : place'[u] = "done"} = Arrived
      BY <1>4, <3>1
    <3> QED BY <1>8, <1>9, <3>1, <3>2, OrderCounts DEF Order!RaceInv
  <2>2. CASE Order!Advance(t)
    <3>1. /\ there = "announce" /\ place[t] = "advance" /\ position' = position + 1
          /\ UNCHANGED <<mutex, announced>>
      <4>1. /\ Order!GoTo(t, "announce") /\ place[t] = "advance" /\ position' = position + 1
            /\ UNCHANGED <<mutex, announced>>
        BY <2>2 DEF Order!Advance
      <4> QED BY <1>1, <1>4, <4>1 DEF Order!GoTo, Order!TypeOK
    <3>2. {u \in Order!Team : place'[u] = "done"} = Arrived
      BY <1>4, <3>1
    <3>3. mutex = {t}
      BY <1>1, <3>1 DEF Order!MutexInv
    <3>4. position' = Len(announced) + 1 /\ position' \in Nat
      BY <1>8, <3>1
    <3> QED BY <1>8, <1>9, <3>1, <3>2, <3>3, <3>4, OrderCounts DEF Order!RaceInv
  <2>3. CASE Order!Announce(t)
    <3>1. /\ there = "done" /\ place[t] = "announce" /\ announced' = Append(announced, position)
          /\ mutex' = mutex \ {t} /\ UNCHANGED position
      <4>1. /\ Order!GoTo(t, "done") /\ place[t] = "announce"
            /\ announced' = Append(announced, position)
            /\ mutex' = mutex \ {t} /\ UNCHANGED position
        BY <2>3 DEF Order!Announce
      <4> QED BY <1>1, <1>4, <4>1 DEF Order!GoTo, Order!TypeOK
    <3>2. {u \in Order!Team : place'[u] = "done"} = Arrived \cup {t} /\ t \notin Arrived
      BY <1>4, <3>1
    <3>3. Cardinality({u \in Order!Team : place'[u] = "done"}) = Cardinality(Arrived) + 1
      <4> HIDE DEF Arrived
      <4> QED BY <1>7, <3>2, FS_AddElement
    <3>4. /\ announced' \in Seq(Nat) /\ Len(announced') = Len(announced) + 1
          /\ \A n \in DOMAIN announced' : announced'[n] = n
      BY <1>8, <3>1
    <3>5. position' = Len(announced) + 1
      BY <1>8, <3>1
    <3>6. Order!RaceInv'
      <4>1. Len(announced') = Cardinality({u \in Order!Team : place'[u] = "done"})
        BY <1>8, <3>3, <3>4
      <4>2. position' = Len(announced') + 0
        BY <1>8, <3>4, <3>5
      <4> QED BY <1>9, <3>1, <3>4, <4>1, <4>2, OrderCounts DEF Order!RaceInv
    <3> QED BY <1>1, <1>8, <3>1, <3>4, <3>6 DEF Order!TypeOK
  <2> QED BY <2>1, <2>2, <2>3
<1>11. Order!TypeOK'
  BY <1>1, <1>2, <1>4, <1>10 DEF Order!TypeOK
<1>12. Order!PlaceInv' /\ Order!MutexInv'
  <2>1. Order!PlaceInv'
    BY <1>1, <1>2, <1>4 DEF Order!PlaceInv, Order!Ordered, Order!BusyWaiting
  <2>2. Order!MutexInv'
    BY <1>4, <1>5, <1>10 DEF Order!MutexInv
  <2> QED BY <2>1, <2>2
<1>13. Order!TurnInv' /\ Order!PinataInv' /\ Order!OneThreadBreaksIt'
  BY <1>2, PinataBreaksNext DEF Order!TurnInv, Order!PinataInv, Order!Ordered, Order!BusyWaiting
<1> QED BY <1>4, <1>10, <1>11, <1>12, <1>13 DEF Order!IInv

\* The party: the pinata loses one hit at a time, and the thread that breaks it is the
\* only one that finds it broken after its hit.
LEMMA OrderHits ==
  ASSUME Order!IInv, NEW t \in Order!Team, version = "birthday_pinata",
         Order!Lock(t) \/ Order!Look(t) \/ Order!Hit(t)
  PROVE  Order!IInv'
<1>1. /\ Order!TypeOK /\ Order!CreatedInv /\ Order!PlaceInv /\ Order!MutexInv /\ Order!PinataInv
      /\ Order!OneThreadBreaksIt
  BY DEF Order!IInv
<1>2. /\ UNCHANGED <<version, team_main, created, joined, next_thread, can_greet, position,
                     announced>>
      /\ place[t] \in {"start", "look", "hit"}
  BY <1>1 DEF Order!Lock, Order!Look, Order!Hit, Order!mainTeam, Order!turns, Order!party
<1>3. /\ pinata \in Nat /\ hits \in [Order!Team -> Nat] /\ broke_pinata \in [Order!Team -> BOOLEAN]
      /\ mutex \in SUBSET Order!Team /\ thread_count \in Nat
  BY <1>1, OrderConstants DEF Order!TypeOK
<1>4. PICK there \in {"look", "hit", "done", "start"} : Order!GoTo(t, there)
  BY <1>2 DEF Order!Lock, Order!Look, Order!Hit
<1>5. /\ team_main # "returned" /\ Order!CreatedInv'
      /\ place' \in [Order!Team -> {"unborn", "start", "greet", "next", "advance", "announce",
                                    "look", "hit", "done"}]
      /\ place'[t] = there /\ \A u \in Order!Team : u # t => place'[u] = place[u]
  BY <1>1, <1>2, <1>4, OrderMoves
<1>6. \A u \in Order!Team : u # t => place[u] \notin {"advance", "announce", "look", "hit"}
  BY <1>1, OrderInside DEF Order!Lock, Order!Look, Order!Hit
<1>7. \A u \in Order!Team : place[u] = "done" \/ broke_pinata[u] => pinata = 0
  BY <1>1 DEF Order!PinataInv
<1>8. /\ pinata + HitSum(hits)[thread_count] = hit_resistance
      /\ Cardinality({u \in Order!Team : broke_pinata[u]}) <= 1
      /\ {u \in Order!Team : broke_pinata[u]} = {} <=> pinata > 0 \/ hit_resistance = 0
  BY <1>1, PinataBreaks, OrderCounts
<1>9. /\ pinata' \in Nat /\ hits' \in [Order!Team -> Nat]
      /\ broke_pinata' \in [Order!Team -> BOOLEAN] /\ mutex' \in SUBSET Order!Team
      /\ there \in {"look", "hit"} => mutex' = {t}
      /\ there = "hit" => pinata' > 0
      /\ Order!PinataInv' /\ Order!OneThreadBreaksIt'
  <2>1. CASE Order!Lock(t) \/ Order!Look(t)
    <3>1. UNCHANGED <<pinata, hits, broke_pinata>>
      BY <2>1 DEF Order!Lock, Order!Look, Order!party
    <3>2. \/ there = "look" /\ mutex' = {t}
          \/ there = "hit" /\ mutex' = mutex /\ mutex = {t} /\ pinata # 0
          \/ there = "done" /\ mutex' \in SUBSET Order!Team /\ pinata = 0
      <4>1. (place'[t] = "look" /\ mutex' = {t}) \/ Order!Look(t)
        BY <1>1, <2>1 DEF Order!Lock, Order!GoTo, Order!TypeOK
      <4>2. Order!Look(t) => \/ place'[t] = "hit" /\ mutex' = mutex /\ mutex = {t} /\ pinata # 0
                             \/ place'[t] = "done" /\ mutex' = mutex \ {t} /\ pinata = 0
        BY <1>1 DEF Order!Look, Order!GoTo, Order!TypeOK, Order!MutexInv
      <4> QED BY <1>3, <1>5, <4>1, <4>2
    <3>3. Order!PinataInv'
      <4>1. ASSUME NEW u \in Order!Team
            PROVE  /\ place'[u] = "hit" => pinata > 0
                   /\ place'[u] = "done" \/ broke_pinata[u] => pinata = 0
        BY <1>3, <1>5, <1>6, <1>7, <3>2
      <4> QED BY <3>1, <4>1 DEF Order!PinataInv
    <3>4. Order!OneThreadBreaksIt'
      BY <1>2, <1>5, <1>1, <3>1, PinataBreaks, PinataBreaksNext
    <3> QED BY <1>3, <3>1, <3>2, <3>3, <3>4
  <2>2. CASE Order!Hit(t)
    <3>1. /\ place[t] = "hit" /\ pinata' = pinata - 1 /\ hits' = [hits EXCEPT ![t] = @ + 1]
          /\ broke_pinata' = [broke_pinata EXCEPT ![t] = pinata' = 0]
          /\ mutex' = mutex \ {t} /\ Order!GoTo(t, IF pinata' = 0 THEN "done" ELSE "start")
      BY <2>2 DEF Order!Hit
    <3>2. pinata > 0
      BY <1>1, <3>1 DEF Order!PinataInv
    <3>3. place'[t] = IF pinata' = 0 THEN "done" ELSE "start"
      BY <1>1, <3>1 DEF Order!GoTo, Order!TypeOK
    <3>4. /\ pinata' \in Nat /\ hits' \in [Order!Team -> Nat]
          /\ broke_pinata' \in [Order!Team -> BOOLEAN] /\ mutex' \in SUBSET Order!Team
      BY <1>3, <3>1, <3>2
    <3>5. \A u \in Order!Team : /\ place[u] # "done" /\ broke_pinata[u] = FALSE
                                /\ broke_pinata'[u] = (u = t /\ pinata' = 0)
      BY <1>3, <1>7, <3>1, <3>2
    <3>6. {u \in Order!Team : broke_pinata'[u]} = IF pinata' = 0 THEN {t} ELSE {}
      BY <3>5
    <3>7. Cardinality({u \in Order!Team : broke_pinata'[u]}) <= 1
      BY <3>6, FS_EmptySet, FS_Singleton
    <3>8. /\ HitSum(hits')[thread_count] = HitSum(hits)[thread_count] + 1
          /\ HitSum(hits)[thread_count] \in Nat
      <4>1. \A u \in 0 .. thread_count - 1 :
              hits[u] \in Nat /\ hits'[u] = IF u = t THEN hits[u] + 1 ELSE hits[u]
        BY <1>3, <3>1 DEF Order!Team
      <4>2. t \in 0 .. thread_count - 1
        BY DEF Order!Team
      <4> QED BY <1>3, <4>1, <4>2, HitAdds
    <3>9. Order!PinataInv'
      <4>1. ASSUME NEW u \in Order!Team
            PROVE  /\ place'[u] = "hit" => pinata' > 0
                   /\ place'[u] = "done" \/ broke_pinata'[u] => pinata' = 0
        BY <1>5, <1>6, <3>3, <3>5
      <4> QED BY <4>1 DEF Order!PinataInv
    <3>10. pinata' + HitSum(hits')[thread_count] = hit_resistance /\ hit_resistance # 0
      BY <1>3, <1>8, <3>1, <3>2, <3>8
    <3>11. {u \in Order!Team : broke_pinata'[u]} = {} <=> pinata' > 0 \/ hit_resistance = 0
      BY <3>4, <3>6, <3>10
    <3>12. Order!OneThreadBreaksIt'
      <4>1. pinata' >= 0 /\ team_main' # "returned"
        BY <1>2, <1>5, <3>4
      <4>2. Order!Cardinality({u \in Order!Team : broke_pinata'[u]}) <= 1
        BY <3>7, OrderCounts
      <4> QED BY <3>10, <3>11, <4>1, <4>2, PinataBreaksNext
    <3>13. there \notin {"look", "hit"}
      BY <1>5, <3>3
    <3> QED BY <3>4, <3>9, <3>12, <3>13
  <2> QED BY <2>1, <2>2
<1>10. Order!TypeOK'
  BY <1>1, <1>2, <1>5, <1>9 DEF Order!TypeOK
<1>11. Order!PlaceInv' /\ Order!MutexInv'
  <2>1. Order!PlaceInv'
    BY <1>1, <1>2, <1>5 DEF Order!PlaceInv, Order!Ordered, Order!BusyWaiting
  <2>2. Order!MutexInv'
    BY <1>5, <1>6, <1>9 DEF Order!MutexInv
  <2> QED BY <2>1, <2>2
<1>12. Order!TurnInv' /\ Order!RaceInv'
  BY <1>2 DEF Order!TurnInv, Order!RaceInv, Order!Ordered, Order!BusyWaiting
<1> QED BY <1>5, <1>9, <1>10, <1>11, <1>12 DEF Order!IInv

\* The programs with a team keep their invariant.
LEMMA OrderKeepsInv == Order!IInv /\ [Order!Next]_(Order!teamVars) => Order!IInv'
<1> SUFFICES ASSUME Order!IInv, [Order!Next]_(Order!teamVars) PROVE Order!IInv'
  OBVIOUS
<1>1. Order!TypeOK /\ Order!CreatedInv /\ Order!PlaceInv
  BY DEF Order!IInv
<1>2. /\ thread_count \in Nat /\ TurnCreateMayFail \subseteq Order!Team
      /\ \A t \in Order!Team : t \in 0 .. thread_count - 1
      /\ joined \in 0 .. thread_count /\ created \in 0 .. thread_count
  BY <1>1, OrderConstants DEF Order!TypeOK, Order!Team
<1>3. CASE UNCHANGED Order!teamVars
  BY <1>1, <1>2, <1>3, OrderMainStep
     DEF Order!teamVars, Order!mainTeam, Order!turns, Order!party, Order!CreatedInv
<1>4. CASE Order!AllocationFails \/ Order!CreateFails \/ Order!AllCreated
  <2>1. /\ team_main = "create" /\ team_main' \in {"join", "no memory", "undefined"}
        /\ UNCHANGED <<version, created, joined, place, next_thread, can_greet, mutex, position,
                       pinata, hits, broke_pinata, announced>>
    BY <1>4 DEF Order!AllocationFails, Order!CreateFails, Order!AllCreated, Order!turns,
           Order!party
  <2> QED BY <1>1, <1>2, <2>1, OrderMainStep DEF Order!CreatedInv
<1>5. CASE Order!JoinThread
  <2>1. /\ team_main = "join" /\ joined < thread_count
        /\ \/ joined < created /\ place[joined] = "done" /\ joined' = joined + 1
              /\ UNCHANGED team_main
           \/ team_main' = "undefined" /\ joined' = joined
        /\ UNCHANGED <<version, created, place, next_thread, can_greet, mutex, position,
                       pinata, hits, broke_pinata, announced>>
    BY <1>5 DEF Order!JoinThread, Order!turns, Order!party
  <2>2. joined' \in 0 .. thread_count /\ \A t \in Order!Team : t < joined' => place[t] = "done"
    <3>1. ASSUME NEW t \in Order!Team, t < joined' PROVE place[t] = "done"
      <4>1. t < joined \/ (t = joined /\ place[joined] = "done")
        BY <1>2, <2>1, <3>1
      <4> QED BY <1>1, <4>1 DEF Order!CreatedInv
    <3>2. joined' \in 0 .. thread_count
      BY <1>2, <2>1
    <3> QED BY <3>1, <3>2
  <2>3. team_main # "returned" /\ team_main' \in {"join", "undefined"}
    BY <2>1
  <2> QED BY <2>1, <2>2, <2>3, OrderMainStep
<1>6. CASE Order!CreateThread
  BY <1>6, OrderCreates
<1>7. CASE Order!Return
  BY <1>7, OrderReturns
<1>8. ASSUME NEW t \in Order!Team, Order!ThreadStep(t) PROVE Order!IInv'
  <2>1. CASE Order!BusyWait(t) \/ Order!SemaphoreWait(t) \/ Order!Greet(t) \/ Order!NextThread(t)
    BY <2>1, OrderTurns
  <2>2. CASE Order!WriteGreeting(t)
    BY <2>2, OrderWrites
  <2>3. CASE Order!Lock(t) \/ Order!Advance(t) \/ Order!Announce(t) \/ Order!Look(t) \/ Order!Hit(t)
    <3>1. \/ version = "position_race" /\ (Order!Lock(t) \/ Order!Advance(t) \/ Order!Announce(t))
          \/ version = "birthday_pinata" /\ (Order!Lock(t) \/ Order!Look(t) \/ Order!Hit(t))
      BY <1>1, <2>3
         DEF Order!Lock, Order!Advance, Order!Announce, Order!Look, Order!Hit, Order!PlaceInv
    <3> QED BY <3>1, OrderRaces, OrderHits
  <2> QED BY <1>8, <2>1, <2>2, <2>3 DEF Order!ThreadStep
<1> QED BY <1>3, <1>4, <1>5, <1>6, <1>7, <1>8 DEF Order!Next, Order!MainStep

LEMMA OrderHolds == ExercisesSpec => []Order!IInv
<1>1. ExercisesInit => Order!IInv
  BY OrderStarts DEF ExercisesInit
<1>2. Order!IInv /\ [ExercisesNext]_allVars => Order!IInv'
  BY OrderBehaves, OrderKeepsInv
<1> QED BY <1>1, <1>2, PTL DEF ExercisesSpec

\* The pinata of birthday_pinata breaks once, after exactly the hits it resists, whatever
\* the order of the threads (hit_pinata).
THEOREM PartyTheorem == ExercisesSpec => []OneThreadBreaksIt
<1>1. Order!IInv => OneThreadBreaksIt
  BY DEF Order!IInv, OneThreadBreaksIt
<1> QED BY <1>1, OrderHolds, PTL

\* Greetings and positions are announced in order, and those of the whole team when the
\* program returns (greet, race).
THEOREM TurnsTheorem == ExercisesSpec => []Order!AnnouncedInOrder
<1>1. Order!IInv => Order!AnnouncedInOrder
  <2> SUFFICES ASSUME Order!IInv PROVE Order!AnnouncedInOrder
    OBVIOUS
  <2>1. /\ Order!TypeOK /\ Order!CreatedInv /\ Order!PlaceInv /\ Order!TurnInv /\ Order!RaceInv
    BY DEF Order!IInv
  <2>2. /\ thread_count \in Nat /\ Order!Team = 0 .. thread_count - 1
        /\ version \in {"hello_order_busywait", "delayed_busy_wait", "hello_order_semaphor",
                        "hello_order_cond_safe", "position_race", "birthday_pinata"}
    BY <2>1, OrderConstants DEF Order!TypeOK, Order!Team
  <2>3. announced \in Seq(Nat)
    BY <2>1 DEF Order!TypeOK
  <2>4. team_main = "returned" => \A t \in Order!Team : place[t] = "done"
    BY <2>1, <2>2 DEF Order!CreatedInv
  <2>5. CASE Order!Ordered
    <3>1. PICK k \in 0 .. thread_count : Order!TurnOf(k)
      BY <2>1, <2>5 DEF Order!TurnInv
    <3>2. team_main = "returned" => k = thread_count
      <4>1. k # thread_count => k \in Order!Team
        BY <2>2, <3>1
      <4> QED BY <2>4, <3>1, <4>1 DEF Order!TurnOf
    <3>3. k = thread_count => Len(announced) = thread_count
      BY <2>2, <3>1 DEF Order!TurnOf
    <3>4. \A n \in DOMAIN announced : announced[n] = n - 1 + 0
      <4>1. DOMAIN announced = 1 .. Len(announced) /\ Len(announced) \in Nat
        BY <2>3
      <4>2. \A n \in DOMAIN announced : announced[n] = n - 1
        BY <3>1 DEF Order!TurnOf
      <4> QED BY <4>1, <4>2
    <3> QED BY <2>5, <3>2, <3>3, <3>4 DEF Order!AnnouncedInOrder, Order!Ordered, Order!BusyWaiting
  <2>6. CASE version = "hello_order_cond_safe"
    <3>1. announced = IF team_main = "returned" THEN [n \in 1 .. thread_count |-> n - 1] ELSE <<>>
      BY <2>1, <2>6 DEF Order!PlaceInv
    <3>2. /\ \A n \in DOMAIN announced : announced[n] = n - 1 + 0
          /\ team_main = "returned" => Len(announced) = thread_count
      <4>1. CASE team_main # "returned"
        BY <3>1, <4>1
      <4>2. CASE team_main = "returned"
        <5>1. announced = [n \in 1 .. thread_count |-> n - 1] /\ DOMAIN announced = 1 .. thread_count
          BY <3>1, <4>2
        <5>2. Len(announced) = thread_count
          BY <2>2, <2>3, <5>1, LenProperties
        <5>3. \A n \in 1 .. thread_count : announced[n] = n - 1 /\ n - 1 + 0 = n - 1
          BY <2>2, <5>1
        <5> QED BY <5>1, <5>2, <5>3
      <4> QED BY <4>1, <4>2
    <3> QED BY <2>6, <3>2 DEF Order!AnnouncedInOrder
  <2>7. CASE version = "position_race"
    <3>1. /\ Len(announced) = Cardinality({t \in Order!Team : place[t] = "done"})
          /\ \A n \in DOMAIN announced : announced[n] = n
      BY <2>1, <2>7, OrderCounts DEF Order!RaceInv
    <3>2. ASSUME team_main = "returned" PROVE Len(announced) = thread_count
      <4>1. {t \in Order!Team : place[t] = "done"} = 0 .. thread_count - 1
        BY <2>2, <2>4, <3>2
      <4>2. Cardinality(0 .. thread_count - 1) = thread_count
        BY <2>2, FS_Interval
      <4> QED BY <3>1, <4>1, <4>2
    <3>3. \A n \in DOMAIN announced : announced[n] = n - 1 + 1
      <4>1. DOMAIN announced = 1 .. Len(announced) /\ Len(announced) \in Nat
        BY <2>3
      <4> QED BY <3>1, <4>1
    <3> QED BY <2>7, <3>2, <3>3 DEF Order!AnnouncedInOrder
  <2>8. CASE version = "birthday_pinata"
    BY <2>8 DEF Order!AnnouncedInOrder
  <2> QED BY <2>2, <2>5, <2>6, <2>7, <2>8 DEF Order!Ordered, Order!BusyWaiting
<1> QED BY <1>1, OrderHolds, PTL

\* Nobody waits for a destroyed semaphore of hello_order_semaphor, nor posts one but that
\* of thread 0 (create_threads, greet).
THEOREM SemaphoresTheorem == ExercisesSpec => []Order!SemaphoresOutliveTurns
<1>1. Order!IInv => Order!SemaphoresOutliveTurns
  <2> SUFFICES ASSUME Order!IInv, NEW t \in Order!Team, place[t] \in {"start", "next"}
               PROVE  joined <= t /\ joined <= t + 1
    BY DEF Order!SemaphoresOutliveTurns
  <2>1. Order!TypeOK /\ Order!CreatedInv
    BY DEF Order!IInv
  <2>2. joined \in 0 .. thread_count /\ thread_count \in Nat /\ t \in 0 .. thread_count - 1
    BY <2>1, OrderConstants DEF Order!TypeOK, Order!Team
  <2>3. t < joined => place[t] = "done"
    BY <2>1 DEF Order!CreatedInv
  <2> QED BY <2>2, <2>3
<1> QED BY <1>1, OrderHolds, PTL

-----------------------------------------------------------------------------
(* build_h2o and mist_cond_var.  The atoms of each kind are counted by     *)
(* where they are; in these numbers the invariant is linear arithmetic.    *)

LEMMA WaterBehaves == [ExercisesNext]_allVars => [Water!Next]_(Water!h2oVars)
BY DEF ExercisesNext, OthersUnchanged, Unless, allVars, h2oVars, Water!h2oVars,
       Water!multiplexes, Water!device

\* The invariant in numbers: of each kind, those on their way in, those about to bond,
\* those that bonded and are still inside, those to be released and those that are done.
Molecules(hIn, hBond, hBonded, hRel, hDone, oIn, oBond, oBonded, oRel, oDone,
          hm, om, hc, oc, mc) ==
  /\ hm = 2 - (hIn + (hBond + (hBonded + hRel)))
  /\ om = 1 - (oIn + (oBond + (oBonded + oRel)))
  /\ hBond + hBonded + oBond + oBonded > 0 =>
       /\ hIn = 0 /\ oIn = 0 /\ hRel = 0 /\ oRel = 0
       /\ hBond + hBonded = 2 /\ oBond + oBonded = 1
  /\ hBond + oBond = 0 => hc = 0 /\ oc = 0
  /\ hBond + oBond > 0 => hc = hBonded /\ oc = oBonded
  /\ 3 * mc = hRel + hDone + oRel + oDone
                + (IF hBond + oBond = 0 THEN hBonded + oBonded ELSE 0)

MoleculesOf(pc, hm, om, hc, oc, mc) ==
  Molecules(Num(pc, {"enter", "entering"}, Hydrogens), Num(pc, {"bond"}, Hydrogens),
            Num(pc, {"leave", "leaving"}, Hydrogens), Num(pc, {"release"}, Hydrogens),
            Num(pc, {"done"}, Hydrogens),
            Num(pc, {"enter", "entering"}, Oxygens), Num(pc, {"bond"}, Oxygens),
            Num(pc, {"leave", "leaving"}, Oxygens), Num(pc, {"release"}, Oxygens),
            Num(pc, {"done"}, Oxygens), hm, om, hc, oc, mc)

LEMMA Kinds ==
  /\ IsFiniteSet(Hydrogens) /\ IsFiniteSet(Oxygens) /\ Hydrogens \cap Oxygens = {}
  /\ Water!Atoms = Hydrogens \cup Oxygens /\ IsFiniteSet(Water!Atoms)
<1>1. /\ Water!IsFiniteSet(Hydrogens) /\ Water!IsFiniteSet(Oxygens)
      /\ Hydrogens \cap Oxygens = {}
  BY ExercisesAssumption DEF Water!AtomsAssumption
<1>2. IsFiniteSet(Hydrogens) /\ IsFiniteSet(Oxygens)
  BY <1>1 DEF Water!IsFiniteSet, IsFiniteSet
<1>3. Water!Atoms = Hydrogens \cup Oxygens
  BY DEF Water!Atoms
<1>4. IsFiniteSet(Hydrogens \cup Oxygens)
  BY <1>2, FS_Union
<1> QED BY <1>1, <1>2, <1>3, <1>4

LEMMA WaterInNumbers ==
  Water!MultiplexInv /\ Water!OneMoleculeAtATime <=>
    MoleculesOf(atom_pc, hydrogen_multiplex, oxygen_multiplex, hydrogen_count, oxygen_count,
                molecule_count)
<1> DEFINE n(S, C) == Num(atom_pc, S, C)
           inside == Water!At({"bond", "leave", "leaving"})
           bonded == Water!At({"leave", "leaving"})
           admitted == Water!At({"enter", "entering", "bond", "leave", "leaving", "release"})
<1>1. \A S : Water!Cardinality(S) = Cardinality(S)
  BY DEF Water!Cardinality, Cardinality
<1>2. \A S : /\ Cardinality(Water!At(S) \cap Hydrogens) = n(S, Hydrogens)
             /\ Cardinality(Water!At(S) \cap Oxygens) = n(S, Oxygens)
             /\ Cardinality(Water!At(S)) = n(S, Hydrogens) + n(S, Oxygens)
  <2> SUFFICES ASSUME NEW S
               PROVE  /\ Cardinality(Water!At(S) \cap Hydrogens) = n(S, Hydrogens)
                      /\ Cardinality(Water!At(S) \cap Oxygens) = n(S, Oxygens)
                      /\ Cardinality(Water!At(S)) = n(S, Hydrogens) + n(S, Oxygens)
    OBVIOUS
  <2> DEFINE H == {a \in Hydrogens : atom_pc[a] \in S}
             O == {a \in Oxygens : atom_pc[a] \in S}
  <2>1. Water!At(S) \cap Hydrogens = H /\ Water!At(S) \cap Oxygens = O
    BY Kinds DEF Water!At
  <2>2. Water!At(S) = H \cup O /\ H \cap O = {}
    BY Kinds DEF Water!At
  <2>3. IsFiniteSet(H) /\ IsFiniteSet(O)
    <3>1. H \subseteq Hydrogens /\ O \subseteq Oxygens
      OBVIOUS
    <3> QED BY <3>1, Kinds, FS_Subset
  <2>4. Cardinality(H) = n(S, Hydrogens) /\ Cardinality(O) = n(S, Oxygens)
    BY DEF Num
  <2>5. Cardinality(H) \in Nat /\ Cardinality(O) \in Nat /\ Cardinality(H \cap O) = 0
    BY <2>2, <2>3, FS_CardinalityType, FS_EmptySet
  <2>6. Cardinality(H \cup O) = Cardinality(H) + Cardinality(O) - Cardinality(H \cap O)
    <3> HIDE DEF H, O
    <3> QED BY <2>3, FS_Union
  <2> HIDE DEF H, O, n
  <2>7. Cardinality(H \cup O) = Cardinality(H) + Cardinality(O)
    BY <2>5, <2>6
  <2> QED BY <2>1, <2>2, <2>4, <2>7
<1>3. \A S : Water!At(S) = {} <=> n(S, Hydrogens) = 0 /\ n(S, Oxygens) = 0
  <2>1. \A S : /\ n(S, Hydrogens) = 0 <=> \A a \in Hydrogens : atom_pc[a] \notin S
               /\ n(S, Oxygens) = 0 <=> \A a \in Oxygens : atom_pc[a] \notin S
    BY Kinds, NumAdds
  <2> HIDE DEF n
  <2> QED BY <2>1, Kinds DEF Water!At
<1>4. /\ bonded = inside <=> Water!At({"bond"}) = {}
      /\ admitted = inside <=> Water!At({"enter", "entering"}) = {} /\ Water!At({"release"}) = {}
  BY DEF Water!At
<1>5. ASSUME NEW C \in {Hydrogens, Oxygens}
      PROVE  /\ n({"enter", "entering", "bond", "leave", "leaving", "release"}, C) =
                  n({"enter", "entering"}, C)
                    + (n({"bond"}, C) + (n({"leave", "leaving"}, C) + n({"release"}, C)))
             /\ n({"bond", "leave", "leaving"}, C) = n({"bond"}, C) + n({"leave", "leaving"}, C)
             /\ n({"release", "done"}, C) = n({"release"}, C) + n({"done"}, C)
             /\ n({"enter", "entering"}, C) \in Nat /\ n({"bond"}, C) \in Nat
             /\ n({"leave", "leaving"}, C) \in Nat /\ n({"release"}, C) \in Nat
             /\ n({"done"}, C) \in Nat
  <2>0. IsFiniteSet(C)
    BY Kinds
  <2>1. /\ \A S : n(S, C) \in Nat
        /\ \A S, T : S \cap T = {} => n(S \cup T, C) = n(S, C) + n(T, C)
    BY <2>0, NumAdds
  <2> HIDE DEF n
  <2>2. /\ n({"leave", "leaving"} \cup {"release"}, C) = n({"leave", "leaving"}, C) + n({"release"}, C)
        /\ n({"bond"} \cup ({"leave", "leaving"} \cup {"release"}), C) =
             n({"bond"}, C) + n({"leave", "leaving"} \cup {"release"}, C)
        /\ n({"enter", "entering"} \cup ({"bond"} \cup ({"leave", "leaving"} \cup {"release"})), C) =
             n({"enter", "entering"}, C) + n({"bond"} \cup ({"leave", "leaving"} \cup {"release"}), C)
        /\ n({"bond"} \cup {"leave", "leaving"}, C) = n({"bond"}, C) + n({"leave", "leaving"}, C)
        /\ n({"release"} \cup {"done"}, C) = n({"release"}, C) + n({"done"}, C)
    BY <2>1
  <2>3. /\ {"enter", "entering"} \cup ({"bond"} \cup ({"leave", "leaving"} \cup {"release"})) =
             {"enter", "entering", "bond", "leave", "leaving", "release"}
        /\ {"bond"} \cup {"leave", "leaving"} = {"bond", "leave", "leaving"}
        /\ {"release"} \cup {"done"} = {"release", "done"}
    OBVIOUS
  <2> QED BY <2>1, <2>2, <2>3
<1>6. /\ inside # {} <=> n({"bond"}, Hydrogens) + n({"leave", "leaving"}, Hydrogens)
                           + n({"bond"}, Oxygens) + n({"leave", "leaving"}, Oxygens) > 0
      /\ bonded = inside <=> n({"bond"}, Hydrogens) + n({"bond"}, Oxygens) = 0
      /\ admitted = inside <=> /\ n({"enter", "entering"}, Hydrogens) = 0
                               /\ n({"enter", "entering"}, Oxygens) = 0
                               /\ n({"release"}, Hydrogens) = 0 /\ n({"release"}, Oxygens) = 0
  <2> HIDE DEF n
  <2>1. /\ inside = {} <=> /\ n({"bond", "leave", "leaving"}, Hydrogens) = 0
                          /\ n({"bond", "leave", "leaving"}, Oxygens) = 0
        /\ bonded = inside <=> n({"bond"}, Hydrogens) = 0 /\ n({"bond"}, Oxygens) = 0
        /\ admitted = inside <=> /\ n({"enter", "entering"}, Hydrogens) = 0
                                 /\ n({"enter", "entering"}, Oxygens) = 0
                                 /\ n({"release"}, Hydrogens) = 0 /\ n({"release"}, Oxygens) = 0
    <3>1. inside = {} <=> /\ n({"bond", "leave", "leaving"}, Hydrogens) = 0
                          /\ n({"bond", "leave", "leaving"}, Oxygens) = 0
      BY <1>3
    <3> HIDE DEF inside, bonded, admitted
    <3> QED BY <1>3, <1>4, <3>1
  <2> HIDE DEF inside, bonded, admitted
  <2> QED BY <1>5, <2>1
<1>7. Water!MultiplexInv <=>
        /\ hydrogen_multiplex = 2 - n({"enter", "entering", "bond", "leave", "leaving", "release"}, Hydrogens)
        /\ oxygen_multiplex = 1 - n({"enter", "entering", "bond", "leave", "leaving", "release"}, Oxygens)
        /\ inside # {} => admitted = inside
  <2> HIDE DEF n
  <2> QED BY <1>1, <1>2 DEF Water!MultiplexInv, Water!Admitted, Water!Inside
<1>8. Water!OneMoleculeAtATime <=>
        /\ inside # {} => /\ n({"bond", "leave", "leaving"}, Hydrogens) = 2
                          /\ n({"bond", "leave", "leaving"}, Oxygens) = 1
        /\ bonded = inside => hydrogen_count = 0 /\ oxygen_count = 0
        /\ bonded # inside => /\ hydrogen_count = n({"leave", "leaving"}, Hydrogens)
                              /\ oxygen_count = n({"leave", "leaving"}, Oxygens)
        /\ 3 * molecule_count = n({"release", "done"}, Hydrogens) + n({"release", "done"}, Oxygens)
             + (IF bonded = inside THEN n({"bond", "leave", "leaving"}, Hydrogens)
                                          + n({"bond", "leave", "leaving"}, Oxygens) ELSE 0)
  <2> HIDE DEF n
  <2> QED BY <1>1, <1>2 DEF Water!OneMoleculeAtATime
<1> HIDE DEF n, inside, bonded, admitted
<1>9. MoleculesOf(atom_pc, hydrogen_multiplex, oxygen_multiplex, hydrogen_count, oxygen_count,
                  molecule_count) <=>
        Molecules(n({"enter", "entering"}, Hydrogens), n({"bond"}, Hydrogens),
                  n({"leave", "leaving"}, Hydrogens), n({"release"}, Hydrogens),
                  n({"done"}, Hydrogens),
                  n({"enter", "entering"}, Oxygens), n({"bond"}, Oxygens),
                  n({"leave", "leaving"}, Oxygens), n({"release"}, Oxygens),
                  n({"done"}, Oxygens), hydrogen_multiplex, oxygen_multiplex, hydrogen_count,
                  oxygen_count, molecule_count)
  BY DEF MoleculesOf, n
<1>10. Water!MultiplexInv <=>
        /\ hydrogen_multiplex = 2 - (n({"enter", "entering"}, Hydrogens)
             + (n({"bond"}, Hydrogens) + (n({"leave", "leaving"}, Hydrogens) + n({"release"}, Hydrogens))))
        /\ oxygen_multiplex = 1 - (n({"enter", "entering"}, Oxygens)
             + (n({"bond"}, Oxygens) + (n({"leave", "leaving"}, Oxygens) + n({"release"}, Oxygens))))
        /\ inside # {} => admitted = inside
  BY <1>5, <1>7
<1>11. Water!OneMoleculeAtATime <=>
        /\ inside # {} => /\ n({"bond"}, Hydrogens) + n({"leave", "leaving"}, Hydrogens) = 2
                          /\ n({"bond"}, Oxygens) + n({"leave", "leaving"}, Oxygens) = 1
        /\ bonded = inside => hydrogen_count = 0 /\ oxygen_count = 0
        /\ bonded # inside => /\ hydrogen_count = n({"leave", "leaving"}, Hydrogens)
                              /\ oxygen_count = n({"leave", "leaving"}, Oxygens)
        /\ 3 * molecule_count = n({"release"}, Hydrogens) + n({"done"}, Hydrogens)
             + (n({"release"}, Oxygens) + n({"done"}, Oxygens))
             + (IF bonded = inside THEN n({"bond"}, Hydrogens) + n({"leave", "leaving"}, Hydrogens)
                             + (n({"bond"}, Oxygens) + n({"leave", "leaving"}, Oxygens)) ELSE 0)
  BY <1>5, <1>8
<1>12. bonded = inside => n({"bond"}, Hydrogens) = 0 /\ n({"bond"}, Oxygens) = 0
  BY <1>5, <1>6
<1>13. /\ bonded # inside <=> n({"bond"}, Hydrogens) + n({"bond"}, Oxygens) > 0
       /\ n({"release"}, Hydrogens) + n({"done"}, Hydrogens)
             + (n({"release"}, Oxygens) + n({"done"}, Oxygens))
             + (IF bonded = inside THEN n({"bond"}, Hydrogens) + n({"leave", "leaving"}, Hydrogens)
                             + (n({"bond"}, Oxygens) + n({"leave", "leaving"}, Oxygens)) ELSE 0)
           = n({"release"}, Hydrogens) + n({"done"}, Hydrogens)
             + n({"release"}, Oxygens) + n({"done"}, Oxygens)
             + (IF n({"bond"}, Hydrogens) + n({"bond"}, Oxygens) = 0
                  THEN n({"leave", "leaving"}, Hydrogens) + n({"leave", "leaving"}, Oxygens) ELSE 0)
  <2>1. \A C \in {Hydrogens, Oxygens} :
          /\ n({"bond"}, C) \in Nat /\ n({"leave", "leaving"}, C) \in Nat
          /\ n({"release"}, C) \in Nat /\ n({"done"}, C) \in Nat
    BY <1>5
  <2>2. bonded = inside <=> n({"bond"}, Hydrogens) + n({"bond"}, Oxygens) = 0
    BY <1>6
  <2>3. CASE bonded = inside
    BY <1>12, <2>1, <2>2, <2>3
  <2>4. CASE bonded # inside
    BY <2>1, <2>2, <2>4
  <2> QED BY <2>3, <2>4
<1> QED BY <1>6, <1>9, <1>10, <1>11, <1>13 DEF Molecules

NaturalMolecules(hIn, hBond, hBonded, hRel, hDone, oIn, oBond, oBonded, oRel, oDone,
                 hm, om, hc, oc, mc) ==
  /\ hIn \in Nat /\ hBond \in Nat /\ hBonded \in Nat /\ hRel \in Nat /\ hDone \in Nat
  /\ oIn \in Nat /\ oBond \in Nat /\ oBonded \in Nat /\ oRel \in Nat /\ oDone \in Nat
  /\ hm \in Nat /\ om \in Nat /\ hc \in Nat /\ oc \in Nat /\ mc \in Nat
  /\ Molecules(hIn, hBond, hBonded, hRel, hDone, oIn, oBond, oBonded, oRel, oDone,
               hm, om, hc, oc, mc)

\* What each step does to these numbers.
LEMMA MoleculesStep ==
  ASSUME NEW hIn, NEW hBond, NEW hBonded, NEW hRel, NEW hDone, NEW oIn, NEW oBond, NEW oBonded,
         NEW oRel, NEW oDone, NEW hm, NEW om, NEW hc, NEW oc, NEW mc,
         NaturalMolecules(hIn, hBond, hBonded, hRel, hDone, oIn, oBond, oBonded, oRel, oDone,
                          hm, om, hc, oc, mc)
  PROVE  /\ hm > 0 => Molecules(hIn + 1, hBond, hBonded, hRel, hDone, oIn, oBond, oBonded, oRel,
                                oDone, hm - 1, om, hc, oc, mc)
         /\ om > 0 => Molecules(hIn, hBond, hBonded, hRel, hDone, oIn + 1, oBond, oBonded, oRel,
                                oDone, hm, om - 1, hc, oc, mc)
         /\ hBond > 0 =>
              Molecules(hIn, hBond - 1, hBonded + 1, hRel, hDone, oIn, oBond, oBonded, oRel, oDone,
                        hm, om, IF hc + 1 = 2 /\ oc = 1 THEN 0 ELSE hc + 1,
                        IF hc + 1 = 2 /\ oc = 1 THEN 0 ELSE oc,
                        mc + (IF hc + 1 = 2 /\ oc = 1 THEN 1 ELSE 0))
         /\ oBond > 0 =>
              Molecules(hIn, hBond, hBonded, hRel, hDone, oIn, oBond - 1, oBonded + 1, oRel, oDone,
                        hm, om, IF hc = 2 /\ oc + 1 = 1 THEN 0 ELSE hc,
                        IF hc = 2 /\ oc + 1 = 1 THEN 0 ELSE oc + 1,
                        mc + (IF hc = 2 /\ oc + 1 = 1 THEN 1 ELSE 0))
         /\ hRel > 0 => Molecules(hIn, hBond, hBonded, hRel - 1, hDone + 1, oIn, oBond, oBonded,
                                  oRel, oDone, hm + 1, om, hc, oc, mc) /\ hm < 2
         /\ oRel > 0 => Molecules(hIn, hBond, hBonded, hRel, hDone, oIn, oBond, oBonded,
                                  oRel - 1, oDone + 1, hm, om + 1, hc, oc, mc) /\ om < 1
         /\ hIn + oIn >= 3 =>
              Molecules(0, hIn, hBonded, hRel, hDone, 0, oIn, oBonded, oRel, oDone,
                        hm, om, hc, oc, mc)
              /\ hIn + oIn = 3 /\ hBond = 0 /\ oBond = 0 /\ hBonded = 0 /\ oBonded = 0
         /\ hBonded + oBonded >= 3 =>
              Molecules(hIn, hBond, 0, hRel + hBonded, hDone, oIn, oBond, 0, oRel + oBonded, oDone,
                        hm, om, hc, oc, mc)
              /\ hBonded + oBonded = 3 /\ hRel = 0 /\ oRel = 0
         /\ hIn + oIn > 0 => hBonded = 0 /\ oBonded = 0
<1> USE DEF NaturalMolecules
<1>1. /\ hm > 0 => Molecules(hIn + 1, hBond, hBonded, hRel, hDone, oIn, oBond, oBonded, oRel,
                                oDone, hm - 1, om, hc, oc, mc)
      /\ om > 0 => Molecules(hIn, hBond, hBonded, hRel, hDone, oIn + 1, oBond, oBonded, oRel,
                                oDone, hm, om - 1, hc, oc, mc)
      /\ hIn + oIn > 0 => hBonded = 0 /\ oBonded = 0
  BY DEF Molecules
<1>2. hBond > 0 =>
        Molecules(hIn, hBond - 1, hBonded + 1, hRel, hDone, oIn, oBond, oBonded, oRel, oDone,
                  hm, om, IF hc + 1 = 2 /\ oc = 1 THEN 0 ELSE hc + 1,
                  IF hc + 1 = 2 /\ oc = 1 THEN 0 ELSE oc,
                  mc + (IF hc + 1 = 2 /\ oc = 1 THEN 1 ELSE 0))
  BY DEF Molecules
<1>3. oBond > 0 =>
        Molecules(hIn, hBond, hBonded, hRel, hDone, oIn, oBond - 1, oBonded + 1, oRel, oDone,
                  hm, om, IF hc = 2 /\ oc + 1 = 1 THEN 0 ELSE hc,
                  IF hc = 2 /\ oc + 1 = 1 THEN 0 ELSE oc + 1,
                  mc + (IF hc = 2 /\ oc + 1 = 1 THEN 1 ELSE 0))
  BY DEF Molecules
<1>4. /\ hRel > 0 => Molecules(hIn, hBond, hBonded, hRel - 1, hDone + 1, oIn, oBond, oBonded,
                                  oRel, oDone, hm + 1, om, hc, oc, mc) /\ hm < 2
      /\ oRel > 0 => Molecules(hIn, hBond, hBonded, hRel, hDone, oIn, oBond, oBonded,
                                  oRel - 1, oDone + 1, hm, om + 1, hc, oc, mc) /\ om < 1
  BY DEF Molecules
<1>5. hIn + oIn >= 3 =>
        /\ hIn = 2 /\ oIn = 1 /\ hBond = 0 /\ oBond = 0 /\ hBonded = 0 /\ oBonded = 0
        /\ hRel = 0 /\ oRel = 0
  BY DEF Molecules
<1>6. hIn + oIn >= 3 =>
        Molecules(0, hIn, hBonded, hRel, hDone, 0, oIn, oBonded, oRel, oDone, hm, om, hc, oc, mc)
  BY <1>5 DEF Molecules
<1>7. hBonded + oBonded >= 3 =>
        /\ hBonded = 2 /\ oBonded = 1 /\ hBond = 0 /\ oBond = 0 /\ hIn = 0 /\ oIn = 0
        /\ hRel = 0 /\ oRel = 0
  BY DEF Molecules
<1>8. hBonded + oBonded >= 3 =>
        Molecules(hIn, hBond, 0, hRel + hBonded, hDone, oIn, oBond, 0, oRel + oBonded, oDone,
                  hm, om, hc, oc, mc)
  BY <1>7 DEF Molecules
<1> QED BY <1>1, <1>2, <1>3, <1>4, <1>5, <1>6, <1>7, <1>8

LEMMA WaterInNumbersNext ==
  (Water!MultiplexInv /\ Water!OneMoleculeAtATime <=>
    MoleculesOf(atom_pc, hydrogen_multiplex, oxygen_multiplex, hydrogen_count, oxygen_count,
                molecule_count))'
BY WaterInNumbers, PTL

LEMMA WaterStarts == Water!Init => Water!IInv
<1> SUFFICES ASSUME Water!Init PROVE Water!IInv
  OBVIOUS
<1>1. /\ atom_pc = [a \in Water!Atoms |-> "acquire"]
      /\ hydrogen_multiplex = 2 /\ oxygen_multiplex = 1
      /\ hydrogen_count = 0 /\ oxygen_count = 0 /\ molecule_count = 0
  BY DEF Water!Init
<1>2. Water!TypeOK
  BY <1>1 DEF Water!TypeOK
<1>3. \A a \in Hydrogens \cup Oxygens : atom_pc[a] = "acquire"
  BY <1>1, Kinds
<1>4. ASSUME NEW C \in {Hydrogens, Oxygens}
      PROVE  /\ Num(atom_pc, {"enter", "entering"}, C) = 0 /\ Num(atom_pc, {"bond"}, C) = 0
             /\ Num(atom_pc, {"leave", "leaving"}, C) = 0 /\ Num(atom_pc, {"release"}, C) = 0
             /\ Num(atom_pc, {"done"}, C) = 0
  <2>1. IsFiniteSet(C) /\ \A a \in C : atom_pc[a] = "acquire"
    BY <1>3, Kinds
  <2>2. \A S : Num(atom_pc, S, C) = 0 <=> \A a \in C : atom_pc[a] \notin S
    BY <2>1, NumAdds
  <2> QED BY <2>1, <2>2
<1>5. MoleculesOf(atom_pc, hydrogen_multiplex, oxygen_multiplex, hydrogen_count, oxygen_count,
                  molecule_count)
  BY <1>1, <1>4 DEF MoleculesOf, Molecules
<1> QED BY <1>2, <1>5, WaterInNumbers DEF Water!IInv


LEMMA NumbersAreNatural ==
  ASSUME NEW pc
  PROVE  \A C \in {Hydrogens, Oxygens} : \A S : Num(pc, S, C) \in Nat
<1> SUFFICES ASSUME NEW C \in {Hydrogens, Oxygens} PROVE \A S : Num(pc, S, C) \in Nat
  OBVIOUS
<1>1. IsFiniteSet(C)
  BY Kinds
<1> QED BY <1>1, NumAdds

\* The numbers of a kind when one of its atoms acquires its semaphore, arrives at the
\* barrier before the others, bonds or releases.
LEMMA KindMoves ==
  ASSUME NEW old, NEW new, NEW C \in {Hydrogens, Oxygens}, NEW a \in C,
         \A b \in C : b # a => new[b] = old[b]
  PROVE  LET n(S) == Num(old, S, C)
             m(S) == Num(new, S, C)
         IN /\ old[a] = "acquire" /\ new[a] = "enter" =>
                 /\ m({"enter", "entering"}) = n({"enter", "entering"}) + 1
                 /\ m({"bond"}) = n({"bond"}) /\ m({"leave", "leaving"}) = n({"leave", "leaving"})
                 /\ m({"release"}) = n({"release"}) /\ m({"done"}) = n({"done"})
            /\ old[a] = "bond" /\ new[a] = "leave" =>
                 /\ m({"enter", "entering"}) = n({"enter", "entering"}) /\ n({"bond"}) > 0
                 /\ m({"bond"}) = n({"bond"}) - 1
                 /\ m({"leave", "leaving"}) = n({"leave", "leaving"}) + 1
                 /\ m({"release"}) = n({"release"}) /\ m({"done"}) = n({"done"})
            /\ old[a] = "release" /\ new[a] = "done" =>
                 /\ m({"enter", "entering"}) = n({"enter", "entering"})
                 /\ m({"bond"}) = n({"bond"}) /\ m({"leave", "leaving"}) = n({"leave", "leaving"})
                 /\ n({"release"}) > 0
                 /\ m({"release"}) = n({"release"}) - 1 /\ m({"done"}) = n({"done"}) + 1
            /\ \/ old[a] = "enter" /\ new[a] = "entering"
               \/ old[a] = "leave" /\ new[a] = "leaving"
               => /\ m({"enter", "entering"}) = n({"enter", "entering"})
                  /\ m({"bond"}) = n({"bond"}) /\ m({"leave", "leaving"}) = n({"leave", "leaving"})
                  /\ m({"release"}) = n({"release"}) /\ m({"done"}) = n({"done"})
<1> DEFINE n(S) == Num(old, S, C)
           m(S) == Num(new, S, C)
<1>1. IsFiniteSet(C)
  BY Kinds
<1>2. \A S : m(S) = n(S) + (IF a \in C /\ new[a] \in S THEN 1 ELSE 0)
                         - (IF a \in C /\ old[a] \in S THEN 1 ELSE 0)
  BY <1>1, NumMoves
<1>3. \A S : n(S) \in Nat /\ m(S) \in Nat /\ (old[a] \in S => n(S) # 0)
  BY <1>1, NumAdds
<1> HIDE DEF n, m
<1>4. \A S : /\ new[a] \in S /\ old[a] \notin S => m(S) = n(S) + 1
             /\ new[a] \notin S /\ old[a] \in S => m(S) = n(S) - 1 /\ n(S) > 0
             /\ (new[a] \in S <=> old[a] \in S) => m(S) = n(S)
  <2> SUFFICES ASSUME NEW S
               PROVE  /\ new[a] \in S /\ old[a] \notin S => m(S) = n(S) + 1
                      /\ new[a] \notin S /\ old[a] \in S => m(S) = n(S) - 1 /\ n(S) > 0
                      /\ (new[a] \in S <=> old[a] \in S) => m(S) = n(S)
    OBVIOUS
  <2>1. n(S) \in Nat /\ m(S) \in Nat /\ (old[a] \in S => n(S) # 0)
    BY <1>3
  <2>2. m(S) = n(S) + (IF new[a] \in S THEN 1 ELSE 0) - (IF old[a] \in S THEN 1 ELSE 0)
    BY <1>2
  <2> QED BY <2>1, <2>2
<1> QED BY <1>4 DEF n, m

LEMMA OtherKindStays ==
  ASSUME NEW old, NEW new, NEW C, \A b \in C : new[b] = old[b]
  PROVE  \A S : Num(new, S, C) = Num(old, S, C)
BY DEF Num

\* One atom moves: the invariant in numbers.
LEMMA AtomMoves ==
  ASSUME NEW old, NEW new, NEW a, a \in Hydrogens \/ a \in Oxygens,
         \A b \in Hydrogens \cup Oxygens : b # a => new[b] = old[b],
         NEW hm \in Nat, NEW om \in Nat, NEW hc \in Nat, NEW oc \in Nat, NEW mc \in Nat,
         MoleculesOf(old, hm, om, hc, oc, mc)
  PROVE  /\ old[a] = "acquire" /\ new[a] = "enter" =>
              /\ a \in Hydrogens /\ hm > 0 => MoleculesOf(new, hm - 1, om, hc, oc, mc)
              /\ a \in Oxygens /\ om > 0 => MoleculesOf(new, hm, om - 1, hc, oc, mc)
         /\ old[a] = "bond" /\ new[a] = "leave" =>
              /\ a \in Hydrogens =>
                   MoleculesOf(new, hm, om, IF hc + 1 = 2 /\ oc = 1 THEN 0 ELSE hc + 1,
                               IF hc + 1 = 2 /\ oc = 1 THEN 0 ELSE oc,
                               mc + (IF hc + 1 = 2 /\ oc = 1 THEN 1 ELSE 0))
              /\ a \in Oxygens =>
                   MoleculesOf(new, hm, om, IF hc = 2 /\ oc + 1 = 1 THEN 0 ELSE hc,
                               IF hc = 2 /\ oc + 1 = 1 THEN 0 ELSE oc + 1,
                               mc + (IF hc = 2 /\ oc + 1 = 1 THEN 1 ELSE 0))
         /\ old[a] = "release" /\ new[a] = "done" =>
              /\ a \in Hydrogens => MoleculesOf(new, hm + 1, om, hc, oc, mc) /\ hm < 2
              /\ a \in Oxygens => MoleculesOf(new, hm, om + 1, hc, oc, mc) /\ om < 1
         /\ \/ old[a] = "enter" /\ new[a] = "entering"
            \/ old[a] = "leave" /\ new[a] = "leaving"
            => MoleculesOf(new, hm, om, hc, oc, mc)
<1> DEFINE h(S) == Num(old, S, Hydrogens)   o(S) == Num(old, S, Oxygens)
           p(S) == Num(new, S, Hydrogens)   q(S) == Num(new, S, Oxygens)
           hIn == h({"enter", "entering"})        oIn == o({"enter", "entering"})
           hBond == h({"bond"})                   oBond == o({"bond"})
           hBonded == h({"leave", "leaving"})     oBonded == o({"leave", "leaving"})
           hRel == h({"release"})                 oRel == o({"release"})
           hDone == h({"done"})                   oDone == o({"done"})
           pIn == p({"enter", "entering"})        qIn == q({"enter", "entering"})
           pBond == p({"bond"})                   qBond == q({"bond"})
           pBonded == p({"leave", "leaving"})     qBonded == q({"leave", "leaving"})
           pRel == p({"release"})                 qRel == q({"release"})
           pDone == p({"done"})                   qDone == q({"done"})
           Old(x, y, u, v, w) == Molecules(hIn, hBond, hBonded, hRel, hDone,
                                           oIn, oBond, oBonded, oRel, oDone, x, y, u, v, w)
           New(x, y, u, v, w) == Molecules(pIn, pBond, pBonded, pRel, pDone,
                                           qIn, qBond, qBonded, qRel, qDone, x, y, u, v, w)
<1>1. /\ hIn \in Nat /\ hBond \in Nat /\ hBonded \in Nat /\ hRel \in Nat /\ hDone \in Nat
      /\ oIn \in Nat /\ oBond \in Nat /\ oBonded \in Nat /\ oRel \in Nat /\ oDone \in Nat
  BY NumbersAreNatural
<1>0. Old(hm, om, hc, oc, mc)
  BY DEF MoleculesOf
<1>2. /\ \A x, y, u, v, w : MoleculesOf(new, x, y, u, v, w) <=> New(x, y, u, v, w)
  BY DEF MoleculesOf
<1>3. a \in Hydrogens =>
        /\ qIn = oIn /\ qBond = oBond /\ qBonded = oBonded /\ qRel = oRel /\ qDone = oDone
        /\ old[a] = "acquire" /\ new[a] = "enter" =>
             pIn = hIn + 1 /\ pBond = hBond /\ pBonded = hBonded /\ pRel = hRel /\ pDone = hDone
        /\ old[a] = "bond" /\ new[a] = "leave" =>
             /\ pIn = hIn /\ hBond > 0 /\ pBond = hBond - 1 /\ pBonded = hBonded + 1
             /\ pRel = hRel /\ pDone = hDone
        /\ old[a] = "release" /\ new[a] = "done" =>
             /\ pIn = hIn /\ pBond = hBond /\ pBonded = hBonded
             /\ hRel > 0 /\ pRel = hRel - 1 /\ pDone = hDone + 1
        /\ (\/ old[a] = "enter" /\ new[a] = "entering"
            \/ old[a] = "leave" /\ new[a] = "leaving")
           => pIn = hIn /\ pBond = hBond /\ pBonded = hBonded /\ pRel = hRel /\ pDone = hDone
  <2> SUFFICES ASSUME a \in Hydrogens
               PROVE  <1>3!2
    OBVIOUS
  <2>1. \A b \in Oxygens : new[b] = old[b]
    BY Kinds
  <2>2. qIn = oIn /\ qBond = oBond /\ qBonded = oBonded /\ qRel = oRel /\ qDone = oDone
    BY <2>1, OtherKindStays
  <2>3. \A b \in Hydrogens : b # a => new[b] = old[b]
    OBVIOUS
  <2> QED BY <2>2, <2>3, KindMoves
<1>4. a \in Oxygens =>
        /\ pIn = hIn /\ pBond = hBond /\ pBonded = hBonded /\ pRel = hRel /\ pDone = hDone
        /\ old[a] = "acquire" /\ new[a] = "enter" =>
             qIn = oIn + 1 /\ qBond = oBond /\ qBonded = oBonded /\ qRel = oRel /\ qDone = oDone
        /\ old[a] = "bond" /\ new[a] = "leave" =>
             /\ qIn = oIn /\ oBond > 0 /\ qBond = oBond - 1 /\ qBonded = oBonded + 1
             /\ qRel = oRel /\ qDone = oDone
        /\ old[a] = "release" /\ new[a] = "done" =>
             /\ qIn = oIn /\ qBond = oBond /\ qBonded = oBonded
             /\ oRel > 0 /\ qRel = oRel - 1 /\ qDone = oDone + 1
        /\ (\/ old[a] = "enter" /\ new[a] = "entering"
            \/ old[a] = "leave" /\ new[a] = "leaving")
           => qIn = oIn /\ qBond = oBond /\ qBonded = oBonded /\ qRel = oRel /\ qDone = oDone
  <2> SUFFICES ASSUME a \in Oxygens
               PROVE  <1>4!2
    OBVIOUS
  <2>1. \A b \in Hydrogens : new[b] = old[b]
    BY Kinds
  <2>2. pIn = hIn /\ pBond = hBond /\ pBonded = hBonded /\ pRel = hRel /\ pDone = hDone
    BY <2>1, OtherKindStays
  <2>3. \A b \in Oxygens : b # a => new[b] = old[b]
    OBVIOUS
  <2> QED BY <2>2, <2>3, KindMoves
<1> HIDE DEF hIn, hBond, hBonded, hRel, hDone, oIn, oBond, oBonded, oRel, oDone,
             pIn, pBond, pBonded, pRel, pDone, qIn, qBond, qBonded, qRel, qDone
<1>5. /\ hm > 0 => Molecules(hIn + 1, hBond, hBonded, hRel, hDone, oIn, oBond, oBonded, oRel,
                             oDone, hm - 1, om, hc, oc, mc)
      /\ om > 0 => Molecules(hIn, hBond, hBonded, hRel, hDone, oIn + 1, oBond, oBonded, oRel,
                             oDone, hm, om - 1, hc, oc, mc)
      /\ hBond > 0 =>
           Molecules(hIn, hBond - 1, hBonded + 1, hRel, hDone, oIn, oBond, oBonded, oRel, oDone,
                     hm, om, IF hc + 1 = 2 /\ oc = 1 THEN 0 ELSE hc + 1,
                     IF hc + 1 = 2 /\ oc = 1 THEN 0 ELSE oc,
                     mc + (IF hc + 1 = 2 /\ oc = 1 THEN 1 ELSE 0))
      /\ oBond > 0 =>
           Molecules(hIn, hBond, hBonded, hRel, hDone, oIn, oBond - 1, oBonded + 1, oRel, oDone,
                     hm, om, IF hc = 2 /\ oc + 1 = 1 THEN 0 ELSE hc,
                     IF hc = 2 /\ oc + 1 = 1 THEN 0 ELSE oc + 1,
                     mc + (IF hc = 2 /\ oc + 1 = 1 THEN 1 ELSE 0))
      /\ hRel > 0 => Molecules(hIn, hBond, hBonded, hRel - 1, hDone + 1, oIn, oBond, oBonded,
                               oRel, oDone, hm + 1, om, hc, oc, mc) /\ hm < 2
      /\ oRel > 0 => Molecules(hIn, hBond, hBonded, hRel, hDone, oIn, oBond, oBonded,
                               oRel - 1, oDone + 1, hm, om + 1, hc, oc, mc) /\ om < 1
  <2> HIDE DEF New
  <2>1. NaturalMolecules(hIn, hBond, hBonded, hRel, hDone, oIn, oBond, oBonded, oRel, oDone,
                             hm, om, hc, oc, mc)
    BY <1>0, <1>1 DEF NaturalMolecules
  <2> QED BY <2>1, MoleculesStep
<1>6. CASE a \in Hydrogens
  <2>0. a \notin Oxygens
    BY <1>6, Kinds
  <2>1. old[a] = "acquire" /\ new[a] = "enter" /\ hm > 0 => New(hm - 1, om, hc, oc, mc)
    BY <1>3, <1>5, <1>6
  <2>2. old[a] = "bond" /\ new[a] = "leave" =>
          New(hm, om, IF hc + 1 = 2 /\ oc = 1 THEN 0 ELSE hc + 1, IF hc + 1 = 2 /\ oc = 1 THEN 0 ELSE oc,
              mc + (IF hc + 1 = 2 /\ oc = 1 THEN 1 ELSE 0))
    BY <1>3, <1>5, <1>6
  <2>3. old[a] = "release" /\ new[a] = "done" => New(hm + 1, om, hc, oc, mc) /\ hm < 2
    BY <1>3, <1>5, <1>6
  <2>4. \/ old[a] = "enter" /\ new[a] = "entering"
        \/ old[a] = "leave" /\ new[a] = "leaving"
        => New(hm, om, hc, oc, mc)
    BY <1>0, <1>3, <1>6
  <2> HIDE DEF New
  <2> QED BY <1>2, <1>6, <2>0, <2>1, <2>2, <2>3, <2>4
<1>7. CASE a \in Oxygens
  <2>0. a \notin Hydrogens
    BY <1>7, Kinds
  <2>1. old[a] = "acquire" /\ new[a] = "enter" /\ om > 0 => New(hm, om - 1, hc, oc, mc)
    BY <1>4, <1>5, <1>7
  <2>2. old[a] = "bond" /\ new[a] = "leave" =>
          New(hm, om, IF hc = 2 /\ oc + 1 = 1 THEN 0 ELSE hc, IF hc = 2 /\ oc + 1 = 1 THEN 0 ELSE oc + 1,
              mc + (IF hc = 2 /\ oc + 1 = 1 THEN 1 ELSE 0))
    BY <1>4, <1>5, <1>7
  <2>3. old[a] = "release" /\ new[a] = "done" => New(hm, om + 1, hc, oc, mc) /\ om < 1
    BY <1>4, <1>5, <1>7
  <2>4. \/ old[a] = "enter" /\ new[a] = "entering"
        \/ old[a] = "leave" /\ new[a] = "leaving"
        => New(hm, om, hc, oc, mc)
    BY <1>0, <1>4, <1>7
  <2> HIDE DEF New
  <2> QED BY <1>2, <1>7, <2>0, <2>1, <2>2, <2>3, <2>4
<1> QED BY <1>6, <1>7

LEMMA BothKinds ==
  ASSUME NEW pc, NEW S
  PROVE  LET there == {b \in Hydrogens \cup Oxygens : pc[b] \in S}
         IN IsFiniteSet(there) /\ Cardinality(there) = Num(pc, S, Hydrogens) + Num(pc, S, Oxygens)
<1> DEFINE X == {b \in Hydrogens : pc[b] \in S}
           Y == {b \in Oxygens : pc[b] \in S}
           Both == {b \in Hydrogens \cup Oxygens : pc[b] \in S}
<1>1. X \subseteq Hydrogens /\ Y \subseteq Oxygens /\ Both = X \cup Y
  OBVIOUS
<1>2. X \cap Y = {}
  BY Kinds
<1>3. Cardinality(X) = Num(pc, S, Hydrogens) /\ Cardinality(Y) = Num(pc, S, Oxygens)
  BY DEF Num
<1> HIDE DEF X, Y, Both
<1>4. IsFiniteSet(X) /\ IsFiniteSet(Y)
  BY <1>1, Kinds, FS_Subset
<1>5. Cardinality(X) \in Nat /\ Cardinality(Y) \in Nat /\ Cardinality(X \cap Y) = 0
  BY <1>2, <1>4, FS_CardinalityType, FS_EmptySet
<1>6. /\ IsFiniteSet(X \cup Y)
      /\ Cardinality(X \cup Y) = Cardinality(X) + Cardinality(Y) - Cardinality(X \cap Y)
  BY <1>4, FS_Union
<1>7. Cardinality(X \cup Y) = Cardinality(X) + Cardinality(Y)
  BY <1>5, <1>6
<1>8. IsFiniteSet(Both) /\ Cardinality(Both) = Num(pc, S, Hydrogens) + Num(pc, S, Oxygens)
  BY <1>1, <1>3, <1>6, <1>7
<1> QED BY <1>8 DEF Both

\* The third atom on its way in lets all those on their way in pass.
LEMMA ThreeEnter ==
  ASSUME NEW old, NEW new, NEW hm \in Nat, NEW om \in Nat, NEW hc \in Nat, NEW oc \in Nat,
         NEW mc \in Nat, MoleculesOf(old, hm, om, hc, oc, mc),
         \A b \in Hydrogens \cup Oxygens :
            new[b] = IF old[b] \in {"enter", "entering"} THEN "bond" ELSE old[b],
         Num(old, {"enter", "entering"}, Hydrogens) + Num(old, {"enter", "entering"}, Oxygens) >= 3
  PROVE  MoleculesOf(new, hm, om, hc, oc, mc)
<1> DEFINE hIn == Num(old, {"enter", "entering"}, Hydrogens)
           hBond == Num(old, {"bond"}, Hydrogens)
           hBonded == Num(old, {"leave", "leaving"}, Hydrogens)
           hRel == Num(old, {"release"}, Hydrogens)    hDone == Num(old, {"done"}, Hydrogens)
           oIn == Num(old, {"enter", "entering"}, Oxygens)
           oBond == Num(old, {"bond"}, Oxygens)
           oBonded == Num(old, {"leave", "leaving"}, Oxygens)
           oRel == Num(old, {"release"}, Oxygens)      oDone == Num(old, {"done"}, Oxygens)
<1>1. /\ hIn \in Nat /\ hBond \in Nat /\ hBonded \in Nat /\ hRel \in Nat /\ hDone \in Nat
      /\ oIn \in Nat /\ oBond \in Nat /\ oBonded \in Nat /\ oRel \in Nat /\ oDone \in Nat
  BY NumbersAreNatural
<1>2. Molecules(hIn, hBond, hBonded, hRel, hDone, oIn, oBond, oBonded, oRel, oDone, hm, om, hc, oc, mc)
  BY DEF MoleculesOf
<1>3. hIn + oIn >= 3
  OBVIOUS
<1>4. ASSUME NEW C \in {Hydrogens, Oxygens}
      PROVE  /\ Num(new, {"enter", "entering"}, C) = 0
             /\ Num(new, {"bond"}, C) =
                  Num(old, {"bond"}, C) + Num(old, {"enter", "entering"}, C)
             /\ Num(new, {"leave", "leaving"}, C) = Num(old, {"leave", "leaving"}, C)
             /\ Num(new, {"release"}, C) = Num(old, {"release"}, C)
             /\ Num(new, {"done"}, C) = Num(old, {"done"}, C)
  <2>0. /\ IsFiniteSet(C)
        /\ \A b \in C : new[b] = IF old[b] \in {"enter", "entering"} THEN "bond" ELSE old[b]
    BY Kinds
  <2>1. Num(new, {"enter", "entering"}, C) = 0
    <3>1. \A b \in C : new[b] \notin {"enter", "entering"}
      BY <2>0
    <3> QED BY <2>0, <3>1, NumAdds
  <2>2. Num(new, {"bond"}, C) = Num(old, {"bond"} \cup {"enter", "entering"}, C)
    <3>1. {b \in C : new[b] \in {"bond"}} = {b \in C : old[b] \in {"bond"} \cup {"enter", "entering"}}
      BY <2>0
    <3> QED BY <3>1 DEF Num
  <2>3. {"bond"} \cap {"enter", "entering"} = {}
    OBVIOUS
  <2>4. Num(old, {"bond"} \cup {"enter", "entering"}, C) =
          Num(old, {"bond"}, C) + Num(old, {"enter", "entering"}, C)
    BY <2>0, <2>3, NumAdds
  <2>5. /\ {b \in C : new[b] \in {"leave", "leaving"}} = {b \in C : old[b] \in {"leave", "leaving"}}
        /\ {b \in C : new[b] \in {"release"}} = {b \in C : old[b] \in {"release"}}
        /\ {b \in C : new[b] \in {"done"}} = {b \in C : old[b] \in {"done"}}
    BY <2>0
  <2>6. /\ Num(new, {"leave", "leaving"}, C) = Num(old, {"leave", "leaving"}, C)
        /\ Num(new, {"release"}, C) = Num(old, {"release"}, C)
        /\ Num(new, {"done"}, C) = Num(old, {"done"}, C)
    BY <2>5 DEF Num
  <2> QED BY <2>1, <2>2, <2>4, <2>6
<1>5. /\ Num(new, {"enter", "entering"}, Hydrogens) = 0 /\ Num(new, {"bond"}, Hydrogens) = hBond + hIn
      /\ Num(new, {"leave", "leaving"}, Hydrogens) = hBonded
      /\ Num(new, {"release"}, Hydrogens) = hRel /\ Num(new, {"done"}, Hydrogens) = hDone
      /\ Num(new, {"enter", "entering"}, Oxygens) = 0 /\ Num(new, {"bond"}, Oxygens) = oBond + oIn
      /\ Num(new, {"leave", "leaving"}, Oxygens) = oBonded
      /\ Num(new, {"release"}, Oxygens) = oRel /\ Num(new, {"done"}, Oxygens) = oDone
  BY <1>4
<1> HIDE DEF hIn, hBond, hBonded, hRel, hDone, oIn, oBond, oBonded, oRel, oDone
<1>6. /\ Molecules(0, hIn, hBonded, hRel, hDone, 0, oIn, oBonded, oRel, oDone, hm, om, hc, oc, mc)
      /\ hBond = 0 /\ oBond = 0
  <2>1. NaturalMolecules(hIn, hBond, hBonded, hRel, hDone, oIn, oBond, oBonded, oRel, oDone,
                             hm, om, hc, oc, mc)
    BY <1>1, <1>2 DEF NaturalMolecules
  <2> QED BY <1>3, <2>1, MoleculesStep
<1>7. hBond + hIn = hIn /\ oBond + oIn = oIn
  BY <1>1, <1>6
<1> QED BY <1>5, <1>6, <1>7 DEF MoleculesOf

\* The third atom on its way out lets all those on their way out pass.
LEMMA ThreeLeave ==
  ASSUME NEW old, NEW new, NEW hm \in Nat, NEW om \in Nat, NEW hc \in Nat, NEW oc \in Nat,
         NEW mc \in Nat, MoleculesOf(old, hm, om, hc, oc, mc),
         \A b \in Hydrogens \cup Oxygens :
            new[b] = IF old[b] \in {"leave", "leaving"} THEN "release" ELSE old[b],
         Num(old, {"leave", "leaving"}, Hydrogens) + Num(old, {"leave", "leaving"}, Oxygens) >= 3
  PROVE  MoleculesOf(new, hm, om, hc, oc, mc)
<1> DEFINE hIn == Num(old, {"enter", "entering"}, Hydrogens)
           hBond == Num(old, {"bond"}, Hydrogens)
           hBonded == Num(old, {"leave", "leaving"}, Hydrogens)
           hRel == Num(old, {"release"}, Hydrogens)    hDone == Num(old, {"done"}, Hydrogens)
           oIn == Num(old, {"enter", "entering"}, Oxygens)
           oBond == Num(old, {"bond"}, Oxygens)
           oBonded == Num(old, {"leave", "leaving"}, Oxygens)
           oRel == Num(old, {"release"}, Oxygens)      oDone == Num(old, {"done"}, Oxygens)
<1>1. /\ hIn \in Nat /\ hBond \in Nat /\ hBonded \in Nat /\ hRel \in Nat /\ hDone \in Nat
      /\ oIn \in Nat /\ oBond \in Nat /\ oBonded \in Nat /\ oRel \in Nat /\ oDone \in Nat
  BY NumbersAreNatural
<1>2. Molecules(hIn, hBond, hBonded, hRel, hDone, oIn, oBond, oBonded, oRel, oDone, hm, om, hc, oc, mc)
  BY DEF MoleculesOf
<1>3. hBonded + oBonded >= 3
  OBVIOUS
<1>4. ASSUME NEW C \in {Hydrogens, Oxygens}
      PROVE  /\ Num(new, {"leave", "leaving"}, C) = 0
             /\ Num(new, {"release"}, C) =
                  Num(old, {"release"}, C) + Num(old, {"leave", "leaving"}, C)
             /\ Num(new, {"enter", "entering"}, C) = Num(old, {"enter", "entering"}, C)
             /\ Num(new, {"bond"}, C) = Num(old, {"bond"}, C)
             /\ Num(new, {"done"}, C) = Num(old, {"done"}, C)
  <2>0. /\ IsFiniteSet(C)
        /\ \A b \in C : new[b] = IF old[b] \in {"leave", "leaving"} THEN "release" ELSE old[b]
    BY Kinds
  <2>1. Num(new, {"leave", "leaving"}, C) = 0
    <3>1. \A b \in C : new[b] \notin {"leave", "leaving"}
      BY <2>0
    <3> QED BY <2>0, <3>1, NumAdds
  <2>2. Num(new, {"release"}, C) = Num(old, {"release"} \cup {"leave", "leaving"}, C)
    <3>1. {b \in C : new[b] \in {"release"}} = {b \in C : old[b] \in {"release"} \cup {"leave", "leaving"}}
      BY <2>0
    <3> QED BY <3>1 DEF Num
  <2>3. {"release"} \cap {"leave", "leaving"} = {}
    OBVIOUS
  <2>4. Num(old, {"release"} \cup {"leave", "leaving"}, C) =
          Num(old, {"release"}, C) + Num(old, {"leave", "leaving"}, C)
    BY <2>0, <2>3, NumAdds
  <2>5. /\ {b \in C : new[b] \in {"enter", "entering"}} = {b \in C : old[b] \in {"enter", "entering"}}
        /\ {b \in C : new[b] \in {"bond"}} = {b \in C : old[b] \in {"bond"}}
        /\ {b \in C : new[b] \in {"done"}} = {b \in C : old[b] \in {"done"}}
    BY <2>0
  <2>6. /\ Num(new, {"enter", "entering"}, C) = Num(old, {"enter", "entering"}, C)
        /\ Num(new, {"bond"}, C) = Num(old, {"bond"}, C)
        /\ Num(new, {"done"}, C) = Num(old, {"done"}, C)
    BY <2>5 DEF Num
  <2> QED BY <2>1, <2>2, <2>4, <2>6
<1>5. /\ Num(new, {"enter", "entering"}, Hydrogens) = hIn /\ Num(new, {"bond"}, Hydrogens) = hBond
      /\ Num(new, {"leave", "leaving"}, Hydrogens) = 0
      /\ Num(new, {"release"}, Hydrogens) = hRel + hBonded /\ Num(new, {"done"}, Hydrogens) = hDone
      /\ Num(new, {"enter", "entering"}, Oxygens) = oIn /\ Num(new, {"bond"}, Oxygens) = oBond
      /\ Num(new, {"leave", "leaving"}, Oxygens) = 0
      /\ Num(new, {"release"}, Oxygens) = oRel + oBonded /\ Num(new, {"done"}, Oxygens) = oDone
  BY <1>4
<1> HIDE DEF hIn, hBond, hBonded, hRel, hDone, oIn, oBond, oBonded, oRel, oDone
<1>6. Molecules(hIn, hBond, 0, hRel + hBonded, hDone, oIn, oBond, 0, oRel + oBonded, oDone,
                hm, om, hc, oc, mc)
  <2>1. NaturalMolecules(hIn, hBond, hBonded, hRel, hDone, oIn, oBond, oBonded, oRel, oDone,
                             hm, om, hc, oc, mc)
    BY <1>1, <1>2 DEF NaturalMolecules
  <2> QED BY <1>3, <2>1, MoleculesStep
<1> QED BY <1>5, <1>6 DEF MoleculesOf

\* Every step of an atom keeps the invariant: the barrier is where the three meet.
LEMMA WaterKeepsInv == Water!IInv /\ [Water!Next]_(Water!h2oVars) => Water!IInv'
<1> SUFFICES ASSUME Water!IInv, [Water!Next]_(Water!h2oVars)
             PROVE  Water!IInv'
  OBVIOUS
<1>1. /\ Water!TypeOK
      /\ MoleculesOf(atom_pc, hydrogen_multiplex, oxygen_multiplex, hydrogen_count, oxygen_count,
                     molecule_count)
  BY WaterInNumbers DEF Water!IInv
<1>2. /\ hydrogen_multiplex \in Nat /\ oxygen_multiplex \in Nat
      /\ hydrogen_count \in Nat /\ oxygen_count \in Nat /\ molecule_count \in Nat
      /\ hydrogen_multiplex \in 0 .. 2 /\ oxygen_multiplex \in 0 .. 1
  BY <1>1 DEF Water!TypeOK
<1> SUFFICES /\ Water!TypeOK'
             /\ MoleculesOf(atom_pc', hydrogen_multiplex', oxygen_multiplex', hydrogen_count',
                            oxygen_count', molecule_count')
  BY WaterInNumbersNext DEF Water!IInv, MoleculesOf
<1>3. PICK pc : pc = atom_pc'
  OBVIOUS
<1>4. ASSUME NEW a \in Water!Atoms, NEW there, Water!GoTo(a, there)
      PROVE  /\ a \in Hydrogens \/ a \in Oxygens
             /\ pc[a] = there /\ \A b \in Hydrogens \cup Oxygens : b # a => pc[b] = atom_pc[b]
  BY <1>1, <1>3, <1>4, Kinds DEF Water!TypeOK, Water!GoTo
<1>5. ASSUME NEW a \in Water!Atoms, NEW there \in {"enter", "leave", "done"}, Water!GoTo(a, there)
      PROVE  pc \in [Water!Atoms -> {"acquire", "enter", "entering", "bond", "leave", "leaving",
                                     "release", "done"}]
  BY <1>1, <1>3, <1>5 DEF Water!TypeOK, Water!GoTo
<1>6. ASSUME NEW a \in Water!Atoms, Water!Acquire(a)
      PROVE  /\ Water!TypeOK'
             /\ MoleculesOf(atom_pc', hydrogen_multiplex', oxygen_multiplex', hydrogen_count',
                            oxygen_count', molecule_count')
  <2>1. Water!GoTo(a, "enter") /\ atom_pc[a] = "acquire"
    BY <1>6 DEF Water!Acquire
  <2>2. /\ a \in Hydrogens \/ a \in Oxygens
        /\ pc[a] = "enter" /\ \A b \in Hydrogens \cup Oxygens : b # a => pc[b] = atom_pc[b]
    BY <1>4, <2>1
  <2>3. /\ UNCHANGED <<hydrogen_count, oxygen_count, molecule_count>>
        /\ IF a \in Hydrogens
             THEN hydrogen_multiplex > 0 /\ hydrogen_multiplex' = hydrogen_multiplex - 1
                  /\ oxygen_multiplex' = oxygen_multiplex
             ELSE oxygen_multiplex > 0 /\ oxygen_multiplex' = oxygen_multiplex - 1
                  /\ hydrogen_multiplex' = hydrogen_multiplex
    BY <1>6 DEF Water!Acquire, Water!device
  <2>4. Water!TypeOK'
    BY <1>2, <1>3, <1>5, <2>1, <2>3 DEF Water!TypeOK
  <2>5. /\ a \in Hydrogens /\ hydrogen_multiplex > 0 =>
             MoleculesOf(pc, hydrogen_multiplex - 1, oxygen_multiplex, hydrogen_count,
                         oxygen_count, molecule_count)
        /\ a \in Oxygens /\ oxygen_multiplex > 0 =>
             MoleculesOf(pc, hydrogen_multiplex, oxygen_multiplex - 1, hydrogen_count,
                         oxygen_count, molecule_count)
    BY <1>1, <1>2, <2>1, <2>2, AtomMoves
  <2> QED BY <1>3, <2>2, <2>3, <2>4, <2>5
<1>7. ASSUME NEW a \in Water!Atoms, Water!Bond(a)
      PROVE  /\ Water!TypeOK'
             /\ MoleculesOf(atom_pc', hydrogen_multiplex', oxygen_multiplex', hydrogen_count',
                            oxygen_count', molecule_count')
  <2> DEFINE hydrogen == hydrogen_count + (IF a \in Hydrogens THEN 1 ELSE 0)
             oxygen   == oxygen_count + (IF a \in Oxygens THEN 1 ELSE 0)
             complete == hydrogen = 2 /\ oxygen = 1
  <2>1. Water!GoTo(a, "leave") /\ atom_pc[a] = "bond"
    BY <1>7 DEF Water!Bond
  <2>2. /\ a \in Hydrogens \/ a \in Oxygens
        /\ pc[a] = "leave" /\ \A b \in Hydrogens \cup Oxygens : b # a => pc[b] = atom_pc[b]
    BY <1>4, <2>1
  <2>3. /\ UNCHANGED <<hydrogen_multiplex, oxygen_multiplex>>
        /\ hydrogen_count' = IF complete THEN 0 ELSE hydrogen
        /\ oxygen_count' = IF complete THEN 0 ELSE oxygen
        /\ molecule_count' = molecule_count + (IF complete THEN 1 ELSE 0)
    BY <1>7 DEF Water!Bond, Water!multiplexes
  <2>4. Water!TypeOK'
    BY <1>2, <1>3, <1>5, <2>1, <2>3 DEF Water!TypeOK
  <2>5. /\ a \in Hydrogens =>
             MoleculesOf(pc, hydrogen_multiplex, oxygen_multiplex,
               IF hydrogen_count + 1 = 2 /\ oxygen_count = 1 THEN 0 ELSE hydrogen_count + 1,
               IF hydrogen_count + 1 = 2 /\ oxygen_count = 1 THEN 0 ELSE oxygen_count,
               molecule_count + (IF hydrogen_count + 1 = 2 /\ oxygen_count = 1 THEN 1 ELSE 0))
        /\ a \in Oxygens =>
             MoleculesOf(pc, hydrogen_multiplex, oxygen_multiplex,
               IF hydrogen_count = 2 /\ oxygen_count + 1 = 1 THEN 0 ELSE hydrogen_count,
               IF hydrogen_count = 2 /\ oxygen_count + 1 = 1 THEN 0 ELSE oxygen_count + 1,
               molecule_count + (IF hydrogen_count = 2 /\ oxygen_count + 1 = 1 THEN 1 ELSE 0))
    BY <1>1, <1>2, <2>1, <2>2, AtomMoves
  <2>6. /\ hydrogen = IF a \in Hydrogens THEN hydrogen_count + 1 ELSE hydrogen_count
        /\ oxygen = IF a \in Hydrogens THEN oxygen_count ELSE oxygen_count + 1
    BY <1>2, <2>2, Kinds
  <2> HIDE DEF hydrogen, oxygen
  <2>7. CASE a \in Hydrogens
    BY <1>3, <2>3, <2>4, <2>5, <2>6, <2>7
  <2>8. CASE a \notin Hydrogens
    BY <1>3, <2>2, <2>3, <2>4, <2>5, <2>6, <2>8
  <2> QED BY <2>7, <2>8
<1>8. ASSUME NEW a \in Water!Atoms, Water!Release(a)
      PROVE  /\ Water!TypeOK'
             /\ MoleculesOf(atom_pc', hydrogen_multiplex', oxygen_multiplex', hydrogen_count',
                            oxygen_count', molecule_count')
  <2>1. Water!GoTo(a, "done") /\ atom_pc[a] = "release"
    BY <1>8 DEF Water!Release
  <2>2. /\ a \in Hydrogens \/ a \in Oxygens
        /\ pc[a] = "done" /\ \A b \in Hydrogens \cup Oxygens : b # a => pc[b] = atom_pc[b]
    BY <1>4, <2>1
  <2>3. /\ UNCHANGED <<hydrogen_count, oxygen_count, molecule_count>>
        /\ IF a \in Hydrogens
             THEN hydrogen_multiplex' = hydrogen_multiplex + 1 /\ oxygen_multiplex' = oxygen_multiplex
             ELSE oxygen_multiplex' = oxygen_multiplex + 1 /\ hydrogen_multiplex' = hydrogen_multiplex
    BY <1>8 DEF Water!Release, Water!device
  <2>4. /\ a \in Hydrogens =>
             /\ MoleculesOf(pc, hydrogen_multiplex + 1, oxygen_multiplex, hydrogen_count,
                            oxygen_count, molecule_count)
             /\ hydrogen_multiplex < 2
        /\ a \in Oxygens =>
             /\ MoleculesOf(pc, hydrogen_multiplex, oxygen_multiplex + 1, hydrogen_count,
                            oxygen_count, molecule_count)
             /\ oxygen_multiplex < 1
    BY <1>1, <1>2, <2>1, <2>2, AtomMoves
  <2>5. Water!TypeOK'
    BY <1>2, <1>3, <1>5, <2>1, <2>2, <2>3, <2>4 DEF Water!TypeOK
  <2> QED BY <1>3, <2>2, <2>3, <2>4, <2>5
<1>9. ASSUME NEW a \in Water!Atoms, Water!Arrive(a)
      PROVE  /\ Water!TypeOK'
             /\ MoleculesOf(atom_pc', hydrogen_multiplex', oxygen_multiplex', hydrogen_count',
                            oxygen_count', molecule_count')
  <2> DEFINE waiting == Water!At({"entering", "leaving"})
             among == waiting \cup {a}
             n(S, C) == Num(atom_pc, S, C)
  <2>1. /\ atom_pc[a] \in {"enter", "leave"} /\ (a \in Hydrogens \/ a \in Oxygens)
        /\ hydrogen_multiplex' = hydrogen_multiplex /\ oxygen_multiplex' = oxygen_multiplex
        /\ hydrogen_count' = hydrogen_count /\ oxygen_count' = oxygen_count
        /\ molecule_count' = molecule_count
    BY <1>9, Kinds DEF Water!Arrive, Water!multiplexes, Water!device
  <2>2. SUFFICES /\ pc \in [Water!Atoms -> {"acquire", "enter", "entering", "bond", "leave",
                                            "leaving", "release", "done"}]
                 /\ MoleculesOf(pc, hydrogen_multiplex, oxygen_multiplex, hydrogen_count,
                                oxygen_count, molecule_count)
    BY <1>1, <1>3, <2>1 DEF Water!TypeOK
  <2>3. \A S : Water!Cardinality(S) = Cardinality(S)
    BY DEF Water!Cardinality, Cardinality
  <2>4. CASE Cardinality(waiting) # 2
    <3>1. pc = [atom_pc EXCEPT ![a] = IF @ = "enter" THEN "entering" ELSE "leaving"]
      BY <1>3, <1>9, <2>3, <2>4 DEF Water!Arrive
    <3>2. pc \in [Water!Atoms -> {"acquire", "enter", "entering", "bond", "leave", "leaving",
                                  "release", "done"}]
      BY <1>1, <3>1 DEF Water!TypeOK
    <3>3. /\ \/ atom_pc[a] = "enter" /\ pc[a] = "entering"
             \/ atom_pc[a] = "leave" /\ pc[a] = "leaving"
          /\ \A b \in Hydrogens \cup Oxygens : b # a => pc[b] = atom_pc[b]
      BY <1>1, <2>1, <3>1, Kinds DEF Water!TypeOK
    <3>4. MoleculesOf(pc, hydrogen_multiplex, oxygen_multiplex, hydrogen_count, oxygen_count,
                      molecule_count)
      BY <1>1, <1>2, <2>1, <3>3, AtomMoves
    <3> QED BY <3>2, <3>4
  <2>5. CASE Cardinality(waiting) = 2
    <3>1. pc = [b \in Water!Atoms |-> IF b \in among THEN Water!Passed(atom_pc[b]) ELSE atom_pc[b]]
      BY <1>3, <1>9, <2>3, <2>5 DEF Water!Arrive
    <3>2. pc \in [Water!Atoms -> {"acquire", "enter", "entering", "bond", "leave", "leaving",
                                  "release", "done"}]
      BY <1>1, <3>1 DEF Water!TypeOK, Water!Passed
    <3>3. /\ IsFiniteSet(among) /\ Cardinality(among) = 3
          /\ \A b \in among : atom_pc[b] \in {"enter", "entering", "leave", "leaving"}
      <4>1. waiting \subseteq Water!Atoms /\ a \notin waiting
        BY <2>1 DEF Water!At
      <4>2. \A b \in among : atom_pc[b] \in {"enter", "entering", "leave", "leaving"}
        BY <2>1 DEF Water!At
      <4> HIDE DEF waiting
      <4>3. IsFiniteSet(waiting)
        BY <4>1, Kinds, FS_Subset
      <4>4. IsFiniteSet(waiting \cup {a}) /\ Cardinality(waiting \cup {a}) = Cardinality(waiting) + 1
        BY <4>1, <4>3, FS_AddElement
      <4> QED BY <2>5, <4>2, <4>4
    <3>4. \A b \in among : b \in Hydrogens \cup Oxygens
      BY Kinds DEF Water!At
    <3> HIDE DEF among
    <3>5. ASSUME NEW S, \A b \in among : atom_pc[b] \in S
          PROVE  /\ n(S, Hydrogens) + n(S, Oxygens) >= 3
                 /\ n(S, Hydrogens) + n(S, Oxygens) = 3 =>
                      \A b \in Hydrogens \cup Oxygens : b \in among <=> atom_pc[b] \in S
      <4> DEFINE there == {b \in Hydrogens \cup Oxygens : atom_pc[b] \in S}
      <4>1. among \subseteq there
        BY <3>4, <3>5
      <4>2. IsFiniteSet(there) /\ Cardinality(there) = n(S, Hydrogens) + n(S, Oxygens)
        BY BothKinds
      <4>3. n(S, Hydrogens) \in Nat /\ n(S, Oxygens) \in Nat
        BY NumbersAreNatural
      <4> HIDE DEF there, n
      <4>4. Cardinality(among) <= Cardinality(there) /\ (Cardinality(among) = Cardinality(there) => among = there)
        BY <4>1, <4>2, FS_Subset
      <4>5. n(S, Hydrogens) + n(S, Oxygens) >= 3 /\ (n(S, Hydrogens) + n(S, Oxygens) = 3 => among = there)
        BY <3>3, <4>2, <4>3, <4>4
      <4> QED BY <4>5 DEF there
    <3> DEFINE hIn == n({"enter", "entering"}, Hydrogens)   oIn == n({"enter", "entering"}, Oxygens)
               hBonded == n({"leave", "leaving"}, Hydrogens)
               oBonded == n({"leave", "leaving"}, Oxygens)
    <3>6. /\ hIn + oIn >= 3 => hIn + oIn = 3
          /\ hBonded + oBonded >= 3 => hBonded + oBonded = 3
          /\ hIn + oIn > 0 => hBonded = 0 /\ oBonded = 0
      <4> DEFINE hBond == n({"bond"}, Hydrogens)      hRel == n({"release"}, Hydrogens)
                 hDone == n({"done"}, Hydrogens)      oBond == n({"bond"}, Oxygens)
                 oRel == n({"release"}, Oxygens)      oDone == n({"done"}, Oxygens)
      <4>1. /\ hIn \in Nat /\ hBond \in Nat /\ hBonded \in Nat /\ hRel \in Nat /\ hDone \in Nat
            /\ oIn \in Nat /\ oBond \in Nat /\ oBonded \in Nat /\ oRel \in Nat /\ oDone \in Nat
        BY NumbersAreNatural
      <4>2. Molecules(hIn, hBond, hBonded, hRel, hDone, oIn, oBond, oBonded, oRel, oDone,
                      hydrogen_multiplex, oxygen_multiplex, hydrogen_count, oxygen_count,
                      molecule_count)
        BY <1>1 DEF MoleculesOf
      <4> HIDE DEF hIn, hBond, hBonded, hRel, hDone, oIn, oBond, oBonded, oRel, oDone
      <4>3. NaturalMolecules(hIn, hBond, hBonded, hRel, hDone, oIn, oBond, oBonded, oRel, oDone,
                             hydrogen_multiplex, oxygen_multiplex, hydrogen_count, oxygen_count,
                             molecule_count)
        BY <1>2, <4>1, <4>2 DEF NaturalMolecules
      <4> QED BY <4>3, MoleculesStep
    <3>7. ASSUME NEW C \in {Hydrogens, Oxygens}, NEW b \in C, NEW S, atom_pc[b] \in S
          PROVE  n(S, C) \in Nat /\ n(S, C) # 0
      BY <3>7, Kinds, NumAdds
    <3>8. CASE atom_pc[a] = "enter"
      <4>1. hIn + oIn > 0
        <5>1. \/ hIn \in Nat /\ hIn # 0
              \/ oIn \in Nat /\ oIn # 0
          BY <2>1, <3>7, <3>8
        <5>2. hIn \in Nat /\ oIn \in Nat
          BY NumbersAreNatural
        <5> HIDE DEF hIn, oIn
        <5> QED BY <5>1, <5>2
      <4>2. hBonded = 0 /\ oBonded = 0
        <5> HIDE DEF hIn, oIn, hBonded, oBonded
        <5> QED BY <3>6, <4>1
      <4>3. \A b \in among : atom_pc[b] \in {"enter", "entering"}
        <5>1. \A b \in among : atom_pc[b] \notin {"leave", "leaving"}
          BY <3>4, <3>7, <4>2
        <5> QED BY <3>3, <5>1
      <4>4. /\ hIn + oIn >= 3
            /\ hIn + oIn = 3 =>
                 \A b \in Hydrogens \cup Oxygens : b \in among <=> atom_pc[b] \in {"enter", "entering"}
        BY <3>5, <4>3
      <4>5. \A b \in Hydrogens \cup Oxygens : b \in among <=> atom_pc[b] \in {"enter", "entering"}
        <5> HIDE DEF hIn, oIn, hBonded, oBonded
        <5> QED BY <3>6, <4>4
      <4>6. \A b \in Hydrogens \cup Oxygens :
              pc[b] = IF atom_pc[b] \in {"enter", "entering"} THEN "bond" ELSE atom_pc[b]
        BY <3>1, <4>5, Kinds DEF Water!Passed
      <4>7. MoleculesOf(pc, hydrogen_multiplex, oxygen_multiplex, hydrogen_count, oxygen_count,
                        molecule_count)
        BY <1>1, <1>2, <4>4, <4>6, ThreeEnter
      <4> QED BY <3>2, <4>7
    <3>9. CASE atom_pc[a] = "leave"
      <4>1. hBonded # 0 \/ oBonded # 0
        BY <2>1, <3>7, <3>9
      <4>2. hIn = 0 /\ oIn = 0
        <5>1. hIn \in Nat /\ oIn \in Nat
          BY NumbersAreNatural
        <5> HIDE DEF hIn, oIn, hBonded, oBonded
        <5> QED BY <3>6, <4>1, <5>1
      <4>3. \A b \in among : atom_pc[b] \in {"leave", "leaving"}
        <5>1. \A b \in among : atom_pc[b] \notin {"enter", "entering"}
          BY <3>4, <3>7, <4>2
        <5> QED BY <3>3, <5>1
      <4>4. /\ hBonded + oBonded >= 3
            /\ hBonded + oBonded = 3 =>
                 \A b \in Hydrogens \cup Oxygens : b \in among <=> atom_pc[b] \in {"leave", "leaving"}
        BY <3>5, <4>3
      <4>5. \A b \in Hydrogens \cup Oxygens : b \in among <=> atom_pc[b] \in {"leave", "leaving"}
        <5> HIDE DEF hIn, oIn, hBonded, oBonded
        <5> QED BY <3>6, <4>4
      <4>6. \A b \in Hydrogens \cup Oxygens :
              pc[b] = IF atom_pc[b] \in {"leave", "leaving"} THEN "release" ELSE atom_pc[b]
        BY <3>1, <4>5, Kinds DEF Water!Passed
      <4>7. MoleculesOf(pc, hydrogen_multiplex, oxygen_multiplex, hydrogen_count, oxygen_count,
                        molecule_count)
        BY <1>1, <1>2, <4>4, <4>6, ThreeLeave
      <4> QED BY <3>2, <4>7
    <3> QED BY <2>1, <3>8, <3>9
  <2> QED BY <2>4, <2>5
<1>10. CASE UNCHANGED Water!h2oVars
  <2>1. /\ atom_pc' = atom_pc /\ hydrogen_multiplex' = hydrogen_multiplex
        /\ oxygen_multiplex' = oxygen_multiplex /\ hydrogen_count' = hydrogen_count
        /\ oxygen_count' = oxygen_count /\ molecule_count' = molecule_count
    BY <1>10 DEF Water!h2oVars, Water!multiplexes, Water!device
  <2> QED BY <1>1, <2>1 DEF Water!TypeOK
<1> QED BY <1>6, <1>7, <1>8, <1>9, <1>10 DEF Water!Next, Water!AtomStep

\* mistery(): the threads and the counter.
LEMMA MistBehaves == [ExercisesNext]_allVars => [Misty!Next]_(Misty!mistVars)
BY DEF ExercisesNext, OthersUnchanged, Unless, allVars, mistVars, Misty!mistVars

LEMMA MistThreads == Misty!max = 3 /\ Misty!MistThread = {0, 1, 2}
BY DEF Misty!max, Misty!MistThread

LEMMA MistStarts == Misty!Init => Misty!IInv
BY MistThreads DEF Misty!Init, Misty!IInv, Misty!TypeOK, Misty!CreatedInv, Misty!CounterInv,
                   Misty!Counted

\* A thread that moves without being counted, or woken by the others.
LEMMA MistMoves ==
  ASSUME Misty!IInv, NEW t \in Misty!MistThread, NEW from, NEW to,
         mist_at[t] = from, mist_at' = [mist_at EXCEPT ![t] = to],
         \/ from = "before" /\ to = "count"
         \/ from = "test" /\ to = "waiting"
         \/ from = "waiting" /\ to = "woken" /\ t \in spurious'
         \/ from = "woken" /\ to = "unlock"
         \/ from = "unlock" /\ to = "done",
         spurious \subseteq spurious',
         UNCHANGED <<mist_created, mist_joined, mist_counter>>
  PROVE  Misty!IInv'
<1>1. Misty!TypeOK /\ Misty!CreatedInv /\ Misty!CounterInv
  BY DEF Misty!IInv
<1>2. /\ mist_at'[t] = to /\ \A u \in Misty!MistThread : u # t => mist_at'[u] = mist_at[u]
      /\ mist_at' \in [Misty!MistThread -> {"unborn", "before", "count", "test", "waiting",
                                            "woken", "unlock", "done"}]
  BY <1>1 DEF Misty!TypeOK
<1>3. Misty!TypeOK'
  BY <1>1, <1>2 DEF Misty!TypeOK
<1>4. Misty!CreatedInv'
  BY <1>1, <1>2 DEF Misty!CreatedInv
<1>5. \A u \in Misty!MistThread : Misty!Counted(u)' = Misty!Counted(u)
  BY <1>2 DEF Misty!Counted
<1>6. \A u \in Misty!MistThread : mist_at'[u] \in {"woken", "unlock", "done"} =>
        \/ mist_at[u] \in {"woken", "unlock", "done"}
        \/ u \in spurious'
  BY <1>2
<1>7. Misty!CounterInv'
  <2>1. CASE \A u \in Misty!MistThread : Misty!Counted(u) = 1
    BY <1>5, <2>1 DEF Misty!CounterInv
  <2>2. CASE /\ mist_counter = Misty!Counted(0) + Misty!Counted(1) + Misty!Counted(2)
             /\ \A u \in Misty!MistThread : mist_at[u] \in {"woken", "unlock", "done"} => u \in spurious
    <3>1. mist_counter' = Misty!Counted(0)' + Misty!Counted(1)' + Misty!Counted(2)'
      BY <1>5, <2>2, MistThreads
    <3>2. \A u \in Misty!MistThread : mist_at'[u] \in {"woken", "unlock", "done"} => u \in spurious'
      BY <1>6, <2>2
    <3> QED BY <3>1, <3>2 DEF Misty!CounterInv
  <2> QED BY <1>1, <2>1, <2>2 DEF Misty!CounterInv
<1> QED BY <1>3, <1>4, <1>7 DEF Misty!IInv

LEMMA MistKeepsInv == Misty!IInv /\ [Misty!Next]_(Misty!mistVars) => Misty!IInv'
<1> SUFFICES ASSUME Misty!IInv, [Misty!Next]_(Misty!mistVars)
             PROVE  Misty!IInv'
  OBVIOUS
<1>1. Misty!TypeOK /\ Misty!CreatedInv /\ Misty!CounterInv
  BY DEF Misty!IInv
<1>2. /\ mist_created \in 0 .. 3 /\ mist_joined \in 0 .. 3 /\ mist_counter \in Nat
      /\ mist_at \in [Misty!MistThread -> {"unborn", "before", "count", "test", "waiting",
                                           "woken", "unlock", "done"}]
  BY <1>1, MistThreads DEF Misty!TypeOK
<1>3. CASE Misty!CreateThread
  <2>1. PICK t \in Misty!MistThread : t = mist_created
    BY <1>2, <1>3, MistThreads DEF Misty!CreateThread
  <2>2. /\ mist_at[t] = "unborn" /\ mist_at' = [mist_at EXCEPT ![t] = "before"]
        /\ mist_created' = mist_created + 1
        /\ mist_joined' = mist_joined /\ mist_counter' = mist_counter /\ spurious' = spurious
    BY <1>1, <1>2, <1>3, <2>1, MistThreads DEF Misty!CreateThread, Misty!CreatedInv
  <2>3. mist_at'[t] = "before" /\ \A u \in Misty!MistThread : u # t => mist_at'[u] = mist_at[u]
    BY <1>2, <2>2
  <2>4. Misty!TypeOK'
    BY <1>1, <1>2, <2>1, <2>2, MistThreads DEF Misty!TypeOK
  <2>5. Misty!CreatedInv'
    BY <1>1, <1>2, <2>1, <2>2, <2>3, MistThreads DEF Misty!CreatedInv
  <2>6. \A u \in Misty!MistThread : Misty!Counted(u)' = Misty!Counted(u)
    BY <2>2, <2>3 DEF Misty!Counted
  <2>7. Misty!CounterInv'
    BY <1>1, <2>2, <2>3, <2>6, MistThreads DEF Misty!CounterInv
  <2> QED BY <2>4, <2>5, <2>7 DEF Misty!IInv
<1>4. CASE Misty!JoinThread
  <2>1. /\ mist_joined < 3 /\ mist_at[mist_joined] = "done" /\ mist_joined' = mist_joined + 1
        /\ mist_counter' = (IF mist_joined + 1 = 3 THEN 0 ELSE mist_counter)
        /\ mist_created' = mist_created /\ mist_at' = mist_at /\ spurious' = spurious
    BY <1>4, MistThreads DEF Misty!JoinThread
  <2>2. Misty!TypeOK'
    BY <1>1, <1>2, <2>1, MistThreads DEF Misty!TypeOK
  <2>3. Misty!CreatedInv'
    BY <1>1, <1>2, <2>1, MistThreads DEF Misty!CreatedInv
  <2>4. \A u \in Misty!MistThread : Misty!Counted(u)' = Misty!Counted(u)
    BY <2>1 DEF Misty!Counted
  <2>5. Misty!CounterInv'
    <3>1. CASE mist_joined + 1 = 3
      <4>1. \A u \in Misty!MistThread : mist_at[u] = "done"
        BY <1>1, <1>2, <2>1, <3>1, MistThreads DEF Misty!CreatedInv
      <4>2. \A u \in Misty!MistThread : Misty!Counted(u) = 1
        BY <4>1 DEF Misty!Counted
      <4> QED BY <2>4, <4>2 DEF Misty!CounterInv
    <3>2. CASE mist_joined + 1 # 3
      BY <1>1, <2>1, <2>4, <3>2, MistThreads DEF Misty!CounterInv
    <3> QED BY <3>1, <3>2
  <2> QED BY <2>2, <2>3, <2>5 DEF Misty!IInv
<1>5. ASSUME NEW t \in Misty!MistThread, Misty!Count(t)
      PROVE  Misty!IInv'
  <2>1. /\ mist_at[t] = "count" /\ mist_at' = [mist_at EXCEPT ![t] = "test"]
        /\ mist_counter' = mist_counter + 1
        /\ mist_created' = mist_created /\ mist_joined' = mist_joined /\ spurious' = spurious
    BY <1>5 DEF Misty!Count, Misty!Move
  <2>2. mist_at'[t] = "test" /\ \A u \in Misty!MistThread : u # t => mist_at'[u] = mist_at[u]
    BY <1>2, <2>1
  <2>3. Misty!TypeOK'
    BY <1>1, <1>2, <2>1 DEF Misty!TypeOK
  <2>4. Misty!CreatedInv'
    BY <1>1, <2>1, <2>2 DEF Misty!CreatedInv
  <2>5. /\ \A u \in Misty!MistThread : u # t => Misty!Counted(u)' = Misty!Counted(u)
        /\ Misty!Counted(t) = 0 /\ Misty!Counted(t)' = 1
        /\ \A u \in Misty!MistThread : Misty!Counted(u) \in Nat /\ Misty!Counted(u)' \in Nat
    BY <2>1, <2>2 DEF Misty!Counted
  <2>6. mist_counter = Misty!Counted(0) + Misty!Counted(1) + Misty!Counted(2) =>
          mist_counter' = Misty!Counted(0)' + Misty!Counted(1)' + Misty!Counted(2)'
    <3>1. t = 0 \/ t = 1 \/ t = 2
      BY MistThreads
    <3> QED BY <2>1, <2>5, <3>1, MistThreads
  <2>7. Misty!CounterInv'
    BY <1>1, <2>1, <2>2, <2>5, <2>6 DEF Misty!CounterInv
  <2> QED BY <2>3, <2>4, <2>7 DEF Misty!IInv
<1>6. ASSUME NEW t \in Misty!MistThread, Misty!Broadcast(t)
      PROVE  Misty!IInv'
  <2>1. /\ mist_at[t] = "test" /\ mist_counter >= 3 /\ mist_counter' = 0
        /\ mist_at' = [w \in Misty!MistThread |->
             CASE w = t -> "unlock" [] mist_at[w] = "waiting" -> "woken" [] OTHER -> mist_at[w]]
        /\ mist_created' = mist_created /\ mist_joined' = mist_joined /\ spurious' = spurious
    BY <1>6, MistThreads DEF Misty!Broadcast
  <2>2. \A w \in Misty!MistThread :
          mist_at'[w] = IF w = t THEN "unlock" ELSE IF mist_at[w] = "waiting" THEN "woken" ELSE mist_at[w]
    BY <2>1
  <2>3. Misty!TypeOK'
    <3>1. mist_at' \in [Misty!MistThread -> {"unborn", "before", "count", "test", "waiting",
                                             "woken", "unlock", "done"}]
      BY <1>2, <2>1, <2>2
    <3> QED BY <1>1, <2>1, <3>1 DEF Misty!TypeOK
  <2>4. Misty!CreatedInv'
    BY <1>1, <2>1, <2>2 DEF Misty!CreatedInv
  <2>5. \A u \in Misty!MistThread : Misty!Counted(u) = 1
    <3>1. \A u \in Misty!MistThread : Misty!Counted(u) = 0 \/ Misty!Counted(u) = 1
      BY DEF Misty!Counted
    <3>2. CASE mist_counter = Misty!Counted(0) + Misty!Counted(1) + Misty!Counted(2)
      BY <2>1, <3>1, <3>2, MistThreads
    <3> QED BY <1>1, <3>2 DEF Misty!CounterInv
  <2>6. \A u \in Misty!MistThread : Misty!Counted(u)' = 1
    BY <2>1, <2>2, <2>5 DEF Misty!Counted
  <2>7. Misty!CounterInv'
    BY <2>6 DEF Misty!CounterInv
  <2> QED BY <2>3, <2>4, <2>7 DEF Misty!IInv
<1>7. ASSUME NEW t \in Misty!MistThread,
             Misty!Lock(t) \/ Misty!Wait(t) \/ Misty!Relock(t) \/ Misty!Unlock(t)
      PROVE  Misty!IInv'
  <2>1. PICK from, to :
          /\ mist_at[t] = from /\ mist_at' = [mist_at EXCEPT ![t] = to]
          /\ \/ from = "before" /\ to = "count"
             \/ from = "test" /\ to = "waiting"
             \/ from = "woken" /\ to = "unlock"
             \/ from = "unlock" /\ to = "done"
          /\ spurious' = spurious
          /\ UNCHANGED <<mist_created, mist_joined, mist_counter>>
    BY <1>7 DEF Misty!Lock, Misty!Wait, Misty!Relock, Misty!Unlock, Misty!Move
  <2> QED BY <2>1, MistMoves
<1>8. ASSUME NEW t \in Misty!MistThread, Misty!WakeSpuriously(t)
      PROVE  Misty!IInv'
  <2>1. /\ mist_at[t] = "waiting" /\ mist_at' = [mist_at EXCEPT ![t] = "woken"]
        /\ t \in spurious' /\ spurious \subseteq spurious'
        /\ UNCHANGED <<mist_created, mist_joined, mist_counter>>
    BY <1>8 DEF Misty!WakeSpuriously, Misty!Move
  <2> QED BY <2>1, MistMoves
<1>9. CASE UNCHANGED Misty!mistVars
  BY <1>1, <1>9 DEF Misty!mistVars, Misty!IInv, Misty!TypeOK, Misty!CreatedInv, Misty!CounterInv,
                    Misty!Counted
<1> QED BY <1>3, <1>4, <1>5, <1>6, <1>7, <1>8, <1>9 DEF Misty!Next, Misty!MistStep, Misty!ThreadStep

\* The atoms of one molecule at a time are between the barriers of build_h2o (bond_barrier),
\* and nobody passes mistery() of mist_cond_var before all came, but by a spurious wake-up.
THEOREM RendezvousTheorem == ExercisesSpec => []RendezvousHolds
<1>1. ExercisesInit => Water!IInv /\ Misty!IInv
  BY WaterStarts, MistStarts DEF ExercisesInit
<1>2. Water!IInv /\ [ExercisesNext]_allVars => Water!IInv'
  BY WaterBehaves, WaterKeepsInv
<1>3. Misty!IInv /\ [ExercisesNext]_allVars => Misty!IInv'
  BY MistBehaves, MistKeepsInv
<1>4. Water!IInv /\ Misty!IInv => RendezvousHolds
  <2>1. Misty!IInv => Misty!PassedTogether
    BY DEF Misty!IInv, Misty!CounterInv, Misty!Counted, Misty!PassedTogether
  <2> QED BY <2>1 DEF RendezvousHolds, Water!IInv
<1> QED BY <1>1, <1>2, <1>3, <1>4, PTL DEF ExercisesSpec

-----------------------------------------------------------------------------
(* common/ethread: a team that is created, or grows while it runs.          *)

\* The threads of a program of ethread.
LEMMA EthreadBehaves == [ExercisesNext]_allVars => [Ethread!Next]_(Ethread!ethreadVars)
BY DEF ExercisesNext, OthersUnchanged, Unless, allVars, ethreadVars, Ethread!ethreadVars

LEMMA EthreadStarts == Ethread!Init => Ethread!IInv
BY DEF Ethread!Init, Ethread!IInv, Ethread!TypeOK, Ethread!MemoryInv, Ethread!AddedInv,
       Ethread!TeamOutlivesThreads, Ethread!Members

\* Reservation of a team: nobody runs.
LEMMA EthreadReserves ==
  ASSUME Ethread!IInv, Ethread!Reserve
  PROVE  Ethread!IInv'
<1>1. /\ Ethread!TypeOK /\ Ethread!MemoryInv /\ Ethread!AddedInv /\ TeamCapacities \subseteq Nat \ {0}
  BY ExercisesAssumption DEF Ethread!IInv, Ethread!EthreadAssumption
<1>2. /\ call = "start" /\ thread_capacity = 0 /\ team_memory # "live"
      /\ team_thread_count = 0 /\ team_joined = 0
  BY <1>1 DEF Ethread!Reserve, Ethread!TypeOK, Ethread!MemoryInv
<1>3. /\ usage' \in {"create_threads", "reserve_threads", "create_thread"}
      /\ thread_capacity' \in Nat \ {0}
      /\ usage' = "create_thread" => thread_capacity' = 1
      /\ ethread' = [t \in Ethread!Members' |-> "unborn"]
      /\ seen_count' = [t \in Ethread!Members' |-> 0]
      /\ team_thread_count' = 0 /\ team_joined' = 0
  BY <1>1, <1>2 DEF Ethread!Reserve
<1>4. \/ /\ team_memory' = "live" /\ call' \in {"idle", "add"} /\ to_add' \in {0, thread_capacity'}
      \/ call' = "returned" /\ team_memory' = team_memory /\ to_add' = to_add
  BY <1>3 DEF Ethread!Reserve
<1>5. Ethread!Members' = 0 .. thread_capacity' - 1
  BY DEF Ethread!Members
<1>6. Ethread!TypeOK'
  BY <1>1, <1>3, <1>4 DEF Ethread!TypeOK
<1>7. Ethread!MemoryInv'
  BY <1>2, <1>4 DEF Ethread!MemoryInv
<1>8. Ethread!AddedInv'
  <2>1. call' = "add" => team_thread_count' + to_add' <= thread_capacity'
    BY <1>3, <1>4
  <2>2. \A t \in Ethread!Members' : t >= 0 /\ ethread'[t] = "unborn"
    BY <1>3, <1>5
  <2>3. \A t \in Ethread!Members' :
          /\ t >= team_thread_count' => ethread'[t] = "unborn"
          /\ ~(t < team_joined') /\ ~(t < team_thread_count')
    BY <1>3, <1>5, <2>2
  <2> QED BY <1>3, <2>1, <2>3 DEF Ethread!AddedInv
<1>9. Ethread!TeamOutlivesThreads'
  BY <1>2, <1>3, <1>4 DEF Ethread!TeamOutlivesThreads
<1> QED BY <1>6, <1>7, <1>8, <1>9 DEF Ethread!IInv

\* add_threads, and one creation.
LEMMA EthreadAdds ==
  ASSUME Ethread!IInv,
         \/ \E more \in 1 .. thread_capacity : Ethread!CallAdd(more)
         \/ Ethread!AddThread \/ Ethread!CreationFails
  PROVE  Ethread!IInv'
<1>1. /\ Ethread!TypeOK /\ Ethread!MemoryInv /\ Ethread!AddedInv /\ Ethread!TeamOutlivesThreads
  BY DEF Ethread!IInv
<1>2. /\ thread_capacity \in Nat /\ team_thread_count \in 0 .. thread_capacity
      /\ team_joined \in 0 .. team_thread_count /\ to_add \in Nat
      /\ Ethread!Members = 0 .. thread_capacity - 1
      /\ ethread \in [Ethread!Members -> {"unborn", "ask", "working", "done"}]
  BY <1>1 DEF Ethread!TypeOK, Ethread!Members
<1>3. /\ thread_capacity' = thread_capacity /\ usage' = usage /\ team_joined' = team_joined
      /\ seen_count' = seen_count /\ Ethread!Members' = Ethread!Members
  BY DEF Ethread!CallAdd, Ethread!AddThread, Ethread!CreationFails, Ethread!Members
<1>4. CASE \E more \in 1 .. thread_capacity : Ethread!CallAdd(more)
  <2>1. PICK more \in 1 .. thread_capacity : Ethread!CallAdd(more)
    BY <1>4
  <2>2. /\ call = "idle" /\ call' \in {"idle", "add"} /\ to_add' \in Nat
        /\ call' = "add" => team_thread_count + to_add' <= thread_capacity
        /\ call_errors \subseteq call_errors'
        /\ team_memory' = team_memory /\ team_thread_count' = team_thread_count
        /\ ethread' = ethread
    BY <1>2, <2>1 DEF Ethread!CallAdd
  <2>3. Ethread!TypeOK'
    BY <1>1, <1>3, <2>2 DEF Ethread!TypeOK
  <2>4. Ethread!MemoryInv'
    BY <1>1, <1>3, <2>2 DEF Ethread!MemoryInv
  <2>5. Ethread!AddedInv'
    BY <1>1, <1>3, <2>2 DEF Ethread!AddedInv
  <2>6. Ethread!TeamOutlivesThreads'
    BY <1>1, <1>3, <2>2 DEF Ethread!TeamOutlivesThreads
  <2> QED BY <2>3, <2>4, <2>5, <2>6 DEF Ethread!IInv
<1>5. CASE Ethread!AddThread
  <2>1. PICK t : t = team_thread_count
    OBVIOUS
  <2>2. /\ call = "add" /\ to_add > 0 /\ call' = call /\ ethread' = [ethread EXCEPT ![t] = "ask"]
        /\ team_thread_count' = t + 1 /\ to_add' = to_add - 1
        /\ team_memory' = team_memory /\ call_errors' = call_errors
    BY <1>5, <2>1 DEF Ethread!AddThread
  <2>3. t + to_add <= thread_capacity /\ t \in Ethread!Members
    BY <1>1, <1>2, <2>1, <2>2 DEF Ethread!AddedInv
  <2>4. /\ ethread' \in [Ethread!Members -> {"unborn", "ask", "working", "done"}]
        /\ ethread'[t] = "ask" /\ \A u \in Ethread!Members : u # t => ethread'[u] = ethread[u]
    BY <1>2, <2>2, <2>3
  <2>5. Ethread!TypeOK'
    BY <1>1, <1>2, <1>3, <2>1, <2>2, <2>3, <2>4 DEF Ethread!TypeOK
  <2>6. Ethread!MemoryInv'
    BY <1>1, <1>3, <2>2 DEF Ethread!MemoryInv
  <2>7. Ethread!AddedInv'
    <3>1. call' = "add" => team_thread_count' + to_add' <= thread_capacity'
      BY <1>2, <1>3, <2>1, <2>2, <2>3
    <3>2. usage' = "create_thread" => thread_capacity' = 1
      BY <1>1, <1>3 DEF Ethread!AddedInv
    <3>3. ASSUME NEW u \in Ethread!Members
          PROVE  /\ u >= team_thread_count' => ethread'[u] = "unborn"
                 /\ u < team_joined' => ethread'[u] = "done"
                 /\ u < team_thread_count' /\ ethread'[u] = "unborn" => "EAGAIN" \in call_errors'
      <4>1. u \in Nat /\ team_thread_count \in Nat /\ team_joined \in Nat /\ team_joined <= team_thread_count
        BY <1>2
      <4>2. /\ u >= team_thread_count => ethread[u] = "unborn"
            /\ u < team_joined => ethread[u] = "done"
            /\ u < team_thread_count /\ ethread[u] = "unborn" => "EAGAIN" \in call_errors
        BY <1>1 DEF Ethread!AddedInv
      <4>3. CASE u = t
        BY <1>3, <2>1, <2>2, <2>4, <4>1, <4>3
      <4>4. CASE u # t
        BY <1>3, <2>1, <2>2, <2>4, <4>1, <4>2, <4>4
      <4> QED BY <4>3, <4>4
    <3> QED BY <1>3, <3>1, <3>2, <3>3 DEF Ethread!AddedInv
  <2>8. Ethread!TeamOutlivesThreads'
    BY <1>1, <1>3, <2>2, <2>4 DEF Ethread!TeamOutlivesThreads, Ethread!MemoryInv
  <2> QED BY <2>5, <2>6, <2>7, <2>8 DEF Ethread!IInv
<1>6. CASE Ethread!CreationFails
  <2>1. /\ call = "add" /\ to_add > 0 /\ "EAGAIN" \in call_errors' /\ to_add' = 0
        /\ ethread' = ethread
        /\ \/ /\ usage = "create_thread" /\ call' = "returned" /\ team_memory' = "freed"
              /\ team_thread_count' = team_thread_count
           \/ /\ usage # "create_thread" /\ call' \in {"join", "idle"}
              /\ team_thread_count' = team_thread_count + 1 /\ team_memory' = team_memory
    BY <1>6 DEF Ethread!CreationFails
  <2>2. team_thread_count + to_add <= thread_capacity /\ team_thread_count < thread_capacity
    BY <1>1, <1>2, <2>1 DEF Ethread!AddedInv
  <2>3. Ethread!TypeOK'
    BY <1>1, <1>2, <1>3, <2>1, <2>2 DEF Ethread!TypeOK
  <2>4. Ethread!MemoryInv'
    BY <1>1, <1>3, <2>1 DEF Ethread!MemoryInv
  <2>5. Ethread!AddedInv'
    <3>1. \A u \in Ethread!Members :
            /\ u >= team_thread_count' => ethread'[u] = "unborn"
            /\ u < team_joined' => ethread'[u] = "done"
      BY <1>1, <1>2, <1>3, <2>1 DEF Ethread!AddedInv
    <3> QED BY <1>1, <1>3, <2>1, <3>1 DEF Ethread!AddedInv
  <2>6. Ethread!TeamOutlivesThreads'
    \* A thread of its own: the one register is of a thread that never ran.
    <3>1. usage = "create_thread" => \A u \in Ethread!Members : ethread[u] = "unborn"
      BY <1>1, <1>2, <2>1, <2>2 DEF Ethread!AddedInv
    <3> QED BY <1>1, <1>3, <2>1, <3>1 DEF Ethread!TeamOutlivesThreads, Ethread!MemoryInv
  <2> QED BY <2>3, <2>4, <2>5, <2>6 DEF Ethread!IInv
<1> QED BY <1>4, <1>5, <1>6

\* The end of the additions, the joins and the release of the team.
LEMMA EthreadJoins ==
  ASSUME Ethread!IInv,
         Ethread!AllAdded \/ Ethread!CallJoin \/ Ethread!JoinThread \/ Ethread!FreeTeam
  PROVE  Ethread!IInv'
<1>1. /\ Ethread!TypeOK /\ Ethread!MemoryInv /\ Ethread!AddedInv /\ Ethread!TeamOutlivesThreads
  BY DEF Ethread!IInv
<1>2. /\ thread_capacity \in Nat /\ team_thread_count \in 0 .. thread_capacity
      /\ team_joined \in 0 .. team_thread_count
      /\ Ethread!Members = 0 .. thread_capacity - 1
  BY <1>1 DEF Ethread!TypeOK, Ethread!Members
<1>3. /\ thread_capacity' = thread_capacity /\ usage' = usage /\ seen_count' = seen_count
      /\ team_thread_count' = team_thread_count /\ to_add' = to_add /\ ethread' = ethread
      /\ call_errors' = call_errors /\ Ethread!Members' = Ethread!Members
  BY DEF Ethread!AllAdded, Ethread!CallJoin, Ethread!JoinThread, Ethread!FreeTeam, Ethread!Members
<1>4. CASE Ethread!AllAdded \/ Ethread!CallJoin
  <2>1. /\ call \in {"add", "idle"} /\ call' \in {"idle", "join"} /\ team_memory' = team_memory
        /\ team_joined' = team_joined
    BY <1>4 DEF Ethread!AllAdded, Ethread!CallJoin
  <2>2. Ethread!TypeOK' /\ Ethread!MemoryInv' /\ Ethread!AddedInv'
    BY <1>1, <1>3, <2>1 DEF Ethread!TypeOK, Ethread!MemoryInv, Ethread!AddedInv
  <2>3. Ethread!TeamOutlivesThreads'
    BY <1>1, <1>3, <2>1 DEF Ethread!TeamOutlivesThreads
  <2> QED BY <2>2, <2>3 DEF Ethread!IInv
<1>5. CASE Ethread!JoinThread
  <2>1. PICK t \in Ethread!Members : t = team_joined
    BY <1>2, <1>5 DEF Ethread!JoinThread
  <2>2. /\ call = "join" /\ t < team_thread_count /\ team_memory' = team_memory
        /\ \/ ethread[t] = "done" /\ team_joined' = t + 1 /\ call' = call
           \/ ethread[t] = "unborn" /\ call' = "undefined" /\ team_joined' = team_joined
    BY <1>5, <2>1 DEF Ethread!JoinThread
  <2>3. Ethread!TypeOK'
    BY <1>1, <1>2, <1>3, <2>1, <2>2 DEF Ethread!TypeOK
  <2>4. Ethread!MemoryInv'
    BY <1>1, <1>3, <2>2 DEF Ethread!MemoryInv
  <2>5. Ethread!AddedInv'
    <3>1. \A u \in Ethread!Members : u < team_joined' => u < team_joined \/ (u = t /\ ethread[t] = "done")
      BY <1>2, <2>1, <2>2
    <3>2. \A u \in Ethread!Members :
            /\ u >= team_thread_count' => ethread'[u] = "unborn"
            /\ u < team_joined' => ethread'[u] = "done"
            /\ u < team_thread_count' /\ ethread'[u] = "unborn" => "EAGAIN" \in call_errors'
      BY <1>1, <1>3, <3>1 DEF Ethread!AddedInv
    <3> QED BY <1>1, <1>3, <2>2, <3>2 DEF Ethread!AddedInv
  <2>6. Ethread!TeamOutlivesThreads'
    <3>1. call' = "undefined" => "EAGAIN" \in call_errors'
      BY <1>1, <1>3, <2>2 DEF Ethread!AddedInv
    <3> QED BY <1>1, <1>3, <2>2, <3>1 DEF Ethread!TeamOutlivesThreads
  <2> QED BY <2>3, <2>4, <2>5, <2>6 DEF Ethread!IInv
<1>6. CASE Ethread!FreeTeam
  <2>1. /\ call = "join" /\ team_joined = team_thread_count /\ team_memory' = "freed"
        /\ call' = "returned" /\ team_joined' = team_joined
    BY <1>6 DEF Ethread!FreeTeam
  <2>2. Ethread!TypeOK' /\ Ethread!MemoryInv' /\ Ethread!AddedInv'
    BY <1>1, <1>3, <2>1 DEF Ethread!TypeOK, Ethread!MemoryInv, Ethread!AddedInv
  <2>3. \A u \in Ethread!Members : ethread[u] \in {"done", "unborn"}
    BY <1>1, <1>2, <2>1 DEF Ethread!AddedInv
  <2>4. Ethread!TeamOutlivesThreads'
    BY <1>1, <1>3, <2>1, <2>3 DEF Ethread!TeamOutlivesThreads
  <2> QED BY <2>2, <2>4 DEF Ethread!IInv
<1> QED BY <1>4, <1>5, <1>6

\* A thread asks for the size of its team, and ends.
LEMMA EthreadRuns ==
  ASSUME Ethread!IInv, NEW t \in Ethread!Members, Ethread!AskCount(t) \/ Ethread!Finish(t)
  PROVE  Ethread!IInv'
<1>1. /\ Ethread!TypeOK /\ Ethread!MemoryInv /\ Ethread!AddedInv /\ Ethread!TeamOutlivesThreads
  BY DEF Ethread!IInv
<1>2. /\ thread_capacity \in Nat /\ team_thread_count \in 0 .. thread_capacity
      /\ Ethread!Members = 0 .. thread_capacity - 1
      /\ ethread \in [Ethread!Members -> {"unborn", "ask", "working", "done"}]
      /\ seen_count \in [Ethread!Members -> Nat]
  BY <1>1 DEF Ethread!TypeOK, Ethread!Members
<1>3. /\ UNCHANGED <<call, usage, team_memory, thread_capacity, team_thread_count, to_add,
                     team_joined, call_errors>>
      /\ Ethread!Members' = Ethread!Members
  BY DEF Ethread!AskCount, Ethread!Finish, Ethread!Members
<1>4. PICK from, to :
        /\ ethread[t] = from /\ ethread' = [ethread EXCEPT ![t] = to]
        /\ (from = "ask" /\ to = "working") \/ (from = "working" /\ to = "done")
  BY DEF Ethread!AskCount, Ethread!Finish
<1>5. /\ ethread' \in [Ethread!Members -> {"unborn", "ask", "working", "done"}]
      /\ ethread'[t] = to /\ \A u \in Ethread!Members : u # t => ethread'[u] = ethread[u]
  BY <1>2, <1>4
<1>6. t < team_thread_count /\ team_memory = "live"
      /\ (usage = "create_thread" => thread_capacity = 1)
  BY <1>1, <1>2, <1>4 DEF Ethread!AddedInv, Ethread!TeamOutlivesThreads
<1>7. /\ seen_count' \in [Ethread!Members -> Nat]
      /\ \A u \in Ethread!Members : seen_count'[u] > 0 => seen_count'[u] \in u + 1 .. thread_capacity
  <2>1. CASE seen_count' = seen_count
    BY <1>1, <1>2, <2>1 DEF Ethread!TeamOutlivesThreads
  <2>2. CASE Ethread!AskCount(t)
    <3>1. seen_count' = [seen_count EXCEPT ![t] = IF usage = "create_thread" THEN 1 ELSE team_thread_count]
      BY <2>2 DEF Ethread!AskCount
    <3>2. PICK n : n = IF usage = "create_thread" THEN 1 ELSE team_thread_count
      OBVIOUS
    <3>3. n \in Nat /\ n \in t + 1 .. thread_capacity
      BY <1>2, <1>6, <3>2
    <3>4. seen_count' = [seen_count EXCEPT ![t] = n]
      BY <3>1, <3>2
    <3> QED BY <1>1, <1>2, <3>3, <3>4 DEF Ethread!TeamOutlivesThreads
  <2> QED BY <2>1, <2>2 DEF Ethread!Finish
<1>8. Ethread!TypeOK'
  BY <1>1, <1>3, <1>5, <1>7 DEF Ethread!TypeOK
<1>9. Ethread!MemoryInv'
  BY <1>1, <1>3 DEF Ethread!MemoryInv
<1>10. Ethread!AddedInv'
  <2>1. \A u \in Ethread!Members :
          /\ u >= team_thread_count => ethread'[u] = "unborn"
          /\ u < team_joined => ethread'[u] = "done"
          /\ u < team_thread_count /\ ethread'[u] = "unborn" => "EAGAIN" \in call_errors
    BY <1>1, <1>2, <1>4, <1>5, <1>6 DEF Ethread!AddedInv
  <2> QED BY <1>1, <1>3, <2>1 DEF Ethread!AddedInv
<1>11. Ethread!TeamOutlivesThreads'
  BY <1>1, <1>3, <1>4, <1>5, <1>6, <1>7 DEF Ethread!TeamOutlivesThreads
<1> QED BY <1>8, <1>9, <1>10, <1>11 DEF Ethread!IInv

LEMMA EthreadKeepsInv == Ethread!IInv /\ [Ethread!Next]_(Ethread!ethreadVars) => Ethread!IInv'
<1>1. ASSUME Ethread!IInv, UNCHANGED Ethread!ethreadVars PROVE Ethread!IInv'
  <2>1. UNCHANGED <<call, usage, team_memory, thread_capacity, team_thread_count, to_add, team_joined,
                    ethread, seen_count, call_errors>>
    BY <1>1 DEF Ethread!ethreadVars
  <2>2. Ethread!TypeOK' /\ Ethread!MemoryInv'
    BY <1>1, <2>1 DEF Ethread!IInv, Ethread!TypeOK, Ethread!MemoryInv, Ethread!Members
  <2>3. Ethread!AddedInv' /\ Ethread!TeamOutlivesThreads'
    BY <1>1, <2>1 DEF Ethread!IInv, Ethread!AddedInv, Ethread!TeamOutlivesThreads, Ethread!Members
  <2> QED BY <2>2, <2>3 DEF Ethread!IInv
<1> QED BY <1>1, EthreadReserves, EthreadAdds, EthreadJoins, EthreadRuns
        DEF Ethread!Next, Ethread!EthreadStep

\* A thread of ethread runs while the registers of its team are there, is told a size that
\* fits, and only a program that ignores a failed creation joins a thread that is not there
\* (add_threads, join_threads, get_thread_count).
THEOREM EthreadTheorem == ExercisesSpec => []Ethread!TeamOutlivesThreads
<1>1. ExercisesInit => Ethread!IInv
  BY EthreadStarts DEF ExercisesInit
<1>2. Ethread!IInv /\ [ExercisesNext]_allVars => Ethread!IInv'
  BY EthreadBehaves, EthreadKeepsInv
<1>3. Ethread!IInv => Ethread!TeamOutlivesThreads
  BY DEF Ethread!IInv
<1> QED BY <1>1, <1>2, <1>3, PTL DEF ExercisesSpec

-----------------------------------------------------------------------------
(* readers_writers: the lines printed under the read-write lock.            *)

\* The threads under the read-write lock.
LEMMA RwBehaves == [ExercisesNext]_allVars => [Rw!Next]_(Rw!rwVars)
BY DEF ExercisesNext, OthersUnchanged, Unless, allVars, rwVars, Rw!rwVars

LEMMA RwStarts == Rw!Init => Rw!IInv
<1> SUFFICES ASSUME Rw!Init PROVE Rw!IInv
  OBVIOUS
<1>1. /\ rw_main = "start" /\ rw_count = 0 /\ rw_capacity = 0 /\ rw_joined = 0
      /\ role = <<>> /\ rw_place = <<>> /\ my_value = <<>> /\ counter = 0 /\ rw_printed = <<>>
  BY DEF Rw!Init
<1>2. Rw!TypeOK
  <2>1. /\ role \in [1 .. 0 -> {"R", "W"}] /\ role \in Seq({"R", "W"})
        /\ rw_place \in [1 .. 0 -> Rw!Locking] /\ rw_place \in Seq(Rw!Locking)
        /\ my_value \in [1 .. 0 -> Nat] /\ my_value \in Seq(Nat)
        /\ rw_printed \in Seq({"R", "W"} \X Nat)
    BY <1>1
  <2> QED BY <1>1, <2>1 DEF Rw!TypeOK
<1>3. Cardinality({}) = 0 /\ Rw!Cardinality({}) = 0
  BY FS_EmptySet DEF Rw!Cardinality, Cardinality
<1>4. Rw!Writers(Len(rw_printed)) = {}
  BY <1>1 DEF Rw!Writers
<1>5. Rw!CounterInv
  <2>1. \A t \in 1 .. rw_count : FALSE
    BY <1>1
  <2>2. counter = Rw!Cardinality(Rw!Writers(Len(rw_printed))) + 0
    <3>1. Rw!Cardinality(Rw!Writers(Len(rw_printed))) = 0
      BY <1>3, <1>4
    <3> QED BY <1>1, <3>1
  <2> QED BY <2>1, <2>2 DEF Rw!CounterInv
<1>6. Rw!ReadersSeeWriters /\ Rw!RoomForThreads /\ Rw!JoinedInv /\ Rw!ExclusionInv
  BY <1>1 DEF Rw!ReadersSeeWriters, Rw!RoomForThreads, Rw!JoinedInv, Rw!ExclusionInv
<1> QED BY <1>2, <1>5, <1>6 DEF Rw!IInv

\* The writers among the first n lines, with the library's cardinality.
WritersIn(lines, n) == Cardinality({m \in 1 .. n : lines[m][1] = "W"})

LEMMA RwCounts ==
  /\ Rw!ReadersSeeWriters <=> \A n \in DOMAIN rw_printed : rw_printed[n][2] = WritersIn(rw_printed, n)
  /\ Rw!CounterInv <=>
       /\ counter = WritersIn(rw_printed, Len(rw_printed))
            + (IF \E t \in 1 .. rw_count : role[t] = "W" /\ rw_place[t] = "print" THEN 1 ELSE 0)
       /\ \A t \in 1 .. rw_count : rw_place[t] = "print" => my_value[t] = counter
<1>1. \A S : Rw!Cardinality(S) = Cardinality(S)
  BY DEF Rw!Cardinality, Cardinality
<1> QED BY <1>1 DEF Rw!ReadersSeeWriters, Rw!CounterInv, Rw!Writers, WritersIn

LEMMA RwCountsNext ==
  (/\ Rw!ReadersSeeWriters <=> \A n \in DOMAIN rw_printed : rw_printed[n][2] = WritersIn(rw_printed, n)
   /\ Rw!CounterInv <=>
        /\ counter = WritersIn(rw_printed, Len(rw_printed))
             + (IF \E t \in 1 .. rw_count : role[t] = "W" /\ rw_place[t] = "print" THEN 1 ELSE 0)
        /\ \A t \in 1 .. rw_count : rw_place[t] = "print" => my_value[t] = counter)'
BY RwCounts, PTL

\* A line more: the lines before it and their writers stay, and it counts if it is a writer's.
LEMMA LinesGrow ==
  ASSUME NEW lines \in Seq({"R", "W"} \X Nat), NEW line \in {"R", "W"} \X Nat
  PROVE  LET more == Append(lines, line)
         IN /\ more \in Seq({"R", "W"} \X Nat) /\ Len(more) = Len(lines) + 1
            /\ \A n \in 1 .. Len(lines) : more[n] = lines[n] /\ WritersIn(more, n) = WritersIn(lines, n)
            /\ more[Len(lines) + 1] = line
            /\ WritersIn(lines, Len(lines)) \in Nat
            /\ WritersIn(more, Len(lines) + 1) =
                 WritersIn(lines, Len(lines)) + (IF line[1] = "W" THEN 1 ELSE 0)
<1> DEFINE more == Append(lines, line)
           last == Len(lines)
<1>1. /\ more \in Seq({"R", "W"} \X Nat) /\ Len(more) = last + 1 /\ last \in Nat
      /\ \A n \in 1 .. last : more[n] = lines[n]
      /\ more[last + 1] = line
  OBVIOUS
<1> HIDE DEF more, last
<1>2. \A n \in 1 .. last : WritersIn(more, n) = WritersIn(lines, n)
  <2> SUFFICES ASSUME NEW n \in 1 .. last PROVE WritersIn(more, n) = WritersIn(lines, n)
    OBVIOUS
  <2>1. {m \in 1 .. n : more[m][1] = "W"} = {m \in 1 .. n : lines[m][1] = "W"}
    BY <1>1
  <2> QED BY <2>1 DEF WritersIn
<1> DEFINE those == {m \in 1 .. last : lines[m][1] = "W"}
<1>3. IsFiniteSet(those) /\ Cardinality(those) \in Nat /\ last + 1 \notin those
  <2>1. those \subseteq 1 .. last /\ last + 1 \notin those
    BY <1>1
  <2>2. IsFiniteSet(1 .. last)
    BY <1>1, FS_Interval
  <2> HIDE DEF those
  <2>3. IsFiniteSet(those)
    BY <2>1, <2>2, FS_Subset
  <2> QED BY <2>1, <2>3, FS_CardinalityType
<1>4. {m \in 1 .. last + 1 : more[m][1] = "W"} =
        IF line[1] = "W" THEN those \cup {last + 1} ELSE those
  BY <1>1
<1>5. Cardinality(those \cup {last + 1}) = Cardinality(those) + 1
  <2> HIDE DEF those
  <2> QED BY <1>3, FS_AddElement
<1>6. WritersIn(lines, last) = Cardinality(those)
  BY DEF WritersIn
<1> HIDE DEF those
<1>7. WritersIn(more, last + 1) = Cardinality(those) + (IF line[1] = "W" THEN 1 ELSE 0)
  <2>1. WritersIn(more, last + 1) = Cardinality({m \in 1 .. last + 1 : more[m][1] = "W"})
    BY DEF WritersIn
  <2>2. CASE line[1] = "W"
    BY <1>3, <1>4, <1>5, <2>1, <2>2
  <2>3. CASE line[1] # "W"
    <3>1. WritersIn(more, last + 1) = Cardinality(those)
      BY <1>4, <2>1, <2>3
    <3> QED BY <1>3, <2>3, <3>1
  <2> QED BY <2>2, <2>3
<1> QED BY <1>1, <1>2, <1>3, <1>6, <1>7 DEF more, last

LEMMA OneMore ==
  ASSUME NEW S, NEW s \in Seq(S), NEW e \in S
  PROVE  /\ Append(s, e) \in Seq(S) /\ Append(s, e) \in [1 .. Len(s) + 1 -> S]
         /\ \A n \in 1 .. Len(s) : Append(s, e)[n] = s[n]
         /\ Append(s, e)[Len(s) + 1] = e
<1>1. Append(s, e) \in Seq(S) /\ Len(Append(s, e)) = Len(s) + 1
  OBVIOUS
<1>2. Append(s, e) \in [1 .. Len(s) + 1 -> S]
  BY <1>1, LenProperties
<1>3. /\ \A n \in 1 .. Len(s) : Append(s, e)[n] = s[n]
      /\ Append(s, e)[Len(s) + 1] = e
  OBVIOUS
<1> QED BY <1>1, <1>2, <1>3

\* main: the lines, the counter and the locks stay, threads are added in the array and joined.
LEMMA RwMainStep ==
  ASSUME Rw!IInv,
         Rw!Start \/ Rw!ReallocFails \/ Rw!EndOfInput \/ Rw!JoinThread \/ Rw!Return
  PROVE  Rw!IInv'
<1>1. /\ Rw!TypeOK /\ Rw!JoinedInv /\ Rw!ExclusionInv /\ Rw!CounterInv
      /\ Rw!ReadersSeeWriters /\ Rw!RoomForThreads
  BY DEF Rw!IInv
<1>2. UNCHANGED <<rw_count, rw_capacity, role, rw_place, my_value, counter, rw_printed>>
  BY DEF Rw!Start, Rw!ReallocFails, Rw!EndOfInput, Rw!JoinThread, Rw!Return
<1>3. /\ rw_count \in Nat /\ rw_joined \in 0 .. rw_count /\ DOMAIN rw_place = 1 .. rw_count
  BY <1>1 DEF Rw!TypeOK
<1>4. /\ rw_main' \in {"start", "read", "join", "returned", "undefined"}
      /\ rw_joined' \in 0 .. rw_count
      /\ rw_main' = "start" => rw_main = "start"
      /\ \A t \in 1 .. rw_joined' : rw_place[t] = "done"
      /\ rw_main' = "returned" => \A t \in 1 .. rw_count : rw_place[t] = "done"
  <2>1. CASE Rw!Start
    BY <1>1, <1>3, <2>1 DEF Rw!Start, Rw!JoinedInv
  <2>2. CASE Rw!ReallocFails \/ Rw!EndOfInput
    BY <1>1, <1>3, <2>2 DEF Rw!ReallocFails, Rw!EndOfInput, Rw!JoinedInv
  <2>3. CASE Rw!JoinThread
    <3>1. PICK t \in 1 .. rw_count : t = rw_joined + 1
      BY <1>3, <2>3 DEF Rw!JoinThread
    <3>2. /\ rw_main = "join"
          /\ \/ rw_place[t] = "done" /\ rw_joined' = t /\ rw_main' = rw_main
             \/ rw_main' = "undefined" /\ rw_joined' = rw_joined
      BY <2>3, <3>1 DEF Rw!JoinThread
    <3>3. \A u \in 1 .. rw_joined' : u \in 1 .. rw_joined \/ (u = t /\ rw_place[t] = "done")
      BY <1>3, <3>1, <3>2
    <3> QED BY <1>1, <1>3, <3>1, <3>2, <3>3 DEF Rw!JoinedInv
  <2>4. CASE Rw!Return
    BY <1>1, <1>3, <2>4 DEF Rw!Return, Rw!JoinedInv
  <2> QED BY <2>1, <2>2, <2>3, <2>4
<1>5. Rw!TypeOK'
  BY <1>1, <1>2, <1>4 DEF Rw!TypeOK
<1>6. Rw!JoinedInv'
  BY <1>1, <1>2, <1>4 DEF Rw!JoinedInv
<1>7. Rw!ExclusionInv'
  BY <1>1, <1>2 DEF Rw!ExclusionInv, Rw!Holding
<1>8. Rw!CounterInv' /\ Rw!ReadersSeeWriters'
  BY <1>1, <1>2 DEF Rw!CounterInv, Rw!ReadersSeeWriters, Rw!Writers
<1>9. Rw!RoomForThreads'
  BY <1>1, <1>2, <1>3, <1>4 DEF Rw!RoomForThreads
<1> QED BY <1>5, <1>6, <1>7, <1>8, <1>9 DEF Rw!IInv

\* resize makes room for one thread more.
LEMMA RwResize ==
  ASSUME rw_count \in Nat, rw_capacity \in Nat, rw_count <= rw_capacity
  PROVE  Rw!resize \in Nat /\ rw_count + 1 <= Rw!resize
<1>1. Growth \in Nat /\ Growth >= 2
  BY ExercisesAssumption DEF Rw!RwAssumption
<1>2. CASE rw_count < rw_capacity
  BY <1>2 DEF Rw!resize
<1>3. CASE ~(rw_count < rw_capacity)
  <2>1. PICK size \in Nat : size = (IF rw_capacity > 0 THEN rw_capacity ELSE 1)
    OBVIOUS
  <2>2. Rw!resize = Growth * size /\ rw_count = rw_capacity
    BY <1>3, <2>1 DEF Rw!resize
  <2>3. PICK g \in Nat : Growth = g + 2
    <3>1. Growth - 2 \in Nat /\ Growth = (Growth - 2) + 2
      BY <1>1
    <3> QED BY <3>1
  <2>4. Growth * size = g * size + 2 * size /\ g * size \in Nat
    BY <2>1, <2>3
  <2>5. size >= 1 /\ size >= rw_capacity
    BY <2>1
  <2> QED BY <2>1, <2>2, <2>4, <2>5
<1> QED BY <1>2, <1>3

LEMMA RwReads ==
  ASSUME Rw!IInv, Rw!ReadChar
  PROVE  Rw!IInv'
<1>1. /\ Rw!TypeOK /\ Rw!JoinedInv /\ Rw!ExclusionInv /\ Rw!CounterInv
      /\ Rw!ReadersSeeWriters /\ Rw!RoomForThreads
  BY DEF Rw!IInv
<1>2. /\ rw_count \in Nat /\ rw_capacity \in Nat /\ rw_count <= rw_capacity
      /\ rw_joined \in 0 .. rw_count
      /\ role \in [1 .. rw_count -> {"R", "W"}] /\ role \in Seq({"R", "W"})
      /\ rw_place \in [1 .. rw_count -> Rw!Locking] /\ rw_place \in Seq(Rw!Locking)
      /\ my_value \in [1 .. rw_count -> Nat] /\ my_value \in Seq(Nat)
      /\ Len(role) = rw_count /\ Len(rw_place) = rw_count /\ Len(my_value) = rw_count
  <2>1. /\ rw_count \in Nat /\ rw_capacity \in Nat /\ rw_joined \in 0 .. rw_count
        /\ role \in [1 .. rw_count -> {"R", "W"}] /\ role \in Seq({"R", "W"})
        /\ rw_place \in [1 .. rw_count -> Rw!Locking] /\ rw_place \in Seq(Rw!Locking)
        /\ my_value \in [1 .. rw_count -> Nat] /\ my_value \in Seq(Nat)
    BY <1>1 DEF Rw!TypeOK
  <2>2. Len(role) = rw_count /\ Len(rw_place) = rw_count /\ Len(my_value) = rw_count
    BY <2>1, LenProperties
  <2>3. rw_count <= rw_capacity
    BY <1>1 DEF Rw!RoomForThreads
  <2> QED BY <2>1, <2>2, <2>3
<1>3. /\ rw_main = "read" /\ rw_capacity' = Rw!resize
      /\ rw_joined' = rw_joined /\ counter' = counter /\ rw_printed' = rw_printed
  BY DEF Rw!ReadChar
<1>4. rw_capacity' \in Nat /\ rw_count + 1 <= rw_capacity'
  BY <1>2, <1>3, RwResize
<1>5. CASE UNCHANGED <<rw_main, rw_error, rw_count, role, rw_place, my_value>>
  <2>1. Rw!TypeOK'
    BY <1>1, <1>2, <1>3, <1>4, <1>5 DEF Rw!TypeOK
  <2>2. Rw!JoinedInv' /\ Rw!ExclusionInv'
    BY <1>1, <1>3, <1>5 DEF Rw!JoinedInv, Rw!ExclusionInv, Rw!Holding
  <2>3. Rw!CounterInv' /\ Rw!ReadersSeeWriters'
    BY <1>1, <1>3, <1>5 DEF Rw!CounterInv, Rw!ReadersSeeWriters, Rw!Writers
  <2>4. Rw!RoomForThreads'
    BY <1>2, <1>3, <1>4, <1>5 DEF Rw!RoomForThreads
  <2> QED BY <2>1, <2>2, <2>3, <2>4 DEF Rw!IInv
<1>6. CASE ~UNCHANGED <<rw_main, rw_error, rw_count, role, rw_place, my_value>>
  <2>1. PICK letter \in {"R", "W"}, where \in {"lock", "unborn"} :
          /\ rw_count' = rw_count + 1 /\ role' = Append(role, letter)
          /\ my_value' = Append(my_value, 0) /\ rw_place' = Append(rw_place, where)
          /\ rw_main' \in {"read", "join"}
    BY <1>3, <1>6 DEF Rw!ReadChar
  <2>2. /\ role' \in Seq({"R", "W"}) /\ role' \in [1 .. rw_count + 1 -> {"R", "W"}]
        /\ my_value' \in Seq(Nat) /\ my_value' \in [1 .. rw_count + 1 -> Nat]
        /\ \A t \in 1 .. rw_count : role'[t] = role[t] /\ my_value'[t] = my_value[t]
    <3>1. /\ role' \in Seq({"R", "W"}) /\ role' \in [1 .. rw_count + 1 -> {"R", "W"}]
          /\ \A t \in 1 .. rw_count : role'[t] = role[t]
      <4>1. /\ Append(role, letter) \in Seq({"R", "W"})
            /\ Append(role, letter) \in [1 .. Len(role) + 1 -> {"R", "W"}]
            /\ \A t \in 1 .. Len(role) : Append(role, letter)[t] = role[t]
        <5>1. PICK S : S = {"R", "W"}
          OBVIOUS
        <5>2. role \in Seq(S) /\ letter \in S
          BY <1>2, <5>1
        <5>3. /\ Append(role, letter) \in Seq(S) /\ Append(role, letter) \in [1 .. Len(role) + 1 -> S]
              /\ \A t \in 1 .. Len(role) : Append(role, letter)[t] = role[t]
          BY <5>2, OneMore
        <5> QED BY <5>1, <5>3
      <4> QED BY <1>2, <2>1, <4>1
    <3>2. /\ my_value' \in Seq(Nat) /\ my_value' \in [1 .. rw_count + 1 -> Nat]
          /\ \A t \in 1 .. rw_count : my_value'[t] = my_value[t]
      <4>1. 0 \in Nat
        OBVIOUS
      <4>2. /\ Append(my_value, 0) \in Seq(Nat)
            /\ Append(my_value, 0) \in [1 .. Len(my_value) + 1 -> Nat]
            /\ \A t \in 1 .. Len(my_value) : Append(my_value, 0)[t] = my_value[t]
        <5>1. PICK S : S = Nat
          OBVIOUS
        <5>2. my_value \in Seq(S) /\ 0 \in S
          BY <1>2, <4>1, <5>1
        <5>3. /\ Append(my_value, 0) \in Seq(S) /\ Append(my_value, 0) \in [1 .. Len(my_value) + 1 -> S]
              /\ \A t \in 1 .. Len(my_value) : Append(my_value, 0)[t] = my_value[t]
          BY <5>2, OneMore
        <5> QED BY <5>1, <5>3
      <4> QED BY <1>2, <2>1, <4>2
    <3> QED BY <3>1, <3>2
  <2>3. /\ rw_place' \in Seq(Rw!Locking) /\ rw_place' \in [1 .. rw_count + 1 -> Rw!Locking]
        /\ \A t \in 1 .. rw_count : rw_place'[t] = rw_place[t]
        /\ rw_place'[rw_count + 1] = where
    <3>1. where \in Rw!Locking
      BY DEF Rw!Locking
    <3>2. PICK S : S = Rw!Locking
      OBVIOUS
    <3>3. rw_place \in Seq(S) /\ where \in S
      BY <1>2, <3>1, <3>2
    <3>4. /\ Append(rw_place, where) \in Seq(S) /\ Append(rw_place, where) \in [1 .. Len(rw_place) + 1 -> S]
          /\ \A t \in 1 .. Len(rw_place) : Append(rw_place, where)[t] = rw_place[t]
          /\ Append(rw_place, where)[Len(rw_place) + 1] = where
      BY <3>3, OneMore
    <3> QED BY <1>2, <2>1, <3>2, <3>4
  <2>4. Rw!TypeOK'
    BY <1>1, <1>2, <1>3, <1>4, <2>1, <2>2, <2>3 DEF Rw!TypeOK
  <2>5. \A t \in 1 .. rw_count + 1 : t \in 1 .. rw_count \/ t = rw_count + 1
    BY <1>2
  <2>6. Rw!JoinedInv'
    <3>1. \A t \in 1 .. rw_joined : t \in 1 .. rw_count
      BY <1>2
    <3> QED BY <1>1, <1>3, <2>1, <2>3, <3>1 DEF Rw!JoinedInv
  <2>7. Rw!ExclusionInv'
    BY <1>1, <2>1, <2>2, <2>3, <2>5 DEF Rw!ExclusionInv, Rw!Holding
  <2>8. Rw!ReadersSeeWriters'
    BY <1>1, <1>3 DEF Rw!ReadersSeeWriters
  <2>9. Rw!CounterInv'
    <3>1. \A t \in 1 .. rw_count + 1 : rw_place'[t] = "print" => t \in 1 .. rw_count
      BY <2>3, <2>5
    <3>2. \A t \in 1 .. rw_count : t \in 1 .. rw_count + 1
      BY <1>2
    <3>3. (\E t \in 1 .. rw_count' : role'[t] = "W" /\ rw_place'[t] = "print")
            <=> (\E t \in 1 .. rw_count : role[t] = "W" /\ rw_place[t] = "print")
      BY <2>1, <2>2, <2>3, <3>1, <3>2
    <3>4. \A t \in 1 .. rw_count' : rw_place'[t] = "print" => my_value'[t] = counter'
      BY <1>1, <1>3, <2>1, <2>2, <2>3, <3>1 DEF Rw!CounterInv
    <3> QED BY <1>1, <1>3, <3>3, <3>4 DEF Rw!CounterInv, Rw!Writers
  <2>10. Rw!RoomForThreads'
    BY <1>4, <2>1 DEF Rw!RoomForThreads
  <2> QED BY <2>4, <2>6, <2>7, <2>8, <2>9, <2>10 DEF Rw!IInv
<1> QED BY <1>5, <1>6

\* A thread takes the lock, accesses the counter, prints and unlocks.
LEMMA RwMoves ==
  ASSUME Rw!IInv, NEW t \in 1 .. rw_count,
         Rw!Lock(t) \/ Rw!Access(t) \/ Rw!PrintValue(t) \/ Rw!Unlock(t)
  PROVE  Rw!IInv'
<1>1. /\ Rw!TypeOK /\ Rw!JoinedInv /\ Rw!ExclusionInv
      /\ \A n \in DOMAIN rw_printed : rw_printed[n][2] = WritersIn(rw_printed, n)
      /\ counter = WritersIn(rw_printed, Len(rw_printed))
           + (IF \E u \in 1 .. rw_count : role[u] = "W" /\ rw_place[u] = "print" THEN 1 ELSE 0)
      /\ \A u \in 1 .. rw_count : rw_place[u] = "print" => my_value[u] = counter
      /\ Rw!RoomForThreads
  BY RwCounts DEF Rw!IInv
<1>2. /\ rw_count \in Nat /\ rw_joined \in 0 .. rw_count
      /\ role \in [1 .. rw_count -> {"R", "W"}]
      /\ rw_place \in [1 .. rw_count -> Rw!Locking] /\ rw_place \in Seq(Rw!Locking)
      /\ my_value \in [1 .. rw_count -> Nat] /\ my_value \in Seq(Nat)
      /\ counter \in Nat /\ rw_printed \in Seq({"R", "W"} \X Nat)
      /\ DOMAIN rw_place = 1 .. rw_count
  BY <1>1 DEF Rw!TypeOK
<1>3. UNCHANGED <<rw_main, rw_error, typed, rw_count, rw_capacity, rw_joined, role>>
  BY DEF Rw!Lock, Rw!Access, Rw!PrintValue, Rw!Unlock, Rw!MoveTo
<1>4. PICK from, to :
        /\ rw_place[t] = from /\ rw_place' = [rw_place EXCEPT ![t] = to] /\ to \in Rw!Locking
        /\ \/ from = "lock" /\ to = "access" /\ Rw!Lock(t)
           \/ from = "access" /\ to = "print" /\ Rw!Access(t)
           \/ from = "print" /\ to = "unlock" /\ Rw!PrintValue(t)
           \/ from = "unlock" /\ to = "done" /\ Rw!Unlock(t)
  BY DEF Rw!Lock, Rw!Access, Rw!PrintValue, Rw!Unlock, Rw!MoveTo, Rw!Locking
<1>5. /\ rw_place' \in [1 .. rw_count -> Rw!Locking] /\ rw_place' \in Seq(Rw!Locking)
      /\ rw_place'[t] = to /\ \A u \in 1 .. rw_count : u # t => rw_place'[u] = rw_place[u]
  BY <1>2, <1>4
<1>6. Rw!JoinedInv'
  <2>1. \A u \in 1 .. rw_joined : u \in 1 .. rw_count /\ u # t
    BY <1>1, <1>2, <1>4 DEF Rw!JoinedInv
  <2> QED BY <1>1, <1>3, <1>5, <2>1 DEF Rw!JoinedInv
<1>7. Rw!RoomForThreads'
  <2>1. rw_main # "returned"
    BY <1>1, <1>2, <1>4 DEF Rw!RoomForThreads
  <2> QED BY <1>1, <1>3, <2>1 DEF Rw!RoomForThreads
<1>8. Rw!ExclusionInv'
  <2>1. \A u \in 1 .. rw_count : u # t => (Rw!Holding(u)' <=> Rw!Holding(u))
    BY <1>5 DEF Rw!Holding
  <2>2. CASE from = "lock"
    <3>1. \A u \in 1 .. rw_count : Rw!Holding(u) => role[t] = "R" /\ role[u] = "R"
      BY <1>2, <1>4, <2>2 DEF Rw!Lock, Rw!CanLock
    <3> QED BY <1>1, <1>3, <2>1, <3>1 DEF Rw!ExclusionInv
  <2>3. CASE from # "lock"
    <3>1. Rw!Holding(t)
      BY <1>4, <2>3 DEF Rw!Holding
    <3> QED BY <1>1, <1>3, <2>1, <3>1 DEF Rw!ExclusionInv
  <2> QED BY <2>2, <2>3
\* Who is about to print, of the writers.
<1> DEFINE printing == \E u \in 1 .. rw_count : role[u] = "W" /\ rw_place[u] = "print"
           W == WritersIn(rw_printed, Len(rw_printed))
<1>9. W \in Nat /\ Len(rw_printed) \in Nat /\ DOMAIN rw_printed = 1 .. Len(rw_printed)
  <2>1. <<"R", 0>> \in {"R", "W"} \X Nat
    OBVIOUS
  <2> QED BY <1>2, <2>1, LinesGrow
<1>10. /\ counter = W + (IF printing THEN 1 ELSE 0)
       /\ role[t] = "W" /\ from \in {"access", "print"} =>
            \A u \in 1 .. rw_count : u # t => rw_place[u] # "print"
       /\ \A u \in 1 .. rw_count : u # t /\ role[u] = "W" /\ rw_place[u] = "print" =>
            from \notin {"access", "print"}
  BY <1>1, <1>4 DEF Rw!ExclusionInv, Rw!Holding
<1>11. CASE from \in {"lock", "unlock"}
  <2>1. counter' = counter /\ my_value' = my_value /\ rw_printed' = rw_printed /\ to # "print" /\ from # "print"
    BY <1>4, <1>11 DEF Rw!Lock, Rw!Unlock
  <2>2. \A u \in 1 .. rw_count : rw_place'[u] = "print" <=> rw_place[u] = "print"
    BY <1>4, <1>5, <2>1
  <2>3. Rw!TypeOK'
    BY <1>1, <1>3, <1>5, <2>1 DEF Rw!TypeOK
  <2>4. Rw!ReadersSeeWriters'
    BY <1>1, <2>1, RwCountsNext
  <2>5. Rw!CounterInv'
    <3>1. (\E u \in 1 .. rw_count : role'[u] = "W" /\ rw_place'[u] = "print") <=> printing
      BY <1>3, <2>2
    <3>2. \A u \in 1 .. rw_count : rw_place'[u] = "print" => my_value'[u] = counter'
      BY <1>1, <2>1, <2>2
    <3> QED BY <1>3, <1>10, <2>1, <3>1, <3>2, RwCountsNext
  <2> QED BY <1>6, <1>7, <1>8, <2>3, <2>4, <2>5 DEF Rw!IInv
<1>12. CASE from = "access"
  <2>1. /\ to = "print" /\ rw_printed' = rw_printed
        /\ counter' = (IF role[t] = "W" THEN counter + 1 ELSE counter)
        /\ my_value' = [my_value EXCEPT ![t] = counter']
    BY <1>4, <1>12 DEF Rw!Access
  <2>2. PICK c \in Nat : c = counter' /\ c = (IF role[t] = "W" THEN counter + 1 ELSE counter)
    BY <1>2, <2>1
  <2>3. my_value' = [my_value EXCEPT ![t] = c]
    BY <2>1, <2>2
  <2>4. Rw!TypeOK'
    <3>1. my_value' \in [1 .. rw_count -> Nat] /\ my_value' \in Seq(Nat)
      BY <1>2, <2>3
    <3> QED BY <1>1, <1>3, <1>5, <2>1, <2>2, <3>1 DEF Rw!TypeOK
  <2>5. Rw!ReadersSeeWriters'
    BY <1>1, <2>1, RwCountsNext
  <2>6. ~printing
    BY <1>4, <1>10, <1>12
  <2>7. counter = W
    BY <1>9, <1>10, <2>6
  <2>8. (\E u \in 1 .. rw_count : role[u] = "W" /\ rw_place'[u] = "print") <=> role[t] = "W"
    BY <1>5, <2>1, <2>6
  <2>9. counter' = W + (IF \E u \in 1 .. rw_count : role[u] = "W" /\ rw_place'[u] = "print" THEN 1 ELSE 0)
    BY <1>9, <2>2, <2>7, <2>8
  <2>10. ASSUME NEW u \in 1 .. rw_count, rw_place'[u] = "print" PROVE my_value'[u] = c
    <3>1. CASE u = t
      BY <1>2, <2>3, <3>1
    <3>2. CASE u # t
      <4>1. my_value'[u] = my_value[u] /\ rw_place[u] = "print"
        BY <1>2, <1>5, <2>3, <2>10, <3>2
      <4>2. role[t] # "W"
        BY <1>10, <1>12, <3>2, <4>1
      <4> QED BY <1>1, <2>2, <4>1, <4>2
    <3> QED BY <3>1, <3>2
  <2>11. Rw!CounterInv'
    BY <1>3, <2>1, <2>2, <2>9, <2>10, RwCountsNext
  <2> QED BY <1>6, <1>7, <1>8, <2>4, <2>5, <2>11 DEF Rw!IInv
<1>13. CASE from = "print"
  <2> DEFINE line == <<role[t], my_value[t]>>
             last == Len(rw_printed)
  <2>1. /\ to = "unlock" /\ rw_printed' = Append(rw_printed, line)
        /\ counter' = counter /\ my_value' = my_value
    BY <1>4, <1>13 DEF Rw!PrintValue
  <2>2. line \in {"R", "W"} \X Nat /\ line[1] = role[t] /\ line[2] = counter
    BY <1>1, <1>2, <1>4, <1>13
  <2> HIDE DEF line
  <2>3. PICK more : more = rw_printed'
    OBVIOUS
  <2>4. /\ more \in Seq({"R", "W"} \X Nat) /\ Len(more) = last + 1
        /\ \A n \in 1 .. last : more[n] = rw_printed[n] /\ WritersIn(more, n) = WritersIn(rw_printed, n)
        /\ more[last + 1] = line
        /\ WritersIn(more, last + 1) = W + (IF role[t] = "W" THEN 1 ELSE 0)
    BY <1>2, <2>1, <2>2, <2>3, LinesGrow
  <2>5. Rw!TypeOK'
    BY <1>1, <1>3, <1>5, <2>1, <2>3, <2>4 DEF Rw!TypeOK
  <2>6. printing <=> role[t] = "W"
    BY <1>4, <1>10, <1>13
  <2>7. counter = WritersIn(more, last + 1)
    BY <1>9, <1>10, <2>4, <2>6
  <2>8. ~\E u \in 1 .. rw_count : role[u] = "W" /\ rw_place'[u] = "print"
    BY <1>5, <1>10, <1>13, <2>1
  <2>9. Rw!ReadersSeeWriters'
    <3>1. ASSUME NEW n \in DOMAIN more PROVE more[n][2] = WritersIn(more, n)
      <4>1. n \in 1 .. last \/ n = last + 1
        BY <1>9, <2>4
      <4>2. CASE n \in 1 .. last
        BY <1>1, <1>9, <2>4, <4>2
      <4>3. CASE n = last + 1
        BY <2>2, <2>4, <2>7, <4>3
      <4> QED BY <4>1, <4>2, <4>3
    <3> QED BY <2>3, <3>1, RwCountsNext
  <2>10. Rw!CounterInv'
    <3>1. counter = WritersIn(more, Len(more)) + 0
      BY <1>2, <2>4, <2>7
    <3>2. \A u \in 1 .. rw_count : rw_place'[u] = "print" => my_value'[u] = counter'
      BY <1>1, <1>5, <2>1
    <3> QED BY <1>3, <2>1, <2>3, <2>8, <3>1, <3>2, RwCountsNext
  <2> QED BY <1>6, <1>7, <1>8, <2>5, <2>9, <2>10 DEF Rw!IInv
<1> QED BY <1>4, <1>11, <1>12, <1>13

LEMMA RwKeepsInv == Rw!IInv /\ [Rw!Next]_(Rw!rwVars) => Rw!IInv'
<1>1. ASSUME Rw!IInv, UNCHANGED Rw!rwVars PROVE Rw!IInv'
  <2>1. UNCHANGED <<rw_main, rw_error, typed, rw_count, rw_capacity, rw_joined, role, rw_place,
                    counter, my_value, rw_printed>>
    BY <1>1 DEF Rw!rwVars
  <2>2. Rw!TypeOK' /\ Rw!JoinedInv' /\ Rw!RoomForThreads'
    BY <1>1, <2>1 DEF Rw!IInv, Rw!TypeOK, Rw!JoinedInv, Rw!RoomForThreads
  <2>3. Rw!ExclusionInv' /\ Rw!CounterInv' /\ Rw!ReadersSeeWriters'
    BY <1>1, <2>1 DEF Rw!IInv, Rw!ExclusionInv, Rw!Holding, Rw!CounterInv, Rw!ReadersSeeWriters,
                      Rw!Writers
  <2> QED BY <2>2, <2>3 DEF Rw!IInv
<1>2. Rw!IInv => DOMAIN rw_place = 1 .. rw_count
  BY DEF Rw!IInv, Rw!TypeOK
<1> QED BY <1>1, <1>2, RwMainStep, RwReads, RwMoves DEF Rw!Next, Rw!RwStep

LEMMA RwHolds == ExercisesSpec => []Rw!IInv
<1>1. ExercisesInit => Rw!IInv
  BY RwStarts DEF ExercisesInit
<1>2. Rw!IInv /\ [ExercisesNext]_allVars => Rw!IInv'
  BY RwBehaves, RwKeepsInv
<1> QED BY <1>1, <1>2, PTL DEF ExercisesSpec

\* A line printed in readers_writers has the number of the writers that printed so far
\* (reader, writer: the lock is held from the access to the end of the printing).
THEOREM ReadersTheorem == ExercisesSpec => []Rw!ReadersSeeWriters
<1>1. Rw!IInv => Rw!ReadersSeeWriters
  BY DEF Rw!IInv
<1> QED BY <1>1, RwHolds, PTL

\* The array of readers_writers has room for the threads created, and is released after
\* the last one ended (resize, create_threads, join_threads).
THEOREM RoomTheorem == ExercisesSpec => []Rw!RoomForThreads
<1>1. Rw!IInv => Rw!RoomForThreads
  BY DEF Rw!IInv
<1> QED BY <1>1, RwHolds, PTL

-----------------------------------------------------------------------------
(* The first programs of pthreads/: a main thread, its registers and a team. *)

\* The threads that greet.
LEMMA GreetsBehaves == [ExercisesNext]_allVars => [Greets!Next]_(Greets!greetVars)
BY DEF ExercisesNext, OthersUnchanged, Unless, allVars, greetVars, Greets!greetVars

LEMMA GreetsStarts == Greets!Init => Greets!IInv
<1> SUFFICES ASSUME Greets!Init PROVE Greets!IInv
  OBVIOUS
<1>1. /\ greet_program = "none" /\ team_size = 0 /\ greet_main = "launch" /\ made = 0 /\ collected = 0
      /\ greeter = <<>> /\ private_data = <<>> /\ greeting = <<>>
      /\ block = [r \in Greets!Register |-> "null"] /\ exit_error = 0
  BY DEF Greets!Init
<1>2. Greets!Greeters = 0 .. 0 - 1 /\ Greets!Greeters = {}
  BY <1>1 DEF Greets!Greeters
<1>3. Greets!ToCreate = 0
  BY <1>1 DEF Greets!ToCreate
<1>4. Greets!TypeOK
  <2>1. /\ greeter \in [{} -> {"unborn", "greet", "create", "join", "done"}]
        /\ private_data \in [{} -> Nat] /\ DOMAIN greeting = {}
    BY <1>1
  <2> QED BY <1>1, <1>2, <1>3, <2>1 DEF Greets!TypeOK
<1> QED BY <1>1, <1>2, <1>4 DEF Greets!IInv, Greets!LaunchInv, Greets!BlockInv, Greets!CreatedInv,
          Greets!NextInv, Greets!GreetingInv, Greets!AllDone, Greets!GreetsAsItself

\* What the steps below use of the invariant.
LEMMA GreetsFacts ==
  ASSUME Greets!IInv
  PROVE  /\ team_size \in Nat /\ Greets!Greeters = 0 .. team_size - 1
         /\ made \in Nat /\ collected \in Nat /\ collected <= made /\ made <= Greets!ToCreate
         /\ Greets!ToCreate \in Nat
         /\ Greets!ToCreate = IF greet_program = "recursive_hello" THEN 1 ELSE team_size
         /\ \A n : Greets!Made(n) = IF greet_program = "recursive_hello" THEN team_size - 1 ELSE n
         /\ greeter \in [Greets!Greeters -> {"unborn", "greet", "create", "join", "done"}]
         /\ Greets!TypeOK /\ Greets!LaunchInv /\ Greets!BlockInv /\ Greets!CreatedInv
         /\ Greets!NextInv /\ Greets!GreetingInv /\ Greets!AllDone /\ Greets!GreetsAsItself
<1>1. Greets!TypeOK
  BY DEF Greets!IInv
<1>2. team_size \in Nat /\ made \in 0 .. Greets!ToCreate /\ collected \in 0 .. made
  BY <1>1 DEF Greets!TypeOK
<1>3. Greets!ToCreate \in Nat
  BY <1>2 DEF Greets!ToCreate
<1>4. made \in Nat /\ collected \in Nat /\ collected <= made /\ made <= Greets!ToCreate
  BY <1>2, <1>3
<1>5. /\ Greets!Greeters = 0 .. team_size - 1
      /\ greeter \in [Greets!Greeters -> {"unborn", "greet", "create", "join", "done"}]
  BY <1>1 DEF Greets!TypeOK, Greets!Greeters
<1>6. /\ Greets!ToCreate = IF greet_program = "recursive_hello" THEN 1 ELSE team_size
      /\ \A n : Greets!Made(n) = IF greet_program = "recursive_hello" THEN team_size - 1 ELSE n
  BY DEF Greets!ToCreate, Greets!Made
<1>7. /\ Greets!TypeOK /\ Greets!LaunchInv /\ Greets!BlockInv /\ Greets!CreatedInv
      /\ Greets!NextInv /\ Greets!GreetingInv /\ Greets!AllDone /\ Greets!GreetsAsItself
  BY DEF Greets!IInv
<1> QED BY <1>2, <1>3, <1>4, <1>5, <1>6, <1>7

\* The program and its arguments.
LEMMA GreetsLaunches ==
  ASSUME Greets!IInv, Greets!Launch
  PROVE  Greets!IInv'
<1>1. /\ greet_main = "launch" /\ greet_program = "none" /\ team_size = 0
      /\ made = 0 /\ collected = 0 /\ exit_error = 0 /\ Greets!TypeOK
      /\ LotteryNumbers \subseteq Nat /\ TeamSizes \subseteq Nat
  <2>1. Greets!TypeOK /\ Greets!LaunchInv /\ greet_main = "launch"
    BY GreetsFacts DEF Greets!Launch
  <2>2. made \in Nat /\ collected \in Nat /\ collected <= made
    BY GreetsFacts
  <2> QED BY <2>1, <2>2, ExercisesAssumption DEF Greets!LaunchInv, Greets!GreetingAssumption
<1>2. /\ team_size' \in Nat
      /\ greet_program' = "hello" => team_size' = 1
      /\ greet_program' = "recursive_hello" => team_size' = 3
      /\ greet_program' = "grandma_lottery" => team_size' = 2
      /\ greet_main' = IF Greets!IsTeam' THEN "allocate" ELSE "create"
      /\ greeter' = [t \in Greets!Greeters' |-> "unborn"]
      /\ private_data' = [t \in Greets!Greeters' |-> 0]
      /\ greeting' = [t \in Greets!Greeters' |-> <<>>]
      /\ made' = 0 /\ collected' = 0 /\ block' = block /\ exit_error' = 0
  BY <1>1 DEF Greets!Launch
<1>3. Greets!Greeters' = 0 .. team_size' - 1
  BY DEF Greets!Greeters
<1>4. Greets!ToCreate' \in Nat
  BY <1>2 DEF Greets!ToCreate
<1>5. Greets!TypeOK'
  BY <1>1, <1>2, <1>4 DEF Greets!TypeOK
<1>6. Greets!LaunchInv'
  BY <1>2 DEF Greets!LaunchInv
<1>7. Greets!BlockInv'
  BY <1>2 DEF Greets!BlockInv, Greets!Registers, Greets!IsTeam
<1>8. /\ \A t \in Greets!Greeters' : t \in Nat /\ greeter'[t] = "unborn"
      /\ greet_program' = "recursive_hello" => \A t \in 0 .. 2 : greeter'[t] = "unborn"
  <2>1. \A t \in Greets!Greeters' : greeter'[t] = "unborn"
    BY <1>2
  <2>2. \A t \in Greets!Greeters' : t \in Nat
    BY <1>2, <1>3
  <2>3. greet_program' = "recursive_hello" => 0 .. 2 \subseteq Greets!Greeters'
    BY <1>2, <1>3
  <2> QED BY <2>1, <2>2, <2>3
<1>9. Greets!CreatedInv' /\ Greets!NextInv'
  <2>1. greet_main' \in {"allocate", "create"}
    BY <1>2
  <2>2. \A t \in Greets!Greeters' : t >= made' /\ ~(t < collected')
    BY <1>2, <1>8
  <2>3. greet_program' = "recursive_hello" =>
          greeter'[0] = "unborn" /\ greeter'[1] = "unborn" /\ greeter'[2] = "unborn"
    BY <1>8
  <2>4. Greets!CreatedInv'
    BY <1>2, <1>8, <2>1, <2>2, <2>3 DEF Greets!CreatedInv
  <2>5. \A t \in 1 .. 2 : t = 1 \/ t = 2
    OBVIOUS
  <2>6. Greets!NextInv'
    BY <1>8, <2>3, <2>5 DEF Greets!NextInv
  <2> QED BY <2>4, <2>6
<1>10. Greets!GreetingInv' /\ Greets!AllDone' /\ Greets!GreetsAsItself'
  BY <1>2 DEF Greets!GreetingInv, Greets!AllDone, Greets!GreetsAsItself
<1> QED BY <1>5, <1>6, <1>7, <1>9, <1>10 DEF Greets!IInv

\* The registers of the team.
LEMMA GreetsAllocates ==
  ASSUME Greets!IInv, Greets!Allocate
  PROVE  Greets!IInv'
<1>1. /\ greet_main = "allocate" /\ Greets!IsTeam /\ made = 0 /\ collected = 0 /\ exit_error = 0
      /\ Greets!TypeOK /\ \A t \in Greets!Greeters : greeter[t] = "unborn"
      /\ greet_program # "recursive_hello"
  <2>1. Greets!TypeOK /\ Greets!LaunchInv /\ greet_main = "allocate"
    BY GreetsFacts DEF Greets!Allocate
  <2>2. made \in Nat /\ collected \in Nat /\ collected <= made
    BY GreetsFacts
  <2> QED BY <2>1, <2>2 DEF Greets!LaunchInv, Greets!IsTeam
<1>2. /\ UNCHANGED <<greet_program, team_size, made, collected, greeter, private_data, greeting, main_says>>
      /\ Greets!Greeters' = Greets!Greeters /\ Greets!ToCreate' = Greets!ToCreate
      /\ (Greets!IsTeam' <=> Greets!IsTeam) /\ Greets!Registers' = Greets!Registers
  BY DEF Greets!Allocate, Greets!Greeters, Greets!ToCreate, Greets!IsTeam, Greets!Registers
<1>3. PICK failed \in SUBSET Greets!Registers :
        /\ block' = [r \in Greets!Register |->
             IF r \in Greets!Registers \ failed /\ ("shared_data" \in failed => r = "shared_data")
               THEN "live" ELSE "null"]
        /\ exit_error' = CASE failed = {} -> 0
                           [] "shared_data" \in failed -> 12
                           [] OTHER -> 22
  BY DEF Greets!Allocate
<1>4. Greets!Registers \subseteq Greets!Register /\ Greets!Registers \subseteq {"shared_data", "threads", "private_data"}
  BY DEF Greets!Registers, Greets!Register
<1>5. /\ failed = {} => exit_error' = 0
      /\ failed # {} => exit_error' \in {12, 22}
      /\ failed # {} /\ "shared_data" \notin failed => exit_error' = 22
  <2>1. CASE failed = {}
    BY <1>3, <2>1
  <2>2. CASE failed # {} /\ "shared_data" \in failed
    BY <1>3, <2>2
  <2>3. CASE failed # {} /\ "shared_data" \notin failed
    BY <1>3, <2>3
  <2> QED BY <2>1, <2>2, <2>3
<1>6. /\ block' \in [Greets!Register -> {"null", "live", "freed"}]
      /\ failed = {} => \A r \in Greets!Registers : block'[r] = "live"
      /\ \A r \in Greets!Register : block'[r] = "live" =>
            r \in Greets!Registers /\ r \notin failed /\ "shared_data" \notin failed
  BY <1>3, <1>4
<1>7. \/ greet_main' = "create" /\ failed = {}
      \/ greet_main' = "free shared" /\ exit_error' = 22 /\ greet_program = "hello_iw_shr"
      \/ greet_main' = "returned" /\ exit_error' \in {12, 22}
  <2> DEFINE allocated == {r \in Greets!Register : block'[r] = "live"}
  <2>1. greet_main' = IF allocated = Greets!Registers THEN "create"
                      ELSE IF "shared_data" \in allocated THEN "free shared" ELSE "returned"
    BY DEF Greets!Allocate
  <2>2. allocated = Greets!Registers => failed = {}
    BY <1>4, <1>6
  <2>3. failed = {} => allocated = Greets!Registers
    BY <1>4, <1>6
  <2>4. "shared_data" \in allocated =>
          "shared_data" \in Greets!Registers /\ "shared_data" \notin failed
    BY <1>6
  <2>5. "shared_data" \in Greets!Registers => greet_program = "hello_iw_shr"
    BY DEF Greets!Registers
  <2> HIDE DEF allocated
  <2>6. CASE allocated = Greets!Registers
    <3>1. greet_main' = "create"
      BY <2>1, <2>6
    <3>2. failed = {}
      BY <2>2, <2>6
    <3> QED BY <3>1, <3>2
  <2>7. CASE allocated # Greets!Registers /\ "shared_data" \in allocated
    <3>1. greet_main' = "free shared"
      BY <2>1, <2>7
    <3>2. failed # {}
      BY <2>3, <2>7
    <3>3. greet_program = "hello_iw_shr" /\ "shared_data" \notin failed
      BY <2>4, <2>5, <2>7
    <3>4. exit_error' = 22
      BY <1>5, <3>2, <3>3
    <3> QED BY <3>1, <3>3, <3>4
  <2>8. CASE allocated # Greets!Registers /\ "shared_data" \notin allocated
    <3>1. greet_main' = "returned"
      BY <2>1, <2>8
    <3>2. failed # {}
      BY <2>3, <2>8
    <3> QED BY <1>5, <3>1, <3>2
  <2> QED BY <2>6, <2>7, <2>8
<1>8. Greets!TypeOK'
  <2>1. greet_main' \in {"create", "free shared", "returned"}
    BY <1>7
  <2> QED BY <1>1, <1>2, <1>6, <2>1 DEF Greets!TypeOK
<1>9. Greets!LaunchInv'
  BY <1>2, <1>7, GreetsFacts DEF Greets!LaunchInv
<1>10. Greets!BlockInv'
  <2>1. greet_main' = "create" => \A r \in Greets!Registers : block'[r] = "live"
    BY <1>6, <1>7
  <2>2. greet_main' \in {"create", "free shared", "returned"}
    BY <1>7
  <2>3. greet_main' = "free shared" => greet_program = "hello_iw_shr" /\ exit_error' = 22
    BY <1>7
  <2>4. ~(22 = 0) /\ 22 \in {0, 22}
    OBVIOUS
  <2>5. greet_main' = "free shared" => exit_error' \in {0, 22} /\ exit_error' # 0
    BY <2>3, <2>4
  <2>6. greet_main' \in {"create", "greet", "join"} => greet_main' = "create"
    BY <2>2
  <2> QED BY <1>2, <2>1, <2>3, <2>5, <2>6 DEF Greets!BlockInv
<1>11. Greets!CreatedInv'
  <2>1. \A t \in Greets!Greeters : t >= made /\ ~(t < collected)
    BY <1>1, GreetsFacts
  <2>2. 22 # 0
    OBVIOUS
  <2>3. greet_main' \in {"create", "free shared", "returned"}
    BY <1>7
  <2>4. greet_main' = "create" => exit_error' = 0
    BY <1>5, <1>7
  <2>5. greet_main' = "free shared" => exit_error' # 0
    BY <1>7, <2>2
  <2> QED BY <1>1, <1>2, <2>1, <2>3, <2>4, <2>5 DEF Greets!CreatedInv
<1>12. Greets!NextInv' /\ Greets!GreetingInv'
  BY <1>1, <1>2, GreetsFacts DEF Greets!NextInv, Greets!GreetingInv
<1>13. Greets!AllDone'
  BY <1>1, <1>2 DEF Greets!AllDone
<1>14. Greets!GreetsAsItself'
  <2>1. greet_main' # "returned" \/ exit_error' \in {12, 22}
    <3>1. CASE greet_main' = "create"
      BY <3>1
    <3>2. CASE greet_main' = "free shared"
      BY <3>2
    <3>3. CASE greet_main' = "returned" /\ exit_error' \in {12, 22}
      BY <3>3
    <3> QED BY <1>7, <3>1, <3>2, <3>3
  <2>3. 12 # 0 /\ 22 # 0
    OBVIOUS
  <2>2. \A t \in Greets!Greeters : greeting[t] = <<>>
    BY <1>1, GreetsFacts DEF Greets!GreetingInv
  <2> QED BY <1>2, <2>1, <2>2, <2>3 DEF Greets!GreetsAsItself
<1> QED BY <1>8, <1>9, <1>10, <1>11, <1>12, <1>13, <1>14 DEF Greets!IInv

\* A step that leaves the program as it is, and does not return.
LEMMA GreetsSays ==
  ASSUME Greets!GreetsAsItself, greet_main' # "returned",
         UNCHANGED <<greet_program, team_size, greeting>>
  PROVE  Greets!GreetsAsItself'
<1>1. Greets!Greeters' = Greets!Greeters
  BY DEF Greets!Greeters
<1> QED BY <1>1 DEF Greets!GreetsAsItself

LEMMA GreetsSame ==
  ASSUME UNCHANGED <<greet_program, team_size>>
  PROVE  /\ Greets!Greeters' = Greets!Greeters /\ Greets!ToCreate' = Greets!ToCreate
         /\ (Greets!IsTeam' <=> Greets!IsTeam) /\ Greets!Registers' = Greets!Registers
BY DEF Greets!Greeters, Greets!ToCreate, Greets!IsTeam, Greets!Registers

\* A thread that the main thread creates.
LEMMA GreetsCreates ==
  ASSUME Greets!IInv, Greets!CreateThread
  PROVE  Greets!IInv'
<1> DEFINE n == Greets!Made(made)
<1>1. /\ greet_main = "create" /\ made < Greets!ToCreate
      /\ private_data' = [private_data EXCEPT ![n] = n]
      /\ greeter' = [greeter EXCEPT ![n] = "greet"]
      /\ made' = made + 1 /\ greet_main' = greet_main /\ exit_error' = exit_error
      /\ UNCHANGED <<greet_program, team_size, collected, block, greeting>>
  BY DEF Greets!CreateThread
<1>2. /\ Greets!Greeters' = Greets!Greeters /\ Greets!ToCreate' = Greets!ToCreate
      /\ (Greets!IsTeam' <=> Greets!IsTeam) /\ Greets!Registers' = Greets!Registers
  BY <1>1, GreetsSame
<1>3. /\ exit_error = 0 /\ collected = 0
      /\ greet_program # "recursive_hello" =>
           \A t \in Greets!Greeters : greeter[t] = "unborn" <=> t >= made
      /\ greet_program = "recursive_hello" => (greeter[2] = "unborn" <=> made = 0)
  BY <1>1, GreetsFacts DEF Greets!CreatedInv
<1>4. /\ greet_program = "recursive_hello" => n = 2 /\ made = 0 /\ team_size = 3 /\ Greets!ToCreate = 1
      /\ greet_program # "recursive_hello" => n = made /\ Greets!ToCreate = team_size
  <2>1. greet_program = "recursive_hello" => team_size = 3 /\ Greets!ToCreate = 1
    BY GreetsFacts DEF Greets!LaunchInv
  <2>2. n = IF greet_program = "recursive_hello" THEN team_size - 1 ELSE made
    BY GreetsFacts
  <2>3. greet_program = "recursive_hello" => made = 0
    BY <1>1, <2>1, GreetsFacts
  <2>4. greet_program # "recursive_hello" => n = made /\ Greets!ToCreate = team_size
    BY <2>2, GreetsFacts
  <2> QED BY <2>1, <2>2, <2>3, <2>4
<1>5. n \in Greets!Greeters /\ n \in Nat /\ greeter[n] = "unborn"
  <2>1. CASE greet_program = "recursive_hello"
    <3>1. 2 \in 0 .. 3 - 1
      OBVIOUS
    <3> QED BY <1>3, <1>4, <2>1, <3>1, GreetsFacts
  <2>2. CASE greet_program # "recursive_hello"
    <3>1. made \in 0 .. team_size - 1 /\ made >= made
      BY <1>1, <1>4, <2>2, GreetsFacts
    <3> QED BY <1>3, <1>4, <2>2, <3>1, GreetsFacts
  <2> QED BY <2>1, <2>2
<1> HIDE DEF n
<1>6. /\ \A t \in Greets!Greeters : t # n => greeter'[t] = greeter[t] /\ private_data'[t] = private_data[t]
      /\ greeter'[n] = "greet" /\ private_data'[n] = n
  <2>1. greeter \in [Greets!Greeters -> {"unborn", "greet", "create", "join", "done"}]
        /\ private_data \in [Greets!Greeters -> Nat]
    BY GreetsFacts DEF Greets!TypeOK
  <2> QED BY <1>1, <1>5, <2>1
<1>7. Greets!TypeOK'
  <2>1. made' \in 0 .. Greets!ToCreate /\ collected \in 0 .. made'
    BY <1>1, <1>3, GreetsFacts
  <2>2. greeter' \in [Greets!Greeters -> {"unborn", "greet", "create", "join", "done"}]
        /\ private_data' \in [Greets!Greeters -> Nat]
    BY <1>1, <1>5, GreetsFacts DEF Greets!TypeOK
  <2> QED BY <1>1, <1>2, <2>1, <2>2, GreetsFacts DEF Greets!TypeOK
<1>8. Greets!LaunchInv' /\ Greets!BlockInv'
  BY <1>1, <1>2, GreetsFacts DEF Greets!LaunchInv, Greets!BlockInv
<1>9. Greets!CreatedInv'
  <2>1. CASE greet_program = "recursive_hello"
    <3>1. greeter'[2] = "greet" /\ made' = 1
      BY <1>1, <1>4, <1>6, <2>1
    <3> QED BY <1>1, <1>2, <1>3, <2>1, <3>1 DEF Greets!CreatedInv
  <2>2. CASE greet_program # "recursive_hello"
    <3>1. \A t \in Greets!Greeters : greeter'[t] = "unborn" <=> t >= made'
      <4> SUFFICES ASSUME NEW t \in Greets!Greeters
                   PROVE  greeter'[t] = "unborn" <=> t >= made'
        OBVIOUS
      <4>1. t \in Int /\ made \in Int
        BY GreetsFacts
      <4>2. CASE t = n
        BY <1>1, <1>4, <1>6, <2>2, <4>1, <4>2
      <4>3. CASE t # n
        BY <1>1, <1>3, <1>4, <1>6, <2>2, <4>1, <4>3
      <4> QED BY <4>2, <4>3
    <3>2. \A t \in Greets!Greeters : ~(t < collected)
      BY <1>3, GreetsFacts
    <3> QED BY <1>1, <1>2, <1>3, <2>2, <3>1, <3>2 DEF Greets!CreatedInv
  <2> QED BY <2>1, <2>2
<1>10. Greets!NextInv'
  <2>1. ASSUME greet_program = "recursive_hello"
        PROVE  \A t \in 1 .. 2 :
                 /\ greeter'[t] \in {"unborn", "greet", "create"} => greeter'[t - 1] = "unborn"
                 /\ greeter'[t] = "join" => greeter'[t - 1] # "unborn"
                 /\ greeter'[t] = "done" => greeter'[t - 1] = "done" \/ (CreationMayFail /\ greeter'[t - 1] = "unborn")
    <3>1. n = 2 /\ greeter[2] = "unborn" /\ team_size = 3
      BY <1>4, <1>5, <2>1
    <3>2. 0 \in Greets!Greeters /\ 1 \in Greets!Greeters
      BY <3>1, GreetsFacts
    <3>3. greeter'[2] = "greet" /\ greeter'[1] = greeter[1] /\ greeter'[0] = greeter[0]
      BY <1>6, <3>1, <3>2
    <3>4. \A t \in 1 .. 2 : (t = 1 /\ t - 1 = 0) \/ (t = 2 /\ t - 1 = 1)
      OBVIOUS
    <3>5. \A t \in 1 .. 2 :
                 /\ greeter[t] \in {"unborn", "greet", "create"} => greeter[t - 1] = "unborn"
                 /\ greeter[t] = "join" => greeter[t - 1] # "unborn"
                 /\ greeter[t] = "done" => greeter[t - 1] = "done" \/ (CreationMayFail /\ greeter[t - 1] = "unborn")
      BY <2>1, GreetsFacts DEF Greets!NextInv
    <3>6. 1 \in 1 .. 2 /\ 2 \in 1 .. 2
      OBVIOUS
    <3> QED BY <3>1, <3>3, <3>4, <3>5, <3>6
  <2>2. \A t \in Greets!Greeters : greeter'[t] \in {"create", "join"} =>
          greet_program = "recursive_hello" /\ t > 0
    BY <1>6, GreetsFacts DEF Greets!NextInv
  <2> QED BY <1>1, <1>2, <2>1, <2>2 DEF Greets!NextInv
<1>11. Greets!GreetingInv'
  BY <1>1, <1>2, <1>5, <1>6, GreetsFacts DEF Greets!GreetingInv
<1>12. Greets!AllDone' /\ Greets!GreetsAsItself'
  BY <1>1, GreetsFacts, GreetsSays DEF Greets!AllDone
<1> QED BY <1>7, <1>8, <1>9, <1>10, <1>11, <1>12 DEF Greets!IInv

\* A creation that fails.
LEMMA GreetsFails ==
  ASSUME Greets!IInv, Greets!CreateFails
  PROVE  Greets!IInv'
<1>1. /\ greet_main = "create" /\ made < Greets!ToCreate
      /\ greet_main' = IF Greets!IsTeam THEN "greet" ELSE "returned"
      /\ exit_error' = IF Greets!IsTeam THEN 21 ELSE 1
      /\ \/ UNCHANGED greeter
         \/ /\ greet_program = "grandma_lottery" /\ made = 0
            /\ greeter' = [greeter EXCEPT ![1] = "greet"]
      /\ UNCHANGED <<greet_program, team_size, made, collected, block, private_data, greeting>>
  BY DEF Greets!CreateFails
<1>2. /\ Greets!Greeters' = Greets!Greeters /\ Greets!ToCreate' = Greets!ToCreate
      /\ (Greets!IsTeam' <=> Greets!IsTeam) /\ Greets!Registers' = Greets!Registers
  BY <1>1, GreetsSame
<1>3. CASE Greets!IsTeam
  <2>1. greet_main' = "greet" /\ exit_error' = 21 /\ greeter' = greeter
    BY <1>1, <1>3 DEF Greets!IsTeam
  <2>2. Greets!TypeOK' /\ Greets!LaunchInv' /\ Greets!BlockInv'
    <3>1. Greets!TypeOK'
      BY <1>1, <1>2, <2>1, GreetsFacts DEF Greets!TypeOK
    <3>2. Greets!LaunchInv'
      BY <1>1, <1>2, <2>1, GreetsFacts DEF Greets!LaunchInv
    <3>3. Greets!BlockInv'
      BY <1>1, <1>2, <2>1, GreetsFacts DEF Greets!BlockInv
    <3> QED BY <3>1, <3>2, <3>3
  <2>3. Greets!CreatedInv'
    BY <1>1, <1>2, <2>1, GreetsFacts DEF Greets!CreatedInv
  <2>4. Greets!NextInv' /\ Greets!GreetingInv'
    BY <1>1, <1>2, <2>1, GreetsFacts DEF Greets!NextInv, Greets!GreetingInv
  <2>5. Greets!AllDone' /\ Greets!GreetsAsItself'
    BY <1>1, <2>1, GreetsFacts, GreetsSays DEF Greets!AllDone
  <2> QED BY <2>2, <2>3, <2>4, <2>5 DEF Greets!IInv
<1>4. CASE ~Greets!IsTeam
  <2>1. greet_main' = "returned" /\ exit_error' = 1
    BY <1>1, <1>4
  <2>2. /\ \A t \in Greets!Greeters : greeter'[t] # greeter[t] =>
             greeter[t] = "unborn" /\ greeter'[t] = "greet" /\ greet_program = "grandma_lottery"
        /\ greeter' \in [Greets!Greeters -> {"unborn", "greet", "create", "join", "done"}]
    <3>1. CASE UNCHANGED greeter
      BY <3>1, GreetsFacts
    <3>2. CASE greet_program = "grandma_lottery" /\ made = 0 /\ greeter' = [greeter EXCEPT ![1] = "greet"]
      <4>1. team_size = 2
        BY <3>2, GreetsFacts DEF Greets!LaunchInv
      <4>2. 1 \in Greets!Greeters /\ 1 >= made
        BY <3>2, <4>1, GreetsFacts
      <4>3. greeter[1] = "unborn"
        BY <1>1, <3>2, <4>2, GreetsFacts DEF Greets!CreatedInv
      <4>4. greeter'[1] = "greet" /\ \A t \in Greets!Greeters : t # 1 => greeter'[t] = greeter[t]
        BY <3>2, <4>2, GreetsFacts
      <4>5. greeter' \in [Greets!Greeters -> {"unborn", "greet", "create", "join", "done"}]
        BY <3>2, GreetsFacts
      <4> QED BY <3>2, <4>3, <4>4, <4>5
    <3> QED BY <1>1, <3>1, <3>2
  <2>3. Greets!TypeOK'
    BY <1>1, <1>2, <2>1, <2>2, GreetsFacts DEF Greets!TypeOK
  <2>4. Greets!LaunchInv' /\ Greets!BlockInv'
    BY <1>1, <1>2, <2>1, GreetsFacts DEF Greets!LaunchInv, Greets!BlockInv
  <2>5. Greets!CreatedInv'
    BY <1>1, <1>2, <2>1 DEF Greets!CreatedInv
  <2>6. Greets!NextInv'
    <3>1. CASE greet_program = "grandma_lottery"
      <4>1. \A t \in Greets!Greeters : greeter'[t] \in {"create", "join"} => greeter'[t] = greeter[t]
        BY <2>2
      <4> QED BY <1>1, <1>2, <3>1, <4>1, GreetsFacts DEF Greets!NextInv
    <3>2. CASE greet_program # "grandma_lottery"
      <4>1. greeter' = greeter
        BY <1>1, <3>2
      <4> QED BY <1>1, <1>2, <4>1, GreetsFacts DEF Greets!NextInv
    <3> QED BY <3>1, <3>2
  <2>7. Greets!GreetingInv'
    <3>1. \A t \in Greets!Greeters : (greeter'[t] \in {"unborn", "greet"} <=> greeter[t] \in {"unborn", "greet"})
      BY <2>2
    <3> QED BY <1>1, <1>2, <1>4, <3>1, GreetsFacts DEF Greets!GreetingInv
  <2>8. Greets!AllDone'
    BY <2>1 DEF Greets!AllDone
  <2>9. Greets!GreetsAsItself'
    <3>1. Greets!Registers = {}
      BY <1>4 DEF Greets!Registers, Greets!IsTeam
    <3> QED BY <1>1, <1>2, <2>1, <3>1, GreetsFacts DEF Greets!GreetsAsItself
  <2> QED BY <2>3, <2>4, <2>5, <2>6, <2>7, <2>8, <2>9 DEF Greets!IInv
<1> QED BY <1>3, <1>4

\* The main thread greets.
LEMMA GreetsMain ==
  ASSUME Greets!IInv, Greets!MainGreets
  PROVE  Greets!IInv'
<1>1. /\ greet_main = "greet" \/ (greet_main = "create" /\ made = Greets!ToCreate)
      /\ greet_main' = "join"
      /\ UNCHANGED <<greet_program, team_size, made, collected, greeter, block, private_data, greeting, exit_error>>
  BY DEF Greets!MainGreets
<1>2. /\ Greets!Greeters' = Greets!Greeters /\ Greets!ToCreate' = Greets!ToCreate
      /\ (Greets!IsTeam' <=> Greets!IsTeam) /\ Greets!Registers' = Greets!Registers
  BY <1>1, GreetsSame
<1>3. Greets!TypeOK'
  BY <1>1, <1>2, GreetsFacts DEF Greets!TypeOK
<1>4. Greets!LaunchInv' /\ Greets!BlockInv'
  BY <1>1, <1>2, GreetsFacts DEF Greets!LaunchInv, Greets!BlockInv
<1>5. Greets!CreatedInv'
  <2>1. exit_error \in {0, 21} /\ (exit_error = 0 <=> made = Greets!ToCreate)
    <3>1. CASE greet_main = "greet"
      <4>1. exit_error = 21 /\ made < Greets!ToCreate
        BY <3>1, GreetsFacts DEF Greets!CreatedInv
      <4>2. made # Greets!ToCreate
        BY <4>1, GreetsFacts
      <4> QED BY <4>1, <4>2
    <3>2. CASE greet_main = "create" /\ made = Greets!ToCreate
      BY <3>2, GreetsFacts DEF Greets!CreatedInv
    <3> QED BY <1>1, <3>1, <3>2
  <2> QED BY <1>1, <1>2, <2>1, GreetsFacts DEF Greets!CreatedInv
<1>6. Greets!NextInv' /\ Greets!GreetingInv'
  BY <1>1, <1>2, GreetsFacts DEF Greets!NextInv, Greets!GreetingInv
<1>7. Greets!AllDone' /\ Greets!GreetsAsItself'
  BY <1>1, GreetsFacts, GreetsSays DEF Greets!AllDone
<1> QED BY <1>3, <1>4, <1>5, <1>6, <1>7 DEF Greets!IInv

\* A join, of a thread that was created or not.
LEMMA GreetsJoins ==
  ASSUME Greets!IInv, Greets!JoinThread
  PROVE  Greets!IInv'
<1>1. /\ greet_main = "join" /\ collected < Greets!ToCreate
      /\ IF collected < made
           THEN greeter[Greets!Made(collected)] = "done" /\ collected' = collected + 1 /\ greet_main' = "join"
           ELSE greet_main' = "undefined" /\ collected' = collected
      /\ UNCHANGED <<greet_program, team_size, made, greeter, block, private_data, greeting, exit_error>>
  BY DEF Greets!JoinThread
<1>2. /\ Greets!Greeters' = Greets!Greeters /\ Greets!ToCreate' = Greets!ToCreate
      /\ (Greets!IsTeam' <=> Greets!IsTeam) /\ Greets!Registers' = Greets!Registers
  BY <1>1, GreetsSame
<1>3. /\ greet_main' \in {"join", "undefined"} /\ collected' \in 0 .. made
  BY <1>1, GreetsFacts
<1>4. Greets!TypeOK'
  BY <1>1, <1>2, <1>3, GreetsFacts DEF Greets!TypeOK
<1>5. Greets!LaunchInv' /\ Greets!BlockInv'
  BY <1>1, <1>2, <1>3, GreetsFacts DEF Greets!LaunchInv, Greets!BlockInv
<1>6. Greets!CreatedInv'
  <2>1. CASE collected < made
    <3>1. greeter[Greets!Made(collected)] = "done" /\ collected' = collected + 1 /\ greet_main' = "join"
      BY <1>1, <2>1
    <3>2. greet_program # "recursive_hello" => \A t \in Greets!Greeters : t < collected' => greeter[t] = "done"
      <4> SUFFICES ASSUME greet_program # "recursive_hello", NEW t \in Greets!Greeters, t < collected'
                   PROVE  greeter[t] = "done"
        OBVIOUS
      <4>1. Greets!Made(collected) = collected /\ t \in Int /\ collected \in Int
        BY GreetsFacts
      <4>2. t < collected \/ t = collected
        BY <3>1, <4>1
      <4>3. t < collected => greeter[t] = "done"
        BY <1>1, GreetsFacts DEF Greets!CreatedInv
      <4> QED BY <3>1, <4>1, <4>2, <4>3
    <3>3. greet_program = "recursive_hello" => greeter[2] = "done"
      <4>1. greet_program = "recursive_hello" => team_size = 3
        BY GreetsFacts DEF Greets!LaunchInv
      <4>2. greet_program = "recursive_hello" => Greets!Made(collected) = 2
        BY <4>1, GreetsFacts
      <4> QED BY <3>1, <4>2
    <3> QED BY <1>1, <1>2, <3>1, <3>2, <3>3, GreetsFacts DEF Greets!CreatedInv
  <2>2. CASE ~(collected < made)
    <3>1. greet_main' = "undefined"
      BY <1>1, <2>2
    <3> QED BY <1>1, <1>2, <3>1, GreetsFacts DEF Greets!CreatedInv
  <2> QED BY <2>1, <2>2
<1>7. Greets!NextInv' /\ Greets!GreetingInv'
  BY <1>1, <1>2, GreetsFacts DEF Greets!NextInv, Greets!GreetingInv
<1>8. Greets!AllDone' /\ Greets!GreetsAsItself'
  BY <1>1, <1>3, GreetsFacts, GreetsSays DEF Greets!AllDone
<1> QED BY <1>4, <1>5, <1>6, <1>7, <1>8 DEF Greets!IInv

\* After the joins every thread is done, or was never created by the one before it.
LEMMA GreetsJoined ==
  ASSUME Greets!IInv, greet_main = "join", collected = Greets!ToCreate
  PROVE  /\ exit_error = 0 /\ made = Greets!ToCreate
         /\ \A t \in Greets!Greeters : greeter[t] \in {"unborn", "done"}
         /\ \A t \in Greets!Greeters : greeting[t] # <<>>
              \/ (greet_program = "recursive_hello" /\ CreationMayFail /\ t < team_size - 1)
<1>1. made = Greets!ToCreate /\ exit_error = 0
  <2>1. made = Greets!ToCreate
    BY GreetsFacts
  <2> QED BY <2>1, GreetsFacts DEF Greets!CreatedInv
<1>2. \A t \in Greets!Greeters : greeter[t] = "done" => greeting[t] # <<>>
  BY GreetsFacts DEF Greets!GreetingInv
<1>3. CASE greet_program # "recursive_hello"
  <2>1. \A t \in Greets!Greeters : t < collected
    BY <1>3, GreetsFacts
  <2>2. \A t \in Greets!Greeters : greeter[t] = "done"
    BY <1>3, <2>1, GreetsFacts DEF Greets!CreatedInv
  <2> QED BY <1>1, <1>2, <2>2
<1>4. CASE greet_program = "recursive_hello"
  <2>1. team_size = 3 /\ collected = 1
    BY <1>4, GreetsFacts DEF Greets!LaunchInv
  <2>2. greeter[2] = "done"
    BY <1>4, <2>1, GreetsFacts DEF Greets!CreatedInv
  <2>3. \A t \in 1 .. 2 :
          /\ greeter[t] \in {"unborn", "greet", "create"} => greeter[t - 1] = "unborn"
          /\ greeter[t] = "done" => greeter[t - 1] = "done" \/ (CreationMayFail /\ greeter[t - 1] = "unborn")
    BY <1>4, GreetsFacts DEF Greets!NextInv
  <2>4. 1 \in 1 .. 2 /\ 2 \in 1 .. 2 /\ 1 - 1 = 0 /\ 2 - 1 = 1
    OBVIOUS
  <2>5. /\ greeter[1] = "done" \/ (CreationMayFail /\ greeter[1] = "unborn")
        /\ greeter[1] = "unborn" => greeter[0] = "unborn"
        /\ greeter[1] = "done" => greeter[0] = "done" \/ (CreationMayFail /\ greeter[0] = "unborn")
    BY <2>2, <2>3, <2>4
  <2>6. \A t \in Greets!Greeters : t = 2 \/ (t < 3 - 1 /\ (t = 0 \/ t = 1))
    BY <2>1, GreetsFacts
  <2>7. \A t \in Greets!Greeters :
          greeter[t] = "done" \/ (CreationMayFail /\ greeter[t] = "unborn" /\ t < 3 - 1)
    BY <2>2, <2>5, <2>6
  <2> QED BY <1>1, <1>2, <1>4, <2>1, <2>7
<1> QED BY <1>3, <1>4

\* The registers are freed after the joins.
LEMMA GreetsFrees ==
  ASSUME Greets!IInv, Greets!AfterJoins
  PROVE  Greets!IInv'
<1>1. /\ greet_main = "join" /\ collected = Greets!ToCreate
      /\ greet_main' = IF greet_program = "hello_iw_shr" THEN "free shared" ELSE "returned"
      /\ block' = [r \in Greets!Register |->
                     IF r # "shared_data" /\ block[r] = "live" THEN "freed" ELSE block[r]]
      /\ greet_program = "grandma_lottery" => main_says' = <<greeting[0], greeting[1]>>
      /\ UNCHANGED <<greet_program, team_size, made, collected, greeter, private_data, greeting, exit_error>>
  BY DEF Greets!AfterJoins
<1>2. /\ Greets!Greeters' = Greets!Greeters /\ Greets!ToCreate' = Greets!ToCreate
      /\ (Greets!IsTeam' <=> Greets!IsTeam) /\ Greets!Registers' = Greets!Registers
  BY <1>1, GreetsSame
<1>3. /\ exit_error = 0 /\ made = Greets!ToCreate
      /\ \A t \in Greets!Greeters : greeter[t] \in {"unborn", "done"}
      /\ \A t \in Greets!Greeters : greeting[t] # <<>>
           \/ (greet_program = "recursive_hello" /\ CreationMayFail /\ t < team_size - 1)
  BY <1>1, GreetsJoined
<1>4. greet_main' \in {"free shared", "returned"}
      /\ (greet_main' = "free shared" <=> greet_program = "hello_iw_shr")
  BY <1>1
<1>5. /\ \A r \in Greets!Registers : r \in Greets!Register /\ block[r] = "live"
      /\ greet_program # "hello_iw_shr" => "shared_data" \notin Greets!Registers
  <2>1. \A r \in Greets!Registers : block[r] = "live"
    BY <1>1, GreetsFacts DEF Greets!BlockInv
  <2> QED BY <2>1 DEF Greets!Registers, Greets!Register
<1>6. \A r \in Greets!Registers : block'[r] = IF r = "shared_data" THEN "live" ELSE "freed"
  BY <1>1, <1>5
<1>7. Greets!TypeOK'
  <2>1. block' \in [Greets!Register -> {"null", "live", "freed"}]
    <3>1. block \in [Greets!Register -> {"null", "live", "freed"}]
      BY GreetsFacts DEF Greets!TypeOK
    <3> QED BY <1>1, <3>1
  <2> QED BY <1>1, <1>2, <1>4, <2>1, GreetsFacts DEF Greets!TypeOK
<1>8. Greets!LaunchInv' /\ Greets!BlockInv'
  <2>1. Greets!LaunchInv'
    BY <1>1, <1>2, <1>4, GreetsFacts DEF Greets!LaunchInv
  <2>2. exit_error' = 0
    BY <1>1, <1>3
  <2>3. Greets!BlockInv'
    BY <1>1, <1>2, <1>4, <1>6, <2>2 DEF Greets!BlockInv
  <2> QED BY <2>1, <2>3
<1>9. Greets!CreatedInv'
  BY <1>1, <1>2, <1>3, <1>4, GreetsFacts DEF Greets!CreatedInv
<1>10. Greets!NextInv' /\ Greets!GreetingInv'
  BY <1>1, <1>2, GreetsFacts DEF Greets!NextInv, Greets!GreetingInv
<1>11. Greets!AllDone'
  BY <1>1, <1>2, <1>3 DEF Greets!AllDone
<1>12. Greets!GreetsAsItself'
  <2>1. greet_main' = "returned" => \A r \in Greets!Registers : block'[r] = "freed"
    BY <1>4, <1>5, <1>6
  <2> QED BY <1>1, <1>2, <1>3, <2>1, GreetsFacts DEF Greets!GreetsAsItself
<1> QED BY <1>7, <1>8, <1>9, <1>10, <1>11, <1>12 DEF Greets!IInv

\* The shared register is freed by main.
LEMMA GreetsFreesShared ==
  ASSUME Greets!IInv, Greets!FreeShared
  PROVE  Greets!IInv'
<1>1. /\ greet_main = "free shared" /\ greet_main' = "returned"
      /\ block' = [block EXCEPT !["shared_data"] = "freed"]
      /\ UNCHANGED <<greet_program, team_size, made, collected, greeter, private_data, greeting, main_says, exit_error>>
  BY DEF Greets!FreeShared
<1>2. /\ Greets!Greeters' = Greets!Greeters /\ Greets!ToCreate' = Greets!ToCreate
      /\ (Greets!IsTeam' <=> Greets!IsTeam) /\ Greets!Registers' = Greets!Registers
  BY <1>1, GreetsSame
<1>3. /\ greet_program = "hello_iw_shr" /\ exit_error \in {0, 22}
      /\ exit_error = 0 => \A r \in Greets!Registers : block[r] = IF r = "shared_data" THEN "live" ELSE "freed"
  BY <1>1, GreetsFacts DEF Greets!BlockInv
<1>4. block \in [Greets!Register -> {"null", "live", "freed"}]
      /\ Greets!Registers \subseteq Greets!Register /\ "shared_data" \in Greets!Register
  BY GreetsFacts DEF Greets!TypeOK, Greets!Registers, Greets!Register
<1>5. /\ block' \in [Greets!Register -> {"null", "live", "freed"}]
      /\ exit_error = 0 => \A r \in Greets!Registers : block'[r] = "freed"
  BY <1>1, <1>3, <1>4
<1>6. Greets!TypeOK'
  BY <1>1, <1>2, <1>5, GreetsFacts DEF Greets!TypeOK
<1>7. Greets!LaunchInv' /\ Greets!BlockInv'
  BY <1>1, <1>2, GreetsFacts DEF Greets!LaunchInv, Greets!BlockInv
<1>8. Greets!CreatedInv'
  BY <1>1, <1>2, GreetsFacts DEF Greets!CreatedInv
<1>9. Greets!NextInv' /\ Greets!GreetingInv'
  BY <1>1, <1>2, GreetsFacts DEF Greets!NextInv, Greets!GreetingInv
<1>10. exit_error = 0 => \A t \in Greets!Greeters : greeter[t] \in {"unborn", "done"}
  BY <1>1, GreetsFacts DEF Greets!AllDone
<1>11. Greets!AllDone'
  BY <1>1, <1>2, <1>10 DEF Greets!AllDone
<1>12. exit_error = 0 => \A t \in Greets!Greeters : greeting[t] # <<>>
  <2>1. exit_error = 0 => made = team_size
    BY <1>1, <1>3, GreetsFacts DEF Greets!CreatedInv
  <2>2. exit_error = 0 => \A t \in Greets!Greeters : ~(t >= made)
    BY <2>1, GreetsFacts
  <2>3. exit_error = 0 => \A t \in Greets!Greeters : greeter[t] # "unborn"
    BY <1>1, <1>3, <2>2, GreetsFacts DEF Greets!CreatedInv
  <2> QED BY <1>10, <2>3, GreetsFacts DEF Greets!GreetingInv
<1>13. Greets!GreetsAsItself'
  <2>1. exit_error \notin {12, 22} => exit_error = 0
    BY <1>3
  <2> QED BY <1>1, <1>2, <1>3, <1>5, <1>10, <1>12, <2>1, GreetsFacts DEF Greets!GreetsAsItself
<1> QED BY <1>6, <1>7, <1>8, <1>9, <1>11, <1>13 DEF Greets!IInv

\* A step of a thread that was created.
LEMMA GreetsAwake ==
  ASSUME Greets!IInv, NEW t \in Greets!Greeters, greeter[t] \in {"greet", "create", "join"},
         greet_main \notin {"returned", "undefined"}
  PROVE  /\ greet_main \in {"create", "greet", "join"}
         /\ \A r \in Greets!Registers : block[r] = "live"
         /\ greet_program # "recursive_hello" => ~(t < collected)
         /\ greet_program = "recursive_hello" /\ t = 2 => collected # 1
<1>1. t \in Int /\ t >= 0 /\ greeter[t] # "unborn" /\ greeter[t] # "done"
  BY GreetsFacts
<1>2. greet_main \notin {"launch", "allocate"}
  BY <1>1, GreetsFacts DEF Greets!LaunchInv
<1>3. greet_main # "free shared"
  <2> SUFFICES ASSUME greet_main = "free shared" PROVE FALSE
    OBVIOUS
  <2>1. greet_program = "hello_iw_shr" /\ exit_error \in {0, 22}
    BY GreetsFacts DEF Greets!BlockInv
  <2>2. exit_error # 0
    BY <1>1, GreetsFacts DEF Greets!AllDone
  <2>3. made = 0
    BY <2>1, <2>2, GreetsFacts DEF Greets!CreatedInv
  <2>4. t >= made
    BY <1>1, <2>3
  <2> QED BY <1>1, <2>1, <2>4, GreetsFacts DEF Greets!CreatedInv
<1>4. greet_main \in {"create", "greet", "join"}
  BY <1>2, <1>3, GreetsFacts DEF Greets!TypeOK
<1>5. \A r \in Greets!Registers : block[r] = "live"
  BY <1>4, GreetsFacts DEF Greets!BlockInv
<1>6. /\ greet_program # "recursive_hello" => ~(t < collected)
      /\ greet_program = "recursive_hello" /\ t = 2 => collected # 1
  BY <1>1, GreetsFacts DEF Greets!CreatedInv
<1> QED BY <1>4, <1>5, <1>6

\* What a thread greets with.
LEMMA GreetsItself ==
  ASSUME Greets!IInv, NEW t \in Greets!Greeters, Greets!Greet(t),
         greet_main \notin {"returned", "undefined"}
  PROVE  Greets!IInv'
<1>1. /\ greeter[t] = "greet"
      /\ greeter' = [greeter EXCEPT ![t] = IF greet_program = "recursive_hello" /\ t > 0 THEN "create" ELSE "done"]
      /\ UNCHANGED <<greet_program, team_size, greet_main, made, collected, block, private_data, main_says, exit_error>>
  BY DEF Greets!Greet, Greets!Becomes
<1>2. PICK number \in LotteryNumbers :
        greeting' = [greeting EXCEPT ![t] =
          CASE greet_program = "grandma_lottery" -> <<number>>
            [] greet_program = "hello_iw_pri" ->
                 <<Greets!Read("private_data", private_data[t]), Greets!Read("private_data", team_size)>>
            [] greet_program = "hello_iw_shr" ->
                 <<Greets!Read("private_data", private_data[t]), Greets!Read("shared_data", team_size)>>
            [] OTHER -> <<t>>]
  BY DEF Greets!Greet
<1>3. /\ Greets!Greeters' = Greets!Greeters /\ Greets!ToCreate' = Greets!ToCreate
      /\ (Greets!IsTeam' <=> Greets!IsTeam) /\ Greets!Registers' = Greets!Registers
  BY <1>1, GreetsSame
<1>4. /\ greet_main \in {"create", "greet", "join"}
      /\ \A r \in Greets!Registers : block[r] = "live"
      /\ greet_program # "recursive_hello" => ~(t < collected)
      /\ greet_program = "recursive_hello" /\ t = 2 => collected # 1
  BY <1>1, GreetsAwake
<1>5. /\ \A s \in Greets!Greeters : s # t => greeter'[s] = greeter[s] /\ greeting'[s] = greeting[s]
      /\ greeter'[t] = IF greet_program = "recursive_hello" /\ t > 0 THEN "create" ELSE "done"
      /\ DOMAIN greeting' = Greets!Greeters
      /\ greeter' \in [Greets!Greeters -> {"unborn", "greet", "create", "join", "done"}]
  <2>1. DOMAIN greeting = Greets!Greeters
        /\ greeter \in [Greets!Greeters -> {"unborn", "greet", "create", "join", "done"}]
    BY GreetsFacts DEF Greets!TypeOK
  <2>2. DOMAIN greeting' = Greets!Greeters
        /\ \A s \in Greets!Greeters : s # t => greeting'[s] = greeting[s]
    BY <1>2, <2>1
  <2>3. greeter' \in [Greets!Greeters -> {"unborn", "greet", "create", "join", "done"}]
    BY <1>1, <2>1
  <2> QED BY <1>1, <2>1, <2>2, <2>3
<1>6. /\ greet_program = "grandma_lottery" => greeting'[t] = <<number>>
      /\ greet_program \in {"hello_iw_pri", "hello_iw_shr"} => greeting'[t] = <<t, team_size>>
      /\ greet_program \notin {"grandma_lottery", "hello_iw_pri", "hello_iw_shr"} => greeting'[t] = <<t>>
  <2>1. DOMAIN greeting = Greets!Greeters
    BY GreetsFacts DEF Greets!TypeOK
  <2>2. Greets!IsTeam => private_data[t] = t
    BY <1>1, GreetsFacts DEF Greets!GreetingInv
  <2>3. CASE greet_program = "grandma_lottery"
    BY <1>2, <2>1, <2>3
  <2>4. CASE greet_program = "hello_iw_pri"
    <3>1. "private_data" \in Greets!Registers /\ Greets!IsTeam
      BY <2>4 DEF Greets!Registers, Greets!IsTeam
    <3>2. Greets!Read("private_data", private_data[t]) = t /\ Greets!Read("private_data", team_size) = team_size
      BY <1>4, <2>2, <3>1 DEF Greets!Read
    <3> QED BY <1>2, <2>1, <2>4, <3>2
  <2>5. CASE greet_program = "hello_iw_shr"
    <3>1. "private_data" \in Greets!Registers /\ "shared_data" \in Greets!Registers /\ Greets!IsTeam
      BY <2>5 DEF Greets!Registers, Greets!Register, Greets!IsTeam
    <3>2. Greets!Read("private_data", private_data[t]) = t /\ Greets!Read("shared_data", team_size) = team_size
      BY <1>4, <2>2, <3>1 DEF Greets!Read
    <3> QED BY <1>2, <2>1, <2>5, <3>2
  <2>6. CASE greet_program \notin {"grandma_lottery", "hello_iw_pri", "hello_iw_shr"}
    BY <1>2, <2>1, <2>6
  <2> QED BY <2>3, <2>4, <2>5, <2>6
<1>7. greeting'[t] # <<>>
  <2>1. <<number>> # <<>> /\ <<t, team_size>> # <<>> /\ <<t>> # <<>>
    OBVIOUS
  <2>2. \/ greeting'[t] = <<number>>
        \/ greeting'[t] = <<t, team_size>>
        \/ greeting'[t] = <<t>>
    BY <1>6
  <2> QED BY ONLY <2>1, <2>2
<1>8. Greets!TypeOK'
  BY <1>1, <1>3, <1>5, GreetsFacts DEF Greets!TypeOK
<1>9. Greets!LaunchInv' /\ Greets!BlockInv'
  <2>1. Greets!LaunchInv'
    BY <1>1, <1>3, <1>4, GreetsFacts DEF Greets!LaunchInv
  <2> QED BY <1>1, <1>3, <2>1, GreetsFacts DEF Greets!BlockInv
<1>10. Greets!CreatedInv'
  <2>1. \A s \in Greets!Greeters : /\ greeter'[s] = "unborn" <=> greeter[s] = "unborn"
                                   /\ s # t /\ greeter[s] = "done" => greeter'[s] = "done"
    BY <1>1, <1>5
  <2>2. CASE greet_program # "recursive_hello"
    BY <1>1, <1>3, <1>4, <2>1, <2>2, GreetsFacts DEF Greets!CreatedInv
  <2>3. CASE greet_program = "recursive_hello"
    <3>1. 2 \in Greets!Greeters
      <4>1. team_size = 3
        BY <2>3, GreetsFacts DEF Greets!LaunchInv
      <4> QED BY <4>1, GreetsFacts
    <3>2. /\ greeter'[2] = "unborn" <=> greeter[2] = "unborn"
          /\ collected = 1 /\ greeter[2] = "done" => greeter'[2] = "done"
      BY <1>4, <2>1, <2>3, <3>1
    <3> QED BY <1>1, <1>3, <1>4, <2>3, <3>2, GreetsFacts DEF Greets!CreatedInv
  <2> QED BY <2>2, <2>3
<1>11. Greets!NextInv'
  <2>1. ASSUME greet_program = "recursive_hello", NEW s \in 1 .. 2
        PROVE  /\ greeter'[s] \in {"unborn", "greet", "create"} => greeter'[s - 1] = "unborn"
               /\ greeter'[s] = "join" => greeter'[s - 1] # "unborn"
               /\ greeter'[s] = "done" => greeter'[s - 1] = "done" \/ (CreationMayFail /\ greeter'[s - 1] = "unborn")
    <3>1. team_size = 3
      BY <2>1, GreetsFacts DEF Greets!LaunchInv
    <3>2. s \in Greets!Greeters /\ s - 1 \in Greets!Greeters /\ s - 1 # s
      BY <3>1, GreetsFacts
    <3>3. /\ greeter[s] \in {"unborn", "greet", "create"} => greeter[s - 1] = "unborn"
          /\ greeter[s] = "join" => greeter[s - 1] # "unborn"
          /\ greeter[s] = "done" => greeter[s - 1] = "done" \/ (CreationMayFail /\ greeter[s - 1] = "unborn")
      BY <2>1, GreetsFacts DEF Greets!NextInv
    <3>4. CASE s = t
      <4>1. greeter'[t] = "create" /\ greeter'[s - 1] = greeter[s - 1]
        BY <1>5, <2>1, <3>2, <3>4
      <4> QED BY <1>1, <3>3, <3>4, <4>1
    <3>5. CASE s - 1 = t
      <4>1. greeter[s] = "join" /\ greeter'[s] = greeter[s] /\ greeter'[s - 1] \in {"create", "done"}
        BY <1>1, <1>5, <3>2, <3>3, <3>5, GreetsFacts
      <4> QED BY <4>1
    <3>6. CASE s # t /\ s - 1 # t
      BY <1>5, <3>2, <3>3, <3>6
    <3> QED BY <3>4, <3>5, <3>6
  <2>2. \A s \in Greets!Greeters : greeter'[s] \in {"create", "join"} =>
          greet_program = "recursive_hello" /\ s > 0
    BY <1>5, GreetsFacts DEF Greets!NextInv
  <2>3. greet_program = "recursive_hello" =>
          \A s \in 1 .. 2 :
               /\ greeter'[s] \in {"unborn", "greet", "create"} => greeter'[s - 1] = "unborn"
               /\ greeter'[s] = "join" => greeter'[s - 1] # "unborn"
               /\ greeter'[s] = "done" => greeter'[s - 1] = "done" \/ (CreationMayFail /\ greeter'[s - 1] = "unborn")
    BY <2>1
  <2> QED BY <1>1, <1>3, <2>2, <2>3 DEF Greets!NextInv
<1>12. Greets!GreetingInv'
  BY <1>1, <1>3, <1>5, <1>7, GreetsFacts DEF Greets!GreetingInv
<1>13. Greets!AllDone'
  BY <1>1, <1>4 DEF Greets!AllDone
<1>14. Greets!GreetsAsItself'
  <2>1. greet_main' # "returned"
    BY <1>1, <1>4
  <2>2. \A s \in Greets!Greeters : greeting'[s] # <<>> =>
       CASE greet_program = "grandma_lottery" -> greeting'[s][1] \in LotteryNumbers
         [] greet_program \in {"hello_iw_pri", "hello_iw_shr"} -> greeting'[s] = <<s, team_size>>
         [] OTHER -> greeting'[s] = <<s>>
    <3> SUFFICES ASSUME NEW s \in Greets!Greeters, greeting'[s] # <<>>
                 PROVE  CASE greet_program = "grandma_lottery" -> greeting'[s][1] \in LotteryNumbers
                          [] greet_program \in {"hello_iw_pri", "hello_iw_shr"} -> greeting'[s] = <<s, team_size>>
                          [] OTHER -> greeting'[s] = <<s>>
      OBVIOUS
    <3>1. CASE s # t
      BY <1>5, <3>1, GreetsFacts DEF Greets!GreetsAsItself
    <3>2. CASE s = t
      <4>1. greet_program = "grandma_lottery" => greeting'[s][1] \in LotteryNumbers
        BY <1>6, <3>2
      <4> QED BY <1>6, <3>2, <4>1
    <3> QED BY <3>1, <3>2
  <2> QED BY <1>1, <1>3, <2>1, <2>2 DEF Greets!GreetsAsItself
<1> QED BY <1>8, <1>9, <1>10, <1>11, <1>12, <1>13, <1>14 DEF Greets!IInv

\* A step of a thread of recursive_hello.
LEMMA GreetsWaits ==
  ASSUME Greets!IInv, greet_program = "recursive_hello", greet_main \in {"create", "greet", "join"},
         UNCHANGED <<greet_program, team_size, greet_main, made, collected, block, private_data, greeting, main_says, exit_error>>,
         greeter' \in [Greets!Greeters -> {"unborn", "greet", "create", "join", "done"}],
         \A s \in Greets!Greeters :
           /\ greeter'[s] \in {"unborn", "greet"} <=> greeter[s] \in {"unborn", "greet"}
           /\ greeter'[s] \in {"create", "join"} => s > 0,
         greeter'[2] = "unborn" <=> greeter[2] = "unborn",
         greeter[2] = "done" => greeter'[2] = "done",
         \A s \in 1 .. 2 :
           /\ greeter'[s] \in {"unborn", "greet", "create"} => greeter'[s - 1] = "unborn"
           /\ greeter'[s] = "join" => greeter'[s - 1] # "unborn"
           /\ greeter'[s] = "done" => greeter'[s - 1] = "done" \/ (CreationMayFail /\ greeter'[s - 1] = "unborn")
  PROVE  Greets!IInv'
<1>1. /\ Greets!Greeters' = Greets!Greeters /\ Greets!ToCreate' = Greets!ToCreate
      /\ (Greets!IsTeam' <=> Greets!IsTeam) /\ Greets!Registers' = Greets!Registers
  BY GreetsSame
<1>2. Greets!TypeOK'
  BY <1>1, GreetsFacts DEF Greets!TypeOK
<1>3. Greets!LaunchInv' /\ Greets!BlockInv'
  BY <1>1, GreetsFacts DEF Greets!LaunchInv, Greets!BlockInv
<1>4. Greets!CreatedInv'
  BY <1>1, GreetsFacts DEF Greets!CreatedInv
<1>5. Greets!NextInv'
  BY <1>1 DEF Greets!NextInv
<1>6. Greets!GreetingInv'
  <2>1. ~Greets!IsTeam
    BY DEF Greets!IsTeam
  <2> QED BY <1>1, <2>1, GreetsFacts DEF Greets!GreetingInv
<1>7. Greets!AllDone' /\ Greets!GreetsAsItself'
  BY GreetsFacts, GreetsSays DEF Greets!AllDone
<1> QED BY <1>2, <1>3, <1>4, <1>5, <1>6, <1>7 DEF Greets!IInv

\* Where the threads of recursive_hello are.
LEMMA GreetsThree ==
  ASSUME Greets!IInv, NEW t \in Greets!Greeters, greeter[t] \in {"create", "join"},
         greet_main \notin {"returned", "undefined"}
  PROVE  /\ greet_program = "recursive_hello" /\ greet_main \in {"create", "greet", "join"}
         /\ Greets!Greeters = {0, 1, 2} /\ t \in {1, 2}
         /\ \A s \in {1, 2} :
              /\ greeter[s] \in {"unborn", "greet", "create"} => greeter[s - 1] = "unborn"
              /\ greeter[s] = "join" => greeter[s - 1] # "unborn"
              /\ greeter[s] = "done" => greeter[s - 1] = "done" \/ (CreationMayFail /\ greeter[s - 1] = "unborn")
         /\ \A s \in Greets!Greeters : greeter[s] \in {"create", "join"} => s > 0
<1>1. greet_program = "recursive_hello" /\ t > 0
  BY GreetsFacts DEF Greets!NextInv
<1>2. team_size = 3
  BY <1>1, GreetsFacts DEF Greets!LaunchInv
<1>3. Greets!Greeters = {0, 1, 2} /\ 1 .. 2 = {1, 2}
  BY <1>2, GreetsFacts
<1>4. t \in {1, 2}
  BY <1>1, <1>3
<1>5. greet_main \in {"create", "greet", "join"}
  BY GreetsAwake
<1> QED BY <1>1, <1>3, <1>4, <1>5, GreetsFacts DEF Greets!NextInv

\* A thread of recursive_hello creates the next one.
LEMMA GreetsGoesOn ==
  ASSUME Greets!IInv, NEW t \in Greets!Greeters, Greets!CreateNext(t),
         greet_main \notin {"returned", "undefined"}
  PROVE  Greets!IInv'
<1>1. /\ greeter[t] = "create"
      /\ \/ greeter' = [greeter EXCEPT ![t] = "join", ![t - 1] = "greet"]
         \/ CreationMayFail /\ greeter' = [greeter EXCEPT ![t] = "done"]
      /\ UNCHANGED <<greet_program, team_size, greet_main, made, collected, block, private_data, greeting, main_says, exit_error>>
  BY DEF Greets!CreateNext, Greets!Becomes
<1>2. /\ greet_program = "recursive_hello" /\ greet_main \in {"create", "greet", "join"}
      /\ Greets!Greeters = {0, 1, 2} /\ t \in {1, 2}
      /\ \A s \in {1, 2} :
              /\ greeter[s] \in {"unborn", "greet", "create"} => greeter[s - 1] = "unborn"
              /\ greeter[s] = "join" => greeter[s - 1] # "unborn"
              /\ greeter[s] = "done" => greeter[s - 1] = "done" \/ (CreationMayFail /\ greeter[s - 1] = "unborn")
      /\ \A s \in Greets!Greeters : greeter[s] \in {"create", "join"} => s > 0
  BY <1>1, GreetsThree
<1>3. greeter \in [{0, 1, 2} -> {"unborn", "greet", "create", "join", "done"}]
  BY <1>2, GreetsFacts
<1>4. /\ greeter[1] \in {"unborn", "greet", "create"} => greeter[0] = "unborn"
      /\ greeter[1] = "join" => greeter[0] # "unborn"
      /\ greeter[1] = "done" => greeter[0] = "done" \/ (CreationMayFail /\ greeter[0] = "unborn")
      /\ greeter[2] \in {"unborn", "greet", "create"} => greeter[1] = "unborn"
      /\ greeter[2] = "join" => greeter[1] # "unborn"
      /\ greeter[2] = "done" => greeter[1] = "done" \/ (CreationMayFail /\ greeter[1] = "unborn")
  <2>1. 1 - 1 = 0 /\ 2 - 1 = 1
    OBVIOUS
  <2> QED BY <1>2, <2>1
<1>5. greeter[0] \notin {"create", "join"}
  BY <1>2
<1>6. /\ greeter' \in [{0, 1, 2} -> {"unborn", "greet", "create", "join", "done"}]
      /\ \/ t = 1 /\ greeter'[1] = "join" /\ greeter'[0] = "greet" /\ greeter'[2] = greeter[2]
         \/ t = 1 /\ greeter'[1] = "done" /\ greeter'[0] = greeter[0] /\ greeter'[2] = greeter[2] /\ CreationMayFail
         \/ t = 2 /\ greeter'[2] = "join" /\ greeter'[1] = "greet" /\ greeter'[0] = greeter[0]
         \/ t = 2 /\ greeter'[2] = "done" /\ greeter'[1] = greeter[1] /\ greeter'[0] = greeter[0] /\ CreationMayFail
  <2>1. CASE t = 1 /\ greeter' = [greeter EXCEPT ![t] = "join", ![t - 1] = "greet"]
    BY <1>3, <2>1
  <2>2. CASE t = 2 /\ greeter' = [greeter EXCEPT ![t] = "join", ![t - 1] = "greet"]
    BY <1>3, <2>2
  <2>3. CASE greeter' = [greeter EXCEPT ![t] = "done"] /\ CreationMayFail
    BY <1>2, <1>3, <2>3
  <2> QED BY <1>1, <1>2, <2>1, <2>2, <2>3
<1>7. /\ \A s \in {0, 1, 2} :
           /\ greeter'[s] \in {"unborn", "greet"} <=> greeter[s] \in {"unborn", "greet"}
           /\ greeter'[s] \in {"create", "join"} => s > 0
      /\ greeter'[2] = "unborn" <=> greeter[2] = "unborn"
      /\ greeter[2] = "done" => greeter'[2] = "done"
  <2>1. CASE t = 1
    <3>1. greeter'[2] = greeter[2] /\ greeter[1] = "create" /\ greeter[0] = "unborn"
      BY <1>1, <1>4, <1>6, <2>1
    <3>2. /\ greeter'[0] = "greet" \/ greeter'[0] = greeter[0]
          /\ greeter'[1] = "join" \/ greeter'[1] = "done"
      BY <1>6, <2>1
    <3> QED BY <3>1, <3>2
  <2>2. CASE t = 2
    <3>1. greeter'[0] = greeter[0] /\ greeter[2] = "create" /\ greeter[1] = "unborn"
      BY <1>1, <1>4, <1>6, <2>2
    <3>2. /\ greeter'[1] = "greet" \/ greeter'[1] = greeter[1]
          /\ greeter'[2] = "join" \/ greeter'[2] = "done"
      BY <1>6, <2>2
    <3> QED BY <1>5, <3>1, <3>2
  <2> QED BY <1>2, <2>1, <2>2
<1>8. /\ greeter'[1] \in {"unborn", "greet", "create"} => greeter'[0] = "unborn"
      /\ greeter'[1] = "join" => greeter'[0] # "unborn"
      /\ greeter'[1] = "done" => greeter'[0] = "done" \/ (CreationMayFail /\ greeter'[0] = "unborn")
      /\ greeter'[2] \in {"unborn", "greet", "create"} => greeter'[1] = "unborn"
      /\ greeter'[2] = "join" => greeter'[1] # "unborn"
      /\ greeter'[2] = "done" => greeter'[1] = "done" \/ (CreationMayFail /\ greeter'[1] = "unborn")
  <2>1. CASE t = 1
    <3>1. greeter[1] = "create" /\ greeter[0] = "unborn" /\ greeter[2] = "join"
      BY <1>1, <1>3, <1>4, <2>1
    <3> QED BY <1>6, <2>1, <3>1
  <2>2. CASE t = 2
    <3>1. greeter[2] = "create" /\ greeter[1] = "unborn" /\ greeter[0] = "unborn"
      BY <1>1, <1>4, <2>2
    <3> QED BY <1>6, <2>2, <3>1
  <2> QED BY <1>2, <2>1, <2>2
<1>9. \A s \in 1 .. 2 :
           /\ greeter'[s] \in {"unborn", "greet", "create"} => greeter'[s - 1] = "unborn"
           /\ greeter'[s] = "join" => greeter'[s - 1] # "unborn"
           /\ greeter'[s] = "done" => greeter'[s - 1] = "done" \/ (CreationMayFail /\ greeter'[s - 1] = "unborn")
  <2>1. \A s \in 1 .. 2 : (s = 1 /\ s - 1 = 0) \/ (s = 2 /\ s - 1 = 1)
    OBVIOUS
  <2> QED BY <1>8, <2>1
<1> QED BY <1>1, <1>2, <1>6, <1>7, <1>9, GreetsWaits

\* A thread of recursive_hello joins the one it created.
LEMMA GreetsJoinsNext ==
  ASSUME Greets!IInv, NEW t \in Greets!Greeters, Greets!JoinNext(t),
         greet_main \notin {"returned", "undefined"}
  PROVE  Greets!IInv'
<1>1. /\ greeter[t] = "join" /\ greeter[t - 1] = "done"
      /\ greeter' = [greeter EXCEPT ![t] = "done"]
      /\ UNCHANGED <<greet_program, team_size, greet_main, made, collected, block, private_data, greeting, main_says, exit_error>>
  BY DEF Greets!JoinNext, Greets!Becomes
<1>2. /\ greet_program = "recursive_hello" /\ greet_main \in {"create", "greet", "join"}
      /\ Greets!Greeters = {0, 1, 2} /\ t \in {1, 2}
      /\ \A s \in {1, 2} :
              /\ greeter[s] \in {"unborn", "greet", "create"} => greeter[s - 1] = "unborn"
              /\ greeter[s] = "join" => greeter[s - 1] # "unborn"
              /\ greeter[s] = "done" => greeter[s - 1] = "done" \/ (CreationMayFail /\ greeter[s - 1] = "unborn")
      /\ \A s \in Greets!Greeters : greeter[s] \in {"create", "join"} => s > 0
  BY <1>1, GreetsThree
<1>3. greeter \in [{0, 1, 2} -> {"unborn", "greet", "create", "join", "done"}]
  BY <1>2, GreetsFacts
<1>4. /\ greeter' \in [{0, 1, 2} -> {"unborn", "greet", "create", "join", "done"}]
      /\ greeter'[t] = "done" /\ \A s \in {0, 1, 2} : s # t => greeter'[s] = greeter[s]
  BY <1>1, <1>2, <1>3
<1>5. /\ \A s \in {0, 1, 2} :
           /\ greeter'[s] \in {"unborn", "greet"} <=> greeter[s] \in {"unborn", "greet"}
           /\ greeter'[s] \in {"create", "join"} => s > 0
      /\ greeter'[2] = "unborn" <=> greeter[2] = "unborn"
      /\ greeter[2] = "done" => greeter'[2] = "done"
  BY <1>1, <1>2, <1>4
<1>6. \A s \in 1 .. 2 :
           /\ greeter'[s] \in {"unborn", "greet", "create"} => greeter'[s - 1] = "unborn"
           /\ greeter'[s] = "join" => greeter'[s - 1] # "unborn"
           /\ greeter'[s] = "done" => greeter'[s - 1] = "done" \/ (CreationMayFail /\ greeter'[s - 1] = "unborn")
  <2> SUFFICES ASSUME NEW s \in {1, 2}
               PROVE  /\ greeter'[s] \in {"unborn", "greet", "create"} => greeter'[s - 1] = "unborn"
                      /\ greeter'[s] = "join" => greeter'[s - 1] # "unborn"
                      /\ greeter'[s] = "done" => greeter'[s - 1] = "done" \/ (CreationMayFail /\ greeter'[s - 1] = "unborn")
    <3>1. 1 .. 2 = {1, 2}
      OBVIOUS
    <3> QED BY <3>1
  <2>1. s \in {0, 1, 2} /\ s - 1 \in {0, 1, 2} /\ s - 1 # s
    OBVIOUS
  <2>2. CASE s = t
    BY <1>1, <1>4, <2>1, <2>2
  <2>3. CASE s - 1 = t
    <3>1. greeter[s] = "join" /\ greeter'[s] = greeter[s] /\ greeter'[s - 1] = "done"
      BY <1>1, <1>2, <1>3, <1>4, <2>1, <2>3
    <3> QED BY <3>1
  <2>4. CASE s # t /\ s - 1 # t
    BY <1>2, <1>4, <2>1, <2>4
  <2> QED BY <2>2, <2>3, <2>4
<1> QED BY <1>1, <1>2, <1>4, <1>5, <1>6, GreetsWaits

LEMMA GreetsKeepsInv == Greets!IInv /\ [Greets!Next]_(Greets!greetVars) => Greets!IInv'
<1> SUFFICES ASSUME Greets!IInv, [Greets!Next]_(Greets!greetVars) PROVE Greets!IInv'
  OBVIOUS
<1>1. CASE UNCHANGED Greets!greetVars
  <2>1. UNCHANGED <<greet_program, team_size, greet_main, made, collected, greeter, block, private_data,
                    greeting, main_says, exit_error>>
    BY <1>1 DEF Greets!greetVars
  <2>2. /\ Greets!Greeters' = Greets!Greeters /\ Greets!ToCreate' = Greets!ToCreate
        /\ (Greets!IsTeam' <=> Greets!IsTeam) /\ Greets!Registers' = Greets!Registers
    BY <2>1, GreetsSame
  <2>3. Greets!TypeOK' /\ Greets!LaunchInv' /\ Greets!BlockInv'
    BY <2>1, <2>2, GreetsFacts DEF Greets!TypeOK, Greets!LaunchInv, Greets!BlockInv
  <2>4. Greets!CreatedInv' /\ Greets!NextInv'
    BY <2>1, <2>2, GreetsFacts DEF Greets!CreatedInv, Greets!NextInv
  <2>5. Greets!GreetingInv' /\ Greets!AllDone'
    BY <2>1, <2>2, GreetsFacts DEF Greets!GreetingInv, Greets!AllDone
  <2>6. Greets!GreetsAsItself'
    BY <2>1, <2>2, GreetsFacts DEF Greets!GreetsAsItself
  <2> QED BY <2>3, <2>4, <2>5, <2>6 DEF Greets!IInv
<1>2. CASE greet_main \notin {"returned", "undefined"} /\ Greets!GreetingStep
  <2>1. ASSUME NEW t \in Greets!Greeters, Greets!Greet(t) \/ Greets!CreateNext(t) \/ Greets!JoinNext(t)
        PROVE  Greets!IInv'
    BY <1>2, <2>1, GreetsItself, GreetsGoesOn, GreetsJoinsNext
  <2> QED BY <1>2, <2>1, GreetsLaunches, GreetsAllocates, GreetsCreates, GreetsFails, GreetsMain,
             GreetsJoins, GreetsFrees, GreetsFreesShared DEF Greets!GreetingStep
<1> QED BY <1>1, <1>2 DEF Greets!Next, Greets!GreetingEnded

LEMMA GreetsHolds == ExercisesSpec => []Greets!IInv
<1>1. ExercisesInit => Greets!IInv
  BY GreetsStarts DEF ExercisesInit
<1>2. Greets!IInv /\ [ExercisesNext]_allVars => Greets!IInv'
  BY GreetsBehaves, GreetsKeepsInv
<1> QED BY <1>1, <1>2, PTL DEF ExercisesSpec

\* The first programs greet with their own data, from registers that are still there,
\* and release them (create_threads of hello_w, hello_iw_pri and hello_iw_shr; greet of
\* recursive_hello; main of grandma_lottery).
THEOREM GreetingsTheorem == ExercisesSpec => []Greets!GreetsAsItself
<1>1. Greets!IInv => Greets!GreetsAsItself
  BY DEF Greets!IInv
<1> QED BY <1>1, GreetsHolds, PTL

-----------------------------------------------------------------------------
(* The unbounded producers and consumers: where each unit is, in numbers.  *)

LEMMA UnitsBehave == [ExercisesNext]_allVars => [Units!Next]_(Units!unitVars)
BY DEF ExercisesNext, OthersUnchanged, Unless, allVars, unitVars, Units!unitVars,
       Units!unitMain, Units!claims

\* Each unit the producers take is in one place, and consumed once unless its node was
\* not allocated (produce, consume); and the simulation is destroyed under no thread but
\* those of the team whose other one could not be created (create_threads).
THEOREM UnitsTheorem == ExercisesSpec => [](Units!UnitsConsumedOnce /\ Units!OnlyTheOtherTeamOutlives)
<1>1. ExercisesInit => UnitsInvariant /\ UnitLives
  BY UnitsStart DEF ExercisesInit
<1>2. (UnitsInvariant /\ UnitLives) /\ [ExercisesNext]_allVars => (UnitsInvariant /\ UnitLives)'
  BY UnitsBehave, UnitsStep
<1> QED BY <1>1, <1>2, UnitsAtRelease, PTL DEF ExercisesSpec

\* In every program of exercises, the data of a thread is there while the thread runs,
\* and is its own (thread_team.c, ethread.c, readers_writers.c, hello_order_semaphor.c);
\* the threads that unbounded producers and consumers leave are of one team only.
THEOREM DataTheorem == ExercisesSpec => []DataOutlivesThreads
<1>1. /\ Greets!GreetsAsItself /\ Ethread!TeamOutlivesThreads /\ Rw!RoomForThreads
      /\ Units!UnitsConsumedOnce /\ Units!OnlyTheOtherTeamOutlives /\ Order!SemaphoresOutliveTurns
      => DataOutlivesThreads
  BY DEF DataOutlivesThreads
<1> QED BY <1>1, GreetingsTheorem, EthreadTheorem, RoomTheorem, UnitsTheorem, SemaphoresTheorem, PTL

-----------------------------------------------------------------------------
(* The dishes of dish_stack.                                               *)

LEMMA DishesBehave == [ExercisesNext]_allVars => [Dishes!Next]_(Dishes!dishVars)
BY DEF ExercisesNext, OthersUnchanged, Unless, allVars, dishVars, Dishes!dishVars

\* Every dish of dish_stack is washed at most once, and exactly once before main prints
\* that none is left, if there is any washer (pop of the stack, wash_dishes).
THEOREM DishesTheorem == ExercisesSpec => []Dishes!DishesWashedOnce
<1>1. ExercisesInit => Dishes!IInv
  BY DishesStart DEF ExercisesInit
<1>2. Dishes!IInv /\ [ExercisesNext]_allVars => Dishes!IInv'
  BY DishesBehave, DishesStep
<1>3. Dishes!IInv => Dishes!DishesWashedOnce
  <2> SUFFICES ASSUME Dishes!IInv PROVE Dishes!DishesWashedOnce
    OBVIOUS
  <2>1. PICK k : k = Len(dish_stack)
    OBVIOUS
  <2>2. DishState(k)
    BY <2>1, DishStateIs
  <2>3. /\ times_washed \in [Dishes!Dishes -> Nat] /\ dish_count \in Nat /\ washer_count \in Nat
        /\ dishwashers \in 0 .. washer_count /\ dish_joined \in 0 .. dishwashers
    BY <2>2 DEF DishState, Dishes!TypeOK
  <2>4. DOMAIN times_washed = Dishes!Dishes
    BY <2>3
  <2>5. \A d \in Dishes!Dishes :
          IF d < k THEN times_washed[d] = 0
          ELSE \/ times_washed[d] = 1
               \/ times_washed[d] = 0 /\ \E v \in 1 .. washer_count : washer[v] = "wash" /\ dish[v] = d
    BY <2>1 DEF Dishes!IInv, Dishes!StackInv
  <2>6. \A d \in DOMAIN times_washed : times_washed[d] <= 1
    BY <2>4, <2>5
  <2>7. ASSUME dish_main = "returned"
        PROVE  /\ \A d \in DOMAIN times_washed : times_washed[d] = IF washer_count = 0 THEN 0 ELSE 1
               /\ unwashed = IF washer_count = 0 THEN dish_count ELSE 0
    <3>1. /\ dish_joined = washer_count /\ unwashed = k
          /\ \A w \in 1 .. washer_count : washer[w] = "done" /\ dish_stack = <<>>
      <4>1. dish_joined = washer_count /\ unwashed = k
        BY <2>1, <2>7 DEF Dishes!IInv, Dishes!HiredInv
      <4>2. \A w \in 1 .. washer_count : w <= washer_count
        BY <2>3
      <4> QED BY <4>1, <4>2 DEF Dishes!IInv, Dishes!HiredInv
    <3>2. CASE washer_count = 0
      <4>1. k = dish_count
        BY <2>1, <3>2 DEF Dishes!IInv, Dishes!StackInv
      <4>2. \A d \in Dishes!Dishes : d < k
        BY <2>3, <4>1 DEF Dishes!Dishes
      <4> QED BY <2>4, <2>5, <3>1, <3>2, <4>1, <4>2
    <3>3. CASE washer_count # 0
      <4>1. 1 \in 1 .. washer_count
        BY <2>3, <3>3
      <4>2. k = 0
        BY <2>2, <3>1, <4>1 DEF DishState
      <4>3. \A d \in Dishes!Dishes : ~(d < k)
        BY <2>3, <4>2 DEF Dishes!Dishes
      <4> QED BY <2>4, <2>5, <3>1, <3>3, <4>2, <4>3
    <3> QED BY <3>2, <3>3
  <2> QED BY <2>6, <2>7 DEF Dishes!DishesWashedOnce
<1> QED BY <1>1, <1>2, <1>3, PTL DEF ExercisesSpec

-----------------------------------------------------------------------------
(* The ranges of the hybrid distributions.                                 *)

LEMMA DistrBehaves == [ExercisesNext]_allVars => [Distr!Next]_(Distr!distrVars)
BY DEF ExercisesNext, OthersUnchanged, Unless, allVars, distrVars, Distr!distrVars,
       Distr!launched, Distr!teams

\* The processes of hybrid_distr divide the range into consecutive parts, their threads
\* run each index once, and each prints what it ran but for the -1 that stands for no
\* index (calculate_start, calculate_finish, the reductions of thread_start and
\* thread_finish).
THEOREM RangesTheorem == ExercisesSpec => [](Distr!IndexesRunOnce /\ Distr!PrintedAsRun)
<1>1. ExercisesInit => Distr!IInv
  BY DistrStarts DEF ExercisesInit
<1>2. Distr!IInv /\ [ExercisesNext]_allVars => Distr!IInv'
  BY DistrBehaves, DistrStep
<1>3. Distr!IInv => Distr!IndexesRunOnce /\ Distr!PrintedAsRun
  BY IndexesAreRunOnce, ThreadsPrintWhatTheyRun
<1> QED BY <1>1, <1>2, <1>3, PTL DEF ExercisesSpec

\* Each piece of work is done once, whoever does it: the units of prod_cons_unbound, the
\* indexes of hybrid_distr and the dishes of dish_stack.
THEOREM WorkTheorem == ExercisesSpec => []WorkDoneOnce
<1>1. /\ Units!UnitsConsumedOnce /\ Distr!IndexesRunOnce /\ Distr!PrintedAsRun
      /\ Dishes!DishesWashedOnce
      => WorkDoneOnce
  BY Zenon DEF WorkDoneOnce
<1> QED BY <1>1, UnitsTheorem, RangesTheorem, DishesTheorem, PTL

-----------------------------------------------------------------------------
(* The loops of the OpenMP programs, one after the other.                  *)

LEMMA StagesBehave == [ExercisesNext]_allVars => [Stages!Next]_(Stages!stagesVars)
BY DEF ExercisesNext, OthersUnchanged, Unless, allVars, stagesVars, Stages!stagesVars

\* The lines of a stage of omp_several_for_stages come after those of the stages before
\* it, each once, and the main thread of omp_team greets after the team (the barriers at
\* the end of for and single, and of the region).
THEOREM StagesTheorem == ExercisesSpec => []Stages!StagesDoNotMix
<1>1. ExercisesInit => Stages!IInv
  BY StagesStart DEF ExercisesInit
<1>2. Stages!IInv /\ [ExercisesNext]_allVars => Stages!IInv'
  BY StagesBehave, StagesStep
<1>3. Stages!IInv => Stages!StagesDoNotMix
  <2> SUFFICES ASSUME Stages!IInv PROVE Stages!StagesDoNotMix
    OBVIOUS
  <2> DEFINE complete(k) == \A i \in Stages!Lines(k) : printed[k][i] = 1
  <2>1. /\ DOMAIN printed = 1 .. Len(Stages!Constructs) /\ Len(Stages!Constructs) \in Nat
        /\ \A t \in Stages!RegionTeam : construct[t] \in 1 .. Len(Stages!Constructs) + 1
    BY ConstructsAre DEF ConstructsFacts, Stages!IInv, Stages!TypeOK
  <2>2. ASSUME NEW k \in DOMAIN printed, NEW i \in Stages!Lines(k)
        PROVE  /\ printed[k][i] <= 1
               /\ printed[k][i] = 1 => \A before \in 1 .. k - 1 : complete(before)
    <3>1. printed[k][i] = IF i \in remaining[k] \/ (\E t \in Stages!RegionTeam : construct[t] = k /\ i \in chunk[t])
                            THEN 0 ELSE 1
      BY DEF Stages!IInv, Stages!LinesInv
    <3>2. printed[k][i] <= 1
      BY <3>1
    <3>3. ASSUME printed[k][i] = 1, NEW before \in 1 .. k - 1
          PROVE  complete(before)
      <4>1. i \notin remaining[k]
        BY <3>1, <3>3
      <4>2. PICK u \in Stages!RegionTeam : construct[u] >= k
        BY <4>1 DEF Stages!IInv, Stages!TakenInv
      <4>3. before \in DOMAIN printed /\ before < k /\ before \in Int /\ k \in Int
        BY <2>1
      <4>4. ASSUME NEW t \in Stages!RegionTeam
            PROVE  construct[t] > before \/ (construct[t] = before /\ arrived[t])
        <5>1. construct[t] < construct[u] => arrived[t] /\ construct[u] = construct[t] + 1
          BY DEF Stages!IInv, Stages!BarrierInv
        <5>2. construct[t] \in Int /\ construct[u] \in Int
          BY <2>1
        <5> QED BY <4>2, <4>3, <5>1, <5>2
      <4> HIDE DEF complete
      <4> QED BY <4>3, <4>4, StageIsComplete DEF complete
    <3> QED BY <3>2, <3>3
  <2>3. ASSUME main_greeted \/ Stages!RegionEnded, NEW k \in DOMAIN printed
        PROVE  complete(k)
    <3>1. \A t \in Stages!RegionTeam : construct[t] > Len(Stages!Constructs)
      BY <2>3 DEF Stages!IInv, Stages!BarrierInv, Stages!RegionEnded
    <3>2. \A t \in Stages!RegionTeam : construct[t] > k
      BY <2>1, <3>1
    <3> QED BY <3>2, StageIsComplete
  <2> QED BY <2>2, <2>3 DEF Stages!StagesDoNotMix
<1> QED BY <1>1, <1>2, <1>3, PTL DEF ExercisesSpec

-----------------------------------------------------------------------------
(* The messages of the MPI programs.                                       *)

LEMMA MessagesBehave == [ExercisesNext]_allVars => [Messages!Next]_(Messages!messageVars)
BY DEF ExercisesNext, OthersUnchanged, Unless, allVars, messageVars, Messages!messageVars

\* The values that the MPI programs print come in the order that their messages impose,
\* and no message is left when they end: each receive has its send (relay_race, Mpi).
THEOREM MessagesTheorem == ExercisesSpec => [](Messages!MessagesInOrder /\ Messages!NoMessageLeft)
<1>1. ExercisesInit => Messages!IInv
  BY MessagesStart DEF ExercisesInit
<1>2. Messages!IInv /\ [ExercisesNext]_allVars => Messages!IInv'
  BY MessagesBehave, MessagesStep
<1>3. Messages!IInv => Messages!MessagesInOrder /\ Messages!NoMessageLeft
  BY MessagesAreInOrder, NothingIsLeft
<1> QED BY <1>1, <1>2, <1>3, PTL DEF ExercisesSpec

\* What each program prints comes in the order it promises: the turns of the ordered
\* teams, the messages of the MPI programs, the stages of the OpenMP ones and the
\* accesses of readers_writers.
THEOREM OutputTheorem == ExercisesSpec => []OutputInOrder
<1>1. /\ Order!AnnouncedInOrder /\ Messages!MessagesInOrder /\ Messages!NoMessageLeft
      /\ Stages!StagesDoNotMix /\ Rw!ReadersSeeWriters
      => OutputInOrder
  BY Zenon DEF OutputInOrder
<1> QED BY <1>1, TurnsTheorem, MessagesTheorem, StagesTheorem, ReadersTheorem, PTL
=============================================================================
