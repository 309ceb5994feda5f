---------------------------- MODULE ProdConsBound ----------------------------
(***************************************************************************)
(* pthreads/prod_cons_bound: a producer and a consumer that share a        *)
(* circular buffer without a mutex.  The semaphores can_produce and        *)
(* can_consume alone keep them at different places of the buffer.          *)
(*                                                                         *)
(* Both threads run two nested loops, over the rounds and over the places  *)
(* of the buffer: after n elements the next place is n % buffer_capacity.  *)
(* A wait, an access to the buffer and a post are steps of their own.      *)
(***************************************************************************)
EXTENDS Integers

CONSTANTS
  buffer_capacity,
  rounds,
  CreateMayFail       (* threads whose pthread_create may return an error  *)

ASSUME ArgumentsAssumption ==
  /\ buffer_capacity \in Nat \ {0}
  /\ rounds \in Nat \ {0}
  /\ CreateMayFail \subseteq {"producer"}

VARIABLES
  main,
  can_produce, can_consume,   (* values of the semaphores                  *)
  buffer,
  producer, count,            (* where it is; elements produced            *)
  consumer, consumed, value   (* where it is; elements consumed; in hand   *)

vars == <<main, can_produce, can_consume, buffer, producer, count,
          consumer, consumed, value>>

Places == 0 .. buffer_capacity - 1
Total  == rounds * buffer_capacity

Init ==
  /\ main = "create_producer"
  /\ can_produce = buffer_capacity /\ can_consume = 0
  /\ buffer = [place \in Places |-> 0]
  /\ producer = "unborn" /\ count = 0
  /\ consumer = "unborn" /\ consumed = 0 /\ value = 0

-----------------------------------------------------------------------------
(* The main thread: create_threads *)

CreateProducer ==
  /\ main = "create_producer"
  /\ \/ main' = "create_consumer" /\ producer' = "reserve"
     \/ /\ "producer" \in CreateMayFail
        /\ main' = "failed"
        /\ UNCHANGED producer
  /\ UNCHANGED <<can_produce, can_consume, buffer, count, consumer, consumed,
                 value>>

CreateConsumer ==
  /\ main = "create_consumer"
  /\ main' = "join_producer" /\ consumer' = "wait"
  /\ UNCHANGED <<can_produce, can_consume, buffer, producer, count, consumed,
                 value>>

Join ==
  /\ \/ main = "join_producer" /\ producer = "ended" /\ main' = "join_consumer"
     \/ main = "join_consumer" /\ consumer = "ended" /\ main' = "returned"
  /\ UNCHANGED <<can_produce, can_consume, buffer, producer, count, consumer,
                 consumed, value>>

MainStep == CreateProducer \/ CreateConsumer \/ Join

-----------------------------------------------------------------------------
(* The producer *)

\* The wait before the loops of produce.
Reserve ==
  /\ producer = "reserve" /\ can_produce > 0
  /\ can_produce' = can_produce - 1
  /\ producer' = "wait"
  /\ UNCHANGED <<main, can_consume, buffer, count, consumer, consumed, value>>

\* Mistake: no wait for a free place.
ProduceWithoutWait ==
  /\ producer = "wait"
  /\ producer' = "produce"
  /\ UNCHANGED <<main, can_produce, can_consume, buffer, count, consumer,
                 consumed, value>>

WaitToProduce ==
  /\ producer = "wait" /\ can_produce > 0
  /\ can_produce' = can_produce - 1
  /\ producer' = "produce"
  /\ UNCHANGED <<main, can_consume, buffer, count, consumer, consumed, value>>

Produce ==
  /\ producer = "produce"
  /\ buffer' = [buffer EXCEPT ![count % buffer_capacity] = count + 1]
  /\ count' = count + 1
  /\ producer' = "signal"
  /\ UNCHANGED <<main, can_produce, can_consume, consumer, consumed, value>>

SignalConsumer ==
  /\ producer = "signal"
  /\ can_consume' = can_consume + 1
  /\ producer' = IF count < Total THEN "wait" ELSE "ended"
  /\ UNCHANGED <<main, can_produce, buffer, count, consumer, consumed, value>>

ProducerStep == Reserve \/ WaitToProduce \/ Produce \/ SignalConsumer

-----------------------------------------------------------------------------
(* The consumer *)

\* Mistake: no wait for an element.
ConsumeWithoutWait ==
  /\ consumer = "wait"
  /\ consumer' = "consume"
  /\ UNCHANGED <<main, can_produce, can_consume, buffer, producer, count,
                 consumed, value>>

WaitToConsume ==
  /\ consumer = "wait" /\ can_consume > 0
  /\ can_consume' = can_consume - 1
  /\ consumer' = "consume"
  /\ UNCHANGED <<main, can_produce, buffer, producer, count, consumed, value>>

Consume ==
  /\ consumer = "consume"
  /\ value' = buffer[consumed % buffer_capacity]
  /\ consumer' = "signal"
  /\ UNCHANGED <<main, can_produce, can_consume, buffer, producer, count,
                 consumed>>

\* Mistake: the wrong semaphore is posted.
SignalSelf ==
  /\ consumer = "signal"
  /\ can_consume' = can_consume + 1
  /\ consumed' = consumed + 1
  /\ consumer' = IF consumed + 1 < Total THEN "wait" ELSE "ended"
  /\ UNCHANGED <<main, can_produce, buffer, producer, count, value>>

SignalProducer ==
  /\ consumer = "signal"
  /\ can_produce' = can_produce + 1
  /\ consumed' = consumed + 1
  /\ consumer' = IF consumed + 1 < Total THEN "wait" ELSE "ended"
  /\ UNCHANGED <<main, can_consume, buffer, producer, count, value>>

ConsumerStep == WaitToConsume \/ Consume \/ SignalProducer

Finished ==
  /\ main \in {"returned", "failed"}
  /\ UNCHANGED vars

Next == MainStep \/ ProducerStep \/ ConsumerStep \/ Finished

Spec == Init /\ [][Next]_vars

\* The scheduler runs every thread that can run, and delays end.
Fairness == WF_vars(MainStep) /\ WF_vars(ProducerStep) /\ WF_vars(ConsumerStep)
FairSpec == Spec /\ Fairness

-----------------------------------------------------------------------------
(* Properties *)

TypeOK ==
  /\ main \in {"create_producer", "create_consumer", "join_producer",
               "join_consumer", "returned", "failed"}
  /\ can_produce \in 0 .. buffer_capacity
  /\ can_consume \in 0 .. buffer_capacity
  /\ buffer \in [Places -> Nat]
  /\ producer \in {"unborn", "reserve", "wait", "produce", "signal", "ended"}
  /\ count \in 0 .. Total
  /\ consumer \in {"unborn", "wait", "consume", "signal", "ended"}
  /\ consumed \in 0 .. Total
  /\ value \in Nat

\* The threads never access the same place at the same time, and the producer
\* never writes a place whose element the consumer still has to read
\* (readme.adoc: "it catches up and overwrites products that the consumer has
\* not yet processed").
NeverSamePlace ==
  producer = "produce" =>
    /\ count - consumed < buffer_capacity
    /\ consumer = "consume" =>
         count % buffer_capacity # consumed % buffer_capacity

\* The consumer takes the elements in the order they were produced, none twice
\* and none lost (readme.adoc: "The problem is solved when the consumer
\* processes all products in the same order in which the producer generates
\* them").
ConsumedInOrder == consumer = "signal" => value = consumed + 1

\* All rounds are produced and consumed and the program ends (readme.adoc: the
\* rounds are the times "the buffer must be filled and emptied").
AllConsumed == <>(\/ main = "failed"
                  \/ main = "returned" /\ consumed = Total)

-----------------------------------------------------------------------------
(* The inductive invariant *)

\* Whether a thread is at one of these places of its code, as a number.
At(place, places) == IF place \in places THEN 1 ELSE 0

\* What the semaphores count: elements posted and not yet waited for, and free
\* places without the one taken before the loops.
SemaphoreInv ==
  /\ can_consume = count - At(producer, {"signal"})
                     - consumed - At(consumer, {"consume", "signal"})
  /\ can_produce = buffer_capacity
                     - At(producer, {"wait", "produce", "signal", "ended"})
                     - count - At(producer, {"produce"}) + consumed

\* Where the threads are in their loops; each is created once.
LoopInv ==
  /\ main = "create_producer" => producer = "unborn"
  /\ main \in {"create_producer", "create_consumer"} => consumer = "unborn"
  /\ producer \in {"unborn", "reserve"} => count = 0
  /\ producer \in {"wait", "produce"} => count < Total
  /\ producer = "ended" => count = Total
  /\ consumer \in {"wait", "consume", "signal"} => consumed < Total
  /\ consumer = "unborn" => consumed = 0
  /\ consumer = "ended" => consumed = Total

\* The elements produced and not consumed are in their places.
BufferInv ==
  /\ \A n \in consumed .. count - 1 : buffer[n % buffer_capacity] = n + 1
  /\ ConsumedInOrder

\* The semaphores count what the code between them has done, the loops end with
\* their last element and the buffer holds what is yet to be consumed
\* (prod_cons_bound.c: every access is between a wait and a post).
IInv == TypeOK /\ SemaphoreInv /\ LoopInv /\ BufferInv
=============================================================================
