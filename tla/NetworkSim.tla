----------------------------- MODULE NetworkSim -----------------------------
(***************************************************************************)
(* taskc/network_simul_*: threads that pass packets through thread-safe    *)
(* queues.  Producers create packets, an assembler loses some of them, a   *)
(* dispatcher puts each one in the queue of its target and a consumer      *)
(* empties each of those queues.  A stop condition ends a consume loop.    *)
(*                                                                         *)
(* The five versions differ in how the threads are connected and in who    *)
(* sends how many stop conditions:                                         *)
(*   packet_loss      producer -> dispatcher -> consumers, and a loop      *)
(*                    dispatcher -> assembler -> dispatcher                *)
(*   packet_loss_fix  the same, and the stop condition goes round the loop *)
(*                    until it met no packet                               *)
(*   packet_loss2     producer -> assembler -> dispatcher -> consumers     *)
(*   producers        the same, with several producers                     *)
(*   bound            the same, with queues of limited capacity            *)
(*                                                                         *)
(* Queue.hpp: two semaphores and a mutex make enqueue and dequeue atomic;  *)
(* an enqueue waits for room and a dequeue for an element.  Queues without *)
(* a capacity argument have room for SEM_VALUE_MAX elements: for all.      *)
(***************************************************************************)
EXTENDS Integers, Sequences, FiniteSets

CONSTANTS
  packageCount, consumerCount, producerCount,
  queueCapacity,  (* the last argument of bound                            *)
  Versions        (* the versions considered                               *)

ASSUME NetworkAssumption ==
  /\ packageCount \in Nat
  /\ consumerCount \in Nat \ {0}
  /\ producerCount \in Nat \ {0}
  /\ queueCapacity \in Nat \ {0}
  /\ Versions \subseteq {"packet_loss", "packet_loss_fix", "packet_loss2",
                         "producers", "bound"}

VARIABLES
  version,
  queue,               (* contents of each queue                           *)
  (* producers                                                             *)
  producer, producedCount, myMessageNumber,
  (* dispatcher and assembler: where they are, stops met, packet in hand   *)
  dispatcher, dispatcher_stops, dispatched, propagated,
  assembler, assembler_stops, assembled, lostMessages,
  (* consumers: where they are and the packets they consumed               *)
  consumer, receivedMessages

producerVars   == <<producer, producedCount, myMessageNumber>>
dispatcherVars == <<dispatcher, dispatcher_stops, dispatched, propagated>>
assemblerVars  == <<assembler, assembler_stops, assembled, lostMessages>>
consumerVars   == <<consumer, receivedMessages>>
vars == <<version, queue, producerVars, dispatcherVars, assemblerVars,
          consumerVars>>

-----------------------------------------------------------------------------
(* Messages, queues and connections *)

Numbers   == 1 .. packageCount
Consumers == 1 .. consumerCount

\* Every consumer's queue has its number as key; the assembler's comes next,
\* and the queue the dispatcher consumes from is not in its map.
AssemblerQueue  == consumerCount + 1
DispatcherQueue == 0
Queues          == 0 .. consumerCount + 1

\* A packet has a source, so that none equals NetworkMessage().
Packets == [target : 1 .. consumerCount + 1, messageNumber : Numbers]
Stop    == [target |-> 0, messageNumber |-> 0]

Looped == version \in {"packet_loss", "packet_loss_fix"}

ProducingQueue == IF Looped THEN DispatcherQueue ELSE AssemblerQueue
toQueues       == IF Looped THEN 1 .. consumerCount + 1 ELSE Consumers
Producers      == IF version \in {"producers", "bound"} THEN 1 .. producerCount
                                                        ELSE {1}

\* Stop conditions after which dispatcher and assembler leave their loops.
StopsToEnd == IF version = "packet_loss_fix" THEN 2 ELSE 1

Enqueue(q, message) ==
  /\ version = "bound" => Len(queue[q]) < queueCapacity
  /\ queue' = [queue EXCEPT ![q] = Append(@, message)]

Dequeue(q, message) ==
  /\ queue[q] # <<>>
  /\ message = Head(queue[q])
  /\ queue' = [queue EXCEPT ![q] = Tail(@)]

Init ==
  /\ version \in Versions
  /\ queue = [q \in Queues |-> <<>>]
  /\ producer = [p \in Producers |-> "draw"]
  /\ producedCount = 0
  /\ myMessageNumber = [p \in Producers |-> 0]
  /\ dispatcher = "consume" /\ dispatcher_stops = 0
  /\ dispatched = Stop /\ propagated = 0
  /\ assembler = "consume" /\ assembler_stops = 0
  /\ assembled = Stop /\ lostMessages = {}
  /\ consumer = [c \in Consumers |-> "consume"]
  /\ receivedMessages = [c \in Consumers |-> {}]

-----------------------------------------------------------------------------
(* A producer *)

\* Mistake: the producer that ends first sends the stop condition.
DrawFirstStops(p) ==
  LET number == producedCount + 1
      last   == packageCount + 1
  IN
  /\ producer[p] = "draw"
  /\ producedCount' = number
  /\ myMessageNumber' = [myMessageNumber EXCEPT ![p] = number]
  /\ producer' = [producer EXCEPT ![p] =
       IF number <= packageCount THEN "produce"
       ELSE IF number = last THEN "produce_stop" ELSE "done"]
  /\ UNCHANGED <<version, queue, dispatcherVars, assemblerVars, consumerVars>>

\* The number of the next message; past the last one the producer ends, and
\* the producer that ends last sends the stop condition.  With one producer
\* this is the loop of the versions without producedCount.
Draw(p) ==
  LET number == producedCount + 1
      last   == packageCount + Cardinality(Producers)
  IN
  /\ producer[p] = "draw"
  /\ producedCount' = number
  /\ myMessageNumber' = [myMessageNumber EXCEPT ![p] = number]
  /\ producer' = [producer EXCEPT ![p] =
       IF number <= packageCount THEN "produce"
       ELSE IF number = last THEN "produce_stop" ELSE "done"]
  /\ UNCHANGED <<version, queue, dispatcherVars, assemblerVars, consumerVars>>

\* Mistake: the shared count, read after the mutex was unlocked.
ProduceSharedCount(p) ==
  /\ producer[p] = "produce"
  /\ \E target \in toQueues :
       Enqueue(ProducingQueue,
               [target |-> target, messageNumber |-> producedCount])
  /\ producer' = [producer EXCEPT ![p] = "draw"]
  /\ UNCHANGED <<version, producedCount, myMessageNumber, dispatcherVars,
                 assemblerVars, consumerVars>>

\* The target of a packet is any queue of the dispatcher, chosen at random.
Produce(p) ==
  /\ producer[p] = "produce"
  /\ \E target \in toQueues :
       Enqueue(ProducingQueue,
               [target |-> target, messageNumber |-> myMessageNumber[p]])
  /\ producer' = [producer EXCEPT ![p] = "draw"]
  /\ UNCHANGED <<version, producedCount, myMessageNumber, dispatcherVars,
                 assemblerVars, consumerVars>>

ProduceStop(p) ==
  /\ producer[p] = "produce_stop"
  /\ Enqueue(ProducingQueue, Stop)
  /\ producer' = [producer EXCEPT ![p] = "done"]
  /\ UNCHANGED <<version, producedCount, myMessageNumber, dispatcherVars,
                 assemblerVars, consumerVars>>

ProducerStep(p) == Draw(p) \/ Produce(p) \/ ProduceStop(p)

-----------------------------------------------------------------------------
(* The dispatcher *)

\* The stop condition ends consumeLoop, and the version with the fix counts it.
DispatcherDequeue ==
  /\ dispatcher = "consume"
  /\ Dequeue(DispatcherQueue, dispatched')
  /\ IF dispatched' = Stop
       THEN /\ dispatcher_stops' = dispatcher_stops + 1
            /\ dispatcher' = IF version = "packet_loss_fix" THEN "forward"
                                                            ELSE "propagate"
       ELSE dispatcher' = "redirect" /\ UNCHANGED dispatcher_stops
  /\ UNCHANGED <<version, producerVars, propagated, assemblerVars,
                 consumerVars>>

\* consume: a packet restarts the count of stop conditions.
Redirect ==
  /\ dispatcher = "redirect"
  /\ Enqueue(dispatched.target, dispatched)
  /\ dispatcher_stops' = 0
  /\ dispatcher' = "consume"
  /\ UNCHANGED <<version, producerVars, dispatched, propagated, assemblerVars,
                 consumerVars>>

\* Mistake: the dispatcher leaves at the first stop condition.
ForwardOnce ==
  /\ dispatcher = "forward"
  /\ Enqueue(AssemblerQueue, Stop)
  /\ dispatcher' = IF dispatcher_stops < StopsToEnd - 1 THEN "consume"
                                                        ELSE "propagate"
  /\ UNCHANGED <<version, producerVars, dispatcher_stops, dispatched,
                 propagated, assemblerVars, consumerVars>>

\* toQueues[toQueues.size()] is the assembler's.
Forward ==
  /\ dispatcher = "forward"
  /\ Enqueue(AssemblerQueue, Stop)
  /\ dispatcher' = IF dispatcher_stops < StopsToEnd THEN "consume"
                                                    ELSE "propagate"
  /\ UNCHANGED <<version, producerVars, dispatcher_stops, dispatched,
                 propagated, assemblerVars, consumerVars>>

\* Mistake: index < toQueues.size() for keys that begin at 1.
PropagateButLast ==
  /\ dispatcher = "propagate"
  /\ IF propagated + 2 \in toQueues
       THEN /\ Enqueue(propagated + 1, Stop)
            /\ propagated' = propagated + 1
            /\ UNCHANGED dispatcher
       ELSE /\ dispatcher' = "done"
            /\ UNCHANGED <<queue, propagated>>
  /\ UNCHANGED <<version, producerVars, dispatcher_stops, dispatched,
                 assemblerVars, consumerVars>>

\* The stop condition for every queue of the map, in the order of the keys.
Propagate ==
  /\ dispatcher = "propagate"
  /\ IF propagated + 1 \in toQueues
       THEN /\ Enqueue(propagated + 1, Stop)
            /\ propagated' = propagated + 1
            /\ UNCHANGED dispatcher
       ELSE /\ dispatcher' = "done"
            /\ UNCHANGED <<queue, propagated>>
  /\ UNCHANGED <<version, producerVars, dispatcher_stops, dispatched,
                 assemblerVars, consumerVars>>

DispatcherStep == DispatcherDequeue \/ Redirect \/ Forward \/ Propagate

-----------------------------------------------------------------------------
(* The assembler *)

AssemblerDequeue ==
  /\ assembler = "consume"
  /\ Dequeue(AssemblerQueue, assembled')
  /\ IF assembled' = Stop
       THEN /\ assembler_stops' = assembler_stops + 1
            /\ assembler' = IF version = "packet_loss" THEN "done" ELSE "answer"
       ELSE assembler' = "assemble" /\ assembler_stops' = 0
  /\ UNCHANGED <<version, producerVars, dispatcherVars, lostMessages,
                 consumerVars>>

LosePacket ==
  /\ assembler = "assemble"
  /\ lostMessages' = lostMessages \cup {assembled}
  /\ assembler' = "consume"
  /\ UNCHANGED <<version, queue, producerVars, dispatcherVars, assembler_stops,
                 assembled, consumerVars>>

\* Util::random(1, consumerCount) excludes its upper limit, which counts the
\* assembler: a packet in the loop goes to a consumer.
PassPacket ==
  /\ assembler = "assemble"
  /\ \E target \in IF Looped THEN Consumers ELSE {assembled.target} :
       Enqueue(DispatcherQueue, [assembled EXCEPT !.target = target])
  /\ assembler' = "consume"
  /\ UNCHANGED <<version, producerVars, dispatcherVars, assembler_stops,
                 assembled, lostMessages, consumerVars>>

\* Mistake: the stop condition is produced after the loop, not in it.
AnswerAtTheEnd ==
  /\ assembler = "answer"
  /\ IF assembler_stops < StopsToEnd
       THEN assembler' = "consume" /\ UNCHANGED queue
       ELSE assembler' = "done" /\ Enqueue(DispatcherQueue, Stop)
  /\ UNCHANGED <<version, producerVars, dispatcherVars, assembler_stops,
                 assembled, lostMessages, consumerVars>>

\* The stop condition for the dispatcher.
Answer ==
  /\ assembler = "answer"
  /\ Enqueue(DispatcherQueue, Stop)
  /\ assembler' = IF assembler_stops < StopsToEnd THEN "consume" ELSE "done"
  /\ UNCHANGED <<version, producerVars, dispatcherVars, assembler_stops,
                 assembled, lostMessages, consumerVars>>

AssemblerStep == AssemblerDequeue \/ LosePacket \/ PassPacket \/ Answer

-----------------------------------------------------------------------------
(* A consumer *)

ConsumerStep(c) ==
  LET message == Head(queue[c]) IN
  /\ consumer[c] = "consume"
  /\ Dequeue(c, message)
  /\ IF message = Stop
       THEN /\ consumer' = [consumer EXCEPT ![c] = "done"]
            /\ UNCHANGED receivedMessages
       ELSE /\ receivedMessages' =
                 [receivedMessages EXCEPT ![c] = @ \cup {message}]
            /\ UNCHANGED consumer
  /\ UNCHANGED <<version, producerVars, dispatcherVars, assemblerVars>>

AllDone ==
  /\ \A p \in Producers : producer[p] = "done"
  /\ dispatcher = "done" /\ assembler = "done"
  /\ \A c \in Consumers : consumer[c] = "done"

\* joinThreads: the main thread waits for all of them.
Finished == AllDone /\ UNCHANGED vars

Next ==
  \/ \E p \in Producers : ProducerStep(p)
  \/ DispatcherStep
  \/ AssemblerStep
  \/ \E c \in Consumers : ConsumerStep(c)
  \/ Finished

Spec == Init /\ [][Next]_vars

\* Every thread that can run does, and a semaphore that stays up lets the
\* thread that waits for it pass.
Fairness ==
  /\ \A p \in 1 .. producerCount : WF_vars(p \in Producers /\ ProducerStep(p))
  /\ WF_vars(DispatcherStep)
  /\ WF_vars(AssemblerStep)
  /\ \A c \in Consumers : WF_vars(ConsumerStep(c))

FairSpec == Spec /\ Fairness

-----------------------------------------------------------------------------
(* Properties *)

TypeOK ==
  /\ version \in Versions
  /\ queue \in [Queues -> Seq(Packets \cup {Stop})]
  /\ producer \in [Producers -> {"draw", "produce", "produce_stop", "done"}]
  /\ producedCount \in 0 .. packageCount + Cardinality(Producers)
  /\ myMessageNumber \in [Producers -> Nat]
  /\ \A p \in Producers : producer[p] = "produce" => myMessageNumber[p] \in Numbers
  /\ dispatcher \in {"consume", "redirect", "forward", "propagate", "done"}
  /\ dispatcher_stops \in 0 .. StopsToEnd
  /\ dispatched \in Packets \cup {Stop}
  /\ dispatcher = "redirect" => dispatched \in Packets
  /\ propagated \in {0} \cup toQueues
  /\ assembler \in {"consume", "assemble", "answer", "done"}
  /\ assembler_stops \in 0 .. StopsToEnd
  /\ assembled \in Packets \cup {Stop}
  /\ assembler = "assemble" => assembled \in Packets
  /\ lostMessages \subseteq Packets
  /\ consumer \in [Consumers -> {"consume", "done"}]
  /\ receivedMessages \in [Consumers -> SUBSET Packets]

\* The producer that draws the last number is the last to end: when it sends
\* the stop condition no other producer has a packet in the making, however
\* slow it is (ProducerTest.cpp: lastProduced, and one draw past the end each).
StopIsLast ==
  \A p \in Producers : producer[p] = "produce_stop" =>
    \A o \in Producers \ {p} : producer[o] = "done"

\* Where the packet of a number is: waiting in a queue, at place 0 of the queue
\* it was taken from when the thread of that queue holds, lost or consumed it.
InHand(state, at, message) == IF state = at THEN {message} ELSE {}

Kept(q) ==
  IF q = DispatcherQueue THEN InHand(dispatcher, "redirect", dispatched)
  ELSE IF q = AssemblerQueue
    THEN InHand(assembler, "assemble", assembled) \cup lostMessages
  ELSE receivedMessages[q]

PlacesOf(number) ==
  LET Has(message) == message.messageNumber = number IN
  {<<q, 0>> : q \in {q \in Queues : \E message \in Kept(q) : Has(message)}}
  \cup UNION {{q} \X {i \in DOMAIN queue[q] : Has(queue[q][i])} : q \in Queues}

\* A packet that was produced is in one place and a packet that was not is in
\* none: passing it from queue to queue never loses it, except on purpose, and
\* never duplicates it, and no two producers give the same number
\* (README.adoc:34, exercise 20: "se consumen todos los paquetes creados").
PacketInOnePlace ==
  \A number \in Numbers :
    LET produced == /\ number <= producedCount
                    /\ \A p \in Producers : producer[p] = "produce" =>
                         myMessageNumber[p] # number
    IN Cardinality(PlacesOf(number)) = IF produced THEN 1 ELSE 0

\* A thread that left its loop left no packet in its queue, and the dispatcher
\* sends the stop conditions when no packet can reach it any more.  The version
\* packet_loss promises that of the consumers and the assembler only
\* (README.adoc:33 tells of the packets its dispatcher misses).
NoPacketLeft ==
  LET NoneIn(q) == \A i \in DOMAIN queue[q] : queue[q][i] = Stop IN
  /\ \A c \in Consumers : consumer[c] = "done" => NoneIn(c)
  /\ assembler = "done" => NoneIn(AssemblerQueue)
  /\ version # "packet_loss" /\ dispatcher \in {"propagate", "done"} =>
       /\ NoneIn(DispatcherQueue) /\ NoneIn(AssemblerQueue)
       /\ assembler # "assemble"

\* The producer's stop condition goes round the loop of dispatcher and assembler
\* and is neither lost nor doubled while the dispatcher waits for it
\* (packet_loss_fix: each consumeLoop that ends produces one stop condition).
OneStopGoesRound ==
  LET StopsIn(q) == Cardinality({i \in DOMAIN queue[q] : queue[q][i] = Stop})
      At(state, at) == IF state = at THEN 1 ELSE 0
  IN
  version = "packet_loss_fix" /\ dispatcher \in {"consume", "redirect", "forward"}
    => StopsIn(DispatcherQueue) + StopsIn(AssemblerQueue)
         + At(dispatcher, "forward") + At(assembler, "answer")
       = At(producer[1], "done")

\* Every thread ends: none waits for ever for a packet, a stop condition or room
\* in a queue (ProducerConsumerTest.cpp: joinThreads).
Termination == <>AllDone

-----------------------------------------------------------------------------
(* The inductive invariant *)

StopAt(q, i)   == i \in 1 .. Len(queue[q]) /\ queue[q][i] = Stop
PacketAt(q, i) == i \in 1 .. Len(queue[q]) /\ queue[q][i] # Stop

\* The stop conditions of a queue, and its packets before and behind them.
StopIn(q)      == \E i \in 1 .. Len(queue[q]) : StopAt(q, i)
StopIsLastIn(q) == \A i \in 1 .. Len(queue[q]) : StopAt(q, i) => i = Len(queue[q])
OneStopIn(q)   == \A i, j \in 1 .. Len(queue[q]) : StopAt(q, i) /\ StopAt(q, j) => i = j
NoPacketIn(q)  == \A i \in 1 .. Len(queue[q]) : ~ PacketAt(q, i)
PacketBehindStop(q) ==
  \E i, j \in 1 .. Len(queue[q]) : i < j /\ StopAt(q, i) /\ PacketAt(q, j)
ForConsumers(q) ==
  \A i \in 1 .. Len(queue[q]) : PacketAt(q, i) => queue[q][i].target \in Consumers
ForConsumersBehindStop(q) ==
  \A i, j \in 1 .. Len(queue[q]) :
    i < j /\ StopAt(q, i) /\ PacketAt(q, j) => queue[q][j].target \in Consumers

\* The producers that drew a number past the last.
Past == {p \in Producers : producer[p] \in {"produce_stop", "done"}}

Sent        == \A p \in Producers : producer[p] = "done"
Dispatching == dispatcher \in {"consume", "redirect", "forward"}

\* The numbers drawn past the last are as many as the producers that drew one,
\* the last of them has seen the others end, and every packet in the making has
\* a number of its own.
ProducerInv ==
  /\ Cardinality(Past) =
       IF producedCount > packageCount THEN producedCount - packageCount ELSE 0
  /\ \A p \in Producers : producer[p] = "produce_stop" =>
       /\ producedCount = packageCount + Cardinality(Producers)
       /\ \A o \in Producers \ {p} : producer[o] = "done"
  /\ \A p \in Producers : producer[p] = "produce" =>
       /\ myMessageNumber[p] <= producedCount
       /\ \A o \in Producers \ {p} :
            producer[o] = "produce" => myMessageNumber[o] # myMessageNumber[p]

CountInv ==
  /\ dispatcher = "consume" => dispatcher_stops < StopsToEnd
  /\ assembler = "consume" => assembler_stops < StopsToEnd
  /\ assembler = "assemble" => assembler_stops = 0
  /\ dispatcher = "forward" => version = "packet_loss_fix"
  /\ assembler = "answer" => version # "packet_loss"
  /\ assembler \in {"answer", "done"} => assembler_stops >= 1
  /\ propagated > 0 => ~ Dispatching

\* Where a packet is, as in PlacesOf: a packet is in one place at most, in none
\* before it is produced and in one afterwards, and the packet in the hands of the
\* assembler is none of those it lost.
Waits(number, q, i) == i \in 1 .. Len(queue[q]) /\ queue[q][i].messageNumber = number
Holds(number, q)    == \E message \in Kept(q) : message.messageNumber = number
Placed(number, q, i) == (i = 0 /\ Holds(number, q)) \/ Waits(number, q, i)

Produced(number) ==
  /\ number <= producedCount
  /\ \A p \in Producers : producer[p] = "produce" => myMessageNumber[p] # number

PlaceInv ==
  /\ \A number \in Numbers :
       /\ Produced(number) <=> \E q \in Queues, i \in Nat : Placed(number, q, i)
       /\ \A q, r \in Queues, i, j \in Nat :
            Placed(number, q, i) /\ Placed(number, r, j) => q = r /\ i = j
  /\ assembler = "assemble" =>
       \A message \in lostMessages : message.messageNumber # assembled.messageNumber

\* The dispatcher's stop condition is the last message of a queue, and a thread
\* that left its loop has an empty queue; so has the assembler of packet_loss.
EndInv ==
  /\ \A c \in Consumers :
       /\ StopIsLastIn(c) /\ (StopIn(c) => c <= propagated)
       /\ consumer[c] = "done" => queue[c] = <<>> /\ c <= propagated
  /\ version = "packet_loss" =>
       /\ StopIsLastIn(AssemblerQueue)
       /\ StopIn(AssemblerQueue) => AssemblerQueue <= propagated
       /\ assembler = "done" => queue[AssemblerQueue] = <<>> /\ AssemblerQueue <= propagated

\* Without a loop the producers' stop condition ends the assembler, and the
\* assembler's the dispatcher.
LineInv ==
  /\ ForConsumers(DispatcherQueue) /\ ForConsumers(AssemblerQueue)
  /\ dispatcher = "redirect" => dispatched.target \in Consumers
  /\ assembler = "assemble" => assembled.target \in Consumers
  /\ StopIsLastIn(AssemblerQueue) /\ (StopIn(AssemblerQueue) => Sent)
  /\ assembler \in {"answer", "done"} => queue[AssemblerQueue] = <<>> /\ Sent
  /\ StopIsLastIn(DispatcherQueue) /\ (StopIn(DispatcherQueue) => assembler = "done")
  /\ ~ Dispatching => queue[DispatcherQueue] = <<>> /\ assembler = "done"

\* In the loop with the fix there is one stop condition once the producer ended ...
OneStop ==
  /\ OneStopIn(DispatcherQueue) /\ OneStopIn(AssemblerQueue)
  /\ StopIn(DispatcherQueue) =>
       ~ StopIn(AssemblerQueue) /\ dispatcher # "forward" /\ assembler # "answer"
  /\ StopIn(AssemblerQueue) => dispatcher # "forward" /\ assembler # "answer"
  /\ ~ (dispatcher = "forward" /\ assembler = "answer")
  /\ Sent <=> \/ StopIn(DispatcherQueue) \/ StopIn(AssemblerQueue)
              \/ dispatcher = "forward" \/ assembler = "answer"

\* ... behind it the assembler only sends packets to consumers, so that no packet
\* reaches the assembler after it; and the stop condition comes to the dispatcher
\* again only after the assembler met it.
FixInv ==
  /\ Dispatching => OneStop
  /\ assembler_stops >= 1 \/ dispatcher_stops >= 1 \/ ~ Dispatching => Sent
  /\ dispatcher = "forward" \/ assembler_stops >= 1 \/ StopIn(AssemblerQueue) =>
       /\ ForConsumers(DispatcherQueue)
       /\ dispatcher = "redirect" => dispatched.target \in Consumers
  /\ ForConsumersBehindStop(DispatcherQueue)
  /\ PacketBehindStop(DispatcherQueue) => assembler_stops = 0
  /\ ~ PacketBehindStop(AssemblerQueue)
  /\ assembler_stops >= 1 => assembler # "assemble" /\ NoPacketIn(AssemblerQueue)
  /\ dispatcher_stops >= 1 =>
       dispatcher = "forward" \/ StopIn(AssemblerQueue) \/ assembler_stops >= 1
  /\ ~ Dispatching \/ (dispatcher = "forward" /\ dispatcher_stops = StopsToEnd) =>
       /\ NoPacketIn(DispatcherQueue) /\ NoPacketIn(AssemblerQueue)
       /\ assembler # "assemble"

IInv ==
  /\ TypeOK /\ ProducerInv /\ CountInv /\ PlaceInv /\ EndInv
  /\ ~ Looped => LineInv
  /\ version = "packet_loss_fix" => FixInv
=============================================================================
