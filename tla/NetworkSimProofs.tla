-------------------------- MODULE NetworkSimProofs --------------------------
(***************************************************************************)
(* Proofs about NetworkSim, for every number of packets, of producers and  *)
(* of consumers, every capacity, and the five versions.                    *)
(***************************************************************************)
EXTENDS NetworkSim, FiniteSetTheorems, SequenceTheorems, TLAPS

-----------------------------------------------------------------------------
(* Queues and messages *)

QueueMessages == Packets \cup {Stop}

\* The queues are distinct, and a stop condition is told from every packet.
LEMMA Connections ==
  /\ consumerCount \in Nat \ {0} /\ packageCount \in Nat
  /\ DispatcherQueue \in Queues /\ AssemblerQueue \in Queues
  /\ Consumers \subseteq Queues
  /\ DispatcherQueue # AssemblerQueue
  /\ DispatcherQueue \notin Consumers /\ AssemblerQueue \notin Consumers
  /\ \A q \in Queues : q \in Consumers \/ q = DispatcherQueue \/ q = AssemblerQueue
  /\ ProducingQueue \in {DispatcherQueue, AssemblerQueue}
  /\ \A q \in toQueues : q \in Queues /\ q \in 1 .. consumerCount + 1
  /\ \A q \in toQueues : q \in Consumers \/ (Looped /\ q = AssemblerQueue)
BY NetworkAssumption
   DEF DispatcherQueue, AssemblerQueue, Queues, Consumers, ProducingQueue, toQueues

LEMMA StopIsNoPacket ==
  /\ Stop.messageNumber = 0 /\ Stop.messageNumber \notin Numbers
  /\ Stop \notin Packets
  /\ \A packet \in Packets : /\ packet.messageNumber \in Numbers
                             /\ packet.target \in 1 .. consumerCount + 1
                             /\ packet # Stop
BY DEF Stop, Packets, Numbers

\* What an enqueue and a dequeue change, and what they leave alone.
LEMMA Enqueued ==
  ASSUME queue \in [Queues -> Seq(QueueMessages)],
         NEW q \in Queues, NEW message \in QueueMessages, Enqueue(q, message)
  PROVE  /\ queue' \in [Queues -> Seq(QueueMessages)]
         /\ \A r \in Queues : Len(queue[r]) \in Nat
         /\ Len(queue'[q]) = Len(queue[q]) + 1
         /\ queue'[q][Len(queue[q]) + 1] = message
         /\ \A i \in 1 .. Len(queue[q]) : queue'[q][i] = queue[q][i]
         /\ \A r \in Queues \ {q} : queue'[r] = queue[r]
<1>1. queue' = [queue EXCEPT ![q] = Append(queue[q], message)]
  BY DEF Enqueue
<1>2. PICK contents \in Seq(QueueMessages) : contents = queue[q]
  OBVIOUS
<1>3. /\ Append(contents, message) \in Seq(QueueMessages)
      /\ Len(Append(contents, message)) = Len(contents) + 1
      /\ Append(contents, message)[Len(contents) + 1] = message
      /\ \A i \in 1 .. Len(contents) : Append(contents, message)[i] = contents[i]
  BY AppendProperties
<1>4. queue'[q] = Append(contents, message)
  BY <1>1, <1>2
<1>5. \A r \in Queues : Len(queue[r]) \in Nat
  BY LenProperties
<1> QED BY <1>1, <1>2, <1>3, <1>4, <1>5

LEMMA Dequeued ==
  ASSUME queue \in [Queues -> Seq(QueueMessages)],
         NEW q \in Queues, NEW message, Dequeue(q, message)
  PROVE  /\ queue' \in [Queues -> Seq(QueueMessages)]
         /\ \A r \in Queues : Len(queue[r]) \in Nat
         /\ message \in QueueMessages
         /\ Len(queue[q]) >= 1 /\ queue[q][1] = message
         /\ Len(queue'[q]) = Len(queue[q]) - 1
         /\ \A i \in 1 .. Len(queue[q]) - 1 : queue'[q][i] = queue[q][i + 1]
         /\ \A r \in Queues \ {q} : queue'[r] = queue[r]
<1>1. /\ queue' = [queue EXCEPT ![q] = Tail(queue[q])]
      /\ queue[q] # <<>> /\ message = Head(queue[q])
  BY DEF Dequeue
<1>2. PICK contents \in Seq(QueueMessages) : contents = queue[q]
  OBVIOUS
<1>3. /\ Len(contents) \in Nat /\ Len(contents) >= 1
      /\ Head(contents) = contents[1] /\ Head(contents) \in QueueMessages
      /\ Tail(contents) \in Seq(QueueMessages)
      /\ Len(Tail(contents)) = Len(contents) - 1
      /\ \A i \in 1 .. Len(contents) - 1 : Tail(contents)[i] = contents[i + 1]
  BY <1>1, <1>2, HeadTailProperties, LenProperties, EmptySeq
<1>4. queue'[q] = Tail(contents)
  BY <1>1, <1>2
<1>5. \A r \in Queues : Len(queue[r]) \in Nat
  BY LenProperties
<1> QED BY <1>1, <1>2, <1>3, <1>4, <1>5

-----------------------------------------------------------------------------
(* Types, and the producers *)

\* The connections depend on the version, which no step changes.
LEMMA SameVersion ==
  ASSUME version' = version
  PROVE  /\ Looped' = Looped /\ ProducingQueue' = ProducingQueue
         /\ toQueues' = toQueues /\ Producers' = Producers /\ StopsToEnd' = StopsToEnd
BY DEF Looped, ProducingQueue, toQueues, Producers, StopsToEnd

LEMMA Team ==
  /\ IsFiniteSet(Producers) /\ Cardinality(Producers) \in Nat
  /\ StopsToEnd \in {1, 2} /\ (StopsToEnd = 2 <=> version = "packet_loss_fix")
  /\ packageCount \in Nat
<1>1. IsFiniteSet(1 .. producerCount)
  BY NetworkAssumption, FS_Interval
<1>2. IsFiniteSet({1})
  BY FS_Singleton
<1>3. IsFiniteSet(Producers)
  BY <1>1, <1>2 DEF Producers
<1> QED BY <1>3, FS_CardinalityType, NetworkAssumption DEF StopsToEnd

LEMMA PastCount ==
  /\ IsFiniteSet(Past) /\ Cardinality(Past) \in Nat
  /\ Cardinality(Past) <= Cardinality(Producers)
  /\ Cardinality(Past) = Cardinality(Producers) => Past = Producers
  /\ \A p \in Producers : p \notin Past => Cardinality(Past) < Cardinality(Producers)
  /\ Cardinality(Past) = 0 => Past = {}
<1>1. Past \in SUBSET Producers
  BY DEF Past
<1>2. PICK past, team : past = Past /\ team = Producers
  OBVIOUS
<1>3. IsFiniteSet(team) /\ Cardinality(team) \in Nat /\ past \in SUBSET team
  BY <1>1, <1>2, Team
<1>4. /\ IsFiniteSet(past) /\ Cardinality(past) <= Cardinality(team)
      /\ Cardinality(team) = Cardinality(past) => team = past
  BY <1>3, FS_Subset
<1>5. Cardinality(past) \in Nat /\ (Cardinality(past) = 0 => past = {})
  BY <1>4, FS_CardinalityType, FS_EmptySet
<1> QED BY <1>2, <1>3, <1>4, <1>5

Base == TypeOK /\ ProducerInv /\ CountInv

LEMMA BaseInit == Init => Base
<1> SUFFICES ASSUME Init PROVE Base
  OBVIOUS
<1>1. Past = {}
  BY DEF Init, Past
<1>2. ProducerInv
  BY <1>1, FS_EmptySet, Team DEF Init, ProducerInv
<1>3. CountInv
  BY Team DEF Init, CountInv
<1>4. TypeOK
  <2>1. <<>> \in Seq(Packets \cup {Stop})
    OBVIOUS
  <2> QED BY <2>1, Team DEF Init, TypeOK
<1> QED BY <1>2, <1>3, <1>4 DEF Base

\* A number is drawn by one producer; the one that draws the last sees that the
\* others have ended.
LEMMA DrawBase ==
  ASSUME Base, NEW p \in Producers, Draw(p)
  PROVE  Base'
<1> DEFINE number == producedCount + 1
           last   == packageCount + Cardinality(Producers)
<1>1. /\ TypeOK /\ ProducerInv /\ CountInv /\ producer[p] = "draw"
      /\ producedCount' = number
      /\ myMessageNumber' = [myMessageNumber EXCEPT ![p] = number]
      /\ producer' = [producer EXCEPT ![p] =
           IF number <= packageCount THEN "produce"
           ELSE IF number = last THEN "produce_stop" ELSE "done"]
      /\ UNCHANGED <<version, queue, dispatcherVars, assemblerVars, consumerVars>>
  BY DEF Base, Draw
<1>2. /\ producedCount \in Nat /\ packageCount \in Nat /\ Cardinality(Producers) \in Nat
      /\ producer \in [Producers -> {"draw", "produce", "produce_stop", "done"}]
      /\ myMessageNumber \in [Producers -> Nat]
  BY <1>1, Team DEF TypeOK
<1>3. /\ Looped' = Looped /\ ProducingQueue' = ProducingQueue
      /\ toQueues' = toQueues /\ Producers' = Producers /\ StopsToEnd' = StopsToEnd
  BY <1>1, SameVersion
<1>4. p \notin Past
  BY <1>1 DEF Past
<1>5. /\ producedCount < last
      /\ producedCount > packageCount =>
           Cardinality(Past) = producedCount - packageCount
      /\ producedCount <= packageCount => Cardinality(Past) = 0
  BY <1>1, <1>2, <1>4, PastCount DEF ProducerInv
<1>6. \A o \in Producers : producer[o] # "produce_stop"
  BY <1>1, <1>2, <1>5 DEF ProducerInv
<1>7. CASE number <= packageCount
  <2>1. /\ producer'[p] = "produce" /\ myMessageNumber'[p] = number
        /\ \A o \in Producers \ {p} : /\ producer'[o] = producer[o]
                                      /\ myMessageNumber'[o] = myMessageNumber[o]
    BY <1>1, <1>2, <1>7
  <2>2. Past' = Past
    BY <1>3, <1>4, <2>1 DEF Past
  <2>3. TypeOK'
    <3>1. number \in Numbers /\ number \in 0 .. last
      BY <1>2, <1>5, <1>7 DEF Numbers
    <3>2. \A o \in Producers : producer'[o] = "produce" => myMessageNumber'[o] \in Numbers
      BY <1>1, <2>1, <3>1 DEF TypeOK
    <3>3. /\ producer' \in [Producers -> {"draw", "produce", "produce_stop", "done"}]
          /\ myMessageNumber' \in [Producers -> Nat]
      BY <1>1, <1>2
    <3> QED BY <1>1, <1>3, <3>1, <3>2, <3>3
            DEF TypeOK, dispatcherVars, assemblerVars, consumerVars
  <2>4. ProducerInv'
    <3>1. \A o \in Producers : producer[o] = "produce" =>
            /\ myMessageNumber[o] <= producedCount /\ myMessageNumber[o] # number
            /\ \A r \in Producers \ {o} :
                 producer[r] = "produce" => myMessageNumber[r] # myMessageNumber[o]
      BY <1>1, <1>2 DEF ProducerInv
    <3>2. \A o \in Producers : producer'[o] = "produce" =>
            /\ myMessageNumber'[o] <= producedCount'
            /\ \A r \in Producers \ {o} :
                 producer'[r] = "produce" => myMessageNumber'[r] # myMessageNumber'[o]
      BY <1>1, <1>2, <2>1, <3>1
    <3>3. Cardinality(Past') = IF producedCount' > packageCount
                                 THEN producedCount' - packageCount ELSE 0
      BY <1>1, <1>2, <1>5, <1>7, <2>2
    <3>4. \A o \in Producers : producer'[o] # "produce_stop"
      BY <1>6, <2>1
    <3> QED BY <1>3, <3>2, <3>3, <3>4 DEF ProducerInv
  <2>5. CountInv'
    BY <1>1, <1>3 DEF CountInv, dispatcherVars, assemblerVars, Dispatching
  <2> QED BY <2>3, <2>4, <2>5 DEF Base
<1>8. CASE number > packageCount
  <2>1. /\ producer'[p] = IF number = last THEN "produce_stop" ELSE "done"
        /\ \A o \in Producers \ {p} : /\ producer'[o] = producer[o]
                                      /\ myMessageNumber'[o] = myMessageNumber[o]
    BY <1>1, <1>2, <1>8
  <2>2. Past' = Past \cup {p}
    BY <1>3, <2>1 DEF Past
  <2>3. Cardinality(Past') = number - packageCount
    <3>1. Cardinality(Past \cup {p}) = Cardinality(Past) + 1
      BY <1>4, PastCount, FS_AddElement
    <3> QED BY <1>2, <1>5, <1>8, <2>2, <3>1
  <2>4. TypeOK'
    <3>1. number \in 0 .. last
      BY <1>2, <1>5
    <3>2. \A o \in Producers : producer'[o] = "produce" => myMessageNumber'[o] \in Numbers
      BY <1>1, <2>1 DEF TypeOK
    <3>3. /\ producer' \in [Producers -> {"draw", "produce", "produce_stop", "done"}]
          /\ myMessageNumber' \in [Producers -> Nat]
      BY <1>1, <1>2
    <3> QED BY <1>1, <1>3, <3>1, <3>2, <3>3
            DEF TypeOK, dispatcherVars, assemblerVars, consumerVars
  <2>5. ProducerInv'
    <3>1. \A o \in Producers : producer'[o] = "produce" =>
            /\ myMessageNumber'[o] <= producedCount'
            /\ \A r \in Producers \ {o} :
                 producer'[r] = "produce" => myMessageNumber'[r] # myMessageNumber'[o]
      <4>1. \A o \in Producers : producer'[o] = "produce" => o # p
        BY <2>1
      <4>2. \A o \in Producers : producer[o] = "produce" =>
              myMessageNumber[o] <= producedCount + 1
        BY <1>1, <1>2 DEF ProducerInv
      <4> QED BY <1>1, <2>1, <4>1, <4>2 DEF ProducerInv
    <3>2. Cardinality(Past') = IF producedCount' > packageCount
                                 THEN producedCount' - packageCount ELSE 0
      BY <1>1, <1>2, <1>8, <2>3
    <3>3. ASSUME NEW o \in Producers, producer'[o] = "produce_stop"
          PROVE  /\ producedCount' = last
                 /\ \A r \in Producers \ {o} : producer'[r] = "done"
      <4>1. o = p /\ number = last
        BY <1>6, <2>1, <3>3
      <4>2. Past' = Producers
        <5>1. Cardinality(Past') = Cardinality(Producers)
          BY <1>2, <2>3, <4>1
        <5>2. PICK past, team : past = Past' /\ team = Producers
          OBVIOUS
        <5>3. past \in SUBSET team /\ IsFiniteSet(team)
          BY <2>2, <5>2, Team DEF Past
        <5> QED BY <5>1, <5>2, <5>3, FS_Subset
      <4>3. \A r \in Producers \ {p} : producer[r] = "done"
        BY <1>6, <2>2, <4>2 DEF Past
      <4> QED BY <1>1, <2>1, <4>1, <4>3
    <3> QED BY <1>3, <3>1, <3>2, <3>3 DEF ProducerInv
  <2>6. CountInv'
    BY <1>1, <1>3 DEF CountInv, dispatcherVars, assemblerVars, Dispatching
  <2> QED BY <2>4, <2>5, <2>6 DEF Base
<1> QED BY <1>2, <1>7, <1>8

\* The packet a producer makes is one for a queue of the dispatcher.
LEMMA PacketMade ==
  ASSUME TypeOK, NEW p \in Producers, Produce(p)
  PROVE  \E packet \in Packets :
           /\ packet.messageNumber = myMessageNumber[p] /\ packet.target \in toQueues
           /\ Enqueue(ProducingQueue, packet)
<1>1. PICK target \in toQueues :
        Enqueue(ProducingQueue, [target |-> target, messageNumber |-> myMessageNumber[p]])
  BY DEF Produce
<1>2. [target |-> target, messageNumber |-> myMessageNumber[p]] \in Packets
  BY Connections DEF Produce, TypeOK, Packets
<1> QED BY <1>1, <1>2

LEMMA ProduceBase ==
  ASSUME Base, NEW p \in Producers, Produce(p) \/ ProduceStop(p)
  PROVE  Base'
<1>1. /\ TypeOK /\ ProducerInv /\ CountInv
      /\ producer[p] \in {"produce", "produce_stop"}
      /\ producer' = [producer EXCEPT ![p] = IF @ = "produce" THEN "draw" ELSE "done"]
      /\ UNCHANGED <<version, producedCount, myMessageNumber>>
      /\ UNCHANGED <<dispatcherVars, assemblerVars, consumerVars>>
  BY DEF Base, Produce, ProduceStop
<1>2. /\ Looped' = Looped /\ ProducingQueue' = ProducingQueue
      /\ toQueues' = toQueues /\ Producers' = Producers /\ StopsToEnd' = StopsToEnd
  BY <1>1, SameVersion
<1>3. queue \in [Queues -> Seq(QueueMessages)] /\ ProducingQueue \in Queues
      /\ Stop \in QueueMessages /\ Packets \subseteq QueueMessages
  BY <1>1, Connections DEF TypeOK, QueueMessages
<1>4. queue' \in [Queues -> Seq(QueueMessages)]
  <2>1. CASE Produce(p)
    BY <1>1, <1>3, <2>1, PacketMade, Enqueued
  <2>2. CASE ProduceStop(p)
    BY <1>3, <2>2, Enqueued DEF ProduceStop
  <2> QED BY <2>1, <2>2
<1>5. /\ producer' \in [Producers -> {"draw", "produce", "produce_stop", "done"}]
      /\ producer'[p] = IF producer[p] = "produce" THEN "draw" ELSE "done"
      /\ \A o \in Producers \ {p} : producer'[o] = producer[o]
  BY <1>1 DEF TypeOK
<1>6. Past' = Past
  BY <1>1, <1>2, <1>5 DEF Past
<1>7. TypeOK'
  <2>1. \A o \in Producers : producer'[o] = "produce" => producer[o] = "produce"
    BY <1>1, <1>5
  <2> QED BY <1>1, <1>2, <1>4, <1>5, <2>1
          DEF TypeOK, QueueMessages, dispatcherVars, assemblerVars, consumerVars
<1>8. ProducerInv'
  <2>1. \A o \in Producers : /\ producer'[o] = "produce" => producer[o] = "produce"
                             /\ producer'[o] = "produce_stop" => producer[o] = "produce_stop"
                             /\ producer[o] = "done" => producer'[o] = "done"
    BY <1>1, <1>5
  <2> QED BY <1>1, <1>2, <1>6, <2>1 DEF ProducerInv
<1>9. CountInv'
  BY <1>1, <1>2 DEF CountInv, dispatcherVars, assemblerVars, Dispatching
<1> QED BY <1>7, <1>8, <1>9 DEF Base

\* The other threads leave the producers alone.
LEMMA ProducersKept ==
  ASSUME ProducerInv, UNCHANGED <<version, producerVars>>
  PROVE  ProducerInv' /\ Past' = Past /\ (Sent' <=> Sent)
<1>1. Producers' = Producers
  BY SameVersion
<1> QED BY <1>1 DEF ProducerInv, producerVars, Past, Sent

LEMMA DispatcherBase ==
  ASSUME Base, DispatcherStep
  PROVE  Base'
<1>1. /\ TypeOK /\ ProducerInv /\ CountInv
      /\ UNCHANGED <<version, producerVars, assemblerVars, consumerVars>>
  BY DEF Base, DispatcherStep, DispatcherDequeue, Redirect, Forward, Propagate
<1>2. /\ Looped' = Looped /\ ProducingQueue' = ProducingQueue
      /\ toQueues' = toQueues /\ Producers' = Producers /\ StopsToEnd' = StopsToEnd
  BY <1>1, SameVersion
<1>3. ProducerInv'
  BY <1>1, ProducersKept
<1>4. /\ queue \in [Queues -> Seq(QueueMessages)]
      /\ Stop \in QueueMessages /\ Packets \subseteq QueueMessages
      /\ dispatcher_stops \in 0 .. StopsToEnd /\ propagated \in {0} \cup toQueues
      /\ StopsToEnd \in {1, 2} /\ (StopsToEnd = 2 <=> version = "packet_loss_fix")
  BY <1>1, Team DEF TypeOK, QueueMessages
<1> USE DEF Dispatching, dispatcherVars, assemblerVars, producerVars, consumerVars
<1>5. CASE DispatcherDequeue
  <2>1. PICK message : message = dispatched' /\ Dequeue(DispatcherQueue, message)
    BY <1>5 DEF DispatcherDequeue
  <2>2. queue' \in [Queues -> Seq(QueueMessages)] /\ message \in QueueMessages
    BY <1>4, <2>1, Connections, Dequeued
  <2>3. /\ dispatcher = "consume" /\ propagated' = propagated
        /\ dispatcher' \in {"redirect", "forward", "propagate"}
        /\ dispatcher' = "redirect" => message # Stop /\ dispatcher_stops' = dispatcher_stops
        /\ dispatcher' # "redirect" => dispatcher_stops' = dispatcher_stops + 1
        /\ dispatcher' = "forward" => version = "packet_loss_fix"
    BY <1>5, <2>1 DEF DispatcherDequeue
  <2>4. dispatcher_stops' \in 0 .. StopsToEnd
    BY <1>1, <1>4, <2>3 DEF CountInv
  <2>5. TypeOK'
    BY <1>1, <1>2, <2>1, <2>2, <2>3, <2>4 DEF TypeOK, QueueMessages
  <2>6. CountInv'
    BY <1>1, <1>2, <2>3 DEF CountInv
  <2> QED BY <1>3, <2>5, <2>6 DEF Base
<1>6. CASE Redirect
  <2>1. /\ dispatcher = "redirect" /\ dispatcher' = "consume" /\ dispatcher_stops' = 0
        /\ dispatched' = dispatched /\ propagated' = propagated
        /\ Enqueue(dispatched.target, dispatched)
    BY <1>6 DEF Redirect
  <2>2. PICK packet \in Packets : packet = dispatched
    BY <1>1, <2>1 DEF TypeOK
  <2>3. packet.target \in Queues
    BY <2>2, StopIsNoPacket, NetworkAssumption DEF Queues
  <2>4. queue' \in [Queues -> Seq(QueueMessages)]
    BY <1>4, <2>1, <2>2, <2>3, Enqueued
  <2>5. TypeOK'
    BY <1>1, <1>2, <1>4, <2>1, <2>4 DEF TypeOK, QueueMessages
  <2>6. CountInv'
    BY <1>1, <1>2, <1>4, <2>1 DEF CountInv
  <2> QED BY <1>3, <2>5, <2>6 DEF Base
<1>7. CASE Forward
  <2>1. /\ dispatcher = "forward" /\ dispatcher_stops' = dispatcher_stops
        /\ dispatcher' = IF dispatcher_stops < StopsToEnd THEN "consume" ELSE "propagate"
        /\ dispatched' = dispatched /\ propagated' = propagated
        /\ Enqueue(AssemblerQueue, Stop)
    BY <1>7 DEF Forward
  <2>2. queue' \in [Queues -> Seq(QueueMessages)]
    BY <1>4, <2>1, Connections, Enqueued
  <2>3. TypeOK'
    BY <1>1, <1>2, <1>4, <2>1, <2>2 DEF TypeOK, QueueMessages
  <2>4. CountInv'
    BY <1>1, <1>2, <1>4, <2>1 DEF CountInv
  <2> QED BY <1>3, <2>3, <2>4 DEF Base
<1>8. CASE Propagate
  <2>1. /\ dispatcher = "propagate" /\ dispatcher' \in {"propagate", "done"}
        /\ dispatcher_stops' = dispatcher_stops /\ dispatched' = dispatched
        /\ \/ /\ propagated + 1 \in toQueues /\ propagated' = propagated + 1
              /\ Enqueue(propagated + 1, Stop)
           \/ UNCHANGED <<queue, propagated>>
    BY <1>8 DEF Propagate
  <2>2. queue' \in [Queues -> Seq(QueueMessages)] /\ propagated' \in {0} \cup toQueues
    <3>1. CASE UNCHANGED <<queue, propagated>>
      BY <1>4, <3>1
    <3>2. CASE propagated + 1 \in toQueues /\ propagated' = propagated + 1
               /\ Enqueue(propagated + 1, Stop)
      <4>1. PICK q \in Queues : q = propagated + 1
        BY <3>2, Connections
      <4> QED BY <1>4, <3>2, <4>1, Enqueued
    <3> QED BY <2>1, <3>1, <3>2
  <2>3. TypeOK'
    BY <1>1, <1>2, <2>1, <2>2 DEF TypeOK, QueueMessages
  <2>4. CountInv'
    BY <1>1, <1>2, <2>1 DEF CountInv
  <2> QED BY <1>3, <2>3, <2>4 DEF Base
<1> QED BY <1>5, <1>6, <1>7, <1>8 DEF DispatcherStep

LEMMA AssemblerBase ==
  ASSUME Base, AssemblerStep
  PROVE  Base'
<1>1. /\ TypeOK /\ ProducerInv /\ CountInv
      /\ UNCHANGED <<version, producerVars, dispatcherVars, consumerVars>>
  BY DEF Base, AssemblerStep, AssemblerDequeue, LosePacket, PassPacket, Answer
<1>2. /\ Looped' = Looped /\ ProducingQueue' = ProducingQueue
      /\ toQueues' = toQueues /\ Producers' = Producers /\ StopsToEnd' = StopsToEnd
  BY <1>1, SameVersion
<1>3. ProducerInv'
  BY <1>1, ProducersKept
<1>4. /\ queue \in [Queues -> Seq(QueueMessages)]
      /\ Stop \in QueueMessages /\ Packets \subseteq QueueMessages
      /\ assembler_stops \in 0 .. StopsToEnd
      /\ StopsToEnd \in {1, 2} /\ (StopsToEnd = 2 <=> version = "packet_loss_fix")
  BY <1>1, Team DEF TypeOK, QueueMessages
<1> USE DEF Dispatching, dispatcherVars, assemblerVars, producerVars, consumerVars
<1>5. CASE AssemblerDequeue
  <2>1. PICK message : message = assembled' /\ Dequeue(AssemblerQueue, message)
    BY <1>5 DEF AssemblerDequeue
  <2>2. queue' \in [Queues -> Seq(QueueMessages)] /\ message \in QueueMessages
    BY <1>4, <2>1, Connections, Dequeued
  <2>3. /\ assembler = "consume" /\ lostMessages' = lostMessages
        /\ assembler' \in {"assemble", "answer", "done"}
        /\ assembler' = "assemble" => message # Stop /\ assembler_stops' = 0
        /\ assembler' # "assemble" => assembler_stops' = assembler_stops + 1
        /\ assembler' = "answer" => version # "packet_loss"
    BY <1>5, <2>1 DEF AssemblerDequeue
  <2>4. assembler_stops' \in 0 .. StopsToEnd
    BY <1>1, <1>4, <2>3 DEF CountInv
  <2>5. TypeOK'
    BY <1>1, <1>2, <2>1, <2>2, <2>3, <2>4 DEF TypeOK, QueueMessages
  <2>6. assembler' # "assemble" => assembler_stops' >= 1
    BY <1>4, <2>3
  <2>7. CountInv'
    BY <1>1, <1>2, <2>3, <2>6 DEF CountInv
  <2> QED BY <1>3, <2>5, <2>7 DEF Base
<1>6. CASE LosePacket
  <2>1. /\ assembler = "assemble" /\ assembler' = "consume"
        /\ lostMessages' = lostMessages \cup {assembled}
        /\ UNCHANGED <<queue, assembler_stops, assembled>>
    BY <1>6 DEF LosePacket
  <2>2. TypeOK'
    BY <1>1, <1>2, <2>1 DEF TypeOK
  <2>3. CountInv'
    BY <1>1, <1>2, <1>4, <2>1 DEF CountInv
  <2> QED BY <1>3, <2>2, <2>3 DEF Base
<1>7. CASE PassPacket
  <2>1. /\ assembler = "assemble" /\ assembler' = "consume"
        /\ UNCHANGED <<lostMessages, assembler_stops, assembled>>
    BY <1>7 DEF PassPacket
  <2>2. PICK packet \in Packets : packet = assembled
    BY <1>1, <2>1 DEF TypeOK
  <2>3. PICK target \in IF Looped THEN Consumers ELSE {packet.target} :
          Enqueue(DispatcherQueue, [packet EXCEPT !.target = target])
    BY <1>7, <2>2 DEF PassPacket
  <2>4. target \in 1 .. consumerCount + 1
    BY <2>2, <2>3, StopIsNoPacket, NetworkAssumption DEF Consumers
  <2>5. [packet EXCEPT !.target = target] \in Packets
    BY <2>2, <2>4 DEF Packets
  <2>6. queue' \in [Queues -> Seq(QueueMessages)]
    BY <1>4, <2>3, <2>5, Connections, Enqueued
  <2>7. TypeOK'
    BY <1>1, <1>2, <2>1, <2>6 DEF TypeOK, QueueMessages
  <2>8. CountInv'
    BY <1>1, <1>2, <1>4, <2>1 DEF CountInv
  <2> QED BY <1>3, <2>7, <2>8 DEF Base
<1>8. CASE Answer
  <2>1. /\ assembler = "answer" /\ Enqueue(DispatcherQueue, Stop)
        /\ assembler' = IF assembler_stops < StopsToEnd THEN "consume" ELSE "done"
        /\ UNCHANGED <<lostMessages, assembler_stops, assembled>>
    BY <1>8 DEF Answer
  <2>2. queue' \in [Queues -> Seq(QueueMessages)]
    BY <1>4, <2>1, Connections, Enqueued
  <2>3. TypeOK'
    BY <1>1, <1>2, <2>1, <2>2 DEF TypeOK, QueueMessages
  <2>4. CountInv'
    BY <1>1, <1>2, <2>1 DEF CountInv
  <2> QED BY <1>3, <2>3, <2>4 DEF Base
<1> QED BY <1>5, <1>6, <1>7, <1>8 DEF AssemblerStep

LEMMA ConsumerBase ==
  ASSUME Base, NEW c \in Consumers, ConsumerStep(c)
  PROVE  Base'
<1>1. /\ TypeOK /\ ProducerInv /\ CountInv
      /\ UNCHANGED <<version, producerVars, dispatcherVars, assemblerVars>>
  BY DEF Base, ConsumerStep
<1>2. /\ Looped' = Looped /\ ProducingQueue' = ProducingQueue
      /\ toQueues' = toQueues /\ Producers' = Producers /\ StopsToEnd' = StopsToEnd
  BY <1>1, SameVersion
<1>3. ProducerInv'
  BY <1>1, ProducersKept
<1>4. PICK message :
        /\ Dequeue(c, message)
        /\ IF message = Stop
             THEN /\ consumer' = [consumer EXCEPT ![c] = "done"]
                  /\ UNCHANGED receivedMessages
             ELSE /\ receivedMessages' =
                       [receivedMessages EXCEPT ![c] = @ \cup {message}]
                  /\ UNCHANGED consumer
  BY DEF ConsumerStep
<1>5. /\ queue' \in [Queues -> Seq(Packets \cup {Stop})]
      /\ message \in Packets \cup {Stop} /\ c \in Queues
  BY <1>1, <1>4, Connections, Dequeued DEF TypeOK, QueueMessages
<1>6. /\ consumer' \in [Consumers -> {"consume", "done"}]
      /\ receivedMessages' \in [Consumers -> SUBSET Packets]
  <2>1. /\ consumer \in [Consumers -> {"consume", "done"}]
        /\ receivedMessages \in [Consumers -> SUBSET Packets]
    BY <1>1 DEF TypeOK
  <2>2. CASE message = Stop
    BY <1>4, <2>1, <2>2
  <2>3. CASE message # Stop
    BY <1>4, <1>5, <2>1, <2>3
  <2> QED BY <2>2, <2>3
<1>7. TypeOK'
  <2>1. /\ version' = version /\ producer' = producer
        /\ producedCount' = producedCount /\ myMessageNumber' = myMessageNumber
        /\ dispatcher' = dispatcher /\ dispatcher_stops' = dispatcher_stops
        /\ dispatched' = dispatched /\ propagated' = propagated
        /\ assembler' = assembler /\ assembler_stops' = assembler_stops
        /\ assembled' = assembled /\ lostMessages' = lostMessages
    BY <1>1 DEF producerVars, dispatcherVars, assemblerVars
  <2> QED BY <1>1, <1>2, <1>5, <1>6, <2>1 DEF TypeOK
<1>8. CountInv'
  BY <1>1, <1>2 DEF CountInv, dispatcherVars, assemblerVars, Dispatching
<1> QED BY <1>3, <1>7, <1>8 DEF Base

LEMMA BaseStep == Base /\ [Next]_vars => Base'
<1> SUFFICES ASSUME Base, [Next]_vars PROVE Base'
  OBVIOUS
<1>1. ASSUME NEW p \in Producers, ProducerStep(p) PROVE Base'
  BY <1>1, DrawBase, ProduceBase DEF ProducerStep
<1>2. CASE DispatcherStep
  BY <1>2, DispatcherBase
<1>3. CASE AssemblerStep
  BY <1>3, AssemblerBase
<1>4. ASSUME NEW c \in Consumers, ConsumerStep(c) PROVE Base'
  BY <1>4, ConsumerBase
<1>5. CASE UNCHANGED vars
  <2> USE <1>5 DEF vars
  <2>1. /\ Looped' = Looped /\ ProducingQueue' = ProducingQueue
        /\ toQueues' = toQueues /\ Producers' = Producers /\ StopsToEnd' = StopsToEnd
    BY SameVersion
  <2>2. ProducerInv'
    BY ProducersKept DEF Base
  <2>3. TypeOK' /\ CountInv'
    BY <2>1 DEF Base, TypeOK, CountInv, Dispatching, producerVars, dispatcherVars,
                assemblerVars, consumerVars
  <2> QED BY <2>2, <2>3 DEF Base
<1> QED BY <1>1, <1>2, <1>3, <1>4, <1>5 DEF Next, Finished

-----------------------------------------------------------------------------
(* The place of a packet *)

\* A packet that was produced has one place, one that was not has none.
Located(number) ==
  IF Produced(number)
    THEN \E q \in Queues, i \in Nat : \A r \in Queues, j \in Nat :
           Placed(number, r, j) <=> r = q /\ j = i
    ELSE \A r \in Queues, j \in Nat : ~ Placed(number, r, j)

HandInv ==
  assembler = "assemble" =>
    \A message \in lostMessages : message.messageNumber # assembled.messageNumber

LEMMA PlaceInvLocated ==
  PlaceInv <=> HandInv /\ \A number \in Numbers : Located(number)
<1>1. ASSUME NEW number \in Numbers
      PROVE  Located(number) <=>
               /\ Produced(number) <=> \E q \in Queues, i \in Nat : Placed(number, q, i)
               /\ \A q, r \in Queues, i, j \in Nat :
                    Placed(number, q, i) /\ Placed(number, r, j) => q = r /\ i = j
  BY DEF Located
<1> QED BY <1>1 DEF PlaceInv, HandInv

\* What each thread holds.
LEMMA Holding ==
  \A number :
    /\ Holds(number, DispatcherQueue) <=>
         dispatcher = "redirect" /\ dispatched.messageNumber = number
    /\ Holds(number, AssemblerQueue) <=>
         \/ assembler = "assemble" /\ assembled.messageNumber = number
         \/ \E message \in lostMessages : message.messageNumber = number
    /\ \A c \in Consumers : Holds(number, c) <=>
         \E message \in receivedMessages[c] : message.messageNumber = number
<1>1. /\ Kept(DispatcherQueue) = IF dispatcher = "redirect" THEN {dispatched} ELSE {}
      /\ Kept(AssemblerQueue) =
           (IF assembler = "assemble" THEN {assembled} ELSE {}) \cup lostMessages
      /\ \A c \in Consumers : Kept(c) = receivedMessages[c]
  BY Connections DEF Kept, InHand
<1> QED BY <1>1 DEF Holds

LEMMA HoldingNext ==
  (\A number :
    /\ Holds(number, DispatcherQueue) <=>
         dispatcher = "redirect" /\ dispatched.messageNumber = number
    /\ Holds(number, AssemblerQueue) <=>
         \/ assembler = "assemble" /\ assembled.messageNumber = number
         \/ \E message \in lostMessages : message.messageNumber = number
    /\ \A c \in Consumers : Holds(number, c) <=>
         \E message \in receivedMessages[c] : message.messageNumber = number)'
  BY Holding, PTL

\* A packet stays where it is, comes to a place, or stays in none.
LEMMA LocatedKept ==
  ASSUME NEW number, Produced(number)' <=> Produced(number),
         \A r \in Queues, j \in Nat : Placed(number, r, j)' <=> Placed(number, r, j),
         Located(number)
  PROVE  Located(number)'
BY DEF Located

LEMMA LocatedAt ==
  ASSUME NEW number, Produced(number)', NEW q \in Queues, NEW i \in Nat,
         \A r \in Queues, j \in Nat : Placed(number, r, j)' <=> r = q /\ j = i
  PROVE  Located(number)'
BY DEF Located

LEMMA LocatedNowhere ==
  ASSUME NEW number, ~ Produced(number)',
         \A r \in Queues, j \in Nat : ~ Placed(number, r, j)'
  PROVE  Located(number)'
BY DEF Located

\* A step that moves no message and creates none keeps every place.
LEMMA PlaceKept ==
  ASSUME NEW number, UNCHANGED queue, Produced(number)' <=> Produced(number),
         \A q \in Queues : Holds(number, q)' <=> Holds(number, q), Located(number)
  PROVE  Located(number)'
<1>1. \A r \in Queues, j \in Nat : Placed(number, r, j)' <=> Placed(number, r, j)
  BY DEF Placed, Waits
<1> QED BY <1>1, LocatedKept

\* A message that is enqueued moves no packet of another number.
LEMMA PlaceBesideEnqueue ==
  ASSUME queue \in [Queues -> Seq(QueueMessages)],
         NEW t \in Queues, NEW message \in QueueMessages, Enqueue(t, message),
         NEW number, message.messageNumber # number,
         Produced(number)' <=> Produced(number),
         \A q \in Queues : Holds(number, q)' <=> Holds(number, q), Located(number)
  PROVE  Located(number)'
<1>1. ASSUME NEW r \in Queues, NEW j \in Nat
      PROVE  Waits(number, r, j)' <=> Waits(number, r, j)
  <2>1. CASE r = t
    <3>1. /\ Len(queue[r]) \in Nat /\ Len(queue'[r]) = Len(queue[r]) + 1
          /\ queue'[r][Len(queue[r]) + 1] = message
          /\ \A i \in 1 .. Len(queue[r]) : queue'[r][i] = queue[r][i]
      BY <2>1, Enqueued
    <3> QED BY <3>1 DEF Waits
  <2>2. CASE r # t
    <3>1. queue'[r] = queue[r]
      BY <2>2, Enqueued
    <3> QED BY <3>1 DEF Waits
  <2> QED BY <2>1, <2>2
<1>2. \A r \in Queues, j \in Nat : Placed(number, r, j)' <=> Placed(number, r, j)
  BY <1>1 DEF Placed
<1> QED BY <1>2, LocatedKept

\* A packet that nobody holds any more and that was in no queue is at the end of
\* the queue it is put in.
LEMMA PlaceOfEnqueued ==
  ASSUME queue \in [Queues -> Seq(QueueMessages)],
         NEW t \in Queues, NEW message \in QueueMessages, Enqueue(t, message),
         NEW number, message.messageNumber = number, Produced(number)',
         \A q \in Queues : ~ Holds(number, q)',
         \A q \in Queues, i \in Nat : ~ Waits(number, q, i)
  PROVE  Located(number)'
<1>1. PICK length \in Nat : length = Len(queue[t])
  BY Enqueued
<1>2. ASSUME NEW r \in Queues, NEW j \in Nat
      PROVE  Waits(number, r, j)' <=> r = t /\ j = length + 1
  <2>1. CASE r = t
    <3>1. /\ Len(queue'[r]) = length + 1 /\ queue'[r][length + 1] = message
          /\ \A i \in 1 .. length : queue'[r][i] = queue[r][i]
      BY <1>1, <2>1, Enqueued
    <3>2. \A i \in 1 .. length : i \in Nat /\ queue[r][i].messageNumber # number
      BY <1>1, <2>1 DEF Waits
    <3> QED BY <2>1, <3>1, <3>2 DEF Waits
  <2>2. CASE r # t
    <3>1. queue'[r] = queue[r]
      BY <2>2, Enqueued
    <3> QED BY <2>2, <3>1 DEF Waits
  <2> QED BY <2>1, <2>2
<1>3. \A r \in Queues, j \in Nat : Placed(number, r, j)' <=> r = t /\ j = length + 1
  BY <1>2 DEF Placed
<1>4. t \in Queues /\ length + 1 \in Nat
  OBVIOUS
<1> QED BY <1>3, <1>4, LocatedAt

\* A thread that dequeues a packet holds it, and the packets behind it move up.
LEMMA PlaceAfterDequeue ==
  ASSUME queue \in [Queues -> Seq(QueueMessages)],
         NEW t \in Queues, NEW message, Dequeue(t, message),
         NEW number, Produced(number)' <=> Produced(number),
         \A q \in Queues \ {t} : Holds(number, q)' <=> Holds(number, q),
         Holds(number, t)' <=> Holds(number, t) \/ message.messageNumber = number,
         Located(number)
  PROVE  Located(number)'
<1>1. /\ Len(queue[t]) \in Nat /\ Len(queue[t]) >= 1 /\ queue[t][1] = message
      /\ Len(queue'[t]) = Len(queue[t]) - 1
      /\ \A i \in 1 .. Len(queue[t]) - 1 : queue'[t][i] = queue[t][i + 1]
      /\ \A r \in Queues \ {t} : queue'[r] = queue[r]
  BY Dequeued
<1>2. /\ Waits(number, t, 1) <=> message.messageNumber = number
      /\ ~ Waits(number, t, 0) /\ ~ Waits(number, t, 0)'
      /\ \A j \in Nat \ {0} : Waits(number, t, j)' <=> Waits(number, t, j + 1)
  BY <1>1 DEF Waits
<1>3. ASSUME NEW r \in Queues \ {t}, NEW j \in Nat
      PROVE  Placed(number, r, j)' <=> Placed(number, r, j)
  BY <1>1 DEF Waits, Placed
<1>4. /\ Placed(number, t, 0)' <=> Placed(number, t, 0) \/ Placed(number, t, 1)
      /\ \A j \in Nat \ {0} : Placed(number, t, j)' <=> Placed(number, t, j + 1)
  BY <1>2 DEF Placed
<1>5. CASE ~ Produced(number)
  <2>1. \A r \in Queues, j \in Nat : ~ Placed(number, r, j)
    BY <1>5 DEF Located
  <2>2. \A r \in Queues, j \in Nat : ~ Placed(number, r, j)'
    <3>1. \A r \in Queues \ {t}, j \in Nat : ~ Placed(number, r, j)'
      BY <1>3, <2>1
    <3>2. ~ Placed(number, t, 0)'
      BY <1>4, <2>1
    <3>3. \A j \in Nat \ {0} : j + 1 \in Nat
      OBVIOUS
    <3>4. \A j \in Nat \ {0} : ~ Placed(number, t, j)'
      BY <1>4, <2>1, <3>3
    <3> QED BY <3>1, <3>2, <3>4
  <2> QED BY <1>5, <2>2, LocatedNowhere
<1>6. CASE Produced(number)
  <2>1. PICK q \in Queues, i \in Nat : \A r \in Queues, j \in Nat :
          Placed(number, r, j) <=> r = q /\ j = i
    BY <1>6 DEF Located
  <2>2. PICK k \in Nat : k = IF q = t /\ i > 0 THEN i - 1 ELSE i
    OBVIOUS
  <2>3. \A r \in Queues, j \in Nat : Placed(number, r, j)' <=> r = q /\ j = k
    <3>1. \A r \in Queues \ {t}, j \in Nat : Placed(number, r, j)' <=> r = q /\ j = k
      BY <1>3, <2>1, <2>2
    <3>2. Placed(number, t, 0)' <=> t = q /\ 0 = k
      BY <1>4, <2>1, <2>2
    <3>3. \A j \in Nat \ {0} : Placed(number, t, j)' <=> t = q /\ j = k
      BY <1>4, <2>1, <2>2
    <3> QED BY <3>1, <3>2, <3>3
  <2>4. q \in Queues /\ k \in Nat /\ Produced(number)'
    BY <1>6, <2>2
  <2> QED BY <2>3, <2>4, LocatedAt
<1> QED BY <1>5, <1>6

LEMMA PlaceInvLocatedNext ==
  (PlaceInv <=> HandInv /\ \A number \in Numbers : Located(number))'
BY PlaceInvLocated, PTL

LEMMA ProducedKept ==
  ASSUME UNCHANGED <<version, producerVars>>, NEW number
  PROVE  Produced(number)' <=> Produced(number)
BY SameVersion DEF Produced, producerVars

\* A producer draws a number whose packet it has in the making.
LEMMA DrawPlace ==
  ASSUME Base, PlaceInv, NEW p \in Producers, Draw(p)
  PROVE  PlaceInv'
<1>1. /\ TypeOK /\ UNCHANGED <<version, queue, dispatcherVars, assemblerVars, consumerVars>>
      /\ producer[p] = "draw" /\ producedCount' = producedCount + 1
      /\ myMessageNumber' = [myMessageNumber EXCEPT ![p] = producedCount + 1]
      /\ producer' = [producer EXCEPT ![p] =
           IF producedCount + 1 <= packageCount THEN "produce"
           ELSE IF producedCount + 1 = packageCount + Cardinality(Producers)
             THEN "produce_stop" ELSE "done"]
  BY DEF Base, Draw
<1>2. /\ producer \in [Producers -> {"draw", "produce", "produce_stop", "done"}]
      /\ myMessageNumber \in [Producers -> Nat] /\ producedCount \in Nat
  BY <1>1, Team DEF TypeOK
<1>3. ASSUME NEW number \in Numbers
      PROVE  Produced(number)' <=> Produced(number)
  <2>1. number \in Nat /\ number <= packageCount /\ Producers' = Producers
    BY <1>1, SameVersion, NetworkAssumption DEF Numbers
  <2>2. \A o \in Producers \ {p} : producer'[o] = producer[o]
                                  /\ myMessageNumber'[o] = myMessageNumber[o]
    BY <1>1, <1>2
  <2>3. /\ myMessageNumber'[p] = producedCount + 1
        /\ producedCount + 1 <= packageCount => producer'[p] = "produce"
    BY <1>1, <1>2
  <2>4. CASE number <= producedCount
    <3>1. number <= producedCount + 1 /\ number # producedCount + 1
      BY <1>2, <2>1, <2>4
    <3> QED BY <1>1, <2>1, <2>2, <2>3, <2>4, <3>1 DEF Produced
  <2>5. CASE number = producedCount + 1
    <3>1. ~ (number <= producedCount) /\ producer'[p] = "produce"
      BY <1>2, <2>1, <2>3, <2>5
    <3> QED BY <2>1, <2>3, <2>5, <3>1 DEF Produced
  <2>6. CASE number > producedCount + 1
    <3>1. ~ (number <= producedCount) /\ ~ (number <= producedCount + 1)
      BY <1>2, <2>1, <2>6
    <3> QED BY <1>1, <3>1 DEF Produced
  <2> QED BY <1>2, <2>1, <2>4, <2>5, <2>6
<1>4. \A number, q : Holds(number, q)' <=> Holds(number, q)
  BY <1>1 DEF Holds, Kept, InHand, dispatcherVars, assemblerVars, consumerVars
<1>5. HandInv /\ \A number \in Numbers : Located(number)
  BY PlaceInvLocated
<1>6. \A number \in Numbers : Located(number)'
  BY <1>1, <1>3, <1>4, <1>5, PlaceKept
<1>7. HandInv'
  BY <1>1, <1>5 DEF HandInv, assemblerVars
<1> QED BY <1>6, <1>7, PlaceInvLocatedNext

\* The packet a producer made has the number it drew, and no other has it.
LEMMA ProducePlace ==
  ASSUME Base, PlaceInv, NEW p \in Producers, Produce(p)
  PROVE  PlaceInv'
<1>1. /\ TypeOK /\ ProducerInv /\ producer[p] = "produce"
      /\ producer' = [producer EXCEPT ![p] = "draw"]
      /\ UNCHANGED <<version, producedCount, myMessageNumber, dispatcherVars,
                     assemblerVars, consumerVars>>
  BY DEF Base, Produce
<1>3. PICK message \in QueueMessages :
        /\ Enqueue(ProducingQueue, message)
        /\ message.messageNumber = myMessageNumber[p]
  BY <1>1, PacketMade DEF QueueMessages
<1>4. /\ queue \in [Queues -> Seq(QueueMessages)] /\ ProducingQueue \in Queues
      /\ producer \in [Producers -> {"draw", "produce", "produce_stop", "done"}]
  BY <1>1, Connections DEF TypeOK, QueueMessages
<1>5. \A number, q : Holds(number, q)' <=> Holds(number, q)
  BY <1>1 DEF Holds, Kept, InHand, dispatcherVars, assemblerVars, consumerVars
<1>6. HandInv /\ \A number \in Numbers : Located(number)
  BY PlaceInvLocated
<1>7. /\ producer'[p] = "draw" /\ Producers' = Producers
      /\ \A o \in Producers \ {p} : producer'[o] = producer[o]
  BY <1>1, <1>4, SameVersion
<1>8. ASSUME NEW number \in Numbers PROVE Located(number)'
  <2>1. CASE number = myMessageNumber[p]
    <3>1. ~ Produced(number)
      BY <1>1, <2>1 DEF Produced
    <3>2. \A q \in Queues, i \in Nat : ~ Placed(number, q, i)
      BY <1>6, <3>1 DEF Located
    <3>3. \A q \in Queues : ~ Holds(number, q)
      BY <3>2 DEF Placed
    <3>4. \A q \in Queues, i \in Nat : ~ Waits(number, q, i)
      BY <3>2 DEF Placed
    <3>5. Produced(number)'
      BY <1>1, <1>7, <2>1 DEF Produced, ProducerInv
    <3> QED BY <1>3, <1>4, <1>5, <2>1, <3>3, <3>4, <3>5, PlaceOfEnqueued
  <2>2. CASE number # myMessageNumber[p]
    <3>1. Produced(number)' <=> Produced(number)
      BY <1>1, <1>7, <2>2 DEF Produced
    <3> QED BY <1>3, <1>4, <1>5, <1>6, <2>2, <3>1, PlaceBesideEnqueue
  <2> QED BY <2>1, <2>2
<1>9. HandInv'
  BY <1>1, <1>6 DEF HandInv, assemblerVars
<1> QED BY <1>8, <1>9, PlaceInvLocatedNext

\* A stop condition has the number of no packet.
LEMMA StopPlace ==
  ASSUME TypeOK, PlaceInv, NEW t \in Queues, Enqueue(t, Stop), HandInv',
         \A number \in Numbers : Produced(number)' <=> Produced(number),
         \A q \in Queues : \A number : Holds(number, q)' <=> Holds(number, q)
  PROVE  PlaceInv'
<1>1. queue \in [Queues -> Seq(QueueMessages)] /\ Stop \in QueueMessages
  BY DEF TypeOK, QueueMessages
<1>2. \A number \in Numbers : Located(number) /\ Stop.messageNumber # number
  BY PlaceInvLocated, StopIsNoPacket
<1>3. \A number \in Numbers : Located(number)'
  BY <1>1, <1>2, PlaceBesideEnqueue
<1> QED BY <1>3, PlaceInvLocatedNext

LEMMA ProduceStopPlace ==
  ASSUME Base, PlaceInv, NEW p \in Producers, ProduceStop(p)
  PROVE  PlaceInv'
<1>1. /\ TypeOK /\ producer[p] = "produce_stop" /\ Enqueue(ProducingQueue, Stop)
      /\ producer' = [producer EXCEPT ![p] = "done"]
      /\ UNCHANGED <<version, producedCount, myMessageNumber, dispatcherVars,
                     assemblerVars, consumerVars>>
  BY DEF Base, ProduceStop
<1>2. /\ ProducingQueue \in Queues /\ Producers' = Producers
      /\ producer \in [Producers -> {"draw", "produce", "produce_stop", "done"}]
  BY <1>1, Connections, SameVersion DEF TypeOK
<1>3. \A o \in Producers : producer'[o] = "produce" <=> producer[o] = "produce"
  BY <1>1, <1>2
<1>4. \A number \in Numbers : Produced(number)' <=> Produced(number)
  BY <1>1, <1>2, <1>3 DEF Produced
<1>5. \A q \in Queues : \A number : Holds(number, q)' <=> Holds(number, q)
  BY <1>1 DEF Holds, Kept, InHand, dispatcherVars, assemblerVars, consumerVars
<1>6. HandInv'
  BY <1>1, PlaceInvLocated DEF HandInv, assemblerVars
<1> QED BY <1>1, <1>2, <1>4, <1>5, <1>6, StopPlace

\* A packet in hand that is enqueued leaves the hands of the thread.
LEMMA HandedOn ==
  ASSUME TypeOK, PlaceInv, HandInv',
         NEW q \in Queues, NEW message \in Packets, NEW t \in Queues,
         NEW sent \in Packets, sent.messageNumber = message.messageNumber,
         Enqueue(t, sent), Holds(message.messageNumber, q),
         ~ Holds(message.messageNumber, q)',
         \A number : number # message.messageNumber =>
           (Holds(number, q)' <=> Holds(number, q)),
         \A r \in Queues \ {q} : \A number : Holds(number, r)' <=> Holds(number, r),
         \A number \in Numbers : Produced(number)' <=> Produced(number)
  PROVE  PlaceInv'
<1>1. /\ queue \in [Queues -> Seq(QueueMessages)] /\ sent \in QueueMessages
      /\ message.messageNumber \in Numbers
  BY StopIsNoPacket DEF TypeOK, QueueMessages
<1>2. \A number \in Numbers : Located(number)
  BY PlaceInvLocated
<1>3. ASSUME NEW number \in Numbers PROVE Located(number)'
  <2>1. CASE number = message.messageNumber
    <3>1. Placed(number, q, 0)
      BY <2>1 DEF Placed
    <3>2. Produced(number)
      BY <1>2, <3>1 DEF Located
    <3>3. \A r \in Queues, j \in Nat : Placed(number, r, j) => r = q /\ j = 0
      BY <1>2, <3>1, <3>2 DEF Located
    <3>4. \A r \in Queues \ {q} : ~ Holds(number, r)
      BY <3>3 DEF Placed
    <3>5. \A r \in Queues : ~ Holds(number, r)'
      BY <2>1, <3>4
    <3>6. \A r \in Queues, j \in Nat : ~ Waits(number, r, j)
      BY <3>3 DEF Placed, Waits
    <3>7. Produced(number)'
      BY <3>2
    <3> QED BY <1>1, <2>1, <3>5, <3>6, <3>7, PlaceOfEnqueued
  <2>2. CASE number # message.messageNumber
    <3>1. \A r \in Queues : Holds(number, r)' <=> Holds(number, r)
      BY <2>2
    <3> QED BY <1>1, <1>2, <2>2, <3>1, PlaceBesideEnqueue
  <2> QED BY <2>1, <2>2
<1> QED BY <1>3, PlaceInvLocatedNext

\* Each packet keeps its one place when the dispatcher or the assembler takes it
\* from its queue, hands it on, loses it, or sends a stop condition.
LEMMA DispatcherPlace ==
  ASSUME Base, PlaceInv, DispatcherStep
  PROVE  PlaceInv'
<1>1. /\ TypeOK /\ CountInv /\ queue \in [Queues -> Seq(QueueMessages)]
      /\ UNCHANGED <<version, producerVars, assemblerVars, consumerVars>>
  BY DEF Base, TypeOK, QueueMessages, DispatcherStep, DispatcherDequeue, Redirect,
         Forward, Propagate
<1>2. /\ \A number : Produced(number)' <=> Produced(number)
      /\ HandInv /\ \A number \in Numbers : Located(number)
  BY <1>1, ProducedKept, PlaceInvLocated
<1>3. HandInv'
  BY <1>1, <1>2 DEF HandInv, assemblerVars
<1>4. \A q \in Queues \ {DispatcherQueue} : \A number :
        Holds(number, q)' <=> Holds(number, q)
  BY <1>1 DEF Holds, Kept, assemblerVars, consumerVars
<1>5. CASE DispatcherDequeue
  <2>1. PICK message : /\ message = dispatched' /\ Dequeue(DispatcherQueue, message)
                       /\ dispatcher = "consume"
                       /\ message = Stop => dispatcher' \in {"forward", "propagate"}
                       /\ message # Stop => dispatcher' = "redirect"
    BY <1>5 DEF DispatcherDequeue
  <2>2. ASSUME NEW number \in Numbers PROVE Located(number)'
    <3>1. ~ Holds(number, DispatcherQueue)
      BY <2>1, Holding
    <3>2. Holds(number, DispatcherQueue)' <=> message.messageNumber = number
      BY <2>1, HoldingNext, StopIsNoPacket
    <3> QED BY <1>1, <1>2, <1>4, <2>1, <3>1, <3>2, Connections, PlaceAfterDequeue
  <2> QED BY <1>3, <2>2, PlaceInvLocatedNext
<1>6. CASE Redirect
  <2>1. /\ dispatcher = "redirect" /\ Enqueue(dispatched.target, dispatched)
        /\ dispatcher' = "consume"
    BY <1>6 DEF Redirect
  <2>2. PICK message \in Packets : message = dispatched
    BY <1>1, <2>1 DEF TypeOK
  <2>3. message.target \in Queues
    BY StopIsNoPacket DEF Queues
  <2>4. \A number : /\ Holds(number, DispatcherQueue) <=> message.messageNumber = number
                    /\ ~ Holds(number, DispatcherQueue)'
    BY <2>1, <2>2, Holding, HoldingNext
  <2> QED BY <1>1, <1>2, <1>3, <1>4, <2>1, <2>2, <2>3, <2>4, Connections, HandedOn
<1>7. CASE Forward \/ Propagate
  <2>1. /\ dispatcher \in {"forward", "propagate"}
        /\ dispatcher' \in {"consume", "propagate", "done"}
    BY <1>7 DEF Forward, Propagate
  <2>2. \A number : ~ Holds(number, DispatcherQueue) /\ ~ Holds(number, DispatcherQueue)'
    BY <2>1, Holding, HoldingNext
  <2>3. \A q \in Queues : \A number : Holds(number, q)' <=> Holds(number, q)
    BY <1>4, <2>2
  <2>4. CASE UNCHANGED queue
    <3>1. \A number \in Numbers : Located(number)'
      BY <1>2, <2>3, <2>4, PlaceKept
    <3> QED BY <1>3, <3>1, PlaceInvLocatedNext
  <2>5. CASE \E t \in Queues : Enqueue(t, Stop)
    BY <1>1, <1>2, <1>3, <2>3, <2>5, StopPlace
  <2>6. ASSUME NEW t \in Int, t = propagated + 1, t \in toQueues PROVE t \in Queues
    BY <2>6, Connections
  <2>7. UNCHANGED queue \/ \E t \in Queues : Enqueue(t, Stop)
    <3>1. CASE Forward
      BY <3>1, Connections DEF Forward
    <3>2. CASE Propagate
      BY <3>2, Connections DEF Propagate
    <3> QED BY <1>7, <3>1, <3>2
  <2> QED BY <2>4, <2>5, <2>7
<1> QED BY <1>5, <1>6, <1>7 DEF DispatcherStep

LEMMA AssemblerPlace ==
  ASSUME Base, PlaceInv, AssemblerStep
  PROVE  PlaceInv'
<1>1. /\ TypeOK /\ queue \in [Queues -> Seq(QueueMessages)]
      /\ UNCHANGED <<version, producerVars, dispatcherVars, consumerVars>>
  BY DEF Base, TypeOK, QueueMessages, AssemblerStep, AssemblerDequeue, LosePacket,
         PassPacket, Answer
<1>2. /\ \A number : Produced(number)' <=> Produced(number)
      /\ HandInv /\ \A number \in Numbers : Located(number)
  BY <1>1, ProducedKept, PlaceInvLocated
<1>3. \A q \in Queues \ {AssemblerQueue} : \A number :
        Holds(number, q)' <=> Holds(number, q)
  BY <1>1 DEF Holds, Kept, dispatcherVars, consumerVars
<1>4. CASE AssemblerDequeue
  <2>1. PICK message : /\ message = assembled' /\ Dequeue(AssemblerQueue, message)
                       /\ assembler = "consume" /\ UNCHANGED lostMessages
                       /\ message = Stop => assembler' \in {"done", "answer"}
                       /\ message # Stop => assembler' = "assemble"
    BY <1>4 DEF AssemblerDequeue
  <2>2. ASSUME NEW number \in Numbers PROVE Located(number)'
    <3>1. Holds(number, AssemblerQueue) <=>
            \E lost \in lostMessages : lost.messageNumber = number
      BY <2>1, Holding
    <3>2. Holds(number, AssemblerQueue)' <=>
            \/ message.messageNumber = number
            \/ \E lost \in lostMessages : lost.messageNumber = number
      BY <2>1, HoldingNext, StopIsNoPacket
    <3> QED BY <1>1, <1>2, <1>3, <2>1, <3>1, <3>2, Connections, PlaceAfterDequeue
  <2>3. HandInv'
    <3> SUFFICES ASSUME assembler' = "assemble", NEW lost \in lostMessages,
                        lost.messageNumber = message.messageNumber
                 PROVE  FALSE
      BY <2>1 DEF HandInv
    <3>1. /\ Len(queue[AssemblerQueue]) \in Nat /\ Len(queue[AssemblerQueue]) >= 1
          /\ queue[AssemblerQueue][1] = message
      BY <1>1, <2>1, Connections, Dequeued
    <3>2. lost.messageNumber \in Numbers
      BY <1>1, StopIsNoPacket DEF TypeOK
    <3>3. Holds(lost.messageNumber, AssemblerQueue)
      BY Holding
    <3>4. Waits(lost.messageNumber, AssemblerQueue, 1)
      BY <3>1 DEF Waits
    <3>5. /\ Placed(lost.messageNumber, AssemblerQueue, 0)
          /\ Placed(lost.messageNumber, AssemblerQueue, 1)
      BY <3>3, <3>4 DEF Placed
    <3>6. 0 \in Nat /\ 1 \in Nat /\ 0 # 1
      OBVIOUS
    <3> QED BY <3>2, <3>5, <3>6, Connections DEF PlaceInv
  <2> QED BY <2>2, <2>3, PlaceInvLocatedNext
<1>5. CASE LosePacket
  <2>1. /\ assembler = "assemble" /\ lostMessages' = lostMessages \cup {assembled}
        /\ assembler' = "consume" /\ UNCHANGED <<queue, assembled>>
    BY <1>5 DEF LosePacket
  <2>2. \A number : Holds(number, AssemblerQueue)' <=> Holds(number, AssemblerQueue)
    BY <2>1, Holding, HoldingNext
  <2>3. \A q \in Queues : \A number : Holds(number, q)' <=> Holds(number, q)
    BY <1>3, <2>2
  <2>4. \A number \in Numbers : Located(number)'
    BY <1>2, <2>1, <2>3, PlaceKept
  <2>5. HandInv'
    BY <2>1 DEF HandInv
  <2> QED BY <2>4, <2>5, PlaceInvLocatedNext
<1>6. CASE PassPacket
  <2>1. /\ assembler = "assemble" /\ assembler' = "consume"
        /\ UNCHANGED <<assembled, lostMessages>>
    BY <1>6 DEF PassPacket
  <2>2. PICK message \in Packets : message = assembled
    BY <1>1, <2>1 DEF TypeOK
  <2>3. PICK sent \in Packets : /\ Enqueue(DispatcherQueue, sent)
                                /\ sent.messageNumber = message.messageNumber
    <3>1. PICK target \in IF Looped THEN Consumers ELSE {message.target} :
            Enqueue(DispatcherQueue, [message EXCEPT !.target = target])
      BY <1>6, <2>2 DEF PassPacket
    <3>2. target \in 1 .. consumerCount + 1
      BY Connections, StopIsNoPacket DEF Consumers
    <3>3. /\ [message EXCEPT !.target = target] \in Packets
          /\ [message EXCEPT !.target = target].messageNumber = message.messageNumber
      BY <3>2 DEF Packets
    <3> QED BY <3>1, <3>3
  <2>4. Holds(message.messageNumber, AssemblerQueue)
    BY <2>1, <2>2, Holding
  <2>5. \A number : Holds(number, AssemblerQueue)' <=>
                      \E lost \in lostMessages : lost.messageNumber = number
    BY <2>1, HoldingNext
  <2>6. ~ Holds(message.messageNumber, AssemblerQueue)'
    BY <1>2, <2>1, <2>2, <2>5 DEF HandInv
  <2>7. \A number : number # message.messageNumber =>
          (Holds(number, AssemblerQueue)' <=> Holds(number, AssemblerQueue))
    BY <2>1, <2>2, <2>5, Holding
  <2>8. HandInv'
    BY <2>1 DEF HandInv
  <2> QED BY <1>1, <1>2, <1>3, <2>3, <2>4, <2>6, <2>7, <2>8, Connections, HandedOn
<1>7. CASE Answer
  <2>1. /\ assembler = "answer" /\ Enqueue(DispatcherQueue, Stop)
        /\ assembler' \in {"consume", "done"} /\ UNCHANGED lostMessages
    BY <1>7 DEF Answer
  <2>2. \A number : Holds(number, AssemblerQueue)' <=> Holds(number, AssemblerQueue)
    BY <2>1, Holding, HoldingNext
  <2>3. \A q \in Queues : \A number : Holds(number, q)' <=> Holds(number, q)
    BY <1>3, <2>2
  <2>4. HandInv'
    BY <2>1 DEF HandInv
  <2> QED BY <1>1, <1>2, <2>1, <2>3, <2>4, Connections, StopPlace
<1> QED BY <1>4, <1>5, <1>6, <1>7 DEF AssemblerStep

LEMMA ConsumerPlace ==
  ASSUME Base, PlaceInv, NEW c \in Consumers, ConsumerStep(c)
  PROVE  PlaceInv'
<1>1. /\ TypeOK /\ queue \in [Queues -> Seq(QueueMessages)]
      /\ receivedMessages \in [Consumers -> SUBSET Packets]
      /\ UNCHANGED <<version, producerVars, dispatcherVars, assemblerVars>>
  BY DEF Base, TypeOK, QueueMessages, ConsumerStep
<1>2. /\ \A number : Produced(number)' <=> Produced(number)
      /\ HandInv /\ \A number \in Numbers : Located(number)
  BY <1>1, ProducedKept, PlaceInvLocated
<1>3. HandInv'
  BY <1>1, <1>2 DEF HandInv, assemblerVars
<1>4. PICK message :
        /\ Dequeue(c, message)
        /\ message = Stop => UNCHANGED receivedMessages
        /\ message # Stop => receivedMessages' =
             [receivedMessages EXCEPT ![c] = @ \cup {message}]
  BY DEF ConsumerStep
<1>5. /\ \A r \in Consumers \ {c} : receivedMessages'[r] = receivedMessages[r]
      /\ message = Stop => receivedMessages'[c] = receivedMessages[c]
      /\ message # Stop => receivedMessages'[c] = receivedMessages[c] \cup {message}
  BY <1>1, <1>4
<1>6. \A q \in Queues \ {c} : \A number : Holds(number, q)' <=> Holds(number, q)
  <2>1. \A r \in Consumers \ {c} : \A number : Holds(number, r)' <=> Holds(number, r)
    <3> SUFFICES ASSUME NEW r \in Consumers \ {c}, NEW number
                 PROVE  Holds(number, r)' <=> Holds(number, r)
      OBVIOUS
    <3>1. receivedMessages'[r] = receivedMessages[r]
      BY <1>5
    <3>2. Holds(number, r) <=> \E packet \in receivedMessages[r] : packet.messageNumber = number
      BY Holding
    <3>3. Holds(number, r)' <=> \E packet \in receivedMessages'[r] : packet.messageNumber = number
      BY HoldingNext
    <3> QED BY <3>1, <3>2, <3>3
  <2>2. \A number : /\ Holds(number, DispatcherQueue)' <=> Holds(number, DispatcherQueue)
                    /\ Holds(number, AssemblerQueue)' <=> Holds(number, AssemblerQueue)
    BY <1>1, Holding, HoldingNext DEF dispatcherVars, assemblerVars
  <2> QED BY <2>1, <2>2, Connections
<1>7. ASSUME NEW number \in Numbers PROVE Located(number)'
  <2>1. Holds(number, c)' <=> Holds(number, c) \/ message.messageNumber = number
    <3>1. /\ Holds(number, c) <=>
               \E packet \in receivedMessages[c] : packet.messageNumber = number
          /\ Holds(number, c)' <=>
               \E packet \in receivedMessages'[c] : packet.messageNumber = number
      BY Holding, HoldingNext
    <3>2. CASE message = Stop
      BY <1>5, <3>1, <3>2, StopIsNoPacket
    <3>3. CASE message # Stop
      BY <1>5, <3>1, <3>3
    <3> QED BY <3>2, <3>3
  <2> QED BY <1>1, <1>2, <1>4, <1>6, <2>1, Connections, PlaceAfterDequeue
<1> QED BY <1>3, <1>7, PlaceInvLocatedNext

LEMMA PlaceStep == Base /\ PlaceInv /\ [Next]_vars => PlaceInv'
<1> SUFFICES ASSUME Base, PlaceInv, [Next]_vars PROVE PlaceInv'
  OBVIOUS
<1>1. ASSUME NEW p \in Producers, ProducerStep(p) PROVE PlaceInv'
  BY <1>1, DrawPlace, ProducePlace, ProduceStopPlace DEF ProducerStep
<1>2. CASE DispatcherStep
  BY <1>2, DispatcherPlace
<1>3. CASE AssemblerStep
  BY <1>3, AssemblerPlace
<1>4. ASSUME NEW c \in Consumers, ConsumerStep(c) PROVE PlaceInv'
  BY <1>4, ConsumerPlace
<1>5. CASE UNCHANGED vars
  <2>1. HandInv /\ \A number \in Numbers : Located(number)
    BY PlaceInvLocated
  <2>2. \A number : Produced(number)' <=> Produced(number)
    BY <1>5, ProducedKept DEF vars
  <2>3. \A q \in Queues : \A number : Holds(number, q)' <=> Holds(number, q)
    BY <1>5 DEF vars, Holds, Kept, InHand, dispatcherVars, assemblerVars, consumerVars
  <2>4. \A number \in Numbers : Located(number)'
    BY <1>5, <2>1, <2>2, <2>3, PlaceKept DEF vars
  <2>5. HandInv'
    BY <1>5, <2>1 DEF vars, HandInv, assemblerVars
  <2> QED BY <2>4, <2>5, PlaceInvLocatedNext
<1> QED BY <1>1, <1>2, <1>3, <1>4, <1>5 DEF Next, Finished

LEMMA PlaceInit == Init => PlaceInv
<1> SUFFICES ASSUME Init PROVE PlaceInv
  OBVIOUS
<1>1. /\ dispatcher = "consume" /\ assembler = "consume" /\ lostMessages = {}
      /\ receivedMessages = [c \in Consumers |-> {}]
      /\ queue = [q \in Queues |-> <<>>] /\ producedCount = 0
  BY DEF Init
<1>2. \A number, q : q \in Queues => ~ Holds(number, q)
  <2>1. \A c \in Consumers : receivedMessages[c] = {}
    BY <1>1
  <2>2. \A c \in Consumers : \A number : ~ Holds(number, c)
    BY <2>1, Holding
  <2>3. \A number : ~ Holds(number, DispatcherQueue) /\ ~ Holds(number, AssemblerQueue)
    BY <1>1, Holding
  <2> QED BY <2>2, <2>3, Connections
<1>3. \A number, q, i : q \in Queues => ~ Waits(number, q, i)
  BY <1>1 DEF Waits
<1>4. \A number \in Numbers : ~ Produced(number)
  BY <1>1, NetworkAssumption DEF Produced, Numbers
<1>5. \A number \in Numbers : Located(number)
  BY <1>2, <1>3, <1>4 DEF Located, Placed
<1>6. HandInv
  BY <1>1 DEF HandInv
<1> QED BY <1>5, <1>6, PlaceInvLocated

-----------------------------------------------------------------------------
(* Stop conditions and packets of a queue *)

LEMMA QueueKept ==
  ASSUME NEW q, queue'[q] = queue[q]
  PROVE  /\ StopIn(q)' <=> StopIn(q)
         /\ StopIsLastIn(q)' <=> StopIsLastIn(q)
         /\ OneStopIn(q)' <=> OneStopIn(q)
         /\ NoPacketIn(q)' <=> NoPacketIn(q)
         /\ PacketBehindStop(q)' <=> PacketBehindStop(q)
         /\ ForConsumers(q)' <=> ForConsumers(q)
         /\ ForConsumersBehindStop(q)' <=> ForConsumersBehindStop(q)
<1>1. \A i : /\ StopAt(q, i)' <=> StopAt(q, i)
             /\ PacketAt(q, i)' <=> PacketAt(q, i)
  BY DEF StopAt, PacketAt
<1> QED BY <1>1 DEF StopIn, StopIsLastIn, OneStopIn, NoPacketIn, PacketBehindStop,
                    ForConsumers, ForConsumersBehindStop

LEMMA QueueEmpty ==
  ASSUME NEW q, queue[q] = <<>>
  PROVE  /\ ~ StopIn(q) /\ StopIsLastIn(q) /\ OneStopIn(q) /\ NoPacketIn(q)
         /\ ~ PacketBehindStop(q) /\ ForConsumers(q) /\ ForConsumersBehindStop(q)
<1>1. \A i \in 1 .. Len(queue[q]) : FALSE
  OBVIOUS
<1> QED BY <1>1 DEF StopIn, StopIsLastIn, OneStopIn, NoPacketIn, PacketBehindStop,
                    ForConsumers, ForConsumersBehindStop

\* What a queue says of its stop conditions and packets after an enqueue ...
LEMMA QueueAfterEnqueue ==
  ASSUME queue \in [Queues -> Seq(QueueMessages)],
         NEW t \in Queues, NEW message \in QueueMessages, Enqueue(t, message)
  PROVE  /\ StopIn(t)' <=> StopIn(t) \/ message = Stop
         /\ ~ StopIn(t) => StopIsLastIn(t)' /\ OneStopIn(t)'
         /\ message # Stop /\ OneStopIn(t) => OneStopIn(t)'
         /\ message = Stop /\ NoPacketIn(t) => NoPacketIn(t)'
         /\ PacketBehindStop(t)' => PacketBehindStop(t) \/ (StopIn(t) /\ message # Stop)
         /\ ForConsumers(t) /\ (message = Stop \/ message.target \in Consumers)
              => ForConsumers(t)'
         /\ ForConsumersBehindStop(t)
              /\ (StopIn(t) => message = Stop \/ message.target \in Consumers)
              => ForConsumersBehindStop(t)'
<1>1. PICK length \in Nat : length = Len(queue[t])
  BY Enqueued
<1>2. /\ Len(queue'[t]) = length + 1 /\ queue'[t][length + 1] = message
      /\ \A i \in 1 .. length : queue'[t][i] = queue[t][i]
  BY <1>1, Enqueued
<1>3. \A i \in 1 .. length + 1 : i \in 1 .. length \/ i = length + 1
  OBVIOUS
<1>4. \A i \in 1 .. length : i \in 1 .. length + 1 /\ i < length + 1 /\ i # length + 1
  OBVIOUS
<1>5. length + 1 \in 1 .. length + 1
  OBVIOUS
<1>6. \A i \in 1 .. length : /\ StopAt(t, i)' <=> StopAt(t, i)
                             /\ PacketAt(t, i)' <=> PacketAt(t, i)
  BY <1>1, <1>2, <1>4 DEF StopAt, PacketAt
<1>7. /\ StopAt(t, length + 1)' <=> message = Stop
      /\ PacketAt(t, length + 1)' <=> message # Stop
  BY <1>2, <1>5 DEF StopAt, PacketAt
<1>8. StopIn(t)' <=> StopIn(t) \/ message = Stop
  <2>1. StopIn(t) <=> \E i \in 1 .. length : StopAt(t, i)
    BY <1>1 DEF StopIn
  <2>2. StopIn(t)' <=> \E i \in 1 .. length + 1 : StopAt(t, i)'
    BY <1>2 DEF StopIn
  <2> QED BY <1>3, <1>4, <1>5, <1>6, <1>7, <2>1, <2>2
<1>9. ~ StopIn(t) => StopIsLastIn(t)' /\ OneStopIn(t)'
  <2> SUFFICES ASSUME ~ StopIn(t) PROVE StopIsLastIn(t)' /\ OneStopIn(t)'
    OBVIOUS
  <2>1. \A i \in 1 .. length + 1 : StopAt(t, i)' => i = length + 1
    BY <1>1, <1>3, <1>6 DEF StopIn
  <2> QED BY <1>2, <2>1 DEF StopIsLastIn, OneStopIn
<1>10. message # Stop /\ OneStopIn(t) => OneStopIn(t)'
  BY <1>1, <1>2, <1>3, <1>6, <1>7 DEF OneStopIn
<1>11. message = Stop /\ NoPacketIn(t) => NoPacketIn(t)'
  BY <1>1, <1>2, <1>3, <1>6, <1>7 DEF NoPacketIn
<1>12. ASSUME NEW i \in 1 .. length + 1, NEW j \in 1 .. length + 1, i < j, StopAt(t, i)',
              PacketAt(t, j)'
       PROVE  \/ /\ i \in 1 .. length /\ j \in 1 .. length
                 /\ StopAt(t, i) /\ PacketAt(t, j) /\ queue'[t][j] = queue[t][j]
              \/ (StopIn(t) /\ message # Stop /\ queue'[t][j] = message)
  <2>1. i \in 1 .. length
    BY <1>12
  <2>2. StopAt(t, i) /\ StopIn(t)
    BY <1>1, <1>6, <1>12, <2>1 DEF StopIn
  <2>3. CASE j = length + 1
    BY <1>2, <1>7, <1>12, <2>2, <2>3
  <2>4. CASE j \in 1 .. length
    BY <1>2, <1>6, <1>12, <2>1, <2>2, <2>4
  <2> QED BY <1>3, <2>3, <2>4
<1>13. PacketBehindStop(t)' => PacketBehindStop(t) \/ (StopIn(t) /\ message # Stop)
  <2> SUFFICES ASSUME PacketBehindStop(t)'
               PROVE  PacketBehindStop(t) \/ (StopIn(t) /\ message # Stop)
    OBVIOUS
  <2>1. PICK i \in 1 .. length + 1, j \in 1 .. length + 1 :
          i < j /\ StopAt(t, i)' /\ PacketAt(t, j)'
    BY <1>2 DEF PacketBehindStop
  <2> QED BY <1>1, <1>12, <2>1 DEF PacketBehindStop
<1>14. ForConsumers(t) /\ (message = Stop \/ message.target \in Consumers)
         => ForConsumers(t)'
  BY <1>1, <1>2, <1>3, <1>6, <1>7 DEF ForConsumers
<1>15. ForConsumersBehindStop(t)
         /\ (StopIn(t) => message = Stop \/ message.target \in Consumers)
         => ForConsumersBehindStop(t)'
  <2> SUFFICES ASSUME ForConsumersBehindStop(t),
                      StopIn(t) => message = Stop \/ message.target \in Consumers,
                      NEW i \in 1 .. length + 1, NEW j \in 1 .. length + 1,
                      i < j, StopAt(t, i)', PacketAt(t, j)'
               PROVE  queue'[t][j].target \in Consumers
    BY <1>2 DEF ForConsumersBehindStop
  <2> QED BY <1>1, <1>12 DEF ForConsumersBehindStop
<1> QED BY <1>8, <1>9, <1>10, <1>11, <1>13, <1>14, <1>15

\* ... and after a dequeue.
LEMMA QueueAfterDequeue ==
  ASSUME queue \in [Queues -> Seq(QueueMessages)],
         NEW t \in Queues, NEW message, Dequeue(t, message)
  PROVE  /\ StopIn(t)' => StopIn(t)
         /\ message # Stop => (StopIn(t) => StopIn(t)') /\ ~ NoPacketIn(t)
         /\ message = Stop => StopIn(t) /\ (OneStopIn(t) => ~ StopIn(t)')
         /\ message = Stop /\ StopIsLastIn(t) => queue'[t] = <<>>
         /\ StopIsLastIn(t) => StopIsLastIn(t)'
         /\ OneStopIn(t) => OneStopIn(t)'
         /\ NoPacketIn(t) => NoPacketIn(t)'
         /\ message = Stop /\ ~ PacketBehindStop(t) => NoPacketIn(t)'
         /\ PacketBehindStop(t)' => PacketBehindStop(t)
         /\ ForConsumers(t) => /\ ForConsumers(t)'
                               /\ message # Stop => message.target \in Consumers
         /\ ForConsumersBehindStop(t) => /\ ForConsumersBehindStop(t)'
                                         /\ message = Stop => ForConsumers(t)'
<1>1. PICK length \in Nat : length = Len(queue[t])
  BY Dequeued
<1>2. /\ length >= 1 /\ queue[t][1] = message
      /\ Len(queue'[t]) = length - 1 /\ queue'[t] \in Seq(QueueMessages)
      /\ \A i \in 1 .. length - 1 : queue'[t][i] = queue[t][i + 1]
  BY <1>1, Dequeued
<1>3. \A i \in 1 .. length - 1 : i + 1 \in 1 .. length /\ 1 < i + 1 /\ i + 1 # 1
  OBVIOUS
<1>4. \A i \in 1 .. length : i = 1 \/ \E j \in 1 .. length - 1 : i = j + 1
  <2> SUFFICES ASSUME NEW i \in 1 .. length, i # 1
               PROVE  \E j \in 1 .. length - 1 : i = j + 1
    OBVIOUS
  <2>1. i - 1 \in 1 .. length - 1 /\ i = (i - 1) + 1
    OBVIOUS
  <2> QED BY <2>1
<1>5. 1 \in 1 .. length
  BY <1>2
<1>6. \A i \in 1 .. length - 1 : /\ StopAt(t, i)' <=> StopAt(t, i + 1)
                                 /\ PacketAt(t, i)' <=> PacketAt(t, i + 1)
  BY <1>1, <1>2, <1>3 DEF StopAt, PacketAt
<1>7. /\ StopAt(t, 1) <=> message = Stop
      /\ PacketAt(t, 1) <=> message # Stop
  BY <1>1, <1>2, <1>5 DEF StopAt, PacketAt
<1>8. /\ StopIn(t) <=> \E i \in 1 .. length : StopAt(t, i)
      /\ StopIn(t)' <=> \E i \in 1 .. length - 1 : StopAt(t, i)'
  BY <1>1, <1>2 DEF StopIn
<1>9. StopIn(t)' => StopIn(t)
  BY <1>3, <1>6, <1>8
<1>10. message # Stop => (StopIn(t) => StopIn(t)') /\ ~ NoPacketIn(t)
  <2>1. message # Stop => (StopIn(t) => StopIn(t)')
    BY <1>4, <1>6, <1>7, <1>8
  <2>2. message # Stop => ~ NoPacketIn(t)
    BY <1>1, <1>5, <1>7 DEF NoPacketIn
  <2> QED BY <2>1, <2>2
<1>11. message = Stop => StopIn(t) /\ (OneStopIn(t) => ~ StopIn(t)')
  <2>1. message = Stop => StopIn(t)
    BY <1>5, <1>7, <1>8
  <2>2. message = Stop /\ OneStopIn(t) => ~ StopIn(t)'
    BY <1>1, <1>3, <1>5, <1>6, <1>7, <1>8 DEF OneStopIn
  <2> QED BY <2>1, <2>2
<1>12. message = Stop /\ StopIsLastIn(t) => queue'[t] = <<>>
  <2> SUFFICES ASSUME message = Stop, StopIsLastIn(t) PROVE queue'[t] = <<>>
    OBVIOUS
  <2>1. length = 1
    BY <1>1, <1>5, <1>7 DEF StopIsLastIn
  <2>2. Len(queue'[t]) = 0
    BY <1>2, <2>1
  <2> QED BY <1>2, <2>2, EmptySeq
<1>13. StopIsLastIn(t) => StopIsLastIn(t)'
  <2> SUFFICES ASSUME StopIsLastIn(t), NEW i \in 1 .. length - 1, StopAt(t, i)'
               PROVE  i = length - 1
    BY <1>2 DEF StopIsLastIn
  <2>1. i + 1 = length
    BY <1>1, <1>3, <1>6 DEF StopIsLastIn
  <2> QED BY <2>1
<1>14. OneStopIn(t) => OneStopIn(t)'
  <2> SUFFICES ASSUME OneStopIn(t), NEW i \in 1 .. length - 1, NEW j \in 1 .. length - 1,
                      StopAt(t, i)', StopAt(t, j)'
               PROVE  i = j
    BY <1>2 DEF OneStopIn
  <2>1. i + 1 = j + 1
    BY <1>1, <1>3, <1>6 DEF OneStopIn
  <2> QED BY <2>1
<1>15. NoPacketIn(t) => NoPacketIn(t)'
  BY <1>1, <1>2, <1>3, <1>6 DEF NoPacketIn
<1>16. message = Stop /\ ~ PacketBehindStop(t) => NoPacketIn(t)'
  BY <1>1, <1>2, <1>3, <1>5, <1>6, <1>7 DEF NoPacketIn, PacketBehindStop
<1>17. PacketBehindStop(t)' => PacketBehindStop(t)
  <2> SUFFICES ASSUME PacketBehindStop(t)' PROVE PacketBehindStop(t)
    OBVIOUS
  <2>1. PICK i \in 1 .. length - 1, j \in 1 .. length - 1 :
          i < j /\ StopAt(t, i)' /\ PacketAt(t, j)'
    BY <1>2 DEF PacketBehindStop
  <2>2. i + 1 < j + 1
    BY <2>1
  <2> QED BY <1>1, <1>3, <1>6, <2>1, <2>2 DEF PacketBehindStop
<1>18. ForConsumers(t) => /\ ForConsumers(t)'
                          /\ message # Stop => message.target \in Consumers
  <2>1. ForConsumers(t) => ForConsumers(t)'
    BY <1>1, <1>2, <1>3, <1>6 DEF ForConsumers
  <2>2. ForConsumers(t) /\ message # Stop => message.target \in Consumers
    BY <1>1, <1>2, <1>5, <1>7 DEF ForConsumers
  <2> QED BY <2>1, <2>2
<1>19. ForConsumersBehindStop(t) => /\ ForConsumersBehindStop(t)'
                                    /\ message = Stop => ForConsumers(t)'
  <2>1. ForConsumersBehindStop(t) => ForConsumersBehindStop(t)'
    <3> SUFFICES ASSUME ForConsumersBehindStop(t),
                        NEW i \in 1 .. length - 1, NEW j \in 1 .. length - 1,
                        i < j, StopAt(t, i)', PacketAt(t, j)'
                 PROVE  queue'[t][j].target \in Consumers
      BY <1>2 DEF ForConsumersBehindStop
    <3>1. i + 1 < j + 1
      OBVIOUS
    <3> QED BY <1>1, <1>2, <1>3, <1>6, <3>1 DEF ForConsumersBehindStop
  <2>2. ForConsumersBehindStop(t) /\ message = Stop => ForConsumers(t)'
    BY <1>1, <1>2, <1>3, <1>5, <1>6, <1>7 DEF ForConsumers, ForConsumersBehindStop
  <2> QED BY <2>1, <2>2
<1> QED BY <1>9, <1>10, <1>11, <1>12, <1>13, <1>14, <1>15, <1>16, <1>17, <1>18, <1>19

-----------------------------------------------------------------------------
(* The end of a queue *)

\* What a producer puts in its queue: every packet comes before the stop condition.
LEMMA ProducerMoves ==
  ASSUME Base, NEW p \in Producers, ProducerStep(p)
  PROVE  /\ UNCHANGED <<version, dispatcherVars, assemblerVars, consumerVars>>
         /\ ~ Sent
         /\ \/ UNCHANGED queue /\ ~ Sent'
            \/ ~ Sent' /\ \E packet \in Packets :
                 packet.target \in toQueues /\ Enqueue(ProducingQueue, packet)
            \/ Enqueue(ProducingQueue, Stop) /\ Sent'
<1>1. /\ TypeOK /\ ProducerInv
      /\ producer \in [Producers -> {"draw", "produce", "produce_stop", "done"}]
      /\ UNCHANGED <<version, dispatcherVars, assemblerVars, consumerVars>>
  BY DEF Base, TypeOK, ProducerStep, Draw, Produce, ProduceStop
<1>2. producer[p] # "done" /\ Producers' = Producers
  BY <1>1, SameVersion DEF ProducerStep, Draw, Produce, ProduceStop
<1>3. ~ Sent
  BY <1>2 DEF Sent
<1>4. CASE Draw(p)
  <2>1. /\ UNCHANGED queue /\ producedCount' = producedCount + 1
        /\ producer' = [producer EXCEPT ![p] =
             IF producedCount + 1 <= packageCount THEN "produce"
             ELSE IF producedCount + 1 = packageCount + Cardinality(Producers)
               THEN "produce_stop" ELSE "done"]
    BY <1>4 DEF Draw
  <2>2. ASSUME Sent' PROVE FALSE
    <3>1. \A o \in Producers : producer'[o] = "done"
      BY <1>2, <2>2 DEF Sent
    <3>2. Past' = Producers
      BY <1>2, <3>1 DEF Past
    <3>3. Base'
      BY <1>4, DrawBase
    <3>4. Cardinality(Past') =
            IF producedCount' > packageCount THEN producedCount' - packageCount ELSE 0
      BY <3>3 DEF Base, ProducerInv
    <3>5. /\ producedCount \in Nat /\ packageCount \in Nat
          /\ Cardinality(Producers) \in Nat
      BY <1>1, Team DEF TypeOK
    <3>6. \/ producedCount + 1 <= packageCount
          \/ producedCount + 1 = packageCount + Cardinality(Producers)
      BY <2>1, <3>2, <3>4, <3>5
    <3>7. producer'[p] = "produce" \/ producer'[p] = "produce_stop"
      BY <1>1, <2>1, <3>6
    <3> QED BY <3>1, <3>7
  <2> QED BY <1>1, <1>3, <2>1, <2>2
<1>5. CASE Produce(p)
  <2>1. producer'[p] = "draw"
    BY <1>1, <1>5 DEF Produce
  <2>2. ~ Sent'
    BY <1>2, <2>1 DEF Sent
  <2> QED BY <1>1, <1>3, <1>5, <2>2, PacketMade
<1>6. CASE ProduceStop(p)
  <2>1. /\ producer[p] = "produce_stop" /\ Enqueue(ProducingQueue, Stop)
        /\ producer' = [producer EXCEPT ![p] = "done"]
    BY <1>6 DEF ProduceStop
  <2>2. \A o \in Producers \ {p} : producer[o] = "done"
    BY <1>1, <2>1 DEF ProducerInv
  <2>3. Sent'
    BY <1>1, <1>2, <2>1, <2>2 DEF Sent
  <2> QED BY <1>1, <1>3, <2>1, <2>3
<1> QED BY <1>4, <1>5, <1>6 DEF ProducerStep

\* The stop conditions of the dispatcher are the last messages of the queues they
\* were put in, and the queue of a thread that met its own is empty.
EndOf(q)   == StopIsLastIn(q) /\ (StopIn(q) => q <= propagated)
Emptied(q) == queue[q] = <<>> /\ q <= propagated

LEMMA EndOfStep ==
  ASSUME Base, Next, NEW q \in Queues, q # DispatcherQueue,
         q = AssemblerQueue => version = "packet_loss"
  PROVE  EndOf(q) => EndOf(q)' /\ (Emptied(q) => Emptied(q)')
<1>1. /\ TypeOK /\ CountInv /\ queue \in [Queues -> Seq(QueueMessages)]
      /\ propagated \in Nat /\ q \in Nat /\ q >= 1
  <2>1. propagated \in {0} \cup toQueues
    BY DEF Base, TypeOK
  <2>2. propagated \in Nat
    BY <2>1, Connections
  <2> QED BY <2>2, Connections DEF Base, TypeOK, QueueMessages, Queues, DispatcherQueue
<1>2. ASSUME queue'[q] = queue[q], propagated' \in Nat, propagated <= propagated'
      PROVE  EndOf(q) => EndOf(q)' /\ (Emptied(q) => Emptied(q)')
  BY <1>1, <1>2, QueueKept DEF EndOf, Emptied
<1>3. ASSUME NEW packet \in Packets, Enqueue(q, packet), propagated = 0, propagated' = 0
      PROVE  EndOf(q) => EndOf(q)' /\ (Emptied(q) => Emptied(q)')
  <2>1. ~ (q <= propagated) /\ packet # Stop /\ packet \in QueueMessages
    BY <1>1, <1>3, StopIsNoPacket DEF QueueMessages
  <2>2. ~ StopIn(q) => StopIsLastIn(q)' /\ ~ StopIn(q)'
    BY <1>1, <1>3, <2>1, QueueAfterEnqueue
  <2> QED BY <2>1, <2>2 DEF EndOf, Emptied
<1>4. ASSUME Enqueue(q, Stop), q = propagated + 1, propagated' = propagated + 1
      PROVE  EndOf(q) => EndOf(q)' /\ (Emptied(q) => Emptied(q)')
  <2>1. ~ (q <= propagated) /\ q <= propagated' /\ Stop \in QueueMessages
    BY <1>1, <1>4 DEF QueueMessages
  <2>2. ~ StopIn(q) => StopIsLastIn(q)'
    BY <1>1, <1>4, <2>1, QueueAfterEnqueue
  <2> QED BY <2>1, <2>2 DEF EndOf, Emptied
<1>5. ASSUME NEW message, Dequeue(q, message), UNCHANGED propagated
      PROVE  EndOf(q) => EndOf(q)' /\ (Emptied(q) => Emptied(q)')
  <2>1. queue[q] # <<>>
    BY <1>5 DEF Dequeue
  <2>2. /\ StopIn(q)' => StopIn(q)
        /\ StopIsLastIn(q) => StopIsLastIn(q)'
    BY <1>1, <1>5, QueueAfterDequeue
  <2> QED BY <1>5, <2>1, <2>2 DEF EndOf, Emptied
<1>6. \A t \in Queues, message \in QueueMessages :
        Enqueue(t, message) /\ t # q => queue'[q] = queue[q]
  BY <1>1, Enqueued
<1>7. \A t \in Queues : \A message :
        Dequeue(t, message) /\ t # q => queue'[q] = queue[q]
  BY <1>1, Dequeued
<1>8. Stop \in QueueMessages /\ Packets \subseteq QueueMessages
  BY DEF QueueMessages
<1>9. ASSUME NEW p \in Producers, ProducerStep(p)
      PROVE  EndOf(q) => EndOf(q)' /\ (Emptied(q) => Emptied(q)')
  <2>1. /\ UNCHANGED <<version, propagated>>
        /\ \/ UNCHANGED queue
           \/ \E message \in QueueMessages : Enqueue(ProducingQueue, message)
    BY <1>8, <1>9, ProducerMoves DEF dispatcherVars
  <2>2. ProducingQueue # q /\ ProducingQueue \in Queues
    BY Connections DEF ProducingQueue, Looped
  <2>3. queue'[q] = queue[q]
    BY <1>6, <2>1, <2>2
  <2> QED BY <1>1, <1>2, <2>1, <2>3
<1>10. CASE DispatcherStep
  <2>1. CASE DispatcherDequeue
    <3>1. UNCHANGED propagated /\ \E message : Dequeue(DispatcherQueue, message)
      BY <2>1 DEF DispatcherDequeue
    <3> QED BY <1>1, <1>2, <1>7, <3>1, Connections
  <2>2. CASE Redirect
    <3>1. /\ dispatcher = "redirect" /\ UNCHANGED propagated
          /\ Enqueue(dispatched.target, dispatched)
      BY <2>2 DEF Redirect
    <3>2. PICK packet \in Packets : packet = dispatched
      BY <1>1, <3>1 DEF TypeOK
    <3>3. packet.target \in Queues
      BY StopIsNoPacket DEF Queues
    <3>4. ~ (propagated > 0)
      BY <1>1, <3>1 DEF CountInv, Dispatching
    <3>5. propagated = 0 /\ propagated' = 0
      BY <1>1, <3>1, <3>4
    <3>6. CASE packet.target = q
      BY <1>3, <3>1, <3>2, <3>5, <3>6
    <3>7. CASE packet.target # q
      <4>1. queue'[q] = queue[q]
        BY <1>6, <1>8, <3>1, <3>2, <3>3, <3>7
      <4>2. propagated' \in Nat /\ propagated <= propagated'
        BY <3>5
      <4> QED BY <1>2, <4>1, <4>2
    <3> QED BY <3>6, <3>7
  <2>3. CASE Forward
    <3>1. /\ UNCHANGED propagated /\ Enqueue(AssemblerQueue, Stop)
          /\ version = "packet_loss_fix"
      BY <1>1, <2>3 DEF Forward, CountInv
    <3> QED BY <1>1, <1>2, <1>6, <1>8, <3>1, Connections
  <2>4. CASE Propagate
    <3>1. CASE propagated + 1 \in toQueues
      <4>1. Enqueue(propagated + 1, Stop) /\ propagated' = propagated + 1
        BY <2>4, <3>1 DEF Propagate
      <4>2. PICK t \in Queues : t = propagated + 1
        BY <3>1, Connections
      <4>3. CASE t = q
        BY <1>4, <4>1, <4>2, <4>3
      <4>4. CASE t # q
        <5>1. propagated' \in Nat /\ propagated <= propagated'
          BY <1>1, <4>1
        <5>2. queue'[q] = queue[q]
          BY <1>6, <1>8, <4>1, <4>2, <4>4
        <5> QED BY <1>2, <5>1, <5>2
      <4> QED BY <4>3, <4>4
    <3>2. CASE propagated + 1 \notin toQueues
      <4>1. UNCHANGED <<queue, propagated>>
        BY <2>4, <3>2 DEF Propagate
      <4> QED BY <1>1, <1>2, <4>1
    <3> QED BY <3>1, <3>2
  <2> QED BY <1>10, <2>1, <2>2, <2>3, <2>4 DEF DispatcherStep
<1>11. CASE AssemblerStep
  <2>1. UNCHANGED propagated
    BY <1>11 DEF AssemblerStep, AssemblerDequeue, LosePacket, PassPacket, Answer,
                 dispatcherVars
  <2>2. CASE AssemblerDequeue
    <3>1. PICK message : Dequeue(AssemblerQueue, message)
      BY <2>2 DEF AssemblerDequeue
    <3>2. CASE AssemblerQueue = q
      BY <1>5, <2>1, <3>1, <3>2
    <3>3. CASE AssemblerQueue # q
      BY <1>1, <1>2, <1>7, <2>1, <3>1, <3>3, Connections
    <3> QED BY <3>2, <3>3
  <2>3. CASE LosePacket
    BY <1>1, <1>2, <2>1, <2>3 DEF LosePacket
  <2>4. CASE PassPacket \/ Answer
    <3>1. PICK message : Enqueue(DispatcherQueue, message)
      BY <2>4 DEF PassPacket, Answer
    <3>2. queue'[q] = queue[q]
      BY <1>1, <3>1, Connections DEF Enqueue
    <3> QED BY <1>1, <1>2, <2>1, <3>2
  <2> QED BY <1>11, <2>2, <2>3, <2>4 DEF AssemblerStep
<1>12. ASSUME NEW c \in Consumers, ConsumerStep(c)
       PROVE  EndOf(q) => EndOf(q)' /\ (Emptied(q) => Emptied(q)')
  <2>1. UNCHANGED propagated
    BY <1>12 DEF ConsumerStep, dispatcherVars
  <2>2. PICK message : Dequeue(c, message)
    BY <1>12 DEF ConsumerStep
  <2>3. CASE c = q
    BY <1>5, <2>1, <2>2, <2>3
  <2>4. CASE c # q
    BY <1>1, <1>2, <1>7, <2>1, <2>2, <2>4, Connections
  <2> QED BY <2>3, <2>4
<1>13. CASE UNCHANGED vars
  BY <1>1, <1>2, <1>13 DEF vars, dispatcherVars
<1> QED BY <1>9, <1>10, <1>11, <1>12, <1>13 DEF Next, Finished

LEMMA EndInvParts ==
  EndInv <=>
    /\ \A c \in Consumers : EndOf(c) /\ (consumer[c] = "done" => Emptied(c))
    /\ version = "packet_loss" =>
         EndOf(AssemblerQueue) /\ (assembler = "done" => Emptied(AssemblerQueue))
BY DEF EndInv, EndOf, Emptied

LEMMA EndInvPartsNext ==
  (EndInv <=>
    /\ \A c \in Consumers : EndOf(c) /\ (consumer[c] = "done" => Emptied(c))
    /\ version = "packet_loss" =>
         EndOf(AssemblerQueue) /\ (assembler = "done" => Emptied(AssemblerQueue)))'
BY EndInvParts, PTL

LEMMA EndInvStep ==
  ASSUME Base, EndInv, Next
  PROVE  EndInv'
<1>1. queue \in [Queues -> Seq(QueueMessages)]
  BY DEF Base, TypeOK, QueueMessages
<1>2. UNCHANGED version
  BY DEF Next, Finished, vars, ProducerStep, Draw, Produce, ProduceStop, DispatcherStep,
         DispatcherDequeue, Redirect, Forward, Propagate, AssemblerStep, AssemblerDequeue,
         LosePacket, PassPacket, Answer, ConsumerStep
<1>3. /\ \A c \in Consumers : EndOf(c) /\ (consumer[c] = "done" => Emptied(c))
      /\ version = "packet_loss" =>
           EndOf(AssemblerQueue) /\ (assembler = "done" => Emptied(AssemblerQueue))
  BY EndInvParts
<1>4. ASSUME NEW q \in Queues, EndOf(q), Dequeue(q, Stop), UNCHANGED propagated
      PROVE  Emptied(q)'
  <2>1. StopIn(q) /\ queue'[q] = <<>>
    BY <1>1, <1>4, QueueAfterDequeue DEF EndOf
  <2> QED BY <1>4, <2>1 DEF EndOf, Emptied
<1>5. ASSUME NEW c \in Consumers
      PROVE  EndOf(c)' /\ (consumer'[c] = "done" => Emptied(c)')
  <2>1. EndOf(c)' /\ (Emptied(c) => Emptied(c)')
    BY <1>3, Connections, EndOfStep
  <2>2. ASSUME consumer'[c] = "done", consumer[c] # "done" PROVE Emptied(c)'
    <3>1. ~ UNCHANGED consumer
      BY <2>2
    <3>2. PICK d \in Consumers : ConsumerStep(d)
      BY <3>1 DEF Next, Finished, vars, consumerVars, ProducerStep, Draw, Produce,
           ProduceStop, DispatcherStep, DispatcherDequeue, Redirect, Forward, Propagate,
           AssemblerStep, AssemblerDequeue, LosePacket, PassPacket, Answer
    <3>3. PICK message :
            /\ Dequeue(d, message) /\ UNCHANGED propagated
            /\ message # Stop => UNCHANGED consumer
            /\ message = Stop => consumer' = [consumer EXCEPT ![d] = "done"]
      BY <3>2 DEF ConsumerStep, dispatcherVars
    <3>4. message = Stop /\ d = c
      <4>1. consumer \in [Consumers -> {"consume", "done"}]
        BY DEF Base, TypeOK
      <4> QED BY <2>2, <3>1, <3>3, <4>1
    <3> QED BY <1>3, <1>4, <3>3, <3>4, Connections
  <2> QED BY <1>3, <2>1, <2>2
<1>6. ASSUME version = "packet_loss"
      PROVE  /\ EndOf(AssemblerQueue)'
             /\ assembler' = "done" => Emptied(AssemblerQueue)'
  <2>1. /\ EndOf(AssemblerQueue)'
        /\ Emptied(AssemblerQueue) => Emptied(AssemblerQueue)'
    BY <1>3, <1>6, Connections, EndOfStep
  <2>2. ASSUME assembler' = "done", assembler # "done" PROVE Emptied(AssemblerQueue)'
    <3>1. AssemblerStep
      BY <2>2 DEF Next, Finished, vars, assemblerVars, ProducerStep, Draw, Produce,
           ProduceStop, DispatcherStep, DispatcherDequeue, Redirect, Forward, Propagate,
           ConsumerStep
    <3>2. assembler # "answer"
      BY <1>6 DEF Base, CountInv
    <3>3. AssemblerDequeue
      BY <2>2, <3>1, <3>2 DEF AssemblerStep, LosePacket, PassPacket, Answer
    <3>4. Dequeue(AssemblerQueue, Stop) /\ UNCHANGED propagated
      <4>1. PICK message : /\ message = assembled' /\ Dequeue(AssemblerQueue, message)
                           /\ message # Stop => assembler' = "assemble"
                           /\ UNCHANGED dispatcherVars
        BY <3>3 DEF AssemblerDequeue
      <4>2. message = Stop
        BY <2>2, <4>1
      <4> QED BY <4>1, <4>2 DEF dispatcherVars
    <3> QED BY <1>3, <1>4, <1>6, <3>4, Connections
  <2> QED BY <1>3, <1>6, <2>1, <2>2
<1> QED BY <1>2, <1>5, <1>6, EndInvPartsNext

-----------------------------------------------------------------------------
(* Without a loop *)

LEMMA LineInvStep ==
  ASSUME Base, ~ Looped, LineInv, Next
  PROVE  LineInv'
<1>1. /\ queue \in [Queues -> Seq(QueueMessages)] /\ TypeOK /\ CountInv
      /\ Stop \in QueueMessages /\ Packets \subseteq QueueMessages
  BY DEF Base, TypeOK, QueueMessages
<1>2. /\ ProducingQueue = AssemblerQueue /\ toQueues = Consumers
      /\ version # "packet_loss" /\ version # "packet_loss_fix" /\ StopsToEnd = 1
  BY DEF ProducingQueue, toQueues, Looped, StopsToEnd
<1>3. ASSUME queue'[DispatcherQueue] = queue[DispatcherQueue]
      PROVE  /\ ForConsumers(DispatcherQueue)' <=> ForConsumers(DispatcherQueue)
             /\ StopIsLastIn(DispatcherQueue)' <=> StopIsLastIn(DispatcherQueue)
             /\ StopIn(DispatcherQueue)' <=> StopIn(DispatcherQueue)
  BY <1>3, QueueKept
<1>4. ASSUME queue'[AssemblerQueue] = queue[AssemblerQueue]
      PROVE  /\ ForConsumers(AssemblerQueue)' <=> ForConsumers(AssemblerQueue)
             /\ StopIsLastIn(AssemblerQueue)' <=> StopIsLastIn(AssemblerQueue)
             /\ StopIn(AssemblerQueue)' <=> StopIn(AssemblerQueue)
  BY <1>4, QueueKept
<1>5. ASSUME NEW p \in Producers, ProducerStep(p) PROVE LineInv'
  <2>1. /\ UNCHANGED <<version, dispatcher, dispatched, assembler, assembled>>
        /\ ~ Sent
        /\ \/ UNCHANGED queue /\ ~ Sent'
           \/ \E packet \in Packets :
                packet.target \in Consumers /\ Enqueue(AssemblerQueue, packet)
           \/ Enqueue(AssemblerQueue, Stop) /\ Sent'
    BY <1>2, <1>5, ProducerMoves DEF dispatcherVars, assemblerVars
  <2>2. ~ StopIn(AssemblerQueue) /\ assembler \notin {"answer", "done"}
    BY <2>1 DEF LineInv
  <2>3. Dispatching' <=> Dispatching
    BY <2>1 DEF Dispatching
  <2>4. CASE UNCHANGED queue
    BY <1>3, <1>4, <2>1, <2>2, <2>3, <2>4 DEF LineInv
  <2>5. ASSUME NEW message \in QueueMessages, Enqueue(AssemblerQueue, message),
               \/ message # Stop /\ message.target \in Consumers
               \/ message = Stop /\ Sent'
        PROVE  LineInv'
    <3>1. queue'[DispatcherQueue] = queue[DispatcherQueue]
      BY <1>1, <2>5, Connections, Enqueued
    <3>2. /\ StopIsLastIn(AssemblerQueue)' /\ (StopIn(AssemblerQueue)' => Sent')
          /\ ForConsumers(AssemblerQueue) => ForConsumers(AssemblerQueue)'
      BY <1>1, <2>2, <2>5, Connections, QueueAfterEnqueue
    <3> QED BY <1>3, <2>1, <2>2, <2>3, <3>1, <3>2 DEF LineInv
  <2> QED BY <1>1, <2>1, <2>4, <2>5, StopIsNoPacket
<1>6. ASSUME UNCHANGED <<version, producerVars>> PROVE Sent' <=> Sent
  BY <1>6, SameVersion DEF Sent, producerVars
<1>7. CASE DispatcherStep
  <2>1. UNCHANGED <<version, producerVars, assembler, assembled>>
    BY <1>7 DEF DispatcherStep, DispatcherDequeue, Redirect, Forward, Propagate,
                assemblerVars
  <2>2. Sent' <=> Sent
    BY <1>6, <2>1
  <2>3. CASE DispatcherDequeue
    <3>1. PICK message : /\ message = dispatched' /\ Dequeue(DispatcherQueue, message)
                         /\ dispatcher = "consume"
                         /\ message = Stop => dispatcher' = "propagate"
                         /\ message # Stop => dispatcher' = "redirect"
      BY <1>2, <2>3 DEF DispatcherDequeue
    <3>2. queue'[AssemblerQueue] = queue[AssemblerQueue]
      BY <1>1, <3>1, Connections, Dequeued
    <3>3. /\ ForConsumers(DispatcherQueue)' /\ StopIsLastIn(DispatcherQueue)'
          /\ StopIn(DispatcherQueue)' => StopIn(DispatcherQueue)
          /\ message # Stop => message.target \in Consumers
          /\ message = Stop => queue'[DispatcherQueue] = <<>> /\ StopIn(DispatcherQueue)
      BY <1>1, <3>1, Connections, QueueAfterDequeue DEF LineInv
    <3>4. Dispatching' <=> message # Stop
      BY <3>1 DEF Dispatching
    <3>5. dispatcher' = "redirect" => dispatched'.target \in Consumers
      BY <3>1, <3>3
    <3> QED BY <1>4, <2>1, <2>2, <3>2, <3>3, <3>4, <3>5 DEF LineInv
  <2>4. CASE Redirect
    <3>1. /\ dispatcher = "redirect" /\ dispatcher' = "consume" /\ UNCHANGED dispatched
          /\ Enqueue(dispatched.target, dispatched)
      BY <2>4 DEF Redirect
    <3>2. PICK packet \in Packets : packet = dispatched
      BY <1>1, <3>1 DEF TypeOK
    <3>3. packet.target \in Consumers
      BY <3>1, <3>2 DEF LineInv
    <3>4. /\ queue'[DispatcherQueue] = queue[DispatcherQueue]
          /\ queue'[AssemblerQueue] = queue[AssemblerQueue]
      BY <1>1, <3>1, <3>2, <3>3, Connections, Enqueued
    <3>5. Dispatching /\ Dispatching'
      BY <3>1 DEF Dispatching
    <3> QED BY <1>3, <1>4, <2>1, <2>2, <3>1, <3>4, <3>5 DEF LineInv
  <2>5. CASE Forward
    BY <1>1, <1>2, <2>5 DEF Forward, CountInv
  <2>6. CASE Propagate
    <3>1. /\ dispatcher = "propagate" /\ dispatcher' \in {"propagate", "done"}
          /\ UNCHANGED dispatched
          /\ UNCHANGED queue \/ \E c \in Consumers : Enqueue(c, Stop)
      <4>1. CASE propagated + 1 \in toQueues
        BY <1>2, <2>6, <4>1 DEF Propagate
      <4>2. CASE propagated + 1 \notin toQueues
        BY <2>6, <4>2 DEF Propagate
      <4> QED BY <4>1, <4>2
    <3>2. /\ queue'[DispatcherQueue] = queue[DispatcherQueue]
          /\ queue'[AssemblerQueue] = queue[AssemblerQueue]
      BY <1>1, <3>1, Connections, Enqueued
    <3>3. ~ Dispatching /\ ~ Dispatching'
      BY <3>1 DEF Dispatching
    <3> QED BY <1>3, <1>4, <2>1, <2>2, <3>1, <3>2, <3>3 DEF LineInv
  <2> QED BY <1>7, <2>3, <2>4, <2>5, <2>6 DEF DispatcherStep
<1>8. CASE AssemblerStep
  <2>1. UNCHANGED <<version, producerVars, dispatcher, dispatched>>
    BY <1>8 DEF AssemblerStep, AssemblerDequeue, LosePacket, PassPacket, Answer,
                dispatcherVars
  <2>2. (Sent' <=> Sent) /\ (Dispatching' <=> Dispatching)
    BY <1>6, <2>1 DEF Dispatching
  <2>3. CASE AssemblerDequeue
    <3>1. PICK message : /\ message = assembled' /\ Dequeue(AssemblerQueue, message)
                         /\ assembler = "consume"
                         /\ message = Stop => assembler' = "answer"
                         /\ message # Stop => assembler' = "assemble"
      BY <1>2, <2>3 DEF AssemblerDequeue
    <3>2. queue'[DispatcherQueue] = queue[DispatcherQueue]
      BY <1>1, <3>1, Connections, Dequeued
    <3>3. /\ ForConsumers(AssemblerQueue)' /\ StopIsLastIn(AssemblerQueue)'
          /\ StopIn(AssemblerQueue)' => StopIn(AssemblerQueue)
          /\ message # Stop => message.target \in Consumers
          /\ message = Stop => queue'[AssemblerQueue] = <<>> /\ StopIn(AssemblerQueue)
      BY <1>1, <3>1, Connections, QueueAfterDequeue DEF LineInv
    <3>4. ~ StopIn(DispatcherQueue) /\ Dispatching
      BY <3>1 DEF LineInv
    <3>5. assembler' = "assemble" => assembled'.target \in Consumers
      BY <3>1, <3>3
    <3>6. assembler' \in {"answer", "done"} => queue'[AssemblerQueue] = <<>> /\ Sent
      BY <3>1, <3>3 DEF LineInv
    <3> QED BY <1>3, <2>1, <2>2, <3>1, <3>2, <3>3, <3>4, <3>5, <3>6 DEF LineInv
  <2>4. CASE LosePacket
    <3>1. /\ assembler = "assemble" /\ assembler' = "consume" /\ UNCHANGED queue
      BY <2>4 DEF LosePacket
    <3> QED BY <1>3, <1>4, <2>1, <2>2, <3>1 DEF LineInv
  <2>5. CASE PassPacket
    <3>1. /\ assembler = "assemble" /\ assembler' = "consume"
          /\ \E target \in {assembled.target} :
               Enqueue(DispatcherQueue, [assembled EXCEPT !.target = target])
      BY <2>5 DEF PassPacket
    <3>2. PICK packet \in Packets : packet = assembled
      BY <1>1, <3>1 DEF TypeOK
    <3>3. packet.target \in Consumers
      BY <3>1, <3>2 DEF LineInv
    <3>4. Enqueue(DispatcherQueue, packet)
      <4>1. [packet EXCEPT !.target = packet.target] = packet
        BY DEF Packets
      <4> QED BY <3>1, <3>2, <4>1
    <3>5. ~ StopIn(DispatcherQueue) /\ Dispatching /\ packet # Stop
      BY <3>1, StopIsNoPacket DEF LineInv
    <3>6. /\ ForConsumers(DispatcherQueue) => ForConsumers(DispatcherQueue)'
          /\ StopIsLastIn(DispatcherQueue)' /\ ~ StopIn(DispatcherQueue)'
      BY <1>1, <3>3, <3>4, <3>5, Connections, QueueAfterEnqueue
    <3>7. queue'[AssemblerQueue] = queue[AssemblerQueue]
      BY <1>1, <3>4, Connections, Enqueued
    <3> QED BY <1>4, <2>1, <2>2, <3>1, <3>5, <3>6, <3>7 DEF LineInv
  <2>6. CASE Answer
    <3>1. assembler = "answer" /\ Enqueue(DispatcherQueue, Stop) /\ assembler' = "done"
      <4>1. assembler_stops \in 0 .. 1 /\ assembler = "answer"
        BY <1>1, <1>2, <2>6 DEF TypeOK, Answer
      <4>2. ~ (assembler_stops < StopsToEnd)
        BY <1>1, <1>2, <4>1 DEF CountInv
      <4> QED BY <2>6, <4>2 DEF Answer
    <3>2. ~ StopIn(DispatcherQueue) /\ Dispatching
      BY <3>1 DEF LineInv
    <3>3. /\ ForConsumers(DispatcherQueue) => ForConsumers(DispatcherQueue)'
          /\ StopIsLastIn(DispatcherQueue)'
      BY <1>1, <3>1, <3>2, Connections, QueueAfterEnqueue
    <3>4. queue'[AssemblerQueue] = queue[AssemblerQueue]
      BY <1>1, <3>1, Connections, Enqueued
    <3> QED BY <1>4, <2>1, <2>2, <3>1, <3>2, <3>3, <3>4 DEF LineInv
  <2> QED BY <1>8, <2>3, <2>4, <2>5, <2>6 DEF AssemblerStep
<1>9. ASSUME NEW c \in Consumers, ConsumerStep(c) PROVE LineInv'
  <2>1. /\ UNCHANGED <<version, producerVars, dispatcher, dispatched, assembler, assembled>>
        /\ \E message : Dequeue(c, message)
    BY <1>9 DEF ConsumerStep, dispatcherVars, assemblerVars
  <2>2. /\ queue'[DispatcherQueue] = queue[DispatcherQueue]
        /\ queue'[AssemblerQueue] = queue[AssemblerQueue]
    BY <1>1, <2>1, Connections, Dequeued
  <2>3. (Sent' <=> Sent) /\ (Dispatching' <=> Dispatching)
    BY <1>6, <2>1 DEF Dispatching
  <2> QED BY <1>3, <1>4, <2>1, <2>2, <2>3 DEF LineInv
<1>10. CASE UNCHANGED vars
  <2>1. UNCHANGED <<version, producerVars, queue, dispatcher, dispatched, assembler, assembled>>
    BY <1>10 DEF vars, dispatcherVars, assemblerVars
  <2>2. (Sent' <=> Sent) /\ (Dispatching' <=> Dispatching)
    BY <1>6, <2>1 DEF Dispatching
  <2> QED BY <1>3, <1>4, <2>1, <2>2 DEF LineInv
<1> QED BY <1>5, <1>7, <1>8, <1>9, <1>10 DEF Next, Finished

-----------------------------------------------------------------------------
(* The loop with the fix *)

\* The one stop condition goes from queue to queue, and what each queue says of its
\* packets goes with it.
LEMMA FixInvStep ==
  ASSUME Base, version = "packet_loss_fix", FixInv, Next
  PROVE  FixInv'
<1>1. /\ queue \in [Queues -> Seq(QueueMessages)] /\ TypeOK /\ CountInv
      /\ Stop \in QueueMessages /\ Packets \subseteq QueueMessages
  BY DEF Base, TypeOK, QueueMessages
<1>2. /\ ProducingQueue = DispatcherQueue /\ Looped /\ StopsToEnd = 2
  BY DEF ProducingQueue, Looped, StopsToEnd
<1>3. ASSUME queue'[DispatcherQueue] = queue[DispatcherQueue]
      PROVE  /\ StopIn(DispatcherQueue)' <=> StopIn(DispatcherQueue)
             /\ OneStopIn(DispatcherQueue)' <=> OneStopIn(DispatcherQueue)
             /\ NoPacketIn(DispatcherQueue)' <=> NoPacketIn(DispatcherQueue)
             /\ PacketBehindStop(DispatcherQueue)' <=> PacketBehindStop(DispatcherQueue)
             /\ ForConsumers(DispatcherQueue)' <=> ForConsumers(DispatcherQueue)
             /\ ForConsumersBehindStop(DispatcherQueue)' <=>
                  ForConsumersBehindStop(DispatcherQueue)
  BY <1>3, QueueKept
<1>4. ASSUME queue'[AssemblerQueue] = queue[AssemblerQueue]
      PROVE  /\ StopIn(AssemblerQueue)' <=> StopIn(AssemblerQueue)
             /\ OneStopIn(AssemblerQueue)' <=> OneStopIn(AssemblerQueue)
             /\ NoPacketIn(AssemblerQueue)' <=> NoPacketIn(AssemblerQueue)
             /\ PacketBehindStop(AssemblerQueue)' <=> PacketBehindStop(AssemblerQueue)
  BY <1>4, QueueKept
<1>5. ASSUME UNCHANGED <<version, producerVars>> PROVE Sent' <=> Sent
  BY <1>5, SameVersion DEF Sent, producerVars
<1>6. UNCHANGED version => StopsToEnd' = StopsToEnd
  BY SameVersion
\* A step elsewhere: of a consumer, or a draw.
<1>7. ASSUME UNCHANGED <<version, dispatcher, dispatcher_stops, dispatched, assembler,
                        assembler_stops>>,
             Sent' <=> Sent,
             queue'[DispatcherQueue] = queue[DispatcherQueue],
             queue'[AssemblerQueue] = queue[AssemblerQueue]
      PROVE  FixInv'
  <2>1. Dispatching' <=> Dispatching
    BY <1>7 DEF Dispatching
  <2>2. OneStop => OneStop'
    BY <1>3, <1>4, <1>7 DEF OneStop
  <2> QED BY <1>3, <1>4, <1>6, <1>7, <2>1, <2>2 DEF FixInv
<1>8. ASSUME NEW p \in Producers, ProducerStep(p) PROVE FixInv'
  <2>1. /\ UNCHANGED <<version, dispatcher, dispatcher_stops, dispatched, assembler,
                      assembler_stops>>
        /\ ~ Sent
        /\ \/ UNCHANGED queue /\ ~ Sent'
           \/ \E message \in QueueMessages :
                /\ Enqueue(DispatcherQueue, message)
                /\ message = Stop <=> Sent'
    BY <1>1, <1>2, <1>8, ProducerMoves, StopIsNoPacket DEF dispatcherVars, assemblerVars
  <2>2. CASE UNCHANGED queue /\ ~ Sent'
    BY <1>7, <2>1, <2>2
  <2>3. ASSUME NEW message \in QueueMessages, Enqueue(DispatcherQueue, message),
               message = Stop <=> Sent'
        PROVE  FixInv'
    <3>1. /\ Dispatching /\ assembler_stops \in 0 .. 2 /\ dispatcher_stops \in 0 .. 2
          /\ ~ (assembler_stops >= 1) /\ ~ (dispatcher_stops >= 1)
      BY <1>1, <1>2, <2>1 DEF FixInv, TypeOK
    <3>2. /\ ~ StopIn(DispatcherQueue) /\ ~ StopIn(AssemblerQueue)
          /\ dispatcher # "forward" /\ assembler # "answer"
      BY <2>1, <3>1 DEF FixInv, OneStop
    <3>3. queue'[AssemblerQueue] = queue[AssemblerQueue]
      BY <1>1, <2>3, Connections, Enqueued
    <3>4. /\ StopIn(DispatcherQueue)' <=> message = Stop
          /\ OneStopIn(DispatcherQueue)'
          /\ PacketBehindStop(DispatcherQueue)' => PacketBehindStop(DispatcherQueue)
          /\ ForConsumersBehindStop(DispatcherQueue)
               => ForConsumersBehindStop(DispatcherQueue)'
      BY <1>1, <2>3, <3>2, Connections, QueueAfterEnqueue
    <3>5. Dispatching' <=> Dispatching
      BY <2>1 DEF Dispatching
    <3>6. OneStop'
      BY <1>4, <2>1, <2>3, <3>1, <3>2, <3>3, <3>4 DEF FixInv, OneStop
    <3> QED BY <1>4, <1>6, <2>1, <3>1, <3>2, <3>3, <3>4, <3>5, <3>6 DEF FixInv
  <2> QED BY <2>1, <2>2, <2>3
<1>9. CASE DispatcherStep
  <2>1. /\ UNCHANGED <<version, producerVars, assembler, assembler_stops>>
        /\ Sent' <=> Sent
    BY <1>5, <1>9 DEF DispatcherStep, DispatcherDequeue, Redirect, Forward, Propagate,
                      assemblerVars
  <2>2. /\ assembler_stops \in 0 .. 2 /\ dispatcher_stops \in 0 .. 2 /\ StopsToEnd' = 2
    BY <1>1, <1>2, <1>6, <2>1 DEF TypeOK
  <2>3. CASE DispatcherDequeue
    <3>1. PICK message : /\ message = dispatched' /\ Dequeue(DispatcherQueue, message)
                         /\ dispatcher = "consume"
                         /\ message = Stop => /\ dispatcher' = "forward"
                                              /\ dispatcher_stops' = dispatcher_stops + 1
                         /\ message # Stop => /\ dispatcher' = "redirect"
                                              /\ UNCHANGED dispatcher_stops
      BY <2>3 DEF DispatcherDequeue
    <3>2. queue'[AssemblerQueue] = queue[AssemblerQueue]
      BY <1>1, <3>1, Connections, Dequeued
    <3>3. /\ Dispatching /\ Dispatching' /\ OneStop
      BY <3>1 DEF Dispatching, FixInv
    <3>4. /\ StopIn(DispatcherQueue)' => StopIn(DispatcherQueue)
          /\ OneStopIn(DispatcherQueue)'
          /\ PacketBehindStop(DispatcherQueue)' => PacketBehindStop(DispatcherQueue)
          /\ ForConsumersBehindStop(DispatcherQueue)'
          /\ ForConsumers(DispatcherQueue) =>
               /\ ForConsumers(DispatcherQueue)'
               /\ message # Stop => message.target \in Consumers
      BY <1>1, <3>1, <3>3, Connections, QueueAfterDequeue DEF FixInv, OneStop
    <3>5. CASE message = Stop
      <4>1. /\ StopIn(DispatcherQueue) /\ ~ StopIn(DispatcherQueue)'
            /\ ForConsumers(DispatcherQueue)'
            /\ ~ PacketBehindStop(DispatcherQueue) => NoPacketIn(DispatcherQueue)'
        BY <1>1, <3>1, <3>3, <3>5, Connections, QueueAfterDequeue DEF FixInv, OneStop
      <4>2. /\ ~ StopIn(AssemblerQueue) /\ assembler # "answer" /\ Sent
        BY <3>3, <4>1 DEF OneStop
      <4>3. OneStop'
        BY <1>4, <2>1, <3>1, <3>2, <3>3, <3>4, <3>5, <4>1, <4>2 DEF OneStop
      <4>4. ASSUME dispatcher_stops' = 2
            PROVE  /\ NoPacketIn(DispatcherQueue)' /\ NoPacketIn(AssemblerQueue)
                   /\ assembler # "assemble"
        <5>1. dispatcher_stops >= 1
          BY <2>2, <3>1, <3>5, <4>4
        <5>2. assembler_stops >= 1
          BY <3>1, <4>2, <5>1 DEF FixInv
        <5>3. ~ PacketBehindStop(DispatcherQueue)
          BY <2>2, <5>2 DEF FixInv
        <5> QED BY <4>1, <5>2, <5>3 DEF FixInv
      <4> QED BY <1>4, <2>1, <2>2, <3>1, <3>2, <3>3, <3>4, <3>5, <4>1, <4>2, <4>3, <4>4
              DEF FixInv
    <3>6. CASE message # Stop
      <4>1. StopIn(DispatcherQueue)' <=> StopIn(DispatcherQueue)
        BY <1>1, <3>1, <3>4, <3>6, Connections, QueueAfterDequeue
      <4>2. OneStop'
        BY <1>4, <2>1, <3>1, <3>2, <3>3, <3>4, <3>6, <4>1 DEF OneStop
      <4>3. dispatcher' = "redirect" /\ dispatched' = message /\ UNCHANGED dispatcher_stops
        BY <3>1, <3>6
      <4> QED BY <1>4, <2>1, <2>2, <3>1, <3>2, <3>3, <3>4, <3>6, <4>1, <4>2, <4>3 DEF FixInv
    <3> QED BY <3>5, <3>6
  <2>4. CASE Redirect
    <3>1. /\ dispatcher = "redirect" /\ dispatcher' = "consume" /\ dispatcher_stops' = 0
          /\ UNCHANGED dispatched /\ Enqueue(dispatched.target, dispatched)
      BY <2>4 DEF Redirect
    <3>2. PICK packet \in Packets : packet = dispatched
      BY <1>1, <3>1 DEF TypeOK
    <3>3. PICK t \in Queues : t = packet.target /\ t # DispatcherQueue
      BY StopIsNoPacket DEF Queues, DispatcherQueue
    <3>4. /\ Enqueue(t, packet) /\ packet \in QueueMessages /\ packet # Stop
      BY <1>1, <3>1, <3>2, <3>3, StopIsNoPacket
    <3>5. queue'[DispatcherQueue] = queue[DispatcherQueue]
      BY <1>1, <3>3, <3>4, Connections, Enqueued
    <3>6. /\ Dispatching /\ Dispatching' /\ OneStop
      BY <3>1 DEF Dispatching, FixInv
    <3>7. CASE t = AssemblerQueue
      <4>1. ~ (assembler_stops >= 1) /\ ~ StopIn(AssemblerQueue)
        BY <3>1, <3>2, <3>3, <3>7, Connections DEF FixInv
      <4>2. /\ ~ StopIn(AssemblerQueue)' /\ OneStopIn(AssemblerQueue)'
            /\ ~ PacketBehindStop(AssemblerQueue)'
        BY <1>1, <3>4, <3>7, <4>1, Connections, QueueAfterEnqueue DEF FixInv
      <4>3. OneStop'
        BY <1>3, <2>1, <3>1, <3>5, <3>6, <4>1, <4>2 DEF OneStop
      <4> QED BY <1>3, <2>1, <2>2, <3>1, <3>5, <3>6, <4>1, <4>2, <4>3 DEF FixInv
    <3>8. CASE t # AssemblerQueue
      <4>1. queue'[AssemblerQueue] = queue[AssemblerQueue]
        BY <1>1, <3>4, <3>8, Connections, Enqueued
      <4>2. OneStop'
        BY <1>3, <1>4, <2>1, <3>1, <3>5, <3>6, <4>1 DEF OneStop
      <4> QED BY <1>3, <1>4, <2>1, <2>2, <3>1, <3>5, <3>6, <4>1, <4>2 DEF FixInv
    <3> QED BY <3>7, <3>8
  <2>5. CASE Forward
    <3>1. /\ dispatcher = "forward" /\ Enqueue(AssemblerQueue, Stop)
          /\ dispatcher' = IF dispatcher_stops < StopsToEnd THEN "consume" ELSE "propagate"
          /\ UNCHANGED <<dispatcher_stops, dispatched>>
      BY <2>5 DEF Forward
    <3>2. /\ dispatcher' \in {"consume", "propagate"}
          /\ dispatcher' = "propagate" => dispatcher_stops = 2
      BY <1>2, <2>2, <3>1
    <3>3. /\ Dispatching /\ OneStop /\ Sent /\ ~ StopIn(DispatcherQueue)
          /\ ~ StopIn(AssemblerQueue) /\ assembler # "answer"
      BY <3>1 DEF Dispatching, FixInv, OneStop
    <3>4. queue'[DispatcherQueue] = queue[DispatcherQueue]
      BY <1>1, <3>1, Connections, Enqueued
    <3>5. /\ StopIn(AssemblerQueue)' /\ OneStopIn(AssemblerQueue)'
          /\ NoPacketIn(AssemblerQueue) => NoPacketIn(AssemblerQueue)'
          /\ PacketBehindStop(AssemblerQueue)' => PacketBehindStop(AssemblerQueue)
      BY <1>1, <3>1, <3>3, Connections, QueueAfterEnqueue
    <3>6. OneStop'
      BY <1>3, <2>1, <3>2, <3>3, <3>4, <3>5 DEF OneStop
    <3>7. Dispatching' <=> dispatcher' = "consume"
      BY <3>2 DEF Dispatching
    <3> QED BY <1>2, <1>3, <2>1, <2>2, <3>1, <3>2, <3>3, <3>4, <3>5, <3>6, <3>7 DEF FixInv
  <2>6. CASE Propagate
    <3>1. /\ dispatcher = "propagate" /\ dispatcher' \in {"propagate", "done"}
          /\ UNCHANGED <<dispatcher_stops, dispatched>>
          /\ UNCHANGED queue \/ \E t \in Queues \ {DispatcherQueue} : Enqueue(t, Stop)
      <4>1. CASE propagated + 1 \in toQueues
        <5>1. PICK t \in Queues \ {DispatcherQueue} : t = propagated + 1
          BY <4>1, Connections DEF DispatcherQueue
        <5> QED BY <2>6, <4>1, <5>1 DEF Propagate
      <4>2. CASE propagated + 1 \notin toQueues
        BY <2>6, <4>2 DEF Propagate
      <4> QED BY <4>1, <4>2
    <3>2. queue'[DispatcherQueue] = queue[DispatcherQueue]
      BY <1>1, <3>1, Connections, Enqueued
    <3>3. ~ Dispatching /\ ~ Dispatching'
      BY <3>1 DEF Dispatching
    <3>4. NoPacketIn(DispatcherQueue) => ForConsumers(DispatcherQueue)
      BY DEF NoPacketIn, ForConsumers
    <3>5. CASE queue'[AssemblerQueue] = queue[AssemblerQueue]
      BY <1>3, <1>4, <2>1, <2>2, <3>1, <3>2, <3>3, <3>5 DEF FixInv
    <3>6. CASE Enqueue(AssemblerQueue, Stop)
      <4>1. /\ NoPacketIn(AssemblerQueue) => NoPacketIn(AssemblerQueue)'
            /\ PacketBehindStop(AssemblerQueue)' => PacketBehindStop(AssemblerQueue)
            /\ StopIn(AssemblerQueue)'
        BY <1>1, <3>6, Connections, QueueAfterEnqueue
      <4> QED BY <1>3, <2>1, <2>2, <3>1, <3>2, <3>3, <3>4, <4>1 DEF FixInv
    <3> QED BY <1>1, <3>1, <3>5, <3>6, Connections, Enqueued
  <2> QED BY <1>9, <2>3, <2>4, <2>5, <2>6 DEF DispatcherStep
<1>10. CASE AssemblerStep
  <2>1. /\ UNCHANGED <<version, producerVars, dispatcher, dispatcher_stops, dispatched>>
        /\ Sent' <=> Sent
    BY <1>5, <1>10 DEF AssemblerStep, AssemblerDequeue, LosePacket, PassPacket, Answer,
                       dispatcherVars
  <2>2. /\ assembler_stops \in 0 .. 2 /\ dispatcher_stops \in 0 .. 2 /\ StopsToEnd' = 2
        /\ Dispatching' <=> Dispatching
    BY <1>1, <1>2, <1>6, <2>1 DEF TypeOK, Dispatching
  <2>3. CASE AssemblerDequeue
    <3>1. PICK message : /\ message = assembled' /\ Dequeue(AssemblerQueue, message)
                         /\ assembler = "consume"
                         /\ message = Stop => /\ assembler' = "answer"
                                              /\ assembler_stops' = assembler_stops + 1
                         /\ message # Stop => /\ assembler' = "assemble"
                                              /\ assembler_stops' = 0
      BY <2>3 DEF AssemblerDequeue
    <3>2. queue'[DispatcherQueue] = queue[DispatcherQueue]
      BY <1>1, <3>1, Connections, Dequeued
    <3>3. /\ StopIn(AssemblerQueue)' => StopIn(AssemblerQueue)
          /\ OneStopIn(AssemblerQueue) => OneStopIn(AssemblerQueue)'
          /\ PacketBehindStop(AssemblerQueue)' => PacketBehindStop(AssemblerQueue)
          /\ NoPacketIn(AssemblerQueue) => NoPacketIn(AssemblerQueue)'
      BY <1>1, <3>1, Connections, QueueAfterDequeue
    <3>4. CASE message = Stop
      <4>1. /\ StopIn(AssemblerQueue)
            /\ OneStopIn(AssemblerQueue) => ~ StopIn(AssemblerQueue)'
            /\ ~ PacketBehindStop(AssemblerQueue) => NoPacketIn(AssemblerQueue)'
        BY <1>1, <3>1, <3>4, Connections, QueueAfterDequeue
      <4>2. NoPacketIn(DispatcherQueue) => ~ PacketBehindStop(DispatcherQueue)
        BY DEF NoPacketIn, PacketBehindStop
      <4>3. ~ StopIn(DispatcherQueue) => ~ PacketBehindStop(DispatcherQueue)
        BY DEF StopIn, PacketBehindStop
      <4>4. ~ PacketBehindStop(DispatcherQueue)
        BY <4>1, <4>2, <4>3 DEF FixInv, OneStop
      <4>5. /\ assembler' = "answer" /\ assembler_stops' >= 1 /\ Sent
        BY <2>2, <3>1, <3>4, <4>1 DEF FixInv, OneStop
      <4>6. OneStop => OneStop'
        BY <1>3, <2>1, <3>2, <3>3, <4>1, <4>5 DEF OneStop
      <4> QED BY <1>2, <1>3, <2>1, <2>2, <3>2, <3>3, <4>1, <4>4, <4>5, <4>6 DEF FixInv
    <3>5. CASE message # Stop
      <4>1. ~ NoPacketIn(AssemblerQueue) /\ (StopIn(AssemblerQueue)' <=> StopIn(AssemblerQueue))
        BY <1>1, <3>1, <3>5, Connections, QueueAfterDequeue
      <4>2. ~ (assembler_stops >= 1) /\ ~ (assembler_stops' >= 1) /\ assembler_stops' = 0
        BY <3>1, <3>5, <4>1 DEF FixInv
      <4>3. /\ Dispatching /\ ~ (dispatcher = "forward" /\ dispatcher_stops = StopsToEnd)
            /\ assembler' = "assemble"
        BY <3>1, <3>5, <4>1 DEF FixInv
      <4>4. OneStop => OneStop'
        BY <1>3, <2>1, <3>1, <3>2, <3>3, <4>1, <4>3 DEF OneStop
      <4> QED BY <1>2, <1>3, <2>1, <2>2, <3>2, <3>3, <4>1, <4>2, <4>3, <4>4 DEF FixInv
    <3> QED BY <3>4, <3>5
  <2>4. CASE LosePacket
    <3>1. /\ assembler = "assemble" /\ assembler' = "consume"
          /\ UNCHANGED <<queue, assembler_stops>>
      BY <2>4 DEF LosePacket
    <3>2. OneStop => OneStop'
      BY <1>3, <1>4, <2>1, <3>1 DEF OneStop
    <3> QED BY <1>2, <1>3, <1>4, <2>1, <2>2, <3>1, <3>2 DEF FixInv
  <2>5. CASE PassPacket
    <3>1. /\ assembler = "assemble" /\ assembler' = "consume" /\ UNCHANGED assembler_stops
          /\ \E target \in Consumers :
               Enqueue(DispatcherQueue, [assembled EXCEPT !.target = target])
      BY <1>2, <2>5 DEF PassPacket
    <3>2. PICK packet \in Packets :
            Enqueue(DispatcherQueue, packet) /\ packet.target \in Consumers
      <4>1. PICK message \in Packets : message = assembled
        BY <1>1, <3>1 DEF TypeOK
      <4>2. PICK target \in Consumers :
              Enqueue(DispatcherQueue, [message EXCEPT !.target = target])
        BY <3>1, <4>1
      <4>3. target \in 1 .. consumerCount + 1
        BY Connections DEF Consumers
      <4>4. /\ [message EXCEPT !.target = target] \in Packets
            /\ [message EXCEPT !.target = target].target = target
        BY <4>3 DEF Packets
      <4> QED BY <4>2, <4>4
    <3>3. queue'[AssemblerQueue] = queue[AssemblerQueue]
      BY <1>1, <3>2, Connections, Enqueued
    <3>4. /\ StopIn(DispatcherQueue)' <=> StopIn(DispatcherQueue)
          /\ OneStopIn(DispatcherQueue) => OneStopIn(DispatcherQueue)'
          /\ ForConsumers(DispatcherQueue) => ForConsumers(DispatcherQueue)'
          /\ ForConsumersBehindStop(DispatcherQueue)
               => ForConsumersBehindStop(DispatcherQueue)'
      BY <1>1, <3>2, Connections, QueueAfterEnqueue, StopIsNoPacket
    <3>5. /\ assembler_stops = 0 /\ Dispatching
          /\ ~ (dispatcher = "forward" /\ dispatcher_stops = StopsToEnd)
      BY <1>1, <3>1 DEF FixInv, CountInv
    <3>6. OneStop => OneStop'
      BY <1>4, <2>1, <3>1, <3>3, <3>4 DEF OneStop
    <3> QED BY <1>2, <1>4, <2>1, <2>2, <3>1, <3>3, <3>4, <3>5, <3>6 DEF FixInv
  <2>6. CASE Answer
    <3>1. /\ assembler = "answer" /\ assembler' \in {"consume", "done"}
          /\ Enqueue(DispatcherQueue, Stop) /\ UNCHANGED assembler_stops
      BY <2>6 DEF Answer
    <3>2. queue'[AssemblerQueue] = queue[AssemblerQueue]
      BY <1>1, <3>1, Connections, Enqueued
    <3>3. /\ StopIn(DispatcherQueue)'
          /\ ~ StopIn(DispatcherQueue) => OneStopIn(DispatcherQueue)'
          /\ NoPacketIn(DispatcherQueue) => NoPacketIn(DispatcherQueue)'
          /\ PacketBehindStop(DispatcherQueue)' => PacketBehindStop(DispatcherQueue)
          /\ ForConsumers(DispatcherQueue) => ForConsumers(DispatcherQueue)'
          /\ ForConsumersBehindStop(DispatcherQueue)
               => ForConsumersBehindStop(DispatcherQueue)'
      BY <1>1, <3>1, Connections, QueueAfterEnqueue
    <3>4. OneStop => OneStop'
      BY <1>4, <2>1, <3>1, <3>2, <3>3 DEF OneStop
    <3> QED BY <1>2, <1>4, <2>1, <2>2, <3>1, <3>2, <3>3, <3>4 DEF FixInv
  <2> QED BY <1>10, <2>3, <2>4, <2>5, <2>6 DEF AssemblerStep
<1>11. ASSUME NEW c \in Consumers, ConsumerStep(c) PROVE FixInv'
  <2>1. /\ UNCHANGED <<version, producerVars, dispatcher, dispatcher_stops, dispatched,
                      assembler, assembler_stops>>
        /\ \E message : Dequeue(c, message)
    BY <1>11 DEF ConsumerStep, dispatcherVars, assemblerVars
  <2>2. /\ queue'[DispatcherQueue] = queue[DispatcherQueue]
        /\ queue'[AssemblerQueue] = queue[AssemblerQueue]
    BY <1>1, <2>1, Connections, Dequeued
  <2> QED BY <1>5, <1>7, <2>1, <2>2
<1>12. CASE UNCHANGED vars
  <2>1. UNCHANGED <<version, producerVars, queue, dispatcher, dispatcher_stops, dispatched,
                   assembler, assembler_stops>>
    BY <1>12 DEF vars, dispatcherVars, assemblerVars
  <2> QED BY <1>5, <1>7, <2>1
<1> QED BY <1>8, <1>9, <1>10, <1>11, <1>12 DEF Next, Finished

-----------------------------------------------------------------------------
(* The theorems *)

LEMMA InitInv == Init => IInv
<1> SUFFICES ASSUME Init PROVE IInv
  OBVIOUS
<1>1. /\ Base /\ PlaceInv
  BY BaseInit, PlaceInit
<1>2. /\ \A q \in Queues : queue[q] = <<>>
      /\ dispatcher = "consume" /\ dispatcher_stops = 0
      /\ assembler = "consume" /\ assembler_stops = 0
      /\ \A c \in Consumers : consumer[c] = "consume"
  BY DEF Init
<1>3. \A q \in Queues :
        /\ ~ StopIn(q) /\ StopIsLastIn(q) /\ OneStopIn(q) /\ NoPacketIn(q)
        /\ ~ PacketBehindStop(q) /\ ForConsumers(q) /\ ForConsumersBehindStop(q)
  BY <1>2, QueueEmpty
<1>4. ~ Sent
  <2>1. 1 \in Producers
    BY NetworkAssumption DEF Producers
  <2>2. producer[1] = "draw"
    BY <2>1 DEF Init
  <2> QED BY <2>1, <2>2 DEF Sent
<1>5. Dispatching
  BY <1>2 DEF Dispatching
<1>6. EndInv
  BY <1>2, <1>3, Connections DEF EndInv
<1>7. LineInv
  BY <1>2, <1>3, <1>5, Connections DEF LineInv
<1>8. OneStop
  BY <1>2, <1>3, <1>4, Connections DEF OneStop
<1>9. FixInv
  BY <1>2, <1>3, <1>5, <1>8, Connections DEF FixInv
<1> QED BY <1>1, <1>6, <1>7, <1>9 DEF IInv, Base

LEMMA StepInv == IInv /\ [Next]_vars => IInv'
<1> SUFFICES ASSUME IInv, [Next]_vars PROVE IInv'
  OBVIOUS
<1>1. Base /\ PlaceInv /\ EndInv
  BY DEF IInv, Base
<1>2. Base' /\ PlaceInv'
  BY <1>1, BaseStep, PlaceStep
<1>3. CASE Next
  <2>1. EndInv'
    BY <1>1, <1>3, EndInvStep
  <2>2. UNCHANGED version
    BY <1>3 DEF Next, Finished, vars, ProducerStep, Draw, Produce, ProduceStop,
         DispatcherStep, DispatcherDequeue, Redirect, Forward, Propagate, AssemblerStep,
         AssemblerDequeue, LosePacket, PassPacket, Answer, ConsumerStep
  <2>3. ~ Looped' => LineInv'
    BY <1>1, <1>3, <2>2, SameVersion, LineInvStep DEF IInv
  <2>4. version' = "packet_loss_fix" => FixInv'
    BY <1>1, <1>3, <2>2, FixInvStep DEF IInv
  <2> QED BY <1>2, <2>1, <2>3, <2>4 DEF IInv, Base
<1>4. CASE UNCHANGED vars
  <2>1. UNCHANGED <<version, producerVars, queue, dispatcher, dispatcher_stops, dispatched,
                   propagated, assembler, assembler_stops, assembled, consumer>>
    BY <1>4 DEF vars, dispatcherVars, assemblerVars, consumerVars
  <2>2. /\ Looped' = Looped /\ StopsToEnd' = StopsToEnd /\ (Sent' <=> Sent)
        /\ Dispatching' <=> Dispatching
    BY <2>1, SameVersion DEF Sent, producerVars, Dispatching
  <2>3. \A q : /\ StopIn(q)' <=> StopIn(q)
               /\ StopIsLastIn(q)' <=> StopIsLastIn(q)
               /\ OneStopIn(q)' <=> OneStopIn(q)
               /\ NoPacketIn(q)' <=> NoPacketIn(q)
               /\ PacketBehindStop(q)' <=> PacketBehindStop(q)
               /\ ForConsumers(q)' <=> ForConsumers(q)
               /\ ForConsumersBehindStop(q)' <=> ForConsumersBehindStop(q)
    BY <2>1, QueueKept
  <2>4. EndInv'
    BY <1>1, <2>1, <2>3 DEF EndInv
  <2>5. LineInv => LineInv'
    BY <2>1, <2>2, <2>3 DEF LineInv
  <2>6. FixInv => FixInv'
    BY <2>1, <2>2, <2>3 DEF FixInv, OneStop
  <2> QED BY <1>2, <2>1, <2>2, <2>4, <2>5, <2>6 DEF IInv, Base
<1> QED BY <1>3, <1>4

\* Every reachable state of the five simulations satisfies the inductive invariant:
\* the counts of Draw, the place of each packet, and where the stop conditions of
\* ProduceStop, Forward, Answer and Propagate are.
THEOREM Invariance == Spec => []IInv
BY InitInv, StepInv, PTL DEF Spec

\* The variables of the threads and the messages of the queues stay in their ranges;
\* in particular the counts of drawn numbers and of stop conditions are bounded.
THEOREM TypeCorrect == Spec => []TypeOK
<1>1. IInv => TypeOK
  BY DEF IInv
<1> QED BY <1>1, Invariance, PTL

\* ProducerTest: the producer whose draw is the last one past the end sends the stop
\* condition, and by then every other producer has ended.
THEOREM StopComesLast == Spec => []StopIsLast
<1>1. IInv => StopIsLast
  BY DEF IInv, ProducerInv, StopIsLast
<1> QED BY <1>1, Invariance, PTL

\* Queue, Assembler::consume, Dispatcher::consume and Consumer::consume: each packet
\* that was produced is in one place, and no packet is anywhere before that.
THEOREM NoPacketLostOrDoubled == Spec => []PacketInOnePlace
<1>1. IInv => PacketInOnePlace
  <2> SUFFICES ASSUME IInv, NEW number \in Numbers
               PROVE  Cardinality(PlacesOf(number)) = IF Produced(number) THEN 1 ELSE 0
    BY DEF PacketInOnePlace, Produced
  <2>1. queue \in [Queues -> Seq(QueueMessages)] /\ Located(number)
    BY PlaceInvLocated DEF IInv, TypeOK, QueueMessages
  <2>2. \A q \in Queues : DOMAIN queue[q] = 1 .. Len(queue[q]) /\ Len(queue[q]) \in Nat
    BY <2>1, LenProperties
  <2>3. \A place : place \in PlacesOf(number) <=>
          \E q \in Queues, i \in Nat : place = <<q, i>> /\ Placed(number, q, i)
    <3> SUFFICES ASSUME NEW place
                 PROVE  place \in PlacesOf(number) <=>
                          \E q \in Queues, i \in Nat :
                            place = <<q, i>> /\ Placed(number, q, i)
      OBVIOUS
    <3> DEFINE held   == {<<q, 0>> : q \in {q \in Queues : Holds(number, q)}}
               waiting == UNION {{q} \X {i \in DOMAIN queue[q] :
                                          queue[q][i].messageNumber = number} : q \in Queues}
    <3>1. PlacesOf(number) = held \cup waiting
      BY DEF PlacesOf, Holds
    <3>2. place \in held <=> \E q \in Queues : place = <<q, 0>> /\ Holds(number, q)
      OBVIOUS
    <3>3. place \in waiting <=>
            \E q \in Queues : \E i \in DOMAIN queue[q] :
              place = <<q, i>> /\ queue[q][i].messageNumber = number
      OBVIOUS
    <3>4. place \in waiting <=>
            \E q \in Queues, i \in Nat : place = <<q, i>> /\ Waits(number, q, i)
      BY <2>2, <3>3 DEF Waits
    <3>5. place \in held <=>
            \E q \in Queues, i \in Nat : place = <<q, i>> /\ i = 0 /\ Holds(number, q)
      BY <3>2
    <3> QED BY <3>1, <3>4, <3>5 DEF Placed
  <2>4. CASE Produced(number)
    <3>1. PICK q \in Queues, i \in Nat : \A r \in Queues, j \in Nat :
            Placed(number, r, j) <=> r = q /\ j = i
      BY <2>1, <2>4 DEF Located
    <3>2. PlacesOf(number) = {<<q, i>>}
      BY <2>3, <3>1
    <3>3. Cardinality({<<q, i>>}) = 1
      BY FS_Singleton
    <3> QED BY <2>4, <3>2, <3>3
  <2>5. CASE ~ Produced(number)
    <3>1. PlacesOf(number) = {}
      BY <2>1, <2>3, <2>5 DEF Located
    <3> QED BY <2>5, <3>1, FS_EmptySet
  <2> QED BY <2>4, <2>5
<1> QED BY <1>1, Invariance, PTL

\* ConsumerTest, AssemblerTest and DispatcherTest: a thread whose consume loop ended
\* left no packet in its queue, and when the dispatcher sends its stop conditions no
\* packet can come to it any more; of packet_loss only the first is promised.
THEOREM QueuesAreLeftEmpty == Spec => []NoPacketLeft
<1>1. IInv => NoPacketLeft
  <2> SUFFICES ASSUME IInv PROVE NoPacketLeft
    OBVIOUS
  <2>1. /\ TypeOK /\ EndInv /\ (~ Looped => LineInv)
        /\ version = "packet_loss_fix" => FixInv
        /\ assembler = "done" => assembler_stops >= 1
    BY DEF IInv, CountInv
  <2>2. \A q \in Queues : Len(queue[q]) \in Nat /\ DOMAIN queue[q] = 1 .. Len(queue[q])
    BY <2>1, LenProperties DEF TypeOK
  <2>3. \A q \in Queues : NoPacketIn(q) => \A i \in DOMAIN queue[q] : queue[q][i] = Stop
    BY <2>2 DEF NoPacketIn, PacketAt
  <2>4. \A q \in Queues : queue[q] = <<>> => NoPacketIn(q)
    BY QueueEmpty
  <2>5. /\ version = "packet_loss" \/ version = "packet_loss_fix" \/ ~ Looped
        /\ version = "packet_loss" => Looped
    BY DEF Looped
  <2>6. \A c \in Consumers : consumer[c] = "done" => NoPacketIn(c)
    BY <2>1, <2>4, Connections DEF EndInv
  <2>7. assembler = "done" => NoPacketIn(AssemblerQueue)
    <3>1. CASE version = "packet_loss"
      BY <2>1, <2>4, <3>1, Connections DEF EndInv
    <3>2. CASE version = "packet_loss_fix"
      BY <2>1, <3>2 DEF FixInv
    <3>3. CASE ~ Looped
      BY <2>1, <2>4, <3>3, Connections DEF LineInv
    <3> QED BY <2>5, <3>1, <3>2, <3>3
  <2>8. ASSUME version # "packet_loss", dispatcher \in {"propagate", "done"}
        PROVE  /\ NoPacketIn(DispatcherQueue) /\ NoPacketIn(AssemblerQueue)
               /\ assembler # "assemble"
    <3>1. ~ Dispatching
      BY <2>8 DEF Dispatching
    <3>2. CASE version = "packet_loss_fix"
      BY <2>1, <3>1, <3>2 DEF FixInv
    <3>3. CASE ~ Looped
      BY <2>1, <2>4, <3>1, <3>3, Connections DEF LineInv
    <3> QED BY <2>5, <2>8, <3>2, <3>3
  <2> QED BY <2>3, <2>6, <2>7, <2>8, Connections DEF NoPacketLeft
<1> QED BY <1>1, Invariance, PTL

\* packet_loss_fix: until the dispatcher met the stop condition twice, the number of
\* stop conditions in the loop, those about to be sent counted, is one if the producer
\* ended and zero before.
THEOREM StopGoesRound == Spec => []OneStopGoesRound
<1>1. IInv => OneStopGoesRound
  <2> DEFINE stops(q) == {i \in DOMAIN queue[q] : queue[q][i] = Stop}
  <2> SUFFICES ASSUME IInv, version = "packet_loss_fix", Dispatching
               PROVE  Cardinality(stops(DispatcherQueue)) + Cardinality(stops(AssemblerQueue))
                        + (IF dispatcher = "forward" THEN 1 ELSE 0)
                        + (IF assembler = "answer" THEN 1 ELSE 0)
                      = IF producer[1] = "done" THEN 1 ELSE 0
    BY DEF OneStopGoesRound, Dispatching
  <2>1. TypeOK /\ OneStop
    BY DEF IInv, FixInv
  <2>2. \A q \in Queues : Len(queue[q]) \in Nat /\ DOMAIN queue[q] = 1 .. Len(queue[q])
    BY <2>1, LenProperties DEF TypeOK
  <2>3. \A q \in Queues : \A i : i \in stops(q) <=> i \in 1 .. Len(queue[q]) /\ StopAt(q, i)
    BY <2>2 DEF StopAt
  <2>4. ASSUME NEW q \in Queues, OneStopIn(q)
        PROVE  Cardinality(stops(q)) = IF StopIn(q) THEN 1 ELSE 0
    <3>1. CASE StopIn(q)
      <4>1. PICK i \in 1 .. Len(queue[q]) : StopAt(q, i)
        BY <3>1 DEF StopIn
      <4>2. stops(q) = {i}
        BY <2>3, <2>4, <4>1 DEF OneStopIn
      <4>3. Cardinality({i}) = 1
        BY FS_Singleton
      <4> QED BY <3>1, <4>2, <4>3
    <3>2. CASE ~ StopIn(q)
      <4>1. stops(q) = {}
        BY <2>3, <3>2 DEF StopIn
      <4> QED BY <3>2, <4>1, FS_EmptySet
    <3> QED BY <3>1, <3>2
  <2>5. Sent <=> producer[1] = "done"
    BY DEF Sent, Producers
  <2>6. /\ Cardinality(stops(DispatcherQueue)) = IF StopIn(DispatcherQueue) THEN 1 ELSE 0
        /\ Cardinality(stops(AssemblerQueue)) = IF StopIn(AssemblerQueue) THEN 1 ELSE 0
    BY <2>1, <2>4, Connections DEF OneStop
  <2> QED BY <2>1, <2>5, <2>6 DEF OneStop
<1> QED BY <1>1, Invariance, PTL
=============================================================================
