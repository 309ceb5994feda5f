----------------------------- MODULE JobProofs -----------------------------
(***************************************************************************)
(* Proofs about the job: how omp_mpi distributes its plates (MpiJob), for  *)
(* every number of processes and of plates, every number of states a plate *)
(* may need and every width of MPI_INT; and the memory, files and errors   *)
(* of a job (JobFile), for every length of the job file, every starting    *)
(* capacity of the array of plates and every set of failures.              *)
(***************************************************************************)
EXTENDS MpiJob, JobFile, FiniteSetTheorems, SequenceTheorems, TLAPS

(* The distribution of the plates: MpiJob *)

-----------------------------------------------------------------------------
(* Channels, and the number an MPI_INT carries *)

\* A channel holds two messages at most.
LEMMA TwoMessages ==
  ASSUME NEW a \in Nat, NEW b \in Nat
  PROVE  Append(<<a>>, b) = <<a, b>>
<1> DEFINE both == Append(<<a>>, b)
<1>1. <<a>> \in Seq(Nat) /\ Len(<<a>>) = 1 /\ <<a>>[1] = a
  OBVIOUS
<1>2. both \in Seq(Nat) /\ Len(both) = 2 /\ both[1] = a /\ both[2] = b
  BY <1>1, AppendProperties
<1> HIDE DEF both
<1>3. <<a, b>> \in Seq(Nat) /\ Len(<<a, b>>) = 2
  OBVIOUS
<1>4. \A i \in 1 .. Len(both) : both[i] = <<a, b>>[i]
  BY <1>2
<1>5. both = <<a, b>>
  BY <1>2, <1>3, <1>4, SeqEqual
<1> QED BY <1>5 DEF both

LEMMA Messages ==
  ASSUME NEW a \in Nat, NEW b \in Nat
  PROVE  /\ Append(<<>>, a) = <<a>> /\ Append(<<a>>, b) = <<a, b>>
         /\ Head(<<a>>) = a /\ Tail(<<a>>) = <<>>
         /\ Head(<<a, b>>) = a /\ Tail(<<a, b>>) = <<b>>
         /\ <<a>> # <<>> /\ <<a, b>> # <<>> /\ <<a, b>> # <<b>> /\ <<b>> # <<a, b>>
         /\ <<a>> = <<b>> => a = b
         /\ <<>> \in Seq(Nat) /\ <<a>> \in Seq(Nat) /\ <<a, b>> \in Seq(Nat)
<1>1. Append(<<a>>, b) = <<a, b>>
  BY TwoMessages
<1> QED BY <1>1

LEMMA SentStatesFit ==
  ASSUME NEW plate \in Plates, plates_count \in JobSizes
  PROVE  /\ StatesOf(plate) \in Nat /\ SentStates(plate) \in Nat
         /\ StatesOf(plate) < IntRange => SentStates(plate) = StatesOf(plate)
<1>1. StatesOf(plate) \in Nat /\ IntRange \in Nat \ {0}
  BY MpiAssumption DEF Plates
<1>2. ASSUME NEW x \in Nat, NEW y \in Nat \ {0}
      PROVE  x % y \in Nat /\ (x < y => x % y = x)
  OBVIOUS
<1> QED BY <1>1, <1>2 DEF SentStates

-----------------------------------------------------------------------------
(* Where a worker is *)

\* A step that leaves a worker, its channels and what the master expects of it
\* alone leaves the worker where it is.
LEMMA Undisturbed ==
  ASSUME NEW w \in Workers, plates_count' = plates_count,
         worker'[w] = worker[w], working_plate_idx'[w] = working_plate_idx[w],
         to_worker'[w] = to_worker[w], from_worker'[w] = from_worker[w],
         Expected(w)' <=> Expected(w),
         Expected(w) => received_plate_idx' = received_plate_idx
  PROVE  /\ Idle(w)' <=> Idle(w)
         /\ Told(w)' <=> Told(w)
         /\ Left(w)' <=> Left(w)
         /\ \A plate \in Plates : /\ Unwritten(w, plate)' <=> Unwritten(w, plate)
                                  /\ Written(w, plate)' <=> Written(w, plate)
                                  /\ Out(w, plate)' <=> Out(w, plate)
<1>1. ASSUME NEW plate \in Plates
      PROVE  /\ Unwritten(w, plate)' <=> Unwritten(w, plate)
             /\ Written(w, plate)' <=> Written(w, plate)
  BY DEF Unwritten, Written, SentStates
<1> QED BY <1>1 DEF Idle, Told, Left, Out

\* A worker is in one place: with a plate, without one, or told to leave.
OnePlace ==
  \A w \in Workers, plate \in Plates : Out(w, plate) =>
    /\ ~ Idle(w) /\ ~ Told(w) /\ ~ Left(w)
    /\ Unwritten(w, plate) <=> ~ Written(w, plate)
    /\ \A other \in Plates : Out(w, other) => other = plate

LEMMA AlwaysOnePlace == plates_count \in JobSizes => OnePlace
<1> SUFFICES ASSUME plates_count \in JobSizes PROVE OnePlace
  OBVIOUS
<1>1. plates_count \in Nat /\ \A p \in Plates : p \in Nat /\ p # plates_count
  BY MpiAssumption DEF Plates
<1>2. \A p \in Plates : /\ SentStates(p) \in Nat
                        /\ <<p>> # <<>> /\ <<p, SentStates(p)>> # <<>>
                        /\ <<SentStates(p)>> # <<>> /\ <<p>> # <<plates_count>>
                        /\ \A q \in Plates : <<p>> = <<q>> => p = q
  BY <1>1, SentStatesFit, Messages
<1>3. ASSUME NEW w \in Workers, NEW plate \in Plates, Out(w, plate)
      PROVE  /\ ~ Idle(w) /\ ~ Told(w) /\ ~ Left(w)
             /\ Unwritten(w, plate) <=> ~ Written(w, plate)
             /\ \A other \in Plates : Out(w, other) => other = plate
  BY <1>2, <1>3 DEF Out, Unwritten, Written, Idle, Told, Left
<1> QED BY <1>3 DEF OnePlace

LEMMA OnePlaceNext == (plates_count \in JobSizes => OnePlace)'
  BY AlwaysOnePlace, PTL

\* A worker that received one message and not the states that follow it has sent
\* them last, or has yet to send them.
LEMMA ExpectedPlate ==
  ASSUME WorkerInv, NEW w \in Workers, Expected(w)
  PROVE  \E plate \in Plates : Written(w, plate) /\ received_plate_idx = plate
BY DEF WorkerInv, Idle, Told, Left, Busy, Out, Unwritten, Written

-----------------------------------------------------------------------------
(* The steps of a worker *)

\* A plate that is received stays with the worker; a worker that receives the
\* signal leaves.
LEMMA PlateReceived ==
  ASSUME TypeOK, WorkerInv, NEW w \in Workers, ReceivePlate(w)
  PROVE  /\ \/ \E plate \in Plates : Unwritten(w, plate) /\ Unwritten(w, plate)'
            \/ Told(w) /\ Left(w)'
         /\ to_worker'[w] = <<>> /\ working_plate_idx'[w] \in Nat
<1>1. /\ worker[w] = "receive" /\ to_worker[w] # <<>>
      /\ to_worker'[w] = Tail(to_worker[w])
      /\ working_plate_idx'[w] = Head(to_worker[w])
      /\ worker'[w] = IF Head(to_worker[w]) >= plates_count THEN "done"
                                                           ELSE "process_plate"
      /\ from_worker' = from_worker /\ (Expected(w)' <=> Expected(w))
      /\ plates_count' = plates_count
  BY DEF ReceivePlate, TypeOK, started, masterVars, Expected
<1>2. plates_count \in Nat /\ \A p \in Plates : p \in Nat /\ ~ (p >= plates_count)
  BY MpiAssumption DEF TypeOK, Plates
<1>3. Told(w) \/ \E plate \in Plates : Unwritten(w, plate)
  BY <1>1 DEF WorkerInv, Idle, Left, Busy, Out, Written
<1>4. CASE Told(w)
  <2>1. /\ to_worker'[w] = <<>> /\ working_plate_idx'[w] = plates_count
        /\ worker'[w] = "done"
    BY <1>1, <1>2, <1>4, Messages DEF Told
  <2> QED BY <1>1, <1>2, <1>4, <2>1 DEF Told, Left
<1>5. ASSUME NEW plate \in Plates, Unwritten(w, plate)
      PROVE  /\ Unwritten(w, plate)' /\ to_worker'[w] = <<>>
             /\ working_plate_idx'[w] \in Nat
  <2>1. to_worker[w] = <<plate>>
    BY <1>1, <1>5 DEF Unwritten
  <2>2. /\ to_worker'[w] = <<>> /\ working_plate_idx'[w] = plate
        /\ worker'[w] = "process_plate"
    BY <1>1, <1>2, <2>1, Messages
  <2> QED BY <1>1, <1>2, <1>5, <2>2 DEF Unwritten
<1> QED BY <1>3, <1>4, <1>5

\* The plate that is simulated is the one the worker has, and its file is
\* written then.
LEMMA PlateProcessed ==
  ASSUME TypeOK, WorkerInv, NEW w \in Workers, ProcessPlate(w)
  PROVE  \E plate \in Plates :
           /\ Unwritten(w, plate) /\ Written(w, plate)'
           /\ plate_files' = [plate_files EXCEPT ![plate] = @ + 1]
<1>1. PICK plate \in Plates : Unwritten(w, plate) /\ working_plate_idx[w] = plate
  BY DEF ProcessPlate, WorkerInv, Idle, Told, Left, Busy, Out, Written, Unwritten
<1>2. /\ worker[w] = "process_plate" /\ worker'[w] = "send_index"
      /\ (Expected(w)' <=> Expected(w))
      /\ UNCHANGED <<to_worker, from_worker, working_plate_idx>>
      /\ plate_files' = [plate_files EXCEPT ![plate] = @ + 1]
  BY <1>1 DEF ProcessPlate, TypeOK, masterVars, Expected
<1>3. Written(w, plate)'
  BY <1>1, <1>2 DEF Unwritten, Written
<1> QED BY <1>1, <1>2, <1>3

\* The two messages of the answer are about the plate the worker has.
LEMMA AnswerSent ==
  ASSUME TypeOK, WorkerInv, NEW w \in Workers, SendIndex(w) \/ SendStates(w)
  PROVE  /\ \E plate \in Plates : Written(w, plate) /\ Written(w, plate)'
         /\ from_worker'[w] \in Seq(Nat)
<1>1. PICK plate \in Plates : Written(w, plate) /\ working_plate_idx[w] = plate
  BY DEF SendIndex, SendStates, WorkerInv, Idle, Told, Left, Busy, Out, Written, Unwritten
<1>2. plate \in Nat /\ SentStates(plate) \in Nat
  BY SentStatesFit, MpiAssumption DEF TypeOK, Plates
<1>3. /\ UNCHANGED <<to_worker, working_plate_idx, received_plate_idx>>
      /\ (Expected(w)' <=> Expected(w)) /\ SentStates(plate)' = SentStates(plate)
  BY DEF SendIndex, SendStates, masterVars, Expected
<1>4. CASE SendIndex(w)
  <2>1. /\ worker[w] = "send_index" /\ worker'[w] = "send_states"
        /\ from_worker'[w] = Append(from_worker[w], plate)
    BY <1>1, <1>4 DEF SendIndex, SendToMaster, TypeOK
  <2>2. from_worker[w] = <<>> /\ ~ Expected(w)
    BY <1>1, <2>1 DEF Written
  <2>3. from_worker'[w] = <<plate>>
    BY <1>2, <2>1, <2>2, Messages
  <2> QED BY <1>1, <1>2, <1>3, <2>1, <2>2, <2>3, Messages DEF Written
<1>5. CASE SendStates(w)
  <2>1. /\ worker[w] = "send_states" /\ worker'[w] = "receive"
        /\ from_worker'[w] = Append(from_worker[w], SentStates(plate))
    BY <1>1, <1>5 DEF SendStates, SendToMaster, TypeOK
  <2>2. CASE Expected(w)
    <3>1. from_worker[w] = <<>> /\ received_plate_idx = plate
      BY <1>1, <2>1, <2>2 DEF Written
    <3>2. from_worker'[w] = <<SentStates(plate)>>
      BY <1>2, <2>1, <3>1, Messages
    <3> QED BY <1>1, <1>2, <1>3, <2>1, <2>2, <3>1, <3>2, Messages DEF Written
  <2>3. CASE ~ Expected(w)
    <3>1. /\ from_worker[w] = <<plate>> /\ to_worker[w] = <<>>
          /\ working_plate_idx[w] = plate
      BY <1>1, <2>1, <2>3 DEF Written
    <3>2. from_worker'[w] = <<plate, SentStates(plate)>>
      <4>1. Append(<<plate>>, SentStates(plate)) = <<plate, SentStates(plate)>>
        BY <1>2, TwoMessages
      <4> QED BY ONLY <2>1, <3>1, <4>1
    <3>3. /\ to_worker'[w] = <<>> /\ working_plate_idx'[w] = plate /\ ~ Expected(w)'
          /\ worker'[w] = "receive" /\ from_worker'[w] = <<plate, SentStates(plate)'>>
      BY <1>3, <2>1, <2>3, <3>1, <3>2
    <3>4. Written(w, plate)'
      BY ONLY <3>3 DEF Written
    <3> QED BY <1>1, <1>2, <3>2, <3>4, Messages
  <2> QED BY <2>2, <2>3
<1> QED BY <1>4, <1>5

\* What a step of a worker does to the plates: it takes none and leaves none,
\* and it writes a file exactly when its plate becomes a written one.
LEMMA WorkerEffect ==
  ASSUME TypeOK, WorkerInv, NEW w \in Workers, WorkerStep(w)
  PROVE  /\ UNCHANGED <<started, masterVars>>
         /\ \A v \in Workers, plate \in Plates : Out(v, plate)' <=> Out(v, plate)
         /\ \A v \in Workers : /\ Idle(v)' <=> Idle(v)
                               /\ Told(v) \/ Left(v) => Told(v)' \/ Left(v)'
         /\ \A v \in Workers \ {w}, plate \in Plates :
              Unwritten(v, plate)' <=> Unwritten(v, plate)
         /\ \/ /\ plate_files' = plate_files
               /\ \A plate \in Plates : Unwritten(w, plate)' <=> Unwritten(w, plate)
            \/ \E plate \in Plates :
                 /\ Unwritten(w, plate) /\ ~ Unwritten(w, plate)'
                 /\ plate_files' = [plate_files EXCEPT ![plate] = @ + 1]
<1>1. UNCHANGED <<started, masterVars>>
  BY DEF WorkerStep, ReceivePlate, ProcessPlate, SendIndex, SendStates
<1>2. /\ plates_count \in JobSizes /\ plates_count' = plates_count
      /\ plates_count' \in JobSizes /\ Workers' = Workers /\ Plates' = Plates
  BY <1>1 DEF TypeOK, started, Workers, Plates
<1>3. ASSUME NEW v \in Workers \ {w}
      PROVE  /\ Idle(v)' <=> Idle(v)
             /\ Told(v)' <=> Told(v)
             /\ Left(v)' <=> Left(v)
             /\ \A plate \in Plates : /\ Unwritten(v, plate)' <=> Unwritten(v, plate)
                                      /\ Out(v, plate)' <=> Out(v, plate)
  <2>1. /\ worker'[v] = worker[v] /\ working_plate_idx'[v] = working_plate_idx[v]
        /\ to_worker'[v] = to_worker[v] /\ from_worker'[v] = from_worker[v]
    BY DEF WorkerStep, ReceivePlate, ProcessPlate, SendIndex, SendStates,
           SendToMaster, TypeOK
  <2>2. (Expected(v)' <=> Expected(v)) /\ received_plate_idx' = received_plate_idx
    BY <1>1 DEF Expected, masterVars
  <2> QED BY <1>2, <2>1, <2>2, Undisturbed
\* The worker has one plate before and after, or none.
<1>4. ASSUME NEW plate \in Plates, Out(w, plate), Out(w, plate)'
      PROVE  /\ \A other \in Plates :
                  /\ Out(w, other)' <=> Out(w, other)
                  /\ other # plate => ~ Unwritten(w, other) /\ ~ Unwritten(w, other)'
             /\ ~ Idle(w) /\ ~ Idle(w)' /\ ~ Told(w) /\ ~ Left(w)
             /\ Unwritten(w, plate) <=> ~ Written(w, plate)
             /\ Unwritten(w, plate)' <=> ~ Written(w, plate)'
  <2>1. OnePlace /\ OnePlace'
    BY <1>2, AlwaysOnePlace, OnePlaceNext
  <2>2. /\ ~ Idle(w) /\ ~ Told(w) /\ ~ Left(w)
        /\ Unwritten(w, plate) <=> ~ Written(w, plate)
        /\ \A other \in Plates : Out(w, other) => other = plate
    BY <1>4, <2>1 DEF OnePlace
  <2>3. /\ ~ Idle(w)' /\ (Unwritten(w, plate)' <=> ~ Written(w, plate)')
        /\ \A other \in Plates : Out(w, other)' => other = plate
    BY <1>2, <1>4, <2>1 DEF OnePlace
  <2> QED BY <1>4, <2>2, <2>3 DEF Out
<1>5. CASE ReceivePlate(w)
  <2>1. plate_files' = plate_files
    BY <1>5 DEF ReceivePlate
  <2>2. ASSUME NEW plate \in Plates, Unwritten(w, plate), Unwritten(w, plate)'
        PROVE  /\ \A p \in Plates : Unwritten(w, p)' <=> Unwritten(w, p)
               /\ \A p \in Plates : Out(w, p)' <=> Out(w, p)
               /\ ~ Idle(w) /\ ~ Idle(w)' /\ ~ Told(w) /\ ~ Left(w)
    <3>1. Out(w, plate) /\ Out(w, plate)'
      BY <2>2 DEF Out
    <3> QED BY <1>4, <2>2, <3>1
  <2>3. ASSUME Told(w), Left(w)'
        PROVE  /\ ~ Idle(w) /\ ~ Idle(w)'
               /\ \A p \in Plates : /\ ~ Out(w, p) /\ ~ Out(w, p)'
                                    /\ ~ Unwritten(w, p) /\ ~ Unwritten(w, p)'
    <3>1. ~ Idle(w) /\ ~ Idle(w)' /\ \A p \in Plates : ~ Out(w, p)'
      BY <2>3, Messages, MpiAssumption, <1>2
         DEF Told, Left, Idle, Out, Unwritten, Written, Plates
    <3>2. \A p \in Plates : ~ Out(w, p)
      BY <1>2, <2>3, AlwaysOnePlace DEF OnePlace
    <3> QED BY <3>1, <3>2 DEF Out
  <2> QED BY <1>1, <1>3, <1>5, <2>1, <2>2, <2>3, PlateReceived
<1>6. CASE ProcessPlate(w)
  <2>1. PICK plate \in Plates :
          /\ Unwritten(w, plate) /\ Written(w, plate)'
          /\ plate_files' = [plate_files EXCEPT ![plate] = @ + 1]
    BY <1>6, PlateProcessed
  <2>2. Out(w, plate) /\ Out(w, plate)'
    BY <2>1 DEF Out
  <2> QED BY <1>1, <1>3, <1>4, <2>1, <2>2
<1>7. CASE SendIndex(w) \/ SendStates(w)
  <2>1. plate_files' = plate_files
    BY <1>7 DEF SendIndex, SendStates
  <2>2. PICK plate \in Plates : Written(w, plate) /\ Written(w, plate)'
    BY <1>7, AnswerSent
  <2>3. Out(w, plate) /\ Out(w, plate)'
    BY <2>2 DEF Out
  <2> QED BY <1>1, <1>3, <1>4, <2>1, <2>2, <2>3
<1> QED BY <1>5, <1>6, <1>7 DEF WorkerStep

LEMMA WorkerType ==
  ASSUME TypeOK, WorkerInv, NEW w \in Workers, WorkerStep(w)
  PROVE  TypeOK'
<1>1. /\ UNCHANGED <<started, masterVars>>
      /\ Workers' = Workers /\ Plates' = Plates /\ working_processes' = working_processes
  BY DEF WorkerStep, ReceivePlate, ProcessPlate, SendIndex, SendStates, started,
         Workers, Plates, working_processes
<1>2. worker' \in [Workers -> WorkerLabels]
  BY DEF WorkerStep, ReceivePlate, ProcessPlate, SendIndex, SendStates, TypeOK,
         WorkerLabels
<1>3. to_worker' \in [Workers -> Seq(Nat)]
  <2>1. CASE ReceivePlate(w)
    BY <2>1, PlateReceived, Messages DEF ReceivePlate, TypeOK
  <2>2. CASE ~ ReceivePlate(w)
    BY <2>2 DEF WorkerStep, ProcessPlate, SendIndex, SendStates, TypeOK
  <2> QED BY <2>1, <2>2
<1>4. working_plate_idx' \in [Workers -> Nat]
  <2>1. CASE ReceivePlate(w)
    BY <2>1, PlateReceived DEF ReceivePlate, TypeOK
  <2>2. CASE ~ ReceivePlate(w)
    BY <2>2 DEF WorkerStep, ProcessPlate, SendIndex, SendStates, TypeOK
  <2> QED BY <2>1, <2>2
<1>5. from_worker' \in [Workers -> Seq(Nat)]
  <2>1. CASE SendIndex(w) \/ SendStates(w)
    <3>1. from_worker'[w] \in Seq(Nat)
      BY <2>1, AnswerSent
    <3> QED BY <2>1, <3>1 DEF SendIndex, SendStates, SendToMaster, TypeOK
  <2>2. CASE ~ (SendIndex(w) \/ SendStates(w))
    BY <2>2 DEF WorkerStep, ReceivePlate, ProcessPlate, TypeOK
  <2> QED BY <2>1, <2>2
<1>6. plate_files' \in [Plates -> Nat]
  <2>1. plate_files \in [Plates -> Nat]
    BY DEF TypeOK
  <2>2. ASSUME NEW plate \in Plates, plate_files' = [plate_files EXCEPT ![plate] = @ + 1]
        PROVE  plate_files' \in [Plates -> Nat]
    BY <2>1, <2>2
  <2> QED BY <2>1, <2>2, WorkerEffect
<1> QED BY <1>1, <1>2, <1>3, <1>4, <1>5, <1>6 DEF TypeOK, started, masterVars

\* A worker keeps what is known about the plates, and itself among the busy.
LEMMA WorkerSteps ==
  ASSUME IInv, NEW w \in Workers, WorkerStep(w)
  PROVE  IInv'
<1>1. /\ TypeOK /\ WorkerInv /\ PlateInv /\ MasterInv /\ CountInv /\ OwnStates
      /\ UNCHANGED <<started, masterVars>>
      /\ \A v \in Workers, plate \in Plates : Out(v, plate)' <=> Out(v, plate)
      /\ \A v \in Workers : /\ Idle(v)' <=> Idle(v)
                            /\ Told(v) \/ Left(v) => Told(v)' \/ Left(v)'
      /\ Workers' = Workers /\ Plates' = Plates /\ working_processes' = working_processes
  BY WorkerEffect DEF IInv, started, Workers, Plates, working_processes
<1>2. TypeOK'
  BY <1>1, WorkerType
<1>3. Busy' = Busy
  BY <1>1 DEF Busy
<1>4. WorkerInv'
  BY <1>1, <1>3 DEF WorkerInv
<1>5. CountInv'
  BY <1>1, <1>3 DEF CountInv, masterVars
<1>6. MasterInv'
  BY <1>1, <1>3 DEF MasterInv, started, masterVars
<1>7. OwnStates'
  BY <1>1 DEF OwnStates, SentStates, masterVars
<1>8. PlateInv'
  <2>1. SUFFICES ASSUME NEW plate \in Plates
        PROVE  /\ \A u, v \in Workers : Out(u, plate)' /\ Out(v, plate)' => u = v
               /\ \A v \in Workers : Out(v, plate)' =>
                    /\ plate < current_plate_idx
                    /\ plate_files'[plate] = IF Unwritten(v, plate)' THEN 0 ELSE 1
               /\ plate >= current_plate_idx => plate_files'[plate] = 0
               /\ plate < current_plate_idx =>
                    Recorded(plate)' \/ \E v \in Workers : Out(v, plate)'
    BY <1>1 DEF PlateInv, masterVars
  <2>2. /\ plate \in Int /\ plate_files \in [Plates -> Nat] /\ current_plate_idx \in Nat
        /\ \A u, v \in Workers : Out(u, plate) /\ Out(v, plate) => u = v
        /\ \A v \in Workers : Out(v, plate) =>
             /\ plate < current_plate_idx
             /\ plate_files[plate] = IF Unwritten(v, plate) THEN 0 ELSE 1
        /\ plate >= current_plate_idx => plate_files[plate] = 0
        /\ plate < current_plate_idx =>
             Recorded(plate) \/ \E v \in Workers : Out(v, plate)
    BY <1>1 DEF PlateInv, TypeOK, Plates
  <2>3. plate_files'[plate] = plate_files[plate] => (Recorded(plate)' <=> Recorded(plate))
    BY <1>1 DEF Recorded, SentStates, started, masterVars
  <2>4. \A v \in Workers \ {w} : Unwritten(v, plate)' <=> Unwritten(v, plate)
    BY <1>1, WorkerEffect
  <2> DEFINE Kept  == /\ plate_files'[plate] = plate_files[plate]
                      /\ Unwritten(w, plate)' <=> Unwritten(w, plate)
             Filed == /\ Out(w, plate) /\ Unwritten(w, plate) /\ ~ Unwritten(w, plate)'
                      /\ plate_files'[plate] = plate_files[plate] + 1
  <2>5. Kept \/ Filed
    <3>1. CASE /\ plate_files' = plate_files
               /\ \A p \in Plates : Unwritten(w, p)' <=> Unwritten(w, p)
      BY <3>1
    <3>2. ASSUME NEW recorded \in Plates,
                 Unwritten(w, recorded), ~ Unwritten(w, recorded)',
                 plate_files' = [plate_files EXCEPT ![recorded] = @ + 1]
          PROVE  Kept \/ Filed
      <4>1. CASE plate = recorded
        BY <2>2, <3>2, <4>1 DEF Out
      <4>2. CASE plate # recorded
        <5>1. Out(w, recorded) /\ OnePlace /\ OnePlace'
          BY <1>1, <1>2, <3>2, AlwaysOnePlace, OnePlaceNext DEF Out, TypeOK
        <5>2. ~ Out(w, plate) /\ ~ Out(w, plate)'
          BY <1>1, <4>2, <5>1 DEF OnePlace
        <5> QED BY <2>2, <3>2, <4>2, <5>2 DEF Out
      <4> QED BY <4>1, <4>2
    <3> QED BY <1>1, <3>1, <3>2, WorkerEffect
  <2>6. CASE Kept
    BY <1>1, <2>2, <2>3, <2>4, <2>6
  <2>7. CASE Filed
    BY <1>1, <2>2, <2>4, <2>7
  <2> QED BY <2>5, <2>6, <2>7
<1> QED BY <1>2, <1>4, <1>5, <1>6, <1>7, <1>8 DEF IInv

-----------------------------------------------------------------------------
(* Counting the busy workers *)

LEMMA Sizes ==
  ASSUME process_count \in ProcessCounts, plates_count \in JobSizes
  PROVE  /\ process_count \in Nat \ {0} /\ plates_count \in Nat
         /\ working_processes \in Nat
         /\ working_processes <= process_count - 1 /\ working_processes <= plates_count
BY MpiAssumption DEF working_processes

LEMMA Counting ==
  ASSUME NEW n \in Nat, NEW S \in SUBSET (1 .. n)
  PROVE  /\ IsFiniteSet(S) /\ Cardinality(S) \in 0 .. n
         /\ Cardinality(S) = 0 => S = {}
<1>1. IsFiniteSet(1 .. n) /\ Cardinality(1 .. n) = n
  BY FS_Interval
<1>2. IsFiniteSet(S) /\ Cardinality(S) <= n
  BY <1>1, FS_Subset
<1> QED BY <1>2, FS_CardinalityType, FS_EmptySet

-----------------------------------------------------------------------------
(* The beginning *)

LEMMA InitInv == Init => IInv
<1> SUFFICES ASSUME Init PROVE IInv
  OBVIOUS
<1>1. /\ process_count \in Nat \ {0} /\ plates_count \in Nat /\ working_processes \in Nat
      /\ process_count \in ProcessCounts /\ plates_count \in JobSizes
      /\ \A plate \in Plates : plate >= 0 /\ ~ (plate < 0)
  BY Sizes DEF Init, Plates
<1>2. \A w \in Workers : /\ to_worker[w] = <<>> /\ from_worker[w] = <<>>
                         /\ worker[w] = "receive" /\ ~ Expected(w)
  BY DEF Init, Expected
<1>3. \A w \in Workers : Idle(w)
  BY <1>2 DEF Idle
<1>4. \A w \in Workers, plate \in Plates : ~ Out(w, plate)
  BY <1>1, <1>3, AlwaysOnePlace DEF OnePlace
<1>5. Busy = {}
  BY <1>4 DEF Busy
<1>6. TypeOK
  BY <1>1 DEF Init, TypeOK, MasterLabels, WorkerLabels
<1>7. WorkerInv
  BY <1>3 DEF WorkerInv
<1>8. PlateInv
  BY <1>1, <1>4 DEF PlateInv, Init
<1>9. MasterInv
  BY <1>1, <1>3 DEF MasterInv, Init
<1>10. CountInv
  BY <1>1, <1>5, FS_EmptySet DEF CountInv, Init
<1>11. OwnStates
  BY DEF OwnStates, Init
<1> QED BY <1>6, <1>7, <1>8, <1>9, <1>10, <1>11 DEF IInv

-----------------------------------------------------------------------------
(* The steps of the master *)

\* What a step of the master leaves alone, a worker it does not deal with among it.
LEMMA MasterEffect ==
  ASSUME TypeOK, MasterStep
  PROVE  /\ UNCHANGED <<started, worker, working_plate_idx>>
         /\ Workers' = Workers /\ Plates' = Plates /\ working_processes' = working_processes
         /\ \A plate \in Plates : SentStates(plate)' = SentStates(plate)
         /\ ~ ProcessPlates => plate_files' = plate_files
BY DEF MasterStep, ProcessPlates, Distribute, Distributed, ReceiveIndex,
       ReceiveStates, StopWorkers, started, workerVars, Workers, Plates,
       working_processes, SentStates

\* A step that leaves the workers and the plates where they are.
LEMMA Quiet ==
  ASSUME IInv, MasterStep, UNCHANGED <<current_plate_idx, available_workers>>,
         UNCHANGED <<k_states, plate_files>>,
         \A w \in Workers : Idle(w) \/ Told(w) \/ Left(w)
                              => Idle(w)' \/ Told(w)' \/ Left(w)',
         \A w \in Workers, plate \in Plates : /\ Out(w, plate)' <=> Out(w, plate)
                                              /\ Unwritten(w, plate)' <=> Unwritten(w, plate)
  PROVE  /\ WorkerInv' /\ PlateInv' /\ CountInv' /\ OwnStates'
         /\ Busy' = Busy
<1>1. /\ TypeOK /\ WorkerInv /\ PlateInv /\ CountInv /\ OwnStates
      /\ process_count' = process_count
      /\ Workers' = Workers /\ Plates' = Plates /\ working_processes' = working_processes
      /\ \A plate \in Plates : SentStates(plate)' = SentStates(plate)
  BY MasterEffect DEF IInv, started
<1>2. Busy' = Busy
  BY <1>1 DEF Busy
<1>3. WorkerInv'
  BY <1>1, <1>2 DEF WorkerInv
<1>4. \A plate \in Plates : Recorded(plate)' <=> Recorded(plate)
  BY <1>1 DEF Recorded
<1>5. PlateInv'
  BY <1>1, <1>4 DEF PlateInv
<1>6. CountInv'
  BY <1>1, <1>2 DEF CountInv
<1>7. OwnStates'
  BY <1>1 DEF OwnStates
<1> QED BY <1>2, <1>3, <1>5, <1>6, <1>7

\* The only process simulates the next plate and has its states.
LEMMA ProcessPlatesStep ==
  ASSUME IInv, ProcessPlates
  PROVE  IInv'
<1>1. /\ TypeOK /\ PlateInv /\ CountInv /\ OwnStates
      /\ process_count = 1 /\ Workers = {} /\ working_processes = 0
      /\ plates_count \in Nat /\ current_plate_idx \in 0 .. plates_count
  BY Sizes DEF IInv, ProcessPlates, MasterInv, Workers, working_processes, TypeOK
<1>2. /\ UNCHANGED <<started, worker, working_plate_idx, to_worker, from_worker>>
      /\ UNCHANGED <<process_number, available_workers, source, received_plate_idx>>
      /\ Workers' = {} /\ Plates' = Plates /\ working_processes' = working_processes
      /\ \A plate \in Plates : SentStates(plate)' = SentStates(plate)
  BY <1>1, MasterEffect DEF ProcessPlates, workerVars, MasterStep
<1>3. Busy = {} /\ Busy' = {}
  BY <1>1, <1>2 DEF Busy
<1>4. WorkerInv' /\ CountInv'
  BY <1>1, <1>2, <1>3 DEF WorkerInv, CountInv
<1>5. CASE current_plate_idx < plates_count
  <2>1. PICK plate \in Plates : plate = current_plate_idx
    BY <1>1, <1>5 DEF Plates
  <2>2. /\ k_states' = [k_states EXCEPT ![plate] = StatesOf(plate)]
        /\ plate_files' = [plate_files EXCEPT ![plate] = @ + 1]
        /\ current_plate_idx' = current_plate_idx + 1 /\ master' = "process_plates"
    BY <1>1, <1>5, <2>1 DEF ProcessPlates
  <2>3. StatesOf(plate) \in Nat
    BY <1>1, SentStatesFit DEF TypeOK
  <2>4. TypeOK'
    BY <1>1, <1>2, <1>5, <2>2, <2>3 DEF TypeOK, started, MasterLabels
  <2>5. MasterInv'
    BY <1>1, <1>2, <2>2 DEF MasterInv, started
  <2>6. OwnStates'
    BY <1>1, <1>2, <2>2 DEF OwnStates, TypeOK
  <2>7. PlateInv'
    <3>1. \A p \in Plates : p \in Int
      BY DEF Plates
    <3>2. plate_files[plate] = 0
      BY <1>1, <2>1, <3>1 DEF PlateInv
    <3>3. Recorded(plate)'
      BY <1>1, <1>2, <2>2, <3>2 DEF Recorded, started, TypeOK
    <3>4. \A p \in Plates \ {plate} : /\ Recorded(p)' <=> Recorded(p)
                                      /\ plate_files'[p] = plate_files[p]
      BY <1>1, <1>2, <2>2 DEF Recorded, started, TypeOK
    <3>5. ASSUME NEW p \in Plates
          PROVE  /\ p >= current_plate_idx' => plate_files'[p] = 0
                 /\ p < current_plate_idx' => Recorded(p)'
      <4>1. /\ p \in Int /\ p >= current_plate_idx => plate_files[p] = 0
            /\ p < current_plate_idx => Recorded(p)
        BY <1>1, <3>1 DEF PlateInv
      <4> QED BY <1>1, <2>1, <2>2, <3>3, <3>4, <4>1
    <3> QED BY <1>2, <3>5 DEF PlateInv
  <2> QED BY <1>4, <2>4, <2>5, <2>6, <2>7 DEF IInv
<1>6. CASE current_plate_idx = plates_count
  <2>1. master' = "report" /\ UNCHANGED <<k_states, plate_files, current_plate_idx>>
    BY <1>1, <1>6 DEF ProcessPlates
  <2>2. TypeOK'
    BY <1>1, <1>2, <2>1 DEF TypeOK, started, MasterLabels
  <2>3. MasterInv'
    BY <1>1, <1>2, <1>6, <2>1 DEF MasterInv, started
  <2>4. OwnStates'
    BY <1>1, <1>2, <2>1 DEF OwnStates
  <2>5. \A p \in Plates : Recorded(p)' <=> Recorded(p)
    BY <1>2, <2>1 DEF Recorded, started
  <2>6. PlateInv'
    BY <1>1, <1>2, <2>1, <2>5 DEF PlateInv
  <2> QED BY <1>4, <2>2, <2>3, <2>4, <2>6 DEF IInv
<1> QED BY <1>1, <1>5, <1>6 DEF ProcessPlates

LEMMA DistributedStep ==
  ASSUME IInv, Distributed
  PROVE  IInv'
<1>1. /\ TypeOK /\ MasterInv /\ MasterStep
      /\ master = "distribute" /\ master' = "receive_index"
      /\ UNCHANGED <<started, to_worker, from_worker, worker, working_plate_idx>>
      /\ UNCHANGED <<current_plate_idx, available_workers, k_states, plate_files>>
      /\ UNCHANGED <<process_number, source, received_plate_idx>>
      /\ process_count' = process_count /\ plates_count' = plates_count
      /\ Workers' = Workers /\ Plates' = Plates /\ working_processes' = working_processes
  BY MasterEffect DEF IInv, Distributed, MasterStep, workerVars, started
<1>2. \A w \in Workers : ~ Expected(w) /\ ~ Expected(w)'
  BY <1>1 DEF Expected
<1>3. \A w \in Workers :
        /\ Idle(w)' <=> Idle(w)
        /\ Told(w)' <=> Told(w)
        /\ Left(w)' <=> Left(w)
        /\ \A plate \in Plates : /\ Out(w, plate)' <=> Out(w, plate)
                                 /\ Unwritten(w, plate)' <=> Unwritten(w, plate)
  BY <1>1, <1>2, Undisturbed
<1>4. /\ WorkerInv' /\ PlateInv' /\ CountInv' /\ OwnStates'
      /\ Busy' = Busy
  BY <1>1, <1>3, Quiet
<1>5. TypeOK'
  BY <1>1 DEF TypeOK, MasterLabels
<1>6. MasterInv'
  BY <1>1, <1>3, <1>4 DEF MasterInv
<1> QED BY <1>4, <1>5, <1>6 DEF IInv

\* The message the master receives from a worker is the index of the plate the
\* worker has; its states are still to come from that worker.
LEMMA ReceiveIndexStep ==
  ASSUME IInv, ReceiveIndex
  PROVE  IInv'
<1>1. PICK w \in Workers : /\ from_worker[w] # <<>>
                           /\ received_plate_idx' = Head(from_worker[w])
                           /\ source' = w
                           /\ from_worker' = [from_worker EXCEPT ![w] = Tail(@)]
  BY DEF ReceiveIndex
<1>2. /\ TypeOK /\ MasterInv /\ MasterStep
      /\ master = "receive_index" /\ master' = "receive_states"
      /\ UNCHANGED <<started, to_worker, worker, working_plate_idx>>
      /\ UNCHANGED <<current_plate_idx, available_workers, k_states, plate_files>>
      /\ process_number' = process_number
      /\ process_count' = process_count /\ plates_count' = plates_count
      /\ Workers' = Workers /\ Plates' = Plates /\ working_processes' = working_processes
      /\ \A plate \in Plates : SentStates(plate)' = SentStates(plate)
  BY MasterEffect DEF IInv, ReceiveIndex, MasterStep, workerVars, started
<1>3. /\ \A v \in Workers : ~ Expected(v)
      /\ \A v \in Workers : Expected(v)' <=> v = w
  BY <1>1, <1>2 DEF Expected
<1>4. PICK plate \in Plates : Written(w, plate)
  BY <1>1, <1>2 DEF MasterInv, Idle, Busy, Out, Unwritten
<1>5. plate \in Nat /\ SentStates(plate) \in Nat
  BY <1>2, SentStatesFit, MpiAssumption DEF TypeOK, Plates
<1>6. /\ Written(w, plate)' /\ received_plate_idx' = plate
      /\ from_worker'[w] \in Seq(Nat)
  <2>1. from_worker'[w] = Tail(from_worker[w])
    BY <1>1, <1>2 DEF TypeOK
  <2>2. CASE worker[w] = "send_states" /\ from_worker[w] = <<plate>>
    <3>1. from_worker'[w] = <<>> /\ received_plate_idx' = plate
      BY <1>1, <1>5, <2>1, <2>2, Messages
    <3> QED BY <1>2, <1>3, <1>4, <1>5, <2>2, <3>1, Messages DEF Written
  <2>3. CASE worker[w] = "receive" /\ from_worker[w] = <<plate, SentStates(plate)>>
    <3>1. from_worker'[w] = <<SentStates(plate)>> /\ received_plate_idx' = plate
      BY <1>1, <1>5, <2>1, <2>3, Messages
    <3> QED BY <1>2, <1>3, <1>4, <1>5, <2>3, <3>1, Messages DEF Written
  <2> QED BY <1>1, <1>3, <1>4, <2>2, <2>3 DEF Written
<1>7. ASSUME NEW v \in Workers \ {w}
      PROVE  /\ Idle(v)' <=> Idle(v)
             /\ Told(v)' <=> Told(v)
             /\ Left(v)' <=> Left(v)
             /\ \A p \in Plates : /\ Out(v, p)' <=> Out(v, p)
                                  /\ Unwritten(v, p)' <=> Unwritten(v, p)
  <2>1. from_worker'[v] = from_worker[v]
    BY <1>1, <1>2 DEF TypeOK
  <2> QED BY <1>2, <1>3, <2>1, Undisturbed
<1>8. /\ ~ Idle(w) /\ ~ Told(w) /\ ~ Left(w) /\ ~ Idle(w)'
      /\ \A p \in Plates : /\ Out(w, p)' <=> Out(w, p)
                           /\ Unwritten(w, p)' <=> Unwritten(w, p)
  <2>1. OnePlace /\ OnePlace'
    BY <1>2, AlwaysOnePlace, OnePlaceNext DEF TypeOK, started
  <2>2. Out(w, plate) /\ Out(w, plate)'
    BY <1>4, <1>6 DEF Out
  <2>3. /\ ~ Idle(w) /\ ~ Told(w) /\ ~ Left(w) /\ ~ Unwritten(w, plate)
        /\ \A p \in Plates : Out(w, p) => p = plate
    BY <1>4, <2>1, <2>2 DEF OnePlace
  <2>4. /\ ~ Idle(w)' /\ ~ Unwritten(w, plate)'
        /\ \A p \in Plates : Out(w, p)' => p = plate
    BY <1>2, <1>6, <2>1, <2>2 DEF OnePlace
  <2> QED BY <2>2, <2>3, <2>4 DEF Out
<1>9. /\ WorkerInv' /\ PlateInv' /\ CountInv' /\ OwnStates'
      /\ Busy' = Busy
  BY <1>2, <1>7, <1>8, Quiet
<1>10. TypeOK'
  <2>1. from_worker' \in [Workers -> Seq(Nat)]
    BY <1>1, <1>2, <1>6 DEF TypeOK
  <2>2. source' \in 0 .. process_count - 1
    BY <1>1, <1>2, Sizes DEF TypeOK, Workers
  <2> QED BY <1>2, <1>6, <2>1, <2>2 DEF TypeOK, MasterLabels
<1>11. MasterInv'
  BY <1>1, <1>2, <1>7, <1>8, <1>9 DEF MasterInv
<1> QED BY <1>9, <1>10, <1>11 DEF IInv

\* The workers are told to leave one by one, each of them idle until then.
LEMMA StopWorkersStep ==
  ASSUME IInv, StopWorkers
  PROVE  IInv'
<1>1. /\ TypeOK /\ MasterInv /\ MasterStep /\ master = "stop"
      /\ UNCHANGED <<started, from_worker, worker, working_plate_idx>>
      /\ UNCHANGED <<current_plate_idx, available_workers, k_states, plate_files>>
      /\ UNCHANGED <<source, received_plate_idx>>
      /\ process_count' = process_count /\ plates_count' = plates_count
      /\ Workers' = Workers /\ Plates' = Plates /\ working_processes' = working_processes
  BY MasterEffect DEF IInv, StopWorkers, MasterStep, workerVars, started
<1>2. process_count \in Nat \ {0} /\ plates_count \in Nat
  BY <1>1, Sizes DEF TypeOK
<1>3. \A v \in Workers : IF v < process_number THEN Told(v) \/ Left(v) ELSE Idle(v)
  BY <1>1 DEF MasterInv
<1>4. master' \in {"stop", "report"} /\ \A v \in Workers : ~ Expected(v) /\ ~ Expected(v)'
  BY <1>1 DEF StopWorkers, Expected
<1>5. OnePlace /\ OnePlace'
  BY <1>1, AlwaysOnePlace, OnePlaceNext DEF TypeOK
<1>6. CASE StopAgain
  <2>1. /\ to_worker' = [to_worker EXCEPT ![process_number] = Append(@, plates_count)]
        /\ process_number' = process_number + 1 /\ master' = "stop"
    BY <1>1, <1>6 DEF StopWorkers, SendToWorker
  <2>2. PICK w \in Workers : w = process_number
    BY <1>1, <1>2, <1>6 DEF StopAgain, Workers, TypeOK
  <2>3. Idle(w) /\ Told(w)' /\ to_worker'[w] \in Seq(Nat)
    <3>1. Idle(w)
      BY <1>2, <1>3, <2>2 DEF Workers
    <3>2. to_worker'[w] = <<plates_count>>
      BY <1>1, <1>2, <2>1, <2>2, <3>1, Messages DEF Idle, TypeOK
    <3> QED BY <1>1, <1>2, <1>4, <3>1, <3>2, Messages DEF Idle, Told
  <2>4. ASSUME NEW v \in Workers \ {w}
        PROVE  /\ Idle(v)' <=> Idle(v)
               /\ Told(v)' <=> Told(v)
               /\ Left(v)' <=> Left(v)
    <3>1. to_worker'[v] = to_worker[v]
      BY <1>1, <2>1, <2>2 DEF TypeOK
    <3> QED BY <1>1, <1>4, <3>1, Undisturbed
  <2>5. \A v \in Workers : IF v < process_number' THEN Told(v)' \/ Left(v)' ELSE Idle(v)'
    <3>1. process_number \in Int /\ w < process_number'
      BY <1>1, <2>1, <2>2 DEF TypeOK
    <3>2. \A v \in Workers \ {w} : v < process_number' <=> v < process_number
      BY <2>1, <2>2, <3>1 DEF Workers
    <3> QED BY <1>3, <2>3, <2>4, <3>1, <3>2
  <2>6. \A v \in Workers, p \in Plates : ~ Out(v, p) /\ ~ Out(v, p)'
    BY <1>1, <1>3, <1>5, <2>5 DEF OnePlace
  <2>7. /\ WorkerInv' /\ PlateInv' /\ CountInv' /\ OwnStates'
        /\ Busy' = Busy
    BY <1>1, <1>3, <2>5, <2>6, Quiet DEF Out
  <2>8. TypeOK'
    <3>1. to_worker' \in [Workers -> Seq(Nat)]
      BY <1>1, <2>1, <2>2, <2>3 DEF TypeOK
    <3> QED BY <1>1, <1>2, <1>6, <2>1, <3>1 DEF TypeOK, StopAgain
  <2>9. MasterInv'
    BY <1>1, <2>1, <2>5 DEF MasterInv
  <2> QED BY <2>7, <2>8, <2>9 DEF IInv
<1>7. CASE ~ StopAgain
  <2>1. master' = "report" /\ UNCHANGED <<process_number, to_worker>>
    BY <1>1, <1>7 DEF StopWorkers
  <2>2. ASSUME NEW v \in Workers
        PROVE  /\ Told(v) \/ Left(v)
               /\ Told(v)' <=> Told(v)
               /\ Left(v)' <=> Left(v)
    <3>1. v < process_number
      BY <1>1, <1>2, <1>7 DEF StopAgain, TypeOK, Workers
    <3>2. /\ Told(v)' <=> Told(v)
          /\ Left(v)' <=> Left(v)
      BY <1>1, <1>4, <2>1, Undisturbed
    <3> QED BY <1>3, <3>1, <3>2
  <2>3. \A v \in Workers, p \in Plates : ~ Out(v, p) /\ ~ Out(v, p)'
    BY <1>1, <1>5, <2>2 DEF OnePlace
  <2>4. /\ WorkerInv' /\ PlateInv' /\ CountInv' /\ OwnStates'
    BY <1>1, <2>2, <2>3, Quiet DEF Out
  <2>5. TypeOK'
    BY <1>1, <2>1 DEF TypeOK, MasterLabels
  <2>6. MasterInv'
    BY <1>1, <2>1, <2>2 DEF MasterInv
  <2> QED BY <2>4, <2>5, <2>6 DEF IInv
<1> QED BY <1>6, <1>7

\* A worker without a message and without a plate that is sent an index has the
\* plate of that index, and no other.
LEMMA PlateSent ==
  ASSUME TypeOK, started' = started, NEW w \in Workers, NEW plate \in Plates,
         worker'[w] = "receive", from_worker'[w] = <<>>, ~ Expected(w)',
         to_worker[w] = <<>>, to_worker'[w] = Append(to_worker[w], plate)
  PROVE  /\ to_worker'[w] \in Seq(Nat)
         /\ Unwritten(w, plate)' /\ ~ Idle(w)'
         /\ \A p \in Plates : Out(w, p)' <=> p = plate
<1>1. plate \in Nat /\ plates_count' = plates_count /\ plates_count' \in JobSizes
      /\ Workers' = Workers /\ Plates' = Plates
  BY DEF Plates, Workers, TypeOK, started
<1>2. to_worker'[w] = <<plate>>
  BY <1>1, Messages
<1>3. Unwritten(w, plate)' /\ Out(w, plate)'
  BY <1>2 DEF Unwritten, Out
<1>4. OnePlace'
  BY <1>1, OnePlaceNext
<1>5. ~ Idle(w)' /\ \A p \in Plates : Out(w, p)' => p = plate
  BY <1>1, <1>3, <1>4 DEF OnePlace
<1> QED BY <1>1, <1>2, <1>3, <1>5, Messages

\* The plates go to workers without a plate, and each of these is one worker less
\* on standby.
LEMMA DistributeStep ==
  ASSUME IInv, Distribute
  PROVE  IInv'
<1>1. /\ TypeOK /\ WorkerInv /\ PlateInv /\ MasterInv /\ CountInv /\ OwnStates
      /\ MasterStep /\ master = "distribute" /\ process_number < working_processes
      /\ UNCHANGED <<started, from_worker, worker, working_plate_idx>>
      /\ UNCHANGED <<master, k_states, plate_files, source, received_plate_idx>>
      /\ to_worker' = [to_worker EXCEPT ![process_number] = Append(@, current_plate_idx)]
      /\ current_plate_idx' = current_plate_idx + 1
      /\ available_workers' = available_workers - 1
      /\ process_number' = process_number + 1
      /\ process_count' = process_count /\ plates_count' = plates_count
      /\ Workers' = Workers /\ Plates' = Plates /\ working_processes' = working_processes
      /\ \A plate \in Plates : SentStates(plate)' = SentStates(plate)
  BY MasterEffect DEF IInv, Distribute, MasterStep, SendToWorker, workerVars, started
<1>2. /\ process_count \in Nat \ {0} /\ plates_count \in Nat /\ working_processes \in Nat
      /\ working_processes <= process_count - 1 /\ working_processes <= plates_count
  BY <1>1, Sizes DEF TypeOK
<1>3. /\ process_count > 1 /\ current_plate_idx = process_number - 1
      /\ \A w \in Workers : Idle(w) \/ (w \in Busy /\ w < working_processes)
      /\ \A w \in Workers : w >= process_number => Idle(w)
  BY <1>1 DEF MasterInv
<1>4. PICK w \in Workers : w = process_number
  BY <1>1, <1>2 DEF Workers, TypeOK
<1>5. PICK plate \in Plates : plate = current_plate_idx
  BY <1>1, <1>2, <1>3 DEF Plates, TypeOK
<1>6. /\ plate \in Nat /\ w \in Nat /\ w < working_processes
      /\ Idle(w) /\ ~ Expected(w) /\ ~ Expected(w)'
  BY <1>1, <1>3, <1>4 DEF Workers, Plates, Idle, Expected
<1>7. /\ to_worker'[w] \in Seq(Nat)
      /\ Unwritten(w, plate)' /\ ~ Idle(w)'
      /\ \A p \in Plates : Out(w, p)' <=> p = plate
  <2>1. /\ worker'[w] = "receive" /\ from_worker'[w] = <<>> /\ to_worker[w] = <<>>
        /\ to_worker'[w] = Append(to_worker[w], plate)
    BY <1>1, <1>4, <1>5, <1>6 DEF Idle, TypeOK
  <2> QED BY <1>1, <1>6, <2>1, PlateSent
<1>8. ASSUME NEW v \in Workers \ {w}
      PROVE  /\ Idle(v)' <=> Idle(v)
             /\ \A p \in Plates : /\ Out(v, p)' <=> Out(v, p)
                                  /\ Unwritten(v, p)' <=> Unwritten(v, p)
  <2>1. to_worker'[v] = to_worker[v] /\ (Expected(v)' <=> Expected(v))
    BY <1>1, <1>4 DEF TypeOK, Expected
  <2> QED BY <1>1, <2>1, Undisturbed
<1>9. \A p \in Plates : ~ Out(w, p)
  BY <1>1, <1>6, AlwaysOnePlace DEF OnePlace, TypeOK
<1>10. Busy' = Busy \cup {w} /\ w \notin Busy
  BY <1>1, <1>7, <1>8, <1>9 DEF Busy
<1>11. WorkerInv'
  BY <1>1, <1>3, <1>8, <1>10 DEF WorkerInv
<1>12. /\ Busy \subseteq 1 .. working_processes /\ Busy' \subseteq 1 .. working_processes
       /\ CountInv' /\ available_workers' \in 0 .. working_processes
  <2>1. Busy \subseteq 1 .. working_processes
    <3>1. \A v \in Busy : v \in Workers /\ \E p \in Plates : Out(v, p)
      BY DEF Busy
    <3>2. OnePlace
      BY <1>1, AlwaysOnePlace DEF TypeOK
    <3>3. \A v \in Busy : ~ Idle(v)
      BY <3>1, <3>2 DEF OnePlace
    <3> QED BY <1>2, <1>3, <3>1, <3>3 DEF Workers
  <2>2. Busy \cup {w} \subseteq 1 .. working_processes
    BY <1>2, <1>6, <2>1 DEF Workers
  <2>3. IsFiniteSet(Busy) /\ Cardinality(Busy) \in Nat
    BY <1>2, <2>1, Counting
  <2>4. Cardinality(Busy \cup {w}) = Cardinality(Busy) + 1
    BY <1>10, <2>3, FS_AddElement
  <2>5. Cardinality(Busy \cup {w}) \in 0 .. working_processes
    BY <1>2, <2>2, Counting
  <2>6. available_workers = working_processes - Cardinality(Busy)
    BY <1>1 DEF CountInv
  <2>7. available_workers' = working_processes - Cardinality(Busy \cup {w})
    BY <1>1, <1>2, <2>3, <2>4, <2>6
  <2> QED BY <1>1, <1>2, <1>10, <2>1, <2>2, <2>5, <2>7 DEF CountInv
<1>13. TypeOK'
  <2>1. to_worker' \in [Workers -> Seq(Nat)]
    BY <1>1, <1>4, <1>7 DEF TypeOK
  <2>2. process_number' \in 1 .. process_count /\ current_plate_idx' \in 0 .. plates_count
    BY <1>1, <1>2, <1>4, <1>5, <1>6 DEF TypeOK, Plates
  <2> QED BY <1>1, <1>12, <2>1, <2>2 DEF TypeOK
<1>14. MasterInv'
  <2>1. \A v \in Workers : v >= process_number' => v # w /\ v >= process_number
    BY <1>1, <1>4 DEF Workers
  <2>2. current_plate_idx' = process_number' - 1
    BY <1>1, <1>3, <1>4, <1>6
  <2> QED BY <1>1, <1>3, <1>6, <1>8, <1>10, <2>1, <2>2 DEF MasterInv
<1>15. OwnStates'
  BY <1>1 DEF OwnStates
<1>16. PlateInv'
  <2>1. SUFFICES ASSUME NEW p \in Plates
        PROVE  /\ \A u, v \in Workers : Out(u, p)' /\ Out(v, p)' => u = v
               /\ \A v \in Workers : Out(v, p)' =>
                    /\ p < current_plate_idx'
                    /\ plate_files'[p] = IF Unwritten(v, p)' THEN 0 ELSE 1
               /\ p >= current_plate_idx' => plate_files'[p] = 0
               /\ p < current_plate_idx' =>
                    Recorded(p)' \/ \E v \in Workers : Out(v, p)'
    BY <1>1 DEF PlateInv
  <2>2. /\ p \in Int
        /\ \A u, v \in Workers : Out(u, p) /\ Out(v, p) => u = v
        /\ \A v \in Workers : Out(v, p) =>
             /\ p < current_plate_idx
             /\ plate_files[p] = IF Unwritten(v, p) THEN 0 ELSE 1
        /\ p >= current_plate_idx => plate_files[p] = 0
        /\ p < current_plate_idx => Recorded(p) \/ \E v \in Workers : Out(v, p)
    BY <1>1 DEF PlateInv, Plates
  <2>3. (Recorded(p)' <=> Recorded(p)) /\ plate_files'[p] = plate_files[p]
    BY <1>1 DEF Recorded
  <2>4. CASE p = plate
    <3>1. \A v \in Workers : Out(v, p)' <=> v = w
      BY <1>5, <1>6, <1>7, <1>8, <2>2, <2>4
    <3> QED BY <1>1, <1>5, <1>6, <1>7, <2>2, <2>3, <2>4, <3>1
  <2>5. CASE p # plate
    <3>1. \A v \in Workers : /\ Out(v, p)' <=> Out(v, p)
                             /\ Out(v, p) => (Unwritten(v, p)' <=> Unwritten(v, p))
      BY <1>7, <1>8, <1>9, <2>5
    <3>2. p < current_plate_idx' <=> p < current_plate_idx
      BY <1>1, <1>5, <1>6, <2>2, <2>5
    <3>3. p >= current_plate_idx' => p >= current_plate_idx
      BY <1>1, <1>5, <1>6, <2>2
    <3> QED BY <2>2, <2>3, <3>1, <3>2, <3>3
  <2> QED BY <2>4, <2>5
<1> QED BY <1>11, <1>12, <1>13, <1>14, <1>15, <1>16 DEF IInv

\* The states the master records are those of the plate whose index it received,
\* and the plate is back with them.
LEMMA StatesRecorded ==
  ASSUME IInv, ReceiveStates
  PROVE  \E w \in Workers, plate \in Plates :
           /\ w = source /\ to_worker[w] = <<>>
           /\ worker'[w] = "receive" /\ from_worker'[w] = <<>>
           /\ Out(w, plate) /\ ~ Unwritten(w, plate) /\ ~ Idle(w)
           /\ \A p \in Plates : Out(w, p) => p = plate
           /\ Recorded(plate)'
           /\ \A p \in Plates \ {plate} : Recorded(p)' <=> Recorded(p)
           /\ OwnStates'
           /\ k_states' \in [Plates -> Nat] /\ from_worker' \in [Workers -> Seq(Nat)]
           /\ \A v \in Workers \ {w} : /\ from_worker'[v] = from_worker[v]
                                       /\ ~ Expected(v)
<1>1. /\ TypeOK /\ WorkerInv /\ PlateInv /\ MasterInv /\ OwnStates
      /\ MasterStep /\ master = "receive_states"
      /\ worker' = worker /\ plate_files' = plate_files
      /\ process_count' = process_count /\ plates_count' = plates_count
      /\ Workers' = Workers /\ Plates' = Plates
      /\ \A plate \in Plates : SentStates(plate)' = SentStates(plate)
  BY MasterEffect DEF IInv, ReceiveStates, MasterStep, workerVars, started
<1>2. process_count > 1 /\ source \in Workers /\ process_count \in Nat
  BY <1>1, Sizes DEF MasterInv, TypeOK
<1>3. PICK w \in Workers : w = source
  BY <1>2
<1>4. /\ from_worker[w] # <<>>
      /\ from_worker' = [from_worker EXCEPT ![w] = Tail(@)]
      /\ k_states' = [plate \in Plates |->
                        IF plate = received_plate_idx THEN Head(from_worker[w])
                                                      ELSE k_states[plate]]
      /\ Expected(w)
      /\ \A v \in Workers \ {w} : ~ Expected(v)
  BY <1>1, <1>3 DEF ReceiveStates, StatesFrom, Expected
<1>5. PICK plate \in Plates : Written(w, plate) /\ received_plate_idx = plate
  BY <1>1, <1>4, ExpectedPlate
<1>6. plate \in Nat /\ SentStates(plate) \in Nat
  BY <1>1, SentStatesFit, MpiAssumption DEF TypeOK, Plates
<1>7. /\ worker[w] = "receive" /\ from_worker[w] = <<SentStates(plate)>>
      /\ to_worker[w] = <<>>
  BY <1>4, <1>5 DEF Written
<1>8. /\ from_worker'[w] = <<>> /\ from_worker' \in [Workers -> Seq(Nat)]
      /\ \A v \in Workers \ {w} : from_worker'[v] = from_worker[v]
  <2>1. Tail(from_worker[w]) = <<>> /\ <<>> \in Seq(Nat)
    BY <1>6, <1>7, Messages
  <2> QED BY <1>1, <1>4, <2>1 DEF TypeOK
<1>9. k_states' = [p \in Plates |-> IF p = plate THEN SentStates(plate) ELSE k_states[p]]
  BY <1>4, <1>5, <1>6, <1>7, Messages
<1>10. k_states' \in [Plates -> Nat]
  BY <1>1, <1>6, <1>9 DEF TypeOK
<1>11. OwnStates'
  BY <1>1, <1>9 DEF OwnStates
<1>12. /\ Out(w, plate) /\ ~ Unwritten(w, plate) /\ ~ Idle(w)
       /\ \A p \in Plates : Out(w, p) => p = plate
  <2>1. Out(w, plate) /\ OnePlace
    BY <1>1, <1>5, AlwaysOnePlace DEF Out, TypeOK
  <2> QED BY <1>5, <2>1 DEF OnePlace
<1>13. Recorded(plate)'
  <2>1. plate_files[plate] = 1
    BY <1>1, <1>12 DEF PlateInv
  <2> QED BY <1>1, <1>2, <1>9, <2>1 DEF Recorded
<1>14. \A p \in Plates \ {plate} : Recorded(p)' <=> Recorded(p)
  BY <1>1, <1>9 DEF Recorded
<1> QED BY <1>1, <1>3, <1>4, <1>7, <1>8, <1>10, <1>11, <1>12, <1>13, <1>14

\* Then the worker takes the next plate or is idle.
LEMMA ReceiveStatesStep ==
  ASSUME IInv, ReceiveStates
  PROVE  IInv'
<1> DEFINE Given == current_plate_idx < plates_count
<1>1. /\ TypeOK /\ WorkerInv /\ PlateInv /\ MasterInv /\ CountInv
      /\ MasterStep /\ master = "receive_states"
      /\ UNCHANGED <<started, worker, working_plate_idx>>
      /\ UNCHANGED <<plate_files, source, received_plate_idx>>
      /\ process_count' = process_count /\ plates_count' = plates_count
      /\ Workers' = Workers /\ Plates' = Plates /\ working_processes' = working_processes
  BY MasterEffect DEF IInv, ReceiveStates, MasterStep, workerVars, started
<1>2. /\ process_count \in Nat \ {0} /\ plates_count \in Nat /\ working_processes \in Nat
      /\ working_processes <= process_count - 1 /\ working_processes <= plates_count
      /\ current_plate_idx \in 0 .. plates_count
  BY <1>1, Sizes DEF TypeOK
<1>3. /\ process_count > 1
      /\ \A w \in Workers : Idle(w) \/ (w \in Busy /\ w < working_processes)
  BY <1>1 DEF MasterInv
<1>4. PICK w \in Workers, plate \in Plates :
           /\ w = source /\ to_worker[w] = <<>>
           /\ worker'[w] = "receive" /\ from_worker'[w] = <<>>
           /\ Out(w, plate) /\ ~ Unwritten(w, plate) /\ ~ Idle(w)
           /\ \A p \in Plates : Out(w, p) => p = plate
           /\ Recorded(plate)'
           /\ \A p \in Plates \ {plate} : Recorded(p)' <=> Recorded(p)
           /\ OwnStates'
           /\ k_states' \in [Plates -> Nat] /\ from_worker' \in [Workers -> Seq(Nat)]
           /\ \A v \in Workers \ {w} : /\ from_worker'[v] = from_worker[v]
                                       /\ ~ Expected(v)
  BY StatesRecorded
<1>5. /\ Given => /\ to_worker' = [to_worker EXCEPT ![w] = Append(@, current_plate_idx)]
                  /\ current_plate_idx' = current_plate_idx + 1
                  /\ master' = "receive_index"
                  /\ UNCHANGED <<available_workers, process_number>>
      /\ ~ Given => /\ available_workers' = available_workers + 1
                    /\ UNCHANGED <<current_plate_idx, to_worker>>
                    /\ IF AllAvailable(available_workers + 1)
                         THEN master' = "stop" /\ process_number' = 1
                         ELSE master' = "receive_index" /\ process_number' = process_number
  BY <1>2, <1>4 DEF ReceiveStates, SendToWorker
<1>6. \A v \in Workers : ~ Expected(v)'
  BY <1>5 DEF Expected
<1>7. ASSUME NEW v \in Workers \ {w}
      PROVE  /\ Idle(v)' <=> Idle(v)
             /\ \A p \in Plates : /\ Out(v, p)' <=> Out(v, p)
                                  /\ Unwritten(v, p)' <=> Unwritten(v, p)
  <2>1. to_worker'[v] = to_worker[v]
    BY <1>1, <1>5 DEF TypeOK
  <2> QED BY <1>1, <1>4, <1>6, <2>1, Undisturbed
<1>8. /\ \A p \in Plates : Out(w, p)' <=> Given /\ p = current_plate_idx
      /\ \A p \in Plates : Out(w, p)' => Unwritten(w, p)'
      /\ Idle(w)' <=> ~ Given
      /\ to_worker' \in [Workers -> Seq(Nat)]
  <2>1. CASE Given
    <3>1. PICK next \in Plates : next = current_plate_idx
      BY <1>2, <2>1 DEF Plates
    <3>2. to_worker'[w] = Append(to_worker[w], next)
      BY <1>1, <1>5, <2>1, <3>1 DEF TypeOK
    <3>3. /\ to_worker'[w] \in Seq(Nat)
          /\ Unwritten(w, next)' /\ ~ Idle(w)'
          /\ \A p \in Plates : Out(w, p)' <=> p = next
      BY <1>1, <1>4, <1>6, <3>2, PlateSent
    <3>4. to_worker' \in [Workers -> Seq(Nat)]
      BY <1>1, <1>5, <2>1, <3>3 DEF TypeOK
    <3> QED BY <2>1, <3>1, <3>3, <3>4
  <2>2. CASE ~ Given
    <3>1. Idle(w)'
      BY <1>4, <1>5, <1>6, <2>2 DEF Idle
    <3>2. \A p \in Plates : ~ Out(w, p)'
      BY <1>1, <3>1, OnePlaceNext DEF OnePlace, TypeOK
    <3> QED BY <1>1, <1>5, <2>2, <3>1, <3>2 DEF TypeOK
  <2> QED BY <2>1, <2>2
<1>9. PlateInv'
  <2>1. SUFFICES ASSUME NEW p \in Plates
        PROVE  /\ \A u, v \in Workers : Out(u, p)' /\ Out(v, p)' => u = v
               /\ \A v \in Workers : Out(v, p)' =>
                    /\ p < current_plate_idx'
                    /\ plate_files'[p] = IF Unwritten(v, p)' THEN 0 ELSE 1
               /\ p >= current_plate_idx' => plate_files'[p] = 0
               /\ p < current_plate_idx' =>
                    Recorded(p)' \/ \E v \in Workers : Out(v, p)'
    BY <1>1 DEF PlateInv
  <2>2. /\ p \in Int
        /\ \A u, v \in Workers : Out(u, p) /\ Out(v, p) => u = v
        /\ \A v \in Workers : Out(v, p) =>
             /\ p < current_plate_idx
             /\ plate_files[p] = IF Unwritten(v, p) THEN 0 ELSE 1
        /\ p >= current_plate_idx => plate_files[p] = 0
        /\ p < current_plate_idx => Recorded(p) \/ \E v \in Workers : Out(v, p)
    BY <1>1 DEF PlateInv, Plates
  <2>3. CASE p = plate
    <3>1. p < current_plate_idx /\ p < current_plate_idx' /\ p # current_plate_idx
      BY <1>2, <1>4, <1>5, <2>2, <2>3
    <3>2. \A v \in Workers : ~ Out(v, p)'
      BY <1>4, <1>7, <1>8, <2>2, <2>3, <3>1
    <3>3. ~ (p >= current_plate_idx')
      BY <1>2, <1>5, <2>2, <3>1
    <3> QED BY <1>4, <2>3, <3>2, <3>3
  <2>4. CASE Given /\ p = current_plate_idx
    <3>1. \A v \in Workers : ~ Out(v, p)
      BY <1>2, <2>2, <2>4
    <3>2. \A v \in Workers : Out(v, p)' <=> v = w
      BY <1>7, <1>8, <2>4, <3>1
    <3>3. p < current_plate_idx' /\ ~ (p >= current_plate_idx')
      BY <1>2, <1>5, <2>4
    <3> QED BY <1>1, <1>2, <1>8, <2>2, <2>4, <3>2, <3>3
  <2>5. CASE p # plate /\ ~ (Given /\ p = current_plate_idx)
    <3>1. \A v \in Workers : /\ Out(v, p)' <=> Out(v, p)
                             /\ Out(v, p) => (Unwritten(v, p)' <=> Unwritten(v, p))
      BY <1>4, <1>7, <1>8, <2>5
    <3>2. /\ p < current_plate_idx' <=> p < current_plate_idx
          /\ p >= current_plate_idx' => p >= current_plate_idx
      BY <1>2, <1>5, <2>2, <2>5
    <3>3. Recorded(p)' <=> Recorded(p)
      BY <1>4, <2>5
    <3> QED BY <1>1, <2>2, <3>1, <3>2, <3>3
  <2> QED BY <2>3, <2>4, <2>5
<1>10. Busy \subseteq 1 .. working_processes
  BY <1>2, <1>3, <1>1, AlwaysOnePlace DEF Busy, Workers, OnePlace, TypeOK
<1>11. IsFiniteSet(Busy) /\ Cardinality(Busy) \in Nat /\ w \in Busy
  BY <1>2, <1>4, <1>10, Counting DEF Busy
<1>12. CASE Given
  <2>1. Busy' = Busy
    <3>1. PICK next \in Plates : next = current_plate_idx
      BY <1>2, <1>12 DEF Plates
    <3>2. Out(w, next)'
      BY <1>8, <1>12, <3>1
    <3> QED BY <1>1, <1>7, <1>11, <3>2 DEF Busy
  <2>2. TypeOK'
    <3>1. /\ current_plate_idx' \in 0 .. plates_count
          /\ process_number' = process_number /\ available_workers' = available_workers
      BY <1>2, <1>5, <1>12
    <3>2. master' \in MasterLabels
      BY <1>5, <1>12 DEF MasterLabels
    <3>3. /\ process_count \in ProcessCounts /\ plates_count \in JobSizes
          /\ process_number \in 1 .. process_count
          /\ available_workers \in 0 .. working_processes
          /\ source \in 0 .. process_count - 1
          /\ received_plate_idx \in {-1} \cup Plates
          /\ worker \in [Workers -> WorkerLabels]
          /\ working_plate_idx \in [Workers -> Nat]
          /\ plate_files \in [Plates -> Nat]
      BY <1>1 DEF TypeOK
    <3>4. /\ k_states' \in [Plates -> Nat] /\ to_worker' \in [Workers -> Seq(Nat)]
          /\ from_worker' \in [Workers -> Seq(Nat)]
      BY <1>4, <1>8
    <3> QED BY ONLY <1>1, <3>1, <3>2, <3>3, <3>4 DEF TypeOK
  <2>3. WorkerInv'
    BY <1>1, <1>3, <1>7, <1>11, <2>1 DEF WorkerInv
  <2>4. CountInv'
    BY <1>1, <1>5, <1>12, <2>1 DEF CountInv
  <2>5. MasterInv'
    BY <1>1, <1>3, <1>4, <1>5, <1>7, <1>12, <2>1 DEF MasterInv
  <2> QED BY <1>4, <1>9, <2>2, <2>3, <2>4, <2>5 DEF IInv
<1>13. CASE ~ Given
  <2>1. Busy' = Busy \ {w} /\ Idle(w)'
    BY <1>1, <1>7, <1>8, <1>11, <1>13 DEF Busy
  <2>2. /\ available_workers' = working_processes - Cardinality(Busy')
        /\ available_workers' \in 0 .. working_processes
        /\ available_workers' = working_processes => Busy' = {}
    <3>1. Cardinality(Busy \ {w}) = Cardinality(Busy) - 1
      BY <1>11, FS_RemoveElement
    <3>2. /\ Cardinality(Busy \ {w}) \in 0 .. working_processes
          /\ Cardinality(Busy \ {w}) = 0 => Busy \ {w} = {}
      <4>1. Busy \ {w} \in SUBSET (1 .. working_processes)
        BY <1>10
      <4> QED BY <1>2, <4>1, Counting
    <3>3. available_workers' = working_processes - Cardinality(Busy) + 1
      BY <1>1, <1>5, <1>13 DEF CountInv
    <3> QED BY <1>2, <1>11, <2>1, <3>1, <3>2, <3>3
  <2>3. CountInv'
    BY <1>1, <2>2 DEF CountInv
  <2>4. TypeOK'
    BY <1>1, <1>2, <1>4, <1>5, <1>8, <1>13, <2>2 DEF TypeOK, MasterLabels
  <2>5. \A v \in Workers : Idle(v)' \/ (v \in Busy' /\ v < working_processes)
    BY <1>3, <1>7, <2>1
  <2>6. WorkerInv'
    BY <1>1, <2>5 DEF WorkerInv
  <2>7. MasterInv'
    <3>1. CASE AllAvailable(available_workers + 1)
      <4>1. master' = "stop" /\ process_number' = 1 /\ current_plate_idx' = plates_count
        BY <1>2, <1>5, <1>13, <3>1
      <4>2. \A v \in Workers : Idle(v)' /\ ~ (v < 1)
        BY <1>5, <1>13, <2>2, <2>5, <3>1 DEF AllAvailable, Workers
      <4> QED BY <1>1, <4>1, <4>2 DEF MasterInv
    <3>2. CASE ~ AllAvailable(available_workers + 1)
      <4>1. master' = "receive_index"
        BY <1>5, <1>13, <3>2
      <4> QED BY <1>1, <1>3, <2>5, <4>1 DEF MasterInv
    <3> QED BY <3>1, <3>2
  <2> QED BY <1>4, <1>9, <2>3, <2>4, <2>6, <2>7 DEF IInv
<1> QED BY <1>12, <1>13

-----------------------------------------------------------------------------
(* The theorems *)

LEMMA Step == IInv /\ [Next]_vars => IInv'
<1> SUFFICES ASSUME IInv, [Next]_vars PROVE IInv'
  OBVIOUS
<1>1. CASE ProcessPlates
  BY <1>1, ProcessPlatesStep
<1>2. CASE Distribute
  BY <1>2, DistributeStep
<1>3. CASE Distributed
  BY <1>3, DistributedStep
<1>4. CASE ReceiveIndex
  BY <1>4, ReceiveIndexStep
<1>5. CASE ReceiveStates
  BY <1>5, ReceiveStatesStep
<1>6. CASE StopWorkers
  BY <1>6, StopWorkersStep
<1>7. ASSUME NEW w \in Workers, WorkerStep(w) PROVE IInv'
  BY <1>7, WorkerSteps
<1>8. CASE UNCHANGED vars
  <2>1. UNCHANGED vars /\ Workers' = Workers /\ Plates' = Plates
    BY <1>8 DEF vars, started, Workers, Plates
  <2> USE <2>1 DEF vars, started, masterVars, workerVars
  <2>2. \A w \in Workers :
          /\ Idle(w)' <=> Idle(w)
          /\ Told(w)' <=> Told(w)
          /\ Left(w)' <=> Left(w)
          /\ \A plate \in Plates : /\ Out(w, plate)' <=> Out(w, plate)
                                   /\ Unwritten(w, plate)' <=> Unwritten(w, plate)
    BY Undisturbed DEF Expected
  <2>3. Busy' = Busy
    BY <2>2 DEF Busy
  <2>4. TypeOK'
    BY DEF IInv, TypeOK, working_processes
  <2>5. WorkerInv'
    BY <2>2, <2>3 DEF IInv, WorkerInv
  <2>6. PlateInv'
    <3>1. \A plate \in Plates : Recorded(plate)' <=> Recorded(plate)
      BY DEF Recorded, SentStates
    <3> QED BY <2>2, <3>1 DEF IInv, PlateInv
  <2>7. MasterInv'
    BY <2>2, <2>3 DEF IInv, MasterInv, working_processes
  <2>8. CountInv' /\ OwnStates'
    BY <2>3 DEF IInv, CountInv, working_processes, OwnStates, SentStates
  <2> QED BY <2>4, <2>5, <2>6, <2>7, <2>8 DEF IInv
<1> QED BY <1>1, <1>2, <1>3, <1>4, <1>5, <1>6, <1>7, <1>8
        DEF Next, MasterStep, Finished

\* Whatever the processes and the order of the messages, each worker is at one
\* place of the exchange with the master, each plate below current_plate_idx is
\* out with one worker or recorded, and available_workers counts the workers on
\* standby (job.c: job_master_distribute_work and job_worker_process_plates).
THEOREM Invariance == Spec => []IInv
<1> QED BY InitInv, Step, PTL DEF Spec

\* The variables keep to their types; the counter of available workers never
\* leaves 0 .. working_processes, so its unsigned arithmetic does not wrap around.
THEOREM TypeCorrect == Spec => []TypeOK
<1>1. IInv => TypeOK
  BY DEF IInv
<1> QED BY <1>1, Invariance, PTL

\* No plate is simulated twice, nor by two workers (job.c: each send hands out
\* current_plate_idx and moves it on).
THEOREM NoPlateTwice == Spec => []EachPlateOnce
<1>1. IInv => EachPlateOnce
  <2> SUFFICES ASSUME IInv PROVE EachPlateOnce
    OBVIOUS
  <2>1. /\ TypeOK /\ WorkerInv /\ PlateInv /\ plates_count \in JobSizes
    BY DEF IInv, TypeOK
  <2>2. ASSUME NEW plate \in Plates PROVE plate_files[plate] <= 1
    <3>1. plate \in Int /\ current_plate_idx \in Int
      BY <2>1, Sizes DEF Plates, TypeOK
    <3> QED BY <2>1, <3>1 DEF PlateInv, Recorded
  <2>3. ASSUME NEW w \in Workers, Simulating(w)
        PROVE  working_plate_idx[w] \in Plates /\ Out(w, working_plate_idx[w])
    BY <2>1, <2>3 DEF Simulating, WorkerInv, Busy, Out, Unwritten, Written, Idle, Told, Left
  <2>4. ASSUME NEW v \in Workers, NEW w \in Workers,
               Simulating(v), Simulating(w), v # w
        PROVE  working_plate_idx[v] # working_plate_idx[w]
    BY <2>1, <2>3, <2>4 DEF PlateInv
  <2> QED BY <2>2, <2>4 DEF EachPlateOnce
<1> QED BY <1>1, Invariance, PTL

\* The number recorded for a plate is its own (job.c: the second receive of the
\* master names the source of the first).
THEOREM StatesOfTheirPlate == Spec => []OwnStates
<1>1. IInv => OwnStates
  BY DEF IInv
<1> QED BY <1>1, Invariance, PTL

\* When the master stops the workers, and when it writes the report, the job is
\* complete (job.c: the loop ends when no plate is left and every worker is
\* available; the worker the first distribution leaves out counts as available).
THEOREM JobIsComplete == Spec => []ReportIsComplete
<1>1. IInv => ReportIsComplete
  <2> SUFFICES ASSUME IInv, master \in {"stop", "report"}, NEW plate \in Plates
               PROVE  /\ plate_files[plate] = 1
                      /\ StatesOf(plate) < IntRange => k_states[plate] = StatesOf(plate)
    BY DEF ReportIsComplete
  <2>1. /\ WorkerInv /\ PlateInv /\ MasterInv /\ current_plate_idx = plates_count
        /\ plates_count \in JobSizes
    BY DEF IInv, MasterInv, TypeOK
  <2>2. \A w \in Workers : Idle(w) \/ Told(w) \/ Left(w)
    BY <2>1 DEF MasterInv
  <2>3. \A w \in Workers : ~ Out(w, plate)
    BY <2>1, <2>2, AlwaysOnePlace DEF OnePlace
  <2>4. plate < current_plate_idx
    BY <2>1, MpiAssumption DEF Plates
  <2>5. Recorded(plate)
    BY <2>1, <2>3, <2>4 DEF PlateInv
  <2> QED BY <2>1, <2>5, SentStatesFit DEF Recorded
<1> QED BY <1>1, Invariance, PTL

\* No message is in transit to or from a worker that has left (job.c: a worker is
\* sent plates_count after its last answer was received).
THEOREM ChannelsAreEmpty == Spec => []NothingInTransit
<1>1. IInv => NothingInTransit
  BY DEF IInv, WorkerInv, Idle, Busy, Out, Unwritten, Written, Told, Left, NothingInTransit
<1> QED BY <1>1, Invariance, PTL

-----------------------------------------------------------------------------
(* The job file and its plates: JobFile *)

(* Blocks *)

LEMMA BlocksDiffer ==
  /\ Job \in Blocks /\ Directory \in Blocks /\ Array \in Blocks
  /\ File \in Blocks /\ Team \in Blocks
  /\ Job \notin {Directory, Array, File, Team} /\ Directory \notin {Array, File, Team}
  /\ Array \notin {File, Team} /\ File # Team
  /\ \A i \in JobPlates : Plate(i) \in Blocks /\ Name(i) \in Blocks /\ Matrix(i) \in Blocks
  /\ \A i : /\ Plate(i) \notin {Job, Directory, Array, File, Team}
            /\ Name(i) \notin {Job, Directory, Array, File, Team}
            /\ Matrix(i) \notin {Job, Directory, Array, File, Team}
  /\ \A i, j : /\ Plate(i) # Name(j) /\ Plate(i) # Matrix(j) /\ Name(i) # Matrix(j)
               /\ Plate(i) = Plate(j) => i = j
               /\ Name(i) = Name(j) => i = j
               /\ Matrix(i) = Matrix(j) => i = j
BY DEF Blocks, JobPlates, Job, Directory, Array, File, Team, Plate, Name, Matrix

\* Which blocks are those of the job.
LEMMA BlocksOfJob ==
  /\ Job \in JobBlocks /\ Directory \in JobBlocks /\ Array \in JobBlocks
  /\ File \notin JobBlocks /\ Team \notin JobBlocks
  /\ \A i : Matrix(i) \notin JobBlocks
  /\ \A i : Plate(i) \in JobBlocks <=> i \in 0 .. job_plates_count - 1
  /\ \A i : Name(i) \in JobBlocks <=> i \in 0 .. job_plates_count - 1
BY BlocksDiffer DEF JobBlocks

LEMMA BlocksOfJobNext ==
  (/\ Job \in JobBlocks /\ Directory \in JobBlocks /\ Array \in JobBlocks
   /\ File \notin JobBlocks /\ Team \notin JobBlocks
   /\ \A i : Matrix(i) \notin JobBlocks
   /\ \A i : Plate(i) \in JobBlocks <=> i \in 0 .. job_plates_count - 1
   /\ \A i : Name(i) \in JobBlocks <=> i \in 0 .. job_plates_count - 1)'
BY BlocksOfJob, PTL

\* What is known of the counts in every state.
LEMMA Counts ==
  ASSUME JobTypeOK
  PROVE  /\ job_plates_count \in Nat /\ plate_number \in Nat /\ lines \in Nat
         /\ plate_number <= job_plates_count /\ job_plates_count <= lines
         /\ \A i \in 0 .. job_plates_count - 1 : i \in JobPlates
         /\ job_plates_count < lines => job_plates_count \in JobPlates
         /\ plate_number < job_plates_count => plate_number \in JobPlates
BY JobAssumption DEF JobTypeOK, JobPlates

\* The codes of the failures.
LEMMA Codes ==
  /\ ErrorCode["none"] = 0
  /\ \A failure \in {"path", "job", "array", "job_file", "plate", "file_name", "expand",
                     "plate_file", "header", "shared", "team", "first_thread",
                     "pthread_team", "pthread_create", "mpi_rank", "mpi_size"} :
       ErrorCode[failure] \in 1 .. 33
  /\ \A failure \in DOMAIN ErrorCode : ErrorCode[failure] \in 0 .. 33
  /\ DOMAIN ErrorCode = {"none", "path", "job", "array", "job_file", "plate", "file_name",
       "expand", "report_path", "report_file", "plate_file", "output_name", "header",
       "output_path", "output_file", "shared", "team", "first_thread", "pthread_team",
       "pthread_create", "mpi_rank", "mpi_size"}
BY DEF ErrorCode

MemoryStates == {"null", "live", "freed", "literal"}

\* The job is there while the program works on it, and nothing else but Besides.
LEMMA Whole ==
  ASSUME JobInv, pc \notin {"init_job", "returned", "undefined"}, ~ Doomed
  PROVE  /\ JobIsWhole /\ InState("live") \ JobBlocks = Besides
         /\ memory \in [Blocks -> MemoryStates]
BY DEF JobInv, MemoryInv, JobTypeOK, MemoryStates

\* A step that neither allocates nor frees leaves the job as it is.
LEMMA SameMemory ==
  ASSUME memory' = memory, job_plates_count' = job_plates_count
  PROVE  /\ InState("live")' = InState("live") /\ JobBlocks' = JobBlocks
         /\ (failed = "array" <=> failed' = "array") => (JobIsWhole' <=> JobIsWhole)
BY DEF InState, JobBlocks, JobIsWhole

-----------------------------------------------------------------------------
(* The steps *)

LEMMA InitJobStep ==
  ASSUME JobInv, InitJob
  PROVE  JobInv'
<1>1. /\ JobTypeOK /\ pc = "init_job" /\ UNCHANGED <<version, lines, counts, files>>
      /\ job_plates_count \in Nat
  BY Counts DEF JobInv, InitJob
<1> USE DEF counts, files
<1>2. /\ failed = "none" /\ error = 0 /\ plate_number = 0 /\ written = {} /\ ~ reported
      /\ job_plates_count = 0 /\ job_plates_count < plates_capacity /\ ~ Doomed
  BY <1>1 DEF JobInv, CourseInv, DoomedInv, Reading, Doomed
<1>3. InState("live") = {}
  <2>1. /\ JobBlocks \cap InState("live") = {} /\ InState("live") \ JobBlocks = Besides
        /\ Besides = {}
    BY <1>1, <1>2 DEF JobInv, MemoryInv, Besides, TeamFailures
  <2> QED BY <2>1
<1>4. JobBlocks' = {Job, Directory, Array}
  BY <1>1, <1>2 DEF JobBlocks
<1>5. CASE /\ Fail("mpi_rank") \/ Fail("mpi_size") \/ Fail("job")
           /\ pc' = "returned" /\ UNCHANGED <<after, memory>>
  <2>1. /\ failed' \in {"mpi_rank", "mpi_size", "job"}
        /\ error' = ErrorCode[failed'] /\ error' \in 1 .. 33
    BY <1>5, Codes DEF Fail
  <2>2. JobTypeOK'
    BY <1>1, <1>5, <2>1 DEF JobTypeOK, Failures, ErrorCode
  <2>3. InState("live")' = {} /\ Besides' = {}
    BY <1>3, <1>5, <2>1 DEF InState, Besides, TeamFailures
  <2>4. MemoryInv'
    BY <1>5, <2>3 DEF MemoryInv
  <2>5. DoomedInv'
    BY <2>1 DEF DoomedInv, Doomed
  <2>6. CourseInv'
    BY <1>1, <1>2, <1>5, <2>1 DEF CourseInv, Doomed, Dropped, Reading, Working
  <2> QED BY <2>2, <2>4, <2>5, <2>6 DEF JobInv
<1>6. ASSUME NEW directory \in {"live", "null", "literal"},
             \/ /\ Fail("array") /\ DestroyThen("returned")
                /\ memory' = [memory EXCEPT ![Job] = "live", ![Directory] = directory]
             \/ /\ memory' = [[memory EXCEPT ![Job] = "live", ![Directory] = directory]
                               EXCEPT ![Array] = "live"]
                /\ pc' = "set_job" /\ UNCHANGED <<after, error, failed>>
      PROVE  JobInv'
  <2>1. /\ memory \in [Blocks -> MemoryStates] /\ memory[Array] = "null"
        /\ memory' \in [Blocks -> MemoryStates]
    BY <1>1, <1>6, BlocksDiffer DEF JobTypeOK, MemoryStates, JobInv, MemoryInv
  <2>2. /\ memory'[Job] = "live" /\ memory'[Directory] = directory
        /\ \A b \in Blocks \ {Job, Directory, Array} : memory'[b] = memory[b]
    BY <1>6, <2>1, BlocksDiffer
  <2>3. \/ /\ pc' = "set_job" /\ failed' = "none" /\ error' = 0 /\ after' = after
           /\ memory'[Array] = "live"
        \/ /\ pc' = "destroy" /\ failed' = "array" /\ error' = 11 /\ after' = "returned"
           /\ memory'[Array] = "null"
    BY <1>2, <1>6, <2>1, BlocksDiffer DEF Fail, DestroyThen, ErrorCode
  <2>4. JobTypeOK'
    BY <1>1, <1>2, <2>1, <2>3 DEF JobTypeOK, Failures, ErrorCode, MemoryStates
  <2>5. InState("live")' \ {Job, Directory, Array} = {}
    BY <1>3, <2>2 DEF InState
  <2>6. Besides' = {} /\ JobIsWhole'
    BY <1>1, <1>2, <1>6, <2>2, <2>3 DEF Besides, JobIsWhole, TeamFailures
  <2>7. MemoryInv'
    BY <1>4, <2>3, <2>5, <2>6 DEF MemoryInv
  <2>8. DoomedInv'
    BY <2>3 DEF DoomedInv, Doomed
  <2>9. CourseInv'
    BY <1>1, <1>2, <2>3 DEF CourseInv, Doomed, Dropped, Reading, Working, ErrorCode
  <2> QED BY <2>4, <2>7, <2>8, <2>9 DEF JobInv
<1> QED BY <1>1, <1>5, <1>6 DEF InitJob

LEMMA OpenJobFileStep ==
  ASSUME JobInv, OpenJobFile
  PROVE  JobInv'
<1>1. /\ JobTypeOK /\ pc = "set_job" /\ UNCHANGED <<version, lines, counts, files>>
      /\ job_plates_count \in Nat
  BY Counts DEF JobInv, OpenJobFile
<1> USE DEF counts, files
<1>2. /\ failed = "none" /\ error = 0 /\ plate_number = 0 /\ written = {} /\ ~ reported
      /\ job_plates_count = 0 /\ job_plates_count < plates_capacity /\ ~ Doomed
  BY <1>1 DEF JobInv, CourseInv, DoomedInv, Reading, Doomed
<1>3. /\ JobIsWhole /\ InState("live") \ JobBlocks = {}
      /\ memory \in [Blocks -> MemoryStates]
  BY <1>1, <1>2, Whole DEF Besides, TeamFailures
<1>4. CASE Fail("job_file") /\ DestroyThen("returned") /\ UNCHANGED memory
  <2>1. failed' = "job_file" /\ error' = 12 /\ pc' = "destroy" /\ after' = "returned"
    BY <1>4 DEF Fail, ErrorCode, DestroyThen
  <2>2. JobTypeOK'
    BY <1>1, <1>4, <2>1 DEF JobTypeOK, Failures, ErrorCode
  <2>3. JobIsWhole' /\ InState("live")' \ JobBlocks' = {} /\ Besides' = {}
    BY <1>1, <1>2, <1>3, <1>4, <2>1, SameMemory DEF Besides, TeamFailures
  <2>4. MemoryInv' /\ DoomedInv'
    BY <2>1, <2>3 DEF MemoryInv, DoomedInv, Doomed
  <2>5. CourseInv'
    BY <1>1, <1>2, <2>1 DEF CourseInv, Doomed, Dropped, Reading, Working, ErrorCode
  <2> QED BY <2>2, <2>4, <2>5 DEF JobInv
<1>5. CASE /\ memory' = [memory EXCEPT ![File] = "live"]
           /\ pc' = "read" /\ UNCHANGED <<after, error, failed>>
  <2>1. /\ memory' \in [Blocks -> MemoryStates] /\ memory'[File] = "live"
        /\ \A b \in Blocks \ {File} : memory'[b] = memory[b]
    BY <1>3, <1>5, BlocksDiffer DEF MemoryStates
  <2>2. JobTypeOK'
    BY <1>1, <1>5, <2>1 DEF JobTypeOK, MemoryStates
  <2>3. JobBlocks' = JobBlocks /\ InState("live")' = InState("live") \cup {File}
    BY <1>1, <2>1, BlocksDiffer DEF JobBlocks, InState
  <2>4. JobIsWhole'
    BY <1>1, <1>2, <1>3, <1>5, <2>1, BlocksDiffer DEF JobIsWhole
  <2>5. InState("live")' \ JobBlocks' = {File} /\ Besides' = {File}
    BY <1>2, <1>3, <1>5, <2>3, BlocksOfJob DEF Besides, TeamFailures
  <2>6. MemoryInv' /\ DoomedInv'
    BY <1>2, <1>5, <2>4, <2>5 DEF MemoryInv, DoomedInv, Doomed
  <2>7. CourseInv'
    BY <1>1, <1>2, <1>5 DEF CourseInv, Doomed, Dropped, Reading, Working
  <2> QED BY <2>2, <2>6, <2>7 DEF JobInv
<1> QED BY <1>1, <1>4, <1>5 DEF OpenJobFile

LEMMA ReadPlateStep ==
  ASSUME JobInv, ReadPlate
  PROVE  JobInv'
<1>1. /\ JobTypeOK /\ pc = "read" /\ UNCHANGED <<version, lines, plate_number, files>>
      /\ job_plates_count < lines /\ job_plates_count \in Nat /\ lines \in Nat
      /\ job_plates_count \in JobPlates /\ plates_capacity \in Nat
      /\ \A i \in 0 .. job_plates_count - 1 : i \in JobPlates
  BY Counts DEF JobInv, ReadPlate, JobTypeOK
<1> USE DEF files
<1>2. /\ failed = "none" /\ error = 0 /\ plate_number = 0 /\ written = {} /\ ~ reported
      /\ job_plates_count < plates_capacity /\ ~ Doomed
  BY <1>1 DEF JobInv, CourseInv, DoomedInv, Reading, Doomed
<1>3. /\ JobIsWhole /\ InState("live") \ JobBlocks = {File}
      /\ memory \in [Blocks -> MemoryStates]
  BY <1>1, <1>2, Whole DEF Besides, TeamFailures
<1>4. CASE /\ Fail("plate") /\ DestroyThen("returned")
           /\ UNCHANGED <<memory, job_plates_count, plates_capacity>>
  <2>1. failed' = "plate" /\ error' = 13 /\ pc' = "destroy" /\ after' = "returned"
    BY <1>4 DEF Fail, ErrorCode, DestroyThen
  <2>2. JobTypeOK'
    BY <1>1, <1>4, <2>1 DEF JobTypeOK, Failures, ErrorCode
  <2>3. JobIsWhole' /\ InState("live")' \ JobBlocks' = {File} /\ Besides' = {File}
    BY <1>1, <1>2, <1>3, <1>4, <2>1, SameMemory DEF Besides, TeamFailures
  <2>4. MemoryInv' /\ DoomedInv'
    BY <2>1, <2>3 DEF MemoryInv, DoomedInv, Doomed
  <2>5. CourseInv'
    BY <1>1, <1>2, <2>1 DEF CourseInv, Doomed, Dropped, Reading, Working, ErrorCode
  <2> QED BY <2>2, <2>4, <2>5 DEF JobInv
<1>5. CASE /\ Fail("file_name") /\ DestroyThen("returned")
           /\ memory' = [memory EXCEPT ![Plate(job_plates_count)] = "freed"]
           /\ UNCHANGED <<job_plates_count, plates_capacity>>
  <2>1. failed' = "file_name" /\ error' = 14 /\ pc' = "destroy" /\ after' = "returned"
    BY <1>5 DEF Fail, ErrorCode, DestroyThen
  <2>2. /\ memory' \in [Blocks -> MemoryStates] /\ memory'[Plate(job_plates_count)] = "freed"
        /\ \A b \in Blocks \ {Plate(job_plates_count)} : memory'[b] = memory[b]
        /\ memory[Plate(job_plates_count)] # "live"
    <3>1. Plate(job_plates_count) \in Blocks /\ Plate(job_plates_count) \notin JobBlocks
      BY <1>1, BlocksDiffer, BlocksOfJob
    <3>2. Plate(job_plates_count) # File
      BY BlocksDiffer
    <3> QED BY <1>3, <1>5, <3>1, <3>2 DEF MemoryStates, InState
  <2>3. JobTypeOK'
    BY <1>1, <1>5, <2>1, <2>2 DEF JobTypeOK, Failures, ErrorCode, MemoryStates
  <2>4. JobBlocks' = JobBlocks /\ InState("live")' = InState("live")
    BY <1>5, <2>2 DEF JobBlocks, InState
  <2>5. JobIsWhole'
    <3>1. \A i \in 0 .. job_plates_count - 1 :
            i # job_plates_count /\ Plate(i) # Plate(job_plates_count)
      BY <1>1, BlocksDiffer
    <3> QED BY <1>1, <1>2, <1>3, <1>5, <2>1, <2>2, <3>1, BlocksDiffer DEF JobIsWhole
  <2>6. InState("live")' \ JobBlocks' = {File} /\ Besides' = {File}
    BY <1>3, <2>1, <2>4 DEF Besides, TeamFailures
  <2>7. MemoryInv' /\ DoomedInv'
    BY <2>1, <2>5, <2>6 DEF MemoryInv, DoomedInv, Doomed
  <2>8. CourseInv'
    BY <1>1, <1>2, <2>1 DEF CourseInv, Doomed, Dropped, Reading, Working, ErrorCode
  <2> QED BY <2>3, <2>7, <2>8 DEF JobInv
<1>6. CASE StorePlate
  <2>1. /\ job_plates_count' = job_plates_count + 1 /\ job_plates_count' \in Nat
        /\ memory' = [memory EXCEPT ![Plate(job_plates_count)] = "live",
                                    ![Name(job_plates_count)] = "live"]
    BY <1>1, <1>6 DEF StorePlate
  <2>2. \/ /\ failed' = "expand" /\ error' = 15 /\ pc' = "destroy" /\ after' = "free_plate"
           /\ plates_capacity' = 2 * plates_capacity
        \/ /\ pc' = "read" /\ UNCHANGED <<after, error, failed>>
           /\ job_plates_count' < plates_capacity' /\ plates_capacity' \in Nat
    BY <1>1, <1>2, <1>6, <2>1 DEF StorePlate, Fail, DestroyThen, ErrorCode
  <2>3. /\ memory' \in [Blocks -> MemoryStates]
        /\ memory'[Plate(job_plates_count)] = "live" /\ memory'[Name(job_plates_count)] = "live"
        /\ \A b \in Blocks \ {Plate(job_plates_count), Name(job_plates_count)} :
             memory'[b] = memory[b]
    BY <1>1, <1>3, <2>1, BlocksDiffer DEF MemoryStates
  <2>4. JobTypeOK'
    BY <1>1, <1>2, <2>1, <2>2, <2>3 DEF JobTypeOK, Failures, ErrorCode, MemoryStates
  <2>5. JobIsWhole'
    <3>1. \A i \in 0 .. job_plates_count' - 1 :
            memory'[Plate(i)] = "live" /\ memory'[Name(i)] = "live"
      <4> SUFFICES ASSUME NEW i \in 0 .. job_plates_count' - 1, i # job_plates_count
                   PROVE  memory'[Plate(i)] = "live" /\ memory'[Name(i)] = "live"
        BY <2>3
      <4>1. i \in 0 .. job_plates_count - 1 /\ i \in JobPlates
        BY <1>1, <2>1
      <4>2. /\ Plate(i) \in Blocks \ {Plate(job_plates_count), Name(job_plates_count)}
            /\ Name(i) \in Blocks \ {Plate(job_plates_count), Name(job_plates_count)}
        BY <4>1, BlocksDiffer
      <4> QED BY <1>3, <2>3, <4>1, <4>2 DEF JobIsWhole
    <3>2. /\ memory'[Job] = memory[Job] /\ memory'[Directory] = memory[Directory]
          /\ memory'[Array] = memory[Array]
      BY <2>3, BlocksDiffer
    <3> QED BY <1>2, <1>3, <2>2, <3>1, <3>2 DEF JobIsWhole
  <2>6. InState("live")' = InState("live") \cup {Plate(job_plates_count), Name(job_plates_count)}
    BY <1>1, <2>3, BlocksDiffer DEF InState
  <2>7. JobBlocks' = JobBlocks \cup {Plate(job_plates_count), Name(job_plates_count)}
    <3>1. 0 .. job_plates_count' - 1 = (0 .. job_plates_count - 1) \cup {job_plates_count}
      BY <1>1, <2>1
    <3> QED BY <3>1 DEF JobBlocks
  <2>8. InState("live")' \ JobBlocks' = {File}
    BY <1>3, <2>6, <2>7, BlocksDiffer
  <2>9. failed' # "expand" => Besides' = {File}
    BY <1>2, <2>2 DEF Besides, TeamFailures
  <2>10. MemoryInv' /\ DoomedInv'
    BY <1>1, <1>2, <2>1, <2>2, <2>5, <2>8, <2>9 DEF MemoryInv, DoomedInv, Doomed
  <2>11. CourseInv'
    BY <1>1, <1>2, <2>2 DEF CourseInv, Doomed, Dropped, Reading, Working
  <2> QED BY <2>4, <2>10, <2>11 DEF JobInv
<1> QED BY <1>4, <1>5, <1>6 DEF ReadPlate

\* The plate was freed with the job: free meets it again.
LEMMA FreePlateStep ==
  ASSUME JobInv, FreePlate
  PROVE  JobInv'
<1>1. /\ JobTypeOK /\ pc = "free_plate" /\ failed = "expand" /\ job_plates_count > 0
      /\ memory[Plate(job_plates_count - 1)] = "freed"
      /\ UNCHANGED <<version, lines, counts, error, failed, files>> /\ after' = "returned"
  BY DEF JobInv, CourseInv, DoomedInv, FreePlate
<1> USE DEF counts, files
<1>2. Plate(job_plates_count - 1) \in InState("freed")
  <2>1. job_plates_count - 1 \in 0 .. job_plates_count - 1
    BY <1>1, Counts
  <2> QED BY <1>1, <2>1, Counts, BlocksDiffer DEF InState
<1>3. pc' = "undefined" /\ memory' = memory
  BY <1>2 DEF FreePlate, Release, Undefined
<1>4. JobTypeOK'
  BY <1>1, <1>3 DEF JobTypeOK
<1>5. MemoryInv' /\ DoomedInv' /\ CourseInv'
  BY <1>1, <1>3 DEF MemoryInv, DoomedInv, CourseInv, Doomed, Dropped, Reading, Working
<1> QED BY <1>4, <1>5 DEF JobInv

LEMMA CloseJobFileStep ==
  ASSUME JobInv, CloseJobFile
  PROVE  JobInv'
<1>1. /\ JobTypeOK /\ pc = "read" /\ pc' = "loop" /\ job_plates_count = lines
      /\ UNCHANGED <<version, lines, after, counts, error, failed, files>>
      /\ memory' = [memory EXCEPT ![File] = "freed"] /\ job_plates_count \in Nat
  BY Counts DEF JobInv, CloseJobFile
<1> USE DEF counts, files
<1>2. /\ failed = "none" /\ error = 0 /\ plate_number = 0 /\ written = {} /\ ~ reported
      /\ ~ Doomed
  BY <1>1 DEF JobInv, CourseInv, DoomedInv, Reading, Doomed
<1>3. /\ JobIsWhole /\ InState("live") \ JobBlocks = {File}
      /\ memory \in [Blocks -> MemoryStates]
  BY <1>1, <1>2, Whole DEF Besides, TeamFailures
<1>4. /\ memory' \in [Blocks -> MemoryStates] /\ memory'[File] = "freed"
      /\ \A b \in Blocks \ {File} : memory'[b] = memory[b]
  BY <1>1, <1>3, BlocksDiffer DEF MemoryStates
<1>5. JobTypeOK'
  BY <1>1, <1>4 DEF JobTypeOK, MemoryStates
<1>6. JobBlocks' = JobBlocks /\ InState("live")' = InState("live") \ {File}
  BY <1>1, <1>4, BlocksDiffer DEF JobBlocks, InState
<1>7. JobIsWhole'
  <2>1. \A i \in 0 .. job_plates_count - 1 : i \in JobPlates
    BY <1>1, Counts
  <2> QED BY <1>1, <1>2, <1>3, <1>4, <2>1, BlocksDiffer DEF JobIsWhole
<1>8. InState("live")' \ JobBlocks' = {} /\ Besides' = {}
  BY <1>1, <1>2, <1>3, <1>6 DEF Besides, TeamFailures
<1>9. MemoryInv' /\ DoomedInv'
  BY <1>1, <1>2, <1>7, <1>8 DEF MemoryInv, DoomedInv, Doomed
<1>10. CourseInv'
  BY <1>1, <1>2 DEF CourseInv, Doomed, Dropped, Reading, Working
<1> QED BY <1>5, <1>9, <1>10 DEF JobInv

\* process_plates asks a job that was destroyed for the number of its plates only after
\* clean_plate failed.
LEMMA LoopStep ==
  ASSUME JobInv, Loop
  PROVE  JobInv'
<1>1. /\ JobTypeOK /\ pc = "loop"
      /\ UNCHANGED <<version, lines, after, counts, memory, error, failed, files>>
      /\ job_plates_count \in Nat /\ plate_number \in Nat /\ plate_number <= job_plates_count
  BY Counts DEF JobInv, Loop
<1> USE DEF counts, files
<1>2. CASE memory[Job] # "live"
  <2>1. pc' = "undefined"
    BY <1>2 DEF Loop
  <2>2. Doomed
    BY <1>1, <1>2, Whole DEF JobIsWhole
  <2>3. JobTypeOK'
    BY <1>1, <2>1 DEF JobTypeOK
  <2>4. MemoryInv' /\ DoomedInv' /\ CourseInv'
    BY <1>1, <2>1, <2>2 DEF MemoryInv, DoomedInv, CourseInv, Doomed, Dropped, Reading, Working
  <2> QED BY <2>3, <2>4 DEF JobInv
<1>3. CASE memory[Job] = "live"
  <2>1. pc' = IF plate_number < job_plates_count THEN "set_matrix" ELSE "report"
    BY <1>3 DEF Loop
  <2>2. ~ Doomed
    BY <1>1, <1>3 DEF JobInv, DoomedInv, Doomed
  <2>3. /\ failed = "none" /\ job_plates_count = lines /\ error = 0
        /\ written = 0 .. plate_number - 1 /\ ~ reported
    BY <1>1, <2>2 DEF JobInv, CourseInv, Working
  <2>4. JobTypeOK'
    BY <1>1, <2>1 DEF JobTypeOK
  <2>5. JobIsWhole' /\ InState("live")' \ JobBlocks' = Besides'
    BY <1>1, <2>1, <2>2, <2>3, Whole, SameMemory DEF Besides, TeamFailures
  <2>6. MemoryInv' /\ DoomedInv'
    BY <1>1, <2>1, <2>3, <2>5 DEF MemoryInv, DoomedInv, Doomed
  <2>7. pc' \in {"set_matrix", "report"} /\ (pc' = "report" => plate_number = job_plates_count)
    BY <1>1, <2>1
  <2>8. CourseInv'
    BY <1>1, <2>3, <2>7 DEF CourseInv, Doomed, Dropped, Reading, Working
  <2> QED BY <2>4, <2>6, <2>8 DEF JobInv
<1> QED BY <1>2, <1>3

LEMMA SetPlateMatrixStep ==
  ASSUME JobInv, SetPlateMatrix
  PROVE  JobInv'
<1>1. /\ JobTypeOK /\ pc = "set_matrix" /\ UNCHANGED <<version, lines, counts, files>>
      /\ job_plates_count \in Nat /\ plate_number \in JobPlates /\ plate_number \in Nat
  BY Counts DEF JobInv, SetPlateMatrix, JobTypeOK
<1> USE DEF counts, files
<1>2. /\ failed = "none" /\ job_plates_count = lines /\ error = 0 /\ ~ Doomed
      /\ written = 0 .. plate_number - 1 /\ ~ reported
  BY <1>1 DEF JobInv, CourseInv, DoomedInv, Working, Doomed
<1>3. /\ JobIsWhole /\ InState("live") \ JobBlocks = {}
      /\ memory \in [Blocks -> MemoryStates]
  BY <1>1, <1>2, Whole DEF Besides, TeamFailures
<1>4. CASE /\ \/ NoPath
              \/ memory[Directory] # "null" /\ (Fail("plate_file") \/ Fail("header"))
           /\ IF version = "omp_mpi" THEN pc' = "undefined" /\ UNCHANGED after
                                     ELSE DestroyThen("returned")
           /\ UNCHANGED memory
  <2>1. /\ failed' \in {"path", "plate_file", "header"}
        /\ error' = ErrorCode[failed'] /\ error' \in 1 .. 33
    BY <1>4, Codes DEF Fail, NoPath
  <2>2. \/ version = "omp_mpi" /\ pc' = "undefined" /\ after' = after
        \/ pc' = "destroy" /\ after' = "returned"
    BY <1>4 DEF DestroyThen
  <2>3. JobTypeOK'
    BY <1>1, <1>4, <2>1, <2>2 DEF JobTypeOK, Failures, ErrorCode
  <2>4. JobIsWhole' /\ InState("live")' \ JobBlocks' = {} /\ Besides' = {}
    BY <1>1, <1>2, <1>3, <1>4, <2>1, <2>2, SameMemory DEF Besides, TeamFailures
  <2>5. MemoryInv' /\ DoomedInv'
    BY <2>1, <2>2, <2>4 DEF MemoryInv, DoomedInv, Doomed
  <2>6. /\ error' = ErrorCode[failed]' /\ error' # 0
        /\ ~ Doomed' /\ ~ Dropped' /\ ~ Reading' /\ ~ Working'
    BY <2>1, <2>2 DEF Doomed, Dropped, Reading, Working
  <2>7. CourseInv'
    BY <1>1, <2>1, <2>2, <2>6 DEF CourseInv
  <2> QED BY <2>3, <2>5, <2>7 DEF JobInv
<1>5. CASE failed' = "matrix" /\ Undefined /\ UNCHANGED <<after, error>>
  <2>1. pc' = "undefined" /\ memory' = memory
    BY <1>5 DEF Undefined
  <2>2. JobTypeOK'
    BY <1>1, <1>5, <2>1 DEF JobTypeOK, Failures
  <2>3. MemoryInv' /\ DoomedInv' /\ CourseInv'
    BY <1>5, <2>1 DEF MemoryInv, DoomedInv, CourseInv, Doomed, Dropped, Reading, Working
  <2> QED BY <2>2, <2>3 DEF JobInv
<1>6. CASE /\ memory' = [memory EXCEPT ![Matrix(plate_number)] = "live"]
           /\ pc' = "equilibrate" /\ UNCHANGED <<after, error, failed>>
  <2>1. /\ memory' \in [Blocks -> MemoryStates] /\ memory'[Matrix(plate_number)] = "live"
        /\ \A b \in Blocks \ {Matrix(plate_number)} : memory'[b] = memory[b]
    BY <1>1, <1>3, <1>6, BlocksDiffer DEF MemoryStates
  <2>2. JobTypeOK'
    BY <1>1, <1>6, <2>1 DEF JobTypeOK, MemoryStates
  <2>3. JobBlocks' = JobBlocks
    BY <1>1 DEF JobBlocks
  <2>4. InState("live")' = InState("live") \cup {Matrix(plate_number)}
    BY <1>1, <2>1, BlocksDiffer DEF InState
  <2>5. JobIsWhole'
    <3>1. \A i \in 0 .. job_plates_count - 1 : i \in JobPlates
      BY <1>1, Counts
    <3> QED BY <1>1, <1>2, <1>3, <1>6, <2>1, <3>1, BlocksDiffer DEF JobIsWhole
  <2>6. InState("live")' \ JobBlocks' = {Matrix(plate_number)}
    BY <1>3, <2>3, <2>4, BlocksOfJob
  <2>7. Besides' = {Matrix(plate_number)}
    BY <1>1, <1>2, <1>6 DEF Besides, TeamFailures
  <2>8. MemoryInv' /\ DoomedInv'
    BY <1>2, <1>6, <2>5, <2>6, <2>7 DEF MemoryInv, DoomedInv, Doomed
  <2>9. CourseInv'
    BY <1>1, <1>2, <1>6 DEF CourseInv, Doomed, Dropped, Reading, Working
  <2> QED BY <2>2, <2>8, <2>9 DEF JobInv
<1> QED BY <1>4, <1>5, <1>6 DEF SetPlateMatrix

\* The steps of equilibrate_plate touch no block but that of the team.
LEMMA EquilibratePlateEnds ==
  ASSUME EquilibratePlate
  PROVE  /\ memory' = memory \/ \E state \in {"live", "freed"} : TeamIs(state)
         /\ \/ /\ \E failure \in TeamFailures :
                     failed' = failure /\ error' = ErrorCode[failure]
               /\ pc' = "destroy" /\ after' = "returned"
               /\ \/ failed' # "pthread_create" /\ (memory' = memory \/ TeamIs("freed"))
                  \/ failed' = "pthread_create" /\ TeamIs("live")
            \/ /\ failed' = "barrier" /\ pc' = "undefined" /\ memory' = memory
               /\ UNCHANGED <<after, error>>
            \/ /\ failed' = "later_thread" /\ pc' = "joining" /\ TeamIs("live")
               /\ UNCHANGED <<after, error>>
            \/ pc' = "clean" /\ (memory' = memory \/ TeamIs("freed"))
               /\ UNCHANGED <<after, error, failed>>
<1>1. CASE EquilibrateOptimized
  BY <1>1 DEF EquilibrateOptimized, Fail, DestroyThen, Undefined, Equilibrated, TeamFailures
<1>2. CASE EquilibratePthread
  BY <1>2 DEF EquilibratePthread, Fail, DestroyThen, Equilibrated, TeamFailures
<1>3. CASE Equilibrated /\ UNCHANGED memory
  BY <1>3 DEF Equilibrated
<1> QED BY <1>1, <1>2, <1>3 DEF EquilibratePlate

LEMMA EquilibratePlateStep ==
  ASSUME JobInv, EquilibratePlate
  PROVE  JobInv'
<1>1. /\ JobTypeOK /\ pc = "equilibrate" /\ UNCHANGED <<version, lines, counts, files>>
      /\ job_plates_count \in Nat
  BY Counts DEF JobInv, EquilibratePlate
<1> USE DEF counts, files
<1>2. /\ failed = "none" /\ job_plates_count = lines /\ error = 0 /\ ~ Doomed
      /\ written = 0 .. plate_number - 1 /\ ~ reported
  BY <1>1 DEF JobInv, CourseInv, DoomedInv, Working, Doomed
<1>3. /\ JobIsWhole /\ InState("live") \ JobBlocks = {Matrix(plate_number)}
      /\ memory \in [Blocks -> MemoryStates]
  BY <1>1, <1>2, Whole DEF Besides, TeamFailures
<1>4. memory[Team] # "live" /\ JobBlocks' = JobBlocks
  BY <1>1, <1>3, BlocksDiffer, BlocksOfJob DEF InState, JobBlocks
<1>5. /\ memory' \in [Blocks -> MemoryStates]
      /\ \A b \in Blocks \ {Team} : memory'[b] = memory[b]
  BY <1>3, EquilibratePlateEnds, BlocksDiffer DEF TeamIs, MemoryStates
<1>6. TeamIs("live") => memory'[Team] = "live"
  BY <1>3, BlocksDiffer DEF TeamIs
<1>7. memory' = memory \/ TeamIs("freed") => memory'[Team] # "live"
  BY <1>3, <1>4, BlocksDiffer DEF TeamIs
<1>8. InState("live")' \ JobBlocks' =
        {Matrix(plate_number)} \cup (IF memory'[Team] = "live" THEN {Team} ELSE {})
  <2>1. InState("live")' = InState("live") \cup (IF memory'[Team] = "live" THEN {Team} ELSE {})
    BY <1>4, <1>5, BlocksDiffer DEF InState
  <2> QED BY <1>3, <1>4, <2>1, BlocksOfJob
<1>9. failed' # "array" => JobIsWhole'
  <2>1. \A i \in 0 .. job_plates_count - 1 : i \in JobPlates
    BY <1>1, Counts
  <2> QED BY <1>1, <1>2, <1>3, <1>5, <2>1, BlocksDiffer DEF JobIsWhole
<1>10. CASE /\ \E failure \in TeamFailures : failed' = failure /\ error' = ErrorCode[failure]
            /\ pc' = "destroy" /\ after' = "returned"
            /\ \/ failed' # "pthread_create" /\ (memory' = memory \/ TeamIs("freed"))
               \/ failed' = "pthread_create" /\ TeamIs("live")
  <2>1. /\ failed' \in {"shared", "team", "first_thread", "pthread_team", "pthread_create"}
        /\ error' = ErrorCode[failed'] /\ error' \in 1 .. 33
    BY <1>10, Codes DEF TeamFailures
  <2>2. JobTypeOK'
    BY <1>1, <1>5, <1>10, <2>1 DEF JobTypeOK, Failures, ErrorCode, MemoryStates
  <2>3. memory'[Team] = "live" <=> failed' = "pthread_create"
    BY <1>6, <1>7, <1>10
  <2>4. Besides' = {Matrix(plate_number)}
                     \cup (IF failed' = "pthread_create" THEN {Team} ELSE {})
    BY <1>1, <1>10, <2>1 DEF Besides, TeamFailures
  <2>5. InState("live")' \ JobBlocks' = Besides' /\ JobIsWhole'
    BY <1>8, <1>9, <2>1, <2>3, <2>4
  <2>6. /\ error' = ErrorCode[failed]' /\ error' # 0
        /\ ~ Doomed' /\ ~ Dropped' /\ ~ Reading' /\ ~ Working'
    BY <1>10, <2>1 DEF Doomed, Dropped, Reading, Working
  <2>7. MemoryInv' /\ DoomedInv'
    BY <1>10, <2>1, <2>5, <2>6 DEF MemoryInv, DoomedInv
  <2>8. CourseInv'
    BY <1>10, <2>1, <2>6 DEF CourseInv
  <2> QED BY <2>2, <2>7, <2>8 DEF JobInv
<1>11. CASE failed' = "barrier" /\ pc' = "undefined" /\ UNCHANGED <<after, error>>
  <2>1. JobTypeOK'
    BY <1>1, <1>5, <1>11 DEF JobTypeOK, Failures, MemoryStates
  <2>2. MemoryInv' /\ DoomedInv' /\ CourseInv'
    BY <1>11 DEF MemoryInv, DoomedInv, CourseInv, Doomed, Dropped, Reading, Working
  <2> QED BY <2>1, <2>2 DEF JobInv
<1>12. CASE /\ failed' = "later_thread" /\ pc' = "joining" /\ TeamIs("live")
            /\ UNCHANGED <<after, error>>
  <2>1. JobTypeOK'
    BY <1>1, <1>5, <1>12 DEF JobTypeOK, Failures, MemoryStates
  <2>2. Besides' = {Matrix(plate_number), Team}
    BY <1>1, <1>12 DEF Besides, TeamFailures
  <2>3. InState("live")' \ JobBlocks' = Besides' /\ JobIsWhole'
    BY <1>6, <1>8, <1>9, <1>12, <2>2
  <2>4. MemoryInv' /\ DoomedInv'
    BY <1>12, <2>3 DEF MemoryInv, DoomedInv, Doomed
  <2>5. CourseInv'
    BY <1>12 DEF CourseInv, Doomed, Dropped, Reading, Working
  <2> QED BY <2>1, <2>4, <2>5 DEF JobInv
<1>13. CASE /\ pc' = "clean" /\ (memory' = memory \/ TeamIs("freed"))
            /\ UNCHANGED <<after, error, failed>>
  <2>1. JobTypeOK'
    BY <1>1, <1>5, <1>13 DEF JobTypeOK, MemoryStates
  <2>2. Besides' = {Matrix(plate_number)}
    BY <1>1, <1>2, <1>13 DEF Besides, TeamFailures
  <2>3. InState("live")' \ JobBlocks' = Besides' /\ JobIsWhole'
    BY <1>2, <1>7, <1>8, <1>9, <1>13, <2>2
  <2>4. MemoryInv' /\ DoomedInv'
    BY <1>2, <1>13, <2>3 DEF MemoryInv, DoomedInv, Doomed
  <2>5. CourseInv'
    BY <1>1, <1>2, <1>13 DEF CourseInv, Doomed, Dropped, Reading, Working
  <2> QED BY <2>1, <2>4, <2>5 DEF JobInv
<1> QED BY <1>10, <1>11, <1>12, <1>13, EquilibratePlateEnds

LEMMA CleanPlateStep ==
  ASSUME JobInv, CleanPlate
  PROVE  JobInv'
<1>1. /\ JobTypeOK /\ pc = "clean" /\ plate_number' = plate_number + 1
      /\ UNCHANGED <<version, lines, job_plates_count, plates_capacity, error, reported>>
      /\ job_plates_count \in Nat /\ plate_number \in JobPlates /\ plate_number \in Nat
      /\ plate_number < job_plates_count
  BY Counts DEF JobInv, CleanPlate, JobTypeOK
<1>2. /\ failed = "none" /\ job_plates_count = lines /\ error = 0 /\ ~ Doomed
      /\ written = 0 .. plate_number - 1 /\ ~ reported
  BY <1>1 DEF JobInv, CourseInv, DoomedInv, Working, Doomed
<1>3. /\ JobIsWhole /\ InState("live") \ JobBlocks = {Matrix(plate_number)}
      /\ memory \in [Blocks -> MemoryStates]
  BY <1>1, <1>2, Whole DEF Besides, TeamFailures
<1>4. plate_number' \in 0 .. job_plates_count'
  BY <1>1
<1>5. CASE \E failure \in {"output_name", "output_path"} \cap MayFail :
             /\ failed' = failure /\ DestroyThen("loop")
             /\ UNCHANGED <<memory, written>>
  <2>1. /\ failed' \in {"output_name", "output_path"} /\ pc' = "destroy" /\ after' = "loop"
        /\ memory' = memory /\ written' = written
    BY <1>5 DEF DestroyThen
  <2>2. JobTypeOK'
    BY <1>1, <1>4, <2>1 DEF JobTypeOK, Failures, ErrorCode
  <2>3. JobIsWhole'
    BY <1>1, <1>2, <1>3, <2>1, SameMemory
  <2>4. Doomed' /\ ~ Reading' /\ ~ Working' /\ ~ Dropped'
    BY <2>1 DEF Doomed, Dropped, Reading, Working
  <2>5. MemoryInv' /\ DoomedInv' /\ CourseInv'
    BY <2>1, <2>3, <2>4 DEF MemoryInv, DoomedInv, CourseInv
  <2> QED BY <2>2, <2>5 DEF JobInv
<1>6. CASE failed' = "output_file" /\ Undefined /\ UNCHANGED <<after, written>>
  <2>1. pc' = "undefined" /\ memory' = memory
    BY <1>6 DEF Undefined
  <2>2. JobTypeOK'
    BY <1>1, <1>4, <1>6, <2>1 DEF JobTypeOK, Failures, ErrorCode
  <2>3. MemoryInv' /\ DoomedInv' /\ CourseInv'
    BY <1>6, <2>1 DEF MemoryInv, DoomedInv, CourseInv, Doomed, Dropped, Reading, Working
  <2> QED BY <2>2, <2>3 DEF JobInv
<1>7. CASE /\ written' = written \cup {plate_number}
           /\ Release({Matrix(plate_number)}, {Matrix(plate_number)}, "loop")
           /\ UNCHANGED <<after, failed>>
  <2>1. Matrix(plate_number) \in InState("live")
    BY <1>3
  <2>2. memory' = FreeIn(memory, {Matrix(plate_number)}) /\ pc' = "loop"
    <3>1. {Matrix(plate_number)} \cap (InState("freed") \cup InState("literal")) = {}
      BY <2>1 DEF InState
    <3> QED BY <1>7, <2>1, <3>1 DEF Release
  <2>3. /\ memory' \in [Blocks -> MemoryStates] /\ memory'[Matrix(plate_number)] = "freed"
        /\ \A b \in Blocks \ {Matrix(plate_number)} : memory'[b] = memory[b]
    BY <1>3, <2>1, <2>2 DEF FreeIn, MemoryStates, InState
  <2>4. written' = 0 .. plate_number' - 1
    BY <1>1, <1>2, <1>7
  <2>5. JobTypeOK'
    BY <1>1, <1>4, <1>7, <2>2, <2>3 DEF JobTypeOK, MemoryStates
  <2>6. JobBlocks' = JobBlocks
    BY <1>1 DEF JobBlocks
  <2>7. InState("live")' = InState("live") \ {Matrix(plate_number)}
    BY <2>3 DEF InState
  <2>8. JobIsWhole'
    <3>1. \A i \in 0 .. job_plates_count - 1 : i \in JobPlates
      BY <1>1, Counts
    <3> QED BY <1>1, <1>2, <1>3, <1>7, <2>3, <3>1, BlocksDiffer DEF JobIsWhole
  <2>9. InState("live")' \ JobBlocks' = {} /\ Besides' = {}
    BY <1>2, <1>3, <1>7, <2>2, <2>6, <2>7 DEF Besides, TeamFailures
  <2>10. MemoryInv' /\ DoomedInv'
    BY <1>2, <1>7, <2>2, <2>8, <2>9 DEF MemoryInv, DoomedInv, Doomed
  <2>11. CourseInv'
    BY <1>1, <1>2, <1>7, <2>2, <2>4 DEF CourseInv, Doomed, Dropped, Reading, Working
  <2> QED BY <2>5, <2>10, <2>11 DEF JobInv
<1> QED BY <1>5, <1>6, <1>7 DEF CleanPlate

LEMMA ReportResultsStep ==
  ASSUME JobInv, ReportResults
  PROVE  JobInv'
<1>1. /\ JobTypeOK /\ pc = "report" /\ pc' = "destroy" /\ after' = "returned"
      /\ UNCHANGED <<version, lines, counts, memory, error, written>>
      /\ job_plates_count \in Nat
  BY Counts DEF JobInv, ReportResults, DestroyThen
<1> USE DEF counts
<1>2. /\ failed = "none" /\ job_plates_count = lines /\ error = 0 /\ ~ Doomed
      /\ written = 0 .. plate_number - 1 /\ plate_number = job_plates_count
  BY <1>1 DEF JobInv, CourseInv, DoomedInv, Working, Doomed
<1>3. JobIsWhole /\ InState("live") \ JobBlocks = {}
  BY <1>1, <1>2, Whole DEF Besides, TeamFailures
<1>4. \/ failed' \in {"report_path", "report_file"} /\ reported' = reported
      \/ failed' = "none" /\ reported' = TRUE
  BY <1>2 DEF ReportResults
<1>5. JobTypeOK'
  BY <1>1, <1>4 DEF JobTypeOK, Failures, ErrorCode
<1>6. JobIsWhole' /\ InState("live")' \ JobBlocks' = {} /\ Besides' = {}
  BY <1>1, <1>2, <1>3, <1>4, SameMemory DEF Besides, TeamFailures
<1>7. MemoryInv' /\ DoomedInv'
  BY <1>1, <1>4, <1>6 DEF MemoryInv, DoomedInv, Doomed
<1>8. CourseInv'
  BY <1>1, <1>2, <1>4 DEF CourseInv, Doomed, Dropped, Reading, Working
<1> QED BY <1>5, <1>7, <1>8 DEF JobInv

\* destroy_job frees the blocks of a job that is whole, unless its directory is the
\* string literal.
LEMMA DestroyJobStep ==
  ASSUME JobInv, DestroyJob
  PROVE  JobInv'
<1>1. /\ JobTypeOK /\ pc = "destroy" /\ after \in {"returned", "free_plate", "loop"}
      /\ UNCHANGED <<version, lines, after, counts, error, failed, files>>
      /\ job_plates_count \in Nat /\ \A i \in 0 .. job_plates_count - 1 : i \in JobPlates
      /\ memory \in [Blocks -> MemoryStates]
  BY Counts DEF JobInv, DestroyJob, JobTypeOK, MemoryStates
<1> USE DEF counts, files
<1>2. JobIsWhole
  BY <1>1, Whole DEF JobInv, DoomedInv, Doomed
<1>3. CASE memory[Directory] = "literal"
  <2>1. pc' = "undefined" /\ memory' = memory
    <3>1. Directory \in JobBlocks \cap InState("literal")
      BY <1>3, BlocksDiffer DEF JobBlocks, InState
    <3> QED BY <3>1 DEF DestroyJob, Release, Undefined, JobBlocks
  <2>2. JobTypeOK'
    BY <1>1, <2>1 DEF JobTypeOK
  <2>3. MemoryInv' /\ DoomedInv'
    BY <2>1 DEF MemoryInv, DoomedInv
  <2>4. CourseInv'
    BY <1>1, <1>3, <2>1 DEF JobInv, CourseInv, Reading, Working
  <2> QED BY <2>2, <2>3, <2>4 DEF JobInv
<1>4. CASE memory[Directory] # "literal"
  <2> DEFINE stored == 0 .. job_plates_count - 1
             blocks == {Plate(i) : i \in stored} \cup {Name(i) : i \in stored}
                         \cup {Array, Directory, Job}
  <2>1. blocks = JobBlocks
    BY DEF JobBlocks
  <2>2. {Job} \cup {Array : i \in stored} \cup {Plate(i) : i \in stored} \subseteq InState("live")
    <3>1. \A i \in stored : failed # "array"
      BY <1>1 DEF JobInv, CourseInv
    <3> QED BY <1>1, <1>2, <3>1, BlocksDiffer DEF JobIsWhole, InState
  <2>3. blocks \cap (InState("freed") \cup InState("literal")) = {}
    <3>1. \A b \in blocks : memory[b] \in {"null", "live"}
      <4>1. \A i \in stored : memory[Plate(i)] = "live" /\ memory[Name(i)] = "live"
        BY <1>2 DEF JobIsWhole
      <4>2. memory[Directory] \in {"null", "live"}
        BY <1>1, <1>2, <1>4, BlocksDiffer DEF JobIsWhole, MemoryStates
      <4>3. memory[Job] = "live" /\ memory[Array] \in {"null", "live"}
        BY <1>2 DEF JobIsWhole
      <4> QED BY <4>1, <4>2, <4>3
    <3> QED BY <3>1 DEF InState
  <2>4. memory' = FreeIn(memory, JobBlocks) /\ pc' = after
    BY <2>1, <2>2, <2>3 DEF DestroyJob, Release
  <2>5. JobBlocks' = JobBlocks
    BY <1>1 DEF JobBlocks
  <2>6. /\ memory' \in [Blocks -> MemoryStates]
        /\ \A b \in Blocks : memory'[b] = IF b \in JobBlocks /\ memory[b] = "live"
                                          THEN "freed" ELSE memory[b]
    BY <1>1, <2>4 DEF FreeIn, MemoryStates
  <2>7. InState("live")' = InState("live") \ JobBlocks
    BY <2>6 DEF InState
  <2>8. JobTypeOK'
    BY <1>1, <2>4, <2>6 DEF JobTypeOK, MemoryStates
  <2>9. CASE ~ Doomed
    <3>1. after = "returned" /\ InState("live") \ JobBlocks = Besides
      BY <1>1, <2>9, Whole DEF JobInv, CourseInv
    <3>2. ~ Doomed' /\ pc' = "returned" /\ Besides' = Besides
      BY <1>1, <2>4, <2>9, <3>1 DEF Doomed, Besides, TeamFailures
    <3>3. JobBlocks' \cap InState("live")' = {} /\ InState("live")' \ JobBlocks' = Besides'
      BY <2>5, <2>7, <3>1, <3>2
    <3>4. MemoryInv'
      BY <3>2, <3>3 DEF MemoryInv
    <3>5. DoomedInv'
      BY <3>2 DEF DoomedInv, Doomed
    <3>6. CourseInv'
      BY <1>1, <2>9, <3>2 DEF JobInv, CourseInv, Dropped, Reading, Working
    <3> QED BY <2>8, <3>4, <3>5, <3>6 DEF JobInv
  <2>10. CASE Doomed
    <3>1. \/ failed = "expand" /\ after = "free_plate" /\ job_plates_count > 0
          \/ failed \in {"output_name", "output_path"} /\ after = "loop"
      BY <1>1, <2>10 DEF JobInv, DoomedInv, Doomed
    <3>2. Doomed' /\ pc' = after /\ failed' = failed
      BY <1>1, <2>4, <2>10 DEF Doomed
    <3>3. memory'[Job] = "freed"
      BY <1>2, <2>6, BlocksOfJob, BlocksDiffer DEF JobIsWhole
    <3>4. job_plates_count > 0 => memory'[Plate(job_plates_count - 1)] = "freed"
      <4>1. job_plates_count > 0 => job_plates_count - 1 \in stored
        BY <1>1
      <4> QED BY <1>1, <1>2, <2>6, <4>1, BlocksOfJob, BlocksDiffer DEF JobIsWhole
    <3>5. MemoryInv' /\ DoomedInv'
      BY <1>1, <3>1, <3>2, <3>3, <3>4 DEF MemoryInv, DoomedInv
    <3>6. CourseInv'
      BY <1>1, <3>1, <3>2 DEF JobInv, CourseInv, Dropped, Reading, Working
    <3> QED BY <2>8, <3>5, <3>6 DEF JobInv
  <2> QED BY <2>9, <2>10
<1> QED BY <1>3, <1>4

LEMMA UnchangedStep ==
  ASSUME JobInv, UNCHANGED jobVars
  PROVE  JobInv'
<1> USE DEF JobInv, jobVars, counts, files
<1>1. JobTypeOK'
  BY DEF JobTypeOK
<1>2. InState("live")' = InState("live") /\ JobBlocks' = JobBlocks /\ Besides' = Besides
  BY SameMemory DEF Besides, TeamFailures
<1>3. (JobIsWhole' <=> JobIsWhole) /\ (Doomed' <=> Doomed)
  BY SameMemory DEF Doomed
<1>4. MemoryInv'
  BY <1>2, <1>3 DEF MemoryInv
<1>5. DoomedInv'
  BY <1>3 DEF DoomedInv
<1>6. (Dropped' <=> Dropped) /\ (Reading' <=> Reading) /\ (Working' <=> Working)
  BY DEF Dropped, Reading, Working
<1>7. CourseInv'
  BY <1>3, <1>6 DEF CourseInv
<1> QED BY <1>1, <1>4, <1>5, <1>7

LEMMA StepInv ==
  ASSUME JobInv, [JobNext]_jobVars
  PROVE  JobInv'
<1>1. CASE InitJob
  BY <1>1, InitJobStep
<1>2. CASE OpenJobFile
  BY <1>2, OpenJobFileStep
<1>3. CASE ReadPlate
  BY <1>3, ReadPlateStep
<1>4. CASE FreePlate
  BY <1>4, FreePlateStep
<1>5. CASE CloseJobFile
  BY <1>5, CloseJobFileStep
<1>6. CASE Loop
  BY <1>6, LoopStep
<1>7. CASE SetPlateMatrix
  BY <1>7, SetPlateMatrixStep
<1>8. CASE EquilibratePlate
  BY <1>8, EquilibratePlateStep
<1>9. CASE CleanPlate
  BY <1>9, CleanPlateStep
<1>10. CASE ReportResults
  BY <1>10, ReportResultsStep
<1>11. CASE DestroyJob
  BY <1>11, DestroyJobStep
<1>12. CASE Stopped \/ UNCHANGED jobVars
  BY <1>12, UnchangedStep DEF Stopped
<1> QED BY <1>1, <1>2, <1>3, <1>4, <1>5, <1>6, <1>7, <1>8, <1>9, <1>10, <1>11, <1>12 DEF JobNext

-----------------------------------------------------------------------------
(* Theorems *)

LEMMA JobInitInv == JobInit => JobInv
<1> SUFFICES ASSUME JobInit PROVE JobInv
  OBVIOUS
<1>1. /\ lines \in 0 .. MaxPlates /\ MaxPlates \in Nat /\ StartingCapacity \in Nat
      /\ StartingCapacity > 0 /\ \A b \in Blocks : memory[b] = "null"
  BY JobAssumption DEF JobInit
<1>2. JobTypeOK
  <2>1. memory \in [Blocks -> {"null", "live", "freed", "literal"}]
    BY DEF JobInit
  <2>2. /\ job_plates_count \in 0 .. lines /\ plate_number \in 0 .. job_plates_count
        /\ error \in 0 .. 33
    BY <1>1 DEF JobInit
  <2> QED BY <1>1, <2>1, <2>2 DEF JobInit, JobTypeOK
<1>3. InState("live") = {} /\ Besides = {} /\ ~ Doomed
  BY <1>1 DEF JobInit, InState, Besides, Doomed, TeamFailures
<1>4. MemoryInv /\ DoomedInv
  BY <1>1, <1>3 DEF JobInit, MemoryInv, DoomedInv, Doomed
<1>5. CourseInv
  BY <1>1, <1>3 DEF JobInit, CourseInv, Reading, Working, Doomed
<1> QED BY <1>2, <1>4, <1>5 DEF JobInv

\* At every moment of simulate the blocks destroy_job would free are allocated, and
\* what else is allocated is known; and after a failure that dooms the job, what is
\* freed already and what will meet it.
THEOREM JobInvariance == JobSpec => []JobInv
<1>1. JobInv /\ [JobNext]_jobVars => JobInv'
  BY StepInv
<1> QED BY JobInitInv, <1>1, PTL DEF JobSpec

\* The variables stay in their types, plate_number within the plates of the job.
THEOREM JobTypeCorrect == JobSpec => []JobTypeOK
<1>1. JobInv => JobTypeOK
  BY DEF JobInv
<1> QED BY JobInvariance, <1>1, PTL

\* check_capacity leaves room in job->plates for the plate of the next line, for every
\* STARTING_CAPACITY and every job file.
THEOREM ArrayHasRoom == JobSpec => []RoomForNextPlate
<1>1. JobInv => RoomForNextPlate
  BY DEF JobInv, CourseInv, RoomForNextPlate, Reading
<1> QED BY JobInvariance, <1>1, PTL

\* A failure that the code handles ends simulate with its code of readme.adoc, and
\* destroy_job meets no freed block on the way.
THEOREM FailureHasItsCode == JobSpec => []ErrorIsReturned
<1>1. JobInv => ErrorIsReturned
  <2> SUFFICES ASSUME JobInv, ~ Doomed, failed \notin {"report_path", "report_file"},
                      ~ (version = "omp_mpi" /\ failed \in {"path", "plate_file", "header"}),
                      memory[Directory] # "literal",
                      failed # "later_thread"
               PROVE  /\ pc \notin {"undefined", "joining"}
                      /\ pc = "returned" => error = ErrorCode[failed]
    BY DEF ErrorIsReturned, Doomed
  <2>1. pc \notin {"undefined", "joining"}
    BY DEF JobInv, CourseInv
  <2>2. CASE failed = "none"
    BY <2>2, Codes DEF JobInv, CourseInv, Dropped
  <2>3. CASE failed # "none"
    BY <2>3 DEF JobInv, CourseInv, Dropped
  <2> QED BY <2>1, <2>2, <2>3
<1> QED BY JobInvariance, <1>1, PTL

\* What each failure leaves allocated when simulate returns.
THEOREM LeaksAreKnown == JobSpec => []LeftAtReturn
<1>1. JobInv => LeftAtReturn
  <2> DEFINE Leaks == (IF failed \in {"plate", "file_name"} THEN {File} ELSE {})
                      \cup (IF failed \in TeamFailures THEN {Matrix(plate_number)} ELSE {})
                      \cup (IF failed = "pthread_create" THEN {Team} ELSE {})
  <2> SUFFICES ASSUME JobInv, pc = "returned"
               PROVE  InState("live") = Leaks
    BY DEF LeftAtReturn
  <2>1. ~ Doomed
    BY DEF JobInv, DoomedInv
  <2>2. Besides = Leaks
    BY DEF JobInv, CourseInv, Besides
  <2> QED BY <2>1, <2>2 DEF JobInv, MemoryInv
<1> QED BY JobInvariance, <1>1, PTL

\* simulate returns 0 only after it wrote the final file of every plate of the job, and
\* the report unless its own writing failed.
THEOREM SuccessIsComplete == JobSpec => []SuccessMeansWritten
<1>1. JobInv => SuccessMeansWritten
  BY DEF JobInv, CourseInv, DoomedInv, Doomed, Dropped, SuccessMeansWritten
<1> QED BY JobInvariance, <1>1, PTL
=============================================================================
