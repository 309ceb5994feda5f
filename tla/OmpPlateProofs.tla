--------------------------- MODULE OmpPlateProofs ---------------------------
(***************************************************************************)
(* Proofs about the parallel region of OmpPlate, for every plate, every    *)
(* arithmetic, every team and every static schedule of the rows.           *)
(***************************************************************************)
EXTENDS OmpPlate, PlateProofs

\* Where the barrier takes a thread from and to.
LEMMA BarrierLabels ==
  /\ DOMAIN Arriving = {"end_single", "end_for", "barrier", "end_parallel"}
  /\ Arriving["end_single"] = "wait_single" /\ Arriving["end_for"] = "wait_for"
  /\ Arriving["barrier"] = "wait_barrier" /\ Arriving["end_parallel"] = "wait_parallel"
  /\ DOMAIN Leaving = {"wait_single", "wait_for", "wait_barrier", "wait_parallel"}
  /\ Leaving["wait_single"] = "rows" /\ Leaving["wait_for"] = "check"
  /\ Leaving["wait_barrier"] = "single" /\ Leaving["wait_parallel"] = "returned"
BY DEF Arriving, Leaving

LEMMA InitType == Init => TypeOK
<1> SUFFICES ASSUME Init PROVE TypeOK
  OBVIOUS
<1>1. PICK plate \in InitialPlates :
        buffer = [b \in Buffers |-> IF b = "first" THEN plate
                                                   ELSE InitAuxiliary(plate)]
  BY DEF Init
<1>2. buffer \in [Buffers -> PlateType]
  BY <1>1, InitialBuffersType
<1>3. pc \in [Threads -> Labels] /\ equilibrated_copy \in [Threads -> BOOLEAN]
  BY DEF Init, Labels
<1> QED BY <1>2, <1>3 DEF Init, TypeOK, Buffers

\* A thread updates a row that the schedule gave it and nobody updated yet, and
\* changes nothing else of the plate.
LEMMA RowUpdated ==
  ASSUME TypeOK, MatrixInv, NEW t \in Threads, UpdateRow(t)
  PROVE  \E r \in todo \cap RowsOf(t) :
           /\ r \in InnerRows /\ r \in Rows
           /\ todo' = todo \ {r}
           /\ equilibrated_copy' =
                [equilibrated_copy EXCEPT ![t] =
                   @ /\ ~ RowChanged(buffer[auxiliary_matrix], buffer'[matrix], r)]
           /\ buffer' \in [Buffers -> PlateType]
           /\ buffer'[auxiliary_matrix] = buffer[auxiliary_matrix]
           /\ \A s \in Rows \ {r} : buffer'[matrix][s] = buffer[matrix][s]
           /\ \A c \in InnerCols :
                buffer'[matrix][r][c] = UpdateCell(buffer[auxiliary_matrix], r, c)
           /\ \A b \in Buffers, s \in Rows, c \in Cols :
                s \notin InnerRows \/ c \notin InnerCols
                  => buffer'[b][s][c] = buffer[b][s][c]
<1>1. PICK r \in todo \cap RowsOf(t) :
        /\ buffer' = [buffer EXCEPT ![matrix][r] =
                        UpdatedRow(buffer[auxiliary_matrix], buffer[matrix], r)]
        /\ equilibrated_copy' =
             [equilibrated_copy EXCEPT ![t] =
                @ /\ ~ RowChanged(buffer[auxiliary_matrix], buffer'[matrix], r)]
        /\ todo' = todo \ {r}
  BY DEF UpdateRow
<1>2. r \in InnerRows /\ r \in Rows
  BY PlateAssumption DEF RowsOf, InnerRows, Rows
<1>3. /\ buffer \in [Buffers -> PlateType]
      /\ matrix \in Buffers /\ auxiliary_matrix \in Buffers /\ matrix # auxiliary_matrix
  BY DEF TypeOK, MatrixInv
<1>4. PICK current, target, new :
        /\ current \in PlateType /\ target \in PlateType
        /\ current = buffer[auxiliary_matrix] /\ target = buffer[matrix]
        /\ new = buffer'[matrix]
  BY <1>3
<1>5. /\ new[r] = UpdatedRow(current, target, r)
      /\ \A s \in Rows \ {r} : new[s] = target[s]
      /\ DOMAIN new = Rows /\ new = [s \in Rows |-> new[s]]
      /\ \A b \in Buffers \ {matrix} : buffer'[b] = buffer[b]
      /\ buffer' = [b \in Buffers |-> buffer'[b]]
  BY <1>1, <1>2, <1>3, <1>4 DEF PlateType
<1>6. /\ \A s \in Rows : new[s] \in [Cols -> Temperatures]
      /\ \A c \in InnerCols : new[r][c] = UpdateCell(current, r, c)
      /\ \A s \in Rows, c \in Cols :
           s \notin InnerRows \/ c \notin InnerCols => new[s][c] = target[s][c]
  BY <1>2, <1>4, <1>5, RowWritten
<1>7. buffer' \in [Buffers -> PlateType]
  <2>1. new \in PlateType
    BY <1>5, <1>6 DEF PlateType
  <2> QED BY <1>3, <1>4, <1>5, <2>1
<1>8. ASSUME NEW b \in Buffers, NEW s \in Rows, NEW c \in Cols,
             s \notin InnerRows \/ c \notin InnerCols
      PROVE  buffer'[b][s][c] = buffer[b][s][c]
  <2>1. CASE b = matrix
    BY <1>4, <1>6, <1>8, <2>1
  <2>2. CASE b # matrix
    BY <1>5, <2>2
  <2> QED BY <2>1, <2>2
<1>9. buffer'[auxiliary_matrix] = buffer[auxiliary_matrix]
  BY <1>3, <1>5
<1>10. /\ \A s \in Rows \ {r} : buffer'[matrix][s] = buffer[matrix][s]
       /\ \A c \in InnerCols :
            buffer'[matrix][r][c] = UpdateCell(buffer[auxiliary_matrix], r, c)
  BY <1>4, <1>5, <1>6
<1> WITNESS r \in todo \cap RowsOf(t)
<1> QED BY <1>1, <1>2, <1>7, <1>8, <1>9, <1>10

LEMMA TypeStep ==
  ASSUME TypeOK, MatrixInv, Next
  PROVE  TypeOK'
<1>0. ASSUME NEW t \in Threads, UpdateRow(t)
      PROVE  buffer' \in [Buffers -> PlateType]
  BY <1>0, RowUpdated
<1> USE DEF TypeOK, plateVars, Labels
<1>1. ASSUME NEW t \in Threads, EnterSingle(t) PROVE TypeOK'
  BY <1>1 DEF EnterSingle
<1>2. ASSUME NEW t \in Threads, StartState(t) PROVE TypeOK'
  BY <1>2 DEF StartState, set_auxiliary
<1>3. ASSUME NEW t \in Threads, UpdateRow(t) PROVE TypeOK'
  <2>1. equilibrated_copy' \in [Threads -> BOOLEAN] /\ todo' \in SUBSET InnerRows
    BY <1>3 DEF UpdateRow
  <2> QED BY <1>0, <1>3, <2>1 DEF UpdateRow
<1>4. ASSUME NEW t \in Threads, RowsDone(t) PROVE TypeOK'
  BY <1>4 DEF RowsDone
<1>5. ASSUME NEW t \in Threads, Reduce(t) PROVE TypeOK'
  BY <1>5 DEF Reduce
<1>6. ASSUME NEW t \in Threads, Check(t) PROVE TypeOK'
  BY <1>6 DEF Check
<1>7. ASSUME NEW t \in Threads, Wait(t) PROVE TypeOK'
  <2>1. pc' = [pc EXCEPT ![t] = Arriving[pc[t]]] /\ pc[t] \in DOMAIN Arriving
    BY <1>7 DEF Wait
  <2>2. Arriving[pc[t]] \in Labels
    BY <2>1, BarrierLabels
  <2>3. pc' \in [Threads -> Labels]
    BY <2>1, <2>2
  <2> QED BY <1>7, <2>3 DEF Wait
<1>8. CASE Open
  <2>1. \A t \in Threads : Leaving[pc[t]] \in Labels
    BY <1>8, BarrierLabels DEF Open
  <2>2. pc' \in [Threads -> Labels]
    BY <1>8, <2>1 DEF Open
  <2>3. equilibrated_copy' \in [Threads -> BOOLEAN] /\ todo' \in SUBSET InnerRows
    BY <1>8 DEF Open
  <2>4. single_taken' \in BOOLEAN
    BY <1>8 DEF Open
  <2> QED BY <1>8, <2>2, <2>3, <2>4 DEF Open
<1>9. CASE Finished
  BY <1>9 DEF Finished, vars
<1> QED BY <1>1, <1>2, <1>3, <1>4, <1>5, <1>6, <1>7, <1>8, <1>9 DEF Next, ThreadStep

LEMMA MatrixStep ==
  ASSUME TypeOK, MatrixInv, Next
  PROVE  MatrixInv'
<1> USE DEF plateVars, vars
<1>1. CASE UNCHANGED <<buffer, matrix, auxiliary_matrix>>
  BY <1>1 DEF MatrixInv
<1>2. CASE set_auxiliary
  BY <1>2 DEF MatrixInv, set_auxiliary
<1>3. ASSUME NEW t \in Threads, UpdateRow(t) PROVE MatrixInv'
  <2>1. UNCHANGED <<matrix, auxiliary_matrix>>
    BY <1>3 DEF UpdateRow
  <2>2. \A b \in Buffers, s \in Rows, c \in Cols :
          s \notin InnerRows \/ c \notin InnerCols => buffer'[b][s][c] = buffer[b][s][c]
    BY <1>3, RowUpdated
  <2> QED BY <2>1, <2>2 DEF MatrixInv, Buffers
<1> QED BY <1>1, <1>2, <1>3
        DEF Next, ThreadStep, Finished, EnterSingle, StartState, RowsDone, Reduce,
            Check, Wait, Open

-----------------------------------------------------------------------------
(* The phases *)

\* The team is in one phase at a time.
LEMMA OnePhase ==
  /\ Entering => ~ Starting /\ ~ Started /\ ~ Looping /\ ~ Checking /\ ~ Returned
  /\ Starting => ~ Started /\ ~ Looping /\ ~ Checking /\ ~ Returned
  /\ Started => ~ Looping /\ ~ Checking /\ ~ Returned
  /\ Looping => ~ Checking /\ ~ Returned
  /\ Checking => ~ Returned
<1>1. PICK t0 \in Threads : TRUE
  BY ThreadsAssumption
<1> QED BY <1>1 DEF Entering, Starting, Started, Looping, Checking, Returned

LEMMA OnePhaseNext ==
  /\ Entering' => ~ Starting' /\ ~ Started' /\ ~ Looping' /\ ~ Checking' /\ ~ Returned'
  /\ Starting' => ~ Started' /\ ~ Looping' /\ ~ Checking' /\ ~ Returned'
  /\ Started' => ~ Looping' /\ ~ Checking' /\ ~ Returned'
  /\ Looping' => ~ Checking' /\ ~ Returned'
  /\ Checking' => ~ Returned'
  BY OnePhase, PTL

\* The steps of a thread keep the team in its phase, or take it to the next one:
\* the first to reach single, and the one that executes it when it is done.
LEMMA PhaseThreadStep ==
  ASSUME TypeOK, PhaseInv, NEW t \in Threads, ThreadStep(t)
  PROVE  \/ EnterSingle(t) /\ Entering /\ Starting'
         \/ EnterSingle(t) /\ Starting /\ Starting'
         \/ EnterSingle(t) /\ Started /\ Started'
         \/ StartState(t) /\ Starting /\ Started'
         \/ (UpdateRow(t) \/ RowsDone(t) \/ Reduce(t) \/ Wait(t)) /\ Looping /\ Looping'
         \/ (Check(t) \/ Wait(t)) /\ Checking /\ Checking'
         \/ Wait(t) /\ Starting /\ Starting'
         \/ Wait(t) /\ Started /\ Started'
<1> USE DEF plateVars
<1>1. pc \in [Threads -> Labels] /\ equilibrated_plate \in BOOLEAN
  BY DEF TypeOK
<1>2. CASE EnterSingle(t)
  <2>1. pc[t] = "single" /\ (Entering \/ Starting \/ Started)
    BY <1>2 DEF EnterSingle, PhaseInv, Looping, Checking, Returned
  <2>2. CASE Entering
    <3>1. Starting'
      BY <1>1, <1>2, <2>2 DEF EnterSingle, Entering, Starting
    <3> QED BY <1>2, <2>2, <3>1
  <2>3. CASE Starting
    <3>1. Starting'
      BY <1>1, <1>2, <2>3 DEF EnterSingle, Starting
    <3> QED BY <1>2, <2>3, <3>1
  <2>4. CASE Started
    <3>1. Started'
      BY <1>1, <1>2, <2>4 DEF EnterSingle, Started
    <3> QED BY <1>2, <2>4, <3>1
  <2> QED BY <2>1, <2>2, <2>3, <2>4
<1>3. CASE StartState(t)
  <2>1. Starting
    BY <1>3 DEF StartState, PhaseInv, Entering, Started, Looping, Checking, Returned
  <2>2. Started'
    BY <1>1, <1>3, <2>1 DEF StartState, Starting, Started
  <2> QED BY <1>3, <2>1, <2>2
<1>4. CASE UpdateRow(t)
  <2>1. UNCHANGED <<pc, single_taken>> /\ pc[t] = "rows"
    BY <1>4 DEF UpdateRow
  <2>2. Looping
    BY <2>1 DEF PhaseInv, Entering, Starting, Started, Checking, Returned
  <2>3. Looping'
    BY <2>1, <2>2 DEF Looping
  <2> QED BY <1>4, <2>2, <2>3
<1>5. CASE RowsDone(t) \/ Reduce(t)
  <2>1. pc[t] \in {"rows", "reduction"} /\ Looping
    BY <1>5 DEF RowsDone, Reduce, PhaseInv, Entering, Starting, Started, Looping,
                Checking, Returned
  <2>2. Looping'
    BY <1>1, <1>5, <2>1 DEF RowsDone, Reduce, Looping
  <2> QED BY <1>5, <2>1, <2>2
<1>6. CASE Check(t)
  <2>1. pc[t] = "check" /\ Checking
    BY <1>6 DEF Check, PhaseInv, Entering, Starting, Started, Looping, Checking,
                Returned
  <2>2. Checking'
    BY <1>1, <1>6, <2>1 DEF Check, Checking
  <2> QED BY <1>6, <2>1, <2>2
<1>7. CASE Wait(t)
  <2>1. /\ pc' = [pc EXCEPT ![t] = Arriving[pc[t]]]
        /\ pc[t] \in DOMAIN Arriving
        /\ UNCHANGED <<equilibrated_plate, single_taken>>
    BY <1>7 DEF Wait
  <2>2. CASE pc[t] = "end_single"
    <3>1. pc' = [pc EXCEPT ![t] = "wait_single"] /\ (Starting \/ Started)
      BY <2>1, <2>2, BarrierLabels
         DEF PhaseInv, Entering, Looping, Checking, Returned
    <3>2. CASE Starting
      <4>1. Starting'
        BY <1>1, <2>1, <2>2, <3>1, <3>2 DEF Starting
      <4> QED BY <1>7, <3>2, <4>1
    <3>3. CASE Started
      <4>1. Started'
        BY <1>1, <2>1, <3>1, <3>3 DEF Started
      <4> QED BY <1>7, <3>3, <4>1
    <3> QED BY <3>1, <3>2, <3>3
  <2>3. CASE pc[t] = "end_for"
    <3>1. pc' = [pc EXCEPT ![t] = "wait_for"] /\ Looping
      BY <2>1, <2>3, BarrierLabels
         DEF PhaseInv, Entering, Starting, Started, Checking, Returned
    <3>2. Looping'
      BY <1>1, <2>1, <3>1 DEF Looping
    <3> QED BY <1>7, <3>1, <3>2
  <2>4. CASE pc[t] \in {"barrier", "end_parallel"}
    <3>1. Checking
      BY <2>4 DEF PhaseInv, Entering, Starting, Started, Looping, Returned
    <3>2. pc' = [pc EXCEPT ![t] = IF @ = "barrier" THEN "wait_barrier"
                                                   ELSE "wait_parallel"]
      BY <2>1, <2>4, BarrierLabels
    <3>3. Checking'
      BY <1>1, <2>1, <2>4, <3>1, <3>2 DEF Checking
    <3> QED BY <1>7, <3>1, <3>3
  <2> QED BY <2>1, <2>2, <2>3, <2>4, BarrierLabels
<1> QED BY <1>2, <1>3, <1>4, <1>5, <1>6, <1>7 DEF ThreadStep

\* When the barrier opens, the whole team waits at the same place of it: it goes
\* from the single section to the loop, from the loop to the test, from the
\* barrier after the test to the next turn, or from the end to the caller.
LEMMA PhaseOpen ==
  ASSUME TypeOK, PhaseInv, Open
  PROVE  \/ /\ Started /\ Looping'
            /\ \A t \in Threads : pc[t] = "wait_single" /\ pc'[t] = "rows"
         \/ /\ Looping /\ Checking'
            /\ \A t \in Threads : pc[t] = "wait_for" /\ pc'[t] = "check"
         \/ /\ Checking /\ ~ equilibrated_plate /\ Entering'
            /\ \A t \in Threads : pc[t] = "wait_barrier" /\ pc'[t] = "single"
         \/ /\ Checking /\ equilibrated_plate /\ Returned'
            /\ \A t \in Threads : pc[t] = "wait_parallel" /\ pc'[t] = "returned"
<1>1. /\ \A t \in Threads : pc[t] \in DOMAIN Leaving /\ pc'[t] = Leaving[pc[t]]
      /\ equilibrated_plate' = equilibrated_plate
      /\ single_taken' <=> single_taken /\ \A t \in Threads : pc[t] # "wait_single"
  BY DEF Open
<1>2. PICK t0 \in Threads : TRUE
  BY ThreadsAssumption
<1>3. CASE \A t \in Threads : pc[t] = "wait_single"
  <2>1. \A t \in Threads : pc'[t] = "rows"
    BY <1>1, <1>3, BarrierLabels
  <2>2. Started /\ ~ single_taken'
    BY <1>1, <1>2, <1>3
       DEF PhaseInv, Entering, Starting, Started, Looping, Checking, Returned
  <2> QED BY <1>3, <2>1, <2>2 DEF Looping
<1>4. CASE \A t \in Threads : pc[t] = "wait_for"
  <2>1. \A t \in Threads : pc'[t] = "check"
    BY <1>1, <1>4, BarrierLabels
  <2>2. Looping /\ ~ single_taken'
    BY <1>1, <1>2, <1>4
       DEF PhaseInv, Entering, Starting, Started, Looping, Checking, Returned
  <2> QED BY <1>4, <2>1, <2>2 DEF Checking
<1>5. CASE \A t \in Threads : pc[t] = "wait_barrier"
  <2>1. \A t \in Threads : pc'[t] = "single"
    BY <1>1, <1>5, BarrierLabels
  <2>2. Checking /\ ~ single_taken' /\ ~ equilibrated_plate
    BY <1>1, <1>2, <1>5
       DEF PhaseInv, Entering, Starting, Started, Looping, Checking, Returned
  <2> QED BY <1>5, <2>1, <2>2 DEF Entering
<1>6. CASE \A t \in Threads : pc[t] = "wait_parallel"
  <2>1. \A t \in Threads : pc'[t] = "returned"
    BY <1>1, <1>6, BarrierLabels
  <2>2. Checking /\ ~ single_taken' /\ equilibrated_plate
    BY <1>1, <1>2, <1>6
       DEF PhaseInv, Entering, Starting, Started, Looping, Checking, Returned
  <2> QED BY <1>1, <1>6, <2>1, <2>2 DEF Returned
<1>7. \/ \A t \in Threads : pc[t] = "wait_single"
      \/ \A t \in Threads : pc[t] = "wait_for"
      \/ \A t \in Threads : pc[t] = "wait_barrier"
      \/ \A t \in Threads : pc[t] = "wait_parallel"
  <2>1. \A t \in Threads :
          pc[t] \in {"wait_single", "wait_for", "wait_barrier", "wait_parallel"}
    BY <1>1, BarrierLabels
  <2> QED BY <1>2, <2>1
          DEF PhaseInv, Entering, Starting, Started, Looping, Checking, Returned
<1> QED BY <1>3, <1>4, <1>5, <1>6, <1>7

-----------------------------------------------------------------------------
(* The state in preparation *)

\* The verdict of a thread is compared with the rows it wrote only.
LEMMA SameRows ==
  ASSUME NEW t \in Threads, Written(t)' = Written(t),
         UNCHANGED <<buffer, matrix, auxiliary_matrix>>
  PROVE  Unchanged(t)' <=> Unchanged(t)
BY DEF Unchanged

\* A thread adds the row it updates to the rows written and to its own verdict.
LEMMA LoopUpdateRow ==
  ASSUME TypeOK, MatrixInv, Looping, LoopInv, NEW t \in Threads, UpdateRow(t)
  PROVE  LoopInv'
<1> DEFINE aux == buffer[auxiliary_matrix]
           old == buffer[matrix]
           new == buffer'[matrix]
<1>1. PICK r0 \in todo \cap RowsOf(t) :
        /\ r0 \in InnerRows /\ r0 \in Rows
        /\ todo' = todo \ {r0}
        /\ equilibrated_copy' =
             [equilibrated_copy EXCEPT ![t] = @ /\ ~ RowChanged(aux, new, r0)]
        /\ buffer'[auxiliary_matrix] = aux
        /\ \A s \in Rows \ {r0} : new[s] = old[s]
        /\ \A c \in InnerCols : new[r0][c] = UpdateCell(aux, r0, c)
  BY RowUpdated
<1>2. /\ UNCHANGED <<matrix, auxiliary_matrix, equilibrated_plate, owner, pc>>
      /\ equilibrated_copy \in [Threads -> BOOLEAN]
      /\ pc[t] = "rows"
  BY DEF UpdateRow, TypeOK
<1>3. Written(t)' = Written(t) \cup {r0} /\ r0 \notin Written(t)
  BY <1>1, <1>2 DEF Written, RowsOf
<1>4. \A u \in Threads \ {t} : Written(u)' = Written(u) /\ r0 \notin Written(u)
  BY <1>1, <1>2 DEF Written, RowsOf
<1>5. \A u \in Threads : \A r \in Written(u) :
        /\ r \in Rows \ {r0}
        /\ new[r] = old[r]
        /\ RowChanged(aux, new, r) <=> RowChanged(aux, old, r)
  <2>1. \A u \in Threads : \A r \in Written(u) : r \in Rows
    BY PlateAssumption DEF Written, RowsOf, InnerRows, Rows
  <2>2. \A u \in Threads : \A r \in Written(u) : r \in Rows \ {r0} /\ new[r] = old[r]
    BY <1>1, <1>3, <1>4, <2>1
  <2> HIDE DEF aux, old, new
  <2> QED BY <2>2 DEF RowChanged
<1>6. buffer'[matrix'] = new /\ buffer'[auxiliary_matrix'] = aux
  BY <1>1, <1>2
<1>7. \A u \in Threads \ {t} : Unchanged(u)' <=> Unchanged(u)
  <2>1. ASSUME NEW u \in Threads \ {t}
        PROVE  /\ Unchanged(u) <=> \A r \in Written(u) : ~ RowChanged(aux, old, r)
               /\ Unchanged(u)' <=> \A r \in Written(u) : ~ RowChanged(aux, new, r)
    BY <1>4, <1>6 DEF Unchanged
  <2> HIDE DEF aux, old, new
  <2> QED BY <1>5, <2>1
<1>8. Unchanged(t)' <=> Unchanged(t) /\ ~ RowChanged(aux, new, r0)
  <2>1. /\ Unchanged(t) <=> \A r \in Written(t) : ~ RowChanged(aux, old, r)
        /\ Unchanged(t)' <=> \A r \in Written(t) \cup {r0} : ~ RowChanged(aux, new, r)
    BY <1>3, <1>6 DEF Unchanged
  <2> HIDE DEF aux, old, new
  <2> QED BY <1>5, <2>1
<1>9. \A u \in Threads : \A r \in Written(u)' : \A c \in InnerCols :
        buffer'[matrix'][r][c] = UpdateCell(buffer'[auxiliary_matrix'], r, c)
  <2>1. \A u \in Threads : \A r \in Written(u) : \A c \in InnerCols :
          old[r][c] = UpdateCell(aux, r, c)
    BY DEF LoopInv
  <2>2. \A u \in Threads : \A r \in Written(u)' : r \in Written(u) \/ r = r0
    BY <1>3, <1>4
  <2> HIDE DEF aux, old, new
  <2> QED BY <1>1, <1>5, <1>6, <2>1, <2>2
<1>10. \A u \in Threads : equilibrated_copy'[u] <=> Unchanged(u)'
  <2>1. equilibrated_copy'[t] <=> equilibrated_copy[t] /\ ~ RowChanged(aux, new, r0)
    BY <1>1, <1>2
  <2>2. \A u \in Threads \ {t} : equilibrated_copy'[u] = equilibrated_copy[u]
    BY <1>1, <1>2
  <2>3. \A u \in Threads : equilibrated_copy[u] <=> Unchanged(u)
    BY DEF LoopInv
  <2> HIDE DEF aux, old, new
  <2> QED BY <1>7, <1>8, <2>1, <2>2, <2>3
<1>11. \A u \in Threads : pc'[u] # "rows" => Written(u)' = RowsOf(u)'
  BY <1>2, <1>4 DEF LoopInv, RowsOf
<1>12. equilibrated_plate' <=>
         \A u \in Threads : pc'[u] \in {"end_for", "wait_for"} => equilibrated_copy'[u]
  <2>1. pc'[t] \notin {"end_for", "wait_for"}
    BY <1>2
  <2>2. \A u \in Threads \ {t} : equilibrated_copy'[u] = equilibrated_copy[u]
    BY <1>1, <1>2
  <2> QED BY <1>2, <2>1, <2>2 DEF LoopInv
<1> HIDE DEF aux, old, new
<1> QED BY <1>9, <1>10, <1>11, <1>12 DEF LoopInv

\* In the loop the other steps of a thread move it on or join its verdict.
LEMMA LoopThreadStep ==
  ASSUME TypeOK, MatrixInv, Looping, LoopInv, NEW t \in Threads, ThreadStep(t)
  PROVE  LoopInv'
<1> USE DEF plateVars
<1>1. pc[t] \in {"rows", "reduction", "end_for", "wait_for"} /\ pc \in [Threads -> Labels]
  BY DEF Looping, TypeOK
<1>2. CASE UpdateRow(t)
  BY <1>2, LoopUpdateRow
<1>3. ASSUME RowsDone(t) \/ Reduce(t) \/ Wait(t)
      PROVE  /\ UNCHANGED <<buffer, matrix, auxiliary_matrix, equilibrated_copy, owner, todo>>
             /\ \A u \in Threads : Written(u)' = Written(u) /\ RowsOf(u)' = RowsOf(u)
             /\ \A u \in Threads : Unchanged(u)' <=> Unchanged(u)
  <2>1. UNCHANGED <<buffer, matrix, auxiliary_matrix, equilibrated_copy, owner, todo>>
    BY <1>3 DEF RowsDone, Reduce, Wait
  <2>2. \A u \in Threads : Written(u)' = Written(u) /\ RowsOf(u)' = RowsOf(u)
    BY <2>1 DEF Written, RowsOf
  <2> QED BY <2>1, <2>2, SameRows
<1>4. CASE RowsDone(t)
  <2>1. /\ todo \cap RowsOf(t) = {} /\ pc[t] = "rows"
        /\ pc' = [pc EXCEPT ![t] = "reduction"]
        /\ equilibrated_plate' = equilibrated_plate
    BY <1>4 DEF RowsDone
  <2>2. Written(t) = RowsOf(t)
    BY <2>1 DEF Written
  <2>3. \A u \in Threads : pc'[u] # "rows" => Written(u)' = RowsOf(u)'
    BY <1>1, <1>3, <1>4, <2>1, <2>2 DEF LoopInv
  <2>4. \A u \in Threads : pc'[u] \in {"end_for", "wait_for"}
                             <=> pc[u] \in {"end_for", "wait_for"}
    BY <1>1, <2>1
  <2> QED BY <1>3, <1>4, <2>1, <2>3, <2>4 DEF LoopInv
<1>5. CASE Reduce(t)
  <2>1. /\ pc[t] = "reduction" /\ pc' = [pc EXCEPT ![t] = "end_for"]
        /\ equilibrated_plate' <=> equilibrated_plate /\ equilibrated_copy[t]
    BY <1>5 DEF Reduce
  <2>2. \A u \in Threads : /\ pc'[u] # "rows" <=> pc[u] # "rows"
                           /\ pc'[u] \in {"end_for", "wait_for"}
                                <=> pc[u] \in {"end_for", "wait_for"} \/ u = t
    BY <1>1, <2>1
  <2>3. equilibrated_plate' <=>
          \A u \in Threads : pc'[u] \in {"end_for", "wait_for"} => equilibrated_copy'[u]
    BY <1>3, <1>5, <2>1, <2>2 DEF LoopInv
  <2> QED BY <1>3, <1>5, <2>2, <2>3 DEF LoopInv
<1>6. CASE Wait(t)
  <2>1. pc[t] = "end_for" /\ pc' = [pc EXCEPT ![t] = "wait_for"]
          /\ equilibrated_plate' = equilibrated_plate
    BY <1>1, <1>6, BarrierLabels DEF Wait
  <2>2. \A u \in Threads : /\ pc'[u] # "rows" <=> pc[u] # "rows"
                           /\ pc'[u] \in {"end_for", "wait_for"}
                                <=> pc[u] \in {"end_for", "wait_for"}
    BY <1>1, <2>1
  <2> QED BY <1>3, <1>6, <2>1, <2>2 DEF LoopInv
<1>7. ~ EnterSingle(t) /\ ~ StartState(t) /\ ~ Check(t)
  BY <1>1 DEF EnterSingle, StartState, Check
<1> QED BY <1>2, <1>4, <1>5, <1>6, <1>7 DEF ThreadStep

\* The loop begins with no row written and every private copy fresh.
LEMMA LoopBegins ==
  ASSUME TypeOK, Started, equilibrated_plate, Open,
         \A t \in Threads : pc[t] = "wait_single" /\ pc'[t] = "rows"
  PROVE  LoopInv'
<1>1. /\ todo' = InnerRows /\ owner' = owner
      /\ \A t \in Threads : equilibrated_copy'[t]
      /\ equilibrated_plate' = equilibrated_plate
  BY DEF Open, TypeOK
<1>2. \A t \in Threads : Written(t)' = {}
  BY <1>1 DEF Written, RowsOf
<1>3. \A t \in Threads : Unchanged(t)'
  BY <1>2 DEF Unchanged
<1>4. \A t \in Threads : pc'[t] = "rows"
  OBVIOUS
<1> QED BY <1>1, <1>2, <1>3, <1>4 DEF LoopInv

LEMMA StateStep ==
  ASSUME TypeOK, PhaseInv, MatrixInv, StateInv, Next
  PROVE  StateInv'
<1>1. ASSUME NEW t \in Threads, ThreadStep(t) PROVE StateInv'
  <2>1. Looping' => LoopInv'
    <3>1. Looping' => Looping
      BY <1>1, PhaseThreadStep, OnePhaseNext
    <3> QED BY <1>1, <3>1, LoopThreadStep DEF StateInv
  <2>2. Started' => equilibrated_plate'
    <3>1. Started' => StartState(t) \/ ((EnterSingle(t) \/ Wait(t)) /\ Started)
      BY <1>1, PhaseThreadStep, OnePhaseNext
    <3> QED BY <3>1 DEF StartState, EnterSingle, Wait, StateInv
  <2> QED BY <2>1, <2>2 DEF StateInv
<1>2. CASE Open
  <2>1. PICK t0 \in Threads : TRUE
    BY ThreadsAssumption
  <2>2. ~ Started'
    BY <1>2, PhaseOpen DEF Started, Entering, Looping, Checking, Returned
  <2>3. Looping' => LoopInv'
    <3>1. SUFFICES ASSUME Looping' PROVE LoopInv'
      OBVIOUS
    <3>2. Started /\ \A t \in Threads : pc[t] = "wait_single" /\ pc'[t] = "rows"
      <4>1. pc'[t0] \in {"rows", "reduction", "end_for", "wait_for"}
        BY <3>1 DEF Looping
      <4> QED BY <1>2, <4>1, PhaseOpen
    <3> QED BY <1>2, <3>2, LoopBegins DEF StateInv
  <2> QED BY <2>2, <2>3 DEF StateInv
<1>3. CASE Finished
  <2>1. PICK t0 \in Threads : TRUE
    BY ThreadsAssumption
  <2>2. pc'[t0] = "returned"
    BY <1>3 DEF Finished, vars
  <2> QED BY <2>2 DEF StateInv, Started, Looping
<1> QED BY <1>1, <1>2, <1>3 DEF Next

-----------------------------------------------------------------------------
(* The inductive invariant *)

LEMMA IInvInit == Init => IInv
<1> SUFFICES ASSUME Init PROVE IInv
  OBVIOUS
<1>1. Entering /\ ~ Started /\ ~ Looping
  BY ThreadsAssumption DEF Init, Entering, Started, Looping
<1>2. MatrixInv
  <2>1. PICK plate \in InitialPlates :
          buffer = [b \in Buffers |-> IF b = "first" THEN plate
                                                     ELSE InitAuxiliary(plate)]
    BY DEF Init
  <2>2. buffer["first"] = plate /\ buffer["second"] = InitAuxiliary(plate)
    BY <2>1 DEF Buffers
  <2>3. \A r \in Rows, c \in Cols : r \notin InnerRows \/ c \notin InnerCols =>
          InitAuxiliary(plate)[r][c] = plate[r][c]
    BY DEF InitAuxiliary
  <2> QED BY <2>2, <2>3 DEF Init, MatrixInv
<1> QED BY <1>1, <1>2, InitType DEF IInv, PhaseInv, StateInv

LEMMA PhaseStep ==
  ASSUME TypeOK, PhaseInv, Next
  PROVE  PhaseInv'
<1>1. CASE Open
  BY <1>1, PhaseOpen DEF PhaseInv
<1>2. CASE Finished
  BY <1>2 DEF Finished, vars, PhaseInv, Entering, Starting, Started, Looping,
              Checking, Returned
<1>3. ASSUME NEW t \in Threads, ThreadStep(t) PROVE PhaseInv'
  BY <1>3, PhaseThreadStep DEF PhaseInv
<1> QED BY <1>1, <1>2, <1>3 DEF Next

LEMMA IInvStep == IInv /\ [Next]_vars => IInv'
<1> SUFFICES ASSUME IInv, [Next]_vars PROVE IInv'
  OBVIOUS
<1>1. CASE UNCHANGED vars
  <2>1. UNCHANGED <<k_states, buffer, matrix, auxiliary_matrix, equilibrated_plate,
                    equilibrated_copy, owner, todo, single_taken, pc>>
    BY <1>1 DEF vars, plateVars
  <2>2. \A t \in Threads : Written(t)' = Written(t) /\ RowsOf(t)' = RowsOf(t)
    BY <2>1 DEF Written, RowsOf
  <2>3. \A t \in Threads : Unchanged(t)' <=> Unchanged(t)
    BY <2>1, <2>2, SameRows
  <2>4. StateInv'
    BY <2>1, <2>2, <2>3 DEF IInv, StateInv, LoopInv, Started, Looping
  <2>5. PhaseInv'
    BY <2>1 DEF IInv, PhaseInv, Entering, Starting, Started, Looping, Checking,
                Returned
  <2> QED BY <2>1, <2>4, <2>5 DEF IInv, TypeOK, MatrixInv
<1>2. CASE Next
  BY <1>2, TypeStep, PhaseStep, MatrixStep, StateStep DEF IInv
<1> QED BY <1>1, <1>2

\* The inductive invariant: the phase the barriers hold the team in, and what
\* the rows written, the private copies and the shared verdict stand for in the
\* loop (plate.c of homeworks/omp_mpi, equilibrate_plate).
THEOREM Invariance == Spec => []IInv
  BY IInvInit, IInvStep, PTL DEF Spec

\* Every variable stays in its range.
THEOREM TypeCorrect == Spec => []TypeOK
<1>1. IInv => TypeOK
  BY DEF IInv
<1> QED BY <1>1, Invariance, PTL

\* The thread that starts a state is alone with the matrices and the verdict,
\* in a team of any size.
THEOREM SingleHasNoCompany == Spec => []SingleIsAlone
<1>1. IInv => SingleIsAlone
  BY DEF IInv, PhaseInv, Entering, Starting, Started, Looping, Checking, Returned,
         SingleIsAlone
<1> QED BY <1>1, Invariance, PTL

\* No thread can find another verdict than the one its team mates found.
THEOREM VerdictIsCommon == Spec => VerdictHolds
<1>1. IInv /\ [Next]_vars =>
        [(\E t \in Threads : pc[t] = "check") =>
           equilibrated_plate' = equilibrated_plate]_vars
  <2> SUFFICES ASSUME IInv, Next, NEW w \in Threads, pc[w] = "check"
               PROVE  equilibrated_plate' = equilibrated_plate
    OBVIOUS
  <2>1. Checking
    BY DEF IInv, PhaseInv, Entering, Starting, Started, Looping, Returned
  <2>2. ASSUME NEW t \in Threads PROVE ~ StartState(t) /\ ~ Reduce(t)
    BY <2>1 DEF Checking, StartState, Reduce
  <2> QED BY <2>2 DEF Next, ThreadStep, Open, Finished, vars, EnterSingle, UpdateRow,
                      RowsDone, Check, Wait
<1> QED BY <1>1, Invariance, PTL DEF Spec, VerdictHolds

-----------------------------------------------------------------------------
(* The region implements the serial loop *)

\* The abstract operators are those of PlateMatrix.
LEMMA SameOperators ==
  /\ \A plate : Abstract!NextPlate(plate) = NextPlate(plate)
  /\ \A old, new : Abstract!Balanced(old, new) <=> Balanced(old, new)
<1>1. \A plate : Abstract!NextPlate(plate) = NextPlate(plate)
  BY DEF Abstract!NextPlate, Abstract!UpdatedRow, Abstract!UpdateCell,
         Abstract!Rows, Abstract!Cols, Abstract!InnerRows, Abstract!InnerCols,
         NextPlate, UpdatedRow, UpdateCell, Rows, Cols, InnerRows, InnerCols
<1>2. \A old, new : Abstract!Balanced(old, new) <=> Balanced(old, new)
  BY DEF Abstract!Balanced, Abstract!RowChanged, Abstract!InnerRows,
         Abstract!InnerCols, Balanced, RowChanged, InnerRows, InnerCols
<1> QED BY <1>1, <1>2

\* What the serial loop sees of each phase.
LEMMA PhaseSeen ==
  /\ Entering \/ Starting => ~ Preparing /\ ~ VerdictReached
  /\ Started \/ Looping => Preparing /\ ~ VerdictReached
  /\ Checking \/ Returned => ~ Preparing /\ (VerdictReached <=> equilibrated_plate)
<1>1. PICK t0 \in Threads : TRUE
  BY ThreadsAssumption
<1>2. ASSUME Entering \/ Starting PROVE ~ Preparing /\ ~ VerdictReached
  BY <1>1, <1>2 DEF Entering, Starting, Preparing, VerdictReached
<1>3. ASSUME Started \/ Looping PROVE Preparing /\ ~ VerdictReached
  BY <1>1, <1>3 DEF Started, Looping, Preparing, VerdictReached
<1>4. ASSUME Checking \/ Returned
      PROVE  ~ Preparing /\ (VerdictReached <=> equilibrated_plate)
  BY <1>1, <1>4 DEF Checking, Returned, Preparing, VerdictReached
<1> QED BY <1>2, <1>3, <1>4

LEMMA PhaseSeenNext ==
  /\ Entering' \/ Starting' => ~ Preparing' /\ ~ VerdictReached'
  /\ Started' \/ Looping' => Preparing' /\ ~ VerdictReached'
  /\ Checking' \/ Returned' =>
       ~ Preparing' /\ (VerdictReached' <=> equilibrated_plate')
  BY PhaseSeen, PTL

\* When the whole team has done its part of the loop, the matrix just written is
\* the next state of the plate, and the shared verdict is that of the state.
LEMMA WholeState ==
  ASSUME IInv, Looping, \A t \in Threads : pc[t] = "wait_for"
  PROVE  /\ buffer[matrix] = NextPlate(buffer[auxiliary_matrix])
         /\ equilibrated_plate <=> Balanced(buffer[auxiliary_matrix], buffer[matrix])
<1> DEFINE old == buffer[auxiliary_matrix]
           new == buffer[matrix]
<1>1. LoopInv
  BY DEF IInv, StateInv
<1>2. \A t \in Threads : Written(t) = RowsOf(t)
  BY <1>1 DEF LoopInv
<1>3. \A r \in InnerRows : \E t \in Threads : r \in RowsOf(t)
  BY DEF IInv, TypeOK, RowsOf
<1>4. old \in PlateType /\ new \in PlateType /\ matrix \in Buffers
        /\ auxiliary_matrix \in Buffers
  BY DEF IInv, TypeOK
<1>5. \A r \in InnerRows : \A c \in InnerCols : new[r][c] = UpdateCell(old, r, c)
  BY <1>1, <1>2, <1>3 DEF LoopInv
<1>6. \A r \in Rows, c \in Cols :
        r \notin InnerRows \/ c \notin InnerCols => new[r][c] = old[r][c]
  BY <1>4 DEF IInv, MatrixInv, Buffers
<1>7. equilibrated_plate <=>
        \A t \in Threads : \A r \in RowsOf(t) : ~ RowChanged(old, new, r)
  BY <1>1, <1>2 DEF LoopInv, Unchanged
<1>8. \A t \in Threads : RowsOf(t) \subseteq InnerRows
  BY DEF RowsOf
<1> HIDE DEF old, new
<1>9. new = NextPlate(old)
  BY <1>4, <1>5, <1>6, AllRowsWritten
<1>10. equilibrated_plate <=> Balanced(old, new)
  BY <1>3, <1>7, <1>8 DEF Balanced
<1> QED BY <1>9, <1>10 DEF old, new

LEMMA ImplementationInit == Init => Abstract!Init
<1> SUFFICES ASSUME Init PROVE Abstract!Init
  OBVIOUS
<1>1. PICK plate \in InitialPlates :
        buffer = [b \in Buffers |-> IF b = "first" THEN plate
                                                   ELSE InitAuxiliary(plate)]
  BY DEF Init
<1>2. ~ Preparing /\ ~ VerdictReached
  <2>1. Entering
    BY DEF Init, Entering
  <2> QED BY <2>1, PhaseSeen
<1>3. CurrentPlate = plate /\ StatesComputed = 0
  BY <1>1, <1>2 DEF Init, CurrentPlate, StatesComputed, Buffers
<1>4. VerdictReached = FALSE
  BY <1>2 DEF VerdictReached
<1> QED BY <1>3, <1>4 DEF Abstract!Init

\* The barrier that ends the loop is the step of the serial loop.
LEMMA LoopEndIsUpdatePlate ==
  ASSUME IInv, Open, Looping, Checking', \A t \in Threads : pc[t] = "wait_for"
  PROVE  Abstract!update_plate
<1>1. /\ Preparing /\ ~ VerdictReached
      /\ ~ Preparing' /\ (VerdictReached' <=> equilibrated_plate')
  BY PhaseSeen, PhaseSeenNext
<1>2. UNCHANGED <<k_states, buffer, matrix, auxiliary_matrix, equilibrated_plate>>
  BY DEF Open, plateVars
<1>3. CurrentPlate = buffer[auxiliary_matrix] /\ CurrentPlate' = buffer[matrix]
  BY <1>1, <1>2 DEF CurrentPlate
<1>4. StatesComputed' = StatesComputed + 1
  BY <1>1, <1>2 DEF StatesComputed, IInv, TypeOK
<1>5. CurrentPlate' = NextPlate(CurrentPlate)
  BY <1>3, WholeState
<1>6. VerdictReached' = Balanced(CurrentPlate, CurrentPlate')
  <2>1. VerdictReached' <=> Balanced(CurrentPlate, CurrentPlate')
    BY <1>1, <1>2, <1>3, WholeState
  <2> QED BY <2>1 DEF VerdictReached, Balanced
<1> QED BY <1>1, <1>4, <1>5, <1>6, SameOperators DEF Abstract!update_plate

\* The other steps of the barrier take the team to a phase that looks the same.
LEMMA OtherOpenSteps ==
  ASSUME IInv, Open, ~ (Looping /\ Checking')
  PROVE  UNCHANGED <<CurrentPlate, StatesComputed, VerdictReached>>
<1>1. UNCHANGED <<k_states, buffer, matrix, auxiliary_matrix, equilibrated_plate>>
  BY DEF Open, plateVars
<1>2. (Preparing' <=> Preparing) /\ (VerdictReached' <=> VerdictReached)
  BY <1>1, PhaseOpen, PhaseSeen, PhaseSeenNext DEF IInv
<1>3. VerdictReached' = VerdictReached
  BY <1>2 DEF VerdictReached
<1> QED BY <1>1, <1>2, <1>3 DEF CurrentPlate, StatesComputed

\* So do the steps of the threads; the swap of the matrices in single goes with
\* the beginning of the preparation of a state.
LEMMA ThreadSteps ==
  ASSUME IInv, NEW t \in Threads, ThreadStep(t)
  PROVE  UNCHANGED <<CurrentPlate, StatesComputed, VerdictReached>>
<1>1. CASE StartState(t)
  <2>1. Starting /\ Started'
    BY <1>1, PhaseThreadStep DEF IInv, ThreadStep, StartState, EnterSingle, UpdateRow,
                                 RowsDone, Reduce, Check, Wait, Arriving
  <2>2. ~ Preparing /\ Preparing' /\ ~ VerdictReached /\ ~ VerdictReached'
    BY <2>1, PhaseSeen, PhaseSeenNext
  <2>3. VerdictReached' = VerdictReached
    BY <2>2 DEF VerdictReached
  <2> QED BY <1>1, <2>2, <2>3 DEF StartState, set_auxiliary, CurrentPlate,
                                  StatesComputed, IInv, TypeOK
<1>2. CASE ~ StartState(t)
  <2>1. UNCHANGED <<k_states, matrix, auxiliary_matrix>>
    BY <1>2 DEF ThreadStep, EnterSingle, UpdateRow, RowsDone, Reduce, Check, Wait,
                plateVars
  <2>2. (Preparing' <=> Preparing) /\ (UpdateRow(t) => Preparing)
    BY <1>2, PhaseThreadStep, PhaseSeen, PhaseSeenNext
       DEF IInv, UpdateRow, EnterSingle, Check, Wait
  <2>3. VerdictReached' <=> VerdictReached
    <3>1. CASE Checking /\ Checking'
      <4>1. equilibrated_plate' = equilibrated_plate
        BY <3>1 DEF ThreadStep, StartState, EnterSingle, UpdateRow, RowsDone, Reduce,
                    Check, Wait, Checking
      <4> QED BY <3>1, <4>1, PhaseSeen, PhaseSeenNext
    <3>2. CASE ~ (Checking /\ Checking')
      BY <1>2, <3>2, PhaseThreadStep, PhaseSeen, PhaseSeenNext DEF IInv
    <3> QED BY <3>1, <3>2
  <2>4. VerdictReached' = VerdictReached
    BY <2>3 DEF VerdictReached
  <2>5. CurrentPlate' = CurrentPlate
    <3>1. CASE UpdateRow(t)
      <4>1. buffer'[auxiliary_matrix] = buffer[auxiliary_matrix]
        BY <3>1, RowUpdated DEF IInv
      <4> QED BY <2>1, <2>2, <3>1, <4>1 DEF CurrentPlate
    <3>2. CASE ~ UpdateRow(t)
      BY <1>2, <2>1, <2>2, <3>2
         DEF ThreadStep, EnterSingle, RowsDone, Reduce, Check, Wait, plateVars,
             CurrentPlate
    <3> QED BY <3>1, <3>2
  <2> QED BY <2>1, <2>2, <2>4, <2>5 DEF StatesComputed
<1> QED BY <1>1, <1>2

\* The plates the region goes through, their number and the state it stops at
\* are those of the serial program, for any number of threads, any schedule and
\* any arithmetic (plate.c of the two homeworks).
THEOREM Implementation == Spec => ImplementsEquilibrium
<1>1. IInv /\ [Next]_vars => [Abstract!Next]_(Abstract!vars)
  <2> SUFFICES ASSUME IInv, [Next]_vars
               PROVE  Abstract!Next \/ UNCHANGED Abstract!vars
    OBVIOUS
  <2>1. CASE UNCHANGED vars
    BY <2>1 DEF vars, plateVars, Abstract!vars, CurrentPlate, StatesComputed,
                VerdictReached, Preparing
  <2>2. ASSUME NEW t \in Threads, ThreadStep(t)
        PROVE  UNCHANGED Abstract!vars
    BY <2>2, ThreadSteps DEF Abstract!vars
  <2>3. CASE Open /\ Looping /\ Checking'
    <3>1. \A t \in Threads : pc[t] = "wait_for"
      BY <2>3, PhaseOpen, OnePhase DEF IInv
    <3> QED BY <2>3, <3>1, LoopEndIsUpdatePlate DEF Abstract!Next
  <2>4. CASE Open /\ ~ (Looping /\ Checking')
    BY <2>4, OtherOpenSteps DEF Abstract!vars
  <2> QED BY <2>1, <2>2, <2>3, <2>4 DEF Next, Finished
<1> QED BY <1>1, ImplementationInit, Invariance, PTL
        DEF Spec, Abstract!Spec, ImplementsEquilibrium
=============================================================================
