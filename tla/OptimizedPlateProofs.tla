------------------------ MODULE OptimizedPlateProofs ------------------------
(***************************************************************************)
(* Proofs about the team of threads of OptimizedPlate, for every plate,    *)
(* every arithmetic and every number of threads.                           *)
(***************************************************************************)
EXTENDS OptimizedPlate, PlateProofs

\* The team has at least a thread, and its blocks partition the inner rows.
LEMMA Team ==
  /\ ThreadCount \in Nat \ {0}
  /\ Threads # {}
  /\ \A t \in Threads :
       /\ starting_row(t) \in Nat /\ finish_row(t) \in Nat
       /\ starting_row(t) < finish_row(t)
       /\ RowsOf(t) \subseteq InnerRows
       /\ \A u \in Threads \ {t} : RowsOf(t) \cap RowsOf(u) = {}
  /\ \A r \in InnerRows : \E t \in Threads : r \in RowsOf(t)
<1> DEFINE inner == RowCount - 2
<1>1. inner \in Nat \ {0}
  BY PlateAssumption
<1>2. ThreadCount \in 1 .. inner
  BY <1>1, TeamSizeRange, TeamAssumption DEF ThreadCount
<1>3. Threads # {}
  BY <1>2 DEF Threads
<1>4. ASSUME NEW t \in Threads
      PROVE  /\ starting_row(t) \in 1 .. inner /\ finish_row(t) \in 2 .. inner + 1
             /\ starting_row(t) < finish_row(t)
  <2> HIDE DEF inner
  <2>1. t \in 0 .. ThreadCount - 1
    BY DEF Threads
  <2>2. /\ StartingRow(t, inner, ThreadCount) \in 1 .. inner
        /\ FinishRow(t, inner, ThreadCount) \in 2 .. inner + 1
        /\ StartingRow(t, inner, ThreadCount) < FinishRow(t, inner, ThreadCount)
    BY <1>1, <1>2, <2>1, BlocksAreInside
  <2> QED BY <2>2 DEF starting_row, finish_row, inner
<1>5. ASSUME NEW t \in Threads
      PROVE  RowsOf(t) \subseteq InnerRows
  BY <1>1, <1>4 DEF RowsOf, InnerRows
<1>6. ASSUME NEW t \in Threads, NEW u \in Threads \ {t}
      PROVE  RowsOf(t) \cap RowsOf(u) = {}
  <2>1. t \in 0 .. ThreadCount - 1 /\ u \in 0 .. ThreadCount - 1 /\ t # u
    BY DEF Threads
  <2>2. SUFFICES ASSUME NEW r \in RowsOf(t) PROVE r \notin RowsOf(u)
    OBVIOUS
  <2> HIDE DEF inner
  <2>3. r \in StartingRow(t, inner, ThreadCount) .. FinishRow(t, inner, ThreadCount) - 1
    BY <2>2 DEF RowsOf, starting_row, finish_row, inner
  <2>4. r \notin StartingRow(u, inner, ThreadCount) .. FinishRow(u, inner, ThreadCount) - 1
    BY <1>1, <1>2, <2>1, <2>3, BlocksAreDisjoint
  <2> QED BY <2>4 DEF RowsOf, starting_row, finish_row, inner
<1>7. ASSUME NEW r \in InnerRows
      PROVE  \E t \in Threads : r \in RowsOf(t)
  <2>1. r \in 1 .. inner
    BY DEF InnerRows
  <2> HIDE DEF inner
  <2>2. PICK t \in 0 .. ThreadCount - 1 :
          r \in StartingRow(t, inner, ThreadCount) .. FinishRow(t, inner, ThreadCount) - 1
    BY <1>1, <1>2, <2>1, BlocksCoverTheRows
  <2> QED BY <2>2 DEF RowsOf, starting_row, finish_row, Threads, inner
<1>8. ThreadCount \in Nat \ {0}
  BY <1>1, <1>2
<1>9. \A t \in Threads : starting_row(t) \in Nat /\ finish_row(t) \in Nat
                           /\ starting_row(t) < finish_row(t)
  BY <1>1, <1>4
<1> HIDE DEF inner
<1> QED BY <1>3, <1>5, <1>6, <1>7, <1>8, <1>9

LEMMA InitType == Init => TypeOK
<1> SUFFICES ASSUME Init PROVE TypeOK
  OBVIOUS
<1> USE DEF Init
<1>1. PICK plate \in InitialPlates :
        buffer = [b \in Buffers |-> IF b = "first" THEN plate
                                                   ELSE InitAuxiliary(plate)]
  OBVIOUS
<1>2. buffer \in [Buffers -> PlateType]
  BY <1>1, InitialBuffersType
<1>3. row \in [Threads -> Nat]
        /\ \A t \in Threads : row[t] \in starting_row(t) .. finish_row(t)
  BY Team
<1>4. pc \in [Threads -> Labels] /\ equilibrated \in [Threads -> BOOLEAN]
  BY DEF Labels
<1>5. main \in MainLabels /\ matrix \in Buffers /\ auxiliary_matrix \in Buffers
  BY DEF MainLabels, Buffers
<1>6. created \in 0 .. ThreadCount /\ joined \in 0 .. created
  BY Team
<1> QED BY <1>2, <1>3, <1>4, <1>5, <1>6 DEF TypeOK

\* The steps of the main thread keep the types.
LEMMA MainType ==
  ASSUME TypeOK, MainStep
  PROVE  TypeOK'
<1> USE DEF TypeOK, mainVars, matrixVars, sharedVars, threadVars, MainLabels
<1>1. CASE PrepareMatrices
  BY <1>1 DEF PrepareMatrices, set_auxiliary
<1>2. CASE CreateThread
  <2>1. created \in Threads /\ created + 1 \in 0 .. ThreadCount
    BY <1>2, Team DEF CreateThread, Threads
  <2>2. /\ pc' \in [Threads -> Labels]
        /\ equilibrated' \in [Threads -> BOOLEAN]
    BY <1>2, <2>1 DEF CreateThread, Labels
  <2>3. row' \in [Threads -> Nat]
          /\ \A t \in Threads : row'[t] \in starting_row(t) .. finish_row(t)
    BY <1>2, <2>1, Team DEF CreateThread
  <2>4. joined' \in 0 .. created'
    BY <1>2, <2>1, Team DEF CreateThread
  <2> QED BY <1>2, <2>1, <2>2, <2>3, <2>4 DEF CreateThread
<1>3. CASE CreateFails
  BY <1>3 DEF CreateFails
<1>4. CASE AllCreated
  BY <1>4 DEF AllCreated
<1>5. CASE JoinThread
  BY <1>5, Team DEF JoinThread
<1>6. CASE AllJoined
  BY <1>6 DEF AllJoined
<1>7. CASE StoreResult
  BY <1>7 DEF StoreResult, set_auxiliary
<1> QED BY <1>1, <1>2, <1>3, <1>4, <1>5, <1>6, <1>7 DEF MainStep

\* The steps of a thread of the team keep the types.
LEMMA ThreadType ==
  ASSUME TypeOK, NEW t \in Threads, ThreadStep(t)
  PROVE  TypeOK'
<1> USE DEF TypeOK, mainVars, matrixVars, sharedVars, threadVars
<1>1. CASE UpdateRow(t)
  <2> DEFINE new == UpdatedRow(buffer[auxiliary_matrix], buffer[matrix], row[t])
  <2>1. row[t] \in RowsOf(t) /\ row[t] \in InnerRows /\ row[t] \in Rows
    BY <1>1, Team, PlateAssumption DEF UpdateRow, RowsOf, InnerRows, Rows
  <2>2. new \in [Cols -> Temperatures]
    BY <2>1, UpdatedRowType
  <2> HIDE DEF new
  <2>3. buffer' = [buffer EXCEPT ![matrix][row[t]] = new]
    BY <1>1 DEF UpdateRow, new
  <2>4. buffer' \in [Buffers -> PlateType]
    BY <2>1, <2>2, <2>3 DEF PlateType
  <2>5. equilibrated' \in [Threads -> BOOLEAN]
    BY <1>1 DEF UpdateRow
  <2>6. row' \in [Threads -> Nat]
          /\ \A u \in Threads : row'[u] \in starting_row(u) .. finish_row(u)
    BY <1>1, Team DEF UpdateRow
  <2> QED BY <1>1, <2>4, <2>5, <2>6 DEF UpdateRow
<1>2. CASE RowsDone(t)
  BY <1>2 DEF RowsDone, Labels
<1>3. CASE Publish(t)
  BY <1>3 DEF Publish, Labels
<1>4. CASE Arrive1(t)
  <2>1. pc' \in [Threads -> Labels]
    BY <1>4 DEF Arrive1, Labels
  <2> QED BY <1>4, <2>1 DEF Arrive1
<1>5. CASE Advance(t)
  BY <1>5 DEF Advance, set_auxiliary, Labels
<1>6. CASE Arrive2(t)
  <2>1. pc' \in [Threads -> Labels]
    BY <1>6 DEF Arrive2, Labels
  <2>2. equilibrated' \in [Threads -> BOOLEAN]
    BY <1>6 DEF Arrive2
  <2>3. row' \in [Threads -> Nat]
          /\ \A u \in Threads : row'[u] \in starting_row(u) .. finish_row(u)
    BY <1>6, Team DEF Arrive2
  <2> QED BY <1>6, <2>1, <2>2, <2>3 DEF Arrive2
<1>7. CASE CheckDone(t)
  BY <1>7 DEF CheckDone, Labels
<1>8. CASE ResetFlag(t)
  BY <1>8 DEF ResetFlag, Labels
<1> QED BY <1>1, <1>2, <1>3, <1>4, <1>5, <1>6, <1>7, <1>8 DEF ThreadStep

\* Every variable keeps its type, and no thread leaves its block of rows
\* (plate.c: for (row = starting_row; row < ending_row; ...)).
THEOREM TypeCorrect == Spec => []TypeOK
<1>1. TypeOK /\ [Next]_vars => TypeOK'
  <2> SUFFICES ASSUME TypeOK, [Next]_vars PROVE TypeOK'
    OBVIOUS
  <2>1. CASE UNCHANGED vars
    BY <2>1 DEF TypeOK, vars, mainVars, matrixVars, sharedVars, threadVars
  <2>2. CASE MainStep
    BY <2>2, MainType
  <2>3. CASE \E t \in Threads : ThreadStep(t)
    BY <2>3, ThreadType
  <2>4. CASE Finished
    BY <2>1, <2>4 DEF Finished
  <2> QED BY <2>1, <2>2, <2>3, <2>4 DEF Next
<1> QED BY <1>1, InitType, PTL DEF Spec

-----------------------------------------------------------------------------
(* The phases of the team *)

\* A step of a thread takes the team from a phase to itself or the next.
LEMMA PhaseStep ==
  ASSUME TypeOK, PhaseInv, NEW t \in Threads, ThreadStep(t)
  PROVE  PhaseInv'
<1> USE DEF sharedVars
<1>1. pc \in [Threads -> Labels] /\ equilibrated_plate \in BOOLEAN
  BY DEF TypeOK
<1>2. CASE UpdateRow(t)
  <2>1. pc' = pc /\ equilibrated_plate' = equilibrated_plate
    BY <1>2 DEF UpdateRow
  <2> QED BY <2>1 DEF PhaseInv, Working, Swapping, Swapped, Checking, Resetting,
                      Restarting
<1>3. CASE RowsDone(t)
  <2>1. Working
    BY <1>3 DEF RowsDone, PhaseInv, Working, Swapping, Swapped, Checking,
                Resetting, Restarting
  <2>2. Working'
    BY <1>1, <1>3, <2>1 DEF RowsDone, Working
  <2> QED BY <2>2 DEF PhaseInv
<1>4. CASE Publish(t)
  <2>1. Working
    BY <1>4 DEF Publish, PhaseInv, Working, Swapping, Swapped, Checking,
                Resetting, Restarting
  <2>2. Working'
    BY <1>1, <1>4, <2>1 DEF Publish, Working
  <2> QED BY <2>2 DEF PhaseInv
<1>5. CASE Arrive1(t)
  <2> pc[t] \in {"arrive1", "arrive1b"}
    BY <1>5 DEF Arrive1
  <2>1. \/ pc[t] = "arrive1" /\ Working
        \/ pc[t] = "arrive1b" /\ Checking
    BY DEF PhaseInv, Working, Swapping, Swapped, Checking, Resetting, Restarting
  <2>2. equilibrated_plate' = equilibrated_plate
    BY <1>5 DEF Arrive1
  <2>3. CASE Waiting1 \cup {t} # Threads
    <3>1. pc' = [pc EXCEPT ![t] = IF @ = "arrive1" THEN "wait1" ELSE "wait1b"]
      BY <1>5, <2>3 DEF Arrive1
    <3>2. Working' \/ Checking'
      BY <1>1, <2>1, <2>2, <3>1 DEF Working, Checking
    <3> QED BY <3>2 DEF PhaseInv
  <2>4. CASE Waiting1 \cup {t} = Threads
    <3>1. PICK serial \in Threads :
            pc' = [u \in Threads |->
                     IF pc[u] \in {"arrive1", "wait1"}
                       THEN IF u = serial THEN "advance" ELSE "arrive2"
                       ELSE IF u = serial THEN "reset" ELSE "arrive2b"]
      BY <1>5, <2>4 DEF Arrive1
    <3>2. \A u \in Threads : u = t \/ pc[u] \in {"wait1", "wait1b"}
      BY <2>4 DEF Waiting1
    <3>3. CASE pc[t] = "arrive1" /\ Working
      <4>1. \A u \in Threads : pc[u] \in {"arrive1", "wait1"}
        BY <3>2, <3>3 DEF Working
      <4>2. Swapping'
        BY <3>1, <4>1 DEF Swapping
      <4> QED BY <4>2 DEF PhaseInv
    <3>4. CASE pc[t] = "arrive1b" /\ Checking
      <4>1. ~ equilibrated_plate /\ \A u \in Threads : pc[u] \in {"arrive1b", "wait1b"}
        BY <3>2, <3>4 DEF Checking
      <4>2. Resetting'
        BY <2>2, <3>1, <4>1 DEF Resetting
      <4> QED BY <4>2 DEF PhaseInv
    <3> QED BY <2>1, <3>3, <3>4
  <2> QED BY <2>3, <2>4
<1>6. CASE Advance(t)
  <2>1. Swapping
    BY <1>6 DEF Advance, PhaseInv, Working, Swapping, Swapped, Checking,
                Resetting, Restarting
  <2>2. Swapped'
    BY <1>1, <1>6, <2>1 DEF Advance, Swapping, Swapped
  <2> QED BY <2>2 DEF PhaseInv
<1>7. CASE Arrive2(t)
  <2> pc[t] \in {"arrive2", "arrive2b"}
    BY <1>7 DEF Arrive2
  <2>1. \/ pc[t] = "arrive2" /\ (Swapping \/ Swapped)
        \/ pc[t] = "arrive2b" /\ (Resetting \/ Restarting)
    BY DEF PhaseInv, Working, Swapping, Swapped, Checking,
                Resetting, Restarting
  <2>2. equilibrated_plate' = equilibrated_plate
    BY <1>7 DEF Arrive2
  <2>3. CASE Waiting2 \cup {t} # Threads
    <3>1. pc' = [pc EXCEPT ![t] = IF @ = "arrive2" THEN "wait2" ELSE "wait2b"]
      BY <1>7, <2>3 DEF Arrive2
    <3>2. CASE pc[t] = "arrive2" /\ Swapping
      <4>1. Swapping'
        BY <1>1, <3>1, <3>2 DEF Swapping
      <4> QED BY <4>1 DEF PhaseInv
    <3>3. CASE pc[t] = "arrive2" /\ Swapped
      <4>1. Swapped'
        BY <1>1, <3>1, <3>3 DEF Swapped
      <4> QED BY <4>1 DEF PhaseInv
    <3>4. CASE pc[t] = "arrive2b" /\ Resetting
      <4>1. Resetting'
        BY <1>1, <2>2, <3>1, <3>4 DEF Resetting
      <4> QED BY <4>1 DEF PhaseInv
    <3>5. CASE pc[t] = "arrive2b" /\ Restarting
      <4>1. Restarting'
        BY <1>1, <2>2, <3>1, <3>5 DEF Restarting
      <4> QED BY <4>1 DEF PhaseInv
    <3> QED BY <2>1, <3>2, <3>3, <3>4, <3>5
  <2>4. CASE Waiting2 \cup {t} = Threads
    <3>1. pc' = [u \in Threads |-> IF pc[u] \in {"arrive2b", "wait2b"}
                                     THEN "rows" ELSE "check"]
      BY <1>7, <2>4 DEF Arrive2
    <3>2. \A u \in Threads : u = t \/ pc[u] \in {"wait2", "wait2b"}
      BY <2>4 DEF Waiting2
    <3>3. ~ Swapping /\ ~ Resetting
      BY <1>7, <3>2 DEF Arrive2, Swapping, Resetting
    <3>4. CASE pc[t] = "arrive2" /\ Swapped
      <4>1. Checking'
        BY <3>1, <3>4 DEF Swapped, Checking
      <4> QED BY <4>1 DEF PhaseInv
    <3>5. CASE pc[t] = "arrive2b" /\ Restarting
      <4>1. Working'
        BY <3>1, <3>5 DEF Restarting, Working
      <4> QED BY <4>1 DEF PhaseInv
    <3> QED BY <2>1, <3>3, <3>4, <3>5
  <2> QED BY <2>3, <2>4
<1>8. CASE CheckDone(t)
  <2>1. Checking
    BY <1>8 DEF CheckDone, PhaseInv, Working, Swapping, Swapped, Checking,
                Resetting, Restarting
  <2>2. Checking'
    BY <1>1, <1>8, <2>1 DEF CheckDone, Checking
  <2> QED BY <2>2 DEF PhaseInv
<1>9. CASE ResetFlag(t)
  <2>1. Resetting
    BY <1>9 DEF ResetFlag, PhaseInv, Working, Swapping, Swapped, Checking,
                Resetting, Restarting
  <2>2. Restarting'
    BY <1>1, <1>9, <2>1 DEF ResetFlag, Resetting, Restarting
  <2> QED BY <2>2 DEF PhaseInv
<1> QED BY <1>2, <1>3, <1>4, <1>5, <1>6, <1>7, <1>8, <1>9 DEF ThreadStep

\* What the main thread does is possible only where no phase is disturbed: it
\* creates threads while the team is in its first state.
LEMMA PhaseMainStep ==
  ASSUME TypeOK, PhaseInv, MainInv, MainStep
  PROVE  PhaseInv'
<1> USE DEF sharedVars, threadVars
<1>1. pc \in [Threads -> Labels]
  BY DEF TypeOK
<1>2. CASE CreateThread
  <2>1. created \in Threads /\ pc[created] = "unborn"
    BY <1>2, Team DEF CreateThread, Threads, TypeOK, MainInv
  <2>2. Working
    BY <2>1 DEF PhaseInv, Working, Swapping, Swapped, Checking, Resetting,
                Restarting
  <2>3. Working'
    BY <1>1, <1>2, <2>1, <2>2 DEF CreateThread, Working
  <2> QED BY <2>3 DEF PhaseInv
<1>3. CASE ~ CreateThread
  <2>1. pc' = pc /\ equilibrated_plate' = equilibrated_plate
    BY <1>3 DEF MainStep, PrepareMatrices, CreateFails, AllCreated, JoinThread,
                AllJoined, StoreResult
  <2> QED BY <2>1 DEF PhaseInv, Working, Swapping, Swapped, Checking, Resetting,
                      Restarting
<1> QED BY <1>2, <1>3

-----------------------------------------------------------------------------
(* The main thread and its team *)

\* A step of the team neither starts a thread nor brings one back.
LEMMA BirthAndDeath ==
  ASSUME TypeOK, NEW t \in Threads, ThreadStep(t)
  PROVE  /\ pc[t] \notin {"unborn", "done"}
         /\ \A u \in Threads : /\ pc'[u] = "unborn" <=> pc[u] = "unborn"
                               /\ pc[u] = "done" => pc'[u] = "done"
<1>1. pc \in [Threads -> Labels]
  BY DEF TypeOK
<1>2. CASE UpdateRow(t)
  BY <1>2 DEF UpdateRow
<1>3. CASE RowsDone(t)
  BY <1>1, <1>3 DEF RowsDone
<1>4. CASE Publish(t)
  BY <1>1, <1>4 DEF Publish
<1>5. CASE Arrive1(t)
  <2>1. pc[t] \in {"arrive1", "arrive1b"}
    BY <1>5 DEF Arrive1
  <2>2. CASE Waiting1 \cup {t} # Threads
    BY <1>1, <1>5, <2>1, <2>2 DEF Arrive1
  <2>3. CASE Waiting1 \cup {t} = Threads
    <3>1. \A u \in Threads : u = t \/ pc[u] \in {"wait1", "wait1b"}
      BY <2>3 DEF Waiting1
    <3>2. \A u \in Threads : pc'[u] \in {"advance", "arrive2", "reset", "arrive2b"}
      BY <1>5, <2>3 DEF Arrive1
    <3> QED BY <2>1, <3>1, <3>2
  <2> QED BY <2>2, <2>3
<1>6. CASE Advance(t)
  BY <1>1, <1>6 DEF Advance
<1>7. CASE Arrive2(t)
  <2>1. pc[t] \in {"arrive2", "arrive2b"}
    BY <1>7 DEF Arrive2
  <2>2. CASE Waiting2 \cup {t} # Threads
    BY <1>1, <1>7, <2>1, <2>2 DEF Arrive2
  <2>3. CASE Waiting2 \cup {t} = Threads
    <3>1. \A u \in Threads : u = t \/ pc[u] \in {"wait2", "wait2b"}
      BY <2>3 DEF Waiting2
    <3>2. \A u \in Threads : pc'[u] \in {"rows", "check"}
      BY <1>7, <2>3 DEF Arrive2
    <3> QED BY <2>1, <3>1, <3>2
  <2> QED BY <2>2, <2>3
<1>8. CASE CheckDone(t)
  BY <1>1, <1>8 DEF CheckDone
<1>9. CASE ResetFlag(t)
  BY <1>1, <1>9 DEF ResetFlag
<1> QED BY <1>2, <1>3, <1>4, <1>5, <1>6, <1>7, <1>8, <1>9 DEF ThreadStep

\* No thread of the team moves after the main thread returned.
LEMMA MainInvThreadStep ==
  ASSUME TypeOK, MainInv, NEW t \in Threads, ThreadStep(t)
  PROVE  MainInv'
<1>1. UNCHANGED mainVars
  BY DEF ThreadStep, UpdateRow, RowsDone, Publish, Arrive1, Advance, Arrive2,
         CheckDone, ResetFlag
<1>2. main # "returned"
  <2>1. SUFFICES ASSUME main = "returned" PROVE FALSE
    OBVIOUS
  <2>2. joined = ThreadCount
    BY <2>1 DEF MainInv
  <2>3. pc[t] = "done"
    BY <2>2, Team DEF MainInv, Threads
  <2> QED BY <2>3, BirthAndDeath
<1> QED BY <1>1, <1>2, BirthAndDeath DEF MainInv, mainVars

LEMMA MainInvMainStep ==
  ASSUME TypeOK, MainInv, MainStep
  PROVE  MainInv'
<1> USE DEF MainInv, sharedVars, threadVars
<1>1. /\ created \in 0 .. ThreadCount /\ joined \in 0 .. created
      /\ pc \in [Threads -> Labels] /\ ThreadCount \in Nat
      /\ Threads = 0 .. ThreadCount - 1
  BY Team DEF TypeOK, Threads
<1>2. CASE PrepareMatrices
  BY <1>2 DEF PrepareMatrices
<1>3. CASE CreateThread
  <2>1. \A u \in Threads : pc'[u] = "unborn" <=> u >= created'
    BY <1>1, <1>3 DEF CreateThread
  <2>2. \A u \in Threads : u < joined' => pc'[u] = "done"
    BY <1>1, <1>3 DEF CreateThread
  <2> QED BY <1>3, <2>1, <2>2 DEF CreateThread
<1>4. CASE CreateFails
  BY <1>4 DEF CreateFails
<1>5. CASE AllCreated
  BY <1>5 DEF AllCreated
<1>6. CASE JoinThread
  BY <1>1, <1>6 DEF JoinThread
<1>7. CASE AllJoined
  BY <1>7 DEF AllJoined
<1>8. CASE StoreResult
  BY <1>8 DEF StoreResult
<1> QED BY <1>2, <1>3, <1>4, <1>5, <1>6, <1>7, <1>8 DEF MainStep

-----------------------------------------------------------------------------
(* The matrices *)

\* Rows are written inside the border, and only the pointers are swapped.
LEMMA MatrixStep ==
  ASSUME TypeOK, MatrixInv, Next
  PROVE  MatrixInv'
<1> USE DEF matrixVars, vars
<1>1. CASE UNCHANGED matrixVars
  BY <1>1 DEF MatrixInv
<1>2. CASE set_auxiliary
  BY <1>2 DEF MatrixInv, set_auxiliary
<1>3. ASSUME NEW t \in Threads, UpdateRow(t) PROVE MatrixInv'
  <2> DEFINE new == UpdatedRow(buffer[auxiliary_matrix], buffer[matrix], row[t])
  <2>1. row[t] \in InnerRows /\ row[t] \in Rows
    BY <1>3, Team, PlateAssumption DEF UpdateRow, RowsOf, InnerRows, Rows, TypeOK
  <2>2. \A c \in Cols : c \notin InnerCols => new[c] = buffer[matrix][row[t]][c]
    BY DEF UpdatedRow
  <2> HIDE DEF new
  <2>3. /\ buffer' = [buffer EXCEPT ![matrix][row[t]] = new]
        /\ matrix' = matrix /\ auxiliary_matrix' = auxiliary_matrix
    BY <1>3 DEF UpdateRow, new
  <2>4. /\ buffer \in [Buffers -> PlateType]
        /\ matrix \in Buffers
    BY DEF TypeOK
  <2>5. \A b \in Buffers, r \in Rows, c \in Cols :
          r \notin InnerRows \/ c \notin InnerCols => buffer'[b][r][c] = buffer[b][r][c]
    BY <2>1, <2>2, <2>3, <2>4 DEF PlateType
  <2> QED BY <2>3, <2>5 DEF MatrixInv, Buffers
<1> QED BY <1>1, <1>2, <1>3
        DEF Next, MainStep, ThreadStep, Finished,
            PrepareMatrices, CreateThread, CreateFails, AllCreated, JoinThread,
            AllJoined, StoreResult, RowsDone, Publish, Arrive1, Advance,
            Arrive2, CheckDone, ResetFlag

-----------------------------------------------------------------------------
(* The state in preparation *)

\* The labels at which a thread neither prepares a state nor swaps.
Outside == {"unborn", "arrive2", "wait2", "check", "done", "arrive1b", "wait1b",
            "reset", "arrive2b", "wait2b"}

\* Between a swap and the next turn of the loop there is no state in
\* preparation, and nothing is claimed about it.
LEMMA NothingInPreparation ==
  ASSUME \A t \in Threads : pc'[t] \in Outside \ {"unborn"}
  PROVE  StateInv'
<1>1. \A t \in Threads : pc'[t] # "rows" /\ ~ Complete(t)'
  BY DEF Complete, Outside
<1>2. \A t \in Threads : Written(t)' = {}
  BY <1>1 DEF Written
<1>3. ~ Working' /\ ~ Swapping'
  BY Team DEF Working, Swapping, Outside
<1> QED BY <1>1, <1>2, <1>3 DEF StateInv

LEMMA StateInit == Init => StateInv
<1> SUFFICES ASSUME Init PROVE StateInv
  OBVIOUS
<1>1. \A t \in Threads : pc[t] = "unborn"
  BY DEF Init
<1>2. \A t \in Threads : pc[t] # "rows" /\ ~ Complete(t) /\ ~ Counted(t)
  BY <1>1 DEF Complete, Counted
<1>3. \A t \in Threads : Written(t) = {}
  BY <1>2 DEF Written
<1>4. equilibrated_plate
  BY DEF Init
<1> QED BY <1>2, <1>3, <1>4 DEF StateInv

\* The only steps of the main thread that matter here create a thread, which
\* has no row written yet, or swap the matrices when nobody works.
LEMMA StateMainStep ==
  ASSUME TypeOK, PhaseInv, MainInv, StateInv, MainStep
  PROVE  StateInv'
<1> USE DEF sharedVars, threadVars, matrixVars
<1>1. CASE CreateThread
  <2>1. PICK self \in Threads : self = created /\ pc[self] = "unborn"
    BY <1>1, Team DEF CreateThread, Threads, TypeOK, MainInv
  <2>2. Working
    BY <2>1 DEF PhaseInv, Working, Swapping, Swapped, Checking, Resetting,
                Restarting
  <2>3. /\ pc' = [pc EXCEPT ![self] = "rows"]
        /\ equilibrated' = [equilibrated EXCEPT ![self] = TRUE]
        /\ row' = [row EXCEPT ![self] = starting_row(self)]
        /\ UNCHANGED <<buffer, matrix, auxiliary_matrix, equilibrated_plate>>
    BY <1>1, <2>1 DEF CreateThread
  <2>4. /\ pc \in [Threads -> Labels] /\ row \in [Threads -> Nat]
        /\ equilibrated \in [Threads -> BOOLEAN]
    BY DEF TypeOK
  <2>5. \A s \in Threads : pc[s] # "advance" /\ pc'[s] # "advance"
    BY <2>2, <2>3, <2>4 DEF Working
  <2>6. \A t \in Threads \ {self} :
          /\ Complete(t)' <=> Complete(t)
          /\ Counted(t)' <=> Counted(t)
          /\ Written(t)' = Written(t)
          /\ pc'[t] = pc[t] /\ equilibrated'[t] = equilibrated[t]
    BY <2>3, <2>4, <2>5 DEF Complete, Counted, Written
  <2>7. /\ ~ Counted(self) /\ ~ Counted(self)'
        /\ equilibrated'[self] = TRUE
    BY <2>1, <2>3, <2>4, <2>5 DEF Counted
  <2>8. Written(self)' = {}
    <3>1. ~ Complete(self)' /\ row'[self] = starting_row(self)
      BY <2>1, <2>3, <2>4, <2>5 DEF Complete
    <3>2. \A r \in RowsOf(self) : ~ (r < starting_row(self))
      BY <2>1, Team DEF RowsOf
    <3> QED BY <3>1, <3>2 DEF Written
  <2>9. \A t \in Threads : \A r \in Written(t)' : \A c \in InnerCols :
          buffer'[matrix'][r][c] = UpdateCell(buffer'[auxiliary_matrix'], r, c)
    BY <2>3, <2>6, <2>8 DEF StateInv
  <2>10. \A t \in Threads :
           pc'[t] = "rows" \/ Complete(t)' =>
             (equilibrated'[t] <=>
                \A r \in Written(t)' :
                  ~ RowChanged(buffer'[auxiliary_matrix'], buffer'[matrix'], r))
    BY <2>3, <2>6, <2>7, <2>8 DEF StateInv
  <2>11. equilibrated_plate' <=> \A t \in Threads : Counted(t)' => equilibrated'[t]
    BY <2>2, <2>3, <2>6, <2>7 DEF StateInv
  <2> QED BY <2>9, <2>10, <2>11 DEF StateInv
<1>2. CASE PrepareMatrices
  <2>1. \A t \in Threads : pc[t] = "unborn"
    BY <1>2, Team DEF PrepareMatrices, MainInv, Threads
  <2>2. \A t \in Threads : pc[t] # "rows" /\ ~ Complete(t) /\ ~ Counted(t)
    BY <2>1 DEF Complete, Counted
  <2>3. \A t \in Threads :
          pc'[t] # "rows" /\ ~ Complete(t)' /\ ~ Counted(t)' /\ Written(t)' = {}
    BY <1>2, <2>1 DEF PrepareMatrices, Complete, Counted, Written
  <2>4. equilibrated_plate'
    BY <1>2, <2>1, <2>2 DEF StateInv, PrepareMatrices, Working
  <2> QED BY <2>3, <2>4 DEF StateInv
<1>3. CASE StoreResult
  <2>1. \A t \in Threads : pc[t] = "done"
    BY <1>3, Team DEF StoreResult, MainInv, Threads
  <2>2. pc' = pc
    BY <1>3 DEF StoreResult
  <2> QED BY <2>1, <2>2, NothingInPreparation DEF Outside
<1>4. CASE CreateFails \/ AllCreated \/ JoinThread \/ AllJoined
  <2>1. UNCHANGED <<buffer, matrix, auxiliary_matrix, equilibrated_plate,
                    equilibrated, row, pc>>
    BY <1>4 DEF CreateFails, AllCreated, JoinThread, AllJoined
  <2> QED BY <2>1 DEF StateInv, Working, Swapping, Complete, Counted, Written
<1> QED BY <1>1, <1>2, <1>3, <1>4 DEF MainStep

\* Writing a row: it holds the next state, the verdict of the thread covers it,
\* and no other thread's rows are touched.
LEMMA StateUpdateRow ==
  ASSUME TypeOK, PhaseInv, MatrixInv, StateInv, NEW t \in Threads, UpdateRow(t)
  PROVE  StateInv'
<1> DEFINE aux == buffer[auxiliary_matrix]
           old == buffer[matrix]
           new == buffer'[matrix]
<1>1. PICK r0 \in RowsOf(t) : r0 = row[t] /\ r0 \in Rows /\ r0 \in Nat
  BY Team, PlateAssumption DEF UpdateRow, RowsOf, InnerRows, Rows, TypeOK
<1>2. /\ pc[t] = "rows"
      /\ UNCHANGED <<matrix, auxiliary_matrix, equilibrated_plate, pc>>
      /\ buffer' = [buffer EXCEPT ![matrix][r0] = UpdatedRow(aux, old, r0)]
      /\ equilibrated' = [equilibrated EXCEPT ![t] = @ /\ ~ RowChanged(aux, new, r0)]
      /\ row' = [row EXCEPT ![t] = r0 + 1]
  BY <1>1 DEF UpdateRow, sharedVars
<1>3. /\ buffer \in [Buffers -> PlateType]
      /\ matrix \in Buffers /\ auxiliary_matrix \in Buffers
      /\ equilibrated \in [Threads -> BOOLEAN]
      /\ row \in [Threads -> Nat]
  BY DEF TypeOK
<1>4. /\ buffer'[auxiliary_matrix] = aux
      /\ \A r \in Rows \ {r0} : new[r] = old[r]
      /\ \A c \in InnerCols : new[r0][c] = UpdateCell(aux, r0, c)
  <2>1. /\ buffer'[auxiliary_matrix] = aux
        /\ \A r \in Rows \ {r0} : new[r] = old[r]
        /\ new[r0] = UpdatedRow(aux, old, r0)
    BY <1>1, <1>2, <1>3 DEF MatrixInv, PlateType
  <2>2. \A c \in InnerCols : UpdatedRow(aux, old, r0)[c] = UpdateCell(aux, r0, c)
    BY PlateAssumption DEF UpdatedRow, InnerCols, Cols
  <2> HIDE DEF aux, old, new
  <2> QED BY <2>1, <2>2
<1>5. \A s \in Threads : pc[s] # "advance"
  BY <1>2 DEF PhaseInv, Working, Swapping, Swapped, Checking, Resetting, Restarting
<1>6. /\ ~ Complete(t) /\ ~ Counted(t)
      /\ \A u \in Threads : /\ Complete(u)' <=> Complete(u)
                            /\ Counted(u)' <=> Counted(u)
  BY <1>2, <1>5 DEF Complete, Counted
<1>7. Written(t)' = Written(t) \cup {r0}
  <2>1. row'[t] = r0 + 1
    BY <1>2, <1>3
  <2>2. \A r \in RowsOf(t) : r < r0 + 1 <=> r < r0 \/ r = r0
    BY <1>1, Team DEF RowsOf
  <2> QED BY <1>1, <1>2, <1>6, <2>1, <2>2 DEF Written
<1>8. \A u \in Threads \ {t} : Written(u)' = Written(u) /\ r0 \notin Written(u)
  <2>1. \A u \in Threads \ {t} : row'[u] = row[u]
    BY <1>2, <1>3
  <2>2. \A u \in Threads \ {t} : r0 \notin RowsOf(u)
    BY <1>1, Team
  <2> QED BY <1>2, <1>6, <2>1, <2>2 DEF Written
<1>9. \A u \in Threads : \A r \in Written(u) : r \in Rows /\ r # r0
  <2>1. \A u \in Threads : \A r \in Written(u) : r \in RowsOf(u) /\ r \in Rows
    BY Team, PlateAssumption DEF Written, InnerRows, Rows
  <2>2. r0 \notin Written(t)
    BY <1>1, <1>6 DEF Written
  <2> QED BY <1>8, <2>1, <2>2
<1>10. \A u \in Threads : \A r \in Written(u) :
         /\ new[r] = old[r]
         /\ RowChanged(aux, new, r) <=> RowChanged(aux, old, r)
  <2>1. \A u \in Threads : \A r \in Written(u) : new[r] = old[r]
    BY <1>4, <1>9
  <2> HIDE DEF aux, old, new
  <2> QED BY <2>1 DEF RowChanged
<1>11. \A u \in Threads : \A r \in Written(u)' : \A c \in InnerCols :
         buffer'[matrix'][r][c] = UpdateCell(buffer'[auxiliary_matrix'], r, c)
  <2>1. \A u \in Threads : \A r \in Written(u) : \A c \in InnerCols :
          old[r][c] = UpdateCell(aux, r, c)
    BY DEF StateInv
  <2>2. \A u \in Threads : \A r \in Written(u)' : r \in Written(u) \/ r = r0
    BY <1>7, <1>8
  <2>3. buffer'[matrix'] = new /\ buffer'[auxiliary_matrix'] = aux
    BY <1>2, <1>4
  <2> HIDE DEF aux, old, new
  <2> QED BY <1>4, <1>10, <2>1, <2>2, <2>3
<1>12. \A u \in Threads :
         pc'[u] = "rows" \/ Complete(u)' =>
           (equilibrated'[u] <=>
              \A r \in Written(u)' :
                ~ RowChanged(buffer'[auxiliary_matrix'], buffer'[matrix'], r))
  <2>1. \A u \in Threads :
          pc[u] = "rows" \/ Complete(u) =>
            (equilibrated[u] <=> \A r \in Written(u) : ~ RowChanged(aux, old, r))
    BY DEF StateInv
  <2>2. /\ \A u \in Threads \ {t} : equilibrated'[u] = equilibrated[u]
        /\ equilibrated'[t] <=> (equilibrated[t] /\ ~ RowChanged(aux, new, r0))
    BY <1>2, <1>3
  <2>3. buffer'[matrix'] = new /\ buffer'[auxiliary_matrix'] = aux /\ pc' = pc
    BY <1>2, <1>4
  <2> HIDE DEF aux, old, new
  <2>4. \A u \in Threads \ {t} :
          pc'[u] = "rows" \/ Complete(u)' =>
            (equilibrated'[u] <=>
               \A r \in Written(u)' : ~ RowChanged(aux, new, r))
    BY <1>6, <1>8, <1>10, <2>1, <2>2, <2>3
  <2>5. equilibrated'[t] <=> \A r \in Written(t)' : ~ RowChanged(aux, new, r)
    BY <1>2, <1>7, <1>10, <2>1, <2>2
  <2> QED BY <2>3, <2>4, <2>5
<1>13. Working' \/ Swapping' =>
         (equilibrated_plate' <=>
            \A u \in Threads : Counted(u)' => equilibrated'[u])
  <2>1. Working
    BY <1>2 DEF PhaseInv, Working, Swapping, Swapped, Checking, Resetting, Restarting
  <2>2. equilibrated_plate <=> \A u \in Threads : Counted(u) => equilibrated[u]
    BY <2>1 DEF StateInv
  <2>3. \A u \in Threads \ {t} : equilibrated'[u] = equilibrated[u]
    BY <1>2, <1>3
  <2> QED BY <1>2, <1>6, <2>2, <2>3
<1> HIDE DEF aux, old, new
<1> QED BY <1>11, <1>12, <1>13 DEF StateInv

\* The other steps move the thread from one group of labels to the next.
LEMMA StateThreadStep ==
  ASSUME TypeOK, PhaseInv, MatrixInv, StateInv, NEW t \in Threads, ThreadStep(t)
  PROVE  StateInv'
<1> USE DEF sharedVars, matrixVars
<1>1. /\ pc \in [Threads -> Labels]
      /\ \A u \in Threads : row[u] \in starting_row(u) .. finish_row(u)
      /\ row \in [Threads -> Nat]
      /\ equilibrated \in [Threads -> BOOLEAN]
      /\ equilibrated_plate \in BOOLEAN
  BY DEF TypeOK
<1>2. CASE UpdateRow(t)
  BY <1>2, StateUpdateRow
<1>3. CASE RowsDone(t)
  <2>1. Working
    BY <1>3 DEF RowsDone, PhaseInv, Working, Swapping, Swapped, Checking,
                Resetting, Restarting
  <2>2. Working' /\ \A s \in Threads : pc[s] # "advance" /\ pc'[s] # "advance"
    BY <1>1, <1>3, <2>1 DEF RowsDone, Working
  <2>3. \A u \in Threads \ {t} :
          /\ pc'[u] = pc[u] /\ Written(u)' = Written(u)
          /\ Complete(u)' <=> Complete(u)
    BY <1>1, <1>3, <2>2 DEF RowsDone, Complete, Counted, Written
  <2>4. Written(t)' = RowsOf(t) /\ Written(t) = RowsOf(t)
    BY <1>1, <1>3, <2>2, Team DEF RowsDone, Written, Complete, RowsOf
  <2>5. ~ Counted(t) /\ ~ Counted(t)' /\ pc[t] = "rows"
    BY <1>1, <1>3, <2>2 DEF RowsDone, Counted
  <2>6. \A u \in Threads : Complete(u)' => pc[u] = "rows" \/ Complete(u)
    BY <2>3, <2>5
  <2>7. \A u \in Threads : Counted(u)' <=> Counted(u)
    BY <1>1, <1>3, <2>2 DEF RowsDone, Counted
  <2>8. UNCHANGED <<buffer, matrix, auxiliary_matrix, equilibrated_plate, equilibrated>>
    BY <1>3 DEF RowsDone
  <2>9. \A u \in Threads : Written(u)' = Written(u)
    BY <2>3, <2>4
  <2>10. \A u \in Threads : pc'[u] = "rows" => pc[u] = "rows"
    BY <2>3, <2>5
  <2> QED BY <2>1, <2>6, <2>7, <2>8, <2>9, <2>10 DEF StateInv
<1>4. CASE Publish(t)
  <2>1. Working
    BY <1>4 DEF Publish, PhaseInv, Working, Swapping, Swapped, Checking,
                Resetting, Restarting
  <2>2. \A s \in Threads : pc[s] # "advance" /\ pc'[s] # "advance"
    BY <1>1, <1>4, <2>1 DEF Publish, Working
  <2>3. \A u \in Threads : /\ Written(u)' = Written(u)
                           /\ Complete(u)' <=> Complete(u)
                           /\ pc'[u] = "rows" => pc[u] = "rows"
    BY <1>1, <1>4, <2>2 DEF Publish, Complete, Written
  <2>4. \A u \in Threads : Counted(u)' <=> Counted(u) \/ u = t
    BY <1>1, <1>4, <2>2 DEF Publish, Counted
  <2>5. UNCHANGED <<buffer, matrix, auxiliary_matrix, equilibrated>>
    BY <1>4 DEF Publish
  <2>6. equilibrated_plate <=> \A u \in Threads : Counted(u) => equilibrated[u]
    BY <2>1 DEF StateInv
  <2>7. equilibrated_plate' <=> equilibrated_plate /\ equilibrated[t]
    BY <1>4 DEF Publish
  <2>8. equilibrated_plate' <=> \A u \in Threads : Counted(u)' => equilibrated'[u]
    BY <2>4, <2>5, <2>6, <2>7
  <2> QED BY <2>3, <2>5, <2>8 DEF StateInv
<1>5. CASE Arrive1(t)
  <2>1. UNCHANGED <<buffer, matrix, auxiliary_matrix, equilibrated_plate,
                    equilibrated, row>>
    BY <1>5 DEF Arrive1
  <2>2. pc[t] \in {"arrive1", "arrive1b"}
    BY <1>5 DEF Arrive1
  <2>3. CASE Waiting1 \cup {t} # Threads
    <3>1. pc' = [pc EXCEPT ![t] = IF @ = "arrive1" THEN "wait1" ELSE "wait1b"]
      BY <1>5, <2>3 DEF Arrive1
    <3>2. \A s \in Threads : pc'[s] = "advance" <=> pc[s] = "advance"
      BY <1>1, <2>2, <3>1
    <3>3. \A u \in Threads : /\ Complete(u)' <=> Complete(u)
                             /\ Counted(u)' <=> Counted(u)
                             /\ Written(u)' = Written(u)
                             /\ pc'[u] = "rows" => pc[u] = "rows"
      BY <1>1, <2>1, <2>2, <3>1, <3>2 DEF Complete, Counted, Written
    <3>4. Working' \/ Swapping' => Working \/ Swapping
      BY <1>1, <2>2, <3>1 DEF Working, Swapping, PhaseInv, Swapped, Checking,
                              Resetting, Restarting
    <3> QED BY <2>1, <3>3, <3>4 DEF StateInv
  <2>4. CASE Waiting1 \cup {t} = Threads
    <3>1. PICK serial \in Threads :
            pc' = [u \in Threads |->
                     IF pc[u] \in {"arrive1", "wait1"}
                       THEN IF u = serial THEN "advance" ELSE "arrive2"
                       ELSE IF u = serial THEN "reset" ELSE "arrive2b"]
      BY <1>5, <2>4 DEF Arrive1
    <3>2. \A u \in Threads : u = t \/ pc[u] \in {"wait1", "wait1b"}
      BY <2>4 DEF Waiting1
    <3>3. CASE pc[t] = "arrive1"
      <4>1. Working
        BY <3>3 DEF PhaseInv, Working, Swapping, Swapped, Checking, Resetting,
                    Restarting
      <4>2. \A u \in Threads : pc[u] \in {"arrive1", "wait1"}
        BY <3>2, <3>3, <4>1 DEF Working
      <4>3. pc'[serial] = "advance" /\ \A u \in Threads : pc'[u] # "rows"
        BY <3>1, <4>2
      <4>4. \A u \in Threads : /\ Complete(u)' /\ Complete(u)
                               /\ Counted(u)' /\ Counted(u)
        BY <4>2, <4>3 DEF Complete, Counted
      <4>5. \A u \in Threads : Written(u)' = Written(u)
        BY <4>4 DEF Written
      <4> QED BY <2>1, <4>1, <4>3, <4>4, <4>5 DEF StateInv
    <3>4. CASE pc[t] = "arrive1b"
      <4>1. Checking
        BY <3>4 DEF PhaseInv, Working, Swapping, Swapped, Checking, Resetting,
                    Restarting
      <4>2. \A u \in Threads : pc'[u] \in {"reset", "arrive2b"}
        BY <3>1, <4>1 DEF Checking
      <4> QED BY <4>2, NothingInPreparation DEF Outside
    <3> QED BY <2>2, <3>3, <3>4
  <2> QED BY <2>3, <2>4
<1>6. CASE Advance(t)
  <2>1. Swapping
    BY <1>6 DEF Advance, PhaseInv, Working, Swapping, Swapped, Checking,
                Resetting, Restarting
  <2>2. \A u \in Threads : pc'[u] \in {"arrive2", "wait2"}
    BY <1>1, <1>6, <2>1 DEF Advance, Swapping
  <2> QED BY <2>2, NothingInPreparation DEF Outside
<1>7. CASE Arrive2(t)
  <2>1. UNCHANGED <<buffer, matrix, auxiliary_matrix, equilibrated_plate>>
    BY <1>7 DEF Arrive2
  <2>2. pc[t] \in {"arrive2", "arrive2b"}
    BY <1>7 DEF Arrive2
  <2>3. CASE Waiting2 \cup {t} # Threads
    <3>1. /\ pc' = [pc EXCEPT ![t] = IF @ = "arrive2" THEN "wait2" ELSE "wait2b"]
          /\ UNCHANGED <<equilibrated, row>>
      BY <1>7, <2>3 DEF Arrive2
    <3>2. \A s \in Threads : pc'[s] = "advance" <=> pc[s] = "advance"
      BY <1>1, <2>2, <3>1
    <3>3. \A u \in Threads : /\ Complete(u)' <=> Complete(u)
                             /\ Counted(u)' <=> Counted(u)
                             /\ Written(u)' = Written(u)
                             /\ pc'[u] = "rows" => pc[u] = "rows"
      BY <1>1, <2>2, <3>1, <3>2 DEF Complete, Counted, Written
    <3>4. Working' \/ Swapping' => Working \/ Swapping
      BY <1>1, <2>2, <3>1 DEF Working, Swapping, PhaseInv, Swapped, Checking,
                              Resetting, Restarting
    <3> QED BY <2>1, <3>1, <3>3, <3>4 DEF StateInv
  <2>4. CASE Waiting2 \cup {t} = Threads
    <3>1. /\ pc' = [u \in Threads |-> IF pc[u] \in {"arrive2b", "wait2b"}
                                        THEN "rows" ELSE "check"]
          /\ equilibrated' =
               [u \in Threads |->
                  equilibrated[u] \/ pc[u] \in {"arrive2b", "wait2b"}]
          /\ row' = [u \in Threads |-> IF pc[u] \in {"arrive2b", "wait2b"}
                                         THEN starting_row(u) ELSE row[u]]
      BY <1>7, <2>4 DEF Arrive2
    <3>2. \A u \in Threads : u = t \/ pc[u] \in {"wait2", "wait2b"}
      BY <2>4 DEF Waiting2
    <3>3. CASE pc[t] = "arrive2"
      <4>1. Swapped
        BY <3>2, <3>3 DEF PhaseInv, Working, Swapping, Swapped, Checking,
                          Resetting, Restarting
      <4>2. \A u \in Threads : pc'[u] = "check"
        BY <3>1, <4>1 DEF Swapped
      <4> QED BY <4>2, NothingInPreparation DEF Outside
    <3>4. CASE pc[t] = "arrive2b"
      <4>1. Restarting
        BY <3>2, <3>4 DEF PhaseInv, Working, Swapping, Swapped, Checking,
                          Resetting, Restarting
      <4>2. /\ \A u \in Threads : pc'[u] = "rows" /\ row'[u] = starting_row(u)
            /\ equilibrated_plate'
        BY <2>1, <3>1, <4>1 DEF Restarting
      <4>3. \A u \in Threads : equilibrated'[u]
        BY <3>1, <4>1 DEF Restarting
      <4>4. \A u \in Threads : ~ Complete(u)' /\ ~ Counted(u)'
        BY <4>2 DEF Complete, Counted
      <4>5. \A u \in Threads : Written(u)' = {}
        BY <4>2, <4>4, Team DEF Written, RowsOf
      <4> QED BY <4>2, <4>3, <4>4, <4>5 DEF StateInv
    <3> QED BY <2>2, <3>3, <3>4
  <2> QED BY <2>3, <2>4
<1>8. CASE CheckDone(t)
  <2>1. Checking
    BY <1>8 DEF CheckDone, PhaseInv, Working, Swapping, Swapped, Checking,
                Resetting, Restarting
  <2>2. \A u \in Threads : pc'[u] \in {"check", "done", "arrive1b", "wait1b"}
    BY <1>1, <1>8, <2>1 DEF CheckDone, Checking
  <2> QED BY <2>2, NothingInPreparation DEF Outside
<1>9. CASE ResetFlag(t)
  <2>1. Resetting
    BY <1>9 DEF ResetFlag, PhaseInv, Working, Swapping, Swapped, Checking,
                Resetting, Restarting
  <2>2. \A u \in Threads : pc'[u] \in {"arrive2b", "wait2b"}
    BY <1>1, <1>9, <2>1 DEF ResetFlag, Resetting
  <2> QED BY <2>2, NothingInPreparation DEF Outside
<1> QED BY <1>2, <1>3, <1>4, <1>5, <1>6, <1>7, <1>8, <1>9 DEF ThreadStep

-----------------------------------------------------------------------------
(* The invariant and the properties that follow from it *)

LEMMA IInvInit == Init => IInv
<1> SUFFICES ASSUME Init PROVE IInv
  OBVIOUS
<1>1. TypeOK
  BY InitType
<1>2. PhaseInv
  BY DEF Init, PhaseInv, Working
<1>3. MainInv
  BY Team DEF Init, MainInv, Threads
<1>4. MatrixInv
  <2>1. PICK plate \in InitialPlates :
          buffer = [b \in Buffers |-> IF b = "first" THEN plate
                                                     ELSE InitAuxiliary(plate)]
    BY DEF Init
  <2>2. buffer["first"] = plate /\ buffer["second"] = InitAuxiliary(plate)
    BY <2>1 DEF Buffers
  <2>3. \A r \in Rows, c \in Cols :
          r \notin InnerRows \/ c \notin InnerCols =>
            plate[r][c] = InitAuxiliary(plate)[r][c]
    BY DEF InitAuxiliary
  <2>4. matrix # auxiliary_matrix
    BY DEF Init
  <2> QED BY <2>2, <2>3, <2>4 DEF MatrixInv
<1>5. StateInv
  BY StateInit
<1> QED BY <1>1, <1>2, <1>3, <1>4, <1>5 DEF IInv

LEMMA IInvStep == IInv /\ [Next]_vars => IInv'
<1> SUFFICES ASSUME IInv, [Next]_vars PROVE IInv'
  OBVIOUS
<1>1. TypeOK /\ PhaseInv /\ MainInv /\ MatrixInv /\ StateInv
  BY DEF IInv
<1>2. CASE UNCHANGED vars
  BY <1>1, <1>2
     DEF IInv, vars, mainVars, matrixVars, sharedVars, threadVars, TypeOK,
         PhaseInv, Working, Swapping, Swapped, Checking, Resetting, Restarting,
         MainInv, MatrixInv, StateInv, Written, Complete, Counted
<1>3. CASE MainStep
  <2>1. Next
    BY <1>3 DEF Next
  <2> QED BY <1>1, <1>3, <2>1, MainType, PhaseMainStep, MainInvMainStep, MatrixStep,
             StateMainStep DEF IInv
<1>4. ASSUME NEW t \in Threads, ThreadStep(t) PROVE IInv'
  <2>1. Next
    BY <1>4 DEF Next
  <2> QED BY <1>1, <1>4, <2>1, ThreadType, PhaseStep, MainInvThreadStep, MatrixStep,
             StateThreadStep DEF IInv
<1>5. CASE Finished
  BY <1>2, <1>5 DEF Finished
<1> QED BY <1>2, <1>3, <1>4, <1>5 DEF Next

\* The inductive invariant: the phase the team is in, what the main thread
\* knows of it, and what the matrix being written and the verdicts stand for
\* (plate.c: the loop of equilibrate_plate_concurrent).
THEOREM Invariance == Spec => []IInv
  BY IInvInit, IInvStep, PTL DEF Spec

\* The serial thread swaps the matrices while the others are between the two
\* barriers.
THEOREM SwapIsExclusive == Spec => []SwapExcludesUpdates
<1>1. IInv => SwapExcludesUpdates
  BY DEF IInv, PhaseInv, Working, Swapping, Swapped, Checking, Resetting,
         Restarting, SwapExcludesUpdates
<1> QED BY <1>1, Invariance, PTL

\* No two threads write the same row, whatever the numbers of rows and threads.
THEOREM RowsHaveOneWriter == Spec => []OneWriterPerRow
<1>1. IInv => OneWriterPerRow
  <2> SUFFICES ASSUME IInv, NEW t \in Threads, pc[t] = "rows", row[t] < finish_row(t)
               PROVE  /\ row[t] \in InnerRows
                      /\ matrix # auxiliary_matrix
                      /\ \A u \in Threads \ {t} :
                           pc[u] = "rows" /\ row[u] < finish_row(u) => row[u] # row[t]
    BY DEF OneWriterPerRow
  <2>1. \A u \in Threads : row[u] < finish_row(u) => row[u] \in RowsOf(u)
    BY Team DEF IInv, TypeOK, RowsOf
  <2>2. matrix # auxiliary_matrix
    BY DEF IInv, MatrixInv
  <2> QED BY <2>1, <2>2, Team
<1> QED BY <1>1, Invariance, PTL

\* All the threads of the team leave the loop at the same state of the plate.
THEOREM VerdictIsCommon == Spec => []SameVerdict
<1>1. IInv => SameVerdict
  BY DEF IInv, PhaseInv, Working, Swapping, Swapped, Checking, Resetting,
         Restarting, SameVerdict
<1> QED BY <1>1, Invariance, PTL

\* No thread is running when the main thread frees what the threads use.
THEOREM TeamIsOver == Spec => []NoThreadOutlivesTeam
<1>1. IInv => NoThreadOutlivesTeam
  <2> SUFFICES ASSUME IInv, main \in {"returned", "failed"}, NEW t \in Threads
               PROVE  pc[t] \in {"unborn", "done"}
    BY DEF NoThreadOutlivesTeam
  <2>1. joined = created /\ created \in Nat /\ t \in Nat
    BY Team DEF IInv, MainInv, TypeOK, Threads
  <2>2. CASE t < created
    BY <2>1, <2>2 DEF IInv, MainInv
  <2>3. CASE t >= created
    BY <2>1, <2>3 DEF IInv, MainInv
  <2> QED BY <2>1, <2>2, <2>3
<1> QED BY <1>1, Invariance, PTL

\* The flag does not change between the swap and the last thread's check.
THEOREM VerdictIsFrozen == Spec => VerdictFrozen
<1>1. IInv /\ [Next]_vars =>
        [(\E t \in Threads : pc[t] \in {"wait2", "check"}) =>
           equilibrated_plate' = equilibrated_plate]_vars
  <2> SUFFICES ASSUME IInv, Next,
                      NEW w \in Threads, pc[w] \in {"wait2", "check"}
               PROVE  equilibrated_plate' = equilibrated_plate
    OBVIOUS
  <2>1. ~ Working /\ ~ Resetting
    BY DEF Working, Resetting
  <2>2. ASSUME NEW t \in Threads PROVE pc[t] \notin {"publish", "reset"}
    BY <2>1 DEF IInv, PhaseInv, Working, Swapping, Swapped, Checking, Resetting,
                Restarting
  <2> QED BY <2>2
          DEF Next, MainStep, ThreadStep, Finished, vars, sharedVars,
              PrepareMatrices, CreateThread, CreateFails, AllCreated, JoinThread,
              AllJoined, StoreResult, UpdateRow, RowsDone, Publish, Arrive1,
              Advance, Arrive2, CheckDone, ResetFlag
<1> QED BY <1>1, Invariance, PTL DEF Spec, VerdictFrozen

-----------------------------------------------------------------------------
(* The team implements the serial loop *)

\* The abstract operators are those of PlateMatrix.
LEMMA SameOperators ==
  /\ \A plate : Abstract!NextPlate(plate) = NextPlate(plate)
  /\ \A old, new : Abstract!Balanced(old, new) <=> Balanced(old, new)
<1>1. \A plate : Abstract!NextPlate(plate) = NextPlate(plate)
  BY DEF Abstract!NextPlate, Abstract!UpdatedRow, Abstract!UpdateCell,
         Abstract!Rows, Abstract!Cols, Abstract!InnerRows, Abstract!InnerCols,
         NextPlate, UpdatedRow, UpdateCell, Rows, Cols, InnerRows, InnerCols
<1>2. \A old, new : Abstract!Balanced(old, new) <=> Balanced(old, new)
  BY DEF Abstract!Balanced, Abstract!RowChanged, Abstract!InnerRows,
         Abstract!InnerCols, Balanced, RowChanged, InnerRows, InnerCols
<1> QED BY <1>1, <1>2

\* When the serial thread is about to swap, the matrix just written is the
\* next state of the plate, and the shared flag its verdict.
LEMMA WholeState ==
  ASSUME IInv, NEW t \in Threads, pc[t] = "advance"
  PROVE  /\ buffer[matrix] = NextPlate(buffer[auxiliary_matrix])
         /\ equilibrated_plate <=> Balanced(buffer[auxiliary_matrix], buffer[matrix])
<1> DEFINE old == buffer[auxiliary_matrix]
           new == buffer[matrix]
<1>1. Swapping
  BY DEF IInv, PhaseInv, Working, Swapping, Swapped, Checking, Resetting, Restarting
<1>2. \A u \in Threads : Complete(u) /\ Counted(u) /\ Written(u) = RowsOf(u)
  BY DEF Complete, Counted, Written
<1>3. old \in PlateType /\ new \in PlateType /\ matrix \in Buffers
        /\ auxiliary_matrix \in Buffers
  BY DEF IInv, TypeOK
<1>4. \A r \in InnerRows : \A c \in InnerCols : new[r][c] = UpdateCell(old, r, c)
  BY <1>2, Team DEF IInv, StateInv
<1>5. \A r \in Rows, c \in Cols :
        r \notin InnerRows \/ c \notin InnerCols => new[r][c] = old[r][c]
  BY <1>3 DEF IInv, MatrixInv, Buffers
<1>6. /\ \A u \in Threads :
           equilibrated[u] <=> \A r \in RowsOf(u) : ~ RowChanged(old, new, r)
      /\ equilibrated_plate <=> \A u \in Threads : equilibrated[u]
  BY <1>1, <1>2 DEF IInv, StateInv
<1> HIDE DEF old, new
<1>7. new = NextPlate(old)
  BY <1>3, <1>4, <1>5, AllRowsWritten
<1>8. equilibrated_plate <=> Balanced(old, new)
  BY <1>6, Team DEF Balanced
<1> QED BY <1>7, <1>8 DEF old, new

LEMMA ImplementationInit == Init => Abstract!Init
<1> SUFFICES ASSUME Init PROVE Abstract!Init
  OBVIOUS
<1>1. PICK plate \in InitialPlates :
        buffer = [b \in Buffers |-> IF b = "first" THEN plate
                                                   ELSE InitAuxiliary(plate)]
  BY DEF Init
<1>2. CurrentPlate = plate
  BY <1>1 DEF Init, CurrentPlate, Buffers
<1>3. ReportedStates = 0
  BY DEF Init, ReportedStates
<1>4. VerdictReached = FALSE
  BY Team DEF Init, VerdictReached
<1> QED BY <1>2, <1>3, <1>4 DEF Abstract!Init

\* The swap is the step of the serial loop.
LEMMA AdvanceIsUpdatePlate ==
  ASSUME IInv, NEW t \in Threads, Advance(t)
  PROVE  Abstract!update_plate
<1>1. pc[t] = "advance"
  BY DEF Advance
<1>2. main \notin {"set_auxiliary", "returned"} /\ main' = main
  <2>1. main # "set_auxiliary"
    BY <1>1, Team DEF IInv, MainInv, Threads
  <2>2. main # "returned"
    BY <1>1, Team DEF IInv, MainInv, Threads
  <2> QED BY <2>1, <2>2 DEF Advance, mainVars
<1>3. CurrentPlate = buffer[auxiliary_matrix] /\ CurrentPlate' = buffer[matrix]
  BY <1>2 DEF CurrentPlate, Advance, set_auxiliary
<1>4. ReportedStates' = ReportedStates + 1
  BY <1>2 DEF ReportedStates, Advance
<1>5. ~ VerdictReached
  BY <1>1 DEF VerdictReached
<1>6. VerdictReached' <=> equilibrated_plate
  <2>1. Swapping
    BY <1>1 DEF IInv, PhaseInv, Working, Swapping, Swapped, Checking, Resetting,
                Restarting
  <2>2. \A u \in Threads : pc'[u] \in {"arrive2", "wait2"}
    BY <1>1, <2>1 DEF IInv, TypeOK, Advance, Swapping
  <2>3. equilibrated_plate' = equilibrated_plate
    BY DEF Advance
  <2> QED BY <2>2, <2>3 DEF VerdictReached
<1>7. VerdictReached' = Balanced(CurrentPlate, CurrentPlate')
  <2>1. VerdictReached' <=> Balanced(CurrentPlate, CurrentPlate')
    BY <1>1, <1>3, <1>6, WholeState
  <2> QED BY <2>1 DEF VerdictReached, Balanced
<1>8. CurrentPlate' = NextPlate(CurrentPlate)
  BY <1>1, <1>3, WholeState
<1> QED BY <1>4, <1>5, <1>7, <1>8, SameOperators DEF Abstract!update_plate

\* A step of the team that is not the swap changes neither the current plate
\* nor the number of states nor whether the verdict is in.
LEMMA OtherThreadSteps ==
  ASSUME IInv, NEW t \in Threads, ThreadStep(t), ~ Advance(t)
  PROVE  UNCHANGED <<CurrentPlate, ReportedStates, VerdictReached>>
<1> USE DEF sharedVars, matrixVars, mainVars
<1>1. /\ pc \in [Threads -> Labels]
      /\ main \notin {"set_auxiliary", "returned"}
  <2>1. pc[t] \notin {"unborn", "done"} /\ pc \in [Threads -> Labels]
    BY BirthAndDeath DEF IInv, TypeOK
  <2>2. main # "set_auxiliary"
    BY <2>1, Team DEF IInv, MainInv, Threads
  <2>3. main # "returned"
    BY <2>1, Team DEF IInv, MainInv, Threads
  <2> QED BY <2>1, <2>2, <2>3
<1>2. main' = main /\ ReportedStates' = ReportedStates
  BY <1>1 DEF ThreadStep, UpdateRow, RowsDone, Publish, Arrive1, Arrive2,
              CheckDone, ResetFlag, ReportedStates
<1>3. CurrentPlate' = CurrentPlate
  <2>1. CASE UpdateRow(t)
    <3>1. /\ matrix # auxiliary_matrix
          /\ matrix \in Buffers /\ auxiliary_matrix \in Buffers
          /\ buffer \in [Buffers -> PlateType]
      BY DEF IInv, MatrixInv, TypeOK
    <3> QED BY <1>1, <1>2, <2>1, <3>1 DEF UpdateRow, CurrentPlate
  <2>2. CASE ~ UpdateRow(t)
    BY <1>2, <2>2 DEF ThreadStep, RowsDone, Publish, Arrive1, Arrive2, CheckDone,
                      ResetFlag, CurrentPlate
  <2> QED BY <2>1, <2>2
<1>4. VerdictReached' <=> VerdictReached
  <2> DEFINE In == {"arrive2", "wait2", "check", "done"}
  <2>1. CASE UpdateRow(t) \/ RowsDone(t) \/ Publish(t) \/ ResetFlag(t)
    <3>1. pc[t] \notin In /\ pc'[t] \notin In
      BY <1>1, <2>1 DEF UpdateRow, RowsDone, Publish, ResetFlag
    <3> QED BY <3>1 DEF VerdictReached
  <2>2. CASE Arrive1(t)
    <3>1. pc[t] \in {"arrive1", "arrive1b"}
      BY <2>2 DEF Arrive1
    <3>2. \E u \in Threads : pc'[u] \notin In
      <4>1. CASE Waiting1 \cup {t} # Threads
        BY <1>1, <2>2, <3>1, <4>1 DEF Arrive1
      <4>2. CASE Waiting1 \cup {t} = Threads
        BY <2>2, <4>2 DEF Arrive1
      <4> QED BY <4>1, <4>2
    <3> QED BY <3>1, <3>2 DEF VerdictReached
  <2>3. CASE Arrive2(t)
    <3>1. pc[t] \in {"arrive2", "arrive2b"} /\ equilibrated_plate' = equilibrated_plate
      BY <2>3 DEF Arrive2
    <3>2. CASE Waiting2 \cup {t} # Threads
      <4>1. pc' = [pc EXCEPT ![t] = IF @ = "arrive2" THEN "wait2" ELSE "wait2b"]
        BY <2>3, <3>2 DEF Arrive2
      <4>2. \A u \in Threads : pc'[u] \in In <=> pc[u] \in In
        BY <1>1, <3>1, <4>1
      <4> QED BY <3>1, <4>2 DEF VerdictReached
    <3>3. CASE Waiting2 \cup {t} = Threads
      <4>1. \A u \in Threads : pc'[u] = IF pc[u] \in {"arrive2b", "wait2b"}
                                          THEN "rows" ELSE "check"
        BY <2>3, <3>3 DEF Arrive2
      <4>2. \A u \in Threads : u = t \/ pc[u] \in {"wait2", "wait2b"}
        BY <3>3 DEF Waiting2
      <4>3. \A u \in Threads : pc'[u] \in In <=> pc[u] \in In
        BY <3>1, <4>1, <4>2
      <4> QED BY <3>1, <4>3 DEF VerdictReached
    <3> QED BY <3>2, <3>3
  <2>4. CASE CheckDone(t)
    <3>1. /\ pc[t] = "check" /\ equilibrated_plate' = equilibrated_plate
          /\ pc' = [pc EXCEPT ![t] = IF equilibrated_plate THEN "done" ELSE "arrive1b"]
      BY <2>4 DEF CheckDone
    <3>2. CASE equilibrated_plate
      <4>1. \A u \in Threads : pc'[u] \in In <=> pc[u] \in In
        BY <1>1, <3>1, <3>2
      <4> QED BY <3>1, <4>1 DEF VerdictReached
    <3>3. CASE ~ equilibrated_plate
      BY <3>1, <3>3 DEF VerdictReached
    <3> QED BY <3>2, <3>3
  <2> QED BY <2>1, <2>2, <2>3, <2>4 DEF ThreadStep
<1>5. VerdictReached' = VerdictReached
  BY <1>4 DEF VerdictReached
<1> QED BY <1>2, <1>3, <1>5

\* Nor does a step of the main thread: it swaps before and after the loop, when
\* the plate it gives or takes is in the other matrix.
LEMMA MainSteps ==
  ASSUME IInv, MainStep
  PROVE  UNCHANGED <<CurrentPlate, ReportedStates, VerdictReached>>
<1> USE DEF sharedVars, matrixVars, threadVars
<1>1. CASE PrepareMatrices
  BY <1>1 DEF PrepareMatrices, set_auxiliary, CurrentPlate, ReportedStates,
              VerdictReached
<1>2. CASE CreateThread
  <2>1. created \in Threads /\ pc[created] = "unborn" /\ pc \in [Threads -> Labels]
    BY <1>2, Team DEF CreateThread, Threads, IInv, TypeOK, MainInv
  <2>2. pc'[created] = "rows"
    BY <1>2, <2>1 DEF CreateThread
  <2>3. VerdictReached' = VerdictReached
    BY <2>1, <2>2 DEF VerdictReached
  <2> QED BY <1>2, <2>3 DEF CreateThread, CurrentPlate, ReportedStates
<1>3. CASE CreateFails
  BY <1>3 DEF CreateFails, CurrentPlate, ReportedStates, VerdictReached
<1>4. CASE AllCreated
  BY <1>4 DEF AllCreated, CurrentPlate, ReportedStates, VerdictReached
<1>5. CASE JoinThread
  BY <1>5 DEF JoinThread, CurrentPlate, ReportedStates, VerdictReached
<1>6. CASE AllJoined
  BY <1>6 DEF AllJoined, CurrentPlate, ReportedStates, VerdictReached
<1>7. CASE StoreResult
  BY <1>7 DEF StoreResult, set_auxiliary, CurrentPlate, ReportedStates,
              VerdictReached
<1> QED BY <1>1, <1>2, <1>3, <1>4, <1>5, <1>6, <1>7 DEF MainStep

\* The plates the team goes through, their number and the state it stops at are
\* those of the serial program, for any number of threads and any arithmetic
\* (job.c and plate.c of the two homeworks).
THEOREM Implementation == Spec => ImplementsEquilibrium
<1>1. IInv /\ [Next]_vars => [Abstract!Next]_(Abstract!vars)
  <2> SUFFICES ASSUME IInv, [Next]_vars
               PROVE  Abstract!Next \/ UNCHANGED Abstract!vars
    OBVIOUS
  <2>1. CASE UNCHANGED vars
    BY <2>1 DEF vars, mainVars, matrixVars, sharedVars, threadVars, Abstract!vars,
                CurrentPlate, ReportedStates, VerdictReached
  <2>2. CASE MainStep
    BY <2>2, MainSteps DEF Abstract!vars
  <2>3. ASSUME NEW t \in Threads, ThreadStep(t)
        PROVE  Abstract!Next \/ UNCHANGED Abstract!vars
    <3>1. CASE Advance(t)
      BY <3>1, AdvanceIsUpdatePlate DEF Abstract!Next
    <3>2. CASE ~ Advance(t)
      BY <2>3, <3>2, OtherThreadSteps DEF Abstract!vars
    <3> QED BY <3>1, <3>2
  <2>4. CASE Finished
    BY <2>1, <2>4 DEF Finished
  <2> QED BY <2>1, <2>2, <2>3, <2>4 DEF Next
<1> QED BY <1>1, ImplementationInit, Invariance, PTL
        DEF Spec, Abstract!Spec, ImplementsEquilibrium
=============================================================================
