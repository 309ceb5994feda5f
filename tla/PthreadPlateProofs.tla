------------------------- MODULE PthreadPlateProofs -------------------------
(***************************************************************************)
(* Proofs about the fork-join team of PthreadPlate, for every plate, every *)
(* arithmetic, every number of threads and every failure to create one.    *)
(***************************************************************************)
EXTENDS PthreadPlate, PlateProofs

\* The team has at least a thread, and its blocks partition the inner rows.
LEMMA Team ==
  /\ ThreadCount \in Nat \ {0}
  /\ \A t \in Threads :
       /\ t \in Nat /\ t < ThreadCount
       /\ starting_row(t) \in Nat /\ ending_row(t) \in Nat
       /\ starting_row(t) <= ending_row(t)
       /\ RowsOf(t) \subseteq InnerRows
       /\ \A u \in Threads \ {t} : RowsOf(t) \cap RowsOf(u) = {}
  /\ \A r \in InnerRows : \E t \in Threads : r \in RowsOf(t)
<1> DEFINE inner == RowCount - 2
<1>1. inner \in Nat \ {0}
  BY PlateAssumption
<1>2. ThreadCount \in 1 .. inner
  BY <1>1, TeamSizeRange, TeamAssumption DEF ThreadCount
<1> HIDE DEF inner
<1>3. \A t \in Threads : t \in 0 .. ThreadCount - 1 /\ t \in Nat /\ t < ThreadCount
  BY <1>1, <1>2 DEF Threads
<1>4. ASSUME NEW t \in Threads
      PROVE  /\ starting_row(t) \in 1 .. inner /\ ending_row(t) \in 1 .. inner
             /\ starting_row(t) <= ending_row(t)
  BY <1>1, <1>2, <1>3, BlockLimitsInOrder DEF starting_row, ending_row, inner
<1>5. ASSUME NEW t \in Threads
      PROVE  RowsOf(t) \subseteq InnerRows
  BY <1>1, <1>4 DEF RowsOf, InnerRows, inner
<1>6. ASSUME NEW t \in Threads, NEW u \in Threads \ {t}, NEW r \in RowsOf(t)
      PROVE  r \notin RowsOf(u)
  <2>1. r \in BlockStart(t, inner, ThreadCount) .. BlockEnd(t, inner, ThreadCount)
    BY <1>6 DEF RowsOf, starting_row, ending_row, inner
  <2>2. r \notin BlockStart(u, inner, ThreadCount) .. BlockEnd(u, inner, ThreadCount)
    BY <1>1, <1>2, <1>3, <2>1, BlockMapDisjoint
  <2> QED BY <2>2 DEF RowsOf, starting_row, ending_row, inner
<1>7. ASSUME NEW r \in InnerRows
      PROVE  \E t \in Threads : r \in RowsOf(t)
  <2>1. r \in 1 .. inner
    BY DEF InnerRows, inner
  <2>2. PICK t \in 0 .. ThreadCount - 1 :
          r \in BlockStart(t, inner, ThreadCount) .. BlockEnd(t, inner, ThreadCount)
    BY <1>1, <1>2, <2>1, BlockMapCovers
  <2> QED BY <2>2 DEF RowsOf, starting_row, ending_row, Threads, inner
<1>8. ThreadCount \in Nat \ {0}
  BY <1>1, <1>2
<1>9. \A t \in Threads : starting_row(t) \in Nat /\ ending_row(t) \in Nat
                           /\ starting_row(t) <= ending_row(t)
  BY <1>1, <1>4
<1> QED BY <1>3, <1>5, <1>6, <1>7, <1>8, <1>9

LEMMA InitType == Init => TypeOK
<1> SUFFICES ASSUME Init PROVE TypeOK
  OBVIOUS
<1> USE DEF Init
<1>1. PICK plate \in InitialPlates :
        buffer = [b \in Buffers |-> IF b = "first" THEN plate
                                                   ELSE InitAuxiliary(plate)]
  OBVIOUS
<1>2. buffer \in [Buffers -> PlateType]
  BY <1>1, InitialBuffersType
<1>3. row \in [Threads -> Nat]
        /\ \A t \in Threads : row[t] \in starting_row(t) .. ending_row(t) + 1
  BY Team
<1>4. pc \in [Threads -> {"rows", "ended"}] /\ equilibrated \in [Threads -> BOOLEAN]
  OBVIOUS
<1>5. main \in MainLabels /\ matrix \in Buffers /\ auxiliary_matrix \in Buffers
  BY DEF MainLabels, Buffers
<1>6. created \in 0 .. ThreadCount /\ joined \in 0 .. created
  BY Team
<1> QED BY <1>2, <1>3, <1>4, <1>5, <1>6 DEF TypeOK

\* The steps of the main thread keep the types.
LEMMA MainType ==
  ASSUME TypeOK, MainStep
  PROVE  TypeOK'
<1> USE DEF TypeOK, matrixVars, threadVars, MainLabels
<1>1. CASE StartState
  BY <1>1, Team DEF StartState
<1>2. CASE CreateThread
  <2>1. created \in Threads /\ created' \in 0 .. ThreadCount /\ joined' \in 0 .. created'
    BY <1>2, Team DEF CreateThread, Threads
  <2>2. pc' \in [Threads -> {"rows", "ended"}]
    BY <1>2, <2>1 DEF CreateThread
  <2>3. row' \in [Threads -> Nat]
          /\ \A t \in Threads : row'[t] \in starting_row(t) .. ending_row(t) + 1
    BY <1>2, <2>1, Team DEF CreateThread
  <2> QED BY <1>2, <2>1, <2>2, <2>3 DEF CreateThread
<1>3. CASE CreateFails
  BY <1>3 DEF CreateFails
<1>4. CASE AllCreated
  BY <1>4 DEF AllCreated
<1>5. CASE JoinThread
  <2>1. joined \in Threads /\ joined' \in 0 .. created'
    BY <1>5, Team DEF JoinThread, Threads
  <2>2. reached_equilibrium' \in BOOLEAN /\ equilibrated' \in [Threads -> BOOLEAN]
    BY <1>5, <2>1 DEF JoinThread
  <2> QED BY <1>5, <2>1, <2>2 DEF JoinThread
<1>6. CASE AllJoined
  BY <1>6 DEF AllJoined
<1>7. CASE ReturnError
  BY <1>7 DEF ReturnError
<1>8. CASE StoreResult
  BY <1>8 DEF StoreResult
<1> QED BY <1>1, <1>2, <1>3, <1>4, <1>5, <1>6, <1>7, <1>8 DEF MainStep

\* A thread updates a row of its block, and changes nothing else of the plate.
LEMMA RowUpdated ==
  ASSUME TypeOK, MatrixInv, NEW t \in Threads, UpdateRow(t)
  PROVE  /\ row[t] \in RowsOf(t) /\ row[t] \in InnerRows /\ row[t] \in Rows
         /\ buffer' \in [Buffers -> PlateType]
         /\ buffer'[auxiliary_matrix] = buffer[auxiliary_matrix]
         /\ \A s \in Rows \ {row[t]} : buffer'[matrix][s] = buffer[matrix][s]
         /\ \A c \in InnerCols :
              buffer'[matrix][row[t]][c] = UpdateCell(buffer[auxiliary_matrix], row[t], c)
         /\ \A b \in Buffers, s \in Rows, c \in Cols :
              s \notin InnerRows \/ c \notin InnerCols
                => buffer'[b][s][c] = buffer[b][s][c]
<1>1. row[t] \in RowsOf(t) /\ row[t] \in InnerRows
  BY Team DEF UpdateRow, TypeOK, RowsOf
<1>2. row[t] \in Rows
  BY <1>1, PlateAssumption DEF InnerRows, Rows
<1>3. /\ buffer \in [Buffers -> PlateType]
      /\ matrix \in Buffers /\ auxiliary_matrix \in Buffers /\ matrix # auxiliary_matrix
  BY DEF TypeOK, MatrixInv
<1>4. buffer' = [buffer EXCEPT ![matrix][row[t]] =
                   UpdatedRow(buffer[auxiliary_matrix], buffer[matrix], row[t])]
  BY DEF UpdateRow
<1>5. PICK current, target, r, new :
        /\ current \in PlateType /\ target \in PlateType /\ r \in InnerRows
        /\ current = buffer[auxiliary_matrix] /\ target = buffer[matrix]
        /\ r = row[t] /\ new = buffer'[matrix]
  BY <1>1, <1>3
<1>6. /\ new[r] = UpdatedRow(current, target, r)
      /\ \A s \in Rows \ {r} : new[s] = target[s]
      /\ DOMAIN new = Rows /\ new = [s \in Rows |-> new[s]]
      /\ \A b \in Buffers \ {matrix} : buffer'[b] = buffer[b]
      /\ buffer' = [b \in Buffers |-> buffer'[b]]
  BY <1>2, <1>3, <1>4, <1>5 DEF PlateType
<1>7. /\ \A s \in Rows : new[s] \in [Cols -> Temperatures]
      /\ \A c \in InnerCols : new[r][c] = UpdateCell(current, r, c)
      /\ \A s \in Rows, c \in Cols :
           s \notin InnerRows \/ c \notin InnerCols => new[s][c] = target[s][c]
  BY <1>5, <1>6, RowWritten
<1>8. buffer' \in [Buffers -> PlateType]
  <2>1. new \in PlateType
    BY <1>6, <1>7 DEF PlateType
  <2> QED BY <1>3, <1>5, <1>6, <2>1
<1>9. ASSUME NEW b \in Buffers, NEW s \in Rows, NEW c \in Cols,
             s \notin InnerRows \/ c \notin InnerCols
      PROVE  buffer'[b][s][c] = buffer[b][s][c]
  <2>1. CASE b = matrix
    BY <1>5, <1>7, <1>9, <2>1
  <2>2. CASE b # matrix
    BY <1>6, <2>2
  <2> QED BY <2>1, <2>2
<1> QED BY <1>1, <1>2, <1>3, <1>5, <1>6, <1>7, <1>8, <1>9

\* So do the steps of the threads.
LEMMA ThreadType ==
  ASSUME TypeOK, MatrixInv, NEW t \in Threads, ThreadStep(t)
  PROVE  TypeOK'
<1> USE DEF mainVars, matrixVars
<1>1. CASE UpdateRow(t)
  <2>1. buffer' \in [Buffers -> PlateType]
    BY <1>1, RowUpdated
  <2>2. row' \in [Threads -> Nat]
          /\ \A u \in Threads : row'[u] \in starting_row(u) .. ending_row(u) + 1
    BY <1>1, Team DEF UpdateRow, TypeOK
  <2>3. equilibrated' \in [Threads -> BOOLEAN]
    BY <1>1 DEF UpdateRow, TypeOK
  <2> QED BY <1>1, <2>1, <2>2, <2>3 DEF UpdateRow, TypeOK
<1>2. CASE EndThread(t)
  BY <1>2 DEF EndThread, TypeOK
<1> QED BY <1>1, <1>2 DEF ThreadStep

-----------------------------------------------------------------------------
(* The team and the matrices *)

LEMMA TeamMainStep ==
  ASSUME TypeOK, TeamInv, MainStep
  PROVE  TeamInv'
<1> USE DEF matrixVars, threadVars, TypeOK, TeamInv
<1>1. CASE StartState
  <2>1. \A t \in Threads : pc[t] = "ended" /\ equilibrated[t]
    BY <1>1, Team DEF StartState
  <2> QED BY <1>1, <2>1, Team DEF StartState
<1>2. CASE CreateThread
  <2>1. created \in Threads /\ equilibrated[created]
    BY <1>2, Team DEF CreateThread, Threads
  <2>2. /\ pc'[created] = "rows"
        /\ \A t \in Threads \ {created} : pc'[t] = pc[t] /\ row'[t] = row[t]
    BY <1>2, <2>1 DEF CreateThread
  <2>3. \A t \in Threads : t < joined' \/ t >= created' =>
          pc'[t] = "ended" /\ equilibrated'[t]
    BY <1>2, <2>1, <2>2, Team DEF CreateThread
  <2>4. \A t \in Threads : t < created' /\ pc'[t] = "ended" =>
          row'[t] = ending_row(t) + 1
    <3> SUFFICES ASSUME NEW t \in Threads, t < created', pc'[t] = "ended"
                 PROVE  row'[t] = ending_row(t) + 1
      OBVIOUS
    <3>1. t # created
      BY <2>2
    <3>2. t < created
      BY <1>2, <3>1, Team DEF CreateThread
    <3> QED BY <2>2, <3>1, <3>2
  <2> QED BY <1>2, <2>3, <2>4 DEF CreateThread
<1>3. CASE CreateFails
  BY <1>3 DEF CreateFails
<1>4. CASE AllCreated
  BY <1>4 DEF AllCreated
<1>5. CASE JoinThread
  <2>1. joined \in Threads /\ pc[joined] = "ended"
    BY <1>5, Team DEF JoinThread, Threads
  <2>2. /\ equilibrated'[joined] = TRUE
        /\ \A t \in Threads \ {joined} : equilibrated'[t] = equilibrated[t]
    BY <1>5, <2>1 DEF JoinThread
  <2>3. \A t \in Threads : t < joined' \/ t >= created' =>
          pc'[t] = "ended" /\ equilibrated'[t]
    <3> SUFFICES ASSUME NEW t \in Threads, t < joined' \/ t >= created'
                 PROVE  pc'[t] = "ended" /\ equilibrated'[t]
      OBVIOUS
    <3>1. CASE t = joined
      BY <1>5, <2>1, <2>2, <3>1 DEF JoinThread
    <3>2. CASE t # joined
      <4>1. t < joined \/ t >= created
        BY <1>5, <3>2, Team DEF JoinThread
      <4> QED BY <1>5, <2>2, <3>2, <4>1 DEF JoinThread
    <3> QED BY <3>1, <3>2
  <2> QED BY <1>5, <2>3 DEF JoinThread
<1>6. CASE AllJoined
  BY <1>6 DEF AllJoined
<1>7. CASE ReturnError
  BY <1>7 DEF ReturnError
<1>8. CASE StoreResult
  BY <1>8 DEF StoreResult
<1> QED BY <1>1, <1>2, <1>3, <1>4, <1>5, <1>6, <1>7, <1>8 DEF MainStep

\* A thread that takes a step was created and is not joined yet.
LEMMA TeamThreadStep ==
  ASSUME TypeOK, TeamInv, NEW t \in Threads, ThreadStep(t)
  PROVE  /\ TeamInv'
         /\ joined <= t /\ t < created /\ pc[t] = "rows"
         /\ main \in {"create_threads", "join_threads", "join_created"}
<1> USE DEF mainVars
<1>1. pc[t] = "rows"
  BY DEF ThreadStep, UpdateRow, EndThread
<1>2. joined <= t /\ t < created
  BY <1>1, Team DEF TeamInv, TypeOK
<1>3. main \in {"create_threads", "join_threads", "join_created"}
  BY <1>2, Team DEF TeamInv, TypeOK, MainLabels
<1>4. \A u \in Threads \ {t} :
        pc'[u] = pc[u] /\ row'[u] = row[u] /\ equilibrated'[u] = equilibrated[u]
  BY DEF ThreadStep, UpdateRow, EndThread, TypeOK
<1>5. created' = created /\ joined' = joined /\ main' = main
  BY DEF ThreadStep, UpdateRow, EndThread
<1>6. \A u \in Threads : u < created' /\ pc'[u] = "ended" => row'[u] = ending_row(u) + 1
  <2>1. pc'[t] = "ended" => row'[t] = ending_row(t) + 1
    <3>1. CASE UpdateRow(t)
      BY <1>1, <3>1 DEF UpdateRow
    <3>2. CASE EndThread(t)
      BY <3>2, Team DEF EndThread, TypeOK
    <3> QED BY <3>1, <3>2 DEF ThreadStep
  <2> QED BY <1>4, <1>5, <2>1 DEF TeamInv
<1>7. \A u \in Threads : u < joined' \/ u >= created' => pc'[u] = "ended" /\ equilibrated'[u]
  <2>1. ~ (t < joined \/ t >= created)
    BY <1>2, Team DEF TypeOK
  <2> QED BY <1>4, <1>5, <2>1 DEF TeamInv
<1> QED BY <1>1, <1>2, <1>3, <1>5, <1>6, <1>7 DEF TeamInv

LEMMA MatrixStep ==
  ASSUME TypeOK, MatrixInv, Next
  PROVE  MatrixInv'
<1> USE DEF matrixVars, vars
<1>1. CASE UNCHANGED matrixVars
  BY <1>1 DEF MatrixInv
<1>2. CASE StartState
  BY <1>2 DEF MatrixInv, StartState
<1>3. ASSUME NEW t \in Threads, UpdateRow(t) PROVE MatrixInv'
  <2>1. UNCHANGED <<matrix, auxiliary_matrix>>
    BY <1>3 DEF UpdateRow
  <2>2. \A b \in Buffers, s \in Rows, c \in Cols :
          s \notin InnerRows \/ c \notin InnerCols => buffer'[b][s][c] = buffer[b][s][c]
    BY <1>3, RowUpdated
  <2> QED BY <2>1, <2>2 DEF MatrixInv, Buffers
<1> QED BY <1>1, <1>2, <1>3
        DEF Next, MainStep, ThreadStep, Finished, CreateThread, CreateFails,
            AllCreated, JoinThread, AllJoined, ReturnError, StoreResult, EndThread

-----------------------------------------------------------------------------
(* The state in preparation *)

\* The verdict of a thread is compared with the rows it wrote only.
LEMMA SameRows ==
  ASSUME NEW t \in Threads, Written(t)' = Written(t), UNCHANGED matrixVars
  PROVE  Unchanged(t)' <=> Unchanged(t)
BY DEF Unchanged, matrixVars

LEMMA StateMainStep ==
  ASSUME TypeOK, TeamInv, StateInv, MainStep
  PROVE  StateInv'
<1> USE DEF matrixVars, threadVars
<1>1. CASE StartState
  <2>1. \A t \in Threads : equilibrated'[t]
    BY <1>1, Team DEF StartState, TeamInv, TypeOK
  <2>2. \A t \in Threads : Written(t)' = {}
    BY <1>1, Team DEF StartState, Written
  <2>3. \A t \in Threads : Unchanged(t)'
    BY <2>2 DEF Unchanged
  <2> QED BY <1>1, <2>1, <2>2, <2>3 DEF StartState, StateInv
<1>2. CASE CreateThread
  <2>1. created \in Threads /\ UNCHANGED <<joined, main, reached_equilibrium, matrixVars,
                                           equilibrated>>
    BY <1>2, Team DEF CreateThread, Threads, TypeOK
  <2>2. PICK n \in Threads : n = created
    BY <2>1
  <2>3. Written(n)' = {} /\ Written(n) = {}
    <3>1. row'[n] = starting_row(n) /\ ~ (n < created)
      BY <1>2, <2>2 DEF CreateThread, TypeOK
    <3>2. \A r \in RowsOf(n) : ~ (r < starting_row(n))
      BY Team DEF RowsOf
    <3> QED BY <3>1, <3>2 DEF Written
  <2>4. \A t \in Threads : Written(t)' = Written(t)
    <3> TAKE t \in Threads
    <3>1. CASE t = n
      BY <2>3, <3>1
    <3>2. CASE t # n
      <4>1. row'[t] = row[t] /\ (t < created' <=> t < created)
        BY <1>2, <2>2, <3>2, Team DEF CreateThread, TypeOK
      <4> QED BY <4>1 DEF Written
    <3> QED BY <3>1, <3>2
  <2>5. \A t \in Threads : Unchanged(t)' <=> Unchanged(t)
    BY <2>1, <2>4, SameRows
  <2> QED BY <2>1, <2>4, <2>5 DEF StateInv
<1>3. CASE CreateFails
  BY <1>3 DEF CreateFails, StateInv
<1>4. CASE AllCreated
  <2>1. joined = 0 /\ joined' = joined
    BY <1>4 DEF AllCreated, TeamInv
  <2>2. \A t \in Threads : Written(t)' = Written(t)
    BY <1>4 DEF AllCreated, Written
  <2>3. \A t \in Threads : Unchanged(t)' <=> Unchanged(t)
    BY <1>4, <2>2, SameRows DEF AllCreated
  <2>4. \A t \in Threads : ~ (t < joined')
    BY <2>1, Team
  <2> QED BY <1>4, <2>1, <2>2, <2>3, <2>4 DEF AllCreated, StateInv
<1>5. CASE JoinThread
  <2>1. joined \in Threads /\ main' = main
    BY <1>5, Team DEF JoinThread, Threads, TypeOK
  <2>2. \A t \in Threads : Written(t)' = Written(t)
    BY <1>5 DEF JoinThread, Written
  <2>3. \A t \in Threads : Unchanged(t)' <=> Unchanged(t)
    BY <1>5, <2>2, SameRows DEF JoinThread
  <2>4. SUFFICES ASSUME main = "join_threads" PROVE StateInv'
    BY <1>5, <2>1 DEF JoinThread, StateInv
  <2>5. reached_equilibrium' <=> reached_equilibrium /\ equilibrated[joined]
    BY <1>5, <2>4 DEF JoinThread
  <2>6. reached_equilibrium' <=> \A t \in Threads : t < joined' => Unchanged(t)'
    <3>1. \A t \in Threads : t < joined' <=> t < joined \/ t = joined
      BY <1>5, Team DEF JoinThread, TypeOK
    <3>2. equilibrated[joined] <=> Unchanged(joined)
      BY <2>1, <2>4, Team DEF StateInv
    <3>3. reached_equilibrium <=> \A t \in Threads : t < joined => Unchanged(t)
      BY <2>4 DEF StateInv
    <3> QED BY <2>1, <2>3, <2>5, <3>1, <3>2, <3>3
  <2>7. ASSUME NEW t \in Threads, t >= joined'
        PROVE  equilibrated'[t] <=> Unchanged(t)'
    <3>1. t >= joined /\ t # joined
      BY <1>5, <2>7, Team DEF JoinThread, TypeOK
    <3>2. equilibrated'[t] = equilibrated[t]
      BY <1>5, <3>1 DEF JoinThread, TypeOK
    <3> QED BY <2>3, <2>4, <3>1, <3>2 DEF StateInv
  <2> QED BY <1>5, <2>1, <2>2, <2>4, <2>6, <2>7 DEF JoinThread, StateInv
<1>6. CASE AllJoined
  BY <1>6 DEF AllJoined, StateInv
<1>7. CASE ReturnError
  BY <1>7 DEF ReturnError, StateInv
<1>8. CASE StoreResult
  BY <1>8 DEF StoreResult, StateInv
<1> QED BY <1>1, <1>2, <1>3, <1>4, <1>5, <1>6, <1>7, <1>8 DEF MainStep

\* A thread adds the row it updates to the rows written and to its verdict.
LEMMA StateUpdateRow ==
  ASSUME TypeOK, TeamInv, MatrixInv, StateInv, NEW t \in Threads, UpdateRow(t)
  PROVE  StateInv'
<1> DEFINE aux == buffer[auxiliary_matrix]
           old == buffer[matrix]
           new == buffer'[matrix]
<1>1. PICK r0 \in RowsOf(t) : r0 = row[t] /\ r0 \in Rows /\ r0 \in Nat
  BY RowUpdated DEF TypeOK
<1>2. /\ UNCHANGED <<mainVars, matrix, auxiliary_matrix, pc>>
      /\ equilibrated' = [equilibrated EXCEPT ![t] = @ /\ ~ RowChanged(aux, new, r0)]
      /\ row' = [row EXCEPT ![t] = r0 + 1]
      /\ equilibrated \in [Threads -> BOOLEAN] /\ row \in [Threads -> Nat]
  BY <1>1 DEF UpdateRow, TypeOK
<1>3. /\ buffer'[auxiliary_matrix] = aux
      /\ \A r \in Rows \ {r0} : new[r] = old[r]
      /\ \A c \in InnerCols : new[r0][c] = UpdateCell(aux, r0, c)
  BY <1>1, RowUpdated
<1>4. joined <= t /\ t < created
  BY TeamThreadStep DEF ThreadStep
<1>5. Written(t)' = Written(t) \cup {r0} /\ r0 \notin Written(t)
  <2>1. row'[t] = r0 + 1 /\ created' = created
    BY <1>2 DEF mainVars
  <2>2. \A r \in RowsOf(t) : r < r0 + 1 <=> r < r0 \/ r = r0
    BY <1>1, Team DEF RowsOf
  <2>3. ~ (r0 < r0)
    BY <1>1
  <2> QED BY <1>1, <1>4, <2>1, <2>2, <2>3 DEF Written
<1>6. \A u \in Threads \ {t} : Written(u)' = Written(u) /\ r0 \notin Written(u)
  <2>1. \A u \in Threads \ {t} : row'[u] = row[u] /\ created' = created
    BY <1>2 DEF mainVars
  <2>2. \A u \in Threads \ {t} : r0 \notin RowsOf(u)
    BY <1>1, Team
  <2> QED BY <2>1, <2>2 DEF Written
<1>7. \A u \in Threads : \A r \in Written(u) :
        /\ r \in Rows \ {r0}
        /\ new[r] = old[r]
        /\ RowChanged(aux, new, r) <=> RowChanged(aux, old, r)
  <2>1. \A u \in Threads : \A r \in Written(u) : r \in Rows
    BY Team, PlateAssumption DEF Written, InnerRows, Rows
  <2>2. \A u \in Threads : \A r \in Written(u) : r \in Rows \ {r0} /\ new[r] = old[r]
    BY <1>3, <1>5, <1>6, <2>1
  <2> HIDE DEF aux, old, new
  <2> QED BY <2>2 DEF RowChanged
<1>8. buffer'[matrix'] = new /\ buffer'[auxiliary_matrix'] = aux
  BY <1>2, <1>3
<1>9. \A u \in Threads \ {t} : Unchanged(u)' <=> Unchanged(u)
  <2>1. ASSUME NEW u \in Threads \ {t}
        PROVE  /\ Unchanged(u) <=> \A r \in Written(u) : ~ RowChanged(aux, old, r)
               /\ Unchanged(u)' <=> \A r \in Written(u) : ~ RowChanged(aux, new, r)
    BY <1>6, <1>8 DEF Unchanged
  <2> HIDE DEF aux, old, new
  <2> QED BY <1>7, <2>1
<1>10. Unchanged(t)' <=> Unchanged(t) /\ ~ RowChanged(aux, new, r0)
  <2>1. /\ Unchanged(t) <=> \A r \in Written(t) : ~ RowChanged(aux, old, r)
        /\ Unchanged(t)' <=> \A r \in Written(t) \cup {r0} : ~ RowChanged(aux, new, r)
    BY <1>5, <1>8 DEF Unchanged
  <2> HIDE DEF aux, old, new
  <2> QED BY <1>7, <2>1
<1>11. SUFFICES ASSUME main \in {"create_threads", "join_threads"}
                PROVE  StateInv'
  BY <1>2 DEF mainVars, StateInv
<1>12. \A u \in Threads : \A r \in Written(u)' : \A c \in InnerCols :
         buffer'[matrix'][r][c] = UpdateCell(buffer'[auxiliary_matrix'], r, c)
  <2>1. \A u \in Threads : \A r \in Written(u) : \A c \in InnerCols :
          old[r][c] = UpdateCell(aux, r, c)
    BY <1>11 DEF StateInv
  <2>2. \A u \in Threads : \A r \in Written(u)' : r \in Written(u) \/ r = r0
    BY <1>5, <1>6
  <2> HIDE DEF aux, old, new
  <2> QED BY <1>3, <1>7, <1>8, <2>1, <2>2
<1>13. ASSUME NEW u \in Threads, u >= joined
       PROVE  equilibrated'[u] <=> Unchanged(u)'
  <2>1. equilibrated[u] <=> Unchanged(u)
    BY <1>11, <1>13 DEF StateInv
  <2>2. CASE u = t
    <3>1. equilibrated'[t] <=> equilibrated[t] /\ ~ RowChanged(aux, new, r0)
      BY <1>2
    <3> QED BY <1>10, <2>1, <2>2, <3>1
  <2>3. CASE u # t
    <3>1. equilibrated'[u] = equilibrated[u]
      BY <1>2, <2>3
    <3> QED BY <1>9, <2>1, <2>3, <3>1
  <2> QED BY <2>2, <2>3
<1>14. ASSUME main = "join_threads"
       PROVE  reached_equilibrium <=> \A u \in Threads : u < joined => Unchanged(u)'
  <2>1. ~ (t < joined)
    BY <1>4, Team DEF TypeOK
  <2>2. reached_equilibrium <=> \A u \in Threads : u < joined => Unchanged(u)
    BY <1>14 DEF StateInv
  <2> QED BY <1>9, <2>1, <2>2
<1>15. UNCHANGED <<main, joined, reached_equilibrium>>
  BY <1>2 DEF mainVars
<1> HIDE DEF aux, old, new
<1> QED BY <1>11, <1>12, <1>13, <1>14, <1>15 DEF StateInv

LEMMA StateThreadStep ==
  ASSUME TypeOK, TeamInv, MatrixInv, StateInv, NEW t \in Threads, ThreadStep(t)
  PROVE  StateInv'
<1>1. CASE UpdateRow(t)
  BY <1>1, StateUpdateRow
<1>2. CASE EndThread(t)
  <2>1. UNCHANGED <<mainVars, matrixVars, equilibrated, row>>
    BY <1>2 DEF EndThread
  <2>2. \A u \in Threads : Written(u)' = Written(u)
    BY <2>1 DEF Written, mainVars
  <2>3. \A u \in Threads : Unchanged(u)' <=> Unchanged(u)
    BY <2>1, <2>2, SameRows
  <2> QED BY <2>1, <2>2, <2>3 DEF StateInv, mainVars, matrixVars
<1> QED BY <1>1, <1>2 DEF ThreadStep

-----------------------------------------------------------------------------
(* The inductive invariant *)

LEMMA IInvInit == Init => IInv
<1> SUFFICES ASSUME Init PROVE IInv
  OBVIOUS
<1>1. TeamInv
  BY Team DEF Init, TeamInv
<1>2. MatrixInv
  <2>1. PICK plate \in InitialPlates :
          buffer = [b \in Buffers |-> IF b = "first" THEN plate
                                                     ELSE InitAuxiliary(plate)]
    BY DEF Init
  <2>2. buffer["first"] = plate /\ buffer["second"] = InitAuxiliary(plate)
    BY <2>1 DEF Buffers
  <2>3. \A r \in Rows, c \in Cols : r \notin InnerRows \/ c \notin InnerCols =>
          InitAuxiliary(plate)[r][c] = plate[r][c]
    BY DEF InitAuxiliary
  <2> QED BY <2>2, <2>3 DEF Init, MatrixInv
<1>3. StateInv
  BY DEF Init, StateInv
<1> QED BY <1>1, <1>2, <1>3, InitType DEF IInv

LEMMA IInvStep == IInv /\ [Next]_vars => IInv'
<1> SUFFICES ASSUME IInv, [Next]_vars PROVE IInv'
  OBVIOUS
<1>1. CASE UNCHANGED vars
  <2>1. UNCHANGED <<main, created, joined, k_states, reached_equilibrium, plate_k,
                    buffer, matrix, auxiliary_matrix, equilibrated, row, pc>>
    BY <1>1 DEF vars, mainVars, matrixVars, threadVars
  <2>2. \A t \in Threads : Written(t)' = Written(t)
    BY <2>1 DEF Written
  <2>3. \A t \in Threads : Unchanged(t)' <=> Unchanged(t)
    BY <2>1, <2>2 DEF Unchanged
  <2> QED BY <2>1, <2>2, <2>3 DEF IInv, TypeOK, TeamInv, MatrixInv, StateInv
<1>2. CASE MainStep
  BY <1>2, MainType, TeamMainStep, MatrixStep, StateMainStep DEF IInv, Next
<1>3. ASSUME NEW t \in Threads, ThreadStep(t) PROVE IInv'
  BY <1>3, ThreadType, TeamThreadStep, MatrixStep, StateThreadStep DEF IInv, Next
<1> QED BY <1>1, <1>2, <1>3 DEF Next, Finished

\* The inductive invariant: who may run, that the two matrices agree on the
\* border, and what the rows written and the verdicts stand for while a team
\* works (plate.c and threads.c of homeworks/pthread).
THEOREM Invariance == Spec => []IInv
  BY IInvInit, IInvStep, PTL DEF Spec

\* Every variable stays in its range.
THEOREM TypeCorrect == Spec => []TypeOK
<1>1. IInv => TypeOK
  BY DEF IInv
<1> QED BY <1>1, Invariance, PTL

\* No thread of a team outlives the state it computes, nor the call, even when
\* some thread of it could not be created.
THEOREM TeamEndsWithItsState == Spec => []NoThreadBetweenStates
<1>1. IInv => NoThreadBetweenStates
  <2> SUFFICES ASSUME IInv, main \in {"while", "returned", "failed"}, NEW t \in Threads
               PROVE  pc[t] = "ended" /\ equilibrated[t]
    BY DEF NoThreadBetweenStates
  <2>1. t < joined \/ t >= created
    BY Team DEF IInv, TypeOK, TeamInv
  <2> QED BY <2>1 DEF IInv, TeamInv
<1> QED BY <1>1, Invariance, PTL

\* No two threads write the same row, whatever the numbers of rows and threads.
THEOREM RowsHaveOneWriter == Spec => []OneWriterPerRow
<1>1. IInv => OneWriterPerRow
  <2> SUFFICES ASSUME IInv, NEW t \in Threads, pc[t] = "rows", row[t] <= ending_row(t)
               PROVE  /\ row[t] \in InnerRows
                      /\ \A u \in Threads \ {t} :
                           pc[u] = "rows" /\ row[u] <= ending_row(u) => row[u] # row[t]
    BY DEF OneWriterPerRow
  <2>1. \A u \in Threads : row[u] <= ending_row(u) => row[u] \in RowsOf(u)
    BY Team DEF IInv, TypeOK, RowsOf
  <2> QED BY <2>1, Team
<1> QED BY <1>1, Invariance, PTL

-----------------------------------------------------------------------------
(* The teams implement the serial loop *)

\* The abstract operators are those of PlateMatrix.
LEMMA SameOperators ==
  /\ \A plate : Abstract!NextPlate(plate) = NextPlate(plate)
  /\ \A old, new : Abstract!Balanced(old, new) <=> Balanced(old, new)
<1>1. \A plate : Abstract!NextPlate(plate) = NextPlate(plate)
  BY DEF Abstract!NextPlate, Abstract!UpdatedRow, Abstract!UpdateCell,
         Abstract!Rows, Abstract!Cols, Abstract!InnerRows, Abstract!InnerCols,
         NextPlate, UpdatedRow, UpdateCell, Rows, Cols, InnerRows, InnerCols
<1>2. \A old, new : Abstract!Balanced(old, new) <=> Balanced(old, new)
  BY DEF Abstract!Balanced, Abstract!RowChanged, Abstract!InnerRows,
         Abstract!InnerCols, Balanced, RowChanged, InnerRows, InnerCols
<1> QED BY <1>1, <1>2

\* When the whole team is joined the matrix just written is the next state of
\* the plate, and the verdict collected from the threads is that of the state.
LEMMA WholeState ==
  ASSUME IInv, main = "join_threads", joined = created
  PROVE  /\ buffer[matrix] = NextPlate(buffer[auxiliary_matrix])
         /\ reached_equilibrium <=> Balanced(buffer[auxiliary_matrix], buffer[matrix])
<1> DEFINE old == buffer[auxiliary_matrix]
           new == buffer[matrix]
<1>1. \A t \in Threads : t < joined /\ t < created /\ row[t] = ending_row(t) + 1
  BY Team DEF IInv, TypeOK, TeamInv
<1>2. \A t \in Threads : Written(t) = RowsOf(t)
  BY <1>1, Team DEF Written, RowsOf
<1>3. old \in PlateType /\ new \in PlateType /\ matrix \in Buffers
        /\ auxiliary_matrix \in Buffers
  BY DEF IInv, TypeOK
<1>4. \A r \in InnerRows : \A c \in InnerCols : new[r][c] = UpdateCell(old, r, c)
  BY <1>2, Team DEF IInv, StateInv
<1>5. \A r \in Rows, c \in Cols :
        r \notin InnerRows \/ c \notin InnerCols => new[r][c] = old[r][c]
  BY <1>3 DEF IInv, MatrixInv, Buffers
<1>6. reached_equilibrium <=>
        \A t \in Threads : \A r \in RowsOf(t) : ~ RowChanged(old, new, r)
  BY <1>1, <1>2 DEF IInv, StateInv, Unchanged
<1> HIDE DEF old, new
<1>7. new = NextPlate(old)
  BY <1>3, <1>4, <1>5, AllRowsWritten
<1>8. reached_equilibrium <=> Balanced(old, new)
  BY <1>6, Team DEF Balanced
<1> QED BY <1>7, <1>8 DEF old, new

LEMMA ImplementationInit == Init => Abstract!Init
<1> SUFFICES ASSUME Init PROVE Abstract!Init
  OBVIOUS
<1>1. PICK plate \in InitialPlates :
        buffer = [b \in Buffers |-> IF b = "first" THEN plate
                                                   ELSE InitAuxiliary(plate)]
  BY DEF Init
<1>2. CurrentPlate = plate
  BY <1>1 DEF Init, CurrentPlate, Buffers
<1>3. k_states = 0 /\ VerdictReached = FALSE
  BY DEF Init, VerdictReached
<1> QED BY <1>2, <1>3 DEF Abstract!Init

\* The step that ends the joining of a team is the step of the serial loop.
LEMMA AllJoinedIsUpdatePlate ==
  ASSUME IInv, AllJoined
  PROVE  Abstract!update_plate
<1>1. main = "join_threads" /\ joined = created /\ main' = "while"
  BY DEF AllJoined
<1>2. CurrentPlate = buffer[auxiliary_matrix] /\ CurrentPlate' = buffer[matrix]
  BY <1>1 DEF CurrentPlate, AllJoined, matrixVars
<1>3. ~ VerdictReached /\ k_states' = k_states + 1
  BY <1>1 DEF VerdictReached, AllJoined
<1>4. CurrentPlate' = NextPlate(CurrentPlate)
  BY <1>1, <1>2, WholeState
<1>5. VerdictReached' = Balanced(CurrentPlate, CurrentPlate')
  <2>1. VerdictReached' <=> reached_equilibrium
    BY <1>1 DEF VerdictReached, AllJoined
  <2>2. VerdictReached' <=> Balanced(CurrentPlate, CurrentPlate')
    BY <1>1, <1>2, <2>1, WholeState
  <2> QED BY <2>2 DEF VerdictReached, Balanced
<1> QED BY <1>3, <1>4, <1>5, SameOperators DEF Abstract!update_plate

\* The other steps of the main thread are not seen from the serial loop.
LEMMA OtherMainSteps ==
  ASSUME IInv, MainStep, ~ AllJoined
  PROVE  UNCHANGED <<CurrentPlate, k_states, VerdictReached>>
<1> USE DEF matrixVars, threadVars, CurrentPlate, VerdictReached
<1>1. CASE StartState
  BY <1>1 DEF StartState
<1>2. CASE CreateThread
  BY <1>2 DEF CreateThread
<1>3. CASE CreateFails
  BY <1>3 DEF CreateFails
<1>4. CASE AllCreated
  BY <1>4 DEF AllCreated
<1>5. CASE JoinThread
  BY <1>5 DEF JoinThread
<1>6. CASE ReturnError
  BY <1>6 DEF ReturnError
<1>7. CASE StoreResult
  BY <1>7 DEF StoreResult
<1> QED BY <1>1, <1>2, <1>3, <1>4, <1>5, <1>6, <1>7 DEF MainStep

\* Nor are those of the threads: they write the matrix that is not current.
LEMMA ThreadSteps ==
  ASSUME IInv, NEW t \in Threads, ThreadStep(t)
  PROVE  UNCHANGED <<CurrentPlate, k_states, VerdictReached>>
<1>1. main \in {"create_threads", "join_threads", "join_created"}
  BY TeamThreadStep DEF IInv
<1>2. UNCHANGED <<main, k_states, reached_equilibrium, auxiliary_matrix>>
  BY DEF ThreadStep, UpdateRow, EndThread, mainVars, matrixVars
<1>3. buffer'[auxiliary_matrix] = buffer[auxiliary_matrix]
  <2>1. CASE UpdateRow(t)
    BY <2>1, RowUpdated DEF IInv
  <2>2. CASE EndThread(t)
    BY <2>2 DEF EndThread, matrixVars
  <2> QED BY <2>1, <2>2 DEF ThreadStep
<1> QED BY <1>1, <1>2, <1>3 DEF CurrentPlate, VerdictReached

\* The plates the teams go through, their number and the state they stop at are
\* those of the serial program, for any number of threads and any arithmetic
\* (job.c and plate.c of the two homeworks).
THEOREM Implementation == Spec => ImplementsEquilibrium
<1>1. IInv /\ [Next]_vars => [Abstract!Next]_(Abstract!vars)
  <2> SUFFICES ASSUME IInv, [Next]_vars
               PROVE  Abstract!Next \/ UNCHANGED Abstract!vars
    OBVIOUS
  <2>1. CASE UNCHANGED vars
    BY <2>1 DEF vars, mainVars, matrixVars, Abstract!vars, CurrentPlate,
                VerdictReached
  <2>2. CASE AllJoined
    BY <2>2, AllJoinedIsUpdatePlate DEF Abstract!Next
  <2>3. CASE MainStep /\ ~ AllJoined
    BY <2>3, OtherMainSteps DEF Abstract!vars
  <2>4. ASSUME NEW t \in Threads, ThreadStep(t)
        PROVE  UNCHANGED Abstract!vars
    BY <2>4, ThreadSteps DEF Abstract!vars
  <2> QED BY <2>1, <2>2, <2>3, <2>4 DEF Next, Finished
<1> QED BY <1>1, ImplementationInit, Invariance, PTL
        DEF Spec, Abstract!Spec, ImplementsEquilibrium
=============================================================================
