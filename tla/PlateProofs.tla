---------------------------- MODULE PlateProofs ----------------------------
(***************************************************************************)
(* What the proofs about the versions of the heat simulation share: the    *)
(* effect of updating a row, when a matrix holds the next state, and the   *)
(* two ways of splitting the inner rows among threads, for every number of *)
(* rows and of threads.                                                    *)
(***************************************************************************)
EXTENDS PlateMatrix, StaticMap, BlockMap, TLAPS

(* The plate *)

\* A row that was just updated holds temperatures.
LEMMA UpdatedRowType ==
  ASSUME NEW current \in PlateType, NEW target \in PlateType, NEW r \in InnerRows
  PROVE  UpdatedRow(current, target, r) \in [Cols -> Temperatures]
<1>1. SUFFICES ASSUME NEW c \in Cols
               PROVE  (IF c \in InnerCols THEN UpdateCell(current, r, c)
                                          ELSE target[r][c]) \in Temperatures
  BY DEF UpdatedRow
<1>2. r \in Rows /\ r - 1 \in Rows /\ r + 1 \in Rows
  BY PlateAssumption DEF Rows, InnerRows
<1>3. target[r][c] \in Temperatures
  BY <1>2 DEF PlateType
<1>4. CASE c \in InnerCols
  <2>1. c \in Cols /\ c - 1 \in Cols /\ c + 1 \in Cols
    BY <1>4, PlateAssumption DEF Cols, InnerCols
  <2>2. /\ current[r][c] \in Temperatures
        /\ current[r - 1][c] \in Temperatures /\ current[r + 1][c] \in Temperatures
        /\ current[r][c - 1] \in Temperatures /\ current[r][c + 1] \in Temperatures
    BY <1>2, <2>1 DEF PlateType
  <2>3. UpdateCell(current, r, c) \in Temperatures
    BY <2>2, PlateAssumption DEF UpdateCell
  <2> QED BY <1>4, <2>3
<1>5. CASE c \notin InnerCols
  BY <1>3, <1>5
<1> QED BY <1>4, <1>5

\* A plate that was just read, and its auxiliary matrix, are plates.
LEMMA InitialBuffersType ==
  ASSUME NEW plate \in InitialPlates
  PROVE  /\ plate \in PlateType
         /\ InitAuxiliary(plate) \in PlateType
<1>1. plate \in PlateType
  BY PlateAssumption
<1>2. InitAuxiliary(plate) \in PlateType
  BY <1>1, PlateAssumption DEF InitAuxiliary, PlateType
<1> QED BY <1>1, <1>2

\* What writing one row of a matrix changes and what it leaves alone.
LEMMA RowWritten ==
  ASSUME NEW current \in PlateType, NEW target \in PlateType, NEW r \in InnerRows,
         NEW new, new[r] = UpdatedRow(current, target, r),
         \A s \in Rows \ {r} : new[s] = target[s]
  PROVE  /\ \A s \in Rows : new[s] \in [Cols -> Temperatures]
         /\ \A c \in InnerCols : new[r][c] = UpdateCell(current, r, c)
         /\ \A s \in Rows, c \in Cols :
              s \notin InnerRows \/ c \notin InnerCols => new[s][c] = target[s][c]
<1> DEFINE updated == UpdatedRow(current, target, r)
<1>1. updated \in [Cols -> Temperatures]
  BY UpdatedRowType
<1>2. /\ \A c \in InnerCols : c \in Cols /\ updated[c] = UpdateCell(current, r, c)
      /\ \A c \in Cols : c \notin InnerCols => updated[c] = target[r][c]
  BY PlateAssumption DEF UpdatedRow, InnerCols, Cols
<1> HIDE DEF updated
<1>3. new[r] = updated
  BY DEF updated
<1>4. ASSUME NEW s \in Rows PROVE new[s] \in [Cols -> Temperatures]
  BY <1>1, <1>3 DEF PlateType
<1>5. ASSUME NEW s \in Rows, NEW c \in Cols, s \notin InnerRows \/ c \notin InnerCols
      PROVE  new[s][c] = target[s][c]
  BY <1>2, <1>3, <1>5
<1> QED BY <1>2, <1>3, <1>4, <1>5

\* A matrix all of whose inner cells were updated from another, with the same
\* border, holds the next state of the plate.
LEMMA AllRowsWritten ==
  ASSUME NEW old \in PlateType, NEW new \in PlateType,
         \A r \in InnerRows : \A c \in InnerCols : new[r][c] = UpdateCell(old, r, c),
         \A r \in Rows, c \in Cols :
           r \notin InnerRows \/ c \notin InnerCols => new[r][c] = old[r][c]
  PROVE  new = NextPlate(old)
<1>1. ASSUME NEW r \in Rows PROVE new[r] = NextPlate(old)[r]
  <2>1. /\ new[r] = [c \in Cols |-> new[r][c]]
        /\ old[r] = [c \in Cols |-> old[r][c]]
    BY DEF PlateType
  <2>2. CASE r \in InnerRows
    <3>1. NextPlate(old)[r] = UpdatedRow(old, old, r)
      BY <2>2 DEF NextPlate
    <3>2. \A c \in Cols : new[r][c] = IF c \in InnerCols THEN UpdateCell(old, r, c)
                                                         ELSE old[r][c]
      BY <2>2
    <3> QED BY <2>1, <3>1, <3>2 DEF UpdatedRow
  <2>3. CASE r \notin InnerRows
    <3>1. NextPlate(old)[r] = old[r]
      BY <2>3 DEF NextPlate
    <3>2. \A c \in Cols : new[r][c] = old[r][c]
      BY <2>3
    <3> QED BY <2>1, <3>1, <3>2
  <2> QED BY <2>2, <2>3
<1>2. /\ new = [r \in Rows |-> new[r]]
      /\ NextPlate(old) = [r \in Rows |-> NextPlate(old)[r]]
  BY DEF PlateType, NextPlate
<1> QED BY <1>1, <1>2

-----------------------------------------------------------------------------
(* The static map by blocks of StaticMap *)


\* The size of the team is at least one and at most the number of rows.
LEMMA TeamSizeRange ==
  ASSUME NEW requested \in Nat \ {0}, NEW rows \in Nat \ {0}
  PROVE  TeamSize(requested, rows) \in 1 .. rows
BY DEF TeamSize

\* Quotient and residue of the division of the rows among the threads.
LEMMA Division ==
  ASSUME NEW rows \in Nat \ {0}, NEW team \in 1 .. rows
  PROVE  /\ rows \div team \in Nat /\ rows \div team >= 1
         /\ rows % team \in 0 .. team - 1
         /\ rows = team * (rows \div team) + (rows % team)
<1> DEFINE q == rows \div team
           m == rows % team
<1>1. q \in Int /\ m \in 0 .. team - 1
  OBVIOUS
<1>2. rows = team * q + m
  OBVIOUS
<1>3. q >= 1
  <2>1. SUFFICES ASSUME q <= 0 PROVE FALSE
    BY <1>1
  <2>2. team * q <= 0
    BY <1>1, <2>1
  <2> QED BY <1>1, <1>2, <2>2
<1> QED BY <1>1, <1>2, <1>3

\* threads.h, get_finish_row: each block has rows \div team rows, and the
\* first rows % team blocks have one more; the next block starts where this
\* one finishes.
THEOREM BlocksAreBalanced ==
  ASSUME NEW rows \in Nat \ {0}, NEW team \in 1 .. rows, NEW t \in 0 .. team - 1
  PROVE  /\ FinishRow(t, rows, team) = StartingRow(t + 1, rows, team)
         /\ FinishRow(t, rows, team) - StartingRow(t, rows, team)
              = (rows \div team) + (IF t < rows % team THEN 1 ELSE 0)
<1> DEFINE q == rows \div team
           m == rows % team
<1>1. q \in Nat /\ m \in 0 .. team - 1
  BY Division
<1>2. (t + 1) * q = t * q + q
  BY <1>1
<1>3. t * q \in Nat
  BY <1>1
<1> HIDE DEF q, m
<1>4. /\ get_finish_row(t + 1, rows, team)
           = t * q + q + (IF t + 1 < m THEN t + 1 ELSE m)
      /\ get_finish_row(t, rows, team) = t * q + (IF t < m THEN t ELSE m)
  BY <1>2 DEF get_finish_row, q, m
<1>5. (IF t + 1 < m THEN t + 1 ELSE m) - (IF t < m THEN t ELSE m)
        = IF t < m THEN 1 ELSE 0
  BY <1>1
<1>6. FinishRow(t, rows, team) - StartingRow(t, rows, team)
        = q + (IF t < m THEN 1 ELSE 0)
  BY <1>1, <1>3, <1>4, <1>5 DEF FinishRow, StartingRow
<1> QED BY <1>6 DEF FinishRow, StartingRow, q, m

\* Products with a common factor, for the provers of the lemmas below.
LEMMA ProductOrder ==
  ASSUME NEW i \in Nat, NEW j \in Nat, NEW n \in Nat, i <= j
  PROVE  i * n <= j * n
<1>1. (j - i) * n >= 0
  OBVIOUS
<1>2. (j - i) * n = j * n - i * n
  OBVIOUS
<1> QED BY <1>1, <1>2

\* The first block starts at the first inner row, the last one finishes after
\* the last inner row, and the limits of the blocks are in order.
LEMMA BlockLimits ==
  ASSUME NEW rows \in Nat \ {0}, NEW team \in 1 .. rows
  PROVE  /\ get_finish_row(0, rows, team) = 0
         /\ get_finish_row(team, rows, team) = rows
         /\ \A i, j \in 0 .. team : i <= j =>
              /\ get_finish_row(i, rows, team) \in Nat
              /\ get_finish_row(i, rows, team) <= get_finish_row(j, rows, team)
<1> DEFINE q == rows \div team
           m == rows % team
<1>1. q \in Nat /\ m \in 0 .. team - 1 /\ rows = team * q + m
  BY Division
<1> HIDE DEF q, m
<1>2. \A i : get_finish_row(i, rows, team) = i * q + (IF i < m THEN i ELSE m)
  BY DEF get_finish_row, q, m
<1>3. get_finish_row(0, rows, team) = 0
  BY <1>1, <1>2
<1>4. get_finish_row(team, rows, team) = rows
  BY <1>1, <1>2
<1>5. ASSUME NEW i \in 0 .. team, NEW j \in 0 .. team, i <= j
      PROVE  /\ get_finish_row(i, rows, team) \in Nat
             /\ get_finish_row(i, rows, team) <= get_finish_row(j, rows, team)
  <2>1. i * q \in Nat /\ j * q \in Nat /\ i * q <= j * q
    BY <1>1, <1>5, ProductOrder
  <2> QED BY <1>1, <1>2, <1>5, <2>1
<1> QED BY <1>3, <1>4, <1>5

\* No row is given to two threads.
THEOREM BlocksAreDisjoint ==
  ASSUME NEW rows \in Nat \ {0}, NEW team \in 1 .. rows,
         NEW t \in 0 .. team - 1, NEW u \in 0 .. team - 1, t # u,
         NEW r \in StartingRow(t, rows, team) .. FinishRow(t, rows, team) - 1
  PROVE  r \notin StartingRow(u, rows, team) .. FinishRow(u, rows, team) - 1
<1> DEFINE g(i) == get_finish_row(i, rows, team)
<1>1. \A i, j \in 0 .. team : i <= j => g(i) \in Nat /\ g(i) <= g(j)
  BY BlockLimits
<1>2. r \in g(t) + 1 .. g(t + 1)
  BY <1>1 DEF StartingRow, FinishRow
<1>3. /\ t \in 0 .. team /\ t + 1 \in 0 .. team
      /\ u \in 0 .. team /\ u + 1 \in 0 .. team
  OBVIOUS
<1> HIDE DEF g
<1>4. r \notin g(u) + 1 .. g(u + 1)
  <2>1. CASE t < u
    <3>1. g(t + 1) \in Nat /\ g(t + 1) <= g(u)
      BY <1>1, <1>3, <2>1
    <3> QED BY <1>1, <1>2, <1>3, <3>1
  <2>2. CASE u < t
    <3>1. g(u + 1) \in Nat /\ g(u + 1) <= g(t)
      BY <1>1, <1>3, <2>2
    <3> QED BY <1>1, <1>2, <1>3, <3>1
  <2> QED BY <2>1, <2>2
<1>5. StartingRow(u, rows, team) = g(u) + 1 /\ FinishRow(u, rows, team) = g(u + 1) + 1
  BY DEF StartingRow, FinishRow, g
<1>6. g(u) \in Nat /\ g(u + 1) \in Nat
  BY <1>1, <1>3
<1> QED BY <1>4, <1>5, <1>6

\* Every block is inside the inner rows 1 .. rows.
THEOREM BlocksAreInside ==
  ASSUME NEW rows \in Nat \ {0}, NEW team \in 1 .. rows, NEW t \in 0 .. team - 1
  PROVE  /\ StartingRow(t, rows, team) \in 1 .. rows
         /\ FinishRow(t, rows, team) \in 2 .. rows + 1
         /\ StartingRow(t, rows, team) < FinishRow(t, rows, team)
<1> DEFINE g(i) == get_finish_row(i, rows, team)
<1>1. /\ g(team) = rows
      /\ \A i, j \in 0 .. team : i <= j => g(i) \in Nat /\ g(i) <= g(j)
  BY BlockLimits
<1>2. FinishRow(t, rows, team) - StartingRow(t, rows, team) >= 1
  <2>1. FinishRow(t, rows, team) - StartingRow(t, rows, team)
          = (rows \div team) + (IF t < rows % team THEN 1 ELSE 0)
    BY BlocksAreBalanced
  <2>2. rows \div team \in Nat /\ rows \div team >= 1
    BY Division
  <2> QED BY <2>1, <2>2
<1>3. StartingRow(t, rows, team) = g(t) + 1 /\ FinishRow(t, rows, team) = g(t + 1) + 1
  BY DEF StartingRow, FinishRow
<1> HIDE DEF g
<1>4. g(t) \in Nat /\ g(t + 1) \in Nat /\ g(t + 1) <= rows
  BY <1>1
<1> QED BY <1>2, <1>3, <1>4

\* Every inner row is given to some thread: the witness is the thread whose
\* block the row falls in, among the larger blocks or among the others.
THEOREM BlocksCoverTheRows ==
  ASSUME NEW rows \in Nat \ {0}, NEW team \in 1 .. rows, NEW r \in 1 .. rows
  PROVE  \E t \in 0 .. team - 1 :
           r \in StartingRow(t, rows, team) .. FinishRow(t, rows, team) - 1
<1> DEFINE q == rows \div team
           m == rows % team
           x == r - 1
<1>1. q \in Nat /\ q >= 1 /\ m \in 0 .. team - 1 /\ rows = team * q + m
  BY Division
<1> HIDE DEF q, m
<1>2. \A i \in Nat : /\ StartingRow(i, rows, team)
                          = i * q + (IF i < m THEN i ELSE m) + 1
                     /\ FinishRow(i, rows, team)
                          = (i + 1) * q + (IF i + 1 < m THEN i + 1 ELSE m) + 1
  BY DEF get_finish_row, StartingRow, FinishRow, q, m
<1>3. m * (q + 1) \in Nat
  BY <1>1
<1>4. CASE x < m * (q + 1)
  <2> DEFINE t == x \div (q + 1)
  <2>1. t \in Nat /\ t * (q + 1) <= x /\ x < t * (q + 1) + (q + 1)
    BY <1>1
  <2> HIDE DEF t
  <2>2. t < m
    <3>1. SUFFICES ASSUME m <= t PROVE FALSE
      BY <1>1, <2>1
    <3>2. m * (q + 1) <= t * (q + 1)
      BY <1>1, <2>1, <3>1, ProductOrder
    <3> QED BY <1>1, <1>3, <1>4, <2>1, <3>2
  <2>3. t * (q + 1) = t * q + t /\ (t + 1) * q = t * q + q /\ t * q \in Nat
    BY <1>1, <2>1
  <2>4. /\ StartingRow(t, rows, team) = t * q + t + 1
        /\ FinishRow(t, rows, team) = t * q + q + t + 1 + 1
    <3>1. /\ StartingRow(t, rows, team) = t * q + (IF t < m THEN t ELSE m) + 1
          /\ FinishRow(t, rows, team)
               = (t + 1) * q + (IF t + 1 < m THEN t + 1 ELSE m) + 1
      BY <1>2, <2>1
    <3>2. (IF t < m THEN t ELSE m) = t /\ (IF t + 1 < m THEN t + 1 ELSE m) = t + 1
      BY <1>1, <2>1, <2>2
    <3> QED BY <1>1, <2>1, <2>3, <3>1, <3>2
  <2>5. r \in StartingRow(t, rows, team) .. FinishRow(t, rows, team) - 1
    BY <1>1, <2>1, <2>3, <2>4
  <2> QED BY <1>1, <2>1, <2>2, <2>5
<1>5. CASE x >= m * (q + 1)
  <2> DEFINE y == x - m * (q + 1)
             d == y \div q
             t == m + d
  <2>1. y \in Nat /\ m * (q + 1) = m * q + m /\ m * q \in Nat
    BY <1>1, <1>3, <1>5
  <2>2. d \in Nat /\ d * q <= y /\ y < d * q + q
    <3> HIDE DEF y
    <3> QED BY <1>1, <2>1
  <2> HIDE DEF d
  <2>3. d < team - m
    <3>1. SUFFICES ASSUME team - m <= d PROVE FALSE
      BY <1>1, <2>2
    <3>2. (team - m) * q <= d * q
      BY <1>1, <2>2, <3>1, ProductOrder
    <3>3. (team - m) * q = team * q - m * q
      BY <1>1
    <3>4. y < team * q - m * q
      BY <1>1, <2>1
    <3>5. d * q \in Nat /\ team * q \in Nat
      BY <1>1, <2>2
    <3> HIDE DEF y
    <3> QED BY <2>1, <2>2, <3>2, <3>3, <3>4, <3>5
  <2>4. t * q = m * q + d * q /\ (t + 1) * q = m * q + d * q + q /\ d * q \in Nat
    BY <1>1, <2>2
  <2>5. /\ StartingRow(t, rows, team) = m * q + d * q + m + 1
        /\ FinishRow(t, rows, team) = m * q + d * q + q + m + 1
    <3>1. t \in Nat
      BY <1>1, <2>2
    <3>2. /\ StartingRow(t, rows, team) = t * q + (IF t < m THEN t ELSE m) + 1
          /\ FinishRow(t, rows, team)
               = (t + 1) * q + (IF t + 1 < m THEN t + 1 ELSE m) + 1
      BY <1>2, <3>1
    <3>3. (IF t < m THEN t ELSE m) = m /\ (IF t + 1 < m THEN t + 1 ELSE m) = m
      BY <1>1, <2>2
    <3> QED BY <2>4, <3>2, <3>3
  <2>6. r \in StartingRow(t, rows, team) .. FinishRow(t, rows, team) - 1
    BY <1>1, <2>1, <2>2, <2>4, <2>5
  <2> QED BY <1>1, <2>2, <2>3, <2>6
<1> QED BY <1>1, <1>3, <1>4, <1>5

-----------------------------------------------------------------------------
(* The blocks of BlockMap *)

\* threads.c, get_intervals: as many whole blocks as there are threads fit in
\* the inner rows, also when there is one row for each.
LEMMA Intervals ==
  ASSUME NEW rows \in Nat \ {0}, NEW team \in 1 .. rows
  PROVE  /\ get_intervals(rows, team) \in Nat \ {0}
         /\ team * get_intervals(rows, team) <= rows
<1>1. CASE team < rows
  <2>1. rows \div team \in Nat /\ rows \div team >= 1
    BY Division
  <2>2. team * (rows \div team) <= rows
    BY Division, <2>1
  <2> QED BY <1>1, <2>1, <2>2 DEF get_intervals
<1>2. CASE team = rows
  BY <1>2 DEF get_intervals
<1> QED BY <1>1, <1>2

\* Where a block of the fork-join version starts and ends, in terms of the
\* length of a block: what the provers need of the products.
LEMMA BlockLimitsInOrder ==
  ASSUME NEW rows \in Nat \ {0}, NEW team \in 1 .. rows,
         NEW t \in 0 .. team - 1
  PROVE  /\ BlockStart(t, rows, team) \in 1 .. rows
         /\ BlockEnd(t, rows, team) \in 1 .. rows
         /\ BlockStart(t, rows, team) <= BlockEnd(t, rows, team)
         /\ \A u \in 0 .. team - 1 :
              t < u => BlockEnd(t, rows, team) < BlockStart(u, rows, team)
<1> DEFINE n == get_intervals(rows, team)
<1>1. n \in Nat \ {0} /\ team * n <= rows
  BY Intervals
<1> HIDE DEF n
<1>2. /\ \A u : BlockStart(u, rows, team) = u * n + 1
      /\ BlockEnd(t, rows, team) = IF t = team - 1 THEN rows ELSE (t + 1) * n
  BY DEF BlockStart, BlockEnd, n
<1>3. t * n \in Nat /\ (t + 1) * n = t * n + n /\ (t + 1) * n <= team * n
  <2>1. (t + 1) * n <= team * n
    BY <1>1, ProductOrder
  <2> QED BY <1>1, <2>1
<1>4. ASSUME NEW u \in 0 .. team - 1, t < u
      PROVE  BlockEnd(t, rows, team) < BlockStart(u, rows, team)
  <2>1. (t + 1) * n <= u * n /\ u * n \in Nat
    BY <1>1, <1>4, ProductOrder
  <2>2. t # team - 1
    BY <1>4
  <2>3. BlockEnd(t, rows, team) = (t + 1) * n /\ BlockStart(u, rows, team) = u * n + 1
    BY <1>2, <2>2
  <2> QED BY <1>1, <1>3, <2>1, <2>3
<1>5. t * n + n <= rows /\ team * n \in Nat
  BY <1>1, <1>3
<1> QED BY <1>1, <1>2, <1>3, <1>4, <1>5

\* threads.c, init_private_data: no row is in the blocks of two threads.
THEOREM BlockMapDisjoint ==
  ASSUME NEW rows \in Nat \ {0}, NEW team \in 1 .. rows,
         NEW t \in 0 .. team - 1, NEW u \in 0 .. team - 1, t # u,
         NEW r \in BlockStart(t, rows, team) .. BlockEnd(t, rows, team)
  PROVE  r \notin BlockStart(u, rows, team) .. BlockEnd(u, rows, team)
<1>1. \A i \in 0 .. team - 1 :
        BlockStart(i, rows, team) \in Nat /\ BlockEnd(i, rows, team) \in Nat
  <2> TAKE i \in 0 .. team - 1
  <2>1. BlockStart(i, rows, team) \in 1 .. rows /\ BlockEnd(i, rows, team) \in 1 .. rows
    BY BlockLimitsInOrder
  <2> QED BY <2>1
<1>2. CASE t < u
  <2>1. BlockEnd(t, rows, team) < BlockStart(u, rows, team)
    BY <1>2, BlockLimitsInOrder
  <2> QED BY <1>1, <2>1
<1>3. CASE u < t
  <2>1. BlockEnd(u, rows, team) < BlockStart(t, rows, team)
    BY <1>3, BlockLimitsInOrder
  <2> QED BY <1>1, <2>1
<1> QED BY <1>2, <1>3

\* Every inner row is in the block of some thread; those that the division
\* leaves over are in the last one's.
THEOREM BlockMapCovers ==
  ASSUME NEW rows \in Nat \ {0}, NEW team \in 1 .. rows, NEW r \in 1 .. rows
  PROVE  \E t \in 0 .. team - 1 :
           r \in BlockStart(t, rows, team) .. BlockEnd(t, rows, team)
<1> DEFINE n == get_intervals(rows, team)
           d == (r - 1) \div n
<1>1. n \in Nat \ {0} /\ team * n <= rows
  BY Intervals
<1>2. \A u : /\ BlockStart(u, rows, team) = u * n + 1
             /\ BlockEnd(u, rows, team) = IF u = team - 1 THEN rows ELSE (u + 1) * n
  BY DEF BlockStart, BlockEnd, n
<1> HIDE DEF n
<1>3. d \in Nat /\ d * n <= r - 1 /\ r - 1 < d * n + n
  BY <1>1
<1> HIDE DEF d
<1>4. CASE d < team - 1
  <2>1. (d + 1) * n = d * n + n /\ d * n \in Nat
    BY <1>1, <1>3
  <2>2. BlockStart(d, rows, team) = d * n + 1 /\ BlockEnd(d, rows, team) = (d + 1) * n
    BY <1>2, <1>3, <1>4
  <2> QED BY <1>1, <1>3, <1>4, <2>1, <2>2
<1>5. CASE d >= team - 1
  <2>1. (team - 1) * n <= d * n /\ (team - 1) * n \in Nat /\ d * n \in Nat
    BY <1>1, <1>3, <1>5, ProductOrder
  <2>2. /\ BlockStart(team - 1, rows, team) = (team - 1) * n + 1
        /\ BlockEnd(team - 1, rows, team) = rows
    BY <1>2
  <2>3. (team - 1) * n + 1 <= r
    BY <1>3, <2>1
  <2>4. r \in BlockStart(team - 1, rows, team) .. BlockEnd(team - 1, rows, team)
    BY <2>1, <2>2, <2>3
  <2>5. team - 1 \in 0 .. team - 1
    OBVIOUS
  <2> QED BY <2>4, <2>5
<1> QED BY <1>1, <1>3, <1>4, <1>5
=============================================================================
