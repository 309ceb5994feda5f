------------------------------ MODULE OmpStats ------------------------------
(***************************************************************************)
(* omp_stats: statistics of a list of numbers of the type named in the     *)
(* input.  The sum of an integer type is kept in that type and wraps       *)
(* around; the squares of the standard deviation are added by a team with  *)
(* a reduction; the median sorts the values in place.                      *)
(*                                                                         *)
(* Fractions are compared without dividing: the squares are those of       *)
(* count * (value - average), and the median is doubled.                   *)
(***************************************************************************)
EXTENDS Integers, Sequences, FiniteSets, TLC

CONSTANTS
  StatsTypes,            (* among "short", "ushort", "uint" and "double"   *)
  Width,                 (* bits of an integer type                        *)
  MaxCount,              (* longest list                                   *)
  Numbers,               (* what is read, if the type can hold it          *)
  StatsThreads

StatsAssumption == Width \in Nat \ {0} /\ StatsThreads \in Nat \ {0} /\ Numbers \subseteq Int

VARIABLES
  stats_type, values,
  stats_place,           (* the statistic computed next                    *)
  result,                (* the statistics computed                        *)
  reduced                (* threads whose sum of squares was added         *)

statsVars == <<stats_type, values, stats_place, result, reduced>>

StatsTeam == 0 .. StatsThreads - 1

Representable(type) ==
  CASE type = "short" -> -(2 ^ (Width - 1)) .. 2 ^ (Width - 1) - 1
    [] type \in {"ushort", "uint"} -> 0 .. 2 ^ Width - 1
    [] OTHER -> Numbers

\* The value of the type that a wider sum is converted to.
Wrap(n) ==
  CASE stats_type = "short" -> ((n + 2 ^ (Width - 1)) % 2 ^ Width) - 2 ^ (Width - 1)
    [] stats_type \in {"ushort", "uint"} -> n % 2 ^ Width
    [] OTHER -> n

Init ==
  /\ stats_type = "none" /\ values = <<>> /\ stats_place = "read"
  /\ result = [minimum |-> 0, maximum |-> 0, sum |-> 0, squares |-> 0, median |-> 0]
  /\ reduced = {}

\* Nothing is printed for an empty list.
ReadValues ==
  /\ stats_place = "read" /\ stats_type' \in StatsTypes
  /\ \E n \in 0 .. MaxCount : values' \in [1 .. n -> Numbers \cap Representable(stats_type')]
  /\ stats_place' = IF values' = <<>> THEN "done" ELSE "minimum"
  /\ UNCHANGED <<result, reduced>>

-----------------------------------------------------------------------------

Set(statistic, value, next) ==
  /\ stats_place = statistic /\ stats_place' = next
  /\ result' = [result EXCEPT ![statistic] = value]

\* The loops start at max() and min() of numeric_limits.
Minimum ==
  LET least[n \in 0 .. Len(values)] ==
        IF n = 0 THEN CHOOSE m \in Representable(stats_type) :
                        \A k \in Representable(stats_type) : k <= m
        ELSE IF values[n] < least[n - 1] THEN values[n] ELSE least[n - 1]
  IN Set("minimum", least[Len(values)], "maximum") /\ UNCHANGED <<stats_type, values, reduced>>

\* min() of double is the least positive value, which 0 stands for.
Maximum ==
  LET greatest[n \in 0 .. Len(values)] ==
        IF n = 0 THEN IF stats_type = "double" THEN 0
                      ELSE CHOOSE m \in Representable(stats_type) :
                             \A k \in Representable(stats_type) : k >= m
        ELSE IF values[n] > greatest[n - 1] THEN values[n] ELSE greatest[n - 1]
  IN Set("maximum", greatest[Len(values)], "sum") /\ UNCHANGED <<stats_type, values, reduced>>

\* average: the sum in the type of the values, then a division of doubles.
Average ==
  LET sum[n \in 0 .. Len(values)] == IF n = 0 THEN 0 ELSE Wrap(sum[n - 1] + values[n])
  IN /\ Set("sum", sum[Len(values)], IF Len(values) >= 2 THEN "squares" ELSE "median")
     /\ UNCHANGED <<stats_type, values, reduced>>

\* The static schedule of the loop of std_dev.
BlockOf(t) ==
  LET count == Len(values)
      start(u) == u * (count \div StatsThreads)
                  + (IF u < count % StatsThreads THEN u ELSE count % StatsThreads)
  IN start(t) + 1 .. start(t + 1)

\* One thread adds the squares of its block, and its sum to the result of the
\* reduction, in any order; the last one ends the region.
AddSquares(t) ==
  LET square(i) == (Len(values) * values[i] - result.sum) ^ 2
      my_sum[i \in 0 .. Len(values)] ==
        IF i = 0 THEN 0 ELSE my_sum[i - 1] + (IF i \in BlockOf(t) THEN square(i) ELSE 0)
  IN
  /\ stats_place = "squares" /\ t \notin reduced
  /\ reduced' = reduced \cup {t}
  /\ result' = [result EXCEPT !.squares = @ + my_sum[Len(values)]]
  /\ stats_place' = IF reduced' = StatsTeam THEN "median" ELSE "squares"
  /\ UNCHANGED <<stats_type, values>>

\* The sort leaves the values in order.  The two middle values of a "uint" are added
\* as such; those of a shorter type are added as int.
Median ==
  LET half == Len(values) \div 2
      pair == values'[half + 1] + values'[half]
  IN
  /\ values' = SortSeq(values, <)
  /\ Set("median", IF Len(values) % 2 = 1 THEN 2 * values'[half + 1]
                   ELSE IF stats_type = "uint" THEN Wrap(pair) ELSE pair, "done")
  /\ UNCHANGED <<stats_type, reduced>>

StatsStep ==
  \/ ReadValues \/ Minimum \/ Maximum \/ Average
  \/ (\E t \in StatsTeam : AddSquares(t))
  \/ Median

StatsDone == stats_place = "done"

Next == StatsStep \/ (StatsDone /\ UNCHANGED statsVars)

Spec == Init /\ [][Next]_statsVars

-----------------------------------------------------------------------------
(* Properties *)

\* When the statistics are printed they are those of the list, by definition: order
\* statistics, and n times the sum of squares less the square of the sum.  The sum
\* may wrap around on the way, as long as the type can hold the result; what the code
\* gets wrong is named: the maximum of doubles none of which is positive, the average
\* of a sum that the type cannot hold, and the median of two "uint" with such a sum.
StatisticsAreRight ==
  LET count == Len(values)
      total[n \in 0 .. count] == IF n = 0 THEN 0 ELSE total[n - 1] + values[n]
      squares[n \in 0 .. count] == IF n = 0 THEN 0 ELSE squares[n - 1] + values[n] ^ 2
      holds(n) == stats_type = "double" \/ n \in Representable(stats_type)
      Order(k) == CHOOSE v \in {values[i] : i \in 1 .. count} :
                    /\ Cardinality({i \in 1 .. count : values[i] < v}) < k
                    /\ Cardinality({i \in 1 .. count : values[i] <= v}) >= k
      middle == Order((count + 1) \div 2) + Order(count \div 2 + 1)
  IN StatsDone /\ count > 0 =>
       /\ result.minimum = Order(1)
       /\ stats_type # "double" \/ Order(count) > 0 => result.maximum = Order(count)
       /\ holds(total[count]) =>
            /\ result.sum = total[count]
            /\ count >= 2 => result.squares = count * (count * squares[count] - total[count] ^ 2)
       /\ stats_type # "uint" \/ count % 2 = 1 \/ holds(middle) => result.median = middle

=============================================================================
