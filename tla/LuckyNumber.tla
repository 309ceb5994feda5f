----------------------------- MODULE LuckyNumber -----------------------------
(***************************************************************************)
(* mpi_lucky_number_reduce and mpi_lucky_number_who: each process draws a  *)
(* number; the minimum, maximum and sum come from three collective calls,  *)
(* reduce (to process 0) or allReduce (to everyone) of Mpi.hpp.            *)
(*                                                                         *)
(* A collective call is entered and left in two steps.  Nobody leaves      *)
(* allReduce, nor process 0 reduce, before all have entered it; the others *)
(* may leave reduce at once.                                               *)
(***************************************************************************)
EXTENDS Integers, FiniteSets

CONSTANTS
  LuckyVersions,         (* "reduce" and "who"                             *)
  LuckyCount,            (* processes                                      *)
  LuckyNumbers           (* what UniformRandom draws from                  *)

LuckyAssumption ==
  /\ LuckyCount \in Nat \ {0} /\ LuckyNumbers \subseteq Nat

LuckyRank == 0 .. LuckyCount - 1
Calls == 1 .. 3          (* the minimum, the maximum and the sum           *)

VARIABLES
  lucky_version,
  my_lucky_number,       (* -1 until it is drawn                           *)
  entered, left,         (* collective calls entered and left              *)
  all_stats,             (* all_min, all_max and all_sum of each process   *)
  said                   (* what each process prints in the end            *)

luckyVars == <<lucky_version, my_lucky_number, entered, left, all_stats, said>>

Init ==
  /\ lucky_version = "none"
  /\ my_lucky_number = [r \in LuckyRank |-> -1]
  /\ entered = [r \in LuckyRank |-> 0] /\ left = [r \in LuckyRank |-> 0]
  /\ all_stats = [r \in LuckyRank |-> [k \in Calls |-> -1]]
  /\ said = [r \in LuckyRank |-> {}]

\* mpiexec starts the processes, and each one draws its number.
Launch ==
  /\ lucky_version = "none" /\ lucky_version' \in LuckyVersions
  /\ my_lucky_number' \in [LuckyRank -> LuckyNumbers]
  /\ UNCHANGED <<entered, left, all_stats, said>>

-----------------------------------------------------------------------------

Enter(r) ==
  /\ lucky_version # "none" /\ entered[r] = left[r] /\ entered[r] < 3
  /\ entered' = [entered EXCEPT ![r] = @ + 1]
  /\ UNCHANGED <<lucky_version, my_lucky_number, left, all_stats, said>>

Sum(numbers) ==
  LET sum[r \in 0 .. LuckyCount] == IF r = 0 THEN 0 ELSE sum[r - 1] + numbers[r - 1]
  IN sum[LuckyCount]

\* MPI_MIN, MPI_MAX and MPI_SUM over the processes.
Reduction(k) ==
  LET drawn == {my_lucky_number[r] : r \in LuckyRank}
  IN CASE k = 1 -> CHOOSE n \in drawn : \A m \in drawn : n <= m
       [] k = 2 -> CHOOSE n \in drawn : \A m \in drawn : n >= m
       [] k = 3 -> Sum(my_lucky_number)

Leave(r) ==
  LET to_me == lucky_version = "who" \/ r = 0
  IN
  /\ entered[r] = left[r] + 1
  /\ to_me => \A q \in LuckyRank : entered[q] >= entered[r]
  /\ left' = [left EXCEPT ![r] = @ + 1]
  /\ all_stats' = [all_stats EXCEPT ![r][entered[r]] = IF to_me THEN Reduction(entered[r]) ELSE @]
  /\ UNCHANGED <<lucky_version, my_lucky_number, entered, said>>

\* The sum is compared instead of the average, all_sum / mpi.size().
Report(r) ==
  LET mine == my_lucky_number[r]
      stats == all_stats[r]
  IN
  /\ left[r] = 3 /\ said[r] = {}
  /\ said' = [said EXCEPT ![r] =
       IF lucky_version = "reduce" THEN IF r = 0 THEN {"statistics"} ELSE {"number"}
       ELSE (IF mine = stats[1] THEN {"minimum"} ELSE {})
            \cup {IF mine * LuckyCount < stats[3] THEN "less"
                  ELSE IF mine * LuckyCount > stats[3] THEN "greater" ELSE "equal"}
            \cup (IF mine = stats[2] THEN {"maximum"} ELSE {})]
  /\ UNCHANGED <<lucky_version, my_lucky_number, entered, left, all_stats>>

LuckyStep(r) == Enter(r) \/ Leave(r) \/ Report(r)

AllSaid == \A r \in LuckyRank : said[r] # {}

Next == Launch \/ (\E r \in LuckyRank : LuckyStep(r)) \/ (AllSaid /\ UNCHANGED luckyVars)

Spec == Init /\ [][Next]_luckyVars

-----------------------------------------------------------------------------
(* Properties *)

\* In "who", what a process says of itself is true among all of them: someone is the
\* minimum and someone the maximum, and unless all drew the same number some are
\* below the average and some above.  Nobody is at the same time below the average
\* and the maximum.
TrueOfMyself ==
  LET say(what) == {r \in LuckyRank : what \in said[r]}
      same == \A r, q \in LuckyRank : my_lucky_number[r] = my_lucky_number[q]
  IN /\ \A r \in say("minimum"), q \in LuckyRank : my_lucky_number[r] <= my_lucky_number[q]
     /\ \A r \in say("maximum"), q \in LuckyRank : my_lucky_number[r] >= my_lucky_number[q]
     /\ say("less") \cap say("maximum") = {} /\ say("greater") \cap say("minimum") = {}
     /\ lucky_version = "who" /\ AllSaid =>
          /\ say("minimum") # {} /\ say("maximum") # {}
          /\ IF same THEN say("equal") = LuckyRank ELSE say("less") # {} /\ say("greater") # {}

\* The results of a call are the same wherever they arrive, and of the three calls of
\* one program; in "reduce" only process 0 has them.
SameStatistics ==
  /\ \A r, q \in LuckyRank : \A k \in Calls :
       /\ all_stats[r][k] # -1 => k <= left[r] /\ all_stats[q][k] \in {all_stats[r][k], -1}
       /\ lucky_version = "reduce" /\ r # 0 => all_stats[r][k] = -1
  /\ AllSaid => all_stats[0][1] <= all_stats[0][2] /\ all_stats[0][3] <= LuckyCount * all_stats[0][2]

=============================================================================
