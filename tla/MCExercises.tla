---------------------------- MODULE MCExercises ----------------------------
(***************************************************************************)
(* What the run of Exercises gives to its programs.                        *)
(***************************************************************************)
EXTENDS Exercises

AllTeamVersions ==
  {"hello_order_busywait", "delayed_busy_wait", "hello_order_semaphor",
   "hello_order_cond_safe", "position_race", "birthday_pinata"}

\* What HybridDistribution, OmpStats and MergeSort are given.
SomeRanges  == {<<-5, 5>>, <<0, 2>>, <<5, 1>>}
SomeNumbers == {-4, -1, 0, 3, 7}
SomeLists   == {<<>>, <<2, 1>>, <<3, 1, 2, 2, 1>>, <<5, 1, 4, 2, 4, 3, 0>>}
               \cup [1 .. 4 -> {1, 2}]
=============================================================================
