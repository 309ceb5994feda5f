------------------------------- MODULE ShotPut -------------------------------
(***************************************************************************)
(* pthreads/team_shot_put: two teams of athletes, a thread each.  Every    *)
(* athlete shoots three times and writes the best shot in a matrix; when   *)
(* all have been joined the rounds are counted.                            *)
(*                                                                         *)
(* The matrices are allocated row by row; a failure releases what was      *)
(* allocated of that matrix.  A failed pthread_create goes unnoticed, and  *)
(* its join is undefined.                                                  *)
(***************************************************************************)
EXTENDS Integers, Sequences, FiniteSets

CONSTANTS
  AthleteCounts,         (* what may be given as argument                  *)
  Distances,             (* of a shot                                      *)
  ShotMemoryMayFail,     (* whether an allocation may fail                 *)
  ShotCreationMayFail    (* the creations that may fail                    *)

ShotAssumption ==
  /\ AthleteCounts \subseteq Nat /\ Distances \subseteq Nat
  /\ ShotMemoryMayFail \in BOOLEAN /\ ShotCreationMayFail \subseteq Nat

team_count == 2
shot_count == 3

\* The allocations, in order.
Memory == <<"best_shots", "shared_data", "thread_ids", "private_data">>

VARIABLES
  athlete_count,
  shot_main,             (* where the main thread is                       *)
  next_athlete,          (* the athlete created or joined next             *)
  live,                  (* the matrices and registers allocated           *)
  athlete,               (* where each athlete is                          *)
  best_shots,
  announced_shot,        (* the best shot that each athlete announces      *)
  team_scores

shotVars == <<athlete_count, shot_main, next_athlete, live, athlete, best_shots,
              announced_shot, team_scores>>

Athletes == (0 .. team_count - 1) \X (0 .. athlete_count - 1)

\* Athletes in the order of the two loops.
Nth(n) == <<n \div athlete_count, n % athlete_count>>

Init ==
  /\ athlete_count = 0 /\ shot_main = "start" /\ next_athlete = 0
  /\ live = {} /\ athlete = <<>> /\ best_shots = <<>> /\ announced_shot = <<>>
  /\ team_scores = <<0, 0>>

\* The number of athletes must be odd.
ReadArguments ==
  /\ shot_main = "start" /\ athlete_count' \in AthleteCounts
  /\ shot_main' = IF athlete_count' % 2 = 1 THEN "allocate" ELSE "returned"
  /\ athlete' = [a \in Athletes' |-> "unborn"]
  /\ best_shots' = [a \in Athletes' |-> 0]
  /\ announced_shot' = [a \in Athletes' |-> -1]
  /\ UNCHANGED <<next_athlete, live, team_scores>>

-----------------------------------------------------------------------------
(* main and compete *)

Remaining == {n \in DOMAIN Memory : Memory[n] \notin live}

Allocate ==
  LET n == CHOOSE first \in Remaining : \A m \in Remaining : first <= m
  IN
  /\ shot_main = "allocate"
  /\ live' = live \cup {Memory[n]}
  /\ shot_main' = IF n = Len(Memory) THEN "create" ELSE "allocate"
  /\ UNCHANGED <<athlete_count, next_athlete, athlete, best_shots, announced_shot, team_scores>>

\* main returns when best_shots or shared_data is not there; compete asks for both its
\* matrices and then asserts that it has them.
AllocationFails ==
  /\ ShotMemoryMayFail /\ shot_main = "allocate"
  /\ shot_main' = IF "shared_data" \in live THEN "aborted" ELSE "returned"
  /\ UNCHANGED <<athlete_count, next_athlete, live, athlete, best_shots, announced_shot, team_scores>>

CreateThread ==
  /\ shot_main = "create" /\ next_athlete < team_count * athlete_count
  /\ next_athlete' = next_athlete + 1
  /\ athlete' \in {[athlete EXCEPT ![Nth(next_athlete)] = "shooting"]}
                  \cup (IF next_athlete \in ShotCreationMayFail THEN {athlete} ELSE {})
  /\ UNCHANGED <<athlete_count, shot_main, live, best_shots, announced_shot, team_scores>>

AllCreated ==
  /\ shot_main = "create" /\ next_athlete = team_count * athlete_count
  /\ shot_main' = "join" /\ next_athlete' = 0
  /\ UNCHANGED <<athlete_count, live, athlete, best_shots, announced_shot, team_scores>>

JoinThread ==
  /\ shot_main = "join" /\ next_athlete < team_count * athlete_count
  /\ CASE athlete[Nth(next_athlete)] = "done" -> next_athlete' = next_athlete + 1 /\ UNCHANGED shot_main
       [] athlete[Nth(next_athlete)] = "unborn" -> shot_main' = "undefined" /\ UNCHANGED next_athlete
       [] OTHER -> FALSE
  /\ UNCHANGED <<athlete_count, live, athlete, best_shots, announced_shot, team_scores>>

\* compete releases its matrices.
AllJoined ==
  /\ shot_main = "join" /\ next_athlete = team_count * athlete_count
  /\ live' = live \ {"thread_ids", "private_data"}
  /\ shot_main' = "print"
  /\ UNCHANGED <<athlete_count, next_athlete, athlete, best_shots, announced_shot, team_scores>>

\* A point for the better shot of each round.
PrintResult ==
  LET rounds(winner, loser) ==
        {a \in 0 .. athlete_count - 1 : best_shots[winner, a] > best_shots[loser, a]}
  IN
  /\ shot_main = "print"
  /\ team_scores' = <<Cardinality(rounds(0, 1)), Cardinality(rounds(1, 0))>>
  /\ live' = {}
  /\ shot_main' = "returned"
  /\ UNCHANGED <<athlete_count, next_athlete, athlete, best_shots, announced_shot>>

-----------------------------------------------------------------------------

\* shot: the greatest distance, announced before it is written; the order of rand()
\* among the threads does not matter.
Shot(a) ==
  /\ athlete[a] = "shooting"
  /\ \E shots \in [1 .. shot_count -> Distances] :
       announced_shot' = [announced_shot EXCEPT ![a] =
         CHOOSE d \in {0} \cup {shots[n] : n \in 1 .. shot_count} :
           \A n \in 1 .. shot_count : d >= shots[n]]
  /\ athlete' = [athlete EXCEPT ![a] = "writing"]
  /\ UNCHANGED <<athlete_count, shot_main, next_athlete, live, best_shots, team_scores>>

WriteShot(a) ==
  /\ athlete[a] = "writing"
  /\ best_shots' = [best_shots EXCEPT ![a] = announced_shot[a]]
  /\ athlete' = [athlete EXCEPT ![a] = "done"]
  /\ UNCHANGED <<athlete_count, shot_main, next_athlete, live, announced_shot, team_scores>>

ShotStep ==
  \/ ReadArguments \/ Allocate \/ AllocationFails
  \/ CreateThread \/ AllCreated \/ JoinThread \/ AllJoined \/ PrintResult
  \/ \E a \in Athletes : Shot(a) \/ WriteShot(a)

ShotEnded == shot_main \in {"returned", "aborted", "undefined"}

Next == (~ShotEnded /\ ShotStep) \/ (ShotEnded /\ UNCHANGED shotVars)

Spec == Init /\ [][Next]_shotVars

-----------------------------------------------------------------------------
(* Properties *)

\* The result counts the shots that the athletes announced, all of them, and each
\* round gives at most one point.  A thread runs only while the matrices it uses are
\* there; best_shots is left allocated if shared_data was not, and nothing else is.
ScoresAreTheirs ==
  LET points(winner, loser) ==
        Cardinality({a \in 0 .. athlete_count - 1 :
                       announced_shot[winner, a] > announced_shot[loser, a]})
  IN /\ shot_main = "returned" /\ athlete # <<>> /\ (\E a \in Athletes : athlete[a] = "done") =>
          /\ \A a \in Athletes : announced_shot[a] \in Distances \cup {0}
          /\ team_scores = <<points(0, 1), points(1, 0)>>
     /\ (\E a \in Athletes : athlete[a] \in {"shooting", "writing"}) =>
          live = {Memory[n] : n \in DOMAIN Memory}
     /\ shot_main = "returned" => live \subseteq {"best_shots"}

=============================================================================
