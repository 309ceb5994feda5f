------------------------------ MODULE OmpStages ------------------------------
(***************************************************************************)
(* Three programs with one parallel region each:                           *)
(*   omp_several_for_stages  three loops shared in chunks of two, with a   *)
(*                           blank line between them (single),             *)
(*   omp_for                 one loop, with the schedule of OMP_SCHEDULE,  *)
(*   omp_team                one greeting per thread, then the main one.   *)
(*                                                                         *)
(* A loop or a single construct ends at an implicit barrier.  A single is  *)
(* here a loop of one iteration, which the first thread takes, and the     *)
(* team's greetings are one in which each thread has its own.              *)
(***************************************************************************)
EXTENDS Integers, Sequences, FiniteSets

CONSTANTS
  OmpPrograms,
  RegionThreads,         (* thread_count                                   *)
  iteration_count

OmpAssumption == RegionThreads \in Nat \ {0} /\ iteration_count \in Nat

VARIABLES
  omp_program,
  construct,             (* the construct each thread is in                *)
  arrived,               (* whether it waits at its end                    *)
  chunk,                 (* the iterations it has taken                    *)
  remaining,             (* the iterations of each construct not yet taken *)
  printed,               (* how many times each line was printed           *)
  main_greeted

stagesVars == <<omp_program, construct, arrived, chunk, remaining, printed, main_greeted>>

RegionTeam == 0 .. RegionThreads - 1

Constructs ==
  CASE omp_program = "omp_several_for_stages" ->
         <<"for dynamic", "single", "for dynamic", "single", "for dynamic">>
    [] omp_program = "omp_for" -> <<"for runtime">>
    [] omp_program = "omp_team" -> <<"greet">>
    [] OTHER -> <<>>

Lines(k) ==
  CASE Constructs[k] = "single" -> {0}
    [] Constructs[k] = "greet" -> RegionTeam
    [] OTHER -> 0 .. iteration_count - 1

Init ==
  /\ omp_program = "none"
  /\ construct = [t \in RegionTeam |-> 1]
  /\ arrived = [t \in RegionTeam |-> FALSE]
  /\ chunk = [t \in RegionTeam |-> {}]
  /\ remaining = <<>> /\ printed = <<>> /\ main_greeted = FALSE

Launch ==
  /\ omp_program = "none" /\ omp_program' \in OmpPrograms
  /\ remaining' = [k \in DOMAIN Constructs' |-> Lines(k)']
  /\ printed' = [k \in DOMAIN Constructs' |-> [i \in Lines(k)' |-> 0]]
  /\ UNCHANGED <<construct, arrived, chunk, main_greeted>>

-----------------------------------------------------------------------------

\* What a thread may take next: with schedule(dynamic, 2) the next two iterations,
\* with a schedule chosen at execution any of them.
NextChunks(t, k) ==
  CASE Constructs[k] = "for dynamic" ->
         IF remaining[k] = {} THEN {}
         ELSE {{i \in remaining[k] : Cardinality({j \in remaining[k] : j < i}) < 2}}
    [] Constructs[k] = "greet" -> {{t} \cap remaining[k]} \ {{}}
    [] OTHER -> {{i} : i \in remaining[k]}

Inside(t) == omp_program # "none" /\ construct[t] <= Len(Constructs) /\ ~arrived[t]

TakeChunk(t) ==
  LET k == construct[t]
  IN
  /\ Inside(t) /\ chunk[t] = {}
  /\ \E next \in NextChunks(t, k) :
       /\ chunk' = [chunk EXCEPT ![t] = next]
       /\ remaining' = [remaining EXCEPT ![k] = @ \ next]
  /\ UNCHANGED <<omp_program, construct, arrived, printed, main_greeted>>

\* One line, in the critical section or the single.
PrintLine(t) ==
  LET i == CHOOSE n \in chunk[t] : \A m \in chunk[t] : n <= m
  IN
  /\ chunk[t] # {}
  /\ chunk' = [chunk EXCEPT ![t] = @ \ {i}]
  /\ printed' = [printed EXCEPT ![construct[t]][i] = @ + 1]
  /\ UNCHANGED <<omp_program, construct, arrived, remaining, main_greeted>>

Arrive(t) ==
  /\ Inside(t) /\ chunk[t] = {} /\ NextChunks(t, construct[t]) = {}
  /\ arrived' = [arrived EXCEPT ![t] = TRUE]
  /\ UNCHANGED <<omp_program, construct, chunk, remaining, printed, main_greeted>>

\* A thread leaves the barrier once the whole team has reached it.
Leave(t) ==
  /\ arrived[t]
  /\ \A u \in RegionTeam : construct[u] > construct[t] \/ (construct[u] = construct[t] /\ arrived[u])
  /\ construct' = [construct EXCEPT ![t] = @ + 1]
  /\ arrived' = [arrived EXCEPT ![t] = FALSE]
  /\ UNCHANGED <<omp_program, chunk, remaining, printed, main_greeted>>

RegionEnded == omp_program # "none" /\ \A t \in RegionTeam : construct[t] > Len(Constructs)

\* "Hello from main thread", after the region of omp_team.
MainGreets ==
  /\ omp_program = "omp_team" /\ RegionEnded /\ ~main_greeted
  /\ main_greeted' = TRUE
  /\ UNCHANGED <<omp_program, construct, arrived, chunk, remaining, printed>>

RegionStep ==
  \/ Launch \/ MainGreets
  \/ \E t \in RegionTeam : TakeChunk(t) \/ PrintLine(t) \/ Arrive(t) \/ Leave(t)

RegionOver == RegionEnded /\ (omp_program = "omp_team" => main_greeted)

Next == RegionStep \/ (RegionOver /\ UNCHANGED stagesVars)

Spec == Init /\ [][Next]_stagesVars

-----------------------------------------------------------------------------
(* Properties *)

\* The lines of a stage are printed after all those of the stages before it and the
\* blank line between them, each once; the main thread greets after the whole team
\* ("the following print will always occur after secondary greets").
StagesDoNotMix ==
  LET complete(k) == \A i \in Lines(k) : printed[k][i] = 1
  IN /\ \A k \in DOMAIN printed : \A i \in Lines(k) :
          /\ printed[k][i] <= 1
          /\ printed[k][i] = 1 => \A before \in 1 .. k - 1 : complete(before)
     /\ main_greeted \/ RegionEnded => \A k \in DOMAIN printed : complete(k)

-----------------------------------------------------------------------------
(* The inductive invariant *)

TypeOK ==
  /\ construct \in [RegionTeam -> 1 .. Len(Constructs) + 1]
  /\ arrived \in [RegionTeam -> BOOLEAN] /\ main_greeted \in BOOLEAN
  /\ chunk \in [RegionTeam -> SUBSET Nat]
  /\ remaining \in [1 .. Len(Constructs) -> SUBSET Nat]
  /\ DOMAIN printed = 1 .. Len(Constructs)
  /\ \A k \in DOMAIN printed : printed[k] \in [Lines(k) -> Nat]

\* Nobody is two constructs ahead, and who is behind waits at the barrier.
BarrierInv ==
  /\ \A t \in RegionTeam : arrived[t] => chunk[t] = {} /\ construct[t] <= Len(Constructs)
  /\ \A t, u \in RegionTeam :
       construct[t] < construct[u] => arrived[t] /\ construct[u] = construct[t] + 1
  /\ main_greeted => RegionEnded

\* A line of a construct is yet to be taken, in the chunk of one thread, or printed.
LinesInv ==
  /\ \A t \in RegionTeam : chunk[t] # {} =>
       /\ construct[t] <= Len(Constructs)
       /\ chunk[t] \subseteq Lines(construct[t]) \ remaining[construct[t]]
  /\ \A t, u \in RegionTeam : construct[t] = construct[u] /\ t # u => chunk[t] \cap chunk[u] = {}
  /\ \A k \in DOMAIN printed : \A i \in Lines(k) :
       printed[k][i] =
         IF i \in remaining[k] \/ (\E t \in RegionTeam : construct[t] = k /\ i \in chunk[t]) THEN 0 ELSE 1

\* Who is at the end of a construct has left no line of it for itself to take, and
\* nobody takes one before it is there.
TakenInv ==
  \A k \in DOMAIN printed :
    /\ remaining[k] \subseteq Lines(k)
    /\ \A t \in RegionTeam : construct[t] > k \/ (construct[t] = k /\ arrived[t]) =>
         IF Constructs[k] = "greet" THEN t \notin remaining[k] ELSE remaining[k] = {}
    /\ remaining[k] # Lines(k) => \E t \in RegionTeam : construct[t] >= k

IInv == TypeOK /\ BarrierInv /\ LinesInv /\ TakenInv

=============================================================================
