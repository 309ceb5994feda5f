----------------------------- MODULE Exercises -----------------------------
(***************************************************************************)
(* The exercises, which share nothing: one of the programs runs, chosen in *)
(* ExercisesInit, and the state of the others stays as it was.             *)
(***************************************************************************)
EXTENDS WorkExercises

CONSTANTS
  thread_count, hit_resistance, TurnCreateMayFail, TeamVersions,
  Hydrogens, Oxygens,
  LuckyVersions, LuckyCount, LuckyNumbers,
  StatsTypes, Width, MaxCount, Numbers, StatsThreads,
  Lists, SortThreads, SmallCount, DeferredCount,
  GreetingPrograms, TeamSizes, LotteryNumbers, AllocationMayFail, CreationMayFail,
  AthleteCounts, Distances, ShotMemoryMayFail, ShotCreationMayFail,
  MaxInput, Growth, RwMayFail,
  WakesSpuriously,
  TeamCapacities, TeamMayFail

VARIABLES
  program,
  version, team_main, created, joined, place, next_thread, can_greet, mutex,
  position, pinata, hits, broke_pinata, announced,
  atom_pc, hydrogen_multiplex, oxygen_multiplex, hydrogen_count, oxygen_count,
  molecule_count,
  added, joined_tasks, stage, waited, posted, ready,
  lucky_version, my_lucky_number, entered, left, all_stats, said,
  stats_type, values, stats_place, result, reduced,
  given_list, list, section,
  greet_program, team_size, greet_main, made, collected, greeter, block,
  private_data, greeting, main_says, exit_error,
  athlete_count, shot_main, next_athlete, live, athlete, best_shots,
  announced_shot, team_scores,
  rw_main, rw_error, typed, rw_count, rw_capacity, rw_joined, role, rw_place,
  counter, my_value, rw_printed,
  mist_created, mist_joined, mist_at, mist_counter, spurious,
  call, usage, team_memory, thread_capacity, team_thread_count, to_add,
  team_joined, ethread, seen_count, call_errors

Order    == INSTANCE TeamOrder WITH main <- team_main,
                                    CreateMayFail <- TurnCreateMayFail
Water    == INSTANCE BuildH2O
Builds   == INSTANCE BuildingTasks
Lucky    == INSTANCE LuckyNumber
Stats    == INSTANCE OmpStats
Sort     == INSTANCE MergeSort
Greets   == INSTANCE GreetingTeams
Shots    == INSTANCE ShotPut
Rw       == INSTANCE ReadersWriters
Misty    == INSTANCE Mist
Ethread  == INSTANCE EthreadTeam

ASSUME ExercisesAssumption ==
  /\ Order!TeamAssumption /\ Water!AtomsAssumption /\ Lucky!LuckyAssumption
  /\ Stats!StatsAssumption /\ Sort!SortAssumption /\ Greets!GreetingAssumption
  /\ Shots!ShotAssumption /\ Rw!RwAssumption /\ Misty!MistAssumption
  /\ Ethread!EthreadAssumption

teamVars    == <<version, team_main, created, joined, place, next_thread, can_greet,
                 mutex, position, pinata, hits, broke_pinata, announced>>
h2oVars     == <<atom_pc, hydrogen_multiplex, oxygen_multiplex, hydrogen_count,
                 oxygen_count, molecule_count>>
taskVars    == <<added, joined_tasks, stage, waited, posted, ready>>
luckyVars   == <<lucky_version, my_lucky_number, entered, left, all_stats, said>>
statsVars   == <<stats_type, values, stats_place, result, reduced>>
sortVars    == <<given_list, list, section>>
greetVars   == <<greet_program, team_size, greet_main, made, collected, greeter,
                 block, private_data, greeting, main_says, exit_error>>
shotVars    == <<athlete_count, shot_main, next_athlete, live, athlete,
                 best_shots, announced_shot, team_scores>>
rwVars      == <<rw_main, rw_error, typed, rw_count, rw_capacity, rw_joined,
                 role, rw_place, counter, my_value, rw_printed>>
mistVars    == <<mist_created, mist_joined, mist_at, mist_counter, spurious>>
ethreadVars == <<call, usage, team_memory, thread_capacity, team_thread_count,
                 to_add, team_joined, ethread, seen_count, call_errors>>

allVars == <<program, teamVars, unitVars, h2oVars, taskVars, messageVars,
             distrVars, luckyVars, statsVars, sortVars, stagesVars, greetVars,
             shotVars, rwVars, mistVars, dishVars, ethreadVars>>

Programs ==
  {"team", "prod_cons_unbound", "build_h2o", "building_tasks", "messages",
   "hybrid_distr", "lucky_number", "omp_stats", "mergesort", "stages", "greetings",
   "team_shot_put", "readers_writers", "mist", "dish_stack", "ethread"}

ExercisesInit ==
  /\ program \in Programs
  /\ Order!Init /\ Units!Init /\ Water!Init /\ Builds!Init
  /\ Messages!Init /\ Distr!Init /\ Lucky!Init /\ Stats!Init /\ Sort!Init
  /\ Stages!Init /\ Greets!Init /\ Shots!Init /\ Rw!Init /\ Misty!Init
  /\ Dishes!Init /\ Ethread!Init
  /\ program # "team" => version = "position_race"

Unless(this, condition) == program = this \/ (program # this /\ condition)

OthersUnchanged ==
  /\ UNCHANGED program
  /\ Unless("team", UNCHANGED teamVars)
  /\ Unless("prod_cons_unbound", UNCHANGED unitVars)
  /\ Unless("build_h2o", UNCHANGED h2oVars)
  /\ Unless("building_tasks", UNCHANGED taskVars)
  /\ Unless("messages", UNCHANGED messageVars)
  /\ Unless("hybrid_distr", UNCHANGED distrVars)
  /\ Unless("lucky_number", UNCHANGED luckyVars)
  /\ Unless("omp_stats", UNCHANGED statsVars)
  /\ Unless("mergesort", UNCHANGED sortVars)
  /\ Unless("stages", UNCHANGED stagesVars)
  /\ Unless("greetings", UNCHANGED greetVars)
  /\ Unless("team_shot_put", UNCHANGED shotVars)
  /\ Unless("readers_writers", UNCHANGED rwVars)
  /\ Unless("mist", UNCHANGED mistVars)
  /\ Unless("dish_stack", UNCHANGED dishVars)
  /\ Unless("ethread", UNCHANGED ethreadVars)

ExercisesNext ==
  /\ \/ program = "team" /\ Order!Next
     \/ program = "prod_cons_unbound" /\ Units!Next
     \/ program = "build_h2o" /\ Water!Next
     \/ program = "building_tasks" /\ Builds!Next
     \/ program = "messages" /\ Messages!Next
     \/ program = "hybrid_distr" /\ Distr!Next
     \/ program = "lucky_number" /\ Lucky!Next
     \/ program = "omp_stats" /\ Stats!Next
     \/ program = "mergesort" /\ Sort!Next
     \/ program = "stages" /\ Stages!Next
     \/ program = "greetings" /\ Greets!Next
     \/ program = "team_shot_put" /\ Shots!Next
     \/ program = "readers_writers" /\ Rw!Next
     \/ program = "mist" /\ Misty!Next
     \/ program = "dish_stack" /\ Dishes!Next
     \/ program = "ethread" /\ Ethread!Next
  /\ OthersUnchanged

ExercisesSpec == ExercisesInit /\ [][ExercisesNext]_allVars

\* A step of a thread or a process of the program: anything but a spurious wake-up and
\* the early return of a send that nobody received yet, which need never come.
RunningStep ==
  /\ \/ /\ program = "team"
        /\ Order!MainStep \/ \E t \in 0 .. thread_count - 1 : Order!ThreadStep(t)
     \/ /\ program = "prod_cons_unbound"
        /\ Units!MainStep \/ \E t \in Units!Threads : Units!ThreadStep(t)
     \/ program = "build_h2o" /\ \E a \in Water!Atoms : Water!AtomStep(a)
     \/ /\ program = "building_tasks"
        /\ Builds!Foreman \/ \E task \in Builds!Task : Builds!Builder(task)
     \/ /\ program = "messages"
        /\ Messages!Launch \/ \E r \in Messages!Rank : Messages!ProcessStep(r)
     \/ /\ program = "hybrid_distr"
        /\ Distr!Launch \/ \E r \in Distr!Process : Distr!ProcessStep(r)
     \/ /\ program = "lucky_number"
        /\ Lucky!Launch \/ \E r \in Lucky!LuckyRank : Lucky!LuckyStep(r)
     \/ program = "omp_stats" /\ Stats!StatsStep
     \/ program = "mergesort" /\ Sort!SortStep
     \/ program = "stages" /\ Stages!RegionStep
     \/ program = "greetings" /\ ~Greets!GreetingEnded /\ Greets!GreetingStep
     \/ program = "team_shot_put" /\ ~Shots!ShotEnded /\ Shots!ShotStep
     \/ program = "readers_writers" /\ ~Rw!RwEnded /\ Rw!RwStep
     \/ program = "mist" /\ Misty!MistStep
     \/ program = "dish_stack" /\ Dishes!DishStep
     \/ program = "ethread" /\ ~Ethread!EthreadEnded /\ Ethread!EthreadStep
  /\ OthersUnchanged

\* As long as some thread can run, the scheduler runs one.
ExercisesFairSpec == ExercisesSpec /\ WF_allVars(RunningStep)

-----------------------------------------------------------------------------
(* Properties, each of the programs that promise something of its kind *)

\* What is printed is in the order the program promises: greetings and positions in
\* the order of the threads (TeamOrder), the values sent from process to process in
\* the order of the ranks, with no message left behind (MpiMessages), the lines of a
\* stage before those of the next (OmpStages), and the values of the shared counter in
\* the order of the accesses (ReadersWriters).
OutputInOrder ==
  /\ program = "team" => Order!AnnouncedInOrder
  /\ program = "messages" => Messages!MessagesInOrder /\ Messages!NoMessageLeft
  /\ program = "stages" => Stages!StagesDoNotMix
  /\ program = "readers_writers" => Rw!ReadersSeeWriters

\* The pinata breaks once, after exactly its resistance in hits (TeamOrder).
OneThreadBreaksIt == Order!OneThreadBreaksIt

\* Every unit is consumed (UnboundBuffer), every index of the range executed by one
\* thread (HybridDistribution), and every dish washed (DishStack), once.
WorkDoneOnce ==
  /\ program = "prod_cons_unbound" => Units!UnitsConsumedOnce
  /\ program = "hybrid_distr" => Distr!IndexesRunOnce /\ Distr!PrintedAsRun
  /\ program = "dish_stack" => Dishes!DishesWashedOnce

\* The device has the atoms of one molecule at a time (BuildH2O), and nobody passes
\* the barrier of mistery() before the others came, unless woken spuriously (Mist).
RendezvousHolds ==
  /\ program = "build_h2o" => Water!OneMoleculeAtATime
  /\ program = "mist" => Misty!PassedTogether

\* No task starts before its dependencies are finished (BuildingTasks).
TasksInOrder == Builds!TasksInOrder

\* The results are those of the data: lucky numbers (LuckyNumber), statistics
\* (OmpStats), the sorted list, whose sections are never in two hands (MergeSort),
\* and the scores of the teams (ShotPut).
ResultsAreRight ==
  /\ program = "lucky_number" => Lucky!TrueOfMyself /\ Lucky!SameStatistics
  /\ program = "omp_stats" => Stats!StatisticsAreRight
  /\ program = "mergesort" => Sort!SectionsDoNotOverlap /\ Sort!ListIsSorted
  /\ program = "team_shot_put" => Shots!ScoresAreTheirs

\* The data of a thread is there while the thread runs, whatever fails, and is its
\* own (GreetingTeams, EthreadTeam, ReadersWriters, TeamOrder's semaphores); but where
\* one of two teams cannot be created, the other one is left without its data
\* (UnboundBuffer).
DataOutlivesThreads ==
  /\ program = "greetings" => Greets!GreetsAsItself
  /\ program = "ethread" => Ethread!TeamOutlivesThreads
  /\ program = "readers_writers" => Rw!RoomForThreads
  /\ program = "prod_cons_unbound" => Units!OnlyTheOtherTeamOutlives
  /\ program = "team" => Order!SemaphoresOutliveTurns

\* Every program ends: the turns, units, messages, posts and wake-ups are enough for
\* everyone who waits, and twice as many hydrogen as oxygen atoms leave none at the
\* barrier.  (A join of a thread that was not created ends it in an undefined way.)
ProgramsEnd ==
  <>(CASE program = "team" -> Order!Ended
       [] program = "prod_cons_unbound" -> Units!Released
       [] program = "build_h2o" -> Water!Joined
       [] program = "building_tasks" -> Builds!Built
       [] program = "messages" -> Messages!MessagesEnd
       [] program = "hybrid_distr" -> Distr!Distributed
       [] program = "lucky_number" -> Lucky!AllSaid
       [] program = "omp_stats" -> Stats!StatsDone
       [] program = "mergesort" -> Sort!Sorted
       [] program = "stages" -> Stages!RegionOver
       [] program = "greetings" -> Greets!GreetingEnded
       [] program = "team_shot_put" -> Shots!ShotEnded
       [] program = "readers_writers" -> Rw!RwEnded
       [] program = "mist" -> Misty!MistOver
       [] program = "dish_stack" -> Dishes!KitchenClosed
       [] program = "ethread" -> Ethread!EthreadEnded)
=============================================================================
