--------------------------- MODULE WorkExercises ---------------------------
(***************************************************************************)
(* The exercises whose threads or processes share work out, or hand it to  *)
(* each other: units, messages, indexes, lines and dishes.  Exercises has  *)
(* the programs that run; this module has the state of these.              *)
(***************************************************************************)
EXTENDS Integers

CONSTANTS
  unit_count, producer_count, consumer_count, CallocMayFail, UnitCreationMayFail,
  MpiPrograms, ProcessCounts, MaxBall,
  DistrVersions, Workers, Ranges, OmpThreads,
  OmpPrograms, RegionThreads, iteration_count,
  WasherCounts, DishCounts

VARIABLES
  unit_main, created_units, missing, unit_pc, my_unit, next_unit, consumed_count, queue,
  units_to_consume, consuming, lost,
  mpi_program, process_count, rank_place, last_received, channel, output,
  distr_version, workers, given, input, distr_place, overall, range_channel,
  process_range, threads_done, executed, thread_range,
  omp_program, construct, arrived, chunk, remaining, printed, main_greeted,
  dish_main, washer_count, dish_count, dishwashers, dish_joined, dish_stack,
  washer, dish, times_washed, unwashed

Units    == INSTANCE UnboundBuffer WITH can_consume <- units_to_consume
Messages == INSTANCE MpiMessages WITH value <- last_received
Distr    == INSTANCE HybridDistribution
Stages   == INSTANCE OmpStages
Dishes   == INSTANCE DishStack

ASSUME WorkAssumption ==
  /\ Units!ArgumentsAssumption /\ Messages!MpiAssumption /\ Distr!DistrAssumption
  /\ Stages!OmpAssumption /\ Dishes!DishAssumption

unitVars    == <<unit_main, created_units, missing, unit_pc, my_unit, next_unit,
                 consumed_count, queue, units_to_consume, consuming, lost>>
messageVars == <<mpi_program, process_count, rank_place, last_received, channel, output>>
distrVars   == <<distr_version, workers, given, input, distr_place, overall,
                 range_channel, process_range, threads_done, executed, thread_range>>
stagesVars  == <<omp_program, construct, arrived, chunk, remaining, printed,
                 main_greeted>>
dishVars    == <<dish_main, washer_count, dish_count, dishwashers, dish_joined,
                 dish_stack, washer, dish, times_washed, unwashed>>
=============================================================================
