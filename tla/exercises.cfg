\* Three threads and a pinata of three hits; three units for two producers and two
\* consumers; the atoms of two molecules; ten tasks; up to five processes; the other
\* programs with two or three threads.
SPECIFICATION ExercisesFairSpec
CONSTANTS
  thread_count = 3
  hit_resistance = 3
  TurnCreateMayFail = {2}
  TeamVersions <- AllTeamVersions
  unit_count = 3
  producer_count = 2
  consumer_count = 2
  CallocMayFail = TRUE
  UnitCreationMayFail = {2, 4}
  Hydrogens = {h1, h2, h3, h4}
  Oxygens = {o1, o2}
  MpiPrograms = {"mpi_relay_race", "mpi_ping_pong", "send_recv_urd", "send_recv_ord_itm", "send_recv_ord_sem"}
  ProcessCounts = {1, 2, 3, 5}
  MaxBall = 6
  DistrVersions = {"arg", "stdin", "bcast"}
  Workers = {1, 3}
  Ranges <- SomeRanges
  OmpThreads = 2
  LuckyVersions = {"who", "reduce"}
  LuckyCount = 3
  LuckyNumbers = {1, 4}
  StatsTypes = {"short", "ushort", "uint", "double"}
  Width = 3
  MaxCount = 3
  Numbers <- SomeNumbers
  StatsThreads = 2
  Lists <- SomeLists
  SortThreads = 2
  SmallCount = 1
  DeferredCount = 2
  OmpPrograms = {"omp_several_for_stages", "omp_for", "omp_team"}
  RegionThreads = 3
  iteration_count = 5
  GreetingPrograms = {"hello", "recursive_hello", "grandma_lottery", "hello_w", "hello_iw_pri", "hello_iw_shr"}
  TeamSizes = {0, 3}
  LotteryNumbers = {7, 9}
  AllocationMayFail = TRUE
  CreationMayFail = TRUE
  AthleteCounts = {1, 2}
  Distances = {0, 7}
  ShotMemoryMayFail = TRUE
  ShotCreationMayFail = {1}
  MaxInput = 3
  Growth = 2
  RwMayFail = TRUE
  WakesSpuriously = {0, 2}
  WasherCounts = {0, 3}
  DishCounts = {0, 4}
  TeamCapacities = {1, 3}
  TeamMayFail = TRUE
INVARIANTS
  OutputInOrder
  OneThreadBreaksIt
  WorkDoneOnce
  RendezvousHolds
  TasksInOrder
  ResultsAreRight
  DataOutlivesThreads
PROPERTY
  ProgramsEnd
