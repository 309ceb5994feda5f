\* One process; fewer, as many and more workers than plates.
SPECIFICATION FairSpec
CONSTANTS
  ProcessCounts = {1, 3, 4}
  JobSizes = {2, 3, 4}
  StatesOf <- MCStatesOf
  IntRange = 10
INVARIANTS
  EachPlateOnce
  OwnStates
  ReportIsComplete
  NothingInTransit
PROPERTIES
  JobFinishes
