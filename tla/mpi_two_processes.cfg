\* A master and one worker.
SPECIFICATION FairSpec
CONSTANTS
  ProcessCounts = {2}
  JobSizes = {2}
  StatesOf <- MCStatesOf
  IntRange = 10
PROPERTY
  JobFinishes
CHECK_DEADLOCK FALSE
