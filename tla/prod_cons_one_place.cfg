\* The smallest buffer the program accepts.
SPECIFICATION FairSpec
CONSTANTS
  buffer_capacity = 1
  rounds = 2
  CreateMayFail = {}
PROPERTY
  AllConsumed
CHECK_DEADLOCK FALSE
