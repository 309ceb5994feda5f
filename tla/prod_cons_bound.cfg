\* A buffer of three places filled three times.
SPECIFICATION FairSpec
CONSTANTS
  buffer_capacity = 3
  rounds = 3
  CreateMayFail = {"producer"}
INVARIANTS
  NeverSamePlace
  ConsumedInOrder
PROPERTIES
  AllConsumed
