\* An array of two places for up to five plates; everything may fail.
SPECIFICATION JobSpec
CONSTANTS
  StartingCapacity = 2
  MaxPlates = 5
  MayFail <- Failures
  Versions <- AllVersions
INVARIANTS
  RoomForNextPlate
  ErrorIsReturned
  LeftAtReturn
  SuccessMeansWritten
