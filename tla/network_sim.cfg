\* Three packets and two consumers in the five versions.
SPECIFICATION FairSpec
CONSTANTS
  packageCount = 3
  consumerCount = 2
  producerCount = 2
  queueCapacity = 1
  Versions <- AllVersions
INVARIANTS
  StopIsLast
  PacketInOnePlace
  NoPacketLeft
  OneStopGoesRound
PROPERTY
  Termination
