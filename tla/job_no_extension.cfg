\* A plate file whose name has no extension.
SPECIFICATION JobSpec
CONSTANTS
  StartingCapacity = 2
  MaxPlates = 2
  MayFail <- NoExtension
  Versions <- AllVersions
INVARIANT
  DocumentedError
