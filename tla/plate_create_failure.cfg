\* Two threads; creating the second one may fail.
SPECIFICATION FairSpec
CONSTANTS
  RowCount = 4
  ColCount = 3
  Temperatures <- MCTemperatures
  Zero = 0
  InitialPlates <- MCPlates
  Diffuse <- MCDiffuse
  Exceeds <- MCExceeds
  RequestedThreads = 4
  CreateMayFail = {1}
PROPERTY
  CreateFailureReturns
CHECK_DEADLOCK FALSE
