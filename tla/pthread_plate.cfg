\* Three threads for seven inner rows (blocks of 2, 2, 3); creating the third
\* thread of a team may fail.
SPECIFICATION FairSpec
CONSTANTS
  RowCount = 9
  ColCount = 3
  Temperatures <- MCTemperatures
  Zero = 0
  InitialPlates <- MCPlates
  Diffuse <- MCDiffuse
  Exceeds <- MCExceeds
  RequestedThreads = 3
  CreateMayFail = {2}
INVARIANTS
  NoThreadBetweenStates
  OneWriterPerRow
PROPERTIES
  ImplementsEquilibrium
  Termination
