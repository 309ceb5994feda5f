\* Three threads for five inner rows (blocks of 2, 2, 1); creating the first
\* thread may fail.
SPECIFICATION FairSpec
CONSTANTS
  RowCount = 7
  ColCount = 4
  Temperatures <- MCTemperatures
  Zero = 0
  InitialPlates <- MCPlates
  Diffuse <- MCDiffuse
  Exceeds <- MCExceeds
  RequestedThreads = 3
  CreateMayFail = {0}
INVARIANTS
  SwapExcludesUpdates
  OneWriterPerRow
  SameVerdict
  NoThreadOutlivesTeam
PROPERTIES
  VerdictFrozen
  ImplementsEquilibrium
  Termination
