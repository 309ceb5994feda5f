\* Three threads and three inner rows under every static schedule.
SPECIFICATION FairSpec
CONSTANTS
  RowCount = 5
  ColCount = 4
  Temperatures <- MCTemperatures
  Zero = 0
  InitialPlates <- MCPlates
  Diffuse <- MCDiffuse
  Exceeds <- MCExceeds
  Threads = {t1, t2, t3}
INVARIANTS
  SingleIsAlone
PROPERTIES
  VerdictHolds
  ImplementsEquilibrium
  Termination
