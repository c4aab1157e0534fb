CONSTANTS
  Runs = {r1, r2}
  NoRun = NoRun
  MaxAttempts = 2
  Cadence = 1
  MaxSource = 2
  MaxEvent = 2
  MaxAuthority = 1
  MaxFaults = 1
  MaxTrouble = 2
SPECIFICATION Spec
SYMMETRY RunSymmetry
INVARIANT TypeOK
INVARIANT FinishedIsTrue
PROPERTY BatchesAreWhole
CHECK_DEADLOCK FALSE
