SPECIFICATION FairSpec
CONSTANTS
  Sessions = {s1, s2}
  NoSession = NoSession
  MaxCancels = 1
  MaxFaults = 1
INVARIANT TypeOK
INVARIANT TurnsExclude
INVARIANT NoStrandedLease
INVARIANT ExitsAreClean
PROPERTY LossEndsTheTurn
CHECK_DEADLOCK FALSE
