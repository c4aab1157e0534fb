SPECIFICATION FairSpec
CONSTANTS
  Runs = {r1, r2}
  NoRun = NoRun
  Workers = {w1, w2}
  Clients = {c1}
  Capacity = 2
  Quantum = 1
  MaxAuthority = 1
  MaxFaults = 1
  MaxLate = 1
  MaxConsent = 2
INVARIANT TypeOK
INVARIANT EditionsAreTrue
INVARIANT RunsCanComplete
PROPERTY UseFollowsAuthority
PROPERTY ImplementsPublication
PROPERTY RunsSettle
CHECK_DEADLOCK FALSE
