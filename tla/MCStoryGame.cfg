SPECIFICATION Spec
CONSTANTS
  Workers = {w1, w2}
  MaxGames = 2
  MaxTokens = 4
  MaxAuthority = 1
  MaxFaults = 2
SYMMETRY WorkerSymmetry
INVARIANT TypeOK
INVARIANT OwnerDecides
INVARIANT WorkIsBounded
PROPERTY PublishedStays
CHECK_DEADLOCK FALSE
