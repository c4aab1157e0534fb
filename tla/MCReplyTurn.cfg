CONSTANTS
  Attempts = 2
  Parallel = TRUE
  MaxWrites = 1
  MaxChanges = 1
  MaxFaults = 1
SPECIFICATION FairSpec
INVARIANT TypeOK
INVARIANT DeliveredIsSaved
PROPERTY ReplyFollowsAuthority
PROPERTY TurnIsAnswered
CHECK_DEADLOCK FALSE
