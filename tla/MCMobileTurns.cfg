SPECIFICATION FairSpec
CONSTANTS
  Turns = {t1}
  MaxSends = 3
  MaxFaults = 2
INVARIANT TypeOK
INVARIANT OutboxKeepsItsWord
INVARIANT AcknowledgedIsSettled
PROPERTY OnlyFreshTurnsAreSent
PROPERTY TurnsEnd
