SPECIFICATION JointSpec
CONSTANTS
  Workers = {w1}
  MaxGames = 2
  MaxTokens = 3
  MaxAuthority = 1
  MaxFaults = 1
  Viewers = {}
  Devices = {d1}
  MaxContents = 2
  MaxRevision = 2
INVARIANT SentAsDecided
PROPERTY PublicationHolds
CHECK_DEADLOCK FALSE
