SPECIFICATION JointSpec
CONSTANTS
  Workers = {w1}
  MaxGames = 1
  MaxTokens = 4
  MaxAuthority = 1
  MaxFaults = 2
  Viewers = {}
  Devices = {d1}
  MaxContents = 2
  MaxRevision = 2
INVARIANT RetryableCanBeClaimed
CHECK_DEADLOCK FALSE
