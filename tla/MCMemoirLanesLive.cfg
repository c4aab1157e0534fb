CONSTANTS
  Runs = {r1}
  NoRun = NoRun
  MaxAttempts = 2
  Cadence = 2
  MaxSource = 4
  MaxEvent = 1
  MaxAuthority = 0
  MaxFaults = 0
  MaxTrouble = 0
SPECIFICATION FairSpec
PROPERTY TestimonyIsExtracted
CHECK_DEADLOCK FALSE
