CONSTANTS
  Runs = {r1}
  NoRun = NoRun
  MaxAttempts = 2
  Cadence = 1
  MaxSource = 3
  MaxEvent = 1
  MaxAuthority = 0
  MaxFaults = 2
  MaxTrouble = 2
SPECIFICATION Spec
INVARIANT ExhaustedWorkIsShown
CHECK_DEADLOCK FALSE
