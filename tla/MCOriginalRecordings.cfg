SPECIFICATION Spec
CONSTANTS
  Requests = {q1, q2, q3}
  MaxWrites = 3
  MaxFaults = 1
SYMMETRY RequestSymmetry
INVARIANT TypeOK
INVARIANT ErasureIsReal
INVARIANT ReadingIsPermitted
INVARIANT VoiceIsKept
CHECK_DEADLOCK FALSE
