SPECIFICATION PageSpec
CONSTANTS
  Viewers = {v1}
  Devices = {d1, d2}
  MaxContents = 3
  MaxAuthority = 1
  MaxRevision = 5
SYMMETRY ReaderSymmetry
INVARIANT PageTypeOK
INVARIANT SendingIsCurrent
INVARIANT ViewersSeeWhatIsShared
INVARIANT SharingIsDecided
CHECK_DEADLOCK FALSE
