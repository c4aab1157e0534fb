SPECIFICATION FairSpec
CONSTANTS
  Owners = {o1, o2}
  Guest = Guest
  Nobody = Nobody
  Turns = {t1}
  NoTurn = NoTurn
  Calls = {c1, c2}
  NoCall = NoCall
  MaxChanges = 1
  MaxFaults = 1
INVARIANT TypeOK
INVARIANT OneOwner
INVARIANT GuestWorkIsKept
PROPERTY HandOverIsFaithful
PROPERTY WaitingEnds
CHECK_DEADLOCK FALSE
