SPECIFICATION FairSpec
CONSTANTS
  Request = {r1, r2}
  None = None
INVARIANTS OneStream OwnTimerArmed StoppedStreamIsSilent OneLossAtMost
PROPERTY StreamMovesOn
