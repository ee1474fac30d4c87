SPECIFICATION Spec
CONSTANTS
  Clients = {c1, c2}
  NULL = NULL
  Echo = {c1}
  LEN7 = 3
  LEN16 = 3
  Lengths = {0, 3, 5}
  Frames <- MCFrames
  MaxUnread = 8
  MaxFrames = 2
  MaxDebug = 1
INVARIANTS ListIsExact FramesComeOut
PROPERTIES ResetNeedsLateBytes DoneSocketIsClosed
