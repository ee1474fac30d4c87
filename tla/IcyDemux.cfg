SPECIFICATION IcySpec
CONSTANTS
  interval = 5
  BLOCK = 2
  Blocks = {0, 1, 2}
  Noise = {0, 1}
  MaxLen = 6
  U16 = 16
  U32 = 64
INVARIANT CountdownInSync
PROPERTY MusicExtracted
