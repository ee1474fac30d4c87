SPECIFICATION Spec
CONSTANTS
  Settings <- MCSettings
  Files <- MCFiles
  Pieces = {5, 64}
  Rooms = {1, 64}
  Buffer = 2
  Symbols = {10, 13, 32, 37, 38, 43, 52, 58, 59, 61, 63, 97}
  MaxText = 4
INVARIANTS FileComesBack RequestIsUnderstood PasswordIsChecked ChunksAreRead StreamListIsParsed
CHECK_DEADLOCK FALSE
