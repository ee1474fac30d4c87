SPECIFICATION Spec
CONSTANTS
  MAX_SENDBUFF_LEN = 28
  Block = 8
  TokenSize = 4
  HostName <- MCHostName
  Archives <- MCArchives
  Modes <- MCModes
  Settings <- MCSettings
  Requests <- MCRequests
INVARIANTS PageIsWhole BarrierHolds
PROPERTY HandlerReadsOn
