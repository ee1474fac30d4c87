SPECIFICATION Spec
CONSTANTS
  Clients = {c1, c2, c3}
  None = None
  HTTPD_MAX_CONNECTIONS = 2
  MAX_BACKLOG = 2
  MAX_POST = 3
  PAGELEN = 2
  SPI_FLASH_SEC_SIZE = 4
  fwSize = 8
  Pages <- MCPages
  Uploads <- MCUploads
  Uploaders = {c1}
INVARIANTS TypeOK PoolIsExact FilesAreClosed AnswerInOrder UploadIsExact
PROPERTIES ClosedAfterAnswer RequestIsAnswered
