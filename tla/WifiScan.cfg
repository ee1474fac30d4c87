SPECIFICATION Spec
CONSTANTS
  Browsers = {b1, b2}
  MaxAps = 3
INVARIANTS TableIsSafe AnswerIsJson
PROPERTY ListsAndScansEnd
