SPECIFICATION Spec
CONSTANTS
  Words <- MCWords
  Requests <- MCRequests
  MaxRequests = 2
  Pieces = FALSE
  kPrePendIndex = 2
  kInitalSize = 10
  AnyByte = AnyByte
  UpperWords = {"GET", "POST", "HTTP"}
  DigitWords = {"1.0", "1.1", "0", "18"}
  LengthWords = {"18"}
  LongWords = {"username"}
CHECK_DEADLOCK FALSE
INVARIANT AnsweredAsIfAlone
