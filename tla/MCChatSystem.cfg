SPECIFICATION SystemSpec
CONSTANTS
  Lines = 2
  Endpoints = 2
  Pieces = 2
  kMaxBodyLength = 256
  Word <- MCWord
  LineLengths <- MCLineLengths
  Arriving <- MCArriving
  Sessions = {a, b}
  Self = a
  kMaxRecentMsgs = 1
  WireSize = 1
INVARIANTS
  Consistent
  LinesInOrder
  HeaderSafe
  EndsAgree
  ConversationKept
PROPERTIES
  EndOfInputReturns
  GoneStopsThread
  LinesComeBack
\* Both programs end, or wait for input.
CHECK_DEADLOCK FALSE
