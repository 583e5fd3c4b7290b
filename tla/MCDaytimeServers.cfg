SPECIFICATION Spec
CONSTANTS
  Clients = {1, 2}
  Pieces = 2
  Datagrams = 3
  InboxSize = 2
  Failures = 2
INVARIANT
  EachAnswered
PROPERTY
  ServesUntilError
CHECK_DEADLOCK FALSE
