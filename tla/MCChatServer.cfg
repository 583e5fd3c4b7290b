SPECIFICATION FairSpec
CONSTANTS
  Sessions = {s1, s2}
  Pieces = 4
  kMaxRecentMsgs = 1
INVARIANTS
  Consistent
  QueueIsRestOfShare
PROPERTIES
  RoomSpec
  GoneIsReleased
  EverybodyHears
\* All clients have gone.
CHECK_DEADLOCK FALSE
