SPECIFICATION FairSpec
CONSTANTS
  Productors = {p1, p2}
  Customers = {c1, c2}
  Capacity = 2
  MsgCount = 3
INVARIANTS
  FifoContents
  NoLostWakeup
  RestsOnlyWhenDrained
  CustomerLeavesDrained
PROPERTIES
  ChannelFairSpec
\* The program ends, and customers may sleep on a closed channel.
CHECK_DEADLOCK FALSE
