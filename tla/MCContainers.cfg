SPECIFICATION ContainersSpec
CONSTANTS
  Producers = {p1, p2}
  Consumers = {c1, c2}
  Pollers = {r1}
  MsgCount = 2
  PollCount = 2
  Wild = Wild
  Free = Free
INVARIANTS
  OneBehind
  ListIntact
  EndsApart
  NoDeadlock
  StackConsistent
  StackNoLostWakeup
PROPERTIES
  NextPushWakes
\* The program ends, and consumers may sleep beside an empty container, or the queue beside a full one.
CHECK_DEADLOCK FALSE
