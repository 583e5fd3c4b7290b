\* main(): one producer, one consumer.
SPECIFICATION Spec
CONSTANTS
  Producers = {p1}
  Consumers = {c1}
  Pollers = {}
  MsgCount = 3
  PollCount = 1
  Wild = Wild
  Free = Free
INVARIANTS
  SleepsOnEmptyOnly
CHECK_DEADLOCK FALSE
