SPECIFICATION TraversalsSpec
CONSTANTS
  kMinPerThreadCount = 2
  Lengths = {0, 1, 2, 3, 4, 5, 6, 7}
  HardwareCounts = {0, 1, 2, 3, 4}
  Stages = 3
  Length = 3
  Calls = 7
INVARIANTS
  LikeOneLoop
  EachValueOnce
  
\* A call returns and is not made again; the generators' user stops.
CHECK_DEADLOCK FALSE
