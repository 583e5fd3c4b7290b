SPECIFICATION AtomicsFairSpec
CONSTANTS
  Programs <- AllPrograms
  Targets = {t1, t2}
  Rounds = 2
  Notifies = 1
  Free = Free
INVARIANTS
  OrdersSuffice
  OneInstance
  PrintsWhole
  Consistent
  NoLostInterrupt
PROPERTIES
  Terminates
  InterruptThrows
\* The programs end; the targets end, and one nobody interrupts may wait for ever.
CHECK_DEADLOCK FALSE
