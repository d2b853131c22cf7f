SPECIFICATION Spec
CONSTANTS
  t1 = t1
  t2 = t2
  Threads = {t1, t2}
  Openers = {}
  MaxCalls = 1
  MaxHangups = 1
  MaxLate = 0
  ShortWrites = TRUE
INVARIANT StreamWhole
CHECK_DEADLOCK FALSE
