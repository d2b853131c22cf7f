SPECIFICATION Spec
CONSTANTS
  t1 = t1
  t2 = t2
  Threads = {t1, t2}
  Openers = {t1, t2}
  MaxCalls = 1
  MaxHangups = 0
  MaxLate = 1
  ShortWrites = FALSE
PROPERTY CallsReturn
CHECK_DEADLOCK FALSE
