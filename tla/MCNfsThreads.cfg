SPECIFICATION Spec
CONSTANTS
  t1 = t1
  t2 = t2
  Threads = {t1, t2}
  Openers = {t1}
  MaxCalls = 2
  MaxHangups = 1
  MaxLate = 1
  ShortWrites = FALSE
INVARIANT TypeOK
INVARIANT SentOnce
INVARIANT OwnAnswer
INVARIANT OneContext
INVARIANT NoLostWakeup
 
CHECK_DEADLOCK FALSE
