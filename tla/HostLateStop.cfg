SPECIFICATION Spec
CONSTANTS
  Tasks = {t1}
  JournalCapacity = 100
  Failing = {}
  Slow = {}
  MaxOutput = 0
  None = None
INVARIANT LostWorkerIsNotCertified
CHECK_DEADLOCK FALSE
