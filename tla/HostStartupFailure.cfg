SPECIFICATION Spec
CONSTANTS
  Tasks = {t1}
  JournalCapacity = 100
  Failing = {"broker"}
  Slow = {}
  MaxOutput = 0
  None = None
INVARIANT CommittedIsReadable
CHECK_DEADLOCK FALSE
