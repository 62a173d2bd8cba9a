SPECIFICATION Spec
CONSTANTS
  Tasks = {t1}
  JournalCapacity = 100
  Failing = {"sync"}
  Slow = {}
  MaxOutput = 0
  None = None
INVARIANT FailedCommitStaysStaging
CHECK_DEADLOCK FALSE
