SPECIFICATION FairSpec
CONSTANTS
  Tasks = {t1}
  JournalCapacity = 6
  Failing = {}
  Slow = {}
  MaxOutput = 0
  None = None
PROPERTY Settles
CHECK_DEADLOCK FALSE
