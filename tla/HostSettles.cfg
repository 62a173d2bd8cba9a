SPECIFICATION FairSpec
CONSTANTS
  Tasks = {t1}
  JournalCapacity = 100
  Failing <- Operations
  Slow <- SlowButSinks
  MaxOutput = 0
  None = None
PROPERTY Settles
CHECK_DEADLOCK FALSE
