SPECIFICATION Spec
CONSTANTS
  Tasks = {t1}
  JournalCapacity = 10
  MaxOutput = 1
  Failing <- FailingButStream
  Slow <- Operations
  None = None
CHECK_DEADLOCK FALSE
INVARIANTS
  TypeOK
  
  
  
  StoppedIsNoVerdict
  DecisionPrecedesVerdict
PROPERTY FactsAreStoredFirst
