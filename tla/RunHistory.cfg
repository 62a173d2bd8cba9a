SPECIFICATION Spec
CONSTANT MaxBatches = 2
INVARIANTS
  TypeOK
  
  
  CompleteIsCommitted
PROPERTY CorruptIsExplained
