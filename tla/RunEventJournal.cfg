SPECIFICATION Spec
CONSTANTS
  Producers = {p1, p2}
  Stamps = {1, 2}
  Keys = {k1}
  Sizes = {1, 2}
  GapSizes = {1}
  GapReservation = 2
  MaxAuthoritative = 2
  MaxStateKeys = 1
  MaxDiagnostic = 2
  MaxBytes = 5
  MaxBarriers = 2
  None = None
SYMMETRY Symmetry
CHECK_DEADLOCK FALSE
INVARIANTS
  TypeOK
  NothingLost
  DeliveredInOrder
  EvictionsAreCounted
  
  
PROPERTIES
  BatchesAreStable
  ImplementsEventLog
