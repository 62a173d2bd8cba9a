SPECIFICATION Spec
CONSTANTS
  Workers = {w1, w2}
  Epochs = {0, 1}
  Attempts = {a1, a2, a3}
  Requests = {q1, q2, q3}
  Resources <- MCResources
  Capacity <- MCCapacity
  Vectors <- MCVectors
  MaxQueued = 2
  NoOwner = NoOwner
SYMMETRY Symmetry
INVARIANTS
  TypeOK
  ExactAccounting
  NeverOvercommitted
  OwnersAreCurrent
  Bookkeeping
  WorkConserving
PROPERTIES
  NewAttemptsAreFIFO
  LeasesAreKept
