SPECIFICATION TimedSpec
CONSTANTS
  Workers = {w1}
  Epochs = {0}
  Attempts = {a1, a2}
  Requests = {q1, q2, q3, q4}
  Resources <- OneResource
  Capacity <- TwoUnits
  Vectors <- SmallAndLarge
  MaxQueued = 2
  NoOwner = NoOwner
PROPERTY
  EveryRequestSettles
INVARIANT
  Bookkeeping
