SPECIFICATION PatientSpec
CONSTANTS
  Workers = {w1}
  Epochs = {0}
  Attempts = {a1, a2, a3}
  Requests = {q1, q2, q3}
  Resources <- OneResource
  Capacity <- TwoUnits
  Vectors <- SmallAndLarge
  MaxQueued = 2
  NoOwner = NoOwner
PROPERTY
  NoStarvation
