-------------------------- MODULE MCResourceBroker --------------------------
(* Small instances of ResourceBroker for TLC. *)
EXTENDS ResourceBroker, TLC

MCResources == {"ptySession", "traceWriter"}
MCCapacity == [r \in MCResources |-> IF r = "ptySession" THEN 2 ELSE 1]
MCVectors ==
  {[r \in MCResources |-> IF r = "ptySession" THEN 1 ELSE 0],
   [r \in MCResources |-> IF r = "ptySession" THEN 2 ELSE 1],
   [r \in MCResources |-> 2]}

\* One resource, two units of it.
OneResource == {"ptySession"}
TwoUnits == [r \in OneResource |-> 2]
SmallAndLarge == [OneResource -> {1, 2}]

Symmetry == Permutations(Workers) \cup Permutations(Attempts) \cup Permutations(Requests)
=============================================================================
