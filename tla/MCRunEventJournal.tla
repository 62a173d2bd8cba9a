------------------------- MODULE MCRunEventJournal --------------------------
(* RunEventJournal for TLC; the limits come from the configurations. *)
EXTENDS RunEventJournal, TLC

Symmetry == Permutations(Producers)
=============================================================================
