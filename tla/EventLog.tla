------------------------------ MODULE EventLog ------------------------------
(***************************************************************************)
(* What the run-event journal promises to the host and to its sink,        *)
(* without the classes of events, the limits and the flush in progress.    *)
(*                                                                         *)
(* Items with growing ordinals wait in pending.  An item may vanish only   *)
(* while it is not sealed; sealing may put markers in the place of items   *)
(* that did.  What is sealed is delivered in batches, in order, once.      *)
(***************************************************************************)
EXTENDS Integers, Sequences

VARIABLES
  pending,   \* the items that wait, records with a field ord
  next,      \* the next ordinal
  sealed,    \* the greatest ordinal behind a barrier
  log        \* the batches delivered so far

vars == <<pending, next, sealed, log>>

Init == pending = {} /\ next = 0 /\ sealed = -1 /\ log = <<>>

\* One new item; unsealed ones may be discarded in its favour.
Put ==
  /\ \E x \in pending' : x.ord = next /\ pending' \ pending = {x}
  /\ \A y \in pending \ pending' : y.ord > sealed
  /\ next' = next + 1
  /\ UNCHANGED <<sealed, log>>

\* Everything so far is final, with markers at ordinals that have become free.
Seal ==
  /\ pending \subseteq pending'
  /\ \A m \in pending' \ pending : /\ m.ord \in (sealed + 1)..(next - 1)
                                   /\ \A y \in pending : y.ord # m.ord
  /\ sealed' = next - 1
  /\ UNCHANGED <<next, log>>

Deliver ==
  /\ \E mark \in -1..sealed :
       LET batch == {x \in pending : x.ord <= mark}
       IN  log' = Append(log, batch) /\ pending' = pending \ batch
  /\ UNCHANGED <<next, sealed>>

Next == Put \/ Seal \/ Deliver

Spec == Init /\ [][Next]_vars
=============================================================================
