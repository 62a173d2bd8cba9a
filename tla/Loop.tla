-------------------------------- MODULE Loop --------------------------------
(***************************************************************************)
(* A loop inside one synchronous handler: its body applied n times.  The   *)
(* handlers of the program run to completion on one JavaScript thread, so  *)
(* a specification makes the whole loop part of one action.  LoopProofs    *)
(* states what may be concluded about it.                                  *)
(***************************************************************************)
EXTENDS Naturals

CONSTANT Body(_)

\* Body(x), with x bound to a variable so that TLC evaluates it only once.
Apply(x) == CHOOSE y \in {Body(p) : p \in {x}} : TRUE

\* Run(x)[n] is the value after n executions of the loop body, starting at x.
Run(x) ==
  LET run[n \in Nat] == IF n = 0 THEN x ELSE Apply(run[n - 1])
  IN  run
=============================================================================
