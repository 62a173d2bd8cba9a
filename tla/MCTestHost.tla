----------------------------- MODULE MCTestHost -----------------------------
(* Values for the constants of TestHost. *)
EXTENDS TestHost

\* Any call may fail, but the stream of events does not reach its capacity.
FailingButStream == Operations \ {"stream"}

\* Anything may be slow but what the sink of the journal waits for: the opening of the store, its
\* append and the projection.
SlowButSinks == Operations \ {"history", "append", "projection"}
=============================================================================
