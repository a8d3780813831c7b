--------------------------- MODULE MCTupleChannel ---------------------------
(* TupleChannel for TLC: a ring of a few slots, filled several times over. *)
EXTENDS TupleChannel
=============================================================================
