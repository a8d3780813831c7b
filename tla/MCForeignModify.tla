--------------------------- MODULE MCForeignModify ---------------------------
(* ForeignModify for TLC: statements over two children.                   *)
EXTENDS ForeignModify, TLC

Sizes(a, b) == 0 :> a @@ 1 :> b

Insert(rows, option, child, throw, url) ==
  [op |-> "INSERT", rows |-> rows, option |-> option, child |-> child,
   throwCandidateError |-> throw, url |-> url]

Update(rows) ==
  [op |-> "UPDATE", rows |-> rows, option |-> 0, child |-> Sizes(1, 1),
   throwCandidateError |-> TRUE, url |-> FALSE]

(* Batch sizes are computed from those of the children: row by row, one    *)
(* child with batches, both; a candidate that drops out; an UPDATE.        *)
ComputedModes ==
  { Insert(2, 0, Sizes(1, 1), TRUE, TRUE), Insert(2, 0, Sizes(1, 1), FALSE, FALSE),
    Insert(3, 0, Sizes(2, 1), TRUE, FALSE), Insert(3, 0, Sizes(2, 2), TRUE, TRUE),
    Update(3) }
==============================================================================
