--------------------------- MODULE MCDirectModify ---------------------------
(* DirectModify for TLC: three children; any set of them has a row count of its own.  *)
EXTENDS DirectModify, TLC

Rows124 == 0 :> 1 @@ 1 :> 2 @@ 2 :> 4
=============================================================================
