---------------------------- MODULE MCForeignScan ----------------------------
(* ForeignScan for TLC: two children, the first with more rows.            *)
EXTENDS ForeignScan, TLC

Set(throw, limit, n) ==
  [throwErrorIfDead |-> throw, rows |-> 0 :> n @@ 1 :> 1, mayLimit |-> limit]

(* Four rows on a ring of two are enough for a child to sleep on the slot  *)
(* that the main thread has in use.                                        *)
Cut == {Set(FALSE, TRUE, 4)}
CutThrow == {Set(TRUE, TRUE, 4)}
CutOrRead == Cut \cup CutThrow \cup {Set(FALSE, FALSE, 5)}
==============================================================================
