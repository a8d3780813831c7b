--------------------------- MODULE MCAggregateScan ---------------------------
(* AggregateScan for TLC: two children with few rows.                      *)
EXTENDS AggregateScan, TLC

CONSTANTS c1, c2

R(g, x) == [g |-> g, x |-> x]

(* Two groups; values that make sums odd, negative, zero and NULL.         *)
Rows1 == {<<>>} \cup {<<r>> : r \in [g : {"a", "b"}, x : {-1, 2, NULL}]}
Rows2 == Rows1 \cup {<<R("a", 2), R("a", x)>> : x \in {-1, 3, NULL}}
               \cup {<<R("a", -1), R("b", x), R("b", 2)>> : x \in {2, 3}}

TwoChildren == {c1 :> r @@ c2 :> q : r \in Rows1, q \in Rows2}
==============================================================================
