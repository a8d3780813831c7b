------------------------- MODULE MCRoutingSessions -------------------------
(* RoutingSessions for TLC: three children, two of them on one server, and *)
(* sessions that are alike.                                                *)
EXTENDS RoutingSessions, TLC

CONSTANTS s1, s2, p, q

Server122 == 0 :> s1 @@ 1 :> s2 @@ 2 :> s2
Sessions == Permutations({p, q})
=============================================================================
