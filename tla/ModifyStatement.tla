--------------------------- MODULE ModifyStatement ---------------------------
(***************************************************************************)
(* What a modifying statement promises, whatever the threads that carry it *)
(* out: while it is open rows are applied at the child nodes, each at most *)
(* once; it succeeds only when all of them have been; after it has ended,  *)
(* in success or in failure, nothing is applied any more; and it ends.     *)
(***************************************************************************)
VARIABLES rows, done, outcome

vars == <<rows, done, outcome>>

Init == done = {} /\ outcome = "open"

Apply ==
  /\ outcome = "open"
  /\ done \subseteq done' /\ done' \subseteq rows
  /\ UNCHANGED <<rows, outcome>>

Succeed ==
  /\ outcome = "open" /\ done = rows
  /\ outcome' = "ok"
  /\ UNCHANGED <<rows, done>>

Fail ==
  /\ outcome = "open"
  /\ outcome' = "failed"
  /\ UNCHANGED <<rows, done>>

Next == Apply \/ Succeed \/ Fail

(* The part of it that is safety.                                          *)
SafeSpec == Init /\ [][Next]_vars

Spec == SafeSpec /\ <>(outcome # "open")
==============================================================================
