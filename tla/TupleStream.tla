---------------------------- MODULE TupleStream ----------------------------
(***************************************************************************)
(* What a tuple queue promises to the main thread: a bounded stream that   *)
(* hands out the child's tuples once each and in order, keeps the tuple    *)
(* in use unchanged until the next one is asked for, and reports the end   *)
(* or the error of the child only after all its tuples.                    *)
(***************************************************************************)
EXTENDS Integers

CONSTANTS Capacity,  \* tuples in flight, the one in use included
          None       \* no tuple is in use

VARIABLES
  produced,    \* tuples the child has passed on
  delivered,   \* tuples the main thread has received
  current,     \* the tuple the main thread is using
  closed,      \* how the child's side ended, "OK" while it is open
  outcome      \* what the main thread was told at the end

svars == <<produced, delivered, current, closed, outcome>>

InUse == IF current = None THEN 0 ELSE 1

Init ==
  /\ produced = 0
  /\ delivered = 0
  /\ current = None
  /\ closed = "OK"
  /\ outcome = "none"

Produce ==
  /\ closed = "OK"
  /\ produced - delivered + InUse < Capacity
  /\ produced' = produced + 1
  /\ UNCHANGED <<delivered, current, closed, outcome>>

Close ==
  /\ closed = "OK"
  /\ closed' \in {"FINISH", "ERROR"}
  /\ UNCHANGED <<produced, delivered, current, outcome>>

(* The executor asks for the next tuple and gives the last one back.       *)
Ask ==
  /\ current # None
  /\ current' = None
  /\ UNCHANGED <<produced, delivered, closed, outcome>>

Deliver ==
  /\ current = None
  /\ outcome = "none"
  /\ delivered < produced
  /\ current' = delivered
  /\ delivered' = delivered + 1
  /\ UNCHANGED <<produced, closed, outcome>>

Tell ==
  /\ current = None
  /\ outcome = "none"
  /\ delivered = produced
  /\ closed # "OK"
  /\ outcome' = closed
  /\ UNCHANGED <<produced, delivered, current, closed>>

Next == Produce \/ Close \/ Ask \/ Deliver \/ Tell

SafeSpec == Init /\ [][Next]_svars

Spec == SafeSpec /\ WF_svars(Ask) /\ WF_svars(Deliver) /\ WF_svars(Tell)

=============================================================================
