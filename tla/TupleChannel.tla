---------------------------- MODULE TupleChannel ----------------------------
(***************************************************************************)
(* One scan child thread and the main thread at work on one tuple queue:   *)
(* the loop of spd_IterateForeignScanChildLoop on the producing side, and  *)
(* nextChildTuple with a single thread on the consuming side.              *)
(*                                                                         *)
(* A tuple is its ordinal in the child's result.  The main thread does not *)
(* copy what it takes: until its next call it reads the slot the child     *)
(* will some day reuse (q.tuples) and, through it, memory of one of the    *)
(* two contexts the child resets in turn (tuplectx).  Both have to be      *)
(* intact for that long, and that is what this module is about.            *)
(***************************************************************************)
EXTENDS SpdTupleQueue

CONSTANT MaxRows     \* the child returns at most this many rows

ASSUME MaxRowsAssumption == MaxRows \in Nat
ASSUME NoTupleAssumption == NoTuple \notin Nat

VARIABLES
  q,           \* the queue
  cpc,         \* where the child thread is
  tuple_cnt,   \* tuples the child has added so far
  tuplectx,    \* the tuples whose memory each of the two contexts holds
  mpc,         \* where the main thread is
  taken,       \* tuples the main thread has taken so far
  holding      \* the main thread is using the tuple it took last

vars == <<q, cpc, tuple_cnt, tuplectx, mpc, taken, holding>>

Rows == 0 .. MaxRows - 1

(* Mutant: one context instead of two.                                     *)
MutCtxIdx(n) == 0

(* The context tuple n is allocated in: ctx_idx of the loop.               *)
CtxIdx(n) == (n \div QueueLen) % 2

Init ==
  /\ q = QueueInit
  /\ cpc = "iterate"
  /\ tuple_cnt = 0
  /\ tuplectx = [i \in {0, 1} |-> {}]
  /\ mpc = "idle"
  /\ taken = 0
  /\ holding = FALSE

-----------------------------------------------------------------------------
(* The child thread.                                                       *)

(* The head of the loop: the context the next QueueLen tuples go to is     *)
(* reset first.                                                            *)
CtxAtIterate ==
  IF tuple_cnt % QueueLen = 0
    THEN [tuplectx EXCEPT ![CtxIdx(tuple_cnt)] = {}]
    ELSE tuplectx

(* The child FDW returns a tuple, allocated in the current context.        *)
ChildFetch ==
  /\ cpc = "iterate"
  /\ tuple_cnt < MaxRows
  /\ cpc' = "add"
  /\ tuplectx' = [CtxAtIterate EXCEPT ![CtxIdx(tuple_cnt)] = @ \cup {tuple_cnt}]
  /\ UNCHANGED <<q, tuple_cnt, mpc, taken, holding>>

(* The child FDW has no more rows.                                         *)
ChildFinish ==
  /\ cpc = "iterate"
  /\ cpc' = "done"
  /\ tuplectx' = CtxAtIterate
  /\ q' = NotifyFinish(q)
  /\ UNCHANGED <<tuple_cnt, mpc, taken, holding>>

(* The child FDW raises an error; the thread leaves the loop and reports   *)
(* it on the queue on its way out.                                         *)
ChildFail ==
  /\ cpc = "iterate"
  /\ cpc' = "done"
  /\ tuplectx' = CtxAtIterate
  /\ q' = NotifyError(q)
  /\ UNCHANGED <<tuple_cnt, mpc, taken, holding>>

(* The rest of spd_queue_add once the slot may be cleared, and the end of  *)
(* the turn of the loop.                                                   *)
Store ==
  /\ q' = QueueStore(q, tuple_cnt)
  /\ tuple_cnt' = tuple_cnt + 1
  /\ cpc' = "iterate"
  /\ UNCHANGED <<tuplectx, mpc, taken, holding>>

(* spd_queue_add succeeds at once.  When it refuses, the loop tries again, *)
(* which is no step of its own here.                                       *)
ChildAdd ==
  /\ cpc = "add"
  /\ ~QueueRefuses(q)
  /\ ~QueueMustWait(q)
  /\ Store

(* spd_queue_add goes to sleep; cpc = "spin" means it holds qmutex.        *)
ChildSpin ==
  /\ cpc = "add"
  /\ ~QueueRefuses(q)
  /\ QueueMustWait(q)
  /\ cpc' = "spin"
  /\ UNCHANGED <<q, tuple_cnt, tuplectx, mpc, taken, holding>>

ChildWake ==
  /\ cpc = "spin"
  /\ q.safe_to_clear
  /\ Store

Child == ChildFetch \/ ChildFinish \/ ChildFail \/ ChildAdd \/ ChildSpin \/ ChildWake

-----------------------------------------------------------------------------
(* The main thread.                                                        *)

(* The executor asks for a tuple.  Before anything else nextChildTuple     *)
(* lets the child clear the slot of the tuple it took last time; the flag  *)
(* is written without the mutex, so a sleeping child does not block it.    *)
MainCall ==
  /\ mpc = "idle"
  /\ mpc' = "get"
  /\ q' = IF taken > 0 THEN [q EXCEPT !.safe_to_clear = TRUE] ELSE q
  /\ holding' = FALSE
  /\ UNCHANGED <<cpc, tuple_cnt, tuplectx, taken>>

(* spd_queue_get finds a tuple.                                            *)
MainGet ==
  /\ mpc = "get"
  /\ cpc # "spin"
  /\ q.len > 0
  /\ q' = QueueGet(q)
  /\ taken' = taken + 1
  /\ holding' = TRUE
  /\ mpc' = "idle"
  /\ UNCHANGED <<cpc, tuple_cnt, tuplectx>>

(* Mutant: a closed queue is not emptied first.                            *)
MutMainEnd ==
  /\ mpc = "get" /\ cpc # "spin" /\ q.queue_state # "OK"
  /\ mpc' = IF q.queue_state = "FINISH" THEN "eof" ELSE "error"
  /\ UNCHANGED <<q, cpc, tuple_cnt, tuplectx, taken, holding>>

(* spd_queue_get finds the queue empty and closed: nextChildTuple returns  *)
(* NULL, or raises the child's error.  While the queue is empty and open   *)
(* the main thread polls it, which is no step here.                        *)
MainEnd ==
  /\ mpc = "get"
  /\ cpc # "spin"
  /\ q.len = 0
  /\ q.queue_state # "OK"
  /\ mpc' = IF q.queue_state = "FINISH" THEN "eof" ELSE "error"
  /\ UNCHANGED <<q, cpc, tuple_cnt, tuplectx, taken, holding>>

Main == MainCall \/ MainGet \/ MainEnd

(* The scan is over on both sides.                                         *)
Over == cpc = "done" /\ mpc \in {"eof", "error"} /\ UNCHANGED vars

Next == Child \/ Main \/ Over

(* Both threads are scheduled; the executor here reads the scan to its end *)
(* (a scan that is cut short is in ForeignScan).                           *)
Spec == Init /\ [][Next]_vars /\ WF_vars(Child) /\ WF_vars(Main)

-----------------------------------------------------------------------------
(* The type invariant of the ring (start and len inside it), of the two    *)
(* memory contexts and of the two loops.                                   *)
TypeOK ==
  /\ q \in TupleQueue(Rows)
  /\ cpc \in {"iterate", "add", "spin", "done"}
  /\ tuple_cnt \in 0 .. MaxRows
  /\ tuplectx \in [{0, 1} -> SUBSET Rows]
  /\ mpc \in {"idle", "get", "eof", "error"}
  /\ taken \in 0 .. MaxRows
  /\ holding \in BOOLEAN

(* The tuples that are queued, and the one in use.                         *)
Pending == {n \in Rows : taken <= n /\ n < tuple_cnt}
InUse == IF holding THEN {taken - 1} ELSE {}

(* While the main thread uses a tuple, its slot is not cleared or filled   *)
(* by the child: what the two early returns and the wait of spd_queue_add  *)
(* are for, also where SPD_LAST_GET_IDX does not wrap around.              *)
SlotIntact == holding => q.tuples[q.main_process_idx] = taken - 1

(* Every tuple that is queued or in use still has its memory: the child    *)
(* never resets the context it was allocated in ("it's safe to reset       *)
(* tuplectx[0] before adding tuple 6").                                    *)
MemoryAlive == \A n \in Pending \cup InUse : n \in tuplectx[CtxIdx(n)]

(* The ring read as a sequence: tuple n, while it is queued, is in slot    *)
(* n % QueueLen.                                                           *)
RingOrder ==
  /\ q.len = tuple_cnt - taken
  /\ q.start = taken % QueueLen
  /\ \A n \in Pending : q.tuples[n % QueueLen] = n

(* The tuple in use blocks its slot: the ring never gets full around it.   *)
SlotBlocked ==
  holding => /\ taken > 0
             /\ q.main_process_idx = (taken - 1) % QueueLen
             /\ q.tuples[(taken - 1) % QueueLen] = taken - 1
             /\ q.len < QueueLen
             /\ ~q.safe_to_clear
             /\ mpc = "idle"

(* What the child is about to add, and why it may.                         *)
AddReady ==
  /\ cpc \in {"add", "spin"} => /\ tuple_cnt < MaxRows
                                /\ tuple_cnt \in tuplectx[CtxIdx(tuple_cnt)]
  /\ cpc = "spin" => q.len < QueueLen /\ AddIdx(q) = q.main_process_idx
  /\ cpc # "done" => q.queue_state = "OK"

(* The inductive invariant: the state of the queue, the two loops and the  *)
(* two memory contexts together (spd_queue_add, spd_queue_get and          *)
(* MemoryContextReset keep it, one step at a time).                        *)
IInv == TypeOK /\ RingOrder /\ SlotBlocked /\ AddReady /\ MemoryAlive

(* What the main thread sees when it looks at the tuple it took last.      *)
Seen ==
  IF ~holding THEN NoTuple
  ELSE LET n == q.tuples[q.main_process_idx]
       IN IF n \in tuplectx[CtxIdx(taken - 1)] THEN n ELSE -1

(* What it has been told about the end of the scan.                        *)
Told == IF mpc = "eof" THEN "FINISH" ELSE IF mpc = "error" THEN "ERROR" ELSE "none"

Stream == INSTANCE TupleStream WITH
  Capacity  <- QueueLen,
  None      <- NoTuple,
  produced  <- tuple_cnt,
  delivered <- taken,
  current   <- Seen,
  closed    <- q.queue_state,
  outcome   <- Told

(* The queue and its two users implement the stream, with its liveness:    *)
(* no tuple is lost, repeated, reordered or changed under the main thread, *)
(* and every tuple and the end of the scan reach it.                       *)
ImplementsStream == Stream!Spec

=============================================================================
