--------------------------- MODULE SpdTupleQueue ---------------------------
(***************************************************************************)
(* The tuple queue between one scan child thread and the main thread       *)
(* (struct SpdTupleQueue of pgspider_core_fdw.c) as a value, and its       *)
(* operations as pure operators.  The queue is a ring of QueueLen slots    *)
(* (SPD_TUPLE_QUEUE_LEN, 5000 in the code).                                *)
(*                                                                         *)
(* Every operation but QueueReset runs under qmutex.  spd_queue_add is not *)
(* atomic: it may sleep in the middle, holding the mutex, until the main   *)
(* thread allows the slot to be cleared.  It is therefore given in parts,  *)
(* which the modules that use the queue put together.                      *)
(***************************************************************************)
EXTENDS Integers

CONSTANTS QueueLen,  \* SPD_TUPLE_QUEUE_LEN
          NoTuple    \* what a slot that was never stored into holds

ASSUME QueueLenAssumption == QueueLen \in Nat \ {0}

SlotIdx == 0 .. QueueLen - 1

SpdQueueState == {"OK", "FINISH", "ERROR"}

(* struct SpdTupleQueue, with tuples taken from the set T.                 *)
TupleQueue(T) ==
  [tuples           : [SlotIdx -> T \cup {NoTuple}],
   start            : SlotIdx,
   len              : 0 .. QueueLen,
   queue_state      : SpdQueueState,
   main_process_idx : SlotIdx \cup {-1},
   safe_to_clear    : BOOLEAN]

(* Mutant: the tuples left over stay in the queue.                         *)
MutQueueReset(q) == [q EXCEPT !.queue_state = "OK"]

QueueReset(q) ==
  [q EXCEPT !.len              = 0,
            !.start            = 0,
            !.main_process_idx = -1,
            !.safe_to_clear    = TRUE,
            !.queue_state      = "OK"]

QueueInit ==
  [tuples           |-> [i \in SlotIdx |-> NoTuple],
   start            |-> 0,
   len              |-> 0,
   queue_state      |-> "OK",
   main_process_idx |-> -1,
   safe_to_clear    |-> TRUE]

(* SPD_LAST_GET_IDX: it does not wrap around, it is -1 when start is 0.    *)
LastGetIdx(q) == q.start - 1

(* The slot spd_queue_add is about to fill.                                *)
AddIdx(q) == (q.start + q.len) % QueueLen

(* The two early returns of spd_queue_add.                                 *)
QueueRefuses(q) == \/ q.len >= QueueLen
                   \/ AddIdx(q) = LastGetIdx(q)

(* Mutant: the slot in use is not waited for.                              *)
MutQueueMustWait(q) == FALSE

(* spd_queue_add sleeps, with the mutex held, while this is true.          *)
QueueMustWait(q) == AddIdx(q) = q.main_process_idx /\ ~q.safe_to_clear

(* The rest of spd_queue_add: clear the slot, copy the tuple, count it.    *)
QueueStore(q, t) ==
  [q EXCEPT !.tuples[AddIdx(q)] = t,
            !.len               = q.len + 1]

(* Mutant: the start does not wrap around.                                 *)
MutQueueGetNoWrap(q) ==
  [q EXCEPT !.main_process_idx = q.start, !.start = q.start + 1,
            !.len = q.len - 1, !.safe_to_clear = FALSE]

(* spd_queue_get of a queue that is not empty.                             *)
QueueGet(q) ==
  [q EXCEPT !.main_process_idx = q.start,
            !.start            = (q.start + 1) % QueueLen,
            !.len              = q.len - 1,
            !.safe_to_clear    = FALSE]

QueueHead(q) == q.tuples[q.start]

(* Mutant: the failure of the scan is not passed on.                       *)
MutNotifyNothing(q) == q

NotifyFinish(q) == [q EXCEPT !.queue_state = "FINISH"]

NotifyError(q) == [q EXCEPT !.queue_state = "ERROR"]

=============================================================================
