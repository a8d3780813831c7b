------------------------- MODULE TupleChannelProofs -------------------------
(***************************************************************************)
(* TupleChannel for every length of the queue and every number of rows:    *)
(* the slot and the memory of the tuple in use are intact, and the queue   *)
(* implements the stream.                                                  *)
(***************************************************************************)
EXTENDS TupleChannel, RingArithmetic

USE QueueLenAssumption, MaxRowsAssumption

(* The slot spd_queue_add computes is the slot of the next tuple.          *)
LEMMA AddIdxIsNext ==
  ASSUME IInv
  PROVE  /\ AddIdx(q) = tuple_cnt % QueueLen
         /\ AddIdx(q) \in SlotIdx
         /\ taken + q.len = tuple_cnt
<1>1. q.len \in Nat /\ taken \in Nat /\ tuple_cnt \in Nat
  BY DEF IInv, TypeOK, TupleQueue
<1>2. q.start = taken % QueueLen /\ q.len = tuple_cnt - taken
  BY DEF IInv, RingOrder
<1>3. ((taken % QueueLen) + q.len) % QueueLen = (taken + q.len) % QueueLen
  BY <1>1, ModAdd
<1>4. taken + q.len = tuple_cnt
  BY <1>1, <1>2
<1>5. tuple_cnt % QueueLen \in 0 .. QueueLen - 1
  BY <1>1, DivMod
<1> QED
  BY <1>2, <1>3, <1>4, <1>5 DEF AddIdx, SlotIdx

(* spd_queue_init leaves an empty ring, with no slot and no memory in use. *)
LEMMA InitIInv == Init => IInv
<1> SUFFICES ASSUME Init PROVE IInv
  OBVIOUS
<1>1. TypeOK
  <2>1. QueueInit \in TupleQueue(Rows)
    BY DEF QueueInit, TupleQueue, SlotIdx, SpdQueueState
  <2>2. tuplectx \in [{0, 1} -> SUBSET Rows]
    BY DEF Init
  <2>3. tuple_cnt \in 0 .. MaxRows /\ taken \in 0 .. MaxRows
    BY DEF Init
  <2>4. cpc \in {"iterate", "add", "spin", "done"} /\ mpc \in {"idle", "get", "eof", "error"}
    BY DEF Init
  <2>5. holding \in BOOLEAN
    BY DEF Init
  <2> QED
    BY <2>1, <2>2, <2>3, <2>4, <2>5 DEF Init, TypeOK
<1>2. Pending = {} /\ InUse = {}
  BY DEF Init, Pending, InUse, Rows
<1>3. 0 % QueueLen = 0
  OBVIOUS
<1> QED
  BY <1>1, <1>2, <1>3 DEF Init, IInv, RingOrder, SlotBlocked, AddReady, MemoryAlive, QueueInit

-----------------------------------------------------------------------------
(* What the operations of the queue do to its fields.                      *)

(* Storing a tuple fills one slot and counts it.                           *)
LEMMA StoreFields ==
  ASSUME NEW x \in TupleQueue(Rows), NEW t \in Rows, AddIdx(x) \in SlotIdx, x.len < QueueLen
  PROVE  /\ QueueStore(x, t) \in TupleQueue(Rows)
         /\ QueueStore(x, t).len = x.len + 1
         /\ QueueStore(x, t).start = x.start
         /\ QueueStore(x, t).tuples = [x.tuples EXCEPT ![AddIdx(x)] = t]
         /\ QueueStore(x, t).queue_state = x.queue_state
         /\ QueueStore(x, t).main_process_idx = x.main_process_idx
         /\ QueueStore(x, t).safe_to_clear = x.safe_to_clear
<1>1. x.len + 1 \in 0 .. QueueLen
  BY DEF TupleQueue
<1>2. [x.tuples EXCEPT ![AddIdx(x)] = t] \in [SlotIdx -> Rows \cup {NoTuple}]
  BY DEF TupleQueue
<1> QED
  BY <1>1, <1>2 DEF QueueStore, TupleQueue

(* Taking a tuple moves start on and marks its old place as in use.        *)
LEMMA GetFields ==
  ASSUME NEW x \in TupleQueue(Rows), x.len > 0
  PROVE  /\ QueueGet(x) \in TupleQueue(Rows)
         /\ QueueGet(x).len = x.len - 1
         /\ QueueGet(x).start = (x.start + 1) % QueueLen
         /\ QueueGet(x).tuples = x.tuples
         /\ QueueGet(x).queue_state = x.queue_state
         /\ QueueGet(x).main_process_idx = x.start
         /\ QueueGet(x).safe_to_clear = FALSE
<1>1. x.len - 1 \in 0 .. QueueLen
  BY DEF TupleQueue
<1>2. (x.start + 1) % QueueLen \in SlotIdx
  BY DEF TupleQueue, SlotIdx
<1> QED
  BY <1>1, <1>2 DEF QueueGet, TupleQueue

(* Closing the queue changes its state only.                               *)
LEMMA NotifyFields ==
  ASSUME NEW x \in TupleQueue(Rows), NEW st \in SpdQueueState, NEW y,
         y = [x EXCEPT !.queue_state = st]
  PROVE  /\ y \in TupleQueue(Rows)
         /\ y.len = x.len
         /\ y.start = x.start
         /\ y.tuples = x.tuples
         /\ y.queue_state = st
         /\ y.main_process_idx = x.main_process_idx
         /\ y.safe_to_clear = x.safe_to_clear
BY DEF TupleQueue

(* Allowing the slot to be cleared changes that flag only.                 *)
LEMMA SafeFields ==
  ASSUME NEW x \in TupleQueue(Rows), NEW y,
         y = [x EXCEPT !.safe_to_clear = TRUE]
  PROVE  /\ y \in TupleQueue(Rows)
         /\ y.len = x.len
         /\ y.start = x.start
         /\ y.tuples = x.tuples
         /\ y.queue_state = x.queue_state
         /\ y.main_process_idx = x.main_process_idx
BY DEF TupleQueue

-----------------------------------------------------------------------------
(* Each step keeps the invariant.                                          *)

(* Storing the next tuple, once its slot may be cleared, disturbs neither  *)
(* a queued tuple nor the one in use.                                      *)
LEMMA StoreStep ==
  ASSUME IInv, Store, cpc \in {"add", "spin"}, q.len < QueueLen,
         holding => AddIdx(q) # q.main_process_idx
  PROVE  IInv'
<1>1. q \in TupleQueue(Rows) /\ tuple_cnt \in Rows /\ taken \in Nat /\ tuple_cnt \in Nat
  BY DEF IInv, TypeOK, AddReady, Rows
<1>2. AddIdx(q) = tuple_cnt % QueueLen /\ AddIdx(q) \in SlotIdx /\ taken + q.len = tuple_cnt
  BY AddIdxIsNext
<1>3. /\ q' \in TupleQueue(Rows)
      /\ q'.len = q.len + 1
      /\ q'.start = q.start
      /\ q'.tuples = [q.tuples EXCEPT ![tuple_cnt % QueueLen] = tuple_cnt]
      /\ q'.queue_state = q.queue_state
      /\ q'.main_process_idx = q.main_process_idx
      /\ q'.safe_to_clear = q.safe_to_clear
  BY <1>1, <1>2, StoreFields DEF Store
<1>4. /\ tuple_cnt' = tuple_cnt + 1
      /\ cpc' = "iterate"
      /\ UNCHANGED <<tuplectx, mpc, taken, holding>>
  BY DEF Store
<1>5. TypeOK'
  <2>1. tuple_cnt' \in 0 .. MaxRows
    BY <1>1, <1>4 DEF Rows
  <2>2. cpc' \in {"iterate", "add", "spin", "done"}
    BY <1>4
  <2> QED
    BY <1>3, <1>4, <2>1, <2>2 DEF IInv, TypeOK
<1>6. q.tuples \in [SlotIdx -> Rows \cup {NoTuple}] /\ q.len \in Nat
  BY <1>1 DEF TupleQueue
<1>7. RingOrder'
  <2>1. q'.len = tuple_cnt' - taken'
    <3>1. q.len = tuple_cnt - taken /\ taken \in Nat /\ tuple_cnt \in Nat
      BY <1>1 DEF IInv, RingOrder
    <3>2. q'.len = q.len + 1 /\ tuple_cnt' = tuple_cnt + 1 /\ taken' = taken
      BY <1>3, <1>4
    <3> QED
      BY <3>1, <3>2
  <2>2. q'.start = taken' % QueueLen
    BY <1>3, <1>4 DEF IInv, RingOrder
  <2>3. ASSUME NEW n \in Pending'
        PROVE  q'.tuples[n % QueueLen] = n
    <3>1. n \in Nat /\ taken <= n /\ n < tuple_cnt + 1 /\ n \in Rows
      BY <1>4, <2>3 DEF Pending, Rows
    <3>2. n % QueueLen \in SlotIdx
      BY <3>1, DivMod DEF SlotIdx
    <3>3. CASE n = tuple_cnt
      BY <1>3, <1>6, <3>2, <3>3
    <3>4. CASE n # tuple_cnt
      <4>1. n \in Pending /\ n < tuple_cnt /\ tuple_cnt < n + QueueLen
        BY <1>1, <1>2, <1>6, <3>1, <3>4 DEF Pending
      <4>2. n % QueueLen # tuple_cnt % QueueLen
        BY <1>1, <3>1, <4>1, ModDistinct
      <4> QED
        BY <1>3, <1>6, <3>2, <4>1, <4>2 DEF IInv, RingOrder
    <3> QED
      BY <3>3, <3>4
  <2> QED
    BY <2>1, <2>2, <2>3 DEF RingOrder
<1>8. SlotBlocked'
  <2> SUFFICES ASSUME holding PROVE SlotBlocked'
    BY <1>4 DEF SlotBlocked
  <2>1. /\ taken > 0
        /\ q.main_process_idx = (taken - 1) % QueueLen
        /\ q.tuples[(taken - 1) % QueueLen] = taken - 1
        /\ ~q.safe_to_clear
        /\ mpc = "idle"
    BY DEF IInv, SlotBlocked
  <2>2. (taken - 1) % QueueLen # tuple_cnt % QueueLen
    BY <1>2, <2>1
  <2>3. taken - 1 \in Nat
    BY <1>1, <2>1
  <2>4. q.len + 1 < QueueLen
    <3> SUFFICES ASSUME q.len = QueueLen - 1 PROVE FALSE
      BY <1>6
    <3>1. tuple_cnt = (taken - 1) + QueueLen
      BY <1>1, <1>2
    <3> QED
      BY <2>2, <2>3, <3>1, ModRound
  <2>5. (taken - 1) % QueueLen \in SlotIdx
    BY <2>3, DivMod DEF SlotIdx
  <2>6. q'.tuples[(taken - 1) % QueueLen] = taken - 1
    BY <1>3, <1>6, <2>1, <2>2, <2>5
  <2> QED
    BY <1>3, <1>4, <2>1, <2>4, <2>6 DEF SlotBlocked
<1>9. AddReady'
  BY <1>3, <1>4 DEF IInv, AddReady
<1>10. MemoryAlive'
  <2> SUFFICES ASSUME NEW n \in (Pending \cup InUse)'
               PROVE  n \in tuplectx[CtxIdx(n)]
    BY <1>4 DEF MemoryAlive, CtxIdx
  <2>1. CASE n \in Pending \cup InUse
    BY <2>1 DEF IInv, MemoryAlive
  <2>2. CASE n = tuple_cnt
    BY <2>2 DEF IInv, AddReady
  <2>3. n \in Pending \cup InUse \/ n = tuple_cnt
    BY <1>1, <1>4 DEF Pending, InUse, Rows
  <2> QED
    BY <2>1, <2>2, <2>3
<1> QED
  BY <1>5, <1>7, <1>8, <1>9, <1>10 DEF IInv

(* spd_queue_add, at once or after the wait.                               *)
LEMMA AddStep == IInv /\ (ChildAdd \/ ChildWake) => IInv'
<1> SUFFICES ASSUME IInv, ChildAdd \/ ChildWake PROVE IInv'
  OBVIOUS
<1>1. CASE ChildAdd
  <2>1. Store /\ cpc = "add" /\ ~QueueRefuses(q) /\ ~QueueMustWait(q)
    BY <1>1 DEF ChildAdd
  <2>2. q.len \in Nat
    BY DEF IInv, TypeOK, TupleQueue
  <2>3. q.len < QueueLen
    BY <2>1, <2>2 DEF QueueRefuses
  <2>4. holding => ~q.safe_to_clear
    BY DEF IInv, SlotBlocked
  <2>5. holding => AddIdx(q) # q.main_process_idx
    BY <2>1, <2>4 DEF QueueMustWait
  <2> QED
    BY <2>1, <2>3, <2>5, StoreStep
<1>2. CASE ChildWake
  <2>1. Store /\ cpc = "spin" /\ q.safe_to_clear
    BY <1>2 DEF ChildWake
  <2>2. q.len < QueueLen
    BY <2>1 DEF IInv, AddReady
  <2>3. ~holding
    BY <2>1 DEF IInv, SlotBlocked
  <2> QED
    BY <2>1, <2>2, <2>3, StoreStep
<1> QED
  BY <1>1, <1>2

(* Resetting a context at the head of the loop frees no tuple that is      *)
(* queued or in use: those are less than a round old.                      *)
LEMMA ResetKeeps ==
  ASSUME IInv, NEW n \in Pending \cup InUse
  PROVE  n \in CtxAtIterate[CtxIdx(n)]
<1>1. /\ taken \in Nat /\ tuple_cnt \in Nat /\ q.len \in 0 .. QueueLen
      /\ tuplectx \in [{0, 1} -> SUBSET Rows]
  BY DEF IInv, TypeOK, TupleQueue
<1>2. taken + q.len = tuple_cnt
  BY AddIdxIsNext
<1>3. n \in Nat /\ n < tuple_cnt /\ ~(n < tuple_cnt - QueueLen)
  <2>1. CASE n \in Pending
    BY <1>1, <1>2, <2>1 DEF Pending, Rows
  <2>2. CASE n \in InUse
    <3>1. holding /\ n = taken - 1
      BY <2>2 DEF InUse
    <3>2. taken > 0 /\ q.len < QueueLen
      BY <3>1 DEF IInv, SlotBlocked
    <3> QED
      BY <1>1, <1>2, <3>1, <3>2
  <2> QED
    BY <2>1, <2>2
<1>4. n \in tuplectx[CtxIdx(n)]
  BY DEF IInv, MemoryAlive
<1>5. CASE tuple_cnt % QueueLen = 0
  <2>1. CtxIdx(n) # CtxIdx(tuple_cnt)
    BY <1>1, <1>3, <1>5, SameParityIsOld DEF CtxIdx
  <2>2. CtxIdx(n) \in {0, 1}
    <3>1. n \div QueueLen \in Nat
      BY <1>3, DivMod
    <3> QED
      BY <3>1 DEF CtxIdx
  <2> QED
    BY <1>1, <1>4, <1>5, <2>1, <2>2 DEF CtxAtIterate
<1>6. CASE tuple_cnt % QueueLen # 0
  BY <1>4, <1>6 DEF CtxAtIterate
<1> QED
  BY <1>5, <1>6

(* A step that leaves the queue but for its state, and the two counters,   *)
(* alone keeps the order of the ring.                                      *)
LEMMA RingOrderKept ==
  ASSUME RingOrder, q'.len = q.len, q'.start = q.start, q'.tuples = q.tuples,
         tuple_cnt' = tuple_cnt, taken' = taken
  PROVE  RingOrder' /\ Pending' = Pending
BY DEF RingOrder, Pending, Rows

(* The child FDW returns a tuple.                                          *)
LEMMA FetchStep == IInv /\ ChildFetch => IInv'
<1> SUFFICES ASSUME IInv, ChildFetch PROVE IInv'
  OBVIOUS
<1>1. /\ cpc = "iterate" /\ tuple_cnt < MaxRows /\ cpc' = "add"
      /\ q' = q /\ tuple_cnt' = tuple_cnt /\ mpc' = mpc /\ taken' = taken /\ holding' = holding
      /\ tuplectx' = [CtxAtIterate EXCEPT ![CtxIdx(tuple_cnt)] = @ \cup {tuple_cnt}]
  BY DEF ChildFetch
<1>2. /\ tuple_cnt \in Nat /\ tuple_cnt \in Rows
      /\ tuplectx \in [{0, 1} -> SUBSET Rows]
  BY <1>1 DEF IInv, TypeOK, Rows
<1>3. CtxIdx(tuple_cnt) \in {0, 1}
  <2>1. tuple_cnt \div QueueLen \in Nat
    BY <1>2, DivMod
  <2> QED
    BY <2>1 DEF CtxIdx
<1>4. CtxAtIterate \in [{0, 1} -> SUBSET Rows]
  BY <1>2, <1>3 DEF CtxAtIterate
<1>5. /\ tuplectx' \in [{0, 1} -> SUBSET Rows]
      /\ tuple_cnt \in tuplectx'[CtxIdx(tuple_cnt)]
      /\ \A i \in {0, 1} : CtxAtIterate[i] \subseteq tuplectx'[i]
  BY <1>1, <1>2, <1>3, <1>4
<1>6. TypeOK'
  BY <1>1, <1>5 DEF IInv, TypeOK
<1>7. RingOrder' /\ Pending' = Pending
  BY <1>1, RingOrderKept DEF IInv
<1>8. SlotBlocked'
  BY <1>1 DEF IInv, SlotBlocked
<1>9. AddReady'
  <2>1. CtxIdx(tuple_cnt)' = CtxIdx(tuple_cnt)
    BY <1>1 DEF CtxIdx
  <2> QED
    BY <1>1, <1>5, <2>1 DEF IInv, AddReady
<1>10. MemoryAlive'
  <2> SUFFICES ASSUME NEW n \in Pending \cup InUse
               PROVE  n \in tuplectx'[CtxIdx(n)]
    BY <1>1, <1>7 DEF MemoryAlive, CtxIdx, InUse
  <2>1. n \in CtxAtIterate[CtxIdx(n)]
    BY ResetKeeps
  <2>2. CtxIdx(n) \in {0, 1}
    <3>1. n \in Nat
      BY DEF Pending, InUse, IInv, TypeOK, SlotBlocked, Rows
    <3>2. n \div QueueLen \in Nat
      BY <3>1, DivMod
    <3> QED
      BY <3>2 DEF CtxIdx
  <2> QED
    BY <1>5, <2>1, <2>2
<1> QED
  BY <1>6, <1>7, <1>8, <1>9, <1>10 DEF IInv

(* The child FDW ends or fails; the child closes the queue.                *)
LEMMA CloseStep == IInv /\ (ChildFinish \/ ChildFail) => IInv'
<1> SUFFICES ASSUME IInv, ChildFinish \/ ChildFail PROVE IInv'
  OBVIOUS
<1>1. /\ cpc' = "done" /\ tuplectx' = CtxAtIterate
      /\ tuple_cnt' = tuple_cnt /\ mpc' = mpc /\ taken' = taken /\ holding' = holding
  BY DEF ChildFinish, ChildFail
<1>2. PICK st \in SpdQueueState : q' = [q EXCEPT !.queue_state = st]
  BY DEF ChildFinish, ChildFail, NotifyFinish, NotifyError, SpdQueueState
<1>3. q \in TupleQueue(Rows)
  BY DEF IInv, TypeOK
<1>4. /\ q' \in TupleQueue(Rows)
      /\ q'.len = q.len /\ q'.start = q.start /\ q'.tuples = q.tuples
      /\ q'.main_process_idx = q.main_process_idx
      /\ q'.safe_to_clear = q.safe_to_clear
  BY <1>2, <1>3, NotifyFields
<1>5. TypeOK'
  <2>1. tuple_cnt \in Nat /\ tuplectx \in [{0, 1} -> SUBSET Rows]
    BY DEF IInv, TypeOK
  <2>2. CtxAtIterate \in [{0, 1} -> SUBSET Rows]
    BY <2>1 DEF CtxAtIterate
  <2>3. cpc' \in {"iterate", "add", "spin", "done"}
    BY <1>1
  <2> QED
    BY <1>1, <1>4, <2>2, <2>3 DEF IInv, TypeOK
<1>6. RingOrder' /\ Pending' = Pending
  BY <1>1, <1>4, RingOrderKept DEF IInv
<1>7. SlotBlocked'
  BY <1>1, <1>4 DEF IInv, SlotBlocked
<1>8. AddReady'
  BY <1>1 DEF AddReady
<1>9. MemoryAlive'
  <2> SUFFICES ASSUME NEW n \in Pending \cup InUse
               PROVE  n \in tuplectx'[CtxIdx(n)]
    BY <1>1, <1>6 DEF MemoryAlive, CtxIdx, InUse
  <2> QED
    BY <1>1, ResetKeeps
<1> QED
  BY <1>5, <1>6, <1>7, <1>8, <1>9 DEF IInv

(* spd_queue_add goes to sleep, or the main thread learns the end.         *)
LEMMA WaitStep == IInv /\ (ChildSpin \/ MainEnd) => IInv'
<1> SUFFICES ASSUME IInv, ChildSpin \/ MainEnd PROVE IInv'
  OBVIOUS
<1>1. /\ q' = q /\ tuple_cnt' = tuple_cnt /\ tuplectx' = tuplectx
      /\ taken' = taken /\ holding' = holding
  BY DEF ChildSpin, MainEnd
<1>2. RingOrder' /\ Pending' = Pending
  BY <1>1, RingOrderKept DEF IInv
<1>3. MemoryAlive'
  BY <1>1, <1>2 DEF IInv, MemoryAlive, CtxIdx, InUse
<1>4. CASE ChildSpin
  <2>1. cpc = "add" /\ cpc' = "spin" /\ mpc' = mpc /\ ~QueueRefuses(q) /\ QueueMustWait(q)
    BY <1>4 DEF ChildSpin
  <2>2. q.len < QueueLen
    BY <2>1 DEF QueueRefuses, IInv, TypeOK, TupleQueue
  <2>3. AddIdx(q)' = AddIdx(q) /\ CtxIdx(tuple_cnt)' = CtxIdx(tuple_cnt)
    BY <1>1 DEF AddIdx, CtxIdx
  <2>4. AddReady'
    BY <1>1, <2>1, <2>2, <2>3 DEF IInv, AddReady, QueueMustWait
  <2>5. TypeOK'
    BY <1>1, <2>1 DEF IInv, TypeOK
  <2>6. SlotBlocked'
    BY <1>1, <2>1 DEF IInv, SlotBlocked
  <2> QED
    BY <1>2, <1>3, <2>4, <2>5, <2>6 DEF IInv
<1>5. CASE MainEnd
  <2>1. mpc = "get" /\ mpc' \in {"eof", "error"} /\ cpc' = cpc
    BY <1>5 DEF MainEnd
  <2>2. TypeOK'
    BY <1>1, <2>1 DEF IInv, TypeOK
  <2>3. SlotBlocked'
    BY <1>1, <2>1 DEF IInv, SlotBlocked
  <2>4. AddIdx(q)' = AddIdx(q) /\ CtxIdx(tuple_cnt)' = CtxIdx(tuple_cnt)
    BY <1>1 DEF AddIdx, CtxIdx
  <2>5. AddReady'
    BY <1>1, <2>1, <2>4 DEF IInv, AddReady
  <2> QED
    BY <1>2, <1>3, <2>2, <2>3, <2>5 DEF IInv
<1> QED
  BY <1>4, <1>5

(* The executor asks for a tuple and gives the last one back.              *)
LEMMA CallStep == IInv /\ MainCall => IInv'
<1> SUFFICES ASSUME IInv, MainCall PROVE IInv'
  OBVIOUS
<1>1. /\ mpc = "idle" /\ mpc' = "get" /\ holding' = FALSE
      /\ cpc' = cpc /\ tuple_cnt' = tuple_cnt /\ tuplectx' = tuplectx /\ taken' = taken
  BY DEF MainCall
<1>2. q \in TupleQueue(Rows)
  BY DEF IInv, TypeOK
<1>3. /\ q' \in TupleQueue(Rows)
      /\ q'.len = q.len /\ q'.start = q.start /\ q'.tuples = q.tuples
      /\ q'.queue_state = q.queue_state /\ q'.main_process_idx = q.main_process_idx
  <2>1. CASE q' = q
    BY <1>2, <2>1
  <2>2. CASE q' = [q EXCEPT !.safe_to_clear = TRUE]
    BY <1>2, <2>2, SafeFields
  <2> QED
    BY <2>1, <2>2 DEF MainCall
<1>4. TypeOK'
  <2>1. mpc' \in {"idle", "get", "eof", "error"} /\ holding' \in BOOLEAN
    BY <1>1
  <2> QED
    BY <1>1, <1>3, <2>1 DEF IInv, TypeOK
<1>5. RingOrder' /\ Pending' = Pending
  BY <1>1, <1>3, RingOrderKept DEF IInv
<1>6. SlotBlocked'
  BY <1>1 DEF SlotBlocked
<1>7. AddReady'
  <2>1. AddIdx(q)' = AddIdx(q) /\ CtxIdx(tuple_cnt)' = CtxIdx(tuple_cnt)
    BY <1>1, <1>3 DEF AddIdx, CtxIdx
  <2> QED
    BY <1>1, <1>3, <2>1 DEF IInv, AddReady
<1>8. MemoryAlive'
  <2>1. InUse' = {}
    BY <1>1 DEF InUse
  <2> QED
    BY <1>1, <1>5, <2>1 DEF IInv, MemoryAlive, CtxIdx
<1> QED
  BY <1>4, <1>5, <1>6, <1>7, <1>8 DEF IInv

(* The main thread takes the tuple at the head of the queue.               *)
LEMMA GetStep == IInv /\ MainGet => IInv'
<1> SUFFICES ASSUME IInv, MainGet PROVE IInv'
  OBVIOUS
<1>1. /\ mpc = "get" /\ cpc # "spin" /\ q.len > 0 /\ q' = QueueGet(q)
      /\ taken' = taken + 1 /\ holding' = TRUE /\ mpc' = "idle"
      /\ cpc' = cpc /\ tuple_cnt' = tuple_cnt /\ tuplectx' = tuplectx
  BY DEF MainGet
<1>2. q \in TupleQueue(Rows) /\ taken \in 0 .. MaxRows /\ tuple_cnt \in 0 .. MaxRows
  BY DEF IInv, TypeOK
<1>3. /\ q' \in TupleQueue(Rows)
      /\ q'.len = q.len - 1
      /\ q'.start = (q.start + 1) % QueueLen
      /\ q'.tuples = q.tuples
      /\ q'.queue_state = q.queue_state
      /\ q'.main_process_idx = q.start
      /\ q'.safe_to_clear = FALSE
  BY <1>1, <1>2, GetFields
<1>4. q.len = tuple_cnt - taken /\ q.start = taken % QueueLen /\ q.len \in 0 .. QueueLen
  BY <1>2 DEF IInv, RingOrder, TupleQueue
<1>5. taken < tuple_cnt /\ taken \in Rows /\ taken \in Nat /\ taken \in Pending
  BY <1>1, <1>2, <1>4 DEF Rows, Pending
<1>6. TypeOK'
  <2>1. taken' \in 0 .. MaxRows
    BY <1>1, <1>2, <1>5
  <2>2. mpc' \in {"idle", "get", "eof", "error"} /\ holding' \in BOOLEAN
    BY <1>1
  <2> QED
    BY <1>1, <1>3, <2>1, <2>2 DEF IInv, TypeOK
<1>7. Pending' \subseteq Pending /\ InUse' = {taken}
  BY <1>1, <1>2 DEF Pending, InUse, Rows
<1>8. RingOrder'
  <2>1. q'.len = tuple_cnt' - taken'
    <3>1. q'.len = q.len - 1 /\ tuple_cnt' = tuple_cnt /\ taken' = taken + 1
      BY <1>1, <1>3
    <3>2. q.len = tuple_cnt - taken /\ taken \in Nat /\ tuple_cnt \in Nat
      BY <1>2, <1>4
    <3> QED
      BY <3>1, <3>2
  <2>2. q'.start = taken' % QueueLen
    BY <1>1, <1>3, <1>4, <1>5, ModSucc
  <2>3. \A n \in Pending' : q'.tuples[n % QueueLen] = n
    BY <1>3, <1>7 DEF IInv, RingOrder
  <2> QED
    BY <2>1, <2>2, <2>3 DEF RingOrder
<1>9. SlotBlocked'
  <2>1. taken' > 0 /\ taken' - 1 = taken
    BY <1>1, <1>5
  <2>2. q'.main_process_idx = taken % QueueLen
    BY <1>3, <1>4
  <2>3. q'.tuples[taken % QueueLen] = taken
    BY <1>3, <1>5 DEF IInv, RingOrder
  <2>4. q'.len < QueueLen
    BY <1>3, <1>4
  <2> QED
    BY <1>1, <1>3, <2>1, <2>2, <2>3, <2>4 DEF SlotBlocked
<1>10. AddReady'
  <2>1. CtxIdx(tuple_cnt)' = CtxIdx(tuple_cnt)
    BY <1>1 DEF CtxIdx
  <2> QED
    BY <1>1, <1>3, <2>1 DEF IInv, AddReady
<1>11. MemoryAlive'
  <2> SUFFICES ASSUME NEW n \in Pending
               PROVE  n \in tuplectx[CtxIdx(n)]
    BY <1>1, <1>5, <1>7 DEF MemoryAlive, CtxIdx
  <2> QED
    BY DEF IInv, MemoryAlive
<1> QED
  BY <1>6, <1>8, <1>9, <1>10, <1>11 DEF IInv

-----------------------------------------------------------------------------
(* Every step keeps the invariant.                                         *)
LEMMA NextIInv == IInv /\ [Next]_vars => IInv'
<1> SUFFICES ASSUME IInv, [Next]_vars PROVE IInv'
  OBVIOUS
<1>1. CASE UNCHANGED vars
  <2>1. Pending' = Pending /\ InUse' = InUse
    BY <1>1 DEF vars, Pending, InUse, Rows
  <2>2. AddIdx(q)' = AddIdx(q) /\ CtxIdx(tuple_cnt)' = CtxIdx(tuple_cnt)
    BY <1>1 DEF vars, AddIdx, CtxIdx
  <2>3. TypeOK' /\ SlotBlocked'
    BY <1>1 DEF vars, IInv, TypeOK, SlotBlocked
  <2>4. RingOrder'
    BY <1>1, <2>1 DEF vars, IInv, RingOrder
  <2>5. AddReady'
    BY <1>1, <2>2 DEF vars, IInv, AddReady
  <2>6. MemoryAlive'
    BY <1>1, <2>1 DEF vars, IInv, MemoryAlive, CtxIdx
  <2> QED
    BY <2>3, <2>4, <2>5, <2>6 DEF IInv
<1>2. CASE Next
  BY <1>1, <1>2, AddStep, FetchStep, CloseStep, WaitStep, CallStep, GetStep
     DEF Next, Child, Main, Over
<1> QED
  BY <1>1, <1>2

(* The queue, the two threads and the two memory contexts keep the         *)
(* inductive invariant, whatever the length of the queue.                  *)
THEOREM Invariance == Spec => []IInv
BY InitIInv, NextIInv, PTL DEF Spec

(* The ring, the two loops and the two memory contexts keep their types:   *)
(* start stays inside the ring and len never exceeds its length, although  *)
(* spd_queue_add and spd_queue_get never check an index.                   *)
THEOREM TypeCorrect == Spec => []TypeOK
<1>1. IInv => TypeOK
  BY DEF IInv
<1> QED
  BY <1>1, Invariance, PTL

(* The slot of the tuple the main thread is using (main_process_idx) is    *)
(* never refilled by spd_queue_add.                                        *)
THEOREM SlotIntactAlways == Spec => []SlotIntact
<1>1. IInv => SlotIntact
  BY DEF IInv, SlotBlocked, SlotIntact
<1> QED
  BY <1>1, Invariance, PTL

(* The alternating reset of tuplectx[0] and tuplectx[1] never frees a      *)
(* tuple that is queued or in use.                                         *)
THEOREM MemoryAliveAlways == Spec => []MemoryAlive
<1>1. IInv => MemoryAlive
  BY DEF IInv
<1> QED
  BY <1>1, Invariance, PTL

-----------------------------------------------------------------------------
(* The refinement: every step of the queue is a step of the stream.        *)

(* What the main thread sees is the tuple it took last, or none.           *)
SeenIsTaken == Seen = IF holding THEN taken - 1 ELSE NoTuple

(* Under the invariant the tuple in use is the one spd_queue_get returned. *)
LEMMA SeenValue == IInv => SeenIsTaken
<1> SUFFICES ASSUME IInv PROVE SeenIsTaken
  OBVIOUS
<1>1. CASE holding
  <2>1. q.tuples[q.main_process_idx] = taken - 1
    BY <1>1 DEF IInv, SlotBlocked
  <2>2. taken - 1 \in tuplectx[CtxIdx(taken - 1)]
    BY <1>1 DEF IInv, MemoryAlive, InUse
  <2> QED
    BY <1>1, <2>1, <2>2 DEF Seen, SeenIsTaken
<1>2. CASE ~holding
  BY <1>2 DEF Seen, SeenIsTaken
<1> QED
  BY <1>1, <1>2

(* The queue starts as an empty open stream.                               *)
LEMMA InitStream == Init => Stream!Init
BY DEF Init, Stream!Init, QueueInit, Seen, Told

(* Every step is a step of the stream or leaves it alone; fetching from    *)
(* the child FDW and going to sleep in spd_queue_add are not visible.      *)
LEMMA NextStream ==
  ASSUME IInv, SeenIsTaken, IInv', SeenIsTaken', [Next]_vars
  PROVE  [Stream!Next]_(Stream!svars)
<1> USE DEF SeenIsTaken
<1>1. /\ taken \in Nat /\ tuple_cnt \in Nat /\ q \in TupleQueue(Rows)
      /\ q.len \in Nat /\ q.len = tuple_cnt - taken
  BY DEF IInv, TypeOK, RingOrder, TupleQueue
<1>2. CASE ChildFetch \/ ChildSpin \/ Over \/ UNCHANGED vars
  <2>1. q' = q /\ tuple_cnt' = tuple_cnt /\ taken' = taken /\ holding' = holding /\ mpc' = mpc
    BY <1>2 DEF ChildFetch, ChildSpin, Over, vars
  <2> QED
    BY <2>1 DEF Stream!svars, Told
<1>3. CASE ChildFinish \/ ChildFail
  <2>1. /\ cpc = "iterate" /\ tuple_cnt' = tuple_cnt /\ taken' = taken
        /\ holding' = holding /\ mpc' = mpc
    BY <1>3 DEF ChildFinish, ChildFail
  <2>2. q'.queue_state \in {"FINISH", "ERROR"}
    BY <1>1, <1>3 DEF ChildFinish, ChildFail, NotifyFinish, NotifyError, TupleQueue
  <2>3. q.queue_state = "OK"
    BY <2>1 DEF IInv, AddReady
  <2>4. Stream!Close
    BY <2>1, <2>2, <2>3 DEF Stream!Close, Told
  <2> QED
    BY <2>4 DEF Stream!Next
<1>4. CASE ChildAdd \/ ChildWake
  <2>1. /\ Store /\ cpc \in {"add", "spin"}
        /\ tuple_cnt' = tuple_cnt + 1 /\ taken' = taken /\ holding' = holding /\ mpc' = mpc
    BY <1>4 DEF ChildAdd, ChildWake, Store
  <2>2. q.queue_state = "OK" /\ q'.queue_state = q.queue_state
    BY <1>1, <2>1 DEF IInv, AddReady, Store, QueueStore, TupleQueue
  <2>3. (tuple_cnt - taken) + (IF Seen = NoTuple THEN 0 ELSE 1) < QueueLen
    <3>1. q'.len = tuple_cnt' - taken' /\ q'.len \in 0 .. QueueLen
      BY DEF IInv, RingOrder, TypeOK, TupleQueue
    <3>2. tuple_cnt - taken < QueueLen
      BY <1>1, <2>1, <3>1
    <3>3. holding => q'.len < QueueLen
      BY <2>1 DEF IInv, SlotBlocked
    <3>4. holding => (tuple_cnt - taken) + 1 < QueueLen
      BY <1>1, <2>1, <3>1, <3>3
    <3>5. ~holding => Seen = NoTuple
      OBVIOUS
    <3>6. CASE holding
      BY <1>1, <3>2, <3>4, <3>6
    <3>7. CASE ~holding
      BY <1>1, <3>2, <3>5, <3>7
    <3> QED
      BY <3>6, <3>7
  <2>4. Stream!Produce
    BY <2>1, <2>2, <2>3 DEF Stream!Produce, Stream!InUse, Told
  <2> QED
    BY <2>4 DEF Stream!Next
<1>5. CASE MainCall
  <2>1. /\ mpc = "idle" /\ mpc' = "get" /\ holding' = FALSE
        /\ tuple_cnt' = tuple_cnt /\ taken' = taken
    BY <1>5 DEF MainCall
  <2>2. q'.queue_state = q.queue_state
    BY <1>1, <1>5 DEF MainCall, TupleQueue
  <2>3. Told' = Told
    BY <2>1 DEF Told
  <2>4. CASE holding
    <3>1. taken - 1 \in Nat
      BY <1>1, <2>4 DEF IInv, SlotBlocked
    <3>2. Seen # NoTuple /\ Seen' = NoTuple
      BY <2>1, <2>4, <3>1, NoTupleAssumption
    <3>3. Stream!Ask
      BY <2>1, <2>2, <2>3, <3>2 DEF Stream!Ask
    <3> QED
      BY <3>3 DEF Stream!Next
  <2>5. CASE ~holding
    BY <2>1, <2>2, <2>3, <2>5 DEF Stream!svars
  <2> QED
    BY <2>4, <2>5
<1>6. CASE MainGet
  <2>1. /\ mpc = "get" /\ mpc' = "idle" /\ holding' = TRUE /\ q.len > 0
        /\ tuple_cnt' = tuple_cnt /\ taken' = taken + 1 /\ q' = QueueGet(q)
    BY <1>6 DEF MainGet
  <2>2. q'.queue_state = q.queue_state
    BY <1>1, <2>1, GetFields
  <2>3. ~holding
    BY <2>1 DEF IInv, SlotBlocked
  <2>4. Seen = NoTuple /\ Seen' = taken
    BY <1>1, <2>1, <2>3
  <2>5. taken < tuple_cnt
    BY <1>1, <2>1
  <2>6. Stream!Deliver
    BY <2>1, <2>2, <2>4, <2>5 DEF Stream!Deliver, Told
  <2> QED
    BY <2>6 DEF Stream!Next
<1>7. CASE MainEnd
  <2>1. /\ mpc = "get" /\ q.len = 0 /\ q.queue_state # "OK"
        /\ mpc' = (IF q.queue_state = "FINISH" THEN "eof" ELSE "error")
        /\ q' = q /\ tuple_cnt' = tuple_cnt /\ taken' = taken /\ holding' = holding
    BY <1>7 DEF MainEnd
  <2>2. ~holding
    BY <2>1 DEF IInv, SlotBlocked
  <2>3. taken = tuple_cnt
    BY <1>1, <2>1
  <2>4. q.queue_state \in {"FINISH", "ERROR"}
    BY <1>1, <2>1 DEF TupleQueue, SpdQueueState
  <2>5. Told = "none" /\ Told' = q.queue_state
    BY <2>1, <2>4 DEF Told
  <2>6. Stream!Tell
    BY <2>1, <2>2, <2>3, <2>5 DEF Stream!Tell
  <2> QED
    BY <2>6 DEF Stream!Next
<1> QED
  BY <1>2, <1>3, <1>4, <1>5, <1>6, <1>7 DEF Next, Child, Main

(* The queue with its two threads implements the safety part of the        *)
(* stream: what spd_queue_add stores is what spd_queue_get hands out, once *)
(* each, in order, unchanged while in use, and before the end is told.     *)
THEOREM Refinement == Spec => Stream!SafeSpec
<1>1. IInv /\ SeenIsTaken /\ IInv' /\ SeenIsTaken' /\ [Next]_vars
        => [Stream!Next]_(Stream!svars)
  BY NextStream
<1>2. Spec => [](IInv /\ SeenIsTaken)
  BY Invariance, SeenValue, PTL
<1> QED
  BY <1>1, <1>2, InitStream, PTL DEF Spec, Stream!SafeSpec

=============================================================================
