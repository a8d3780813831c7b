------------------------- MODULE ForeignScanProofs -------------------------
(***************************************************************************)
(* ForeignScan for any number of children, any rows, any failures and any  *)
(* bounds: what the threads and the main thread keep true together, and    *)
(* the properties of the scan that follow, each with the condition on the  *)
(* environment that it needs.                                              *)
(***************************************************************************)
EXTENDS ForeignScan, RingArithmetic, FiniteSetTheorems

USE ScanAssumption, QueueLenAssumption

-----------------------------------------------------------------------------
(* The invariant: types.                                                   *)

ChildPc ==
  {"created", "begin", "beginning", "rescan", "rescanned", "wait", "waiting", "iterate",
   "pend", "pended", "add", "spin", "left", "end", "end_wait", "ending", "ended",
   "exit", "exit_end", "final", "gone"}

MainPc ==
  {"create", "idle", "next", "notify", "rescan", "rescan_start", "rescan_wait",
   "end_call", "end_loop", "end_join", "sub_end", "sub_loop", "sub_join", "sub_wait",
   "txn", "done"}

Fdw == [begun : BOOLEAN, failed : BOOLEAN, ends : Nat, scan : 0 .. MaxReScans, row : Nat]

(* The variables that a step of a child thread may change,                 *)
ThreadTypes ==
  /\ state \in [Thread -> ThreadState]
  /\ requestRescan \in [Thread -> BOOLEAN]
  /\ requestEndScan \in [Thread -> BOOLEAN]
  /\ tupleQueue \in [Thread -> TupleQueue(Tuple)]
  /\ cpc \in [Thread -> ChildPc]
  /\ slot \in [Thread -> Tuple \cup {NoTuple}]
  /\ old_state \in [Thread -> ThreadState \ {"PENDING"}]
  /\ fdw \in [Thread -> Fdw]
  /\ force_end \in BOOLEAN

(* and those of the main thread.                                           *)
MainTypes ==
  /\ requestStartScan \in [Thread -> BOOLEAN]
  /\ is_joined \in [Thread -> BOOLEAN]
  /\ requestPending \in BOOLEAN
  /\ mpc \in MainPc
  /\ node_incr \in 0 .. NThreads
  /\ all_finished \in BOOLEAN
  /\ startNodeId \in 0 .. NThreads
  /\ lastThreadId \in Thread \cup {-1}
  /\ isFirst \in BOOLEAN
  /\ level \in Nat
  /\ subxact \in {"none", "start", "commit", "abort"}
  /\ setting \in Settings
  /\ outcome \in {"open", "eof", "failed"}
  /\ got \in [Thread -> Seq(Tuple \cup {NoTuple})]
  /\ rescans \in [Thread -> 0 .. MaxReScans]
  /\ nrescan \in 0 .. MaxReScans
  /\ nsubxact \in 0 .. MaxSubXacts

Types == ThreadTypes /\ MainTypes

(* The threads that count as running, and their number.                    *)
Running == {t \in Thread : cpc[t] \notin {"created", "gone"}}

Counted == num_running = Cardinality(Running)

-----------------------------------------------------------------------------
(* What the environment may do.                                            *)

(* No other scan fails, or there is no rescan that could go wrong by it.   *)
Quiet == ~OtherScans \/ MaxReScans = 0

(* Nothing fails at all.                                                   *)
NoFailure == MayFail = {} /\ ~StatementTimeout /\ ~OtherScans

(* Errors of children are not to be thrown.                                *)
NotThrown == \A s \in Settings : ~s.throwErrorIfDead

(* The scan belongs to the top level, so that no subtransaction ends it.   *)
TopLevel == ScanLevel = 1 /\ ~OtherScans

(* Nothing is rescanned, and no other scan fails.                          *)
NoRescan == MaxReScans = 0 /\ ~OtherScans

-----------------------------------------------------------------------------
(* The invariant: one thread and the main thread.                          *)

(* The thread leaves, or is about to, and takes no more requests.          *)
Doomed(t) ==
  \/ cpc[t] \in {"exit", "exit_end", "final", "gone"}
  \/ cpc[t] \in {"left", "ended"} /\ InError(t)

(* No error has been thrown, or is on its way to the threads.              *)
Live == outcome # "failed" /\ mpc # "notify"

Rescanning == mpc \in {"rescan", "rescan_start", "rescan_wait"}

(* The main thread has asked t to end and waits for it.                    *)
Joining(t) == mpc \in {"end_join", "sub_join"} /\ node_incr = t

(* A rescan is asked for once per call, and done after it was asked for.   *)
RescanOrder(t) ==
  /\ fdw[t].scan <= rescans[t]
  /\ requestRescan[t] => fdw[t].scan < rescans[t]
  /\ cpc[t] = "rescanned" => fdw[t].scan > 0
  /\ rescans[t] <= nrescan
  /\ mpc = "rescan" /\ node_incr <= t => rescans[t] < nrescan
  /\ mpc = "rescan_start" /\ node_incr < t => rescans[t] < nrescan

(* A thread asleep in spd_queue_add has room, and only one that waits for  *)
(* the main thread says it is pending.                                     *)
WaitInv(t) ==
  /\ cpc[t] = "spin" => ~QueueRefuses(tupleQueue[t])
  /\ state[t] = "PENDING" => cpc[t] = "pended"

(* As long as no error was thrown, the state says where the thread is.     *)
StateInv(t) ==
  Live =>
    /\ state[t] \in ErrorStates \cup {"FINISH"} => Doomed(t)
    /\ state[t] # "ERROR" /\ old_state[t] # "ERROR"
    /\ cpc[t] \in {"begin", "beginning", "wait", "waiting", "iterate", "pend", "add", "spin"} =>
         AtWork(t)
    /\ cpc[t] = "created" => state[t] = "INIT"
    /\ cpc[t] = "pended" => old_state[t] \in ExecuteStates
    /\ cpc[t] = "rescan" => AtWork(t) \/ requestRescan[t]

(* spd_ReScanForeignScan does not return before every thread that has not  *)
(* left, and is not about to, has rescanned.                               *)
RescanInv(t) ==
  /\ Rescanning => Len(got[t]) = 0
  /\ ~Doomed(t) =>
       /\ rescans[t] = IF requestRescan[t] THEN fdw[t].scan + 1 ELSE fdw[t].scan
       /\ ~Rescanning => ~requestRescan[t] /\ rescans[t] = nrescan
       /\ mpc = "rescan" /\ node_incr <= t => ~requestRescan[t] /\ rescans[t] + 1 = nrescan
       /\ mpc = "rescan" /\ t < node_incr => rescans[t] = nrescan
       /\ mpc = "rescan_start" /\ node_incr < t => ~requestRescan[t] /\ rescans[t] + 1 = nrescan
       /\ mpc = "rescan_start" /\ t <= node_incr => rescans[t] = nrescan
       /\ mpc = "rescan_wait" => rescans[t] = nrescan
       /\ mpc = "rescan_wait" /\ t < node_incr => ~requestRescan[t]

(* Only the main thread, which then waits for the thread, and an error ask *)
(* a thread to end, and what has ended does not rescan.                    *)
EndAsked(t) ==
  /\ requestEndScan[t] => Doomed(t) \/ Joining(t) \/ ~Live
  /\ cpc[t] = "ending" => Joining(t) \/ ~Live
  /\ cpc[t] = "ended" => Doomed(t) \/ requestRescan[t] \/ Joining(t) \/ ~Live
  /\ fdw[t].ends > 0 => cpc[t] \in {"ending", "ended", "exit", "exit_end", "final", "gone"}
  /\ cpc[t] = "ending" \/ (cpc[t] = "ended" /\ fdw[t].ends > 0) => Doomed(t) \/ ~requestRescan[t]

(* EndForeignScan has been called, or will be, unless the child failed.    *)
CleanInv(t) ==
  /\ state[t] = "ERROR_INIT" \/ old_state[t] = "ERROR_INIT" => fdw[t].failed
  /\ outcome = "failed" \/ (mpc = "notify" /\ t < node_incr) =>
       requestEndScan[t] \/ fdw[t].ends > 0
  /\ cpc[t] = "ending" => fdw[t].ends > 0
  /\ cpc[t] = "ended" => requestRescan[t] \/ requestEndScan[t] \/ fdw[t].ends > 0
  /\ cpc[t] \in {"exit", "exit_end"} => requestEndScan[t] \/ fdw[t].ends > 0
  /\ cpc[t] \in {"final", "gone"} => fdw[t].failed \/ fdw[t].ends > 0

(* The loops that end threads leave none out.                              *)
JoinInv(t) ==
  /\ is_joined[t] => cpc[t] = "gone"
  /\ mpc \in {"end_loop", "end_join"} /\ t < node_incr => is_joined[t]
  /\ mpc \in {"sub_loop", "sub_join"} /\ ScanLevel >= level /\ t < node_incr => is_joined[t]
  /\ mpc \in {"sub_wait", "txn"} /\ subxact # "start" /\ ScanLevel >= level => is_joined[t]
  /\ mpc = "done" => is_joined[t]

(* Where the thread has returned no row since the last rescan, and where   *)
(* it has one that is not in the queue yet.                                *)
Fresh == {"created", "begin", "beginning", "rescan", "rescanned", "wait", "waiting"}
Holding == {"pend", "pended", "add", "spin"}

(* What the main thread has received, the queue, and the row at hand are   *)
(* one after the other the rows of the child since the last rescan.        *)
Received(t) == \A k \in 1 .. Len(got[t]) : got[t][k] = <<nrescan, k>>

Queued(t) ==
  \A i \in 0 .. tupleQueue[t].len - 1 :
    tupleQueue[t].tuples[(tupleQueue[t].start + i) % QueueLen] = <<nrescan, Len(got[t]) + 1 + i>>

AtHand(t) ==
  /\ cpc[t] \in Fresh => fdw[t].row = 0 /\ Len(got[t]) = 0
  /\ cpc[t] = "iterate" => fdw[t].row = Len(got[t]) + tupleQueue[t].len
  /\ cpc[t] \in Holding => /\ fdw[t].row = Len(got[t]) + tupleQueue[t].len + 1
                           /\ slot[t] = <<nrescan, fdw[t].row>>

(* The queue is empty before the rows of a new scan are put into it.       *)
EmptyFirst(t) ==
  /\ cpc[t] \in Fresh => tupleQueue[t].len = 0
  /\ cpc[t] = "ended" /\ requestRescan[t] => Doomed(t) \/ tupleQueue[t].len = 0

StreamInv(t) ==
  /\ fdw[t].scan = nrescan => Received(t) /\ Queued(t) /\ AtHand(t)
  /\ EmptyFirst(t)

(* Every row has been received, or the child has failed and that is not    *)
(* to be thrown.                                                           *)
Complete(t) == Len(got[t]) = setting.rows[t] \/ (fdw[t].failed /\ ~setting.throwErrorIfDead)

(* Until the scan is ended, a thread leaves only in error, and a queue is  *)
(* finished only when its child has no more rows.                          *)
FinishInv(t) ==
  Live /\ mpc \notin {"end_loop", "end_join", "done"} =>
    /\ Doomed(t) => InError(t)
    /\ tupleQueue[t].queue_state = "ERROR" => Doomed(t)
    /\ tupleQueue[t].queue_state = "FINISH" =>
         \/ fdw[t].failed /\ ~setting.throwErrorIfDead
         \/ /\ ~Doomed(t) /\ cpc[t] \in {"left", "end", "end_wait"}
            /\ fdw[t].row = setting.rows[t]
            /\ fdw[t].scan = nrescan => fdw[t].row = Len(got[t]) + tupleQueue[t].len

(* Where nothing fails a thread ends because the main thread asked it to,  *)
(* and no rescan is left undone then.                                      *)
OnceInv(t) ==
  /\ ~InError(t) /\ ~fdw[t].failed
  /\ old_state[t] \notin ErrorStates
  /\ tupleQueue[t].queue_state # "ERROR"
  /\ requestEndScan[t] => Joining(t)
  /\ cpc[t] \in {"ending", "exit", "exit_end", "final"} => Joining(t)
  /\ cpc[t] = "ended" /\ ~requestRescan[t] => Joining(t)
  /\ cpc[t] = "gone" => Joining(t) \/ is_joined[t]
  /\ cpc[t] \in {"final", "gone"} => ~requestEndScan[t]
  /\ ScanLevel = 1 /\ mpc \in {"end_loop", "end_join", "done"} =>
       fdw[t].scan = nrescan /\ rescans[t] = nrescan

(* Where nothing is rescanned, a thread that was found safe stays so until *)
(* core has changed the transaction.                                       *)
SafeInv(t) ==
  Live => (mpc = "txn" \/ (mpc = "sub_wait" /\ t < node_incr) => ~AtWork(t))

(* A child that does not begin late has begun once it has got that far.    *)
BegunInv(t) ==
  Late = {} /\ cpc[t] \notin {"created", "begin", "beginning"} => fdw[t].begun \/ Doomed(t)

ThreadInv(t) ==
  /\ RescanOrder(t) /\ WaitInv(t) /\ StateInv(t) /\ RescanInv(t) /\ JoinInv(t) /\ BegunInv(t)
  /\ ~OtherScans => EndAsked(t) /\ CleanInv(t)
  /\ Quiet => StreamInv(t)
  /\ TopLevel => FinishInv(t)
  /\ NoFailure => OnceInv(t)
  /\ NoRescan => SafeInv(t)

-----------------------------------------------------------------------------
(* The invariant: the main thread alone.                                   *)

(* The nesting level, and what is happening to it.                         *)
LevelInv ==
  /\ 1 <= level /\ level <= ScanLevel + nsubxact
  /\ subxact = "start" => level < ScanLevel + nsubxact
  /\ mpc \in {"sub_end", "sub_loop", "sub_join"} => subxact \in {"commit", "abort"} /\ level > 1
  /\ mpc \in {"sub_wait", "txn"} =>
       subxact = "start" \/ (subxact \in {"commit", "abort"} /\ level > 1)
  /\ mpc \in {"create", "idle", "next", "notify", "rescan", "rescan_start", "rescan_wait"} =>
       subxact = "none"
  /\ mpc = "sub_join" => ScanLevel >= level

OutcomeInv ==
  /\ mpc \in {"create", "next", "notify", "rescan", "rescan_start", "rescan_wait"} =>
       outcome = "open"
  /\ force_end => OtherScans \/ outcome = "failed"

(* NULL is returned after a round in which every child was found complete. *)
EofInv ==
  /\ mpc = "next" /\ all_finished =>
       \A i \in 0 .. node_incr - 1 : Complete((startNodeId + i) % NThreads)
  /\ outcome = "eof" => \A t \in Thread : Complete(t)

MainInv ==
  /\ LevelInv /\ OutcomeInv
  /\ TopLevel => EofInv
  /\ NoFailure \/ NotThrown => Live
  /\ mpc \in {"sub_wait", "txn"} => requestPending

IInv == Types /\ Counted /\ MainInv /\ \A t \in Thread : ThreadInv(t)

-----------------------------------------------------------------------------
(* What the steps of a thread have in common.                              *)

(* Only what belongs to thread t is changed, and the force flag.           *)
Updates(t) ==
  /\ cpc' = [cpc EXCEPT ![t] = cpc'[t]]
  /\ state' = [state EXCEPT ![t] = state'[t]]
  /\ requestRescan' = [requestRescan EXCEPT ![t] = requestRescan'[t]]
  /\ requestEndScan' = [requestEndScan EXCEPT ![t] = requestEndScan'[t]]
  /\ tupleQueue' = [tupleQueue EXCEPT ![t] = tupleQueue'[t]]
  /\ slot' = [slot EXCEPT ![t] = slot'[t]]
  /\ old_state' = [old_state EXCEPT ![t] = old_state'[t]]
  /\ fdw' = [fdw EXCEPT ![t] = fdw'[t]]
  /\ force_end' \in BOOLEAN
  /\ UNCHANGED <<requestStartScan, is_joined, requestPending, mainVars, histVars>>

(* The thread counts itself in and out; only the last one out touches the  *)
(* force flag, and a failure is not taken back.                            *)
Counts(t) ==
  /\ \/ cpc[t] = "created" /\ cpc'[t] = "begin" /\ num_running' = num_running + 1
     \/ cpc[t] = "final" /\ cpc'[t] = "gone" /\ num_running' = num_running - 1
     \/ {cpc[t], cpc'[t]} \cap {"created", "gone"} = {} /\ num_running' = num_running
  /\ force_end' => force_end
  /\ fdw[t].failed => fdw'[t].failed

(* The types of what belongs to a thread.                                  *)
Typed(t) ==
  /\ cpc[t] \in ChildPc
  /\ state[t] \in ThreadState
  /\ requestRescan[t] \in BOOLEAN
  /\ requestEndScan[t] \in BOOLEAN
  /\ tupleQueue[t] \in TupleQueue(Tuple)
  /\ slot[t] \in Tuple \cup {NoTuple}
  /\ old_state[t] \in ThreadState \ {"PENDING"}
  /\ fdw[t] \in Fdw

(* Thread u is as before.                                                  *)
Same(u) ==
  /\ cpc'[u] = cpc[u] /\ state'[u] = state[u]
  /\ requestRescan'[u] = requestRescan[u] /\ requestEndScan'[u] = requestEndScan[u]
  /\ tupleQueue'[u] = tupleQueue[u] /\ slot'[u] = slot[u] /\ old_state'[u] = old_state[u]
  /\ fdw'[u] = fdw[u] /\ is_joined'[u] = is_joined[u]

(* A typed step keeps the types.                                           *)
LEMMA UpdatesTypes ==
  ASSUME NEW t \in Thread, Types, Updates(t), Typed(t)'
  PROVE  Types'
<1>1. ThreadTypes'
  BY DEF Types, ThreadTypes, Updates, Typed
<1>2. MainTypes'
  BY DEF Types, MainTypes, Updates, mainVars, histVars
<1> QED
  BY <1>1, <1>2 DEF Types

(* A step leaves the other threads as they are.                            *)
LEMMA UpdatesOthers ==
  ASSUME NEW t \in Thread, Types, Updates(t)
  PROVE  \A u \in Thread \ {t} : Same(u)
BY DEF Types, ThreadTypes, Updates, Same

(* A thread that a step leaves alone, as it does the main thread, keeps    *)
(* its part of the invariant.                                              *)
LEMMA SameThread ==
  ASSUME NEW u \in Thread, Same(u), ThreadInv(u), UNCHANGED <<mainVars, histVars>>
  PROVE  ThreadInv(u)'
<1> USE DEF Same, mainVars, histVars
<1>1. RescanOrder(u)' /\ WaitInv(u)' /\ JoinInv(u)'
  BY DEF ThreadInv, RescanOrder, WaitInv, JoinInv
<1>2. StateInv(u)' /\ BegunInv(u)'
  BY DEF ThreadInv, StateInv, BegunInv, Doomed, InError, Live, AtWork
<1>3. RescanInv(u)'
  <2>1. Rescanning' = Rescanning /\ Doomed(u)' = Doomed(u)
    BY DEF Rescanning, Doomed, InError
  <2> QED
    BY <2>1 DEF ThreadInv, RescanInv
<1>4. ~OtherScans => EndAsked(u)' /\ CleanInv(u)'
  BY DEF ThreadInv, EndAsked, CleanInv, Joining, Live, Doomed, InError
<1>5. Quiet => StreamInv(u)'
  BY DEF ThreadInv, StreamInv, Received, Queued, AtHand, EmptyFirst, Doomed, InError
<1>6. TopLevel => FinishInv(u)'
  BY DEF ThreadInv, FinishInv, Live, Doomed, InError
<1>7. NoFailure => OnceInv(u)'
  BY DEF ThreadInv, OnceInv, Joining, InError
<1>8. NoRescan => SafeInv(u)'
  BY DEF ThreadInv, SafeInv, Live, AtWork
<1> QED
  <2>1. (Quiet' <=> Quiet) /\ (TopLevel' <=> TopLevel) /\ (NoFailure' <=> NoFailure)
        /\ (NoRescan' <=> NoRescan)
    BY DEF Quiet, TopLevel, NoFailure, NoRescan
  <2> QED
    BY <1>1, <1>2, <1>3, <1>4, <1>5, <1>6, <1>7, <1>8, <2>1 DEF ThreadInv

(* What a step of thread t comes to.                                       *)
StepOf(t) ==
  /\ Types'
  /\ UNCHANGED <<mainVars, histVars, requestPending>>
  /\ Counts(t)
  /\ \A u \in Thread \ {t} : Same(u)
  /\ ThreadInv(t)'

(* A typed step that keeps the thread's own part of the invariant is one.  *)
LEMMA StepDone ==
  ASSUME NEW t \in Thread, Types, Updates(t), Counts(t), Typed(t)', ThreadInv(t)'
  PROVE  StepOf(t)
<1>1. Types'
  BY UpdatesTypes
<1>2. \A u \in Thread \ {t} : Same(u)
  BY UpdatesOthers
<1> QED
  BY <1>1, <1>2 DEF StepOf, Updates

(* The parts of a thread's invariant make it up.                           *)
LEMMA Parts ==
  ASSUME NEW t \in Thread,
         RescanOrder(t)' /\ WaitInv(t)' /\ StateInv(t)' /\ JoinInv(t)' /\ BegunInv(t)',
         RescanInv(t)',
         ~OtherScans => EndAsked(t)' /\ CleanInv(t)',
         Quiet => StreamInv(t)',
         TopLevel => FinishInv(t)',
         NoFailure => OnceInv(t)',
         NoRescan => SafeInv(t)'
  PROVE  ThreadInv(t)'
<1>1. (Quiet' <=> Quiet) /\ (TopLevel' <=> TopLevel) /\ (NoFailure' <=> NoFailure)
      /\ (NoRescan' <=> NoRescan)
  BY DEF Quiet, TopLevel, NoFailure, NoRescan
<1> QED
  BY <1>1 DEF ThreadInv

(* The types of what a thread has, and of its fields.                      *)
LEMMA ThreadTyped ==
  ASSUME NEW t \in Thread, Types
  PROVE  /\ Typed(t)
         /\ is_joined[t] \in BOOLEAN
         /\ got[t] \in Seq(Tuple \cup {NoTuple}) /\ Len(got[t]) \in Nat
         /\ rescans[t] \in Nat /\ nrescan \in Nat /\ nrescan <= MaxReScans
         /\ t \in Nat /\ node_incr \in Nat
         /\ fdw[t].begun \in BOOLEAN /\ fdw[t].failed \in BOOLEAN
         /\ fdw[t].scan \in Nat /\ fdw[t].scan <= MaxReScans
         /\ fdw[t].row \in Nat /\ fdw[t].ends \in Nat
         /\ tupleQueue[t].len \in Nat
<1>1. Typed(t) /\ is_joined[t] \in BOOLEAN
  BY DEF Types, ThreadTypes, MainTypes, Typed
<1>2. /\ got[t] \in Seq(Tuple \cup {NoTuple})
      /\ rescans[t] \in 0 .. MaxReScans /\ nrescan \in 0 .. MaxReScans
      /\ t \in Nat /\ node_incr \in Nat
  BY DEF Types, MainTypes, Thread
<1>3. /\ fdw[t].begun \in BOOLEAN /\ fdw[t].failed \in BOOLEAN
      /\ fdw[t].scan \in Nat /\ fdw[t].scan <= MaxReScans
      /\ fdw[t].row \in Nat /\ fdw[t].ends \in Nat
  BY <1>1 DEF Typed, Fdw
<1>4. tupleQueue[t].len \in Nat
  BY <1>1 DEF Typed, TupleQueue
<1> QED
  BY <1>1, <1>2, <1>3, <1>4

(* A step that leaves the queue and the row at hand, and does not go back  *)
(* to where the thread has returned no row, keeps the stream.              *)
LEMMA StreamKept ==
  ASSUME NEW t \in Thread, Types, Quiet => StreamInv(t), UNCHANGED <<mainVars, histVars>>,
         tupleQueue'[t].len = tupleQueue[t].len,
         tupleQueue'[t].start = tupleQueue[t].start,
         tupleQueue'[t].tuples = tupleQueue[t].tuples,
         slot'[t] = slot[t], fdw'[t].scan = fdw[t].scan, fdw'[t].row = fdw[t].row,
         cpc'[t] \in Fresh => /\ cpc[t] \in Fresh \/ (Quiet => fdw[t].scan # nrescan)
                              /\ cpc[t] \in Fresh \/ (Quiet => tupleQueue[t].len = 0),
         cpc'[t] = "iterate" => cpc[t] \in Fresh,
         cpc'[t] \in Holding => cpc[t] \in Holding,
         cpc'[t] = "ended" /\ Quiet => ~requestRescan'[t] \/ Doomed(t)'
  PROVE  Quiet => StreamInv(t)'
<1> SUFFICES ASSUME Quiet PROVE StreamInv(t)'
  OBVIOUS
<1>1. UNCHANGED <<got, nrescan>>
  BY DEF histVars
<1>2. EmptyFirst(t)'
  BY DEF StreamInv, EmptyFirst
<1>3. ASSUME fdw[t].scan = nrescan
      PROVE  Received(t)' /\ Queued(t)' /\ AtHand(t)'
  <2>1. Received(t)'
    BY <1>1, <1>3 DEF StreamInv, Received
  <2>2. Queued(t)'
    BY <1>1, <1>3 DEF StreamInv, Queued
  <2>3. AtHand(t) /\ EmptyFirst(t)
    BY <1>3 DEF StreamInv
  <2>4. cpc'[t] \in Fresh => fdw'[t].row = 0 /\ Len(got'[t]) = 0
    BY <1>1, <1>3, <2>3 DEF AtHand
  <2>5. cpc'[t] = "iterate" => fdw'[t].row = Len(got'[t]) + tupleQueue'[t].len
    BY <1>1, <2>3 DEF AtHand, EmptyFirst
  <2>6. cpc'[t] \in Holding => /\ fdw'[t].row = Len(got'[t]) + tupleQueue'[t].len + 1
                               /\ slot'[t] = <<nrescan', fdw'[t].row>>
    BY <1>1, <2>3 DEF AtHand
  <2> QED
    BY <2>1, <2>2, <2>4, <2>5, <2>6 DEF AtHand
<1> QED
  BY <1>1, <1>2, <1>3 DEF StreamInv

-----------------------------------------------------------------------------
(* The operations of the queue.                                            *)

(* Closing a queue changes its state only.                                 *)
LEMMA NotifyFields ==
  ASSUME NEW q \in TupleQueue(Tuple), NEW st \in SpdQueueState, NEW r,
         r = [q EXCEPT !.queue_state = st]
  PROVE  /\ r \in TupleQueue(Tuple)
         /\ r.len = q.len /\ r.start = q.start /\ r.tuples = q.tuples
         /\ r.queue_state = st
BY DEF TupleQueue

(* Resetting it empties it, and opens it again.                            *)
LEMMA ResetFields ==
  ASSUME NEW q \in TupleQueue(Tuple)
  PROVE  /\ QueueReset(q) \in TupleQueue(Tuple)
         /\ QueueReset(q).len = 0 /\ QueueReset(q).queue_state = "OK"
<1>1. 0 \in SlotIdx /\ 0 \in 0 .. QueueLen /\ "OK" \in SpdQueueState
  BY DEF SlotIdx, SpdQueueState
<1> QED
  BY <1>1 DEF TupleQueue, QueueReset

(* Storing a tuple fills one slot and counts it.                           *)
LEMMA StoreFields ==
  ASSUME NEW q \in TupleQueue(Tuple), NEW x \in Tuple \cup {NoTuple}, q.len < QueueLen
  PROVE  /\ AddIdx(q) \in SlotIdx
         /\ QueueStore(q, x) \in TupleQueue(Tuple)
         /\ QueueStore(q, x).len = q.len + 1
         /\ QueueStore(q, x).start = q.start
         /\ QueueStore(q, x).tuples = [q.tuples EXCEPT ![AddIdx(q)] = x]
         /\ QueueStore(q, x).queue_state = q.queue_state
<1>1. AddIdx(q) \in SlotIdx
  BY DEF AddIdx, SlotIdx, TupleQueue
<1>2. q.len + 1 \in 0 .. QueueLen
  BY DEF TupleQueue
<1>3. [q.tuples EXCEPT ![AddIdx(q)] = x] \in [SlotIdx -> Tuple \cup {NoTuple}]
  BY <1>1 DEF TupleQueue
<1> QED
  BY <1>1, <1>2, <1>3 DEF QueueStore, TupleQueue

(* Taking a tuple moves the start on.                                      *)
LEMMA GetFields ==
  ASSUME NEW q \in TupleQueue(Tuple), q.len > 0
  PROVE  /\ QueueGet(q) \in TupleQueue(Tuple)
         /\ QueueGet(q).len = q.len - 1
         /\ QueueGet(q).start = (q.start + 1) % QueueLen
         /\ QueueGet(q).tuples = q.tuples
         /\ QueueGet(q).queue_state = q.queue_state
<1>1. q.len - 1 \in 0 .. QueueLen
  BY DEF TupleQueue
<1>2. (q.start + 1) % QueueLen \in SlotIdx
  BY DEF TupleQueue, SlotIdx
<1> QED
  BY <1>1, <1>2 DEF QueueGet, TupleQueue

(* Counting a call of the child FDW, or a row, keeps the type of its       *)
(* record.                                                                 *)
LEMMA FdwFields ==
  ASSUME NEW f \in Fdw
  PROVE  /\ [f EXCEPT !.ends = @ + 1] \in Fdw
         /\ [f EXCEPT !.row = @ + 1] \in Fdw
         /\ f.scan + 1 \in 0 .. MaxReScans => [f EXCEPT !.scan = @ + 1, !.row = 0] \in Fdw
<1>1. f.ends + 1 \in Nat /\ f.row + 1 \in Nat /\ 0 \in Nat
  BY DEF Fdw
<1> QED
  BY <1>1 DEF Fdw

-----------------------------------------------------------------------------
(* The steps of a child thread.                                            *)

USE DEF ErrorStates, ExecuteStates, EndStates, InError, AtWork, Doomed, Live, Rescanning, Joining

(* A scan of the top level is joined at its end only.                      *)
LEMMA TopJoins ==
  ASSUME NEW t \in Thread, Types, MainInv, TopLevel, Joining(t)
  PROVE  mpc = "end_join"
BY DEF MainInv, LevelInv, TopLevel, Types, MainTypes

(* A row that has been read is the next one, and is at hand.               *)
LEMMA RowRead ==
  ASSUME NEW t \in Thread, Types, Quiet => StreamInv(t), UNCHANGED <<mainVars, histVars>>,
         cpc[t] = "iterate", cpc'[t] = "pend", tupleQueue'[t] = tupleQueue[t],
         slot'[t] = <<fdw[t].scan, fdw[t].row + 1>>,
         fdw'[t].scan = fdw[t].scan, fdw'[t].row = fdw[t].row + 1
  PROVE  Quiet => StreamInv(t)'
<1> SUFFICES ASSUME Quiet PROVE StreamInv(t)'
  OBVIOUS
<1>1. UNCHANGED <<got, nrescan>>
  BY DEF histVars
<1>2. EmptyFirst(t)'
  BY DEF EmptyFirst, Fresh
<1>3. ASSUME fdw[t].scan = nrescan
      PROVE  Received(t)' /\ Queued(t)' /\ AtHand(t)'
  <2>1. Received(t)' /\ Queued(t)'
    BY <1>1, <1>3 DEF StreamInv, Received, Queued
  <2>2. AtHand(t)'
    BY <1>1, <1>3, ThreadTyped DEF StreamInv, AtHand, Fresh, Holding
  <2> QED
    BY <2>1, <2>2
<1> QED
  BY <1>1, <1>2, <1>3 DEF StreamInv

(* The row at hand goes behind the rows in the queue.                      *)
LEMMA TupleAdded ==
  ASSUME NEW t \in Thread, Types, Quiet => StreamInv(t), UNCHANGED <<mainVars, histVars>>,
         cpc[t] = "add" \/ cpc[t] = "spin", cpc'[t] = "left" \/ cpc'[t] = "iterate",
         ~QueueRefuses(tupleQueue[t]),
         tupleQueue'[t] = QueueStore(tupleQueue[t], slot[t]), fdw'[t] = fdw[t]
  PROVE  Quiet => StreamInv(t)'
<1> SUFFICES ASSUME Quiet PROVE StreamInv(t)'
  OBVIOUS
<1> DEFINE q == tupleQueue[t]
           n == Len(got[t])
<1>1. UNCHANGED <<got, nrescan>>
  BY DEF histVars
<1>2. EmptyFirst(t)'
  BY DEF EmptyFirst, Fresh
<1>3. /\ q \in TupleQueue(Tuple) /\ slot[t] \in Tuple \cup {NoTuple}
      /\ q.len \in Nat /\ q.start \in Nat /\ n \in Nat /\ q.len < QueueLen
      /\ fdw[t].row \in Nat /\ q.start < QueueLen
  BY ThreadTyped DEF Typed, QueueRefuses, TupleQueue, SlotIdx
<1>4. /\ AddIdx(q) \in SlotIdx
      /\ tupleQueue'[t].len = q.len + 1
      /\ tupleQueue'[t].start = q.start
      /\ tupleQueue'[t].tuples = [q.tuples EXCEPT ![AddIdx(q)] = slot[t]]
  BY <1>3, StoreFields
<1>5. ASSUME fdw[t].scan = nrescan
      PROVE  Received(t)' /\ Queued(t)' /\ AtHand(t)'
  <2>1. Received(t) /\ Queued(t) /\ AtHand(t)
    BY <1>5 DEF StreamInv
  <2>2. fdw[t].row = n + q.len + 1 /\ slot[t] = <<nrescan, fdw[t].row>>
    BY <2>1 DEF AtHand, Holding
  <2>3. Received(t)'
    BY <1>1, <2>1 DEF Received
  <2>4. ASSUME NEW i \in 0 .. q.len
        PROVE  tupleQueue'[t].tuples[(q.start + i) % QueueLen] = <<nrescan, n + 1 + i>>
    <3> HIDE DEF q, n
    <3>1. q.start + i \in Nat /\ (q.start + i) % QueueLen \in SlotIdx
      <4>1. q.start + i \in Nat
        BY <1>3
      <4> QED
        BY <4>1, DivMod DEF SlotIdx
    <3>2. q.tuples \in [SlotIdx -> Tuple \cup {NoTuple}]
      BY <1>3 DEF TupleQueue
    <3>3. CASE i = q.len
      BY <1>3, <1>4, <2>2, <3>2, <3>3 DEF AddIdx
    <3>4. CASE i # q.len
      <4>1. /\ i \in 0 .. q.len - 1 /\ q.start + q.len \in Nat
            /\ q.start + i < q.start + q.len /\ q.start + q.len < (q.start + i) + QueueLen
        BY <1>3, <3>4
      <4>2. (q.start + i) % QueueLen # AddIdx(q)
        BY <3>1, <4>1, ModDistinct DEF AddIdx
      <4>3. q.tuples[(q.start + i) % QueueLen] = <<nrescan, n + 1 + i>>
        BY <2>1, <4>1 DEF Queued, q, n
      <4> QED
        BY <1>4, <3>1, <3>2, <4>2, <4>3
    <3> QED
      BY <3>3, <3>4
  <2>5. Queued(t)'
    <3>1. \A i \in 0 .. tupleQueue'[t].len - 1 : i \in 0 .. q.len
      BY <1>3, <1>4
    <3> QED
      BY <1>1, <1>4, <2>4, <3>1 DEF Queued
  <2>6. AtHand(t)'
    <3>1. fdw'[t].row = fdw[t].row /\ got'[t] = got[t]
      BY <1>1
    <3>2. fdw'[t].row = Len(got[t]) + tupleQueue'[t].len
      <4>1. n + q.len + 1 = n + (q.len + 1)
        BY <1>3
      <4> QED
        BY <1>4, <2>2, <3>1, <4>1
    <3>3. cpc'[t] \notin Fresh /\ cpc'[t] \notin Holding
      BY DEF Fresh, Holding
    <3> QED
      BY <3>1, <3>2, <3>3 DEF AtHand
  <2> QED
    BY <2>3, <2>5, <2>6
<1> QED
  BY <1>1, <1>2, <1>5 DEF StreamInv

(* What is counted does not change when the first of it is taken away.     *)
LEMMA OneTaken ==
  ASSUME NEW a \in Nat, NEW b \in Nat
  PROVE  /\ (a + 1) + (b - 1) = a + b
         /\ a + 1 + b = a + (b + 1)
         /\ a + 1 + (b + 1) = a + 1 + 1 + b
         /\ a + 1 + 0 = a + 1
         /\ a < QueueLen => (a + 0) % QueueLen = a
OBVIOUS

(* The tuple taken from a queue is the next one.                           *)
LEMMA TupleTaken ==
  ASSUME NEW t \in Thread, Types, Quiet => StreamInv(t),
         cpc'[t] = cpc[t], slot'[t] = slot[t], fdw'[t] = fdw[t], state'[t] = state[t],
         requestRescan'[t] = requestRescan[t], nrescan' = nrescan,
         tupleQueue[t].len > 0,
         tupleQueue'[t] = QueueGet(tupleQueue[t]),
         got'[t] = Append(got[t], QueueHead(tupleQueue[t]))
  PROVE  Quiet => StreamInv(t)'
<1> SUFFICES ASSUME Quiet PROVE StreamInv(t)'
  OBVIOUS
<1> DEFINE q == tupleQueue[t]
           n == Len(got[t])
<1>1. /\ q \in TupleQueue(Tuple)
      /\ q.len \in Nat /\ q.start \in Nat /\ n \in Nat
      /\ got[t] \in Seq(Tuple \cup {NoTuple})
      /\ fdw[t].row \in Nat /\ q.start < QueueLen
  <2>1. /\ q \in TupleQueue(Tuple) /\ q.len \in Nat /\ n \in Nat
        /\ got[t] \in Seq(Tuple \cup {NoTuple}) /\ fdw[t].row \in Nat
    BY ThreadTyped DEF Typed
  <2>2. q.start \in SlotIdx
    BY <2>1 DEF TupleQueue
  <2> QED
    BY <2>1, <2>2 DEF SlotIdx
<1>2. /\ tupleQueue'[t].len = q.len - 1
      /\ tupleQueue'[t].start = (q.start + 1) % QueueLen
      /\ tupleQueue'[t].tuples = q.tuples
  BY <1>1, GetFields
<1>3. QueueHead(q) \in Tuple \cup {NoTuple}
  BY <1>1 DEF QueueHead, TupleQueue
<1>4. /\ Len(got'[t]) = n + 1
      /\ got'[t][n + 1] = QueueHead(q)
      /\ \A k \in 1 .. n : got'[t][k] = got[t][k]
  BY <1>1, <1>3
<1>5. cpc[t] \notin Fresh /\ EmptyFirst(t)'
  BY <1>1, <1>2 DEF StreamInv, EmptyFirst
<1>6. ASSUME fdw[t].scan = nrescan
      PROVE  Received(t)' /\ Queued(t)' /\ AtHand(t)'
  <2>1. Received(t) /\ Queued(t) /\ AtHand(t)
    BY <1>6 DEF StreamInv
  <2>2. QueueHead(q) = <<nrescan, n + 1>>
    <3>1. 0 \in 0 .. q.len - 1
      BY <1>1
    <3>2. q.tuples[(q.start + 0) % QueueLen] = <<nrescan, n + 1 + 0>>
      BY <2>1, <3>1 DEF Queued
    <3> HIDE DEF q, n
    <3>3. (q.start + 0) % QueueLen = q.start
      BY <1>1, OneTaken
    <3>4. n + 1 + 0 = n + 1
      BY <1>1, OneTaken
    <3> QED
      BY <3>2, <3>3, <3>4 DEF QueueHead
  <2>3. Received(t)'
    BY <1>1, <1>4, <2>1, <2>2 DEF Received
  <2>4. ASSUME NEW i \in 0 .. q.len - 2
        PROVE  q.tuples[(((q.start + 1) % QueueLen) + i) % QueueLen] = <<nrescan, n + 1 + 1 + i>>
    <3> HIDE DEF q, n
    <3>1. q.start \in Nat /\ q.start + 1 \in Nat /\ i \in Nat /\ i + 1 \in 0 .. q.len - 1
      BY <1>1
    <3>2. (((q.start + 1) % QueueLen) + i) % QueueLen = (q.start + (i + 1)) % QueueLen
      <4>1. (((q.start + 1) % QueueLen) + i) % QueueLen = (q.start + 1 + i) % QueueLen
        BY <3>1, ModAdd
      <4>2. q.start + 1 + i = q.start + (i + 1)
        BY <3>1, OneTaken
      <4> QED
        BY <4>1, <4>2
    <3>3. q.tuples[(q.start + (i + 1)) % QueueLen] = <<nrescan, n + 1 + (i + 1)>>
      BY <2>1, <3>1 DEF Queued, q, n
    <3>4. n + 1 + (i + 1) = n + 1 + 1 + i
      BY <1>1, <3>1, OneTaken
    <3> QED
      BY <3>2, <3>3, <3>4
  <2>5. Queued(t)'
    <3>1. \A i \in 0 .. tupleQueue'[t].len - 1 : i \in 0 .. q.len - 2
      BY <1>1, <1>2
    <3> QED
      BY <1>2, <1>4, <2>4, <3>1 DEF Queued
  <2>6. AtHand(t)'
    <3>1. (n + 1) + (q.len - 1) = n + q.len
      <4>1. n \in Nat /\ q.len \in Nat
        BY <1>1
      <4> HIDE DEF q, n
      <4> QED
        BY <4>1, OneTaken
    <3> QED
      BY <1>2, <1>4, <1>5, <2>1, <3>1 DEF AtHand
  <2> QED
    BY <2>3, <2>5, <2>6
<1> QED
  BY <1>5, <1>6 DEF StreamInv

(* The thread enters spd_ForeignScan_thread and counts itself in.          *)
LEMMA ThreadStartStep ==
  ASSUME NEW t \in Thread, Types, MainInv, ThreadInv(t), ThreadStart(t)
  PROVE  StepOf(t)
<1>1. Updates(t)
  BY DEF ThreadStart, Goto, SetState, Types, ThreadTypes, Updates
<1>2. Counts(t)
  BY DEF ThreadStart, Goto, SetState, Types, ThreadTypes, Counts
<1>3. cpc[t] = "created"
  BY DEF ThreadStart, Goto
<1>4. /\ cpc'[t] = "begin" /\ state'[t] = "WAIT_BEGIN"
      /\ requestRescan'[t] = requestRescan[t]
      /\ requestEndScan'[t] = requestEndScan[t]
      /\ tupleQueue'[t] = tupleQueue[t]
      /\ slot'[t] = slot[t] /\ old_state'[t] = old_state[t]
      /\ fdw'[t] = fdw[t]
      /\ UNCHANGED <<is_joined, mainVars, histVars>>
  BY <1>3 DEF ThreadStart, Goto, SetState, Types, ThreadTypes
<1>5. Typed(t)'
  BY <1>3, <1>4, ThreadTyped DEF Typed, ChildPc, ThreadState
<1>6. RescanOrder(t)' /\ WaitInv(t)' /\ StateInv(t)' /\ JoinInv(t)' /\ BegunInv(t)'
  BY <1>3, <1>4 DEF ThreadInv, mainVars, histVars, RescanOrder, WaitInv, StateInv, JoinInv,
     BegunInv
<1>7. RescanInv(t)'
  BY <1>3, <1>4 DEF ThreadInv, mainVars, histVars, RescanInv
<1>8. ~OtherScans => EndAsked(t)' /\ CleanInv(t)'
  BY <1>3, <1>4 DEF ThreadInv, mainVars, histVars, EndAsked, CleanInv
<1>9. Quiet => StreamInv(t)'
  BY <1>3, <1>4, StreamKept DEF ThreadInv, Fresh, Holding
<1>10. TopLevel => FinishInv(t)'
  BY <1>3, <1>4 DEF ThreadInv, mainVars, histVars, FinishInv
<1>11. NoFailure => OnceInv(t)'
  BY <1>3, <1>4 DEF ThreadInv, mainVars, histVars, OnceInv
<1>12. NoRescan => SafeInv(t)'
  BY <1>3, <1>4 DEF ThreadInv, MainInv, mainVars, histVars, SafeInv, Live, StateInv
<1> QED
  BY <1>1, <1>2, <1>5, <1>6, <1>7, <1>8, <1>9, <1>10, <1>11, <1>12, Parts, StepDone

(* spd_BeginForeignScanChild takes the lock, or is left for later by a     *)
(* child that waits for its parameters.                                    *)
LEMMA BeginCallStep ==
  ASSUME NEW t \in Thread, Types, MainInv, ThreadInv(t), BeginCall(t)
  PROVE  StepOf(t)
<1>1. Updates(t)
  BY DEF BeginCall, Goto, SetState, sharedVars, Types, ThreadTypes, Updates
<1>2. Counts(t)
  BY DEF BeginCall, sharedVars, Types, ThreadTypes, Counts
<1>3. cpc[t] = "begin"
  BY DEF BeginCall, Goto
<1>4. CASE BeginsLate(t)
  <2>1. /\ cpc'[t] = "rescan" /\ state'[t] = state[t]
        /\ requestRescan'[t] = requestRescan[t]
        /\ requestEndScan'[t] = requestEndScan[t]
        /\ tupleQueue'[t] = tupleQueue[t]
        /\ slot'[t] = slot[t] /\ old_state'[t] = old_state[t]
        /\ fdw'[t] = fdw[t]
        /\ UNCHANGED <<is_joined, mainVars, histVars>>
    BY <1>3, <1>4 DEF BeginCall, Goto, SetState, sharedVars, Types, ThreadTypes
  <2>2. Typed(t)'
    BY <1>4, <2>1, ThreadTyped DEF Typed, ChildPc
  <2>3. RescanOrder(t)' /\ WaitInv(t)' /\ StateInv(t)' /\ JoinInv(t)' /\ BegunInv(t)'
    BY <1>3, <1>4, <2>1 DEF ThreadInv, mainVars, histVars, RescanOrder, WaitInv, StateInv,
       JoinInv, BegunInv, BeginsLate
  <2>4. RescanInv(t)'
    BY <1>3, <1>4, <2>1 DEF ThreadInv, mainVars, histVars, RescanInv
  <2>5. ~OtherScans => EndAsked(t)' /\ CleanInv(t)'
    BY <1>3, <1>4, <2>1 DEF ThreadInv, mainVars, histVars, EndAsked, CleanInv
  <2>6. Quiet => StreamInv(t)'
    BY <1>3, <1>4, <2>1, StreamKept DEF ThreadInv, Fresh, Holding
  <2>7. TopLevel => FinishInv(t)'
    BY <1>3, <1>4, <2>1 DEF ThreadInv, mainVars, histVars, FinishInv
  <2>8. NoFailure => OnceInv(t)'
    BY <1>3, <1>4, <2>1 DEF ThreadInv, mainVars, histVars, OnceInv
  <2>9. NoRescan => SafeInv(t)'
    BY <1>3, <1>4, <2>1 DEF ThreadInv, mainVars, histVars, SafeInv, Live
  <2> QED
    BY <1>1, <1>2, <2>2, <2>3, <2>4, <2>5, <2>6, <2>7, <2>8, <2>9, Parts, StepDone
<1>5. CASE ~BeginsLate(t)
  <2>1. /\ cpc'[t] = "beginning" /\ state'[t] = "BEGIN"
        /\ requestRescan'[t] = requestRescan[t]
        /\ requestEndScan'[t] = requestEndScan[t]
        /\ tupleQueue'[t] = tupleQueue[t]
        /\ slot'[t] = slot[t] /\ old_state'[t] = old_state[t]
        /\ fdw'[t] = fdw[t]
        /\ UNCHANGED <<is_joined, mainVars, histVars>>
    BY <1>3, <1>5 DEF BeginCall, Goto, SetState, sharedVars, Types, ThreadTypes
  <2>2. Typed(t)'
    BY <1>3, <1>5, <2>1, ThreadTyped DEF Typed, ChildPc, ThreadState
  <2>3. RescanOrder(t)' /\ WaitInv(t)' /\ StateInv(t)' /\ JoinInv(t)' /\ BegunInv(t)'
    BY <1>3, <1>5, <2>1 DEF ThreadInv, mainVars, histVars, RescanOrder, WaitInv, StateInv,
       JoinInv, BegunInv, BeginsLate
  <2>4. RescanInv(t)'
    BY <1>3, <1>5, <2>1 DEF ThreadInv, mainVars, histVars, RescanInv
  <2>5. ~OtherScans => EndAsked(t)' /\ CleanInv(t)'
    BY <1>3, <1>5, <2>1 DEF ThreadInv, mainVars, histVars, EndAsked, CleanInv
  <2>6. Quiet => StreamInv(t)'
    BY <1>3, <1>5, <2>1, StreamKept DEF ThreadInv, Fresh, Holding
  <2>7. TopLevel => FinishInv(t)'
    BY <1>3, <1>5, <2>1 DEF ThreadInv, mainVars, histVars, FinishInv
  <2>8. NoFailure => OnceInv(t)'
    BY <1>3, <1>5, <2>1 DEF ThreadInv, mainVars, histVars, OnceInv
  <2>9. NoRescan => SafeInv(t)'
    BY <1>3, <1>5, <2>1 DEF ThreadInv, MainInv, mainVars, histVars, SafeInv, Live, StateInv
  <2> QED
    BY <1>1, <1>2, <2>2, <2>3, <2>4, <2>5, <2>6, <2>7, <2>8, <2>9, Parts, StepDone
<1> QED
  BY <1>4, <1>5

(* BeginForeignScan of the child has returned; the thread may have been    *)
(* told of an error meanwhile.                                             *)
LEMMA BeginReturnStep ==
  ASSUME NEW t \in Thread, Types, MainInv, ThreadInv(t), BeginReturn(t)
  PROVE  StepOf(t)
<1>1. Updates(t)
  BY DEF BeginReturn, Goto, sharedVars, Types, ThreadTypes, Updates
<1>2. Counts(t)
  BY DEF BeginReturn, sharedVars, Types, ThreadTypes, Counts
<1>3. cpc[t] = "beginning"
  BY DEF BeginReturn, Goto
<1>4. CASE InError(t)
  <2>1. /\ cpc'[t] = "exit" /\ state'[t] = state[t]
        /\ requestRescan'[t] = requestRescan[t]
        /\ requestEndScan'[t] = TRUE
        /\ tupleQueue'[t] = tupleQueue[t]
        /\ slot'[t] = slot[t] /\ old_state'[t] = old_state[t]
        /\ fdw'[t] = [fdw[t] EXCEPT !.begun = TRUE]
        /\ UNCHANGED <<is_joined, mainVars, histVars>>
    BY <1>3, <1>4 DEF BeginReturn, Goto, sharedVars, Types, ThreadTypes
  <2>2. /\ fdw'[t].begun = TRUE /\ fdw'[t].failed = fdw[t].failed /\ fdw'[t].ends = fdw[t].ends
        /\ fdw'[t].scan = fdw[t].scan /\ fdw'[t].row = fdw[t].row /\ fdw'[t] \in Fdw
    BY <2>1, ThreadTyped DEF Typed, Fdw
  <2>3. Typed(t)'
    BY <1>4, <2>1, <2>2, ThreadTyped DEF Typed, ChildPc
  <2>4. RescanOrder(t)' /\ WaitInv(t)' /\ StateInv(t)' /\ JoinInv(t)' /\ BegunInv(t)'
    BY <1>3, <1>4, <2>1, <2>2 DEF ThreadInv, mainVars, histVars, RescanOrder, WaitInv, StateInv,
       JoinInv, BegunInv
  <2>5. RescanInv(t)'
    BY <1>3, <1>4, <2>1, <2>2 DEF ThreadInv, mainVars, histVars, RescanInv
  <2>6. ~OtherScans => EndAsked(t)' /\ CleanInv(t)'
    BY <1>3, <1>4, <2>1, <2>2 DEF ThreadInv, mainVars, histVars, EndAsked, CleanInv
  <2>7. Quiet => StreamInv(t)'
    BY <2>1, <2>2, StreamKept DEF ThreadInv, Fresh, Holding
  <2>8. TopLevel => FinishInv(t)'
    BY <1>3, <1>4, <2>1, <2>2 DEF ThreadInv, mainVars, histVars, FinishInv
  <2>9. NoFailure => OnceInv(t)'
    BY <1>3, <1>4, <2>1, <2>2 DEF ThreadInv, mainVars, histVars, OnceInv
  <2>10. NoRescan => SafeInv(t)'
    BY <1>3, <1>4, <2>1, <2>2 DEF mainVars, histVars, SafeInv, Live
  <2> QED
    BY <1>1, <1>2, <2>3, <2>4, <2>5, <2>6, <2>7, <2>8, <2>9, <2>10, Parts, StepDone
<1>5. CASE ~InError(t)
  <2>1. /\ cpc'[t] = "rescan" /\ state'[t] = state[t]
        /\ requestRescan'[t] = requestRescan[t]
        /\ requestEndScan'[t] = requestEndScan[t]
        /\ tupleQueue'[t] = tupleQueue[t]
        /\ slot'[t] = slot[t] /\ old_state'[t] = old_state[t]
        /\ fdw'[t] = [fdw[t] EXCEPT !.begun = TRUE]
        /\ UNCHANGED <<is_joined, mainVars, histVars>>
    BY <1>3, <1>5 DEF BeginReturn, Goto, sharedVars, Types, ThreadTypes
  <2>2. /\ fdw'[t].begun = TRUE /\ fdw'[t].failed = fdw[t].failed /\ fdw'[t].ends = fdw[t].ends
        /\ fdw'[t].scan = fdw[t].scan /\ fdw'[t].row = fdw[t].row /\ fdw'[t] \in Fdw
    BY <2>1, ThreadTyped DEF Typed, Fdw
  <2>3. Typed(t)'
    BY <1>5, <2>1, <2>2, ThreadTyped DEF Typed, ChildPc
  <2>4. RescanOrder(t)' /\ WaitInv(t)' /\ StateInv(t)' /\ JoinInv(t)' /\ BegunInv(t)'
    BY <1>3, <1>5, <2>1, <2>2 DEF ThreadInv, mainVars, histVars, RescanOrder, WaitInv, StateInv,
       JoinInv, BegunInv
  <2>5. RescanInv(t)'
    BY <1>3, <1>5, <2>1, <2>2 DEF ThreadInv, mainVars, histVars, RescanInv
  <2>6. ~OtherScans => EndAsked(t)' /\ CleanInv(t)'
    BY <1>3, <1>5, <2>1, <2>2 DEF ThreadInv, mainVars, histVars, EndAsked, CleanInv
  <2>7. Quiet => StreamInv(t)'
    BY <1>3, <1>5, <2>1, <2>2, StreamKept DEF ThreadInv, Fresh, Holding
  <2>8. TopLevel => FinishInv(t)'
    BY <1>3, <1>5, <2>1, <2>2 DEF ThreadInv, mainVars, histVars, FinishInv
  <2>9. NoFailure => OnceInv(t)'
    BY <1>3, <1>5, <2>1, <2>2 DEF ThreadInv, mainVars, histVars, OnceInv
  <2>10. NoRescan => SafeInv(t)'
    BY <1>3, <1>5, <2>1, <2>2 DEF ThreadInv, mainVars, histVars, SafeInv, Live
  <2> QED
    BY <1>1, <1>2, <2>3, <2>4, <2>5, <2>6, <2>7, <2>8, <2>9, <2>10, Parts, StepDone
<1> QED
  BY <1>4, <1>5

(* BeginForeignScan has failed: the thread leaves.                         *)
LEMMA BeginFailStep ==
  ASSUME NEW t \in Thread, Types, MainInv, ThreadInv(t), BeginFail(t)
  PROVE  StepOf(t)
<1>1. Updates(t)
  BY DEF BeginFail, Goto, SetState, sharedVars, Types, ThreadTypes, Updates
<1>2. Counts(t)
  BY DEF BeginFail, sharedVars, Types, ThreadTypes, Counts
<1>3. cpc[t] = "beginning" /\ t \in MayFail
  BY DEF BeginFail, Goto
<1>4. /\ cpc'[t] = "exit" /\ state'[t] = "ERROR_INIT"
      /\ requestRescan'[t] = requestRescan[t]
      /\ requestEndScan'[t] = TRUE
      /\ tupleQueue'[t] = tupleQueue[t]
      /\ slot'[t] = slot[t] /\ old_state'[t] = old_state[t]
      /\ fdw'[t] = [fdw[t] EXCEPT !.failed = TRUE]
      /\ UNCHANGED <<is_joined, mainVars, histVars>>
  BY <1>3 DEF BeginFail, Goto, SetState, sharedVars, Types, ThreadTypes
<1>5. /\ fdw'[t].begun = fdw[t].begun /\ fdw'[t].failed = TRUE /\ fdw'[t].ends = fdw[t].ends
      /\ fdw'[t].scan = fdw[t].scan /\ fdw'[t].row = fdw[t].row /\ fdw'[t] \in Fdw
  BY <1>4, ThreadTyped DEF Typed, Fdw
<1>6. Typed(t)'
  BY <1>3, <1>4, <1>5, ThreadTyped DEF Typed, ChildPc, ThreadState
<1>7. RescanOrder(t)' /\ WaitInv(t)' /\ StateInv(t)' /\ JoinInv(t)' /\ BegunInv(t)'
  BY <1>3, <1>4, <1>5 DEF ThreadInv, mainVars, histVars, RescanOrder, WaitInv, StateInv, JoinInv,
     BegunInv
<1>8. RescanInv(t)'
  BY <1>3, <1>4, <1>5 DEF ThreadInv, mainVars, histVars, RescanInv
<1>9. ~OtherScans => EndAsked(t)' /\ CleanInv(t)'
  BY <1>3, <1>4, <1>5 DEF mainVars, histVars, EndAsked, CleanInv
<1>10. Quiet => StreamInv(t)'
  BY <1>3, <1>4, <1>5, StreamKept DEF ThreadInv, Fresh, Holding
<1>11. TopLevel => FinishInv(t)'
  BY <1>3, <1>4, <1>5 DEF ThreadInv, mainVars, histVars, FinishInv
<1>12. NoFailure => OnceInv(t)'
  BY <1>3, <1>4, <1>5 DEF mainVars, histVars, OnceInv, NoFailure
<1>13. NoRescan => SafeInv(t)'
  BY <1>3, <1>4, <1>5 DEF mainVars, histVars, SafeInv, Live
<1> QED
  BY <1>1, <1>2, <1>6, <1>7, <1>8, <1>9, <1>10, <1>11, <1>12, <1>13, Parts, StepDone

(* spd_RescanForeignScanChild: one more scan of the child if it was asked  *)
(* for, and the rows are counted anew.                                     *)
LEMMA RescanStep ==
  ASSUME NEW t \in Thread, Types, MainInv, ThreadInv(t), Rescan(t)
  PROVE  StepOf(t)
<1>1. Updates(t)
  BY DEF Rescan, Goto, sharedVars, Types, ThreadTypes, Updates
<1>2. Counts(t)
  BY DEF Rescan, sharedVars, Types, ThreadTypes, Fdw, Counts
<1>3. cpc[t] = "rescan"
  BY DEF Rescan, Goto
<1>4. CASE requestRescan[t] /\ state[t] # "BEGIN"
  <2>1. /\ cpc'[t] = "rescanned" /\ state'[t] = state[t]
        /\ requestRescan'[t] = FALSE
        /\ requestEndScan'[t] = requestEndScan[t]
        /\ tupleQueue'[t] = tupleQueue[t]
        /\ slot'[t] = slot[t] /\ old_state'[t] = old_state[t]
        /\ fdw'[t] = [fdw[t] EXCEPT !.scan = @ + 1, !.row = 0]
        /\ UNCHANGED <<is_joined, mainVars, histVars>>
    BY <1>3, <1>4 DEF Rescan, Goto, sharedVars, Types, ThreadTypes
  <2>2. fdw[t].scan + 1 \in 0 .. MaxReScans
    BY <1>3, <1>4, ThreadTyped DEF ThreadInv, RescanOrder
  <2>3. fdw'[t] \in Fdw
    BY <2>1, <2>2, ThreadTyped, FdwFields DEF Typed
  <2>4. /\ fdw'[t].begun = fdw[t].begun /\ fdw'[t].failed = fdw[t].failed
        /\ fdw'[t].ends = fdw[t].ends /\ fdw'[t].scan = fdw[t].scan + 1 /\ fdw'[t].row = 0
    BY <1>4, <2>1, <2>2, <2>3
  <2>5. Typed(t)'
    BY <1>4, <2>1, <2>2, <2>3, <2>4, ThreadTyped DEF Typed, ChildPc
  <2>6. RescanOrder(t)' /\ WaitInv(t)' /\ StateInv(t)' /\ JoinInv(t)' /\ BegunInv(t)'
    <3>1. RescanOrder(t)'
      BY <1>4, <2>1, <2>4, ThreadTyped DEF ThreadInv, mainVars, histVars, RescanOrder
    <3>2. WaitInv(t)' /\ JoinInv(t)' /\ BegunInv(t)'
      BY <1>3, <2>1, <2>4 DEF ThreadInv, mainVars, histVars, WaitInv, JoinInv, BegunInv, Doomed
    <3>3. StateInv(t)'
      BY <1>3, <2>1 DEF ThreadInv, mainVars, histVars, StateInv, Live, Doomed
    <3> QED
      BY <3>1, <3>2, <3>3
  <2>7. RescanInv(t)'
    BY <1>3, <1>4, <2>1, <2>2, <2>3, <2>4 DEF ThreadInv, mainVars, histVars, RescanInv
  <2>8. ~OtherScans => EndAsked(t)' /\ CleanInv(t)'
    BY <1>3, <1>4, <2>1, <2>2, <2>3, <2>4 DEF ThreadInv, mainVars, histVars, EndAsked, CleanInv
  <2>9. Quiet => StreamInv(t)'
    BY <1>3, <1>4, <2>1, <2>2, <2>3, <2>4
       DEF ThreadInv, RescanInv, StreamInv, Received, Queued, AtHand, EmptyFirst, Fresh,
           Holding, mainVars, histVars
  <2>10. TopLevel => FinishInv(t)'
    BY <1>3, <1>4, <2>1, <2>2, <2>3, <2>4 DEF ThreadInv, mainVars, histVars, FinishInv
  <2>11. NoFailure => OnceInv(t)'
    BY <1>3, <1>4, <2>1, <2>2, <2>3, <2>4 DEF ThreadInv, mainVars, histVars, OnceInv, RescanInv
  <2>12. NoRescan => SafeInv(t)'
    BY <1>3, <1>4, <2>1, <2>2, <2>3, <2>4 DEF ThreadInv, mainVars, histVars, SafeInv, Live
  <2> QED
    BY <1>1, <1>2, <2>5, <2>6, <2>7, <2>8, <2>9, <2>10, <2>11, <2>12, Parts, StepDone
<1>5. CASE ~(requestRescan[t] /\ state[t] # "BEGIN")
  <2>1. /\ cpc'[t] = "wait" /\ state'[t] = state[t]
        /\ requestRescan'[t] = requestRescan[t]
        /\ requestEndScan'[t] = requestEndScan[t]
        /\ tupleQueue'[t] = tupleQueue[t]
        /\ slot'[t] = slot[t] /\ old_state'[t] = old_state[t]
        /\ fdw'[t] = fdw[t]
        /\ UNCHANGED <<is_joined, mainVars, histVars>>
    BY <1>3, <1>5 DEF Rescan, Goto, sharedVars, Types, ThreadTypes
  <2>2. Typed(t)'
    BY <1>5, <2>1, ThreadTyped DEF Typed, ChildPc
  <2>3. RescanOrder(t)' /\ WaitInv(t)' /\ StateInv(t)' /\ JoinInv(t)' /\ BegunInv(t)'
    BY <1>3, <1>5, <2>1 DEF ThreadInv, mainVars, histVars, RescanOrder, WaitInv, StateInv,
       JoinInv, BegunInv
  <2>4. RescanInv(t)'
    BY <1>3, <1>5, <2>1 DEF ThreadInv, mainVars, histVars, RescanInv
  <2>5. ~OtherScans => EndAsked(t)' /\ CleanInv(t)'
    BY <1>3, <1>5, <2>1 DEF ThreadInv, mainVars, histVars, EndAsked, CleanInv
  <2>6. Quiet => StreamInv(t)'
    BY <1>3, <1>5, <2>1, StreamKept DEF ThreadInv, Fresh, Holding
  <2>7. TopLevel => FinishInv(t)'
    BY <1>3, <1>5, <2>1 DEF ThreadInv, mainVars, histVars, FinishInv
  <2>8. NoFailure => OnceInv(t)'
    BY <1>3, <1>5, <2>1 DEF ThreadInv, mainVars, histVars, OnceInv
  <2>9. NoRescan => SafeInv(t)'
    BY <1>3, <1>5, <2>1 DEF ThreadInv, mainVars, histVars, SafeInv, Live
  <2> QED
    BY <1>1, <1>2, <2>2, <2>3, <2>4, <2>5, <2>6, <2>7, <2>8, <2>9, Parts, StepDone
<1> QED
  BY <1>4, <1>5

(* The state follows the request.                                          *)
LEMMA RescanDoneStep ==
  ASSUME NEW t \in Thread, Types, MainInv, ThreadInv(t), RescanDone(t)
  PROVE  StepOf(t)
<1>1. Updates(t)
  BY DEF RescanDone, Goto, SetState, sharedVars, Types, ThreadTypes, Updates
<1>2. Counts(t)
  BY DEF RescanDone, sharedVars, Types, ThreadTypes, Counts
<1>3. cpc[t] = "rescanned"
  BY DEF RescanDone, Goto
<1>4. /\ cpc'[t] = "wait" /\ state'[t] = "BEGIN"
      /\ requestRescan'[t] = requestRescan[t]
      /\ requestEndScan'[t] = requestEndScan[t]
      /\ tupleQueue'[t] = tupleQueue[t]
      /\ slot'[t] = slot[t] /\ old_state'[t] = old_state[t]
      /\ fdw'[t] = fdw[t]
      /\ UNCHANGED <<is_joined, mainVars, histVars>>
  BY <1>3 DEF RescanDone, Goto, SetState, sharedVars, Types, ThreadTypes
<1>5. Typed(t)'
  BY <1>3, <1>4, ThreadTyped DEF Typed, ChildPc, ThreadState
<1>6. RescanOrder(t)' /\ WaitInv(t)' /\ StateInv(t)' /\ JoinInv(t)' /\ BegunInv(t)'
  BY <1>3, <1>4 DEF ThreadInv, mainVars, histVars, RescanOrder, WaitInv, StateInv, JoinInv,
     BegunInv
<1>7. RescanInv(t)'
  BY <1>3, <1>4 DEF ThreadInv, mainVars, histVars, RescanInv
<1>8. ~OtherScans => EndAsked(t)' /\ CleanInv(t)'
  BY <1>3, <1>4 DEF ThreadInv, mainVars, histVars, EndAsked, CleanInv
<1>9. Quiet => StreamInv(t)'
  BY <1>3, <1>4, StreamKept DEF ThreadInv, Fresh, Holding
<1>10. TopLevel => FinishInv(t)'
  BY <1>3, <1>4 DEF ThreadInv, mainVars, histVars, FinishInv
<1>11. NoFailure => OnceInv(t)'
  BY <1>3, <1>4 DEF ThreadInv, mainVars, histVars, OnceInv
<1>12. NoRescan => SafeInv(t)'
  BY <1>3, <1>4, ThreadTyped DEF ThreadInv, mainVars, histVars, SafeInv, Live, NoRescan, RescanOrder
<1> QED
  BY <1>1, <1>2, <1>5, <1>6, <1>7, <1>8, <1>9, <1>10, <1>11, <1>12, Parts, StepDone

(* The thread finds that it may not start yet.                             *)
LEMMA WaitStartStep ==
  ASSUME NEW t \in Thread, Types, MainInv, ThreadInv(t), WaitStart(t)
  PROVE  StepOf(t)
<1>1. Updates(t)
  BY DEF WaitStart, Goto, infoVars, sharedVars, Types, ThreadTypes, Updates
<1>2. Counts(t)
  BY DEF WaitStart, infoVars, sharedVars, Types, ThreadTypes, Counts
<1>3. cpc[t] = "wait"
  BY DEF WaitStart, Goto
<1>4. /\ cpc'[t] = "waiting" /\ state'[t] = state[t]
      /\ requestRescan'[t] = requestRescan[t]
      /\ requestEndScan'[t] = requestEndScan[t]
      /\ tupleQueue'[t] = tupleQueue[t]
      /\ slot'[t] = slot[t] /\ old_state'[t] = old_state[t]
      /\ fdw'[t] = fdw[t]
      /\ UNCHANGED <<is_joined, mainVars, histVars>>
  BY <1>3 DEF WaitStart, Goto, infoVars, sharedVars, Types, ThreadTypes
<1>5. Typed(t)'
  BY <1>4, ThreadTyped DEF Typed, ChildPc
<1>6. RescanOrder(t)' /\ WaitInv(t)' /\ StateInv(t)' /\ JoinInv(t)' /\ BegunInv(t)'
  BY <1>3, <1>4 DEF ThreadInv, mainVars, histVars, RescanOrder, WaitInv, StateInv, JoinInv,
     BegunInv
<1>7. RescanInv(t)'
  BY <1>3, <1>4 DEF ThreadInv, mainVars, histVars, RescanInv
<1>8. ~OtherScans => EndAsked(t)' /\ CleanInv(t)'
  BY <1>3, <1>4 DEF ThreadInv, mainVars, histVars, EndAsked, CleanInv
<1>9. Quiet => StreamInv(t)'
  BY <1>3, <1>4, StreamKept DEF ThreadInv, Fresh, Holding
<1>10. TopLevel => FinishInv(t)'
  BY <1>3, <1>4 DEF ThreadInv, mainVars, histVars, FinishInv
<1>11. NoFailure => OnceInv(t)'
  BY <1>3, <1>4 DEF ThreadInv, mainVars, histVars, OnceInv
<1>12. NoRescan => SafeInv(t)'
  BY <1>3, <1>4 DEF ThreadInv, mainVars, histVars, SafeInv, Live
<1> QED
  BY <1>1, <1>2, <1>5, <1>6, <1>7, <1>8, <1>9, <1>10, <1>11, <1>12, Parts, StepDone

(* It is asked to end before it has started.                               *)
LEMMA WaitEndStep ==
  ASSUME NEW t \in Thread, Types, MainInv, ThreadInv(t), WaitEnd(t)
  PROVE  StepOf(t)
<1>1. Updates(t)
  BY DEF WaitEnd, Goto, SetState, sharedVars, Types, ThreadTypes, Updates
<1>2. Counts(t)
  BY DEF WaitEnd, sharedVars, Types, ThreadTypes, Counts
<1>3. cpc[t] = "waiting" /\ requestEndScan[t]
  BY DEF WaitEnd, Goto
<1>4. /\ cpc'[t] = "end" /\ state'[t] = "PRE_END"
      /\ requestRescan'[t] = requestRescan[t]
      /\ requestEndScan'[t] = requestEndScan[t]
      /\ tupleQueue'[t] = tupleQueue[t]
      /\ slot'[t] = slot[t] /\ old_state'[t] = old_state[t]
      /\ fdw'[t] = fdw[t]
      /\ UNCHANGED <<is_joined, mainVars, histVars>>
  BY <1>3 DEF WaitEnd, Goto, SetState, sharedVars, Types, ThreadTypes
<1>5. Typed(t)'
  BY <1>3, <1>4, ThreadTyped DEF Typed, ChildPc, ThreadState
<1>6. RescanOrder(t)' /\ WaitInv(t)' /\ StateInv(t)' /\ JoinInv(t)' /\ BegunInv(t)'
  BY <1>3, <1>4 DEF ThreadInv, mainVars, histVars, RescanOrder, WaitInv, StateInv, JoinInv,
     BegunInv
<1>7. RescanInv(t)'
  BY <1>3, <1>4 DEF ThreadInv, mainVars, histVars, RescanInv
<1>8. ~OtherScans => EndAsked(t)' /\ CleanInv(t)'
  BY <1>3, <1>4 DEF ThreadInv, mainVars, histVars, EndAsked, CleanInv
<1>9. Quiet => StreamInv(t)'
  BY <1>3, <1>4, StreamKept DEF ThreadInv, Fresh, Holding
<1>10. TopLevel => FinishInv(t)'
  BY <1>3, <1>4 DEF ThreadInv, mainVars, histVars, FinishInv
<1>11. NoFailure => OnceInv(t)'
  BY <1>3, <1>4 DEF ThreadInv, mainVars, histVars, OnceInv
<1>12. NoRescan => SafeInv(t)'
  BY <1>3, <1>4 DEF mainVars, histVars, SafeInv, Live
<1> QED
  BY <1>1, <1>2, <1>5, <1>6, <1>7, <1>8, <1>9, <1>10, <1>11, <1>12, Parts, StepDone

(* It is asked to rescan before it has started.                            *)
LEMMA WaitRescanStep ==
  ASSUME NEW t \in Thread, Types, MainInv, ThreadInv(t), WaitRescan(t)
  PROVE  StepOf(t)
<1>1. Updates(t)
  BY DEF WaitRescan, Goto, SetState, sharedVars, Types, ThreadTypes, Updates
<1>2. Counts(t)
  BY DEF WaitRescan, sharedVars, Types, ThreadTypes, Counts
<1>3. cpc[t] = "waiting" /\ requestRescan[t] /\ state[t] = "BEGIN"
  BY DEF WaitRescan, Goto
<1>4. /\ cpc'[t] = "rescan" /\ state'[t] = "ITERATE"
      /\ requestRescan'[t] = requestRescan[t]
      /\ requestEndScan'[t] = requestEndScan[t]
      /\ tupleQueue'[t] = tupleQueue[t]
      /\ slot'[t] = slot[t] /\ old_state'[t] = old_state[t]
      /\ fdw'[t] = fdw[t]
      /\ UNCHANGED <<is_joined, mainVars, histVars>>
  BY <1>3 DEF WaitRescan, Goto, SetState, sharedVars, Types, ThreadTypes
<1>5. Typed(t)'
  BY <1>3, <1>4, ThreadTyped DEF Typed, ChildPc, ThreadState
<1>6. RescanOrder(t)' /\ WaitInv(t)' /\ StateInv(t)' /\ JoinInv(t)' /\ BegunInv(t)'
  BY <1>3, <1>4 DEF ThreadInv, mainVars, histVars, RescanOrder, WaitInv, StateInv, JoinInv,
     BegunInv
<1>7. RescanInv(t)'
  BY <1>3, <1>4 DEF ThreadInv, mainVars, histVars, RescanInv
<1>8. ~OtherScans => EndAsked(t)' /\ CleanInv(t)'
  BY <1>3, <1>4 DEF ThreadInv, mainVars, histVars, EndAsked, CleanInv
<1>9. Quiet => StreamInv(t)'
  BY <1>3, <1>4, StreamKept DEF ThreadInv, Fresh, Holding
<1>10. TopLevel => FinishInv(t)'
  BY <1>3, <1>4 DEF ThreadInv, mainVars, histVars, FinishInv
<1>11. NoFailure => OnceInv(t)'
  BY <1>3, <1>4 DEF ThreadInv, mainVars, histVars, OnceInv
<1>12. NoRescan => SafeInv(t)'
  BY <1>3, <1>4 DEF ThreadInv, mainVars, histVars, SafeInv, Live
<1> QED
  BY <1>1, <1>2, <1>5, <1>6, <1>7, <1>8, <1>9, <1>10, <1>11, <1>12, Parts, StepDone

(* It goes on waiting.                                                     *)
LEMMA WaitAgainStep ==
  ASSUME NEW t \in Thread, Types, MainInv, ThreadInv(t), WaitAgain(t)
  PROVE  StepOf(t)
<1>1. Updates(t)
  BY DEF WaitAgain, Goto, infoVars, sharedVars, Types, ThreadTypes, Updates
<1>2. Counts(t)
  BY DEF WaitAgain, infoVars, sharedVars, Types, ThreadTypes, Counts
<1>3. cpc[t] = "waiting"
  BY DEF WaitAgain, Goto
<1>4. /\ cpc'[t] = "wait" /\ state'[t] = state[t]
      /\ requestRescan'[t] = requestRescan[t]
      /\ requestEndScan'[t] = requestEndScan[t]
      /\ tupleQueue'[t] = tupleQueue[t]
      /\ slot'[t] = slot[t] /\ old_state'[t] = old_state[t]
      /\ fdw'[t] = fdw[t]
      /\ UNCHANGED <<is_joined, mainVars, histVars>>
  BY <1>3 DEF WaitAgain, Goto, infoVars, sharedVars, Types, ThreadTypes
<1>5. Typed(t)'
  BY <1>4, ThreadTyped DEF Typed, ChildPc
<1>6. RescanOrder(t)' /\ WaitInv(t)' /\ StateInv(t)' /\ JoinInv(t)' /\ BegunInv(t)'
  BY <1>3, <1>4 DEF ThreadInv, mainVars, histVars, RescanOrder, WaitInv, StateInv, JoinInv,
     BegunInv
<1>7. RescanInv(t)'
  BY <1>3, <1>4 DEF ThreadInv, mainVars, histVars, RescanInv
<1>8. ~OtherScans => EndAsked(t)' /\ CleanInv(t)'
  BY <1>3, <1>4 DEF ThreadInv, mainVars, histVars, EndAsked, CleanInv
<1>9. Quiet => StreamInv(t)'
  BY <1>3, <1>4, StreamKept DEF ThreadInv, Fresh, Holding
<1>10. TopLevel => FinishInv(t)'
  BY <1>3, <1>4 DEF ThreadInv, mainVars, histVars, FinishInv
<1>11. NoFailure => OnceInv(t)'
  BY <1>3, <1>4 DEF ThreadInv, mainVars, histVars, OnceInv
<1>12. NoRescan => SafeInv(t)'
  BY <1>3, <1>4 DEF ThreadInv, mainVars, histVars, SafeInv, Live
<1> QED
  BY <1>1, <1>2, <1>5, <1>6, <1>7, <1>8, <1>9, <1>10, <1>11, <1>12, Parts, StepDone

(* The scan starts, and a child that begins late begins.                   *)
LEMMA StartScanStep ==
  ASSUME NEW t \in Thread, Types, MainInv, ThreadInv(t), StartScan(t)
  PROVE  StepOf(t)
<1>1. Updates(t)
  BY DEF StartScan, Goto, SetState, sharedVars, Types, ThreadTypes, Updates
<1>2. Counts(t)
  BY DEF StartScan, sharedVars, Types, ThreadTypes, Fdw, Counts
<1>3. cpc[t] = "wait"
  BY DEF StartScan, Goto
<1>4. CASE BeginsNow(t) /\ requestRescan[t]
  <2>1. /\ cpc'[t] = "rescan" /\ state'[t] = "ITERATE"
        /\ requestRescan'[t] = requestRescan[t]
        /\ requestEndScan'[t] = requestEndScan[t]
        /\ tupleQueue'[t] = tupleQueue[t]
        /\ slot'[t] = slot[t] /\ old_state'[t] = old_state[t]
        /\ fdw'[t] = [fdw[t] EXCEPT !.begun = TRUE]
        /\ UNCHANGED <<is_joined, mainVars, histVars>>
    BY <1>3, <1>4 DEF StartScan, Goto, SetState, sharedVars, Types, ThreadTypes
  <2>2. /\ fdw'[t].begun = TRUE /\ fdw'[t].failed = fdw[t].failed /\ fdw'[t].ends = fdw[t].ends
        /\ fdw'[t].scan = fdw[t].scan /\ fdw'[t].row = fdw[t].row /\ fdw'[t] \in Fdw
    BY <2>1, ThreadTyped DEF Typed, Fdw
  <2>3. Typed(t)'
    BY <1>3, <1>4, <2>1, <2>2, ThreadTyped DEF Typed, ChildPc, ThreadState
  <2>4. RescanOrder(t)' /\ WaitInv(t)' /\ StateInv(t)' /\ JoinInv(t)' /\ BegunInv(t)'
    BY <1>3, <1>4, <2>1, <2>2 DEF ThreadInv, mainVars, histVars, RescanOrder, WaitInv, StateInv,
       JoinInv, BegunInv
  <2>5. RescanInv(t)'
    BY <1>3, <1>4, <2>1, <2>2 DEF ThreadInv, mainVars, histVars, RescanInv
  <2>6. ~OtherScans => EndAsked(t)' /\ CleanInv(t)'
    BY <1>3, <1>4, <2>1, <2>2 DEF ThreadInv, mainVars, histVars, EndAsked, CleanInv
  <2>7. Quiet => StreamInv(t)'
    BY <1>3, <1>4, <2>1, <2>2, StreamKept DEF ThreadInv, Fresh, Holding
  <2>8. TopLevel => FinishInv(t)'
    BY <1>3, <1>4, <2>1, <2>2 DEF ThreadInv, mainVars, histVars, FinishInv
  <2>9. NoFailure => OnceInv(t)'
    BY <1>3, <1>4, <2>1, <2>2 DEF ThreadInv, mainVars, histVars, OnceInv
  <2>10. NoRescan => SafeInv(t)'
    BY <1>3, <1>4, <2>1, <2>2 DEF ThreadInv, MainInv, mainVars, histVars, SafeInv, Live, StateInv
  <2> QED
    BY <1>1, <1>2, <2>3, <2>4, <2>5, <2>6, <2>7, <2>8, <2>9, <2>10, Parts, StepDone
<1>5. CASE BeginsNow(t) /\ ~requestRescan[t]
  <2>1. /\ cpc'[t] = "iterate" /\ state'[t] = "ITERATE"
        /\ requestRescan'[t] = requestRescan[t]
        /\ requestEndScan'[t] = requestEndScan[t]
        /\ tupleQueue'[t] = tupleQueue[t]
        /\ slot'[t] = slot[t] /\ old_state'[t] = old_state[t]
        /\ fdw'[t] = [fdw[t] EXCEPT !.begun = TRUE]
        /\ UNCHANGED <<is_joined, mainVars, histVars>>
    BY <1>3, <1>5 DEF StartScan, Goto, SetState, sharedVars, Types, ThreadTypes
  <2>2. /\ fdw'[t].begun = TRUE /\ fdw'[t].failed = fdw[t].failed /\ fdw'[t].ends = fdw[t].ends
        /\ fdw'[t].scan = fdw[t].scan /\ fdw'[t].row = fdw[t].row /\ fdw'[t] \in Fdw
    BY <2>1, ThreadTyped DEF Typed, Fdw
  <2>3. Typed(t)'
    BY <1>3, <1>5, <2>1, <2>2, ThreadTyped DEF Typed, ChildPc, ThreadState
  <2>4. RescanOrder(t)' /\ WaitInv(t)' /\ StateInv(t)' /\ JoinInv(t)' /\ BegunInv(t)'
    BY <1>3, <1>5, <2>1, <2>2 DEF ThreadInv, mainVars, histVars, RescanOrder, WaitInv, StateInv,
       JoinInv, BegunInv
  <2>5. RescanInv(t)'
    BY <1>3, <1>5, <2>1, <2>2 DEF ThreadInv, mainVars, histVars, RescanInv
  <2>6. ~OtherScans => EndAsked(t)' /\ CleanInv(t)'
    BY <1>3, <1>5, <2>1, <2>2 DEF ThreadInv, mainVars, histVars, EndAsked, CleanInv
  <2>7. Quiet => StreamInv(t)'
    BY <1>3, <1>5, <2>1, <2>2, StreamKept DEF ThreadInv, Fresh, Holding
  <2>8. TopLevel => FinishInv(t)'
    BY <1>3, <1>5, <2>1, <2>2 DEF ThreadInv, mainVars, histVars, FinishInv
  <2>9. NoFailure => OnceInv(t)'
    BY <1>3, <1>5, <2>1, <2>2 DEF ThreadInv, mainVars, histVars, OnceInv
  <2>10. NoRescan => SafeInv(t)'
    BY <1>3, <1>5, <2>1, <2>2 DEF ThreadInv, MainInv, mainVars, histVars, SafeInv, Live, StateInv
  <2> QED
    BY <1>1, <1>2, <2>3, <2>4, <2>5, <2>6, <2>7, <2>8, <2>9, <2>10, Parts, StepDone
<1>6. CASE ~BeginsNow(t)
  <2>1. /\ cpc'[t] = "iterate" /\ state'[t] = "ITERATE"
        /\ requestRescan'[t] = requestRescan[t]
        /\ requestEndScan'[t] = requestEndScan[t]
        /\ tupleQueue'[t] = tupleQueue[t]
        /\ slot'[t] = slot[t] /\ old_state'[t] = old_state[t]
        /\ fdw'[t] = fdw[t]
        /\ UNCHANGED <<is_joined, mainVars, histVars>>
    BY <1>3, <1>6 DEF StartScan, Goto, SetState, sharedVars, Types, ThreadTypes
  <2>2. Typed(t)'
    BY <1>3, <1>6, <2>1, ThreadTyped DEF Typed, ChildPc, ThreadState
  <2>3. RescanOrder(t)' /\ WaitInv(t)' /\ StateInv(t)' /\ JoinInv(t)' /\ BegunInv(t)'
    BY <1>3, <1>6, <2>1 DEF ThreadInv, mainVars, histVars, RescanOrder, WaitInv, StateInv,
       JoinInv, BegunInv
  <2>4. RescanInv(t)'
    BY <1>3, <1>6, <2>1 DEF ThreadInv, mainVars, histVars, RescanInv
  <2>5. ~OtherScans => EndAsked(t)' /\ CleanInv(t)'
    BY <1>3, <1>6, <2>1 DEF ThreadInv, mainVars, histVars, EndAsked, CleanInv
  <2>6. Quiet => StreamInv(t)'
    BY <1>3, <1>6, <2>1, StreamKept DEF ThreadInv, Fresh, Holding
  <2>7. TopLevel => FinishInv(t)'
    BY <1>3, <1>6, <2>1 DEF ThreadInv, mainVars, histVars, FinishInv
  <2>8. NoFailure => OnceInv(t)'
    BY <1>3, <1>6, <2>1 DEF ThreadInv, mainVars, histVars, OnceInv
  <2>9. NoRescan => SafeInv(t)'
    BY <1>3, <1>6, <2>1 DEF ThreadInv, MainInv, mainVars, histVars, SafeInv, Live, StateInv
  <2> QED
    BY <1>1, <1>2, <2>2, <2>3, <2>4, <2>5, <2>6, <2>7, <2>8, <2>9, Parts, StepDone
<1> QED
  BY <1>4, <1>5, <1>6

(* A row is fetched and is at hand.                                        *)
LEMMA IterateRowStep ==
  ASSUME NEW t \in Thread, Types, MainInv, ThreadInv(t), IterateRow(t)
  PROVE  StepOf(t)
<1>1. Updates(t)
  BY DEF IterateRow, Goto, SetState, sharedVars, Types, ThreadTypes, Updates
<1>2. Counts(t)
  BY DEF IterateRow, sharedVars, Types, ThreadTypes, Counts
<1>3. cpc[t] = "iterate"
  BY DEF IterateRow, Goto
<1>4. /\ cpc'[t] = "pend" /\ state'[t] = "ITERATE_RUNNING"
      /\ requestRescan'[t] = requestRescan[t]
      /\ requestEndScan'[t] = requestEndScan[t]
      /\ tupleQueue'[t] = tupleQueue[t]
      /\ slot'[t] = <<fdw[t].scan, fdw[t].row + 1>> /\ old_state'[t] = old_state[t]
      /\ fdw'[t] = [fdw[t] EXCEPT !.row = @ + 1]
      /\ UNCHANGED <<is_joined, mainVars, histVars>>
  BY <1>3 DEF IterateRow, Goto, SetState, sharedVars, Types, ThreadTypes
<1>5. fdw'[t] \in Fdw
  BY <1>3, <1>4, ThreadTyped, FdwFields DEF Typed
<1>6. /\ fdw'[t].begun = fdw[t].begun /\ fdw'[t].failed = fdw[t].failed
      /\ fdw'[t].ends = fdw[t].ends /\ fdw'[t].scan = fdw[t].scan /\ fdw'[t].row = fdw[t].row + 1
  BY <1>4, <1>5
<1>7. slot'[t] \in Tuple
  BY <1>4, <1>5, <1>6 DEF Fdw, Tuple
<1>8. Typed(t)'
  BY <1>3, <1>4, <1>5, <1>6, <1>7, ThreadTyped DEF Typed, ChildPc, ThreadState
<1>9. RescanOrder(t)' /\ WaitInv(t)' /\ StateInv(t)' /\ JoinInv(t)' /\ BegunInv(t)'
  BY <1>3, <1>4, <1>5, <1>6, <1>7 DEF ThreadInv, mainVars, histVars, RescanOrder, WaitInv,
     StateInv, JoinInv, BegunInv
<1>10. RescanInv(t)'
  BY <1>3, <1>4, <1>5, <1>6, <1>7 DEF ThreadInv, mainVars, histVars, RescanInv
<1>11. ~OtherScans => EndAsked(t)' /\ CleanInv(t)'
  BY <1>3, <1>4, <1>5, <1>6, <1>7 DEF ThreadInv, mainVars, histVars, EndAsked, CleanInv
<1>12. Quiet => StreamInv(t)'
  BY <1>3, <1>4, <1>5, <1>6, <1>7, RowRead DEF ThreadInv
<1>13. TopLevel => FinishInv(t)'
  BY <1>3, <1>4, <1>5, <1>6, <1>7 DEF ThreadInv, mainVars, histVars, FinishInv
<1>14. NoFailure => OnceInv(t)'
  BY <1>3, <1>4, <1>5, <1>6, <1>7 DEF ThreadInv, mainVars, histVars, OnceInv
<1>15. NoRescan => SafeInv(t)'
  BY <1>3, <1>4, <1>5, <1>6, <1>7
  DEF ThreadInv, MainInv, mainVars, histVars, SafeInv, Live, StateInv
<1> QED
  BY <1>1, <1>2, <1>8, <1>9, <1>10, <1>11, <1>12, <1>13, <1>14, <1>15, Parts, StepDone

(* There are no more rows: the queue is finished.                          *)
LEMMA IterateEndStep ==
  ASSUME NEW t \in Thread, Types, MainInv, ThreadInv(t), IterateEnd(t)
  PROVE  StepOf(t)
<1>1. Updates(t)
  BY DEF IterateEnd, Goto, SetState, sharedVars, Types, ThreadTypes, Updates
<1>2. Counts(t)
  BY DEF IterateEnd, sharedVars, Types, ThreadTypes, Counts
<1>3. cpc[t] = "iterate" /\ fdw[t].row = setting.rows[t]
  BY DEF IterateEnd, Goto
<1>4. /\ cpc'[t] = "left" /\ state'[t] = "ITERATE_RUNNING"
      /\ requestRescan'[t] = requestRescan[t]
      /\ requestEndScan'[t] = requestEndScan[t]
      /\ tupleQueue'[t] = NotifyFinish(tupleQueue[t])
      /\ slot'[t] = slot[t] /\ old_state'[t] = old_state[t]
      /\ fdw'[t] = fdw[t]
      /\ UNCHANGED <<is_joined, mainVars, histVars>>
  BY <1>3 DEF IterateEnd, Goto, SetState, sharedVars, Types, ThreadTypes
<1>5. /\ tupleQueue'[t] \in TupleQueue(Tuple)
      /\ tupleQueue'[t].len = tupleQueue[t].len /\ tupleQueue'[t].start = tupleQueue[t].start
      /\ tupleQueue'[t].tuples = tupleQueue[t].tuples
      /\ tupleQueue'[t].queue_state = "FINISH"
  BY <1>3, <1>4, ThreadTyped, NotifyFields DEF Typed, NotifyFinish, SpdQueueState
<1>6. Typed(t)'
  BY <1>3, <1>4, <1>5, ThreadTyped DEF Typed, ChildPc, ThreadState
<1>7. RescanOrder(t)' /\ WaitInv(t)' /\ StateInv(t)' /\ JoinInv(t)' /\ BegunInv(t)'
  BY <1>3, <1>4, <1>5 DEF ThreadInv, mainVars, histVars, RescanOrder, WaitInv, StateInv, JoinInv,
     BegunInv
<1>8. RescanInv(t)'
  BY <1>3, <1>4, <1>5 DEF ThreadInv, mainVars, histVars, RescanInv
<1>9. ~OtherScans => EndAsked(t)' /\ CleanInv(t)'
  BY <1>3, <1>4, <1>5 DEF ThreadInv, mainVars, histVars, EndAsked, CleanInv
<1>10. Quiet => StreamInv(t)'
  BY <1>3, <1>4, <1>5, StreamKept DEF ThreadInv, Fresh, Holding
<1>11. TopLevel => FinishInv(t)'
  BY <1>3, <1>4, <1>5 DEF ThreadInv, mainVars, histVars, FinishInv, TopLevel, StreamInv, AtHand,
     Quiet
<1>12. NoFailure => OnceInv(t)'
  BY <1>3, <1>4, <1>5 DEF ThreadInv, mainVars, histVars, OnceInv
<1>13. NoRescan => SafeInv(t)'
  BY <1>3, <1>4, <1>5 DEF ThreadInv, MainInv, mainVars, histVars, SafeInv, Live, StateInv
<1> QED
  BY <1>1, <1>2, <1>6, <1>7, <1>8, <1>9, <1>10, <1>11, <1>12, <1>13, Parts, StepDone

(* The child FDW fails while it fetches.                                   *)
LEMMA IterateFailStep ==
  ASSUME NEW t \in Thread, Types, MainInv, ThreadInv(t), IterateFail(t)
  PROVE  StepOf(t)
<1>1. Updates(t)
  BY DEF IterateFail, Goto, SetState, sharedVars, Types, ThreadTypes, Updates
<1>2. Counts(t)
  BY DEF IterateFail, sharedVars, Types, ThreadTypes, Counts
<1>3. cpc[t] = "iterate" /\ t \in MayFail
  BY DEF IterateFail, Goto
<1>4. /\ cpc'[t] = "left" /\ state'[t] = "ERROR_INIT"
      /\ requestRescan'[t] = requestRescan[t]
      /\ requestEndScan'[t] = requestEndScan[t]
      /\ tupleQueue'[t] = tupleQueue[t]
      /\ slot'[t] = slot[t] /\ old_state'[t] = old_state[t]
      /\ fdw'[t] = [fdw[t] EXCEPT !.failed = TRUE]
      /\ UNCHANGED <<is_joined, mainVars, histVars>>
  BY <1>3 DEF IterateFail, Goto, SetState, sharedVars, Types, ThreadTypes
<1>5. /\ fdw'[t].begun = fdw[t].begun /\ fdw'[t].failed = TRUE /\ fdw'[t].ends = fdw[t].ends
      /\ fdw'[t].scan = fdw[t].scan /\ fdw'[t].row = fdw[t].row /\ fdw'[t] \in Fdw
  BY <1>4, ThreadTyped DEF Typed, Fdw
<1>6. Typed(t)'
  BY <1>3, <1>4, <1>5, ThreadTyped DEF Typed, ChildPc, ThreadState
<1>7. RescanOrder(t)' /\ WaitInv(t)' /\ StateInv(t)' /\ JoinInv(t)' /\ BegunInv(t)'
  BY <1>3, <1>4, <1>5 DEF ThreadInv, mainVars, histVars, RescanOrder, WaitInv, StateInv, JoinInv,
     BegunInv
<1>8. RescanInv(t)'
  BY <1>3, <1>4, <1>5 DEF ThreadInv, mainVars, histVars, RescanInv
<1>9. ~OtherScans => EndAsked(t)' /\ CleanInv(t)'
  BY <1>3, <1>4, <1>5 DEF ThreadInv, mainVars, histVars, EndAsked, CleanInv
<1>10. Quiet => StreamInv(t)'
  BY <1>3, <1>4, <1>5, StreamKept DEF ThreadInv, Fresh, Holding
<1>11. TopLevel => FinishInv(t)'
  BY <1>3, <1>4, <1>5 DEF ThreadInv, mainVars, histVars, FinishInv
<1>12. NoFailure => OnceInv(t)'
  BY <1>3, <1>4, <1>5 DEF mainVars, histVars, OnceInv, NoFailure
<1>13. NoRescan => SafeInv(t)'
  BY <1>3, <1>4, <1>5 DEF mainVars, histVars, SafeInv, Live
<1> QED
  BY <1>1, <1>2, <1>6, <1>7, <1>8, <1>9, <1>10, <1>11, <1>12, <1>13, Parts, StepDone

(* The loop is left by force.                                              *)
LEMMA IterateForcedStep ==
  ASSUME NEW t \in Thread, Types, MainInv, ThreadInv(t), IterateForced(t)
  PROVE  StepOf(t)
<1>1. Updates(t)
  BY DEF IterateForced, Goto, infoVars, sharedVars, Types, ThreadTypes, Updates
<1>2. Counts(t)
  BY DEF IterateForced, infoVars, sharedVars, Types, ThreadTypes, Counts
<1>3. cpc[t] = "iterate" /\ force_end
  BY DEF IterateForced, Goto
<1>4. /\ cpc'[t] = "left" /\ state'[t] = state[t]
      /\ requestRescan'[t] = requestRescan[t]
      /\ requestEndScan'[t] = requestEndScan[t]
      /\ tupleQueue'[t] = tupleQueue[t]
      /\ slot'[t] = slot[t] /\ old_state'[t] = old_state[t]
      /\ fdw'[t] = fdw[t]
      /\ UNCHANGED <<is_joined, mainVars, histVars>>
  BY <1>3 DEF IterateForced, Goto, infoVars, sharedVars, Types, ThreadTypes
<1>5. Typed(t)'
  BY <1>4, ThreadTyped DEF Typed, ChildPc
<1>6. RescanOrder(t)' /\ WaitInv(t)' /\ StateInv(t)' /\ JoinInv(t)' /\ BegunInv(t)'
  BY <1>3, <1>4 DEF ThreadInv, mainVars, histVars, RescanOrder, WaitInv, StateInv, JoinInv,
     BegunInv
<1>7. RescanInv(t)'
  BY <1>3, <1>4 DEF ThreadInv, mainVars, histVars, RescanInv
<1>8. ~OtherScans => EndAsked(t)' /\ CleanInv(t)'
  BY <1>3, <1>4 DEF ThreadInv, mainVars, histVars, EndAsked, CleanInv
<1>9. Quiet => StreamInv(t)'
  BY <1>3, <1>4, StreamKept DEF ThreadInv, Fresh, Holding
<1>10. TopLevel => FinishInv(t)'
  BY <1>3, <1>4 DEF ThreadInv, mainVars, histVars, FinishInv
<1>11. NoFailure => OnceInv(t)'
  BY <1>3, <1>4 DEF ThreadInv, mainVars, histVars, OnceInv
<1>12. NoRescan => SafeInv(t)'
  BY <1>3, <1>4 DEF ThreadInv, mainVars, histVars, SafeInv, Live
<1> QED
  BY <1>1, <1>2, <1>5, <1>6, <1>7, <1>8, <1>9, <1>10, <1>11, <1>12, Parts, StepDone

(* spd_check_pending_request notes the state it is to restore.             *)
LEMMA CheckPendingStep ==
  ASSUME NEW t \in Thread, Types, MainInv, ThreadInv(t), CheckPending(t)
  PROVE  StepOf(t)
<1>1. Updates(t)
  BY DEF CheckPending, Goto, infoVars, sharedVars, Types, ThreadTypes, Updates
<1>2. Counts(t)
  BY DEF CheckPending, infoVars, sharedVars, Types, ThreadTypes, Counts
<1>3. cpc[t] = "pend"
  BY DEF CheckPending, Goto
<1>4. /\ cpc'[t] = "pended" /\ state'[t] = state[t]
      /\ requestRescan'[t] = requestRescan[t]
      /\ requestEndScan'[t] = requestEndScan[t]
      /\ tupleQueue'[t] = tupleQueue[t]
      /\ slot'[t] = slot[t] /\ old_state'[t] = state[t]
      /\ fdw'[t] = fdw[t]
      /\ UNCHANGED <<is_joined, mainVars, histVars>>
  BY <1>3 DEF CheckPending, Goto, infoVars, sharedVars, Types, ThreadTypes
<1>5. Typed(t)'
  BY <1>3, <1>4, ThreadTyped DEF Typed, ChildPc, ThreadState, ThreadInv, WaitInv
<1>6. RescanOrder(t)' /\ WaitInv(t)' /\ StateInv(t)' /\ JoinInv(t)' /\ BegunInv(t)'
  BY <1>3, <1>4 DEF ThreadInv, mainVars, histVars, RescanOrder, WaitInv, StateInv, JoinInv,
     BegunInv
<1>7. RescanInv(t)'
  BY <1>3, <1>4 DEF ThreadInv, mainVars, histVars, RescanInv
<1>8. ~OtherScans => EndAsked(t)' /\ CleanInv(t)'
  BY <1>3, <1>4 DEF ThreadInv, mainVars, histVars, EndAsked, CleanInv
<1>9. Quiet => StreamInv(t)'
  BY <1>3, <1>4, StreamKept DEF ThreadInv, Fresh, Holding
<1>10. TopLevel => FinishInv(t)'
  BY <1>3, <1>4 DEF ThreadInv, mainVars, histVars, FinishInv
<1>11. NoFailure => OnceInv(t)'
  BY <1>3, <1>4 DEF ThreadInv, mainVars, histVars, OnceInv
<1>12. NoRescan => SafeInv(t)'
  BY <1>3, <1>4 DEF ThreadInv, mainVars, histVars, SafeInv, Live
<1> QED
  BY <1>1, <1>2, <1>5, <1>6, <1>7, <1>8, <1>9, <1>10, <1>11, <1>12, Parts, StepDone

(* The thread says that it is pending.                                     *)
LEMMA PendStep ==
  ASSUME NEW t \in Thread, Types, MainInv, ThreadInv(t), Pend(t)
  PROVE  StepOf(t)
<1>1. Updates(t)
  BY DEF Pend, SetState, localVars, sharedVars, Types, ThreadTypes, Updates
<1>2. Counts(t)
  BY DEF Pend, localVars, sharedVars, Types, ThreadTypes, Counts
<1>3. cpc[t] = "pended" /\ requestPending
  BY DEF Pend
<1>4. /\ cpc'[t] = "pended" /\ state'[t] = "PENDING"
      /\ requestRescan'[t] = requestRescan[t]
      /\ requestEndScan'[t] = requestEndScan[t]
      /\ tupleQueue'[t] = tupleQueue[t]
      /\ slot'[t] = slot[t] /\ old_state'[t] = old_state[t]
      /\ fdw'[t] = fdw[t]
      /\ UNCHANGED <<is_joined, mainVars, histVars>>
  BY <1>3 DEF Pend, SetState, localVars, sharedVars, Types, ThreadTypes
<1>5. Typed(t)'
  BY <1>3, <1>4, ThreadTyped DEF Typed, ThreadState
<1>6. RescanOrder(t)' /\ WaitInv(t)' /\ StateInv(t)' /\ JoinInv(t)' /\ BegunInv(t)'
  BY <1>3, <1>4 DEF ThreadInv, mainVars, histVars, RescanOrder, WaitInv, StateInv, JoinInv,
     BegunInv
<1>7. RescanInv(t)'
  BY <1>3, <1>4 DEF ThreadInv, mainVars, histVars, RescanInv
<1>8. ~OtherScans => EndAsked(t)' /\ CleanInv(t)'
  BY <1>3, <1>4 DEF ThreadInv, mainVars, histVars, EndAsked, CleanInv
<1>9. Quiet => StreamInv(t)'
  BY <1>3, <1>4, StreamKept DEF ThreadInv, Fresh, Holding
<1>10. TopLevel => FinishInv(t)'
  BY <1>3, <1>4 DEF ThreadInv, mainVars, histVars, FinishInv
<1>11. NoFailure => OnceInv(t)'
  BY <1>3, <1>4 DEF ThreadInv, mainVars, histVars, OnceInv
<1>12. NoRescan => SafeInv(t)'
  BY <1>3, <1>4 DEF mainVars, histVars, SafeInv, Live
<1> QED
  BY <1>1, <1>2, <1>5, <1>6, <1>7, <1>8, <1>9, <1>10, <1>11, <1>12, Parts, StepDone

(* It is woken up and restores the state.                                  *)
LEMMA WokenUpStep ==
  ASSUME NEW t \in Thread, Types, MainInv, ThreadInv(t), WokenUp(t)
  PROVE  StepOf(t)
<1>1. Updates(t)
  BY DEF WokenUp, Goto, SetState, sharedVars, Types, ThreadTypes, Updates
<1>2. Counts(t)
  BY DEF WokenUp, sharedVars, Types, ThreadTypes, Counts
<1>3. cpc[t] = "pended" /\ ~requestPending
  BY DEF WokenUp, Goto
<1>4. /\ cpc'[t] = "add" /\ state'[t] = old_state[t]
      /\ requestRescan'[t] = requestRescan[t]
      /\ requestEndScan'[t] = requestEndScan[t]
      /\ tupleQueue'[t] = tupleQueue[t]
      /\ slot'[t] = slot[t] /\ old_state'[t] = old_state[t]
      /\ fdw'[t] = fdw[t]
      /\ UNCHANGED <<is_joined, mainVars, histVars>>
  BY <1>3 DEF WokenUp, Goto, SetState, sharedVars, Types, ThreadTypes
<1>5. Typed(t)'
  BY <1>4, ThreadTyped DEF Typed, ChildPc
<1>6. RescanOrder(t)' /\ WaitInv(t)' /\ StateInv(t)' /\ JoinInv(t)' /\ BegunInv(t)'
  BY <1>3, <1>4, ThreadTyped DEF ThreadInv, mainVars, histVars, RescanOrder, WaitInv, StateInv,
     JoinInv, BegunInv, Typed, ThreadState
<1>7. RescanInv(t)'
  BY <1>3, <1>4 DEF ThreadInv, mainVars, histVars, RescanInv
<1>8. ~OtherScans => EndAsked(t)' /\ CleanInv(t)'
  BY <1>3, <1>4 DEF ThreadInv, mainVars, histVars, EndAsked, CleanInv
<1>9. Quiet => StreamInv(t)'
  BY <1>3, <1>4, StreamKept DEF ThreadInv, Fresh, Holding
<1>10. TopLevel => FinishInv(t)'
  BY <1>3, <1>4 DEF ThreadInv, mainVars, histVars, FinishInv
<1>11. NoFailure => OnceInv(t)'
  BY <1>3, <1>4 DEF ThreadInv, mainVars, histVars, OnceInv
<1>12. NoRescan => SafeInv(t)'
  BY <1>3, <1>4 DEF ThreadInv, MainInv, mainVars, histVars, SafeInv, Live
<1> QED
  BY <1>1, <1>2, <1>5, <1>6, <1>7, <1>8, <1>9, <1>10, <1>11, <1>12, Parts, StepDone

(* It has been pending for too long.                                       *)
LEMMA PendingTimeoutStep ==
  ASSUME NEW t \in Thread, Types, MainInv, ThreadInv(t), PendingTimeout(t)
  PROVE  StepOf(t)
<1>1. Updates(t)
  BY DEF PendingTimeout, Goto, SetState, sharedVars, Types, ThreadTypes, Updates
<1>2. Counts(t)
  BY DEF PendingTimeout, sharedVars, Types, ThreadTypes, Counts
<1>3. cpc[t] = "pended" /\ StatementTimeout
  BY DEF PendingTimeout, Goto
<1>4. /\ cpc'[t] = "left" /\ state'[t] = "ERROR_INIT"
      /\ requestRescan'[t] = requestRescan[t]
      /\ requestEndScan'[t] = requestEndScan[t]
      /\ tupleQueue'[t] = tupleQueue[t]
      /\ slot'[t] = slot[t] /\ old_state'[t] = old_state[t]
      /\ fdw'[t] = [fdw[t] EXCEPT !.failed = TRUE]
      /\ UNCHANGED <<is_joined, mainVars, histVars>>
  BY <1>3 DEF PendingTimeout, Goto, SetState, sharedVars, Types, ThreadTypes
<1>5. /\ fdw'[t].begun = fdw[t].begun /\ fdw'[t].failed = TRUE /\ fdw'[t].ends = fdw[t].ends
      /\ fdw'[t].scan = fdw[t].scan /\ fdw'[t].row = fdw[t].row /\ fdw'[t] \in Fdw
  BY <1>4, ThreadTyped DEF Typed, Fdw
<1>6. Typed(t)'
  BY <1>3, <1>4, <1>5, ThreadTyped DEF Typed, ChildPc, ThreadState
<1>7. RescanOrder(t)' /\ WaitInv(t)' /\ StateInv(t)' /\ JoinInv(t)' /\ BegunInv(t)'
  BY <1>3, <1>4, <1>5 DEF ThreadInv, mainVars, histVars, RescanOrder, WaitInv, StateInv, JoinInv,
     BegunInv
<1>8. RescanInv(t)'
  BY <1>3, <1>4, <1>5 DEF ThreadInv, mainVars, histVars, RescanInv
<1>9. ~OtherScans => EndAsked(t)' /\ CleanInv(t)'
  BY <1>3, <1>4, <1>5 DEF ThreadInv, mainVars, histVars, EndAsked, CleanInv
<1>10. Quiet => StreamInv(t)'
  BY <1>3, <1>4, <1>5, StreamKept DEF ThreadInv, Fresh, Holding
<1>11. TopLevel => FinishInv(t)'
  BY <1>3, <1>4, <1>5 DEF ThreadInv, mainVars, histVars, FinishInv
<1>12. NoFailure => OnceInv(t)'
  BY <1>3, <1>4, <1>5 DEF mainVars, histVars, OnceInv, NoFailure
<1>13. NoRescan => SafeInv(t)'
  BY <1>3, <1>4, <1>5 DEF mainVars, histVars, SafeInv, Live
<1> QED
  BY <1>1, <1>2, <1>6, <1>7, <1>8, <1>9, <1>10, <1>11, <1>12, <1>13, Parts, StepDone

(* The queue is full: another attempt, or out of the loop.                 *)
LEMMA RefusedStep ==
  ASSUME NEW t \in Thread, Types, MainInv, ThreadInv(t), Refused(t)
  PROVE  StepOf(t)
<1>1. Updates(t)
  BY DEF Refused, Goto, infoVars, sharedVars, Types, ThreadTypes, Updates
<1>2. Counts(t)
  BY DEF Refused, infoVars, sharedVars, Types, ThreadTypes, Counts
<1>3. cpc[t] = "add"
  BY DEF Refused, Goto
<1>4. CASE Asked(t)
  <2>1. /\ cpc'[t] = "left" /\ state'[t] = state[t]
        /\ requestRescan'[t] = requestRescan[t]
        /\ requestEndScan'[t] = requestEndScan[t]
        /\ tupleQueue'[t] = tupleQueue[t]
        /\ slot'[t] = slot[t] /\ old_state'[t] = old_state[t]
        /\ fdw'[t] = fdw[t]
        /\ UNCHANGED <<is_joined, mainVars, histVars>>
    BY <1>3, <1>4 DEF Refused, Goto, infoVars, sharedVars, Types, ThreadTypes
  <2>2. Typed(t)'
    BY <1>4, <2>1, ThreadTyped DEF Typed, ChildPc
  <2>3. RescanOrder(t)' /\ WaitInv(t)' /\ StateInv(t)' /\ JoinInv(t)' /\ BegunInv(t)'
    BY <1>3, <1>4, <2>1 DEF ThreadInv, mainVars, histVars, RescanOrder, WaitInv, StateInv,
       JoinInv, BegunInv
  <2>4. RescanInv(t)'
    BY <1>3, <1>4, <2>1 DEF ThreadInv, mainVars, histVars, RescanInv
  <2>5. ~OtherScans => EndAsked(t)' /\ CleanInv(t)'
    BY <1>3, <1>4, <2>1 DEF ThreadInv, mainVars, histVars, EndAsked, CleanInv
  <2>6. Quiet => StreamInv(t)'
    BY <2>1, StreamKept DEF ThreadInv, Fresh, Holding
  <2>7. TopLevel => FinishInv(t)'
    BY <1>3, <1>4, <2>1 DEF ThreadInv, mainVars, histVars, FinishInv
  <2>8. NoFailure => OnceInv(t)'
    BY <1>3, <1>4, <2>1 DEF ThreadInv, mainVars, histVars, OnceInv
  <2>9. NoRescan => SafeInv(t)'
    BY <1>3, <1>4, <2>1 DEF ThreadInv, mainVars, histVars, SafeInv, Live
  <2> QED
    BY <1>1, <1>2, <2>2, <2>3, <2>4, <2>5, <2>6, <2>7, <2>8, <2>9, Parts, StepDone
<1>5. CASE ~Asked(t)
  <2>1. /\ cpc'[t] = "pend" /\ state'[t] = state[t]
        /\ requestRescan'[t] = requestRescan[t]
        /\ requestEndScan'[t] = requestEndScan[t]
        /\ tupleQueue'[t] = tupleQueue[t]
        /\ slot'[t] = slot[t] /\ old_state'[t] = old_state[t]
        /\ fdw'[t] = fdw[t]
        /\ UNCHANGED <<is_joined, mainVars, histVars>>
    BY <1>3, <1>5 DEF Refused, Goto, infoVars, sharedVars, Types, ThreadTypes
  <2>2. Typed(t)'
    BY <1>5, <2>1, ThreadTyped DEF Typed, ChildPc
  <2>3. RescanOrder(t)' /\ WaitInv(t)' /\ StateInv(t)' /\ JoinInv(t)' /\ BegunInv(t)'
    BY <1>3, <1>5, <2>1 DEF ThreadInv, mainVars, histVars, RescanOrder, WaitInv, StateInv,
       JoinInv, BegunInv
  <2>4. RescanInv(t)'
    BY <1>3, <1>5, <2>1 DEF ThreadInv, mainVars, histVars, RescanInv
  <2>5. ~OtherScans => EndAsked(t)' /\ CleanInv(t)'
    BY <1>3, <1>5, <2>1 DEF ThreadInv, mainVars, histVars, EndAsked, CleanInv
  <2>6. Quiet => StreamInv(t)'
    BY <1>3, <1>5, <2>1, StreamKept DEF ThreadInv, Fresh, Holding
  <2>7. TopLevel => FinishInv(t)'
    BY <1>3, <1>5, <2>1 DEF ThreadInv, mainVars, histVars, FinishInv
  <2>8. NoFailure => OnceInv(t)'
    BY <1>3, <1>5, <2>1 DEF ThreadInv, mainVars, histVars, OnceInv
  <2>9. NoRescan => SafeInv(t)'
    BY <1>3, <1>5, <2>1 DEF ThreadInv, mainVars, histVars, SafeInv, Live
  <2> QED
    BY <1>1, <1>2, <2>2, <2>3, <2>4, <2>5, <2>6, <2>7, <2>8, <2>9, Parts, StepDone
<1> QED
  BY <1>4, <1>5

(* The slot is still in use: the thread sleeps with the mutex of the       *)
(* queue.                                                                  *)
LEMMA SleepStep ==
  ASSUME NEW t \in Thread, Types, MainInv, ThreadInv(t), Sleep(t)
  PROVE  StepOf(t)
<1>1. Updates(t)
  BY DEF Sleep, Goto, infoVars, sharedVars, Types, ThreadTypes, Updates
<1>2. Counts(t)
  BY DEF Sleep, infoVars, sharedVars, Types, ThreadTypes, Counts
<1>3. cpc[t] = "add" /\ ~QueueRefuses(tupleQueue[t])
  BY DEF Sleep, Goto
<1>4. /\ cpc'[t] = "spin" /\ state'[t] = state[t]
      /\ requestRescan'[t] = requestRescan[t]
      /\ requestEndScan'[t] = requestEndScan[t]
      /\ tupleQueue'[t] = tupleQueue[t]
      /\ slot'[t] = slot[t] /\ old_state'[t] = old_state[t]
      /\ fdw'[t] = fdw[t]
      /\ UNCHANGED <<is_joined, mainVars, histVars>>
  BY <1>3 DEF Sleep, Goto, infoVars, sharedVars, Types, ThreadTypes
<1>5. Typed(t)'
  BY <1>4, ThreadTyped DEF Typed, ChildPc
<1>6. RescanOrder(t)' /\ WaitInv(t)' /\ StateInv(t)' /\ JoinInv(t)' /\ BegunInv(t)'
  BY <1>3, <1>4 DEF ThreadInv, mainVars, histVars, RescanOrder, WaitInv, StateInv, JoinInv,
     BegunInv
<1>7. RescanInv(t)'
  BY <1>3, <1>4 DEF ThreadInv, mainVars, histVars, RescanInv
<1>8. ~OtherScans => EndAsked(t)' /\ CleanInv(t)'
  BY <1>3, <1>4 DEF ThreadInv, mainVars, histVars, EndAsked, CleanInv
<1>9. Quiet => StreamInv(t)'
  BY <1>3, <1>4, StreamKept DEF ThreadInv, Fresh, Holding
<1>10. TopLevel => FinishInv(t)'
  BY <1>3, <1>4 DEF ThreadInv, mainVars, histVars, FinishInv
<1>11. NoFailure => OnceInv(t)'
  BY <1>3, <1>4 DEF ThreadInv, mainVars, histVars, OnceInv
<1>12. NoRescan => SafeInv(t)'
  BY <1>3, <1>4 DEF ThreadInv, mainVars, histVars, SafeInv, Live
<1> QED
  BY <1>1, <1>2, <1>5, <1>6, <1>7, <1>8, <1>9, <1>10, <1>11, <1>12, Parts, StepDone

(* The row at hand goes into the queue.                                    *)
LEMMA AddStep ==
  ASSUME NEW t \in Thread, Types, MainInv, ThreadInv(t), Add(t)
  PROVE  StepOf(t)
<1>1. Updates(t)
  BY DEF Add, sharedVars, Types, ThreadTypes, Updates
<1>2. Counts(t)
  BY DEF Add, sharedVars, Types, ThreadTypes, Counts
<1>3. /\ cpc[t] = "add" \/ cpc[t] = "spin"
      /\ ~QueueRefuses(tupleQueue[t]) /\ tupleQueue[t].len < QueueLen
  BY ThreadTyped DEF Add, ThreadInv, WaitInv, QueueRefuses
<1>4. CASE Asked(t)
  <2>1. /\ cpc'[t] = "left" /\ state'[t] = state[t]
        /\ requestRescan'[t] = requestRescan[t]
        /\ requestEndScan'[t] = requestEndScan[t]
        /\ tupleQueue'[t] = QueueStore(tupleQueue[t], slot[t])
        /\ slot'[t] = slot[t] /\ old_state'[t] = old_state[t]
        /\ fdw'[t] = fdw[t]
        /\ UNCHANGED <<is_joined, mainVars, histVars>>
    BY <1>3, <1>4 DEF Add, Types, ThreadTypes
  <2>2. tupleQueue[t] \in TupleQueue(Tuple) /\ slot[t] \in Tuple \cup {NoTuple}
    BY ThreadTyped DEF Typed
  <2>3. /\ tupleQueue'[t] \in TupleQueue(Tuple)
        /\ tupleQueue'[t].len = tupleQueue[t].len + 1
        /\ tupleQueue'[t].queue_state = tupleQueue[t].queue_state
    <3>1. /\ QueueStore(tupleQueue[t], slot[t]) \in TupleQueue(Tuple)
          /\ QueueStore(tupleQueue[t], slot[t]).len = tupleQueue[t].len + 1
          /\ QueueStore(tupleQueue[t], slot[t]).queue_state = tupleQueue[t].queue_state
      BY <1>3, <2>2, StoreFields
    <3> QED
      BY <2>1, <3>1
  <2>4. Typed(t)'
    BY <1>4, <2>1, <2>3, ThreadTyped DEF Typed, ChildPc
  <2>5. RescanOrder(t)' /\ WaitInv(t)' /\ StateInv(t)' /\ JoinInv(t)' /\ BegunInv(t)'
    BY <1>3, <1>4, <2>1, <2>3 DEF ThreadInv, mainVars, histVars, RescanOrder, WaitInv, StateInv,
       JoinInv, BegunInv
  <2>6. RescanInv(t)'
    BY <1>3, <1>4, <2>1, <2>3 DEF ThreadInv, mainVars, histVars, RescanInv
  <2>7. ~OtherScans => EndAsked(t)' /\ CleanInv(t)'
    BY <1>3, <1>4, <2>1, <2>3 DEF ThreadInv, mainVars, histVars, EndAsked, CleanInv
  <2>8. Quiet => StreamInv(t)'
    BY <1>3, <1>4, <2>1, <2>3, TupleAdded DEF ThreadInv, Holding
  <2>9. TopLevel => FinishInv(t)'
    BY <1>3, <1>4, <2>1, <2>3 DEF ThreadInv, mainVars, histVars, FinishInv
  <2>10. NoFailure => OnceInv(t)'
    BY <1>3, <1>4, <2>1, <2>3 DEF ThreadInv, mainVars, histVars, OnceInv
  <2>11. NoRescan => SafeInv(t)'
    BY <1>3, <1>4, <2>1, <2>3 DEF ThreadInv, mainVars, histVars, SafeInv, Live
  <2> QED
    BY <1>1, <1>2, <2>4, <2>5, <2>6, <2>7, <2>8, <2>9, <2>10, <2>11, Parts, StepDone
<1>5. CASE ~Asked(t)
  <2>1. /\ cpc'[t] = "iterate" /\ state'[t] = state[t]
        /\ requestRescan'[t] = requestRescan[t]
        /\ requestEndScan'[t] = requestEndScan[t]
        /\ tupleQueue'[t] = QueueStore(tupleQueue[t], slot[t])
        /\ slot'[t] = slot[t] /\ old_state'[t] = old_state[t]
        /\ fdw'[t] = fdw[t]
        /\ UNCHANGED <<is_joined, mainVars, histVars>>
    BY <1>3, <1>5 DEF Add, Types, ThreadTypes
  <2>2. tupleQueue[t] \in TupleQueue(Tuple) /\ slot[t] \in Tuple \cup {NoTuple}
    BY ThreadTyped DEF Typed
  <2>3. /\ tupleQueue'[t] \in TupleQueue(Tuple)
        /\ tupleQueue'[t].len = tupleQueue[t].len + 1
        /\ tupleQueue'[t].queue_state = tupleQueue[t].queue_state
    <3>1. /\ QueueStore(tupleQueue[t], slot[t]) \in TupleQueue(Tuple)
          /\ QueueStore(tupleQueue[t], slot[t]).len = tupleQueue[t].len + 1
          /\ QueueStore(tupleQueue[t], slot[t]).queue_state = tupleQueue[t].queue_state
      BY <1>3, <2>2, StoreFields
    <3> QED
      BY <2>1, <3>1
  <2>4. Typed(t)'
    BY <1>5, <2>1, <2>3, ThreadTyped DEF Typed, ChildPc
  <2>5. RescanOrder(t)' /\ WaitInv(t)' /\ StateInv(t)' /\ JoinInv(t)' /\ BegunInv(t)'
    BY <1>3, <1>5, <2>1, <2>3 DEF ThreadInv, mainVars, histVars, RescanOrder, WaitInv, StateInv,
       JoinInv, BegunInv
  <2>6. RescanInv(t)'
    BY <1>3, <1>5, <2>1, <2>3 DEF ThreadInv, mainVars, histVars, RescanInv
  <2>7. ~OtherScans => EndAsked(t)' /\ CleanInv(t)'
    BY <1>3, <1>5, <2>1, <2>3 DEF ThreadInv, mainVars, histVars, EndAsked, CleanInv
  <2>8. Quiet => StreamInv(t)'
    BY <1>3, <1>5, <2>1, <2>3, TupleAdded DEF ThreadInv, Holding
  <2>9. TopLevel => FinishInv(t)'
    BY <1>3, <1>5, <2>1, <2>3 DEF ThreadInv, mainVars, histVars, FinishInv
  <2>10. NoFailure => OnceInv(t)'
    BY <1>3, <1>5, <2>1, <2>3 DEF ThreadInv, mainVars, histVars, OnceInv
  <2>11. NoRescan => SafeInv(t)'
    BY <1>3, <1>5, <2>1, <2>3 DEF ThreadInv, mainVars, histVars, SafeInv, Live
  <2> QED
    BY <1>1, <1>2, <2>4, <2>5, <2>6, <2>7, <2>8, <2>9, <2>10, <2>11, Parts, StepDone
<1> QED
  BY <1>4, <1>5

(* The loop is over, in error or not.                                      *)
LEMMA LoopLeftStep ==
  ASSUME NEW t \in Thread, Types, MainInv, ThreadInv(t), LoopLeft(t)
  PROVE  StepOf(t)
<1>1. Updates(t)
  BY DEF LoopLeft, Goto, SetState, sharedVars, Types, ThreadTypes, Updates
<1>2. Counts(t)
  BY DEF LoopLeft, sharedVars, Types, ThreadTypes, Counts
<1>3. cpc[t] = "left"
  BY DEF LoopLeft, Goto
<1>4. CASE InError(t)
  <2>1. /\ cpc'[t] = "exit" /\ state'[t] = state[t]
        /\ requestRescan'[t] = requestRescan[t]
        /\ requestEndScan'[t] = TRUE
        /\ tupleQueue'[t] = tupleQueue[t]
        /\ slot'[t] = slot[t] /\ old_state'[t] = old_state[t]
        /\ fdw'[t] = fdw[t]
        /\ UNCHANGED <<is_joined, mainVars, histVars>>
    BY <1>3, <1>4 DEF LoopLeft, Goto, SetState, sharedVars, Types, ThreadTypes
  <2>2. Typed(t)'
    BY <1>4, <2>1, ThreadTyped DEF Typed, ChildPc
  <2>3. RescanOrder(t)' /\ WaitInv(t)' /\ StateInv(t)' /\ JoinInv(t)' /\ BegunInv(t)'
    BY <1>3, <1>4, <2>1 DEF ThreadInv, mainVars, histVars, RescanOrder, WaitInv, StateInv,
       JoinInv, BegunInv
  <2>4. RescanInv(t)'
    BY <1>3, <1>4, <2>1 DEF ThreadInv, mainVars, histVars, RescanInv
  <2>5. ~OtherScans => EndAsked(t)' /\ CleanInv(t)'
    BY <1>3, <1>4, <2>1 DEF ThreadInv, mainVars, histVars, EndAsked, CleanInv
  <2>6. Quiet => StreamInv(t)'
    BY <2>1, StreamKept DEF ThreadInv, Fresh, Holding
  <2>7. TopLevel => FinishInv(t)'
    BY <1>3, <1>4, <2>1 DEF ThreadInv, mainVars, histVars, FinishInv
  <2>8. NoFailure => OnceInv(t)'
    BY <1>3, <1>4, <2>1 DEF ThreadInv, mainVars, histVars, OnceInv
  <2>9. NoRescan => SafeInv(t)'
    BY <1>3, <1>4, <2>1 DEF mainVars, histVars, SafeInv, Live
  <2> QED
    BY <1>1, <1>2, <2>2, <2>3, <2>4, <2>5, <2>6, <2>7, <2>8, <2>9, Parts, StepDone
<1>5. CASE ~InError(t)
  <2>1. /\ cpc'[t] = "end" /\ state'[t] = "PRE_END"
        /\ requestRescan'[t] = requestRescan[t]
        /\ requestEndScan'[t] = requestEndScan[t]
        /\ tupleQueue'[t] = tupleQueue[t]
        /\ slot'[t] = slot[t] /\ old_state'[t] = old_state[t]
        /\ fdw'[t] = fdw[t]
        /\ UNCHANGED <<is_joined, mainVars, histVars>>
    BY <1>3, <1>5 DEF LoopLeft, Goto, SetState, sharedVars, Types, ThreadTypes
  <2>2. Typed(t)'
    BY <1>3, <1>5, <2>1, ThreadTyped DEF Typed, ChildPc, ThreadState
  <2>3. RescanOrder(t)' /\ WaitInv(t)' /\ StateInv(t)' /\ JoinInv(t)' /\ BegunInv(t)'
    BY <1>3, <1>5, <2>1 DEF ThreadInv, mainVars, histVars, RescanOrder, WaitInv, StateInv,
       JoinInv, BegunInv
  <2>4. RescanInv(t)'
    BY <1>3, <1>5, <2>1 DEF ThreadInv, mainVars, histVars, RescanInv
  <2>5. ~OtherScans => EndAsked(t)' /\ CleanInv(t)'
    BY <1>3, <1>5, <2>1 DEF ThreadInv, mainVars, histVars, EndAsked, CleanInv
  <2>6. Quiet => StreamInv(t)'
    BY <2>1, StreamKept DEF ThreadInv, Fresh, Holding
  <2>7. TopLevel => FinishInv(t)'
    BY <1>3, <1>5, <2>1 DEF ThreadInv, mainVars, histVars, FinishInv
  <2>8. NoFailure => OnceInv(t)'
    BY <1>3, <1>5, <2>1 DEF ThreadInv, mainVars, histVars, OnceInv
  <2>9. NoRescan => SafeInv(t)'
    BY <1>3, <1>5, <2>1 DEF mainVars, histVars, SafeInv, Live
  <2> QED
    BY <1>1, <1>2, <2>2, <2>3, <2>4, <2>5, <2>6, <2>7, <2>8, <2>9, Parts, StepDone
<1> QED
  BY <1>4, <1>5

(* spd_EndForeignScanChild looks at the force flag.                        *)
LEMMA EndTurnStep ==
  ASSUME NEW t \in Thread, Types, MainInv, ThreadInv(t), EndTurn(t)
  PROVE  StepOf(t)
<1>1. Updates(t)
  BY DEF EndTurn, Goto, sharedVars, Types, ThreadTypes, Updates
<1>2. Counts(t)
  BY DEF EndTurn, sharedVars, Types, ThreadTypes, Counts
<1>3. cpc[t] = "end"
  BY DEF EndTurn, Goto
<1>4. /\ cpc'[t] = "end_wait" /\ state'[t] = state[t]
      /\ requestRescan'[t] = requestRescan[t]
      /\ requestEndScan'[t] = (requestEndScan[t] \/ force_end)
      /\ tupleQueue'[t] = tupleQueue[t]
      /\ slot'[t] = slot[t] /\ old_state'[t] = old_state[t]
      /\ fdw'[t] = fdw[t]
      /\ UNCHANGED <<is_joined, mainVars, histVars>>
  BY <1>3 DEF EndTurn, Goto, sharedVars, Types, ThreadTypes
<1>5. Typed(t)'
  BY <1>4, ThreadTyped DEF Typed, ChildPc
<1>6. RescanOrder(t)' /\ WaitInv(t)' /\ StateInv(t)' /\ JoinInv(t)' /\ BegunInv(t)'
  BY <1>3, <1>4 DEF ThreadInv, mainVars, histVars, RescanOrder, WaitInv, StateInv, JoinInv,
     BegunInv
<1>7. RescanInv(t)'
  BY <1>3, <1>4 DEF ThreadInv, mainVars, histVars, RescanInv
<1>8. ~OtherScans => EndAsked(t)' /\ CleanInv(t)'
  BY <1>3, <1>4 DEF ThreadInv, MainInv, mainVars, histVars, EndAsked, CleanInv, OutcomeInv
<1>9. Quiet => StreamInv(t)'
  BY <1>3, <1>4, StreamKept DEF ThreadInv, Fresh, Holding
<1>10. TopLevel => FinishInv(t)'
  BY <1>3, <1>4 DEF ThreadInv, mainVars, histVars, FinishInv
<1>11. NoFailure => OnceInv(t)'
  BY <1>3, <1>4 DEF ThreadInv, MainInv, mainVars, histVars, OnceInv, NoFailure, OutcomeInv
<1>12. NoRescan => SafeInv(t)'
  BY <1>3, <1>4 DEF ThreadInv, mainVars, histVars, SafeInv, Live
<1> QED
  BY <1>1, <1>2, <1>5, <1>6, <1>7, <1>8, <1>9, <1>10, <1>11, <1>12, Parts, StepDone

(* The child scan is left to THREAD_EXIT.                                  *)
LEMMA EndForcedStep ==
  ASSUME NEW t \in Thread, Types, MainInv, ThreadInv(t), EndForced(t)
  PROVE  StepOf(t)
<1>1. Updates(t)
  BY DEF EndForced, Goto, infoVars, sharedVars, Types, ThreadTypes, Updates
<1>2. Counts(t)
  BY DEF EndForced, infoVars, sharedVars, Types, ThreadTypes, Counts
<1>3. cpc[t] = "end_wait" /\ force_end
  BY DEF EndForced, Goto
<1>4. /\ cpc'[t] = "ended" /\ state'[t] = state[t]
      /\ requestRescan'[t] = requestRescan[t]
      /\ requestEndScan'[t] = requestEndScan[t]
      /\ tupleQueue'[t] = tupleQueue[t]
      /\ slot'[t] = slot[t] /\ old_state'[t] = old_state[t]
      /\ fdw'[t] = fdw[t]
      /\ UNCHANGED <<is_joined, mainVars, histVars>>
  BY <1>3 DEF EndForced, Goto, infoVars, sharedVars, Types, ThreadTypes
<1>5. Typed(t)'
  BY <1>4, ThreadTyped DEF Typed, ChildPc
<1>6. RescanOrder(t)' /\ WaitInv(t)' /\ StateInv(t)' /\ JoinInv(t)' /\ BegunInv(t)'
  BY <1>3, <1>4 DEF ThreadInv, mainVars, histVars, RescanOrder, WaitInv, StateInv, JoinInv,
     BegunInv
<1>7. RescanInv(t)'
  BY <1>3, <1>4 DEF ThreadInv, mainVars, histVars, RescanInv
<1>8. ~OtherScans => EndAsked(t)' /\ CleanInv(t)'
  BY <1>3, <1>4 DEF ThreadInv, MainInv, mainVars, histVars, EndAsked, CleanInv, OutcomeInv
<1>9. Quiet => StreamInv(t)'
  BY <1>3, <1>4, ThreadTyped, StreamKept DEF ThreadInv, Fresh, Holding, MainInv, OutcomeInv,
     RescanInv, RescanOrder, Quiet
<1>10. TopLevel => FinishInv(t)'
  BY <1>3, <1>4 DEF ThreadInv, MainInv, mainVars, histVars, FinishInv, TopLevel, OutcomeInv
<1>11. NoFailure => OnceInv(t)'
  BY <1>3, <1>4 DEF ThreadInv, MainInv, mainVars, histVars, OnceInv, NoFailure, OutcomeInv
<1>12. NoRescan => SafeInv(t)'
  BY <1>3, <1>4 DEF ThreadInv, mainVars, histVars, SafeInv, Live
<1> QED
  BY <1>1, <1>2, <1>5, <1>6, <1>7, <1>8, <1>9, <1>10, <1>11, <1>12, Parts, StepDone

(* EndForeignScan is called.                                               *)
LEMMA EndScanStep ==
  ASSUME NEW t \in Thread, Types, MainInv, ThreadInv(t), EndScan(t)
  PROVE  StepOf(t)
<1>1. Updates(t)
  BY DEF EndScan, Goto, SetState, sharedVars, Types, ThreadTypes, Updates
<1>2. Counts(t)
  BY DEF EndScan, sharedVars, Types, ThreadTypes, Counts
<1>3. cpc[t] = "end_wait" /\ requestEndScan[t]
  BY DEF EndScan, Goto
<1>4. /\ cpc'[t] = "ending" /\ state'[t] = "END"
      /\ requestRescan'[t] = requestRescan[t]
      /\ requestEndScan'[t] = requestEndScan[t]
      /\ tupleQueue'[t] = tupleQueue[t]
      /\ slot'[t] = slot[t] /\ old_state'[t] = old_state[t]
      /\ fdw'[t] = [fdw[t] EXCEPT !.ends = @ + 1]
      /\ UNCHANGED <<is_joined, mainVars, histVars>>
  BY <1>3 DEF EndScan, Goto, SetState, sharedVars, Types, ThreadTypes
<1>5. fdw'[t] \in Fdw
  BY <1>3, <1>4, ThreadTyped, FdwFields DEF Typed
<1>6. /\ fdw'[t].begun = fdw[t].begun /\ fdw'[t].failed = fdw[t].failed
      /\ fdw'[t].ends = fdw[t].ends + 1 /\ fdw'[t].scan = fdw[t].scan /\ fdw'[t].row = fdw[t].row
  BY <1>4, <1>5
<1>7. Typed(t)'
  BY <1>3, <1>4, <1>5, <1>6, ThreadTyped DEF Typed, ChildPc, ThreadState
<1>8. RescanOrder(t)' /\ WaitInv(t)' /\ StateInv(t)' /\ JoinInv(t)' /\ BegunInv(t)'
  BY <1>3, <1>4, <1>5, <1>6 DEF ThreadInv, mainVars, histVars, RescanOrder, WaitInv, StateInv,
     JoinInv, BegunInv
<1>9. RescanInv(t)'
  BY <1>3, <1>4, <1>5, <1>6 DEF ThreadInv, mainVars, histVars, RescanInv
<1>10. ~OtherScans => EndAsked(t)' /\ CleanInv(t)'
  BY <1>3, <1>4, <1>5, <1>6, ThreadTyped DEF ThreadInv, MainInv, mainVars, histVars, EndAsked,
     CleanInv, RescanInv, OutcomeInv
<1>11. Quiet => StreamInv(t)'
  BY <1>3, <1>4, <1>5, <1>6, StreamKept DEF ThreadInv, Fresh, Holding
<1>12. TopLevel => FinishInv(t)'
  BY <1>3, <1>4, <1>5, <1>6, TopJoins DEF ThreadInv, mainVars, histVars, FinishInv, EndAsked,
     TopLevel
<1>13. NoFailure => OnceInv(t)'
  BY <1>3, <1>4, <1>5, <1>6, ThreadTyped DEF ThreadInv, mainVars, histVars, OnceInv, NoFailure,
     EndAsked
<1>14. NoRescan => SafeInv(t)'
  BY <1>3, <1>4, <1>5, <1>6 DEF mainVars, histVars, SafeInv, Live
<1> QED
  BY <1>1, <1>2, <1>7, <1>8, <1>9, <1>10, <1>11, <1>12, <1>13, <1>14, Parts, StepDone

(* EndForeignScan has returned, the request is reset.                      *)
LEMMA EndReturnStep ==
  ASSUME NEW t \in Thread, Types, MainInv, ThreadInv(t), EndReturn(t)
  PROVE  StepOf(t)
<1>1. Updates(t)
  BY DEF EndReturn, Goto, sharedVars, Types, ThreadTypes, Updates
<1>2. Counts(t)
  BY DEF EndReturn, sharedVars, Types, ThreadTypes, Counts
<1>3. cpc[t] = "ending"
  BY DEF EndReturn, Goto
<1>4. /\ cpc'[t] = "ended" /\ state'[t] = state[t]
      /\ requestRescan'[t] = requestRescan[t]
      /\ requestEndScan'[t] = FALSE
      /\ tupleQueue'[t] = tupleQueue[t]
      /\ slot'[t] = slot[t] /\ old_state'[t] = old_state[t]
      /\ fdw'[t] = fdw[t]
      /\ UNCHANGED <<is_joined, mainVars, histVars>>
  BY <1>3 DEF EndReturn, Goto, sharedVars, Types, ThreadTypes
<1>5. Typed(t)'
  BY <1>4, ThreadTyped DEF Typed, ChildPc
<1>6. RescanOrder(t)' /\ WaitInv(t)' /\ StateInv(t)' /\ JoinInv(t)' /\ BegunInv(t)'
  BY <1>3, <1>4 DEF ThreadInv, mainVars, histVars, RescanOrder, WaitInv, StateInv, JoinInv,
     BegunInv
<1>7. RescanInv(t)'
  BY <1>3, <1>4 DEF ThreadInv, mainVars, histVars, RescanInv
<1>8. ~OtherScans => EndAsked(t)' /\ CleanInv(t)'
  BY <1>3, <1>4 DEF ThreadInv, mainVars, histVars, EndAsked, CleanInv
<1>9. Quiet => StreamInv(t)'
  <2>1. Quiet => ~requestRescan[t]
    BY <1>3, ThreadTyped DEF ThreadInv, EndAsked, Doomed, RescanOrder, Quiet
  <2>2. cpc'[t] \notin Fresh /\ cpc'[t] \notin Holding
    BY <1>4 DEF Fresh, Holding
  <2> QED
    BY <1>4, <2>1, <2>2, StreamKept DEF ThreadInv
<1>10. TopLevel => FinishInv(t)'
  BY <1>3, <1>4 DEF ThreadInv, mainVars, histVars, FinishInv
<1>11. NoFailure => OnceInv(t)'
  BY <1>3, <1>4 DEF ThreadInv, mainVars, histVars, OnceInv
<1>12. NoRescan => SafeInv(t)'
  BY <1>3, <1>4 DEF ThreadInv, mainVars, histVars, SafeInv, Live
<1> QED
  BY <1>1, <1>2, <1>5, <1>6, <1>7, <1>8, <1>9, <1>10, <1>11, <1>12, Parts, StepDone

(* EndForeignScan has failed, the request stays.                           *)
LEMMA EndFailStep ==
  ASSUME NEW t \in Thread, Types, MainInv, ThreadInv(t), EndFail(t)
  PROVE  StepOf(t)
<1>1. Updates(t)
  BY DEF EndFail, Goto, SetState, sharedVars, Types, ThreadTypes, Updates
<1>2. Counts(t)
  BY DEF EndFail, sharedVars, Types, ThreadTypes, Counts
<1>3. cpc[t] = "ending" /\ t \in MayFail
  BY DEF EndFail, Goto
<1>4. /\ cpc'[t] = "ended" /\ state'[t] = "ERROR_INIT"
      /\ requestRescan'[t] = requestRescan[t]
      /\ requestEndScan'[t] = requestEndScan[t]
      /\ tupleQueue'[t] = tupleQueue[t]
      /\ slot'[t] = slot[t] /\ old_state'[t] = old_state[t]
      /\ fdw'[t] = [fdw[t] EXCEPT !.failed = TRUE]
      /\ UNCHANGED <<is_joined, mainVars, histVars>>
  BY <1>3 DEF EndFail, Goto, SetState, sharedVars, Types, ThreadTypes
<1>5. /\ fdw'[t].begun = fdw[t].begun /\ fdw'[t].failed = TRUE /\ fdw'[t].ends = fdw[t].ends
      /\ fdw'[t].scan = fdw[t].scan /\ fdw'[t].row = fdw[t].row /\ fdw'[t] \in Fdw
  BY <1>4, ThreadTyped DEF Typed, Fdw
<1>6. Typed(t)'
  BY <1>3, <1>4, <1>5, ThreadTyped DEF Typed, ChildPc, ThreadState
<1>7. RescanOrder(t)' /\ WaitInv(t)' /\ StateInv(t)' /\ JoinInv(t)' /\ BegunInv(t)'
  BY <1>3, <1>4, <1>5 DEF ThreadInv, mainVars, histVars, RescanOrder, WaitInv, StateInv, JoinInv,
     BegunInv
<1>8. RescanInv(t)'
  BY <1>3, <1>4, <1>5 DEF ThreadInv, mainVars, histVars, RescanInv
<1>9. ~OtherScans => EndAsked(t)' /\ CleanInv(t)'
  BY <1>3, <1>4, <1>5 DEF ThreadInv, mainVars, histVars, EndAsked, CleanInv
<1>10. Quiet => StreamInv(t)'
  BY <1>3, <1>4, <1>5, StreamKept DEF ThreadInv, Fresh, Holding
<1>11. TopLevel => FinishInv(t)'
  BY <1>3, <1>4, <1>5 DEF ThreadInv, mainVars, histVars, FinishInv
<1>12. NoFailure => OnceInv(t)'
  BY <1>3, <1>4, <1>5 DEF mainVars, histVars, OnceInv, NoFailure
<1>13. NoRescan => SafeInv(t)'
  BY <1>3, <1>4, <1>5 DEF mainVars, histVars, SafeInv, Live
<1> QED
  BY <1>1, <1>2, <1>6, <1>7, <1>8, <1>9, <1>10, <1>11, <1>12, <1>13, Parts, StepDone

(* A rescan is asked for: the queue is emptied and open again.             *)
LEMMA EndRescanStep ==
  ASSUME NEW t \in Thread, Types, MainInv, ThreadInv(t), EndRescan(t)
  PROVE  StepOf(t)
<1>1. Updates(t)
  BY DEF EndRescan, Goto, sharedVars, Types, ThreadTypes, Updates
<1>2. Counts(t)
  BY DEF EndRescan, sharedVars, Types, ThreadTypes, Counts
<1>3. cpc[t] = "end_wait" /\ ~requestEndScan[t] /\ requestRescan[t]
  BY DEF EndRescan, Goto
<1>4. /\ cpc'[t] = "ended" /\ state'[t] = state[t]
      /\ requestRescan'[t] = requestRescan[t]
      /\ requestEndScan'[t] = requestEndScan[t]
      /\ tupleQueue'[t] = QueueReset(tupleQueue[t])
      /\ slot'[t] = slot[t] /\ old_state'[t] = old_state[t]
      /\ fdw'[t] = fdw[t]
      /\ UNCHANGED <<is_joined, mainVars, histVars>>
  BY <1>3 DEF EndRescan, Goto, sharedVars, Types, ThreadTypes
<1>5. /\ tupleQueue'[t] \in TupleQueue(Tuple)
      /\ tupleQueue'[t].len = 0 /\ tupleQueue'[t].queue_state = "OK"
  BY <1>3, <1>4, ThreadTyped, ResetFields DEF Typed
<1>6. Typed(t)'
  BY <1>4, <1>5, ThreadTyped DEF Typed, ChildPc
<1>7. RescanOrder(t)' /\ WaitInv(t)' /\ StateInv(t)' /\ JoinInv(t)' /\ BegunInv(t)'
  BY <1>3, <1>4, <1>5 DEF ThreadInv, mainVars, histVars, RescanOrder, WaitInv, StateInv, JoinInv,
     BegunInv
<1>8. RescanInv(t)'
  BY <1>3, <1>4, <1>5 DEF ThreadInv, mainVars, histVars, RescanInv
<1>9. ~OtherScans => EndAsked(t)' /\ CleanInv(t)'
  BY <1>3, <1>4, <1>5 DEF ThreadInv, mainVars, histVars, EndAsked, CleanInv
<1>10. Quiet => StreamInv(t)'
  BY <1>3, <1>4, <1>5, ThreadTyped
     DEF ThreadInv, RescanOrder, StreamInv, EmptyFirst, Fresh, histVars
<1>11. TopLevel => FinishInv(t)'
  BY <1>3, <1>4, <1>5 DEF mainVars, histVars, FinishInv
<1>12. NoFailure => OnceInv(t)'
  BY <1>3, <1>4, <1>5 DEF ThreadInv, mainVars, histVars, OnceInv
<1>13. NoRescan => SafeInv(t)'
  BY <1>3, <1>4, <1>5 DEF ThreadInv, mainVars, histVars, SafeInv, Live
<1> QED
  BY <1>1, <1>2, <1>6, <1>7, <1>8, <1>9, <1>10, <1>11, <1>12, <1>13, Parts, StepDone

(* Nothing is asked for, the thread goes on waiting.                       *)
LEMMA EndAgainStep ==
  ASSUME NEW t \in Thread, Types, MainInv, ThreadInv(t), EndAgain(t)
  PROVE  StepOf(t)
<1>1. Updates(t)
  BY DEF EndAgain, Goto, infoVars, sharedVars, Types, ThreadTypes, Updates
<1>2. Counts(t)
  BY DEF EndAgain, infoVars, sharedVars, Types, ThreadTypes, Counts
<1>3. cpc[t] = "end_wait"
  BY DEF EndAgain, Goto
<1>4. /\ cpc'[t] = "end" /\ state'[t] = state[t]
      /\ requestRescan'[t] = requestRescan[t]
      /\ requestEndScan'[t] = requestEndScan[t]
      /\ tupleQueue'[t] = tupleQueue[t]
      /\ slot'[t] = slot[t] /\ old_state'[t] = old_state[t]
      /\ fdw'[t] = fdw[t]
      /\ UNCHANGED <<is_joined, mainVars, histVars>>
  BY <1>3 DEF EndAgain, Goto, infoVars, sharedVars, Types, ThreadTypes
<1>5. Typed(t)'
  BY <1>4, ThreadTyped DEF Typed, ChildPc
<1>6. RescanOrder(t)' /\ WaitInv(t)' /\ StateInv(t)' /\ JoinInv(t)' /\ BegunInv(t)'
  BY <1>3, <1>4 DEF ThreadInv, mainVars, histVars, RescanOrder, WaitInv, StateInv, JoinInv,
     BegunInv
<1>7. RescanInv(t)'
  BY <1>3, <1>4 DEF ThreadInv, mainVars, histVars, RescanInv
<1>8. ~OtherScans => EndAsked(t)' /\ CleanInv(t)'
  BY <1>3, <1>4 DEF ThreadInv, mainVars, histVars, EndAsked, CleanInv
<1>9. Quiet => StreamInv(t)'
  BY <1>3, <1>4, StreamKept DEF ThreadInv, Fresh, Holding
<1>10. TopLevel => FinishInv(t)'
  BY <1>3, <1>4 DEF ThreadInv, mainVars, histVars, FinishInv
<1>11. NoFailure => OnceInv(t)'
  BY <1>3, <1>4 DEF ThreadInv, mainVars, histVars, OnceInv
<1>12. NoRescan => SafeInv(t)'
  BY <1>3, <1>4 DEF ThreadInv, mainVars, histVars, SafeInv, Live
<1> QED
  BY <1>1, <1>2, <1>5, <1>6, <1>7, <1>8, <1>9, <1>10, <1>11, <1>12, Parts, StepDone

(* After spd_EndForeignScanChild: out in error, back for a rescan, or out. *)
LEMMA EndedStep ==
  ASSUME NEW t \in Thread, Types, MainInv, ThreadInv(t), Ended(t)
  PROVE  StepOf(t)
<1>1. Updates(t)
  BY DEF Ended, Goto, SetState, sharedVars, Types, ThreadTypes, Updates
<1>2. Counts(t)
  BY DEF Ended, sharedVars, Types, ThreadTypes, Counts
<1>3. cpc[t] = "ended"
  BY DEF Ended, Goto
<1>4. CASE InError(t)
  <2>1. /\ cpc'[t] = "exit" /\ state'[t] = state[t]
        /\ requestRescan'[t] = requestRescan[t]
        /\ requestEndScan'[t] = TRUE
        /\ tupleQueue'[t] = tupleQueue[t]
        /\ slot'[t] = slot[t] /\ old_state'[t] = old_state[t]
        /\ fdw'[t] = fdw[t]
        /\ UNCHANGED <<is_joined, mainVars, histVars>>
    BY <1>3, <1>4 DEF Ended, Goto, SetState, sharedVars, Types, ThreadTypes
  <2>2. Typed(t)'
    BY <1>4, <2>1, ThreadTyped DEF Typed, ChildPc
  <2>3. RescanOrder(t)' /\ WaitInv(t)' /\ StateInv(t)' /\ JoinInv(t)' /\ BegunInv(t)'
    BY <1>3, <1>4, <2>1 DEF ThreadInv, mainVars, histVars, RescanOrder, WaitInv, StateInv,
       JoinInv, BegunInv
  <2>4. RescanInv(t)'
    BY <1>3, <1>4, <2>1 DEF ThreadInv, mainVars, histVars, RescanInv
  <2>5. ~OtherScans => EndAsked(t)' /\ CleanInv(t)'
    BY <1>3, <1>4, <2>1 DEF ThreadInv, mainVars, histVars, EndAsked, CleanInv
  <2>6. Quiet => StreamInv(t)'
    BY <2>1, StreamKept DEF ThreadInv, Fresh, Holding
  <2>7. TopLevel => FinishInv(t)'
    BY <1>3, <1>4, <2>1 DEF ThreadInv, mainVars, histVars, FinishInv
  <2>8. NoFailure => OnceInv(t)'
    BY <1>3, <1>4, <2>1 DEF ThreadInv, mainVars, histVars, OnceInv
  <2>9. NoRescan => SafeInv(t)'
    BY <1>3, <1>4, <2>1 DEF mainVars, histVars, SafeInv, Live
  <2> QED
    BY <1>1, <1>2, <2>2, <2>3, <2>4, <2>5, <2>6, <2>7, <2>8, <2>9, Parts, StepDone
<1>5. CASE ~InError(t) /\ requestRescan[t]
  <2>1. /\ cpc'[t] = "rescan" /\ state'[t] = state[t]
        /\ requestRescan'[t] = requestRescan[t]
        /\ requestEndScan'[t] = requestEndScan[t]
        /\ tupleQueue'[t] = tupleQueue[t]
        /\ slot'[t] = slot[t] /\ old_state'[t] = old_state[t]
        /\ fdw'[t] = fdw[t]
        /\ UNCHANGED <<is_joined, mainVars, histVars>>
    BY <1>3, <1>5 DEF Ended, Goto, SetState, sharedVars, Types, ThreadTypes
  <2>2. Typed(t)'
    BY <1>5, <2>1, ThreadTyped DEF Typed, ChildPc
  <2>3. RescanOrder(t)' /\ WaitInv(t)' /\ StateInv(t)' /\ JoinInv(t)' /\ BegunInv(t)'
    BY <1>3, <1>5, <2>1 DEF ThreadInv, mainVars, histVars, RescanOrder, WaitInv, StateInv,
       JoinInv, BegunInv
  <2>4. RescanInv(t)'
    BY <1>3, <1>5, <2>1 DEF ThreadInv, mainVars, histVars, RescanInv
  <2>5. ~OtherScans => EndAsked(t)' /\ CleanInv(t)'
    BY <1>3, <1>5, <2>1 DEF ThreadInv, mainVars, histVars, EndAsked, CleanInv
  <2>6. Quiet => StreamInv(t)'
    BY <1>3, <1>5, <2>1, ThreadTyped, StreamKept DEF ThreadInv, Fresh, Holding, StreamInv,
       EmptyFirst, RescanOrder
  <2>7. TopLevel => FinishInv(t)'
    BY <1>3, <1>5, <2>1 DEF ThreadInv, mainVars, histVars, FinishInv
  <2>8. NoFailure => OnceInv(t)'
    BY <1>3, <1>5, <2>1 DEF ThreadInv, mainVars, histVars, OnceInv
  <2>9. NoRescan => SafeInv(t)'
    BY <1>3, <1>5, <2>1 DEF ThreadInv, mainVars, histVars, SafeInv, Live
  <2> QED
    BY <1>1, <1>2, <2>2, <2>3, <2>4, <2>5, <2>6, <2>7, <2>8, <2>9, Parts, StepDone
<1>6. CASE ~InError(t) /\ ~requestRescan[t]
  <2>1. /\ cpc'[t] = "exit" /\ state'[t] = "FINISH"
        /\ requestRescan'[t] = requestRescan[t]
        /\ requestEndScan'[t] = requestEndScan[t]
        /\ tupleQueue'[t] = tupleQueue[t]
        /\ slot'[t] = slot[t] /\ old_state'[t] = old_state[t]
        /\ fdw'[t] = fdw[t]
        /\ UNCHANGED <<is_joined, mainVars, histVars>>
    BY <1>3, <1>6 DEF Ended, Goto, SetState, sharedVars, Types, ThreadTypes
  <2>2. Typed(t)'
    BY <1>3, <1>6, <2>1, ThreadTyped DEF Typed, ChildPc, ThreadState
  <2>3. RescanOrder(t)' /\ WaitInv(t)' /\ StateInv(t)' /\ JoinInv(t)' /\ BegunInv(t)'
    BY <1>3, <1>6, <2>1 DEF ThreadInv, mainVars, histVars, RescanOrder, WaitInv, StateInv,
       JoinInv, BegunInv
  <2>4. RescanInv(t)'
    BY <1>3, <1>6, <2>1 DEF ThreadInv, mainVars, histVars, RescanInv
  <2>5. ~OtherScans => EndAsked(t)' /\ CleanInv(t)'
    BY <1>3, <1>6, <2>1 DEF ThreadInv, mainVars, histVars, EndAsked, CleanInv
  <2>6. Quiet => StreamInv(t)'
    BY <2>1, StreamKept DEF ThreadInv, Fresh, Holding
  <2>7. TopLevel => FinishInv(t)'
    BY <1>3, <1>6, <2>1, TopJoins DEF ThreadInv, mainVars, histVars, FinishInv, EndAsked, TopLevel
  <2>8. NoFailure => OnceInv(t)'
    BY <1>3, <1>6, <2>1 DEF ThreadInv, mainVars, histVars, OnceInv
  <2>9. NoRescan => SafeInv(t)'
    BY <1>3, <1>6, <2>1 DEF mainVars, histVars, SafeInv, Live
  <2> QED
    BY <1>1, <1>2, <2>2, <2>3, <2>4, <2>5, <2>6, <2>7, <2>8, <2>9, Parts, StepDone
<1> QED
  BY <1>4, <1>5, <1>6

(* THREAD_EXIT closes the queue.                                           *)
LEMMA ExitNotifyStep ==
  ASSUME NEW t \in Thread, Types, MainInv, ThreadInv(t), ExitNotify(t)
  PROVE  StepOf(t)
<1>1. Updates(t)
  BY DEF ExitNotify, Goto, sharedVars, Types, ThreadTypes, Updates
<1>2. Counts(t)
  BY DEF ExitNotify, sharedVars, Types, ThreadTypes, Counts
<1>3. cpc[t] = "exit"
  BY DEF ExitNotify, Goto
<1>4. CASE state[t] = "ERROR_INIT"
  <2>1. /\ cpc'[t] = "final" /\ state'[t] = state[t]
        /\ requestRescan'[t] = requestRescan[t]
        /\ requestEndScan'[t] = requestEndScan[t]
        /\ tupleQueue'[t] = NotifyError(tupleQueue[t])
        /\ slot'[t] = slot[t] /\ old_state'[t] = old_state[t]
        /\ fdw'[t] = fdw[t]
        /\ UNCHANGED <<is_joined, mainVars, histVars>>
    BY <1>3, <1>4 DEF ExitNotify, Goto, sharedVars, Types, ThreadTypes
  <2>2. /\ tupleQueue'[t] \in TupleQueue(Tuple)
        /\ tupleQueue'[t].len = tupleQueue[t].len /\ tupleQueue'[t].start = tupleQueue[t].start
        /\ tupleQueue'[t].tuples = tupleQueue[t].tuples
        /\ tupleQueue'[t].queue_state = "ERROR"
    BY <1>3, <2>1, ThreadTyped, NotifyFields DEF Typed, NotifyError, SpdQueueState
  <2>3. Typed(t)'
    BY <1>4, <2>1, <2>2, ThreadTyped DEF Typed, ChildPc
  <2>4. RescanOrder(t)' /\ WaitInv(t)' /\ StateInv(t)' /\ JoinInv(t)' /\ BegunInv(t)'
    BY <1>3, <1>4, <2>1, <2>2 DEF ThreadInv, mainVars, histVars, RescanOrder, WaitInv, StateInv,
       JoinInv, BegunInv
  <2>5. RescanInv(t)'
    BY <1>3, <1>4, <2>1, <2>2 DEF ThreadInv, mainVars, histVars, RescanInv
  <2>6. ~OtherScans => EndAsked(t)' /\ CleanInv(t)'
    BY <1>3, <1>4, <2>1, <2>2 DEF ThreadInv, mainVars, histVars, EndAsked, CleanInv
  <2>7. Quiet => StreamInv(t)'
    BY <2>1, <2>2, StreamKept DEF ThreadInv, Fresh, Holding
  <2>8. TopLevel => FinishInv(t)'
    BY <1>3, <1>4, <2>1, <2>2 DEF mainVars, histVars, FinishInv
  <2>9. NoFailure => OnceInv(t)'
    BY <1>3, <1>4, <2>1, <2>2 DEF ThreadInv, mainVars, histVars, OnceInv
  <2>10. NoRescan => SafeInv(t)'
    BY <1>3, <1>4, <2>1, <2>2 DEF mainVars, histVars, SafeInv, Live
  <2> QED
    BY <1>1, <1>2, <2>3, <2>4, <2>5, <2>6, <2>7, <2>8, <2>9, <2>10, Parts, StepDone
<1>5. CASE state[t] = "ERROR"
  <2>1. /\ cpc'[t] = "exit_end" /\ state'[t] = state[t]
        /\ requestRescan'[t] = requestRescan[t]
        /\ requestEndScan'[t] = requestEndScan[t]
        /\ tupleQueue'[t] = NotifyError(tupleQueue[t])
        /\ slot'[t] = slot[t] /\ old_state'[t] = old_state[t]
        /\ fdw'[t] = fdw[t]
        /\ UNCHANGED <<is_joined, mainVars, histVars>>
    BY <1>3, <1>5 DEF ExitNotify, Goto, sharedVars, Types, ThreadTypes
  <2>2. /\ tupleQueue'[t] \in TupleQueue(Tuple)
        /\ tupleQueue'[t].len = tupleQueue[t].len /\ tupleQueue'[t].start = tupleQueue[t].start
        /\ tupleQueue'[t].tuples = tupleQueue[t].tuples
        /\ tupleQueue'[t].queue_state = "ERROR"
    BY <1>3, <2>1, ThreadTyped, NotifyFields DEF Typed, NotifyError, SpdQueueState
  <2>3. Typed(t)'
    BY <1>5, <2>1, <2>2, ThreadTyped DEF Typed, ChildPc
  <2>4. RescanOrder(t)' /\ WaitInv(t)' /\ StateInv(t)' /\ JoinInv(t)' /\ BegunInv(t)'
    BY <1>3, <1>5, <2>1, <2>2 DEF ThreadInv, mainVars, histVars, RescanOrder, WaitInv, StateInv,
       JoinInv, BegunInv
  <2>5. RescanInv(t)'
    BY <1>3, <1>5, <2>1, <2>2 DEF ThreadInv, mainVars, histVars, RescanInv
  <2>6. ~OtherScans => EndAsked(t)' /\ CleanInv(t)'
    BY <1>3, <1>5, <2>1, <2>2 DEF ThreadInv, mainVars, histVars, EndAsked, CleanInv
  <2>7. Quiet => StreamInv(t)'
    BY <2>1, <2>2, StreamKept DEF ThreadInv, Fresh, Holding
  <2>8. TopLevel => FinishInv(t)'
    BY <1>3, <1>5, <2>1, <2>2 DEF mainVars, histVars, FinishInv
  <2>9. NoFailure => OnceInv(t)'
    BY <1>3, <1>5, <2>1, <2>2 DEF ThreadInv, mainVars, histVars, OnceInv
  <2>10. NoRescan => SafeInv(t)'
    BY <1>3, <1>5, <2>1, <2>2 DEF mainVars, histVars, SafeInv, Live
  <2> QED
    BY <1>1, <1>2, <2>3, <2>4, <2>5, <2>6, <2>7, <2>8, <2>9, <2>10, Parts, StepDone
<1>6. CASE ~InError(t)
  <2>1. /\ cpc'[t] = "exit_end" /\ state'[t] = state[t]
        /\ requestRescan'[t] = requestRescan[t]
        /\ requestEndScan'[t] = requestEndScan[t]
        /\ tupleQueue'[t] = NotifyFinish(tupleQueue[t])
        /\ slot'[t] = slot[t] /\ old_state'[t] = old_state[t]
        /\ fdw'[t] = fdw[t]
        /\ UNCHANGED <<is_joined, mainVars, histVars>>
    BY <1>3, <1>6 DEF ExitNotify, Goto, sharedVars, Types, ThreadTypes
  <2>2. /\ tupleQueue'[t] \in TupleQueue(Tuple)
        /\ tupleQueue'[t].len = tupleQueue[t].len /\ tupleQueue'[t].start = tupleQueue[t].start
        /\ tupleQueue'[t].tuples = tupleQueue[t].tuples
        /\ tupleQueue'[t].queue_state = "FINISH"
    BY <1>3, <2>1, ThreadTyped, NotifyFields DEF Typed, NotifyFinish, SpdQueueState
  <2>3. Typed(t)'
    BY <1>6, <2>1, <2>2, ThreadTyped DEF Typed, ChildPc
  <2>4. RescanOrder(t)' /\ WaitInv(t)' /\ StateInv(t)' /\ JoinInv(t)' /\ BegunInv(t)'
    BY <1>3, <1>6, <2>1, <2>2 DEF ThreadInv, mainVars, histVars, RescanOrder, WaitInv, StateInv,
       JoinInv, BegunInv
  <2>5. RescanInv(t)'
    BY <1>3, <1>6, <2>1, <2>2 DEF ThreadInv, mainVars, histVars, RescanInv
  <2>6. ~OtherScans => EndAsked(t)' /\ CleanInv(t)'
    BY <1>3, <1>6, <2>1, <2>2 DEF ThreadInv, mainVars, histVars, EndAsked, CleanInv
  <2>7. Quiet => StreamInv(t)'
    BY <2>1, <2>2, StreamKept DEF ThreadInv, Fresh, Holding
  <2>8. TopLevel => FinishInv(t)'
    BY <1>3, <1>6, <2>1, <2>2 DEF ThreadInv, mainVars, histVars, FinishInv
  <2>9. NoFailure => OnceInv(t)'
    BY <1>3, <1>6, <2>1, <2>2 DEF ThreadInv, mainVars, histVars, OnceInv
  <2>10. NoRescan => SafeInv(t)'
    BY <1>3, <1>6, <2>1, <2>2 DEF ThreadInv, mainVars, histVars, SafeInv, Live
  <2> QED
    BY <1>1, <1>2, <2>3, <2>4, <2>5, <2>6, <2>7, <2>8, <2>9, <2>10, Parts, StepDone
<1> QED
  BY <1>4, <1>5, <1>6

(* THREAD_EXIT ends the child scan if that is still asked for.             *)
LEMMA ExitEndStep ==
  ASSUME NEW t \in Thread, Types, MainInv, ThreadInv(t), ExitEnd(t)
  PROVE  StepOf(t)
<1>1. Updates(t)
  BY DEF ExitEnd, Goto, sharedVars, Types, ThreadTypes, Updates
<1>2. Counts(t)
  BY DEF ExitEnd, sharedVars, Types, ThreadTypes, EndIsLeft, Counts
<1>3. cpc[t] = "exit_end"
  BY DEF ExitEnd, Goto
<1>4. CASE requestEndScan[t]
  <2>1. /\ cpc'[t] = "final" /\ state'[t] = state[t]
        /\ requestRescan'[t] = requestRescan[t]
        /\ requestEndScan'[t] = FALSE
        /\ tupleQueue'[t] = tupleQueue[t]
        /\ slot'[t] = slot[t] /\ old_state'[t] = old_state[t]
        /\ fdw'[t] = [fdw[t] EXCEPT !.ends = @ + 1]
        /\ UNCHANGED <<is_joined, mainVars, histVars>>
    BY <1>3, <1>4 DEF ExitEnd, Goto, sharedVars, Types, ThreadTypes, EndIsLeft
  <2>2. fdw'[t] \in Fdw
    BY <2>1, ThreadTyped, FdwFields DEF Typed
  <2>3. /\ fdw'[t].begun = fdw[t].begun /\ fdw'[t].failed = fdw[t].failed
        /\ fdw'[t].ends = fdw[t].ends + 1 /\ fdw'[t].scan = fdw[t].scan /\ fdw'[t].row = fdw[t].row
    BY <1>4, <2>1, <2>2
  <2>4. Typed(t)'
    BY <1>4, <2>1, <2>2, <2>3, ThreadTyped DEF Typed, ChildPc
  <2>5. RescanOrder(t)' /\ WaitInv(t)' /\ StateInv(t)' /\ JoinInv(t)' /\ BegunInv(t)'
    BY <1>3, <1>4, <2>1, <2>2, <2>3 DEF ThreadInv, mainVars, histVars, RescanOrder, WaitInv,
       StateInv, JoinInv, BegunInv
  <2>6. RescanInv(t)'
    BY <1>3, <1>4, <2>1, <2>2, <2>3 DEF ThreadInv, mainVars, histVars, RescanInv
  <2>7. ~OtherScans => EndAsked(t)' /\ CleanInv(t)'
    BY <1>3, <1>4, <2>1, <2>2, <2>3, ThreadTyped DEF ThreadInv, mainVars, histVars, EndAsked,
       CleanInv
  <2>8. Quiet => StreamInv(t)'
    BY <2>1, <2>2, <2>3, StreamKept DEF ThreadInv, Fresh, Holding
  <2>9. TopLevel => FinishInv(t)'
    BY <1>3, <1>4, <2>1, <2>2, <2>3 DEF ThreadInv, mainVars, histVars, FinishInv
  <2>10. NoFailure => OnceInv(t)'
    BY <1>3, <1>4, <2>1, <2>2, <2>3, ThreadTyped DEF ThreadInv, mainVars, histVars, OnceInv
  <2>11. NoRescan => SafeInv(t)'
    BY <1>3, <1>4, <2>1, <2>2, <2>3 DEF ThreadInv, mainVars, histVars, SafeInv, Live
  <2> QED
    BY <1>1, <1>2, <2>4, <2>5, <2>6, <2>7, <2>8, <2>9, <2>10, <2>11, Parts, StepDone
<1>5. CASE ~requestEndScan[t]
  <2>1. /\ cpc'[t] = "final" /\ state'[t] = state[t]
        /\ requestRescan'[t] = requestRescan[t]
        /\ requestEndScan'[t] = FALSE
        /\ tupleQueue'[t] = tupleQueue[t]
        /\ slot'[t] = slot[t] /\ old_state'[t] = old_state[t]
        /\ fdw'[t] = [fdw[t] EXCEPT !.ends = @]
        /\ UNCHANGED <<is_joined, mainVars, histVars>>
    BY <1>3, <1>5 DEF ExitEnd, Goto, sharedVars, Types, ThreadTypes, EndIsLeft
  <2>2. /\ fdw'[t].begun = fdw[t].begun /\ fdw'[t].failed = fdw[t].failed
        /\ fdw'[t].ends = fdw[t].ends /\ fdw'[t].scan = fdw[t].scan
        /\ fdw'[t].row = fdw[t].row /\ fdw'[t] \in Fdw
    BY <2>1, ThreadTyped DEF Typed, Fdw
  <2>3. Typed(t)'
    BY <1>5, <2>1, <2>2, ThreadTyped DEF Typed, ChildPc
  <2>4. RescanOrder(t)' /\ WaitInv(t)' /\ StateInv(t)' /\ JoinInv(t)' /\ BegunInv(t)'
    BY <1>3, <1>5, <2>1, <2>2 DEF ThreadInv, mainVars, histVars, RescanOrder, WaitInv, StateInv,
       JoinInv, BegunInv
  <2>5. RescanInv(t)'
    BY <1>3, <1>5, <2>1, <2>2 DEF ThreadInv, mainVars, histVars, RescanInv
  <2>6. ~OtherScans => EndAsked(t)' /\ CleanInv(t)'
    BY <1>3, <1>5, <2>1, <2>2 DEF ThreadInv, mainVars, histVars, EndAsked, CleanInv
  <2>7. Quiet => StreamInv(t)'
    BY <2>1, <2>2, StreamKept DEF ThreadInv, Fresh, Holding
  <2>8. TopLevel => FinishInv(t)'
    BY <1>3, <1>5, <2>1, <2>2 DEF ThreadInv, mainVars, histVars, FinishInv
  <2>9. NoFailure => OnceInv(t)'
    BY <1>3, <1>5, <2>1, <2>2 DEF ThreadInv, mainVars, histVars, OnceInv
  <2>10. NoRescan => SafeInv(t)'
    BY <1>3, <1>5, <2>1, <2>2 DEF ThreadInv, mainVars, histVars, SafeInv, Live
  <2> QED
    BY <1>1, <1>2, <2>3, <2>4, <2>5, <2>6, <2>7, <2>8, <2>9, <2>10, Parts, StepDone
<1> QED
  BY <1>4, <1>5

(* The thread counts itself out.                                           *)
LEMMA ThreadFinalStep ==
  ASSUME NEW t \in Thread, Types, MainInv, ThreadInv(t), ThreadFinal(t)
  PROVE  StepOf(t)
<1>1. Updates(t)
  BY DEF ThreadFinal, Goto, infoVars, Types, ThreadTypes, Updates
<1>2. Counts(t)
  BY DEF ThreadFinal, Goto, infoVars, Types, ThreadTypes, Counts
<1>3. cpc[t] = "final"
  BY DEF ThreadFinal, Goto
<1>4. /\ cpc'[t] = "gone" /\ state'[t] = state[t]
      /\ requestRescan'[t] = requestRescan[t]
      /\ requestEndScan'[t] = requestEndScan[t]
      /\ tupleQueue'[t] = tupleQueue[t]
      /\ slot'[t] = slot[t] /\ old_state'[t] = old_state[t]
      /\ fdw'[t] = fdw[t]
      /\ UNCHANGED <<is_joined, mainVars, histVars>>
  BY <1>3 DEF ThreadFinal, Goto, infoVars, Types, ThreadTypes
<1>5. Typed(t)'
  BY <1>4, ThreadTyped DEF Typed, ChildPc
<1>6. RescanOrder(t)' /\ WaitInv(t)' /\ StateInv(t)' /\ JoinInv(t)' /\ BegunInv(t)'
  BY <1>3, <1>4 DEF ThreadInv, mainVars, histVars, RescanOrder, WaitInv, StateInv, JoinInv,
     BegunInv
<1>7. RescanInv(t)'
  BY <1>3, <1>4 DEF ThreadInv, mainVars, histVars, RescanInv
<1>8. ~OtherScans => EndAsked(t)' /\ CleanInv(t)'
  BY <1>3, <1>4 DEF ThreadInv, mainVars, histVars, EndAsked, CleanInv
<1>9. Quiet => StreamInv(t)'
  BY <1>3, <1>4, StreamKept DEF ThreadInv, Fresh, Holding
<1>10. TopLevel => FinishInv(t)'
  BY <1>3, <1>4 DEF ThreadInv, mainVars, histVars, FinishInv
<1>11. NoFailure => OnceInv(t)'
  BY <1>3, <1>4 DEF ThreadInv, mainVars, histVars, OnceInv
<1>12. NoRescan => SafeInv(t)'
  BY <1>3, <1>4 DEF ThreadInv, mainVars, histVars, SafeInv, Live
<1> QED
  BY <1>1, <1>2, <1>5, <1>6, <1>7, <1>8, <1>9, <1>10, <1>11, <1>12, Parts, StepDone

(* Every step of a child thread is one of these.                           *)
LEMMA ChildSteps ==
  ASSUME IInv, NEW t \in Thread, Child(t)
  PROVE  StepOf(t)
<1>1. Types /\ MainInv /\ ThreadInv(t)
  BY DEF IInv
<1> QED
  BY <1>1, ThreadStartStep, BeginCallStep, BeginReturnStep, BeginFailStep, RescanStep,
     RescanDoneStep, WaitStartStep, WaitEndStep, WaitRescanStep, WaitAgainStep, StartScanStep,
     IterateRowStep, IterateEndStep, IterateFailStep, IterateForcedStep, CheckPendingStep,
     PendStep, WokenUpStep, PendingTimeoutStep, RefusedStep, SleepStep, AddStep, LoopLeftStep,
     EndTurnStep, EndForcedStep, EndScanStep, EndReturnStep, EndFailStep, EndRescanStep,
     EndAgainStep, EndedStep, ExitNotifyStep, ExitEndStep, ThreadFinalStep, Zenon DEF Child

(* A step of a child thread keeps the invariant.                           *)
LEMMA ChildStep ==
  ASSUME IInv, NEW t \in Thread, Child(t)
  PROVE  IInv'
<1>1. Types /\ MainInv /\ ThreadInv(t)
  BY DEF IInv
<1>2. StepOf(t)
  BY ChildSteps
<1>3. \A u \in Thread : ThreadInv(u)'
  BY <1>2, SameThread DEF IInv, StepOf
<1>4. Counted'
  <2>1. \A u \in Thread : u # t => cpc'[u] = cpc[u]
    BY <1>2 DEF StepOf, Same
  <2>2. IsFiniteSet(Running) /\ num_running = Cardinality(Running) /\ Cardinality(Running) \in Nat
    <3>1. IsFiniteSet(Thread) /\ Running \subseteq Thread
      BY FS_Interval DEF Thread, Running
    <3>2. IsFiniteSet(Running)
      BY <3>1, FS_Subset
    <3> QED
      BY <3>2, FS_CardinalityType DEF IInv, Counted
  <2>3. CASE cpc[t] = "created" /\ cpc'[t] = "begin" /\ num_running' = num_running + 1
    <3>1. Running' = Running \cup {t} /\ t \notin Running
      BY <2>1, <2>3 DEF Running
    <3>2. Cardinality(Running \cup {t}) = Cardinality(Running) + 1
      BY <2>2, <3>1, FS_AddElement
    <3> QED
      BY <2>2, <2>3, <3>1, <3>2 DEF Counted
  <2>4. CASE cpc[t] = "final" /\ cpc'[t] = "gone" /\ num_running' = num_running - 1
    <3>1. Running' = Running \ {t} /\ t \in Running
      BY <2>1, <2>4 DEF Running
    <3>2. Cardinality(Running \ {t}) = Cardinality(Running) - 1
      BY <2>2, <3>1, FS_RemoveElement
    <3> QED
      BY <2>2, <2>4, <3>1, <3>2 DEF Counted
  <2>5. CASE {cpc[t], cpc'[t]} \cap {"created", "gone"} = {} /\ num_running' = num_running
    <3>1. Running' = Running
      BY <2>1, <2>5 DEF Running
    <3> QED
      BY <2>2, <2>5, <3>1 DEF Counted
  <2> QED
    BY <1>2, <2>3, <2>4, <2>5 DEF StepOf, Counts
<1>5. MainInv'
  <2>1. UNCHANGED <<mainVars, histVars, requestPending>> /\ (force_end' => force_end)
    BY <1>2 DEF StepOf, Counts
  <2>2. \A u \in Thread : fdw[u].failed => fdw'[u].failed
    BY <1>2 DEF StepOf, Counts, Same
  <2>3. LevelInv' /\ OutcomeInv'
    BY <2>1 DEF IInv, MainInv, LevelInv, OutcomeInv, mainVars, histVars
  <2>4. TopLevel => EofInv'
    <3>1. \A u \in Thread : Complete(u) => Complete(u)'
      BY <2>1, <2>2 DEF Complete, histVars
    <3>2. \A i \in 0 .. node_incr - 1 : (startNodeId + i) % NThreads \in Thread
      BY DEF IInv, Types, MainTypes, Thread
    <3> QED
      BY <2>1, <3>1, <3>2 DEF IInv, MainInv, EofInv, mainVars, histVars
  <2>5. NoFailure \/ NotThrown => Live'
    BY <2>1 DEF IInv, MainInv, mainVars, histVars
  <2>6. mpc' \in {"sub_wait", "txn"} => requestPending'
    BY <2>1 DEF IInv, MainInv, mainVars, histVars
  <2> QED
    BY <2>3, <2>4, <2>5, <2>6 DEF MainInv, TopLevel, NoFailure, NotThrown
<1> QED
  BY <1>2, <1>3, <1>4, <1>5 DEF IInv, StepOf

-----------------------------------------------------------------------------
(* The steps of the main thread.                                           *)

(* A round of nextChildTuple, wherever it starts, looks at every thread.   *)
LEMMA Rounds ==
  ASSUME NEW s \in 0 .. NThreads, NEW t \in Thread
  PROVE  \E i \in 0 .. NThreads - 1 : (s + i) % NThreads = t
<1>1. t \in Nat /\ t < NThreads /\ s \in Nat
  BY DEF Thread
<1>2. CASE s <= t
  <2>1. t - s \in 0 .. NThreads - 1 /\ s + (t - s) = t
    BY <1>1, <1>2
  <2>2. t % NThreads = t
    BY <1>1
  <2> QED
    BY <2>1, <2>2
<1>3. CASE t < s
  <2>1. t + NThreads - s \in 0 .. NThreads - 1 /\ s + (t + NThreads - s) = t + NThreads
    BY <1>1, <1>3
  <2>2. (t + NThreads) % NThreads = t % NThreads
    BY <1>1, ModRound
  <2>3. t % NThreads = t
    BY <1>1
  <2> QED
    BY <2>1, <2>2, <2>3
<1> QED
  BY <1>1, <1>2, <1>3

(* What is known of one thread before a step of the main thread.           *)
LEMMA AtThread ==
  ASSUME IInv, NEW u \in Thread
  PROVE  /\ ThreadInv(u) /\ Types /\ MainInv /\ Typed(u)
         /\ node_incr \in 0 .. NThreads /\ u \in 0 .. NThreads - 1
         /\ {rescans[u], nrescan, fdw[u].scan, fdw[u].row, fdw[u].ends} \subseteq Nat
         /\ {tupleQueue[u].len, Len(got[u])} \subseteq Nat
<1>1. Types /\ MainInv /\ ThreadInv(u)
  BY DEF IInv
<1>2. /\ {rescans[u], nrescan, fdw[u].scan, fdw[u].row, fdw[u].ends} \subseteq Nat
      /\ {tupleQueue[u].len, Len(got[u])} \subseteq Nat /\ Typed(u)
  BY <1>1, ThreadTyped
<1>3. node_incr \in 0 .. NThreads /\ u \in 0 .. NThreads - 1
  BY <1>1 DEF Types, MainTypes, Thread
<1> QED
  BY <1>1, <1>2, <1>3

(* spd_CreateChildThreads has seen every thread leave its first state.     *)
LEMMA CreateDoneStep ==
  ASSUME IInv, CreateDone
  PROVE  IInv'
<1>1. /\ mpc = "create" /\ mpc' = "idle"
      /\ UNCHANGED <<infoVars, localVars, num_running>>
      /\ UNCHANGED <<node_incr, all_finished, startNodeId, lastThreadId, isFirst, level,
                      subxact, requestPending, force_end, setting, outcome, got, rescans,
                      nrescan, nsubxact>>
  BY DEF CreateDone, MainGoto, infoVars, localVars, sharedVars, histVars
<1>2. Types'
  <2>1. ThreadTypes'
    BY <1>1 DEF IInv, Types, ThreadTypes, infoVars, localVars
  <2>2. MainTypes'
    BY <1>1 DEF IInv, Types, MainTypes, MainPc, Thread, infoVars
  <2> QED
    BY <2>1, <2>2 DEF Types
<1>3. Counted'
  BY <1>1 DEF IInv, Counted, Running, localVars
<1>4. MainInv'
  <2>1. LevelInv'
    BY <1>1 DEF IInv, MainInv, LevelInv
  <2>2. OutcomeInv'
    BY <1>1 DEF IInv, MainInv, OutcomeInv
  <2>3. TopLevel => EofInv'
    BY <1>1 DEF IInv, MainInv, EofInv, Complete, localVars
  <2>4. NoFailure \/ NotThrown => Live'
    BY <1>1 DEF IInv, MainInv
  <2>5. mpc' \in {"sub_wait", "txn"} => requestPending'
    BY <1>1
  <2> QED
    BY <2>1, <2>2, <2>3, <2>4, <2>5 DEF MainInv
<1>5. ASSUME NEW u \in Thread
      PROVE  ThreadInv(u)'
  <2>1. /\ ThreadInv(u) /\ Types /\ MainInv /\ Typed(u)
        /\ node_incr \in 0 .. NThreads /\ u \in 0 .. NThreads - 1
        /\ {rescans[u], nrescan, fdw[u].scan, fdw[u].row, fdw[u].ends} \subseteq Nat
        /\ {tupleQueue[u].len, Len(got[u])} \subseteq Nat
    BY AtThread
  <2>2. Same(u)
    BY <1>1 DEF Same, infoVars, localVars
  <2>3. RescanOrder(u)' /\ WaitInv(u)' /\ StateInv(u)' /\ JoinInv(u)' /\ BegunInv(u)'
    BY <1>1, <2>1, <2>2 DEF ThreadInv, Same, RescanOrder, WaitInv, StateInv, JoinInv, BegunInv
  <2>4. RescanInv(u)'
    BY <1>1, <2>1, <2>2 DEF ThreadInv, Same, RescanInv
  <2>5. ~OtherScans => EndAsked(u)' /\ CleanInv(u)'
    BY <1>1, <2>1, <2>2 DEF ThreadInv, Same, EndAsked, CleanInv
  <2>6. Quiet => StreamInv(u)'
    BY <1>1, <2>1, <2>2 DEF ThreadInv, Same, StreamInv, Received, Queued, AtHand, EmptyFirst
  <2>7. TopLevel => FinishInv(u)'
    BY <1>1, <2>1, <2>2 DEF ThreadInv, Same, FinishInv
  <2>8. NoFailure => OnceInv(u)'
    BY <1>1, <2>1, <2>2 DEF ThreadInv, Same, OnceInv
  <2>9. NoRescan => SafeInv(u)'
    BY <1>1, <2>1, <2>2 DEF Same, SafeInv, Live
  <2> QED
    BY <2>3, <2>4, <2>5, <2>6, <2>7, <2>8, <2>9, Parts
<1> QED
  BY <1>2, <1>3, <1>4, <1>5 DEF IInv

(* spd_IterateForeignScan starts the scans the first time, and lets the    *)
(* slot of the last tuple be cleared.                                      *)
LEMMA CallIterateStep ==
  ASSUME IInv, CallIterate
  PROVE  IInv'
<1>1. /\ mpc = "idle" /\ mpc' = "next" /\ outcome = "open"
      /\ node_incr' = 0 /\ isFirst' \in BOOLEAN /\ all_finished' = TRUE
      /\ requestStartScan' \in [Thread -> BOOLEAN]
      /\ tupleQueue' \in [Thread -> TupleQueue(Tuple)]
      /\ UNCHANGED <<state, requestRescan, requestEndScan, is_joined, localVars, num_running>>
      /\ UNCHANGED <<startNodeId, lastThreadId, level, subxact, requestPending, force_end,
                      setting, outcome, got, rescans, nrescan, nsubxact>>
  <2>1. requestStartScan' \in [Thread -> BOOLEAN]
    BY DEF CallIterate
  <2>2. tupleQueue' \in [Thread -> TupleQueue(Tuple)]
    <3>1. \A q \in TupleQueue(Tuple) : [q EXCEPT !.safe_to_clear = TRUE] \in TupleQueue(Tuple)
      BY DEF TupleQueue
    <3> QED
      BY <3>1 DEF CallIterate, IInv, Types, ThreadTypes
  <2> QED
    BY <2>1, <2>2 DEF CallIterate, MainGoto, localVars, sharedVars, histVars
<1>2. Types'
  <2>1. ThreadTypes'
    BY <1>1 DEF IInv, Types, ThreadTypes, localVars
  <2>2. MainTypes'
    BY <1>1 DEF MainTypes, MainPc, Thread
  <2> QED
    BY <2>1, <2>2 DEF Types
<1>3. Counted'
  BY <1>1 DEF IInv, Counted, Running, localVars
<1>4. MainInv'
  <2>1. LevelInv'
    BY <1>1 DEF IInv, MainInv, LevelInv
  <2>2. OutcomeInv'
    BY <1>1 DEF IInv, MainInv, OutcomeInv
  <2>3. TopLevel => EofInv'
    BY <1>1 DEF EofInv, Complete
  <2>4. NoFailure \/ NotThrown => Live'
    BY <1>1
  <2>5. mpc' \in {"sub_wait", "txn"} => requestPending'
    BY <1>1
  <2> QED
    BY <2>1, <2>2, <2>3, <2>4, <2>5 DEF MainInv
<1>5. ASSUME NEW u \in Thread
      PROVE  ThreadInv(u)'
  <2>1. /\ ThreadInv(u) /\ Types /\ MainInv /\ Typed(u)
        /\ node_incr \in 0 .. NThreads /\ u \in 0 .. NThreads - 1
        /\ {rescans[u], nrescan, fdw[u].scan, fdw[u].row, fdw[u].ends} \subseteq Nat
        /\ {tupleQueue[u].len, Len(got[u])} \subseteq Nat
    BY AtThread
  <2>2. /\ UNCHANGED <<cpc[u], slot[u], old_state[u], fdw[u], state[u], requestRescan[u],
                       requestEndScan[u], is_joined[u], got[u], rescans[u]>>
        /\ UNCHANGED <<tupleQueue[u].len, tupleQueue[u].start, tupleQueue[u].tuples,
                       tupleQueue[u].queue_state>>
    <3>1. \A q \in TupleQueue(Tuple) :
            LET r == [q EXCEPT !.safe_to_clear = TRUE]
            IN  /\ r.len = q.len /\ r.start = q.start
                /\ r.tuples = q.tuples /\ r.queue_state = q.queue_state
      BY DEF TupleQueue
    <3>2. UNCHANGED <<tupleQueue[u].len, tupleQueue[u].start, tupleQueue[u].tuples,
                      tupleQueue[u].queue_state>>
      BY <3>1 DEF CallIterate
    <3> QED
      BY <1>1, <2>1, <3>2 DEF localVars
  <2>3. RescanOrder(u)' /\ WaitInv(u)' /\ StateInv(u)' /\ JoinInv(u)' /\ BegunInv(u)'
    BY <1>1, <2>1, <2>2 DEF ThreadInv, RescanOrder, WaitInv, StateInv, JoinInv, BegunInv,
       QueueRefuses, AddIdx, LastGetIdx
  <2>4. RescanInv(u)'
    BY <1>1, <2>1, <2>2 DEF ThreadInv, RescanInv
  <2>5. ~OtherScans => EndAsked(u)' /\ CleanInv(u)'
    BY <1>1, <2>1, <2>2 DEF ThreadInv, EndAsked, CleanInv
  <2>6. Quiet => StreamInv(u)'
    BY <1>1, <2>1, <2>2 DEF ThreadInv, StreamInv, Received, Queued, AtHand, EmptyFirst
  <2>7. TopLevel => FinishInv(u)'
    BY <1>1, <2>1, <2>2 DEF ThreadInv, FinishInv
  <2>8. NoFailure => OnceInv(u)'
    BY <1>1, <2>1, <2>2 DEF ThreadInv, OnceInv
  <2>9. NoRescan => SafeInv(u)'
    BY <1>1, <2>1, <2>2 DEF SafeInv, Live
  <2> QED
    BY <2>3, <2>4, <2>5, <2>6, <2>7, <2>8, <2>9, Parts
<1> QED
  BY <1>2, <1>3, <1>4, <1>5 DEF IInv

(* A tuple is taken from a queue and returned.                             *)
LEMMA NextTupleStep ==
  ASSUME NEW t \in Thread, IInv, NextTuple(t)
  PROVE  IInv'
<1>1. /\ mpc = "next" /\ mpc' = "idle" /\ cpc[t] # "spin" /\ tupleQueue[t].len > 0
      /\ lastThreadId' = t /\ startNodeId' \in 0 .. NThreads
      /\ got' = [got EXCEPT ![t] = Append(@, QueueHead(tupleQueue[t]))]
      /\ tupleQueue' = [tupleQueue EXCEPT ![t] = QueueGet(@)]
      /\ UNCHANGED <<state, requestStartScan, requestRescan, requestEndScan, is_joined,
                     localVars, num_running>>
      /\ UNCHANGED <<node_incr, all_finished, isFirst, level, subxact, requestPending,
                      force_end, setting, outcome, rescans, nrescan, nsubxact>>
  <2>1. startNodeId' \in 0 .. NThreads
    BY DEF NextTuple, NextStart, IInv, Types, MainTypes
  <2> QED
    BY <2>1 DEF NextTuple, AtQueue, localVars, sharedVars, histVars
<1>2. Types'
  <2>1. ThreadTypes'
    BY <1>1, GetFields DEF IInv, Types, ThreadTypes, localVars
  <2>2. MainTypes'
    <3>1. QueueHead(tupleQueue[t]) \in Tuple \cup {NoTuple}
      BY DEF IInv, Types, ThreadTypes, QueueHead, TupleQueue
    <3>2. got' \in [Thread -> Seq(Tuple \cup {NoTuple})]
      BY <1>1, <3>1 DEF IInv, Types, MainTypes
    <3> QED
      BY <1>1, <3>2 DEF IInv, Types, MainTypes, MainPc
  <2> QED
    BY <2>1, <2>2 DEF Types
<1>3. Counted'
  BY <1>1 DEF IInv, Counted, Running, localVars
<1>4. MainInv'
  <2>1. LevelInv'
    BY <1>1 DEF IInv, MainInv, LevelInv
  <2>2. OutcomeInv'
    BY <1>1 DEF IInv, MainInv, OutcomeInv
  <2>3. TopLevel => EofInv'
    BY <1>1 DEF IInv, MainInv, EofInv, Complete, localVars, OutcomeInv
  <2>4. NoFailure \/ NotThrown => Live'
    BY <1>1 DEF IInv, MainInv
  <2>5. mpc' \in {"sub_wait", "txn"} => requestPending'
    BY <1>1
  <2> QED
    BY <2>1, <2>2, <2>3, <2>4, <2>5 DEF MainInv
<1>5. ASSUME NEW u \in Thread
      PROVE  ThreadInv(u)'
  <2>1. /\ ThreadInv(u) /\ Types /\ MainInv /\ Typed(u)
        /\ node_incr \in 0 .. NThreads /\ u \in 0 .. NThreads - 1
        /\ {rescans[u], nrescan, fdw[u].scan, fdw[u].row, fdw[u].ends} \subseteq Nat
        /\ {tupleQueue[u].len, Len(got[u])} \subseteq Nat
    BY AtThread
  <2>2. /\ UNCHANGED <<cpc[u], slot[u], old_state[u], fdw[u], state[u], requestRescan[u],
                       requestEndScan[u], is_joined[u], rescans[u]>>
        /\ u # t => tupleQueue'[u] = tupleQueue[u] /\ got'[u] = got[u]
        /\ u = t => /\ tupleQueue'[u] = QueueGet(tupleQueue[u])
                    /\ got'[u] = Append(got[u], QueueHead(tupleQueue[u]))
                    /\ Len(got'[u]) = Len(got[u]) + 1
                    /\ tupleQueue'[u].len = tupleQueue[u].len - 1
                    /\ tupleQueue'[u].queue_state = tupleQueue[u].queue_state
    <3>1. QueueHead(tupleQueue[t]) \in Tuple \cup {NoTuple}
      BY AtThread DEF Typed, QueueHead, TupleQueue
    <3>2. /\ QueueGet(tupleQueue[t]).len = tupleQueue[t].len - 1
          /\ QueueGet(tupleQueue[t]).queue_state = tupleQueue[t].queue_state
      BY <1>1, AtThread, GetFields DEF Typed
    <3>3. Len(Append(got[t], QueueHead(tupleQueue[t]))) = Len(got[t]) + 1
      BY <3>1
    <3> QED
      BY <1>1, <2>1, <3>2, <3>3 DEF Types, MainTypes, ThreadTypes, localVars
  <2>3. RescanOrder(u)' /\ WaitInv(u)' /\ StateInv(u)' /\ JoinInv(u)' /\ BegunInv(u)'
    BY <1>1, <2>1, <2>2 DEF ThreadInv, RescanOrder, WaitInv, StateInv, JoinInv, BegunInv
  <2>4. RescanInv(u)'
    BY <1>1, <2>1, <2>2 DEF ThreadInv, RescanInv
  <2>5. ~OtherScans => EndAsked(u)' /\ CleanInv(u)'
    BY <1>1, <2>1, <2>2 DEF ThreadInv, EndAsked, CleanInv
  <2>6. Quiet => StreamInv(u)'
    <3>1. CASE u = t
      BY <1>1, <2>1, <2>2, <3>1, TupleTaken DEF ThreadInv
    <3>2. CASE u # t
      BY <1>1, <2>1, <2>2, <3>2 DEF ThreadInv, StreamInv, Received, Queued, AtHand, EmptyFirst
    <3> QED
      BY <3>1, <3>2
  <2>7. TopLevel => FinishInv(u)'
    BY <1>1, <2>1, <2>2 DEF ThreadInv, FinishInv
  <2>8. NoFailure => OnceInv(u)'
    BY <1>1, <2>1, <2>2 DEF ThreadInv, OnceInv
  <2>9. NoRescan => SafeInv(u)'
    BY <1>1, <2>1, <2>2 DEF SafeInv, Live
  <2> QED
    BY <2>3, <2>4, <2>5, <2>6, <2>7, <2>8, <2>9, Parts
<1> QED
  BY <1>2, <1>3, <1>4, <1>5 DEF IInv

(* A queue has none. If it was finished its child has delivered            *)
(* everything, or has failed and is to be passed over.                     *)
LEMMA NextEmptyStep ==
  ASSUME NEW t \in Thread, IInv, NextEmpty(t)
  PROVE  IInv'
<1>1. /\ mpc = "next" /\ node_incr # NThreads /\ node_incr' = node_incr + 1
      /\ t = (startNodeId + node_incr) % NThreads /\ tupleQueue[t].len = 0
      /\ tupleQueue[t].queue_state = "ERROR" => ~setting.throwErrorIfDead
      /\ all_finished' = (all_finished /\ Finished(t))
      /\ tupleQueue' = [tupleQueue EXCEPT ![t] = IF @.queue_state = "ERROR" 
                         THEN NotifyFinish(@) ELSE @]
      /\ UNCHANGED <<state, requestStartScan, requestRescan, requestEndScan, is_joined,
                     localVars, num_running>>
      /\ UNCHANGED <<mpc, startNodeId, lastThreadId, isFirst, level, subxact, requestPending,
                      force_end, setting, outcome, got, rescans, nrescan, nsubxact>>
  BY DEF NextEmpty, MainGoto, LoopOver, At, AtQueue, infoVars, localVars, sharedVars, histVars,
     Turn
<1>2. Types'
  <2>1. ThreadTypes'
    BY <1>1, NotifyFields DEF IInv, Types, ThreadTypes, localVars, NotifyFinish, SpdQueueState
  <2>2. MainTypes'
    BY <1>1 DEF IInv, Types, MainTypes, MainPc, Thread
  <2> QED
    BY <2>1, <2>2 DEF Types
<1>3. Counted'
  BY <1>1 DEF IInv, Counted, Running, localVars
<1>4. MainInv'
  <2>1. LevelInv'
    BY <1>1 DEF IInv, MainInv, LevelInv
  <2>2. OutcomeInv'
    BY <1>1 DEF IInv, MainInv, OutcomeInv
  <2>3. TopLevel => EofInv'
    <3> SUFFICES ASSUME TopLevel PROVE EofInv'
      OBVIOUS
    <3>1. outcome = "open" /\ EofInv
      BY <1>1 DEF IInv, MainInv, OutcomeInv
    <3>2. all_finished' => Complete(t)
      <4>1. ThreadInv(t) /\ Len(got[t]) \in Nat /\ fdw[t].row \in Nat
        BY ThreadTyped DEF IInv
      <4>2. all_finished' => tupleQueue[t].queue_state = "FINISH"
        BY <1>1 DEF Finished
      <4>3. tupleQueue[t].queue_state = "FINISH" => Complete(t)
        BY <1>1, <3>1, <4>1 DEF ThreadInv, FinishInv, RescanInv, Complete
      <4> QED
        BY <4>2, <4>3
    <3>3. \A u \in Thread : Complete(u) => Complete(u)'
      BY <1>1 DEF Complete, localVars
    <3>4. ASSUME NEW i \in 0 .. node_incr' - 1
          PROVE  (startNodeId + i) % NThreads \in Thread
      <4>1. startNodeId + i \in Nat
        BY <1>1 DEF IInv, Types, MainTypes
      <4> QED
        BY <4>1, DivMod DEF Thread
    <3>5. \A i \in 0 .. node_incr' - 1 : i \in 0 .. node_incr - 1 \/ i = node_incr
      BY <1>1 DEF IInv, Types, MainTypes
    <3> QED
      BY <1>1, <3>1, <3>2, <3>3, <3>4, <3>5 DEF EofInv
  <2>4. NoFailure \/ NotThrown => Live'
    BY <1>1 DEF IInv, MainInv
  <2>5. mpc' \in {"sub_wait", "txn"} => requestPending'
    BY <1>1
  <2> QED
    BY <2>1, <2>2, <2>3, <2>4, <2>5 DEF MainInv
<1>5. ASSUME NEW u \in Thread
      PROVE  ThreadInv(u)'
  <2>1. /\ ThreadInv(u) /\ Types /\ MainInv /\ Typed(u)
        /\ node_incr \in 0 .. NThreads /\ u \in 0 .. NThreads - 1
        /\ {rescans[u], nrescan, fdw[u].scan, fdw[u].row, fdw[u].ends} \subseteq Nat
        /\ {tupleQueue[u].len, Len(got[u])} \subseteq Nat
    BY AtThread
  <2>2. /\ UNCHANGED <<cpc[u], slot[u], old_state[u], fdw[u], state[u], requestRescan[u],
                       requestEndScan[u], is_joined[u], got[u], rescans[u]>>
        /\ UNCHANGED <<tupleQueue[u].len, tupleQueue[u].start, tupleQueue[u].tuples>>
        /\ tupleQueue'[u].queue_state = (IF u = t /\ tupleQueue[u].queue_state = "ERROR"
                                             THEN "FINISH" ELSE tupleQueue[u].queue_state)
    <3>1. tupleQueue'[u] = IF u = t /\ tupleQueue[u].queue_state = "ERROR"
                             THEN NotifyFinish(tupleQueue[u]) ELSE tupleQueue[u]
      BY <1>1, <2>1 DEF Types, ThreadTypes
    <3>2. /\ UNCHANGED <<tupleQueue[u].len, tupleQueue[u].start, tupleQueue[u].tuples>>
          /\ tupleQueue'[u].queue_state = (IF u = t /\ tupleQueue[u].queue_state = "ERROR"
                                             THEN "FINISH" ELSE tupleQueue[u].queue_state)
      BY <2>1, <3>1, NotifyFields DEF NotifyFinish, SpdQueueState
    <3>3. UNCHANGED <<cpc[u], slot[u], old_state[u], fdw[u], state[u], requestRescan[u],
                      requestEndScan[u], is_joined[u], got[u], rescans[u]>>
      BY <1>1 DEF localVars
    <3> QED
      BY <3>2, <3>3
  <2>3. RescanOrder(u)' /\ WaitInv(u)' /\ StateInv(u)' /\ JoinInv(u)' /\ BegunInv(u)'
    BY <1>1, <2>1, <2>2 DEF ThreadInv, RescanOrder, WaitInv, StateInv, JoinInv, BegunInv,
       QueueRefuses, AddIdx, LastGetIdx
  <2>4. RescanInv(u)'
    BY <1>1, <2>1, <2>2 DEF ThreadInv, RescanInv
  <2>5. ~OtherScans => EndAsked(u)' /\ CleanInv(u)'
    BY <1>1, <2>1, <2>2 DEF ThreadInv, EndAsked, CleanInv
  <2>6. Quiet => StreamInv(u)'
    <3>1. Quiet => StreamInv(u)
      BY <2>1 DEF ThreadInv
    <3>2. (Received(u)' <=> Received(u)) /\ (Queued(u)' <=> Queued(u))
      <4>1. /\ got'[u] = got[u] /\ nrescan' = nrescan
            /\ tupleQueue'[u].len = tupleQueue[u].len
            /\ tupleQueue'[u].start = tupleQueue[u].start
            /\ tupleQueue'[u].tuples = tupleQueue[u].tuples
        BY <1>1, <2>2
      <4>2. Received(u)' <=> Received(u)
        BY <4>1 DEF Received
      <4>3. Queued(u)' <=> Queued(u)
        BY <4>1 DEF Queued
      <4> QED
        BY <4>2, <4>3
    <3>3. (AtHand(u)' <=> AtHand(u)) /\ (EmptyFirst(u)' <=> EmptyFirst(u))
      BY <1>1, <2>2 DEF AtHand, EmptyFirst, Doomed, InError
    <3> QED
      BY <1>1, <2>2, <3>1, <3>2, <3>3 DEF StreamInv
  <2>7. TopLevel => FinishInv(u)'
    BY <1>1, <2>1, <2>2 DEF ThreadInv, FinishInv, StateInv, CleanInv, TopLevel
  <2>8. NoFailure => OnceInv(u)'
    BY <1>1, <2>1, <2>2 DEF ThreadInv, OnceInv
  <2>9. NoRescan => SafeInv(u)'
    BY <1>1, <2>1, <2>2 DEF SafeInv, Live
  <2> QED
    BY <2>3, <2>4, <2>5, <2>6, <2>7, <2>8, <2>9, Parts
<1> QED
  BY <1>2, <1>3, <1>4, <1>5 DEF IInv

(* A round in which all were finished ends the scan.                       *)
LEMMA LastRoundStep ==
  ASSUME IInv, NextRound, all_finished
  PROVE  IInv'
<1>1. /\ mpc = "next" /\ mpc' = "idle" /\ node_incr = NThreads
      /\ outcome' = "eof"
      /\ UNCHANGED <<infoVars, localVars, num_running>>
      /\ UNCHANGED <<node_incr, all_finished, startNodeId, lastThreadId, isFirst, level,
                      subxact, requestPending, force_end, setting, got, rescans, nrescan,
                      nsubxact>>
  BY DEF NextRound, LoopOver, infoVars, localVars, sharedVars, histVars
<1>2. Types'
  <2>1. ThreadTypes'
    BY <1>1 DEF IInv, Types, ThreadTypes, infoVars, localVars
  <2>2. MainTypes'
    BY <1>1 DEF IInv, Types, MainTypes, MainPc, Thread, infoVars
  <2> QED
    BY <2>1, <2>2 DEF Types
<1>3. Counted'
  BY <1>1 DEF IInv, Counted, Running, localVars
<1>4. MainInv'
  <2>1. LevelInv'
    BY <1>1 DEF IInv, MainInv, LevelInv
  <2>2. OutcomeInv'
    BY <1>1 DEF IInv, MainInv, OutcomeInv
  <2>3. TopLevel => EofInv'
    BY <1>1, Rounds DEF IInv, Types, MainTypes, MainInv, EofInv, Complete, localVars
  <2>4. NoFailure \/ NotThrown => Live'
    BY <1>1
  <2>5. mpc' \in {"sub_wait", "txn"} => requestPending'
    BY <1>1
  <2> QED
    BY <2>1, <2>2, <2>3, <2>4, <2>5 DEF MainInv
<1>5. ASSUME NEW u \in Thread
      PROVE  ThreadInv(u)'
  <2>1. /\ ThreadInv(u) /\ Types /\ MainInv /\ Typed(u)
        /\ node_incr \in 0 .. NThreads /\ u \in 0 .. NThreads - 1
        /\ {rescans[u], nrescan, fdw[u].scan, fdw[u].row, fdw[u].ends} \subseteq Nat
        /\ {tupleQueue[u].len, Len(got[u])} \subseteq Nat
    BY AtThread
  <2>2. Same(u)
    BY <1>1 DEF Same, infoVars, localVars
  <2>3. RescanOrder(u)' /\ WaitInv(u)' /\ StateInv(u)' /\ JoinInv(u)' /\ BegunInv(u)'
    BY <1>1, <2>1, <2>2 DEF ThreadInv, Same, RescanOrder, WaitInv, StateInv, JoinInv, BegunInv,
       MainInv, OutcomeInv
  <2>4. RescanInv(u)'
    BY <1>1, <2>1, <2>2 DEF ThreadInv, Same, RescanInv
  <2>5. ~OtherScans => EndAsked(u)' /\ CleanInv(u)'
    BY <1>1, <2>1, <2>2 DEF ThreadInv, Same, EndAsked, CleanInv, MainInv, OutcomeInv
  <2>6. Quiet => StreamInv(u)'
    BY <1>1, <2>1, <2>2 DEF ThreadInv, Same, StreamInv, Received, Queued, AtHand, EmptyFirst
  <2>7. TopLevel => FinishInv(u)'
    BY <1>1, <2>1, <2>2 DEF ThreadInv, Same, FinishInv, MainInv, OutcomeInv
  <2>8. NoFailure => OnceInv(u)'
    BY <1>1, <2>1, <2>2 DEF ThreadInv, Same, OnceInv
  <2>9. NoRescan => SafeInv(u)'
    BY <1>1, <2>1, <2>2 DEF Same, SafeInv, Live
  <2> QED
    BY <2>3, <2>4, <2>5, <2>6, <2>7, <2>8, <2>9, Parts
<1> QED
  BY <1>2, <1>3, <1>4, <1>5 DEF IInv

(* Another round begins.                                                   *)
LEMMA NextRoundStep ==
  ASSUME IInv, NextRound, ~all_finished
  PROVE  IInv'
<1>1. /\ mpc = "next" /\ node_incr = NThreads
      /\ node_incr' = 0 /\ all_finished' = TRUE
      /\ UNCHANGED <<infoVars, localVars, num_running>>
      /\ UNCHANGED <<mpc, startNodeId, lastThreadId, isFirst, level, subxact, requestPending,
                      force_end, setting, outcome, got, rescans, nrescan, nsubxact>>
  BY DEF NextRound, LoopOver, infoVars, localVars, sharedVars, histVars
<1>2. Types'
  <2>1. ThreadTypes'
    BY <1>1 DEF IInv, Types, ThreadTypes, infoVars, localVars
  <2>2. MainTypes'
    BY <1>1 DEF IInv, Types, MainTypes, MainPc, Thread, infoVars
  <2> QED
    BY <2>1, <2>2 DEF Types
<1>3. Counted'
  BY <1>1 DEF IInv, Counted, Running, localVars
<1>4. MainInv'
  <2>1. LevelInv'
    BY <1>1 DEF IInv, MainInv, LevelInv
  <2>2. OutcomeInv'
    BY <1>1 DEF IInv, MainInv, OutcomeInv
  <2>3. TopLevel => EofInv'
    BY <1>1 DEF IInv, MainInv, EofInv, Complete, localVars
  <2>4. NoFailure \/ NotThrown => Live'
    BY <1>1 DEF IInv, MainInv
  <2>5. mpc' \in {"sub_wait", "txn"} => requestPending'
    BY <1>1
  <2> QED
    BY <2>1, <2>2, <2>3, <2>4, <2>5 DEF MainInv
<1>5. ASSUME NEW u \in Thread
      PROVE  ThreadInv(u)'
  <2>1. /\ ThreadInv(u) /\ Types /\ MainInv /\ Typed(u)
        /\ node_incr \in 0 .. NThreads /\ u \in 0 .. NThreads - 1
        /\ {rescans[u], nrescan, fdw[u].scan, fdw[u].row, fdw[u].ends} \subseteq Nat
        /\ {tupleQueue[u].len, Len(got[u])} \subseteq Nat
    BY AtThread
  <2>2. Same(u)
    BY <1>1 DEF Same, infoVars, localVars
  <2>3. RescanOrder(u)' /\ WaitInv(u)' /\ StateInv(u)' /\ JoinInv(u)' /\ BegunInv(u)'
    BY <1>1, <2>1, <2>2 DEF ThreadInv, Same, RescanOrder, WaitInv, StateInv, JoinInv, BegunInv
  <2>4. RescanInv(u)'
    BY <1>1, <2>1, <2>2 DEF ThreadInv, Same, RescanInv
  <2>5. ~OtherScans => EndAsked(u)' /\ CleanInv(u)'
    BY <1>1, <2>1, <2>2 DEF ThreadInv, Same, EndAsked, CleanInv
  <2>6. Quiet => StreamInv(u)'
    BY <1>1, <2>1, <2>2 DEF ThreadInv, Same, StreamInv, Received, Queued, AtHand, EmptyFirst
  <2>7. TopLevel => FinishInv(u)'
    BY <1>1, <2>1, <2>2 DEF ThreadInv, Same, FinishInv
  <2>8. NoFailure => OnceInv(u)'
    BY <1>1, <2>1, <2>2 DEF ThreadInv, Same, OnceInv
  <2>9. NoRescan => SafeInv(u)'
    BY <1>1, <2>1, <2>2 DEF Same, SafeInv, Live
  <2> QED
    BY <2>3, <2>4, <2>5, <2>6, <2>7, <2>8, <2>9, Parts
<1> QED
  BY <1>2, <1>3, <1>4, <1>5 DEF IInv

(* The queue of a dead child is found, and that is to be thrown; so there  *)
(* can be a failure, and the setting asks for it.                          *)
LEMMA NextErrorStep ==
  ASSUME NEW t \in Thread, IInv, NextError(t)
  PROVE  IInv'
<1>1. /\ mpc = "next" /\ mpc' = "notify" /\ node_incr' = 0
      /\ tupleQueue[t].queue_state = "ERROR" /\ setting.throwErrorIfDead
      /\ UNCHANGED <<infoVars, localVars, num_running>>
      /\ UNCHANGED <<all_finished, startNodeId, lastThreadId, isFirst, level, subxact,
                      requestPending, force_end, setting, outcome, got, rescans, nrescan,
                      nsubxact>>
  BY DEF NextError, AtQueue, infoVars, localVars, sharedVars, histVars
<1>2. Types'
  <2>1. ThreadTypes'
    BY <1>1 DEF IInv, Types, ThreadTypes, infoVars, localVars
  <2>2. MainTypes'
    BY <1>1 DEF IInv, Types, MainTypes, MainPc, Thread, infoVars
  <2> QED
    BY <2>1, <2>2 DEF Types
<1>3. Counted'
  BY <1>1 DEF IInv, Counted, Running, localVars
<1>4. MainInv'
  <2>1. LevelInv'
    BY <1>1 DEF IInv, MainInv, LevelInv
  <2>2. OutcomeInv'
    BY <1>1 DEF IInv, MainInv, OutcomeInv
  <2>3. TopLevel => EofInv'
    BY <1>1 DEF IInv, MainInv, EofInv, Complete, localVars
  <2>4. NoFailure \/ NotThrown => Live'
    BY <1>1 DEF IInv, ThreadInv, OnceInv, NotThrown, Types, MainTypes
  <2>5. mpc' \in {"sub_wait", "txn"} => requestPending'
    BY <1>1
  <2> QED
    BY <2>1, <2>2, <2>3, <2>4, <2>5 DEF MainInv
<1>5. ASSUME NEW u \in Thread
      PROVE  ThreadInv(u)'
  <2>1. /\ ThreadInv(u) /\ Types /\ MainInv /\ Typed(u)
        /\ node_incr \in 0 .. NThreads /\ u \in 0 .. NThreads - 1
        /\ {rescans[u], nrescan, fdw[u].scan, fdw[u].row, fdw[u].ends} \subseteq Nat
        /\ {tupleQueue[u].len, Len(got[u])} \subseteq Nat
    BY AtThread
  <2>2. Same(u)
    BY <1>1 DEF Same, infoVars, localVars
  <2>3. RescanOrder(u)' /\ WaitInv(u)' /\ StateInv(u)' /\ JoinInv(u)' /\ BegunInv(u)'
    BY <1>1, <2>1, <2>2 DEF ThreadInv, Same, RescanOrder, WaitInv, StateInv, JoinInv, BegunInv
  <2>4. RescanInv(u)'
    BY <1>1, <2>1, <2>2 DEF ThreadInv, Same, RescanInv
  <2>5. ~OtherScans => EndAsked(u)' /\ CleanInv(u)'
    BY <1>1, <2>1, <2>2 DEF ThreadInv, Same, EndAsked, CleanInv
  <2>6. Quiet => StreamInv(u)'
    BY <1>1, <2>1, <2>2 DEF ThreadInv, Same, StreamInv, Received, Queued, AtHand, EmptyFirst
  <2>7. TopLevel => FinishInv(u)'
    BY <1>1, <2>1, <2>2 DEF Same, FinishInv
  <2>8. NoFailure => OnceInv(u)'
    BY <1>1, <2>1, <2>2 DEF ThreadInv, Same, OnceInv
  <2>9. NoRescan => SafeInv(u)'
    BY <1>1, <2>1, <2>2 DEF Same, SafeInv, Live
  <2> QED
    BY <2>3, <2>4, <2>5, <2>6, <2>7, <2>8, <2>9, Parts
<1> QED
  BY <1>2, <1>3, <1>4, <1>5 DEF IInv

(* One thread is told of the error.                                        *)
LEMMA NotifyThreadStep ==
  ASSUME NEW t \in Thread, IInv, NotifyThread(t)
  PROVE  IInv'
<1>1. /\ mpc = "notify" /\ node_incr = t /\ node_incr' = t + 1
      /\ state' = [state EXCEPT ![t] = "ERROR"]
      /\ requestEndScan' = [requestEndScan EXCEPT ![t] = TRUE]
      /\ UNCHANGED <<requestStartScan, requestRescan, is_joined, tupleQueue, localVars,
                     num_running>>
      /\ UNCHANGED <<mpc, all_finished, startNodeId, lastThreadId, isFirst, level, subxact,
                      requestPending, force_end, setting, outcome, got, rescans, nrescan,
                      nsubxact>>
  BY DEF NotifyThread, At, localVars, sharedVars, histVars
<1>2. Types'
  <2>1. ThreadTypes'
    BY <1>1 DEF IInv, Types, ThreadTypes, localVars, ThreadState
  <2>2. MainTypes'
    BY <1>1 DEF IInv, Types, MainTypes, MainPc, Thread
  <2> QED
    BY <2>1, <2>2 DEF Types
<1>3. Counted'
  BY <1>1 DEF IInv, Counted, Running, localVars
<1>4. MainInv'
  <2>1. LevelInv'
    BY <1>1 DEF IInv, MainInv, LevelInv
  <2>2. OutcomeInv'
    BY <1>1 DEF IInv, MainInv, OutcomeInv
  <2>3. TopLevel => EofInv'
    BY <1>1 DEF IInv, MainInv, EofInv, Complete, localVars
  <2>4. NoFailure \/ NotThrown => Live'
    BY <1>1 DEF IInv, MainInv
  <2>5. mpc' \in {"sub_wait", "txn"} => requestPending'
    BY <1>1
  <2> QED
    BY <2>1, <2>2, <2>3, <2>4, <2>5 DEF MainInv
<1>5. ASSUME NEW u \in Thread
      PROVE  ThreadInv(u)'
  <2>1. /\ ThreadInv(u) /\ Types /\ MainInv /\ Typed(u)
        /\ node_incr \in 0 .. NThreads /\ u \in 0 .. NThreads - 1
        /\ {rescans[u], nrescan, fdw[u].scan, fdw[u].row, fdw[u].ends} \subseteq Nat
        /\ {tupleQueue[u].len, Len(got[u])} \subseteq Nat
    BY AtThread
  <2>2. /\ UNCHANGED <<cpc[u], slot[u], old_state[u], fdw[u], requestRescan[u], is_joined[u],
                       tupleQueue[u], got[u], rescans[u]>>
        /\ state'[u] = (IF u = t THEN "ERROR" ELSE state[u])
        /\ u = t => requestEndScan'[u]
        /\ u # t => requestEndScan'[u] = requestEndScan[u]
    BY <1>1, <2>1 DEF Types, MainTypes, ThreadTypes, localVars
  <2>3. RescanOrder(u)' /\ WaitInv(u)' /\ StateInv(u)' /\ JoinInv(u)' /\ BegunInv(u)'
    BY <1>1, <2>1, <2>2 DEF ThreadInv, RescanOrder, WaitInv, StateInv, JoinInv, BegunInv
  <2>4. RescanInv(u)'
    BY <1>1, <2>1, <2>2 DEF ThreadInv, RescanInv
  <2>5. ~OtherScans => EndAsked(u)' /\ CleanInv(u)'
    BY <1>1, <2>1, <2>2 DEF ThreadInv, EndAsked, CleanInv
  <2>6. Quiet => StreamInv(u)'
    BY <1>1, <2>1, <2>2 DEF ThreadInv, StreamInv, Received, Queued, AtHand, EmptyFirst
  <2>7. TopLevel => FinishInv(u)'
    BY <1>1, <2>1, <2>2 DEF FinishInv
  <2>8. NoFailure => OnceInv(u)'
    BY <1>1, <2>1, <2>2 DEF OnceInv, MainInv
  <2>9. NoRescan => SafeInv(u)'
    BY <1>1, <2>1, <2>2 DEF SafeInv, Live
  <2> QED
    BY <2>3, <2>4, <2>5, <2>6, <2>7, <2>8, <2>9, Parts
<1> QED
  BY <1>2, <1>3, <1>4, <1>5 DEF IInv

(* All have been told, the error is thrown.                                *)
LEMMA ThrowErrorStep ==
  ASSUME IInv, ThrowError
  PROVE  IInv'
<1>1. /\ mpc = "notify" /\ node_incr = NThreads
      /\ mpc' = (IF level = 1 THEN "end_call" ELSE "sub_end")
      /\ force_end' = TRUE /\ outcome' = "failed" /\ subxact' = "abort"
      /\ UNCHANGED <<infoVars, localVars, num_running>>
      /\ UNCHANGED <<node_incr, all_finished, startNodeId, lastThreadId, isFirst, level,
                      requestPending, setting, got, rescans, nrescan, nsubxact>>
  BY DEF ThrowError, LoopOver, infoVars, localVars, histVars
<1>2. Types'
  <2>1. ThreadTypes'
    BY <1>1 DEF IInv, Types, ThreadTypes, infoVars, localVars
  <2>2. MainTypes'
    BY <1>1 DEF IInv, Types, MainTypes, MainPc, Thread, infoVars
  <2> QED
    BY <2>1, <2>2 DEF Types
<1>3. Counted'
  BY <1>1 DEF IInv, Counted, Running, localVars
<1>4. MainInv'
  <2>1. LevelInv'
    BY <1>1 DEF IInv, Types, MainTypes, MainInv, LevelInv
  <2>2. OutcomeInv'
    BY <1>1 DEF OutcomeInv
  <2>3. TopLevel => EofInv'
    BY <1>1 DEF EofInv, Complete
  <2>4. NoFailure \/ NotThrown => Live'
    BY <1>1 DEF IInv, MainInv
  <2>5. mpc' \in {"sub_wait", "txn"} => requestPending'
    BY <1>1
  <2> QED
    BY <2>1, <2>2, <2>3, <2>4, <2>5 DEF MainInv
<1>5. ASSUME NEW u \in Thread
      PROVE  ThreadInv(u)'
  <2>1. /\ ThreadInv(u) /\ Types /\ MainInv /\ Typed(u)
        /\ node_incr \in 0 .. NThreads /\ u \in 0 .. NThreads - 1
        /\ {rescans[u], nrescan, fdw[u].scan, fdw[u].row, fdw[u].ends} \subseteq Nat
        /\ {tupleQueue[u].len, Len(got[u])} \subseteq Nat
    BY AtThread
  <2>2. Same(u)
    BY <1>1 DEF Same, infoVars, localVars
  <2>3. RescanOrder(u)' /\ WaitInv(u)' /\ StateInv(u)' /\ JoinInv(u)' /\ BegunInv(u)'
    BY <1>1, <2>1, <2>2 DEF ThreadInv, Same, RescanOrder, WaitInv, StateInv, JoinInv, BegunInv
  <2>4. RescanInv(u)'
    BY <1>1, <2>1, <2>2 DEF ThreadInv, Same, RescanInv
  <2>5. ~OtherScans => EndAsked(u)' /\ CleanInv(u)'
    BY <1>1, <2>1, <2>2 DEF ThreadInv, Same, EndAsked, CleanInv
  <2>6. Quiet => StreamInv(u)'
    BY <1>1, <2>1, <2>2 DEF ThreadInv, Same, StreamInv, Received, Queued, AtHand, EmptyFirst
  <2>7. TopLevel => FinishInv(u)'
    BY <1>1, <2>1, <2>2 DEF Same, FinishInv
  <2>8. NoFailure => OnceInv(u)'
    BY <1>1, <2>1, <2>2 DEF ThreadInv, Same, OnceInv
  <2>9. NoRescan => SafeInv(u)'
    BY <1>1, <2>1, <2>2 DEF Same, SafeInv, Live
  <2> QED
    BY <2>3, <2>4, <2>5, <2>6, <2>7, <2>8, <2>9, Parts
<1> QED
  BY <1>2, <1>3, <1>4, <1>5 DEF IInv

(* spd_ReScanForeignScan begins: every thread is behind by one rescan.     *)
LEMMA CallReScanStep ==
  ASSUME IInv, CallReScan
  PROVE  IInv'
<1>1. /\ mpc = "idle" /\ mpc' = "rescan" /\ outcome \in {"open", "eof"}
      /\ nrescan < MaxReScans /\ nrescan' = nrescan + 1
      /\ outcome' = "open" /\ node_incr' = 0
      /\ got' = [u \in Thread |-> <<>>]
      /\ UNCHANGED <<infoVars, localVars, num_running>>
      /\ UNCHANGED <<all_finished, startNodeId, lastThreadId, isFirst, level, subxact,
                      requestPending, force_end, setting, rescans, nsubxact>>
  BY DEF CallReScan, MainGoto, infoVars, localVars, sharedVars, histVars
<1>2. Types'
  <2>1. ThreadTypes'
    BY <1>1 DEF IInv, Types, ThreadTypes, infoVars, localVars
  <2>2. MainTypes'
    BY <1>1 DEF IInv, Types, MainTypes, MainPc, Thread, infoVars
  <2> QED
    BY <2>1, <2>2 DEF Types
<1>3. Counted'
  BY <1>1 DEF IInv, Counted, Running, localVars
<1>4. MainInv'
  <2>1. LevelInv'
    BY <1>1 DEF IInv, MainInv, LevelInv
  <2>2. OutcomeInv'
    BY <1>1 DEF IInv, MainInv, OutcomeInv
  <2>3. TopLevel => EofInv'
    BY <1>1 DEF EofInv, Complete
  <2>4. NoFailure \/ NotThrown => Live'
    BY <1>1
  <2>5. mpc' \in {"sub_wait", "txn"} => requestPending'
    BY <1>1
  <2> QED
    BY <2>1, <2>2, <2>3, <2>4, <2>5 DEF MainInv
<1>5. ASSUME NEW u \in Thread
      PROVE  ThreadInv(u)'
  <2>1. /\ ThreadInv(u) /\ Types /\ MainInv /\ Typed(u)
        /\ node_incr \in 0 .. NThreads /\ u \in 0 .. NThreads - 1
        /\ {rescans[u], nrescan, fdw[u].scan, fdw[u].row, fdw[u].ends} \subseteq Nat
        /\ {tupleQueue[u].len, Len(got[u])} \subseteq Nat
    BY AtThread
  <2>2. /\ UNCHANGED <<cpc[u], slot[u], old_state[u], fdw[u], state[u], requestRescan[u],
                       requestEndScan[u], is_joined[u], tupleQueue[u], rescans[u]>>
        /\ got'[u] = <<>>
    BY <1>1, <2>1 DEF ThreadTypes, infoVars, localVars
  <2>3. RescanOrder(u)' /\ WaitInv(u)' /\ StateInv(u)' /\ JoinInv(u)' /\ BegunInv(u)'
    BY <1>1, <2>1, <2>2 DEF ThreadInv, RescanOrder, WaitInv, StateInv, JoinInv, BegunInv
  <2>4. RescanInv(u)'
    BY <1>1, <2>1, <2>2 DEF ThreadInv, RescanInv
  <2>5. ~OtherScans => EndAsked(u)' /\ CleanInv(u)'
    BY <1>1, <2>1, <2>2 DEF ThreadInv, EndAsked, CleanInv
  <2>6. Quiet => StreamInv(u)'
    BY <1>1, <2>1, <2>2 DEF ThreadInv, StreamInv, Received, Queued, AtHand, EmptyFirst,
       RescanOrder
  <2>7. TopLevel => FinishInv(u)'
    BY <1>1, <2>1, <2>2 DEF ThreadInv, FinishInv, RescanOrder
  <2>8. NoFailure => OnceInv(u)'
    BY <1>1, <2>1, <2>2 DEF ThreadInv, OnceInv
  <2>9. NoRescan => SafeInv(u)'
    BY <1>1, <2>1, <2>2 DEF SafeInv, Live
  <2> QED
    BY <2>3, <2>4, <2>5, <2>6, <2>7, <2>8, <2>9, Parts
<1> QED
  BY <1>2, <1>3, <1>4, <1>5 DEF IInv

(* A thread is asked to rescan. One that has ended its child scan is on    *)
(* its way out and does not come back.                                     *)
LEMMA ReScanAskStep ==
  ASSUME NEW t \in Thread, IInv, ReScanAsk(t), CanRescan(t)
  PROVE  IInv'
<1>1. /\ mpc = "rescan" /\ mpc' = "rescan_start" /\ node_incr = t
      /\ isFirst' = TRUE /\ startNodeId' = 0
      /\ rescans' = [rescans EXCEPT ![t] = @ + 1]
      /\ requestRescan' = [requestRescan EXCEPT ![t] = TRUE]
      /\ UNCHANGED <<state, requestStartScan, requestEndScan, is_joined, tupleQueue, localVars,
                     num_running>>
      /\ UNCHANGED <<node_incr, all_finished, lastThreadId, level, subxact, requestPending,
                      force_end, setting, outcome, got, nrescan, nsubxact>>
  BY DEF ReScanAsk, At, localVars, sharedVars, histVars
<1>2. Types'
  <2>1. ThreadTypes'
    BY <1>1 DEF IInv, Types, ThreadTypes, localVars
  <2>2. MainTypes'
    <3>1. rescans[t] \in Nat /\ rescans[t] + 1 \in 0 .. MaxReScans
      <4>1. ThreadInv(t) /\ rescans[t] \in Nat /\ nrescan \in Nat /\ nrescan <= MaxReScans
        BY ThreadTyped DEF IInv
      <4> QED
        BY <1>1, <4>1 DEF ThreadInv, RescanOrder, Thread
    <3> QED
      BY <1>1, <3>1 DEF IInv, Types, MainTypes, MainPc
  <2> QED
    BY <2>1, <2>2 DEF Types
<1>3. Counted'
  BY <1>1 DEF IInv, Counted, Running, localVars
<1>4. MainInv'
  <2>1. LevelInv'
    BY <1>1 DEF IInv, MainInv, LevelInv
  <2>2. OutcomeInv'
    BY <1>1 DEF IInv, MainInv, OutcomeInv
  <2>3. TopLevel => EofInv'
    BY <1>1 DEF IInv, MainInv, EofInv, Complete, localVars
  <2>4. NoFailure \/ NotThrown => Live'
    BY <1>1 DEF IInv, MainInv
  <2>5. mpc' \in {"sub_wait", "txn"} => requestPending'
    BY <1>1
  <2> QED
    BY <2>1, <2>2, <2>3, <2>4, <2>5 DEF MainInv
<1>5. ASSUME NEW u \in Thread
      PROVE  ThreadInv(u)'
  <2>1. /\ ThreadInv(u) /\ Types /\ MainInv /\ Typed(u)
        /\ node_incr \in 0 .. NThreads /\ u \in 0 .. NThreads - 1
        /\ {rescans[u], nrescan, fdw[u].scan, fdw[u].row, fdw[u].ends} \subseteq Nat
        /\ {tupleQueue[u].len, Len(got[u])} \subseteq Nat
    BY AtThread
  <2>2. /\ UNCHANGED <<cpc[u], slot[u], old_state[u], fdw[u], state[u], requestEndScan[u],
                       is_joined[u], tupleQueue[u], got[u]>>
        /\ u = t => requestRescan'[u]
        /\ u # t => requestRescan'[u] = requestRescan[u]
        /\ rescans'[u] = (IF u = t THEN rescans[u] + 1 ELSE rescans[u])
    BY <1>1, <2>1 DEF Types, MainTypes, ThreadTypes, localVars
  <2>3. RescanOrder(u)' /\ WaitInv(u)' /\ StateInv(u)' /\ JoinInv(u)' /\ BegunInv(u)'
    BY <1>1, <2>1, <2>2 DEF ThreadInv, RescanOrder, WaitInv, StateInv, JoinInv, BegunInv
  <2>4. RescanInv(u)'
    BY <1>1, <2>1, <2>2 DEF ThreadInv, RescanInv
  <2>5. ~OtherScans => EndAsked(u)' /\ CleanInv(u)'
    BY <1>1, <2>1, <2>2 DEF ThreadInv, EndAsked, CleanInv, MainInv, OutcomeInv
  <2>6. Quiet => StreamInv(u)'
    <3> SUFFICES ASSUME Quiet PROVE StreamInv(u)'
      OBVIOUS
    <3>1. StreamInv(u) /\ Live /\ ~Joining(u)
      BY <1>1, <2>1, <2>2 DEF ThreadInv, MainInv, OutcomeInv
    <3>2. EmptyFirst(u)'
      <4>1. CASE u = t
        <5>1. rescans[t] < nrescan /\ nrescan <= MaxReScans
          BY <1>1, <2>1, <2>2, <4>1 DEF ThreadInv, RescanOrder, Types, MainTypes
        <5>2. ~OtherScans
          BY <2>1, <2>2, <4>1, <5>1 DEF Quiet
        <5>3. cpc[u] = "ended" => Doomed(u) \/ requestRescan[u]
          BY <2>1, <2>2, <3>1, <5>2 DEF ThreadInv, EndAsked
        <5>4. requestRescan[u] => Doomed(u)
          BY <1>1, <2>1, <2>2, <4>1 DEF ThreadInv, RescanInv
        <5> QED
          BY <2>2, <3>1, <5>3, <5>4 DEF StreamInv, EmptyFirst
      <4>2. CASE u # t
        BY <2>2, <3>1, <4>2 DEF StreamInv, EmptyFirst
      <4> QED
        BY <4>1, <4>2
    <3> QED
      BY <1>1, <2>1, <2>2, <3>1, <3>2 DEF StreamInv, Received, Queued, AtHand
  <2>7. TopLevel => FinishInv(u)'
    BY <1>1, <2>1, <2>2 DEF ThreadInv, FinishInv
  <2>8. NoFailure => OnceInv(u)'
    BY <1>1, <2>1, <2>2 DEF ThreadInv, OnceInv
  <2>9. NoRescan => SafeInv(u)'
    BY <1>1, <2>1, <2>2 DEF SafeInv, Live
  <2> QED
    BY <2>3, <2>4, <2>5, <2>6, <2>7, <2>8, <2>9, Parts
<1> QED
  BY <1>2, <1>3, <1>4, <1>5 DEF IInv

(* A thread in error or finished is passed over: it is on its way out.     *)
LEMMA ReScanSkipStep ==
  ASSUME NEW t \in Thread, IInv, ReScanAsk(t), ~CanRescan(t)
  PROVE  IInv'
<1>1. /\ mpc = "rescan" /\ state[t] \in {"ERROR", "ERROR_INIT", "FINISH"}
      /\ node_incr = t /\ node_incr' = t + 1
      /\ UNCHANGED <<infoVars, localVars, num_running>>
      /\ UNCHANGED <<mpc, all_finished, startNodeId, lastThreadId, isFirst, level, subxact,
                      requestPending, force_end, setting, outcome, got, rescans, nrescan,
                      nsubxact>>
  BY DEF ReScanAsk, At, AtQueue, infoVars, localVars, sharedVars, histVars, CanRescan
<1>2. Types'
  <2>1. ThreadTypes'
    BY <1>1 DEF IInv, Types, ThreadTypes, infoVars, localVars
  <2>2. MainTypes'
    BY <1>1 DEF IInv, Types, MainTypes, MainPc, Thread, infoVars
  <2> QED
    BY <2>1, <2>2 DEF Types
<1>3. Counted'
  BY <1>1 DEF IInv, Counted, Running, localVars
<1>4. MainInv'
  <2>1. LevelInv'
    BY <1>1 DEF IInv, MainInv, LevelInv
  <2>2. OutcomeInv'
    BY <1>1 DEF IInv, MainInv, OutcomeInv
  <2>3. TopLevel => EofInv'
    BY <1>1 DEF IInv, MainInv, EofInv, Complete, localVars
  <2>4. NoFailure \/ NotThrown => Live'
    BY <1>1 DEF IInv, MainInv
  <2>5. mpc' \in {"sub_wait", "txn"} => requestPending'
    BY <1>1
  <2> QED
    BY <2>1, <2>2, <2>3, <2>4, <2>5 DEF MainInv
<1>5. ASSUME NEW u \in Thread
      PROVE  ThreadInv(u)'
  <2>1. /\ ThreadInv(u) /\ Types /\ MainInv /\ Typed(u)
        /\ node_incr \in 0 .. NThreads /\ u \in 0 .. NThreads - 1
        /\ {rescans[u], nrescan, fdw[u].scan, fdw[u].row, fdw[u].ends} \subseteq Nat
        /\ {tupleQueue[u].len, Len(got[u])} \subseteq Nat
    BY AtThread
  <2>2. Same(u)
    BY <1>1 DEF Same, infoVars, localVars
  <2>3. RescanOrder(u)' /\ WaitInv(u)' /\ StateInv(u)' /\ JoinInv(u)' /\ BegunInv(u)'
    BY <1>1, <2>1, <2>2 DEF ThreadInv, Same, RescanOrder, WaitInv, StateInv, JoinInv, BegunInv
  <2>4. RescanInv(u)'
    BY <1>1, <2>1, <2>2 DEF ThreadInv, Same, RescanInv, StateInv, MainInv, OutcomeInv
  <2>5. ~OtherScans => EndAsked(u)' /\ CleanInv(u)'
    BY <1>1, <2>1, <2>2 DEF ThreadInv, Same, EndAsked, CleanInv
  <2>6. Quiet => StreamInv(u)'
    BY <1>1, <2>1, <2>2 DEF ThreadInv, Same, StreamInv, Received, Queued, AtHand, EmptyFirst
  <2>7. TopLevel => FinishInv(u)'
    BY <1>1, <2>1, <2>2 DEF ThreadInv, Same, FinishInv
  <2>8. NoFailure => OnceInv(u)'
    BY <1>1, <2>1, <2>2 DEF ThreadInv, Same, OnceInv
  <2>9. NoRescan => SafeInv(u)'
    BY <1>1, <2>1, <2>2 DEF Same, SafeInv, Live
  <2> QED
    BY <2>3, <2>4, <2>5, <2>6, <2>7, <2>8, <2>9, Parts
<1> QED
  BY <1>2, <1>3, <1>4, <1>5 DEF IInv

(* The thread asked is allowed to start, too.                              *)
LEMMA ReScanStartStep ==
  ASSUME NEW t \in Thread, IInv, ReScanStart(t)
  PROVE  IInv'
<1>1. /\ mpc = "rescan_start" /\ mpc' = "rescan"
      /\ node_incr = t /\ node_incr' = t + 1
      /\ requestStartScan' = [requestStartScan EXCEPT ![t] = TRUE]
      /\ UNCHANGED <<state, requestRescan, requestEndScan, is_joined, tupleQueue, localVars,
                     num_running>>
      /\ UNCHANGED <<all_finished, startNodeId, lastThreadId, isFirst, level, subxact,
                      requestPending, force_end, setting, outcome, got, rescans, nrescan,
                      nsubxact>>
  BY DEF ReScanStart, MainGoto, At, localVars, sharedVars, histVars
<1>2. Types'
  <2>1. ThreadTypes'
    BY <1>1 DEF IInv, Types, ThreadTypes, localVars
  <2>2. MainTypes'
    BY <1>1 DEF IInv, Types, MainTypes, MainPc, Thread
  <2> QED
    BY <2>1, <2>2 DEF Types
<1>3. Counted'
  BY <1>1 DEF IInv, Counted, Running, localVars
<1>4. MainInv'
  <2>1. LevelInv'
    BY <1>1 DEF IInv, MainInv, LevelInv
  <2>2. OutcomeInv'
    BY <1>1 DEF IInv, MainInv, OutcomeInv
  <2>3. TopLevel => EofInv'
    BY <1>1 DEF IInv, MainInv, EofInv, Complete, localVars
  <2>4. NoFailure \/ NotThrown => Live'
    BY <1>1 DEF IInv, MainInv
  <2>5. mpc' \in {"sub_wait", "txn"} => requestPending'
    BY <1>1
  <2> QED
    BY <2>1, <2>2, <2>3, <2>4, <2>5 DEF MainInv
<1>5. ASSUME NEW u \in Thread
      PROVE  ThreadInv(u)'
  <2>1. /\ ThreadInv(u) /\ Types /\ MainInv /\ Typed(u)
        /\ node_incr \in 0 .. NThreads /\ u \in 0 .. NThreads - 1
        /\ {rescans[u], nrescan, fdw[u].scan, fdw[u].row, fdw[u].ends} \subseteq Nat
        /\ {tupleQueue[u].len, Len(got[u])} \subseteq Nat
    BY AtThread
  <2>2. UNCHANGED <<cpc[u], slot[u], old_state[u], fdw[u], state[u], requestRescan[u],
                    requestEndScan[u], is_joined[u], tupleQueue[u], got[u], rescans[u]>>
    BY <1>1, <2>1 DEF ThreadTypes, localVars
  <2>3. RescanOrder(u)' /\ WaitInv(u)' /\ StateInv(u)' /\ JoinInv(u)' /\ BegunInv(u)'
    BY <1>1, <2>1, <2>2 DEF ThreadInv, RescanOrder, WaitInv, StateInv, JoinInv, BegunInv
  <2>4. RescanInv(u)'
    BY <1>1, <2>1, <2>2 DEF ThreadInv, RescanInv
  <2>5. ~OtherScans => EndAsked(u)' /\ CleanInv(u)'
    BY <1>1, <2>1, <2>2 DEF ThreadInv, EndAsked, CleanInv
  <2>6. Quiet => StreamInv(u)'
    BY <1>1, <2>1, <2>2 DEF ThreadInv, StreamInv, Received, Queued, AtHand, EmptyFirst
  <2>7. TopLevel => FinishInv(u)'
    BY <1>1, <2>1, <2>2 DEF ThreadInv, FinishInv
  <2>8. NoFailure => OnceInv(u)'
    BY <1>1, <2>1, <2>2 DEF ThreadInv, OnceInv
  <2>9. NoRescan => SafeInv(u)'
    BY <1>1, <2>1, <2>2 DEF SafeInv, Live
  <2> QED
    BY <2>3, <2>4, <2>5, <2>6, <2>7, <2>8, <2>9, Parts
<1> QED
  BY <1>2, <1>3, <1>4, <1>5 DEF IInv

(* All have been asked.                                                    *)
LEMMA ReScanWaitStep ==
  ASSUME IInv, ReScanWait
  PROVE  IInv'
<1>1. /\ mpc = "rescan" /\ mpc' = "rescan_wait"
      /\ node_incr = NThreads /\ node_incr' = 0
      /\ UNCHANGED <<infoVars, localVars, num_running>>
      /\ UNCHANGED <<all_finished, startNodeId, lastThreadId, isFirst, level, subxact,
                      requestPending, force_end, setting, outcome, got, rescans, nrescan,
                      nsubxact>>
  BY DEF ReScanWait, MainGoto, LoopOver, infoVars, localVars, sharedVars, histVars
<1>2. Types'
  <2>1. ThreadTypes'
    BY <1>1 DEF IInv, Types, ThreadTypes, infoVars, localVars
  <2>2. MainTypes'
    BY <1>1 DEF IInv, Types, MainTypes, MainPc, Thread, infoVars
  <2> QED
    BY <2>1, <2>2 DEF Types
<1>3. Counted'
  BY <1>1 DEF IInv, Counted, Running, localVars
<1>4. MainInv'
  <2>1. LevelInv'
    BY <1>1 DEF IInv, MainInv, LevelInv
  <2>2. OutcomeInv'
    BY <1>1 DEF IInv, MainInv, OutcomeInv
  <2>3. TopLevel => EofInv'
    BY <1>1 DEF IInv, MainInv, EofInv, Complete, localVars
  <2>4. NoFailure \/ NotThrown => Live'
    BY <1>1 DEF IInv, MainInv
  <2>5. mpc' \in {"sub_wait", "txn"} => requestPending'
    BY <1>1
  <2> QED
    BY <2>1, <2>2, <2>3, <2>4, <2>5 DEF MainInv
<1>5. ASSUME NEW u \in Thread
      PROVE  ThreadInv(u)'
  <2>1. /\ ThreadInv(u) /\ Types /\ MainInv /\ Typed(u)
        /\ node_incr \in 0 .. NThreads /\ u \in 0 .. NThreads - 1
        /\ {rescans[u], nrescan, fdw[u].scan, fdw[u].row, fdw[u].ends} \subseteq Nat
        /\ {tupleQueue[u].len, Len(got[u])} \subseteq Nat
    BY AtThread
  <2>2. Same(u)
    BY <1>1 DEF Same, infoVars, localVars
  <2>3. RescanOrder(u)' /\ WaitInv(u)' /\ StateInv(u)' /\ JoinInv(u)' /\ BegunInv(u)'
    BY <1>1, <2>1, <2>2 DEF ThreadInv, Same, RescanOrder, WaitInv, StateInv, JoinInv, BegunInv
  <2>4. RescanInv(u)'
    BY <1>1, <2>1, <2>2 DEF ThreadInv, Same, RescanInv
  <2>5. ~OtherScans => EndAsked(u)' /\ CleanInv(u)'
    BY <1>1, <2>1, <2>2 DEF ThreadInv, Same, EndAsked, CleanInv
  <2>6. Quiet => StreamInv(u)'
    BY <1>1, <2>1, <2>2 DEF ThreadInv, Same, StreamInv, Received, Queued, AtHand, EmptyFirst
  <2>7. TopLevel => FinishInv(u)'
    BY <1>1, <2>1, <2>2 DEF ThreadInv, Same, FinishInv
  <2>8. NoFailure => OnceInv(u)'
    BY <1>1, <2>1, <2>2 DEF ThreadInv, Same, OnceInv
  <2>9. NoRescan => SafeInv(u)'
    BY <1>1, <2>1, <2>2 DEF Same, SafeInv, Live
  <2> QED
    BY <2>3, <2>4, <2>5, <2>6, <2>7, <2>8, <2>9, Parts
<1> QED
  BY <1>2, <1>3, <1>4, <1>5 DEF IInv

(* A thread has rescanned, or is on its way out; after the last one the    *)
(* call returns.                                                           *)
LEMMA ReScanSeenStep ==
  ASSUME NEW t \in Thread, IInv, ReScanSeen(t)
  PROVE  IInv'
<1>1. /\ mpc = "rescan_wait" /\ mpc' = (IF t = NThreads - 1 THEN "idle" ELSE "rescan_wait")
      /\ node_incr = t /\ node_incr' = t + 1
      /\ CanRescan(t) => ~requestRescan[t]
      /\ UNCHANGED <<infoVars, localVars, num_running>>
      /\ UNCHANGED <<all_finished, startNodeId, lastThreadId, isFirst, level, subxact,
                      requestPending, force_end, setting, outcome, got, rescans, nrescan,
                      nsubxact>>
  BY DEF ReScanSeen, At, infoVars, localVars, sharedVars, histVars
<1>2. Types'
  <2>1. ThreadTypes'
    BY <1>1 DEF IInv, Types, ThreadTypes, infoVars, localVars
  <2>2. MainTypes'
    BY <1>1 DEF IInv, Types, MainTypes, MainPc, Thread, infoVars
  <2> QED
    BY <2>1, <2>2 DEF Types
<1>3. Counted'
  BY <1>1 DEF IInv, Counted, Running, localVars
<1>4. MainInv'
  <2>1. LevelInv'
    BY <1>1 DEF IInv, MainInv, LevelInv
  <2>2. OutcomeInv'
    BY <1>1 DEF IInv, MainInv, OutcomeInv
  <2>3. TopLevel => EofInv'
    BY <1>1 DEF IInv, MainInv, EofInv, Complete, localVars
  <2>4. NoFailure \/ NotThrown => Live'
    BY <1>1 DEF IInv, MainInv
  <2>5. mpc' \in {"sub_wait", "txn"} => requestPending'
    BY <1>1
  <2> QED
    BY <2>1, <2>2, <2>3, <2>4, <2>5 DEF MainInv
<1>5. ASSUME NEW u \in Thread
      PROVE  ThreadInv(u)'
  <2>1. /\ ThreadInv(u) /\ Types /\ MainInv /\ Typed(u)
        /\ node_incr \in 0 .. NThreads /\ u \in 0 .. NThreads - 1
        /\ {rescans[u], nrescan, fdw[u].scan, fdw[u].row, fdw[u].ends} \subseteq Nat
        /\ {tupleQueue[u].len, Len(got[u])} \subseteq Nat
    BY AtThread
  <2>2. Same(u)
    BY <1>1 DEF Same, infoVars, localVars
  <2>3. RescanOrder(u)' /\ WaitInv(u)' /\ StateInv(u)' /\ JoinInv(u)' /\ BegunInv(u)'
    BY <1>1, <2>1, <2>2 DEF ThreadInv, Same, RescanOrder, WaitInv, StateInv, JoinInv, BegunInv
  <2>4. RescanInv(u)'
    BY <1>1, <2>1, <2>2 DEF ThreadInv, Same, RescanInv, CanRescan, StateInv, MainInv, OutcomeInv
  <2>5. ~OtherScans => EndAsked(u)' /\ CleanInv(u)'
    BY <1>1, <2>1, <2>2 DEF ThreadInv, Same, EndAsked, CleanInv
  <2>6. Quiet => StreamInv(u)'
    BY <1>1, <2>1, <2>2 DEF ThreadInv, Same, StreamInv, Received, Queued, AtHand, EmptyFirst
  <2>7. TopLevel => FinishInv(u)'
    BY <1>1, <2>1, <2>2 DEF ThreadInv, Same, FinishInv
  <2>8. NoFailure => OnceInv(u)'
    BY <1>1, <2>1, <2>2 DEF ThreadInv, Same, OnceInv
  <2>9. NoRescan => SafeInv(u)'
    BY <1>1, <2>1, <2>2 DEF Same, SafeInv, Live
  <2> QED
    BY <2>3, <2>4, <2>5, <2>6, <2>7, <2>8, <2>9, Parts
<1> QED
  BY <1>2, <1>3, <1>4, <1>5 DEF IInv

(* spd_EndForeignScan, or the end of the transaction.                      *)
LEMMA CallEndStep ==
  ASSUME IInv, CallEnd
  PROVE  IInv'
<1>1. /\ mpc = "idle" /\ mpc' = "end_call"
      /\ UNCHANGED <<infoVars, localVars, num_running>>
      /\ UNCHANGED <<node_incr, all_finished, startNodeId, lastThreadId, isFirst, level,
                      subxact, requestPending, force_end, setting, outcome, got, rescans,
                      nrescan, nsubxact>>
  BY DEF CallEnd, MainGoto, infoVars, localVars, sharedVars, histVars
<1>2. Types'
  <2>1. ThreadTypes'
    BY <1>1 DEF IInv, Types, ThreadTypes, infoVars, localVars
  <2>2. MainTypes'
    BY <1>1 DEF IInv, Types, MainTypes, MainPc, Thread, infoVars
  <2> QED
    BY <2>1, <2>2 DEF Types
<1>3. Counted'
  BY <1>1 DEF IInv, Counted, Running, localVars
<1>4. MainInv'
  <2>1. LevelInv'
    BY <1>1 DEF IInv, MainInv, LevelInv
  <2>2. OutcomeInv'
    BY <1>1 DEF IInv, MainInv, OutcomeInv
  <2>3. TopLevel => EofInv'
    BY <1>1 DEF IInv, MainInv, EofInv, Complete, localVars
  <2>4. NoFailure \/ NotThrown => Live'
    BY <1>1 DEF IInv, MainInv
  <2>5. mpc' \in {"sub_wait", "txn"} => requestPending'
    BY <1>1
  <2> QED
    BY <2>1, <2>2, <2>3, <2>4, <2>5 DEF MainInv
<1>5. ASSUME NEW u \in Thread
      PROVE  ThreadInv(u)'
  <2>1. /\ ThreadInv(u) /\ Types /\ MainInv /\ Typed(u)
        /\ node_incr \in 0 .. NThreads /\ u \in 0 .. NThreads - 1
        /\ {rescans[u], nrescan, fdw[u].scan, fdw[u].row, fdw[u].ends} \subseteq Nat
        /\ {tupleQueue[u].len, Len(got[u])} \subseteq Nat
    BY AtThread
  <2>2. Same(u)
    BY <1>1 DEF Same, infoVars, localVars
  <2>3. RescanOrder(u)' /\ WaitInv(u)' /\ StateInv(u)' /\ JoinInv(u)' /\ BegunInv(u)'
    BY <1>1, <2>1, <2>2 DEF ThreadInv, Same, RescanOrder, WaitInv, StateInv, JoinInv, BegunInv
  <2>4. RescanInv(u)'
    BY <1>1, <2>1, <2>2 DEF ThreadInv, Same, RescanInv
  <2>5. ~OtherScans => EndAsked(u)' /\ CleanInv(u)'
    BY <1>1, <2>1, <2>2 DEF ThreadInv, Same, EndAsked, CleanInv
  <2>6. Quiet => StreamInv(u)'
    BY <1>1, <2>1, <2>2 DEF ThreadInv, Same, StreamInv, Received, Queued, AtHand, EmptyFirst
  <2>7. TopLevel => FinishInv(u)'
    BY <1>1, <2>1, <2>2 DEF ThreadInv, Same, FinishInv
  <2>8. NoFailure => OnceInv(u)'
    BY <1>1, <2>1, <2>2 DEF ThreadInv, Same, OnceInv
  <2>9. NoRescan => SafeInv(u)'
    BY <1>1, <2>1, <2>2 DEF Same, SafeInv, Live
  <2> QED
    BY <2>3, <2>4, <2>5, <2>6, <2>7, <2>8, <2>9, Parts
<1> QED
  BY <1>2, <1>3, <1>4, <1>5 DEF IInv

(* The pending threads are woken up. Where nothing fails every thread has  *)
(* done its rescans by now.                                                *)
LEMMA EndWakeUpStep ==
  ASSUME IInv, EndWakeUp
  PROVE  IInv'
<1>1. /\ mpc = "end_call" /\ mpc' = "end_loop"
      /\ node_incr' = 0 /\ requestPending' \in BOOLEAN
      /\ UNCHANGED <<infoVars, localVars, num_running>>
      /\ UNCHANGED <<all_finished, startNodeId, lastThreadId, isFirst, level, subxact,
                      force_end, setting, outcome, got, rescans, nrescan, nsubxact>>
  BY DEF EndWakeUp, MainGoto, infoVars, localVars, histVars
<1>2. Types'
  <2>1. ThreadTypes'
    BY <1>1 DEF IInv, Types, ThreadTypes, infoVars, localVars
  <2>2. MainTypes'
    BY <1>1 DEF IInv, Types, MainTypes, MainPc, Thread, infoVars
  <2> QED
    BY <2>1, <2>2 DEF Types
<1>3. Counted'
  BY <1>1 DEF IInv, Counted, Running, localVars
<1>4. MainInv'
  <2>1. LevelInv'
    BY <1>1 DEF IInv, MainInv, LevelInv
  <2>2. OutcomeInv'
    BY <1>1 DEF IInv, MainInv, OutcomeInv
  <2>3. TopLevel => EofInv'
    BY <1>1 DEF IInv, MainInv, EofInv, Complete, localVars
  <2>4. NoFailure \/ NotThrown => Live'
    BY <1>1 DEF IInv, MainInv
  <2>5. mpc' \in {"sub_wait", "txn"} => requestPending'
    BY <1>1
  <2> QED
    BY <2>1, <2>2, <2>3, <2>4, <2>5 DEF MainInv
<1>5. ASSUME NEW u \in Thread
      PROVE  ThreadInv(u)'
  <2>1. /\ ThreadInv(u) /\ Types /\ MainInv /\ Typed(u)
        /\ node_incr \in 0 .. NThreads /\ u \in 0 .. NThreads - 1
        /\ {rescans[u], nrescan, fdw[u].scan, fdw[u].row, fdw[u].ends} \subseteq Nat
        /\ {tupleQueue[u].len, Len(got[u])} \subseteq Nat
    BY AtThread
  <2>2. Same(u)
    BY <1>1 DEF Same, infoVars, localVars
  <2>3. RescanOrder(u)' /\ WaitInv(u)' /\ StateInv(u)' /\ JoinInv(u)' /\ BegunInv(u)'
    BY <1>1, <2>1, <2>2 DEF ThreadInv, Same, RescanOrder, WaitInv, StateInv, JoinInv, BegunInv
  <2>4. RescanInv(u)'
    BY <1>1, <2>1, <2>2 DEF ThreadInv, Same, RescanInv
  <2>5. ~OtherScans => EndAsked(u)' /\ CleanInv(u)'
    BY <1>1, <2>1, <2>2 DEF ThreadInv, Same, EndAsked, CleanInv
  <2>6. Quiet => StreamInv(u)'
    BY <1>1, <2>1, <2>2 DEF ThreadInv, Same, StreamInv, Received, Queued, AtHand, EmptyFirst
  <2>7. TopLevel => FinishInv(u)'
    BY <1>1, <2>1, <2>2 DEF Same, FinishInv
  <2>8. NoFailure => OnceInv(u)'
    BY <1>1, <2>1, <2>2 DEF ThreadInv, Same, OnceInv, FinishInv, RescanInv, NoFailure, TopLevel,
       MainInv
  <2>9. NoRescan => SafeInv(u)'
    BY <1>1, <2>1, <2>2 DEF Same, SafeInv, Live
  <2> QED
    BY <2>3, <2>4, <2>5, <2>6, <2>7, <2>8, <2>9, Parts
<1> QED
  BY <1>2, <1>3, <1>4, <1>5 DEF IInv

(* A thread is asked to end; it has not ended yet.                         *)
LEMMA EndRequestStep ==
  ASSUME NEW t \in Thread, IInv, EndRequest(t)
  PROVE  IInv'
<1>1. /\ mpc \in {"end_loop", "sub_loop"} /\ node_incr = t
      /\ MustEnd(t)
      /\ mpc' = (IF mpc = "end_loop" THEN "end_join" ELSE "sub_join")
      /\ requestEndScan' = [requestEndScan EXCEPT ![t] = TRUE]
      /\ UNCHANGED <<state, requestStartScan, requestRescan, is_joined, tupleQueue, localVars,
                     num_running>>
      /\ UNCHANGED <<node_incr, all_finished, startNodeId, lastThreadId, isFirst, level,
                      subxact, requestPending, force_end, setting, outcome, got, rescans,
                      nrescan, nsubxact>>
  BY DEF EndRequest, At, localVars, sharedVars, histVars
<1>2. Types'
  <2>1. ThreadTypes'
    BY <1>1 DEF IInv, Types, ThreadTypes, localVars
  <2>2. MainTypes'
    BY <1>1 DEF IInv, Types, MainTypes, MainPc, Thread
  <2> QED
    BY <2>1, <2>2 DEF Types
<1>3. Counted'
  BY <1>1 DEF IInv, Counted, Running, localVars
<1>4. MainInv'
  <2>1. LevelInv'
    BY <1>1 DEF IInv, MainInv, LevelInv, MustEnd
  <2>2. OutcomeInv'
    BY <1>1 DEF IInv, MainInv, OutcomeInv
  <2>3. TopLevel => EofInv'
    BY <1>1 DEF IInv, MainInv, EofInv, Complete, localVars
  <2>4. NoFailure \/ NotThrown => Live'
    BY <1>1 DEF IInv, MainInv
  <2>5. mpc' \in {"sub_wait", "txn"} => requestPending'
    BY <1>1
  <2> QED
    BY <2>1, <2>2, <2>3, <2>4, <2>5 DEF MainInv
<1>5. ASSUME NEW u \in Thread
      PROVE  ThreadInv(u)'
  <2>1. /\ ThreadInv(u) /\ Types /\ MainInv /\ Typed(u)
        /\ node_incr \in 0 .. NThreads /\ u \in 0 .. NThreads - 1
        /\ {rescans[u], nrescan, fdw[u].scan, fdw[u].row, fdw[u].ends} \subseteq Nat
        /\ {tupleQueue[u].len, Len(got[u])} \subseteq Nat
    BY AtThread
  <2>2. /\ UNCHANGED <<cpc[u], slot[u], old_state[u], fdw[u], state[u], requestRescan[u],
                       is_joined[u], tupleQueue[u], got[u], rescans[u]>>
        /\ u = t => requestEndScan'[u]
        /\ u # t => requestEndScan'[u] = requestEndScan[u]
    BY <1>1, <2>1 DEF Types, MainTypes, ThreadTypes, localVars
  <2>3. RescanOrder(u)' /\ WaitInv(u)' /\ StateInv(u)' /\ JoinInv(u)' /\ BegunInv(u)'
    BY <1>1, <2>1, <2>2 DEF ThreadInv, RescanOrder, WaitInv, StateInv, JoinInv, BegunInv
  <2>4. RescanInv(u)'
    BY <1>1, <2>1, <2>2 DEF ThreadInv, RescanInv
  <2>5. ~OtherScans => EndAsked(u)' /\ CleanInv(u)'
    BY <1>1, <2>1, <2>2 DEF ThreadInv, EndAsked, CleanInv
  <2>6. Quiet => StreamInv(u)'
    BY <1>1, <2>1, <2>2 DEF ThreadInv, StreamInv, Received, Queued, AtHand, EmptyFirst
  <2>7. TopLevel => FinishInv(u)'
    BY <1>1, <2>1, <2>2 DEF ThreadInv, FinishInv
  <2>8. NoFailure => OnceInv(u)'
    BY <1>1, <2>1, <2>2 DEF ThreadInv, OnceInv, MustEnd, EndAsked, NoFailure
  <2>9. NoRescan => SafeInv(u)'
    BY <1>1, <2>1, <2>2 DEF SafeInv, Live
  <2> QED
    BY <2>3, <2>4, <2>5, <2>6, <2>7, <2>8, <2>9, Parts
<1> QED
  BY <1>2, <1>3, <1>4, <1>5 DEF IInv

(* The thread has left and is joined.                                      *)
LEMMA EndJoinStep ==
  ASSUME NEW t \in Thread, IInv, EndJoin(t)
  PROVE  IInv'
<1>1. /\ mpc \in {"end_join", "sub_join"} /\ cpc[t] = "gone"
      /\ mpc' = (IF mpc = "end_join" THEN "end_loop" ELSE "sub_loop")
      /\ node_incr = t /\ node_incr' = t + 1
      /\ is_joined' = [is_joined EXCEPT ![t] = TRUE]
      /\ UNCHANGED <<state, requestStartScan, requestRescan, requestEndScan, tupleQueue,
                     localVars, num_running>>
      /\ UNCHANGED <<all_finished, startNodeId, lastThreadId, isFirst, level, subxact,
                      requestPending, force_end, setting, outcome, got, rescans, nrescan,
                      nsubxact>>
  BY DEF EndJoin, At, localVars, sharedVars, histVars
<1>2. Types'
  <2>1. ThreadTypes'
    BY <1>1 DEF IInv, Types, ThreadTypes, localVars
  <2>2. MainTypes'
    BY <1>1 DEF IInv, Types, MainTypes, MainPc, Thread
  <2> QED
    BY <2>1, <2>2 DEF Types
<1>3. Counted'
  BY <1>1 DEF IInv, Counted, Running, localVars
<1>4. MainInv'
  <2>1. LevelInv'
    BY <1>1 DEF IInv, MainInv, LevelInv
  <2>2. OutcomeInv'
    BY <1>1 DEF IInv, MainInv, OutcomeInv
  <2>3. TopLevel => EofInv'
    BY <1>1 DEF IInv, MainInv, EofInv, Complete, localVars
  <2>4. NoFailure \/ NotThrown => Live'
    BY <1>1 DEF IInv, MainInv
  <2>5. mpc' \in {"sub_wait", "txn"} => requestPending'
    BY <1>1
  <2> QED
    BY <2>1, <2>2, <2>3, <2>4, <2>5 DEF MainInv
<1>5. ASSUME NEW u \in Thread
      PROVE  ThreadInv(u)'
  <2>1. /\ ThreadInv(u) /\ Types /\ MainInv /\ Typed(u)
        /\ node_incr \in 0 .. NThreads /\ u \in 0 .. NThreads - 1
        /\ {rescans[u], nrescan, fdw[u].scan, fdw[u].row, fdw[u].ends} \subseteq Nat
        /\ {tupleQueue[u].len, Len(got[u])} \subseteq Nat
    BY AtThread
  <2>2. /\ UNCHANGED <<cpc[u], slot[u], old_state[u], fdw[u], state[u], requestRescan[u],
                       requestEndScan[u], tupleQueue[u], got[u], rescans[u]>>
        /\ u = t => is_joined'[u]
        /\ u # t => is_joined'[u] = is_joined[u]
    BY <1>1, <2>1 DEF Types, MainTypes, ThreadTypes, localVars
  <2>3. RescanOrder(u)' /\ WaitInv(u)' /\ StateInv(u)' /\ JoinInv(u)' /\ BegunInv(u)'
    BY <1>1, <2>1, <2>2 DEF ThreadInv, RescanOrder, WaitInv, StateInv, JoinInv, BegunInv
  <2>4. RescanInv(u)'
    BY <1>1, <2>1, <2>2 DEF ThreadInv, RescanInv
  <2>5. ~OtherScans => EndAsked(u)' /\ CleanInv(u)'
    BY <1>1, <2>1, <2>2 DEF ThreadInv, EndAsked, CleanInv
  <2>6. Quiet => StreamInv(u)'
    BY <1>1, <2>1, <2>2 DEF ThreadInv, StreamInv, Received, Queued, AtHand, EmptyFirst
  <2>7. TopLevel => FinishInv(u)'
    BY <1>1, <2>1, <2>2 DEF ThreadInv, FinishInv
  <2>8. NoFailure => OnceInv(u)'
    BY <1>1, <2>1, <2>2 DEF ThreadInv, OnceInv, CleanInv, NoFailure
  <2>9. NoRescan => SafeInv(u)'
    BY <1>1, <2>1, <2>2 DEF SafeInv, Live
  <2> QED
    BY <2>3, <2>4, <2>5, <2>6, <2>7, <2>8, <2>9, Parts
<1> QED
  BY <1>2, <1>3, <1>4, <1>5 DEF IInv

(* A thread that was joined, or belongs to an outer level, is passed over. *)
LEMMA EndSkipStep ==
  ASSUME NEW t \in Thread, IInv, EndSkip(t)
  PROVE  IInv'
<1>1. /\ mpc \in {"end_loop", "sub_loop"} /\ ~MustEnd(t)
      /\ node_incr = t /\ node_incr' = t + 1
      /\ UNCHANGED <<infoVars, localVars, num_running>>
      /\ UNCHANGED <<mpc, all_finished, startNodeId, lastThreadId, isFirst, level, subxact,
                      requestPending, force_end, setting, outcome, got, rescans, nrescan,
                      nsubxact>>
  BY DEF EndSkip, At, infoVars, localVars, sharedVars, histVars
<1>2. Types'
  <2>1. ThreadTypes'
    BY <1>1 DEF IInv, Types, ThreadTypes, infoVars, localVars
  <2>2. MainTypes'
    BY <1>1 DEF IInv, Types, MainTypes, MainPc, Thread, infoVars
  <2> QED
    BY <2>1, <2>2 DEF Types
<1>3. Counted'
  BY <1>1 DEF IInv, Counted, Running, localVars
<1>4. MainInv'
  <2>1. LevelInv'
    BY <1>1 DEF IInv, MainInv, LevelInv
  <2>2. OutcomeInv'
    BY <1>1 DEF IInv, MainInv, OutcomeInv
  <2>3. TopLevel => EofInv'
    BY <1>1 DEF IInv, MainInv, EofInv, Complete, localVars
  <2>4. NoFailure \/ NotThrown => Live'
    BY <1>1 DEF IInv, MainInv
  <2>5. mpc' \in {"sub_wait", "txn"} => requestPending'
    BY <1>1
  <2> QED
    BY <2>1, <2>2, <2>3, <2>4, <2>5 DEF MainInv
<1>5. ASSUME NEW u \in Thread
      PROVE  ThreadInv(u)'
  <2>1. /\ ThreadInv(u) /\ Types /\ MainInv /\ Typed(u)
        /\ node_incr \in 0 .. NThreads /\ u \in 0 .. NThreads - 1
        /\ {rescans[u], nrescan, fdw[u].scan, fdw[u].row, fdw[u].ends} \subseteq Nat
        /\ {tupleQueue[u].len, Len(got[u])} \subseteq Nat
    BY AtThread
  <2>2. Same(u)
    BY <1>1 DEF Same, infoVars, localVars
  <2>3. RescanOrder(u)' /\ WaitInv(u)' /\ StateInv(u)' /\ JoinInv(u)' /\ BegunInv(u)'
    BY <1>1, <2>1, <2>2 DEF ThreadInv, Same, RescanOrder, WaitInv, StateInv, JoinInv, BegunInv,
       MustEnd
  <2>4. RescanInv(u)'
    BY <1>1, <2>1, <2>2 DEF ThreadInv, Same, RescanInv
  <2>5. ~OtherScans => EndAsked(u)' /\ CleanInv(u)'
    BY <1>1, <2>1, <2>2 DEF ThreadInv, Same, EndAsked, CleanInv
  <2>6. Quiet => StreamInv(u)'
    BY <1>1, <2>1, <2>2 DEF ThreadInv, Same, StreamInv, Received, Queued, AtHand, EmptyFirst
  <2>7. TopLevel => FinishInv(u)'
    BY <1>1, <2>1, <2>2 DEF ThreadInv, Same, FinishInv
  <2>8. NoFailure => OnceInv(u)'
    BY <1>1, <2>1, <2>2 DEF ThreadInv, Same, OnceInv
  <2>9. NoRescan => SafeInv(u)'
    BY <1>1, <2>1, <2>2 DEF Same, SafeInv, Live
  <2> QED
    BY <2>3, <2>4, <2>5, <2>6, <2>7, <2>8, <2>9, Parts
<1> QED
  BY <1>2, <1>3, <1>4, <1>5 DEF IInv

(* All are joined, the scan is gone.                                       *)
LEMMA EndOverStep ==
  ASSUME IInv, EndOver
  PROVE  IInv'
<1>1. /\ mpc = "end_loop" /\ mpc' = "done"
      /\ node_incr = NThreads /\ force_end' = FALSE
      /\ UNCHANGED <<infoVars, localVars, num_running>>
      /\ UNCHANGED <<node_incr, all_finished, startNodeId, lastThreadId, isFirst, level,
                      subxact, requestPending, setting, outcome, got, rescans, nrescan,
                      nsubxact>>
  BY DEF EndOver, MainGoto, LoopOver, infoVars, localVars, histVars
<1>2. Types'
  <2>1. ThreadTypes'
    BY <1>1 DEF IInv, Types, ThreadTypes, infoVars, localVars
  <2>2. MainTypes'
    BY <1>1 DEF IInv, Types, MainTypes, MainPc, Thread, infoVars
  <2> QED
    BY <2>1, <2>2 DEF Types
<1>3. Counted'
  BY <1>1 DEF IInv, Counted, Running, localVars
<1>4. MainInv'
  <2>1. LevelInv'
    BY <1>1 DEF IInv, MainInv, LevelInv
  <2>2. OutcomeInv'
    BY <1>1 DEF OutcomeInv
  <2>3. TopLevel => EofInv'
    BY <1>1 DEF IInv, MainInv, EofInv, Complete, localVars
  <2>4. NoFailure \/ NotThrown => Live'
    BY <1>1 DEF IInv, MainInv
  <2>5. mpc' \in {"sub_wait", "txn"} => requestPending'
    BY <1>1
  <2> QED
    BY <2>1, <2>2, <2>3, <2>4, <2>5 DEF MainInv
<1>5. ASSUME NEW u \in Thread
      PROVE  ThreadInv(u)'
  <2>1. /\ ThreadInv(u) /\ Types /\ MainInv /\ Typed(u)
        /\ node_incr \in 0 .. NThreads /\ u \in 0 .. NThreads - 1
        /\ {rescans[u], nrescan, fdw[u].scan, fdw[u].row, fdw[u].ends} \subseteq Nat
        /\ {tupleQueue[u].len, Len(got[u])} \subseteq Nat
    BY AtThread
  <2>2. Same(u)
    BY <1>1 DEF Same, infoVars, localVars
  <2>3. RescanOrder(u)' /\ WaitInv(u)' /\ StateInv(u)' /\ JoinInv(u)' /\ BegunInv(u)'
    BY <1>1, <2>1, <2>2 DEF ThreadInv, Same, RescanOrder, WaitInv, StateInv, JoinInv, BegunInv
  <2>4. RescanInv(u)'
    BY <1>1, <2>1, <2>2 DEF ThreadInv, Same, RescanInv
  <2>5. ~OtherScans => EndAsked(u)' /\ CleanInv(u)'
    BY <1>1, <2>1, <2>2 DEF ThreadInv, Same, EndAsked, CleanInv
  <2>6. Quiet => StreamInv(u)'
    BY <1>1, <2>1, <2>2 DEF ThreadInv, Same, StreamInv, Received, Queued, AtHand, EmptyFirst
  <2>7. TopLevel => FinishInv(u)'
    BY <1>1, <2>1, <2>2 DEF Same, FinishInv
  <2>8. NoFailure => OnceInv(u)'
    BY <1>1, <2>1, <2>2 DEF ThreadInv, Same, OnceInv
  <2>9. NoRescan => SafeInv(u)'
    BY <1>1, <2>1, <2>2 DEF Same, SafeInv, Live
  <2> QED
    BY <2>3, <2>4, <2>5, <2>6, <2>7, <2>8, <2>9, Parts
<1> QED
  BY <1>2, <1>3, <1>4, <1>5 DEF IInv

(* Before a subtransaction the threads are asked to pend.                  *)
LEMMA CallSubStartStep ==
  ASSUME IInv, CallSubStart
  PROVE  IInv'
<1>1. /\ mpc = "idle" /\ mpc' = "sub_wait" /\ node_incr' = 0
      /\ nsubxact < MaxSubXacts /\ nsubxact' = nsubxact + 1
      /\ subxact' = "start" /\ requestPending' = TRUE
      /\ UNCHANGED <<infoVars, localVars, num_running>>
      /\ UNCHANGED <<all_finished, startNodeId, lastThreadId, isFirst, level, force_end,
                      setting, outcome, got, rescans, nrescan>>
  BY DEF CallSubStart, MainGoto, infoVars, localVars, histVars
<1>2. Types'
  <2>1. ThreadTypes'
    BY <1>1 DEF IInv, Types, ThreadTypes, infoVars, localVars
  <2>2. MainTypes'
    BY <1>1 DEF IInv, Types, MainTypes, MainPc, Thread, infoVars
  <2> QED
    BY <2>1, <2>2 DEF Types
<1>3. Counted'
  BY <1>1 DEF IInv, Counted, Running, localVars
<1>4. MainInv'
  <2>1. LevelInv'
    BY <1>1 DEF IInv, Types, MainTypes, MainInv, LevelInv
  <2>2. OutcomeInv'
    BY <1>1 DEF IInv, MainInv, OutcomeInv
  <2>3. TopLevel => EofInv'
    BY <1>1 DEF IInv, MainInv, EofInv, Complete, localVars
  <2>4. NoFailure \/ NotThrown => Live'
    BY <1>1 DEF IInv, MainInv
  <2>5. mpc' \in {"sub_wait", "txn"} => requestPending'
    BY <1>1
  <2> QED
    BY <2>1, <2>2, <2>3, <2>4, <2>5 DEF MainInv
<1>5. ASSUME NEW u \in Thread
      PROVE  ThreadInv(u)'
  <2>1. /\ ThreadInv(u) /\ Types /\ MainInv /\ Typed(u)
        /\ node_incr \in 0 .. NThreads /\ u \in 0 .. NThreads - 1
        /\ {rescans[u], nrescan, fdw[u].scan, fdw[u].row, fdw[u].ends} \subseteq Nat
        /\ {tupleQueue[u].len, Len(got[u])} \subseteq Nat
    BY AtThread
  <2>2. Same(u)
    BY <1>1 DEF Same, infoVars, localVars
  <2>3. RescanOrder(u)' /\ WaitInv(u)' /\ StateInv(u)' /\ JoinInv(u)' /\ BegunInv(u)'
    BY <1>1, <2>1, <2>2 DEF ThreadInv, Same, RescanOrder, WaitInv, StateInv, JoinInv, BegunInv
  <2>4. RescanInv(u)'
    BY <1>1, <2>1, <2>2 DEF ThreadInv, Same, RescanInv
  <2>5. ~OtherScans => EndAsked(u)' /\ CleanInv(u)'
    BY <1>1, <2>1, <2>2 DEF ThreadInv, Same, EndAsked, CleanInv
  <2>6. Quiet => StreamInv(u)'
    BY <1>1, <2>1, <2>2 DEF ThreadInv, Same, StreamInv, Received, Queued, AtHand, EmptyFirst
  <2>7. TopLevel => FinishInv(u)'
    BY <1>1, <2>1, <2>2 DEF ThreadInv, Same, FinishInv
  <2>8. NoFailure => OnceInv(u)'
    BY <1>1, <2>1, <2>2 DEF ThreadInv, Same, OnceInv
  <2>9. NoRescan => SafeInv(u)'
    BY <1>1, <2>1, <2>2 DEF Same, SafeInv, Live
  <2> QED
    BY <2>3, <2>4, <2>5, <2>6, <2>7, <2>8, <2>9, Parts
<1> QED
  BY <1>2, <1>3, <1>4, <1>5 DEF IInv

(* A thread is found safe.                                                 *)
LEMMA SubSafeStep ==
  ASSUME NEW t \in Thread, IInv, SubSafe(t)
  PROVE  IInv'
<1>1. /\ mpc = "sub_wait" /\ mpc' = (IF t = NThreads - 1 THEN "txn" ELSE "sub_wait")
      /\ node_incr = t /\ node_incr' = t + 1 /\ ~AtWork(t)
      /\ UNCHANGED <<infoVars, localVars, num_running>>
      /\ UNCHANGED <<all_finished, startNodeId, lastThreadId, isFirst, level, subxact,
                      requestPending, force_end, setting, outcome, got, rescans, nrescan,
                      nsubxact>>
  BY DEF SubSafe, At, infoVars, localVars, sharedVars, histVars
<1>2. Types'
  <2>1. ThreadTypes'
    BY <1>1 DEF IInv, Types, ThreadTypes, infoVars, localVars
  <2>2. MainTypes'
    BY <1>1 DEF IInv, Types, MainTypes, MainPc, Thread, infoVars
  <2> QED
    BY <2>1, <2>2 DEF Types
<1>3. Counted'
  BY <1>1 DEF IInv, Counted, Running, localVars
<1>4. MainInv'
  <2>1. LevelInv'
    BY <1>1 DEF IInv, MainInv, LevelInv
  <2>2. OutcomeInv'
    BY <1>1 DEF IInv, MainInv, OutcomeInv
  <2>3. TopLevel => EofInv'
    BY <1>1 DEF IInv, MainInv, EofInv, Complete, localVars
  <2>4. NoFailure \/ NotThrown => Live'
    BY <1>1 DEF IInv, MainInv
  <2>5. mpc' \in {"sub_wait", "txn"} => requestPending'
    BY <1>1 DEF IInv, MainInv
  <2> QED
    BY <2>1, <2>2, <2>3, <2>4, <2>5 DEF MainInv
<1>5. ASSUME NEW u \in Thread
      PROVE  ThreadInv(u)'
  <2>1. /\ ThreadInv(u) /\ Types /\ MainInv /\ Typed(u)
        /\ node_incr \in 0 .. NThreads /\ u \in 0 .. NThreads - 1
        /\ {rescans[u], nrescan, fdw[u].scan, fdw[u].row, fdw[u].ends} \subseteq Nat
        /\ {tupleQueue[u].len, Len(got[u])} \subseteq Nat
    BY AtThread
  <2>2. Same(u)
    BY <1>1 DEF Same, infoVars, localVars
  <2>3. RescanOrder(u)' /\ WaitInv(u)' /\ StateInv(u)' /\ JoinInv(u)' /\ BegunInv(u)'
    BY <1>1, <2>1, <2>2 DEF ThreadInv, Same, RescanOrder, WaitInv, StateInv, JoinInv, BegunInv
  <2>4. RescanInv(u)'
    BY <1>1, <2>1, <2>2 DEF ThreadInv, Same, RescanInv
  <2>5. ~OtherScans => EndAsked(u)' /\ CleanInv(u)'
    BY <1>1, <2>1, <2>2 DEF ThreadInv, Same, EndAsked, CleanInv
  <2>6. Quiet => StreamInv(u)'
    BY <1>1, <2>1, <2>2 DEF ThreadInv, Same, StreamInv, Received, Queued, AtHand, EmptyFirst
  <2>7. TopLevel => FinishInv(u)'
    BY <1>1, <2>1, <2>2 DEF ThreadInv, Same, FinishInv
  <2>8. NoFailure => OnceInv(u)'
    BY <1>1, <2>1, <2>2 DEF ThreadInv, Same, OnceInv
  <2>9. NoRescan => SafeInv(u)'
    BY <1>1, <2>1, <2>2 DEF ThreadInv, Same, SafeInv, Live
  <2> QED
    BY <2>3, <2>4, <2>5, <2>6, <2>7, <2>8, <2>9, Parts
<1> QED
  BY <1>2, <1>3, <1>4, <1>5 DEF IInv

(* The subtransaction has started, the threads are woken up.               *)
LEMMA SubStartedStep ==
  ASSUME IInv, SubStarted
  PROVE  IInv'
<1>1. /\ mpc = "txn" /\ mpc' = "idle"
      /\ subxact = "start" /\ subxact' = "none"
      /\ level' = level + 1 /\ requestPending' \in BOOLEAN
      /\ UNCHANGED <<infoVars, localVars, num_running>>
      /\ UNCHANGED <<node_incr, all_finished, startNodeId, lastThreadId, isFirst, force_end,
                      setting, outcome, got, rescans, nrescan, nsubxact>>
  BY DEF SubStarted, MainGoto, infoVars, localVars, histVars
<1>2. Types'
  <2>1. ThreadTypes'
    BY <1>1 DEF IInv, Types, ThreadTypes, infoVars, localVars
  <2>2. MainTypes'
    BY <1>1 DEF IInv, Types, MainTypes, MainPc, Thread, infoVars
  <2> QED
    BY <2>1, <2>2 DEF Types
<1>3. Counted'
  BY <1>1 DEF IInv, Counted, Running, localVars
<1>4. MainInv'
  <2>1. LevelInv'
    BY <1>1 DEF IInv, Types, MainTypes, MainInv, LevelInv
  <2>2. OutcomeInv'
    BY <1>1 DEF IInv, MainInv, OutcomeInv
  <2>3. TopLevel => EofInv'
    BY <1>1 DEF IInv, MainInv, EofInv, Complete, localVars
  <2>4. NoFailure \/ NotThrown => Live'
    BY <1>1 DEF IInv, MainInv
  <2>5. mpc' \in {"sub_wait", "txn"} => requestPending'
    BY <1>1
  <2> QED
    BY <2>1, <2>2, <2>3, <2>4, <2>5 DEF MainInv
<1>5. ASSUME NEW u \in Thread
      PROVE  ThreadInv(u)'
  <2>1. /\ ThreadInv(u) /\ Types /\ MainInv /\ Typed(u)
        /\ node_incr \in 0 .. NThreads /\ u \in 0 .. NThreads - 1
        /\ {rescans[u], nrescan, fdw[u].scan, fdw[u].row, fdw[u].ends} \subseteq Nat
        /\ {tupleQueue[u].len, Len(got[u])} \subseteq Nat
    BY AtThread
  <2>2. Same(u)
    BY <1>1 DEF Same, infoVars, localVars
  <2>3. RescanOrder(u)' /\ WaitInv(u)' /\ StateInv(u)' /\ JoinInv(u)' /\ BegunInv(u)'
    BY <1>1, <2>1, <2>2 DEF ThreadInv, Same, RescanOrder, WaitInv, StateInv, JoinInv, BegunInv
  <2>4. RescanInv(u)'
    BY <1>1, <2>1, <2>2 DEF ThreadInv, Same, RescanInv
  <2>5. ~OtherScans => EndAsked(u)' /\ CleanInv(u)'
    BY <1>1, <2>1, <2>2 DEF ThreadInv, Same, EndAsked, CleanInv
  <2>6. Quiet => StreamInv(u)'
    BY <1>1, <2>1, <2>2 DEF ThreadInv, Same, StreamInv, Received, Queued, AtHand, EmptyFirst
  <2>7. TopLevel => FinishInv(u)'
    BY <1>1, <2>1, <2>2 DEF ThreadInv, Same, FinishInv
  <2>8. NoFailure => OnceInv(u)'
    BY <1>1, <2>1, <2>2 DEF ThreadInv, Same, OnceInv
  <2>9. NoRescan => SafeInv(u)'
    BY <1>1, <2>1, <2>2 DEF Same, SafeInv, Live
  <2> QED
    BY <2>3, <2>4, <2>5, <2>6, <2>7, <2>8, <2>9, Parts
<1> QED
  BY <1>2, <1>3, <1>4, <1>5 DEF IInv

(* The end of a subtransaction begins.                                     *)
LEMMA CallSubEndStep ==
  ASSUME IInv, CallSubEnd
  PROVE  IInv'
<1>1. /\ mpc = "idle" /\ mpc' = "sub_end" /\ level > 1
      /\ subxact' \in {"commit", "abort"}
      /\ UNCHANGED <<infoVars, localVars, num_running>>
      /\ UNCHANGED <<node_incr, all_finished, startNodeId, lastThreadId, isFirst, level,
                      requestPending, force_end, setting, outcome, got, rescans, nrescan,
                      nsubxact>>
  BY DEF CallSubEnd, MainGoto, infoVars, localVars, sharedVars, histVars
<1>2. Types'
  <2>1. ThreadTypes'
    BY <1>1 DEF IInv, Types, ThreadTypes, infoVars, localVars
  <2>2. MainTypes'
    BY <1>1 DEF IInv, Types, MainTypes, MainPc, Thread, infoVars
  <2> QED
    BY <2>1, <2>2 DEF Types
<1>3. Counted'
  BY <1>1 DEF IInv, Counted, Running, localVars
<1>4. MainInv'
  <2>1. LevelInv'
    BY <1>1 DEF IInv, MainInv, LevelInv
  <2>2. OutcomeInv'
    BY <1>1 DEF IInv, MainInv, OutcomeInv
  <2>3. TopLevel => EofInv'
    BY <1>1 DEF IInv, MainInv, EofInv, Complete, localVars
  <2>4. NoFailure \/ NotThrown => Live'
    BY <1>1 DEF IInv, MainInv
  <2>5. mpc' \in {"sub_wait", "txn"} => requestPending'
    BY <1>1
  <2> QED
    BY <2>1, <2>2, <2>3, <2>4, <2>5 DEF MainInv
<1>5. ASSUME NEW u \in Thread
      PROVE  ThreadInv(u)'
  <2>1. /\ ThreadInv(u) /\ Types /\ MainInv /\ Typed(u)
        /\ node_incr \in 0 .. NThreads /\ u \in 0 .. NThreads - 1
        /\ {rescans[u], nrescan, fdw[u].scan, fdw[u].row, fdw[u].ends} \subseteq Nat
        /\ {tupleQueue[u].len, Len(got[u])} \subseteq Nat
    BY AtThread
  <2>2. Same(u)
    BY <1>1 DEF Same, infoVars, localVars
  <2>3. RescanOrder(u)' /\ WaitInv(u)' /\ StateInv(u)' /\ JoinInv(u)' /\ BegunInv(u)'
    BY <1>1, <2>1, <2>2 DEF ThreadInv, Same, RescanOrder, WaitInv, StateInv, JoinInv, BegunInv
  <2>4. RescanInv(u)'
    BY <1>1, <2>1, <2>2 DEF ThreadInv, Same, RescanInv
  <2>5. ~OtherScans => EndAsked(u)' /\ CleanInv(u)'
    BY <1>1, <2>1, <2>2 DEF ThreadInv, Same, EndAsked, CleanInv
  <2>6. Quiet => StreamInv(u)'
    BY <1>1, <2>1, <2>2 DEF ThreadInv, Same, StreamInv, Received, Queued, AtHand, EmptyFirst
  <2>7. TopLevel => FinishInv(u)'
    BY <1>1, <2>1, <2>2 DEF ThreadInv, Same, FinishInv
  <2>8. NoFailure => OnceInv(u)'
    BY <1>1, <2>1, <2>2 DEF ThreadInv, Same, OnceInv
  <2>9. NoRescan => SafeInv(u)'
    BY <1>1, <2>1, <2>2 DEF Same, SafeInv, Live
  <2> QED
    BY <2>3, <2>4, <2>5, <2>6, <2>7, <2>8, <2>9, Parts
<1> QED
  BY <1>2, <1>3, <1>4, <1>5 DEF IInv

(* The threads are woken up to be ended.                                   *)
LEMMA SubWakeUpStep ==
  ASSUME IInv, SubWakeUp
  PROVE  IInv'
<1>1. /\ mpc = "sub_end" /\ mpc' = "sub_loop"
      /\ node_incr' = 0 /\ requestPending' \in BOOLEAN
      /\ UNCHANGED <<infoVars, localVars, num_running>>
      /\ UNCHANGED <<all_finished, startNodeId, lastThreadId, isFirst, level, subxact,
                      force_end, setting, outcome, got, rescans, nrescan, nsubxact>>
  BY DEF SubWakeUp, MainGoto, infoVars, localVars, histVars
<1>2. Types'
  <2>1. ThreadTypes'
    BY <1>1 DEF IInv, Types, ThreadTypes, infoVars, localVars
  <2>2. MainTypes'
    BY <1>1 DEF IInv, Types, MainTypes, MainPc, Thread, infoVars
  <2> QED
    BY <2>1, <2>2 DEF Types
<1>3. Counted'
  BY <1>1 DEF IInv, Counted, Running, localVars
<1>4. MainInv'
  <2>1. LevelInv'
    BY <1>1 DEF IInv, MainInv, LevelInv
  <2>2. OutcomeInv'
    BY <1>1 DEF IInv, MainInv, OutcomeInv
  <2>3. TopLevel => EofInv'
    BY <1>1 DEF IInv, MainInv, EofInv, Complete, localVars
  <2>4. NoFailure \/ NotThrown => Live'
    BY <1>1 DEF IInv, MainInv
  <2>5. mpc' \in {"sub_wait", "txn"} => requestPending'
    BY <1>1
  <2> QED
    BY <2>1, <2>2, <2>3, <2>4, <2>5 DEF MainInv
<1>5. ASSUME NEW u \in Thread
      PROVE  ThreadInv(u)'
  <2>1. /\ ThreadInv(u) /\ Types /\ MainInv /\ Typed(u)
        /\ node_incr \in 0 .. NThreads /\ u \in 0 .. NThreads - 1
        /\ {rescans[u], nrescan, fdw[u].scan, fdw[u].row, fdw[u].ends} \subseteq Nat
        /\ {tupleQueue[u].len, Len(got[u])} \subseteq Nat
    BY AtThread
  <2>2. Same(u)
    BY <1>1 DEF Same, infoVars, localVars
  <2>3. RescanOrder(u)' /\ WaitInv(u)' /\ StateInv(u)' /\ JoinInv(u)' /\ BegunInv(u)'
    BY <1>1, <2>1, <2>2 DEF ThreadInv, Same, RescanOrder, WaitInv, StateInv, JoinInv, BegunInv
  <2>4. RescanInv(u)'
    BY <1>1, <2>1, <2>2 DEF ThreadInv, Same, RescanInv
  <2>5. ~OtherScans => EndAsked(u)' /\ CleanInv(u)'
    BY <1>1, <2>1, <2>2 DEF ThreadInv, Same, EndAsked, CleanInv
  <2>6. Quiet => StreamInv(u)'
    BY <1>1, <2>1, <2>2 DEF ThreadInv, Same, StreamInv, Received, Queued, AtHand, EmptyFirst
  <2>7. TopLevel => FinishInv(u)'
    BY <1>1, <2>1, <2>2 DEF ThreadInv, Same, FinishInv
  <2>8. NoFailure => OnceInv(u)'
    BY <1>1, <2>1, <2>2 DEF ThreadInv, Same, OnceInv
  <2>9. NoRescan => SafeInv(u)'
    BY <1>1, <2>1, <2>2 DEF Same, SafeInv, Live
  <2> QED
    BY <2>3, <2>4, <2>5, <2>6, <2>7, <2>8, <2>9, Parts
<1> QED
  BY <1>2, <1>3, <1>4, <1>5 DEF IInv

(* Those that are left are pended again.                                   *)
LEMMA SubPendStep ==
  ASSUME IInv, SubPend
  PROVE  IInv'
<1>1. /\ mpc = "sub_loop" /\ mpc' = "sub_wait"
      /\ node_incr = NThreads /\ node_incr' = 0 /\ requestPending' = TRUE
      /\ UNCHANGED <<infoVars, localVars, num_running>>
      /\ UNCHANGED <<all_finished, startNodeId, lastThreadId, isFirst, level, subxact,
                      force_end, setting, outcome, got, rescans, nrescan, nsubxact>>
  BY DEF SubPend, MainGoto, LoopOver, infoVars, localVars, histVars
<1>2. Types'
  <2>1. ThreadTypes'
    BY <1>1 DEF IInv, Types, ThreadTypes, infoVars, localVars
  <2>2. MainTypes'
    BY <1>1 DEF IInv, Types, MainTypes, MainPc, Thread, infoVars
  <2> QED
    BY <2>1, <2>2 DEF Types
<1>3. Counted'
  BY <1>1 DEF IInv, Counted, Running, localVars
<1>4. MainInv'
  <2>1. LevelInv'
    BY <1>1 DEF IInv, MainInv, LevelInv
  <2>2. OutcomeInv'
    BY <1>1 DEF IInv, MainInv, OutcomeInv
  <2>3. TopLevel => EofInv'
    BY <1>1 DEF IInv, MainInv, EofInv, Complete, localVars
  <2>4. NoFailure \/ NotThrown => Live'
    BY <1>1 DEF IInv, MainInv
  <2>5. mpc' \in {"sub_wait", "txn"} => requestPending'
    BY <1>1
  <2> QED
    BY <2>1, <2>2, <2>3, <2>4, <2>5 DEF MainInv
<1>5. ASSUME NEW u \in Thread
      PROVE  ThreadInv(u)'
  <2>1. /\ ThreadInv(u) /\ Types /\ MainInv /\ Typed(u)
        /\ node_incr \in 0 .. NThreads /\ u \in 0 .. NThreads - 1
        /\ {rescans[u], nrescan, fdw[u].scan, fdw[u].row, fdw[u].ends} \subseteq Nat
        /\ {tupleQueue[u].len, Len(got[u])} \subseteq Nat
    BY AtThread
  <2>2. Same(u)
    BY <1>1 DEF Same, infoVars, localVars
  <2>3. RescanOrder(u)' /\ WaitInv(u)' /\ StateInv(u)' /\ JoinInv(u)' /\ BegunInv(u)'
    BY <1>1, <2>1, <2>2 DEF ThreadInv, Same, RescanOrder, WaitInv, StateInv, JoinInv, BegunInv
  <2>4. RescanInv(u)'
    BY <1>1, <2>1, <2>2 DEF ThreadInv, Same, RescanInv
  <2>5. ~OtherScans => EndAsked(u)' /\ CleanInv(u)'
    BY <1>1, <2>1, <2>2 DEF ThreadInv, Same, EndAsked, CleanInv
  <2>6. Quiet => StreamInv(u)'
    BY <1>1, <2>1, <2>2 DEF ThreadInv, Same, StreamInv, Received, Queued, AtHand, EmptyFirst
  <2>7. TopLevel => FinishInv(u)'
    BY <1>1, <2>1, <2>2 DEF ThreadInv, Same, FinishInv
  <2>8. NoFailure => OnceInv(u)'
    BY <1>1, <2>1, <2>2 DEF ThreadInv, Same, OnceInv
  <2>9. NoRescan => SafeInv(u)'
    BY <1>1, <2>1, <2>2 DEF Same, SafeInv, Live
  <2> QED
    BY <2>3, <2>4, <2>5, <2>6, <2>7, <2>8, <2>9, Parts
<1> QED
  BY <1>2, <1>3, <1>4, <1>5 DEF IInv

(* The subtransaction has ended, and with an abort the scans started in    *)
(* it.                                                                     *)
LEMMA SubEndedStep ==
  ASSUME IInv, SubEnded
  PROVE  IInv'
<1>1. /\ mpc = "txn" /\ subxact # "start" /\ subxact' = "none"
      /\ mpc' = (IF subxact = "abort" /\ ScanLevel >= level THEN "done" ELSE "idle")
      /\ level' = level - 1
      /\ force_end' \in BOOLEAN /\ (force_end' => force_end)
      /\ UNCHANGED <<infoVars, localVars, num_running>>
      /\ UNCHANGED <<node_incr, all_finished, startNodeId, lastThreadId, isFirst,
                      requestPending, setting, outcome, got, rescans, nrescan, nsubxact>>
  BY DEF SubEnded, infoVars, localVars, histVars
<1>2. Types'
  <2>1. ThreadTypes'
    BY <1>1 DEF IInv, Types, ThreadTypes, infoVars, localVars
  <2>2. MainTypes'
    BY <1>1 DEF IInv, Types, MainTypes, MainPc, Thread, infoVars, MainInv, LevelInv
  <2> QED
    BY <2>1, <2>2 DEF Types
<1>3. Counted'
  BY <1>1 DEF IInv, Counted, Running, localVars
<1>4. MainInv'
  <2>1. LevelInv'
    BY <1>1 DEF IInv, Types, MainTypes, MainInv, LevelInv
  <2>2. OutcomeInv'
    BY <1>1 DEF IInv, MainInv, OutcomeInv
  <2>3. TopLevel => EofInv'
    BY <1>1 DEF IInv, MainInv, EofInv, Complete, localVars
  <2>4. NoFailure \/ NotThrown => Live'
    BY <1>1 DEF IInv, MainInv
  <2>5. mpc' \in {"sub_wait", "txn"} => requestPending'
    BY <1>1
  <2> QED
    BY <2>1, <2>2, <2>3, <2>4, <2>5 DEF MainInv
<1>5. ASSUME NEW u \in Thread
      PROVE  ThreadInv(u)'
  <2>1. /\ ThreadInv(u) /\ Types /\ MainInv /\ Typed(u)
        /\ node_incr \in 0 .. NThreads /\ u \in 0 .. NThreads - 1
        /\ {rescans[u], nrescan, fdw[u].scan, fdw[u].row, fdw[u].ends} \subseteq Nat
        /\ {tupleQueue[u].len, Len(got[u])} \subseteq Nat
    BY AtThread
  <2>2. Same(u)
    BY <1>1 DEF Same, infoVars, localVars
  <2>3. RescanOrder(u)' /\ WaitInv(u)' /\ StateInv(u)' /\ JoinInv(u)' /\ BegunInv(u)'
    BY <1>1, <2>1, <2>2 DEF ThreadInv, Same, RescanOrder, WaitInv, StateInv, JoinInv, BegunInv
  <2>4. RescanInv(u)'
    BY <1>1, <2>1, <2>2 DEF ThreadInv, Same, RescanInv
  <2>5. ~OtherScans => EndAsked(u)' /\ CleanInv(u)'
    BY <1>1, <2>1, <2>2 DEF ThreadInv, Same, EndAsked, CleanInv
  <2>6. Quiet => StreamInv(u)'
    BY <1>1, <2>1, <2>2 DEF ThreadInv, Same, StreamInv, Received, Queued, AtHand, EmptyFirst
  <2>7. TopLevel => FinishInv(u)'
    BY <1>1, <2>1, <2>2 DEF ThreadInv, Same, FinishInv
  <2>8. NoFailure => OnceInv(u)'
    BY <1>1, <2>1, <2>2 DEF ThreadInv, Same, OnceInv, MainInv, LevelInv, Types, MainTypes
  <2>9. NoRescan => SafeInv(u)'
    BY <1>1, <2>1, <2>2 DEF Same, SafeInv, Live
  <2> QED
    BY <2>3, <2>4, <2>5, <2>6, <2>7, <2>8, <2>9, Parts
<1> QED
  BY <1>2, <1>3, <1>4, <1>5 DEF IInv

(* Another scan throws an error and forces all threads of the backend to   *)
(* end.                                                                    *)
LEMMA OtherScanFailsStep ==
  ASSUME IInv, OtherScanFails
  PROVE  IInv'
<1>1. /\ OtherScans /\ mpc = "idle" /\ mpc' = "sub_end"
      /\ level > ScanLevel /\ force_end' = TRUE /\ subxact' = "abort"
      /\ UNCHANGED <<infoVars, localVars, num_running>>
      /\ UNCHANGED <<node_incr, all_finished, startNodeId, lastThreadId, isFirst, level,
                      requestPending, setting, outcome, got, rescans, nrescan, nsubxact>>
  BY DEF OtherScanFails, MainGoto, infoVars, localVars, histVars
<1>2. Types'
  <2>1. ThreadTypes'
    BY <1>1 DEF IInv, Types, ThreadTypes, infoVars, localVars
  <2>2. MainTypes'
    BY <1>1 DEF IInv, Types, MainTypes, MainPc, Thread, infoVars
  <2> QED
    BY <2>1, <2>2 DEF Types
<1>3. Counted'
  BY <1>1 DEF IInv, Counted, Running, localVars
<1>4. MainInv'
  <2>1. LevelInv'
    BY <1>1 DEF IInv, Types, MainTypes, MainInv, LevelInv
  <2>2. OutcomeInv'
    BY <1>1 DEF OutcomeInv
  <2>3. TopLevel => EofInv'
    BY <1>1 DEF IInv, MainInv, EofInv, Complete, localVars
  <2>4. NoFailure \/ NotThrown => Live'
    BY <1>1 DEF IInv, MainInv
  <2>5. mpc' \in {"sub_wait", "txn"} => requestPending'
    BY <1>1
  <2> QED
    BY <2>1, <2>2, <2>3, <2>4, <2>5 DEF MainInv
<1>5. ASSUME NEW u \in Thread
      PROVE  ThreadInv(u)'
  <2>1. /\ ThreadInv(u) /\ Types /\ MainInv /\ Typed(u)
        /\ node_incr \in 0 .. NThreads /\ u \in 0 .. NThreads - 1
        /\ {rescans[u], nrescan, fdw[u].scan, fdw[u].row, fdw[u].ends} \subseteq Nat
        /\ {tupleQueue[u].len, Len(got[u])} \subseteq Nat
    BY AtThread
  <2>2. Same(u)
    BY <1>1 DEF Same, infoVars, localVars
  <2>3. RescanOrder(u)' /\ WaitInv(u)' /\ StateInv(u)' /\ JoinInv(u)' /\ BegunInv(u)'
    BY <1>1, <2>1, <2>2 DEF ThreadInv, Same, RescanOrder, WaitInv, StateInv, JoinInv, BegunInv
  <2>4. RescanInv(u)'
    BY <1>1, <2>1, <2>2 DEF ThreadInv, Same, RescanInv
  <2>5. ~OtherScans => EndAsked(u)' /\ CleanInv(u)'
    BY <1>1, <2>1, <2>2 DEF Same, EndAsked, CleanInv
  <2>6. Quiet => StreamInv(u)'
    BY <1>1, <2>1, <2>2 DEF ThreadInv, Same, StreamInv, Received, Queued, AtHand, EmptyFirst
  <2>7. TopLevel => FinishInv(u)'
    BY <1>1, <2>1, <2>2 DEF ThreadInv, Same, FinishInv
  <2>8. NoFailure => OnceInv(u)'
    BY <1>1, <2>1, <2>2 DEF ThreadInv, Same, OnceInv
  <2>9. NoRescan => SafeInv(u)'
    BY <1>1, <2>1, <2>2 DEF Same, SafeInv, Live
  <2> QED
    BY <2>3, <2>4, <2>5, <2>6, <2>7, <2>8, <2>9, Parts
<1> QED
  BY <1>2, <1>3, <1>4, <1>5 DEF IInv

-----------------------------------------------------------------------------
(* The invariant holds.                                                    *)

(* The threads have been created and nothing has happened yet.             *)
LEMMA InitIInv ==
  ASSUME Init
  PROVE  IInv
<1>1. QueueInit \in TupleQueue(Tuple) /\ QueueInit.len = 0 /\ QueueInit.queue_state = "OK"
  <2>1. 0 \in SlotIdx /\ 0 \in 0 .. QueueLen
    BY DEF SlotIdx
  <2> QED
    BY <2>1 DEF QueueInit, TupleQueue, SpdQueueState
<1>2. ThreadTypes
  <2>1. fdw \in [Thread -> Fdw]
    BY DEF Init, Fdw
  <2> QED
    BY <1>1, <2>1 DEF Init, ThreadTypes, ThreadState, ChildPc
<1>3. MainTypes
  <2>1. got \in [Thread -> Seq(Tuple \cup {NoTuple})]
    BY DEF Init
  <2>2. /\ requestStartScan \in [Thread -> BOOLEAN] /\ is_joined \in [Thread -> BOOLEAN]
        /\ requestPending \in BOOLEAN /\ all_finished \in BOOLEAN /\ isFirst \in BOOLEAN
    BY DEF Init
  <2>3. /\ mpc \in MainPc /\ node_incr \in 0 .. NThreads /\ startNodeId \in 0 .. NThreads
        /\ lastThreadId \in Thread \cup {-1} /\ level \in Nat
        /\ subxact \in {"none", "start", "commit", "abort"} /\ setting \in Settings
        /\ outcome \in {"open", "eof", "failed"} /\ rescans \in [Thread -> 0 .. MaxReScans]
        /\ nrescan \in 0 .. MaxReScans /\ nsubxact \in 0 .. MaxSubXacts
    BY DEF Init, MainPc
  <2> QED
    BY <2>1, <2>2, <2>3 DEF MainTypes
<1>4. Counted
  <2>1. Running = {}
    BY DEF Init, Running
  <2> QED
    BY <2>1, FS_EmptySet DEF Counted, Init
<1>5. MainInv
  BY DEF Init, MainInv, LevelInv, OutcomeInv, EofInv
<1>6. ASSUME NEW t \in Thread
      PROVE  ThreadInv(t)
  <2>1. /\ cpc[t] = "created" /\ state[t] = "INIT" /\ old_state[t] = "INIT"
        /\ ~requestRescan[t] /\ ~requestEndScan[t] /\ ~is_joined[t]
        /\ tupleQueue[t].len = 0 /\ tupleQueue[t].queue_state = "OK"
        /\ fdw[t].ends = 0 /\ fdw[t].scan = 0 /\ fdw[t].row = 0 /\ ~fdw[t].failed
        /\ Len(got[t]) = 0 /\ rescans[t] = 0 /\ nrescan = 0
        /\ mpc = "create" /\ outcome = "open"
    BY <1>1 DEF Init
  <2>2. RescanOrder(t) /\ WaitInv(t) /\ StateInv(t) /\ JoinInv(t) /\ BegunInv(t) /\ RescanInv(t)
    BY <2>1 DEF RescanOrder, WaitInv, StateInv, JoinInv, BegunInv, RescanInv
  <2>3. EndAsked(t) /\ CleanInv(t) /\ FinishInv(t) /\ OnceInv(t) /\ SafeInv(t)
    BY <2>1 DEF EndAsked, CleanInv, FinishInv, OnceInv, SafeInv
  <2>4. StreamInv(t)
    BY <2>1 DEF StreamInv, Received, Queued, AtHand, EmptyFirst, Fresh, Holding
  <2> QED
    BY <2>2, <2>3, <2>4 DEF ThreadInv
<1> QED
  BY <1>2, <1>3, <1>4, <1>5, <1>6 DEF IInv, Types

(* Nothing is lost when nothing happens.                                   *)
LEMMA StutterIInv ==
  ASSUME IInv, UNCHANGED vars
  PROVE  IInv'
<1> USE DEF vars, infoVars, localVars, sharedVars, mainVars, histVars
<1>1. Types' /\ Counted'
  BY DEF IInv, Types, ThreadTypes, MainTypes, Counted, Running
<1>2. MainInv'
  BY DEF IInv, MainInv, LevelInv, OutcomeInv, EofInv, Complete, TopLevel, NoFailure, NotThrown
<1>3. \A t \in Thread : ThreadInv(t)'
  BY SameThread DEF IInv, Same
<1> QED
  BY <1>1, <1>2, <1>3 DEF IInv

(* Every step keeps the invariant.                                         *)
LEMMA NextIInv ==
  ASSUME IInv, [Next]_vars
  PROVE  IInv'
<1>1. CASE Ask
  BY <1>1, CallIterateStep, CallReScanStep, CallEndStep, CallSubStartStep, CallSubEndStep,
     OtherScanFailsStep DEF Ask
<1>2. CASE Serve
  <2>1. CASE NextRound
    BY <2>1, LastRoundStep, NextRoundStep
  <2>2. CASE CreateDone \/ ThrowError \/ ReScanWait \/ EndWakeUp \/ EndOver
    BY <2>2, CreateDoneStep, ThrowErrorStep, ReScanWaitStep, EndWakeUpStep, EndOverStep
  <2>3. CASE SubStarted \/ SubWakeUp \/ SubPend \/ SubEnded
    BY <2>3, SubStartedStep, SubWakeUpStep, SubPendStep, SubEndedStep
  <2>4. ASSUME NEW t \in Thread,
               \/ NextTuple(t) \/ NextEmpty(t) \/ NextError(t) \/ NotifyThread(t)
               \/ ReScanAsk(t) \/ ReScanStart(t) \/ ReScanSeen(t)
               \/ EndRequest(t) \/ EndJoin(t) \/ EndSkip(t) \/ SubSafe(t)
        PROVE  IInv'
    BY <2>4, NextTupleStep, NextEmptyStep, NextErrorStep, NotifyThreadStep, ReScanAskStep,
       ReScanSkipStep, ReScanStartStep, ReScanSeenStep, EndRequestStep, EndJoinStep,
       EndSkipStep, SubSafeStep
  <2> QED
    BY <1>2, <2>1, <2>2, <2>3, <2>4 DEF Serve
<1>3. CASE Done \/ UNCHANGED vars
  BY <1>3, StutterIInv DEF Done
<1>4. ASSUME NEW t \in Thread, Child(t)
      PROVE  IInv'
  BY <1>4, ChildStep
<1> QED
  BY <1>1, <1>2, <1>3, <1>4 DEF Next

(* What the main thread and the threads of a scan keep true together, with *)
(* any number of children, rows, failures, rescans and subtransactions.    *)
THEOREM Invariance == Spec => []IInv
<1>1. Init => IInv
  BY InitIInv
<1>2. IInv /\ [Next]_vars => IInv'
  BY NextIInv
<1> QED
  BY <1>1, <1>2, PTL DEF Spec

-----------------------------------------------------------------------------
(* What follows for the scan.                                              *)

(* spd_ForeignScan_thread and its callers keep to their types: states,     *)
(* requests and queues of the threads, the count of the running threads,   *)
(* and the main thread's indexes into the arrays of threads.               *)
THEOREM TypeCorrect == Spec => []TypeOK
<1>1. ASSUME IInv
      PROVE  TypeOK
  <2>1. num_running \in 0 .. NThreads
    <3>1. IsFiniteSet(Thread) /\ Cardinality(Thread) = NThreads /\ Running \subseteq Thread
      BY FS_Interval DEF Thread, Running
    <3>2. Cardinality(Running) \in Nat /\ Cardinality(Running) <= NThreads
      BY <3>1, FS_Subset, FS_CardinalityType
    <3> QED
      BY <1>1, <3>2 DEF IInv, Counted
  <2>2. level \in 1 .. ScanLevel + MaxSubXacts
    BY <1>1 DEF IInv, Types, MainTypes, MainInv, LevelInv
  <2>3. \A t \in Thread : rescans[t] <= nrescan
    BY <1>1 DEF IInv, ThreadInv, RescanOrder
  <2>4. \A t \in Thread :
          LET q == tupleQueue[t]
          IN /\ q.start \in SlotIdx /\ q.len \in 0 .. QueueLen
             /\ q.queue_state \in SpdQueueState /\ q.main_process_idx \in SlotIdx \cup {-1}
             /\ \A i \in SlotIdx : q.tuples[i] \in Tuple \cup {NoTuple}
    BY <1>1 DEF IInv, Types, ThreadTypes, TupleQueue
  <2> QED
    BY <1>1, <2>1, <2>2, <2>3, <2>4 DEF IInv, Types, ThreadTypes, MainTypes, TypeOK
<1> QED
  BY <1>1, Invariance, PTL

(* A sequence is what it has at its places.                                *)
LEMMA AsFunction ==
  ASSUME NEW S, NEW s \in Seq(S), NEW r, \A k \in 1 .. Len(s) : s[k] = <<r, k>>
  PROVE  s = [k \in 1 .. Len(s) |-> <<r, k>>]
<1>1. s \in [1 .. Len(s) -> S]
  OBVIOUS
<1> QED
  BY <1>1

(* Since the last rescan the tuples of every child that has done it have   *)
(* arrived in order, each once, and no older one among them: what          *)
(* spd_queue_reset and requestRescan are for, whatever fails.              *)
InOrderSinceRescan ==
  \A t \in Thread :
    fdw[t].scan = nrescan => got[t] = [k \in 1 .. Len(got[t]) |-> <<nrescan, k>>]

(* That is so as long as no other scan of the backend forces the threads   *)
(* to end, or nothing is rescanned.                                        *)
THEOREM OrderSinceRescan == Spec => [](Quiet => InOrderSinceRescan)
<1>1. ASSUME IInv, Quiet
      PROVE  InOrderSinceRescan
  <2> SUFFICES ASSUME NEW t \in Thread
               PROVE  fdw[t].scan = nrescan =>
                        got[t] = [k \in 1 .. Len(got[t]) |-> <<nrescan, k>>]
    BY DEF InOrderSinceRescan
  <2>1. got[t] \in Seq(Tuple \cup {NoTuple}) /\ (fdw[t].scan = nrescan => Received(t))
    BY <1>1, ThreadTyped DEF IInv, ThreadInv, StreamInv
  <2>2. Received(t) => got[t] = [k \in 1 .. Len(got[t]) |-> <<nrescan, k>>]
    <3>1. Received(t) => \A k \in 1 .. Len(got[t]) : got[t][k] = <<nrescan, k>>
      BY DEF Received
    <3> QED
      BY <2>1, <3>1, AsFunction
  <2> QED
    BY <2>1, <2>2
<1>2. IInv => (Quiet => InOrderSinceRescan)
  BY <1>1
<1> QED
  BY <1>2, Invariance, PTL

(* The tuples of a child arrive in order, each once, none of them from     *)
(* before the last spd_ReScanForeignScan, which every child has done once: *)
(* where nothing is rescanned, whatever fails, and with rescans where      *)
(* nothing fails and no subtransaction ends the scan.                      *)
THEOREM Ordered == Spec => [](MaxReScans = 0 \/ (NoFailure /\ ScanLevel = 1) => InOrder)
<1>1. ASSUME IInv, MaxReScans = 0 \/ (NoFailure /\ ScanLevel = 1)
      PROVE  InOrder
  <2> SUFFICES ASSUME NEW t \in Thread
               PROVE  got[t] = [k \in 1 .. Len(got[t]) |-> <<rescans[t], k>>]
    BY DEF InOrder
  <2>1. /\ got[t] \in Seq(Tuple \cup {NoTuple}) /\ Len(got[t]) \in Nat
        /\ rescans[t] \in Nat /\ nrescan \in Nat /\ nrescan <= MaxReScans
        /\ fdw[t].scan \in Nat /\ fdw[t].scan <= MaxReScans
        /\ ThreadInv(t) /\ MainInv
    BY <1>1, ThreadTyped DEF IInv
  <2>2. Quiet => StreamInv(t)
    BY <2>1 DEF ThreadInv
  <2>3. CASE MaxReScans = 0
    <3>1. rescans[t] = 0 /\ nrescan = 0 /\ fdw[t].scan = 0
      BY <2>1, <2>3 DEF ThreadInv, RescanOrder
    <3>2. Received(t)
      BY <2>2, <2>3, <3>1 DEF Quiet, StreamInv
    <3>3. \A k \in 1 .. Len(got[t]) : got[t][k] = <<rescans[t], k>>
      BY <3>1, <3>2 DEF Received
    <3> QED
      BY <2>1, <3>3, AsFunction
  <2>4. CASE NoFailure /\ ScanLevel = 1
    <3>1. Quiet /\ TopLevel /\ Live
      BY <2>1, <2>4 DEF NoFailure, Quiet, TopLevel, MainInv
    <3>2. CASE Rescanning
      <4>1. Len(got[t]) = 0
        BY <2>1, <3>2 DEF ThreadInv, RescanInv
      <4>2. \A k \in 1 .. Len(got[t]) : got[t][k] = <<rescans[t], k>>
        BY <4>1
      <4> QED
        BY <2>1, <4>2, AsFunction
    <3>3. CASE ~Rescanning
      <4>1. fdw[t].scan = nrescan /\ rescans[t] = nrescan
        <5>1. CASE mpc \in {"end_loop", "end_join", "done"}
          BY <2>1, <2>4, <5>1 DEF ThreadInv, OnceInv
        <5>2. CASE mpc \notin {"end_loop", "end_join", "done"}
          <6>1. ~Doomed(t)
            BY <2>1, <2>4, <3>1, <5>2 DEF ThreadInv, FinishInv, OnceInv
          <6> QED
            BY <2>1, <3>3, <6>1 DEF ThreadInv, RescanInv
        <5> QED
          BY <5>1, <5>2
      <4>2. Received(t)
        BY <2>2, <3>1, <4>1 DEF StreamInv
      <4>3. \A k \in 1 .. Len(got[t]) : got[t][k] = <<rescans[t], k>>
        BY <4>1, <4>2 DEF Received
      <4> QED
        BY <2>1, <4>3, AsFunction
    <3> QED
      BY <3>2, <3>3
  <2> QED
    BY <1>1, <2>3, <2>4
<1>2. IInv => ((MaxReScans = 0 \/ (NoFailure /\ ScanLevel = 1)) => InOrder)
  BY <1>1
<1> QED
  BY <1>2, Invariance, PTL

(* When spd_ReScanForeignScan has returned, every thread that has not left *)
(* the scan, and will not, has called ReScanForeignScan of its child as    *)
(* often as it was asked to.                                               *)
RescanDoneByAll ==
  mpc \in {"idle", "next"} =>
    \A t \in Thread : ~Doomed(t) => ~requestRescan[t] /\ fdw[t].scan = nrescan

(* So spd_ReScanForeignScan, when it returns, has reached every child that *)
(* can still return rows, whatever fails and whoever else ends the scan.   *)
THEOREM RescanReturns == Spec => []RescanDoneByAll
<1>1. ASSUME IInv
      PROVE  RescanDoneByAll
  BY <1>1, ThreadTyped DEF IInv, ThreadInv, RescanInv, RescanDoneByAll
<1> QED
  BY <1>1, Invariance, PTL

(* When spd_IterateForeignScan returns NULL, every child has delivered all *)
(* its rows, except one that failed when throwErrorIfDead is off: for a    *)
(* scan of the top level, and no other scan of the backend that forces its *)
(* threads to end.                                                         *)
THEOREM CompleteAtEof == Spec => [](TopLevel => EofComplete)
<1>1. ASSUME IInv, TopLevel
      PROVE  EofComplete
  BY <1>1 DEF IInv, MainInv, EofInv, Complete, EofComplete
<1>2. IInv => (TopLevel => EofComplete)
  BY <1>1
<1> QED
  BY <1>2, Invariance, PTL

(* As long as no error was thrown, a thread whose child scan has ended     *)
(* once either is being joined, with the request to end taken back, or has *)
(* failed, and then THREAD_EXIT does not end the child scan.               *)
EndsInv(t) ==
  Live =>
    /\ fdw[t].ends <= 1
    /\ cpc[t] \in {"ending", "ended", "exit", "exit_end"} /\ fdw[t].ends = 1 =>
         \/ state[t] = "ERROR_INIT"
         \/ Joining(t) /\ (cpc[t] = "ending" \/ ~requestEndScan[t])
    /\ cpc[t] = "exit_end" => state[t] # "ERROR_INIT"

(* A step that ends no child scan, of a thread that has not ended it.      *)
LEMMA NotEnded ==
  ASSUME NEW t \in Thread, fdw'[t].ends = 0, cpc'[t] # "exit_end"
  PROVE  EndsInv(t)'
BY DEF EndsInv

(* The steps of a thread on its way out; all others end no child scan.     *)
LEMMA EndSteps ==
  ASSUME NEW t \in Thread, Types, Child(t)
  PROVE  \/ EndForced(t) \/ EndScan(t) \/ EndReturn(t) \/ EndFail(t) \/ EndRescan(t)
         \/ EndAgain(t) \/ Ended(t) \/ ExitNotify(t) \/ ExitEnd(t) \/ ThreadFinal(t)
         \/ /\ cpc[t] \notin {"ending", "ended", "exit", "exit_end", "final", "gone"}
            /\ cpc'[t] # "exit_end" /\ fdw'[t].ends = fdw[t].ends
<1>1. fdw \in [Thread -> Fdw] /\ cpc \in [Thread -> ChildPc]
  BY DEF Types, ThreadTypes
<1> USE DEF Goto, localVars
<1>2. CASE \/ ThreadStart(t) \/ BeginCall(t) \/ RescanDone(t) \/ WaitStart(t) \/ WaitEnd(t)
           \/ WaitRescan(t) \/ WaitAgain(t)
  BY <1>1, <1>2
  DEF ThreadStart, BeginCall, RescanDone, WaitStart, WaitEnd, WaitRescan, WaitAgain
<1>3. CASE BeginReturn(t) \/ BeginFail(t) \/ Rescan(t) \/ StartScan(t)
  BY <1>1, <1>3 DEF BeginReturn, BeginFail, Rescan, StartScan, Fdw
<1>4. CASE IterateRow(t) \/ IterateFail(t) \/ PendingTimeout(t)
  BY <1>1, <1>4 DEF IterateRow, IterateFail, PendingTimeout, Fdw
<1>5. CASE \/ IterateEnd(t) \/ IterateForced(t) \/ CheckPending(t) \/ Pend(t) \/ WokenUp(t)
  BY <1>1, <1>5 DEF IterateEnd, IterateForced, CheckPending, Pend, WokenUp
<1>6. CASE Refused(t) \/ Sleep(t) \/ Add(t) \/ LoopLeft(t) \/ EndTurn(t)
  BY <1>1, <1>6 DEF Refused, Sleep, Add, LoopLeft, EndTurn
<1> QED
  BY <1>2, <1>3, <1>4, <1>5, <1>6, Zenon DEF Child

(* A step of a child thread keeps this.                                    *)
LEMMA ChildEnds ==
  ASSUME IInv, ~OtherScans, NEW t \in Thread, Child(t), EndsInv(t)
  PROVE  EndsInv(t)'
<1>1. /\ Types /\ fdw[t].ends \in Nat
      /\ EndAsked(t) /\ StateInv(t) /\ UNCHANGED <<mainVars, histVars>>
  BY ThreadTyped, ChildSteps DEF IInv, ThreadInv, StepOf
<1>2. (Live' <=> Live) /\ (Joining(t)' <=> Joining(t))
  BY <1>1 DEF Live, Joining, mainVars, histVars
<1>3. /\ fdw \in [Thread -> Fdw] /\ cpc \in [Thread -> ChildPc]
      /\ state \in [Thread -> ThreadState]
      /\ requestEndScan \in [Thread -> BOOLEAN]
  BY <1>1 DEF Types, ThreadTypes
<1>4. cpc[t] \notin {"ending", "ended", "exit", "exit_end", "final", "gone"} =>
        fdw[t].ends = 0
  BY <1>1 DEF EndAsked
<1>5. CASE EndForced(t) \/ EndRescan(t) \/ EndAgain(t)
  <2>1. cpc[t] = "end_wait" /\ fdw' = fdw /\ cpc'[t] # "exit_end"
    BY <1>3, <1>5 DEF EndForced, EndRescan, EndAgain, Goto
  <2> QED
    BY <1>4, <2>1, NotEnded
<1>6. CASE EndScan(t)
  <2>1. /\ cpc[t] = "end_wait" /\ cpc'[t] = "ending" /\ requestEndScan[t]
        /\ fdw'[t].ends = fdw[t].ends + 1
    BY <1>3, <1>6 DEF EndScan, Goto, Fdw
  <2>2. Live => Joining(t)
    BY <1>1, <2>1 DEF EndAsked, Doomed
  <2> QED
    BY <1>2, <1>4, <2>1, <2>2 DEF EndsInv
<1>7. CASE EndReturn(t)
  <2>1. /\ cpc[t] = "ending" /\ cpc'[t] = "ended" /\ ~requestEndScan'[t]
        /\ fdw'[t] = fdw[t] /\ state'[t] = state[t]
    BY <1>3, <1>7 DEF EndReturn, Goto
  <2> QED
    BY <1>2, <2>1 DEF EndsInv
<1>8. CASE EndFail(t)
  <2>1. cpc'[t] = "ended" /\ state'[t] = "ERROR_INIT" /\ fdw'[t].ends = fdw[t].ends
    BY <1>3, <1>8 DEF EndFail, Goto, SetState, Fdw
  <2> QED
    BY <1>2, <2>1 DEF EndsInv
<1>9. CASE Ended(t)
  <2>1. cpc[t] = "ended" /\ fdw'[t] = fdw[t]
    BY <1>9 DEF Ended, Goto
  <2>2. CASE InError(t)
    <3>1. cpc'[t] = "exit" /\ state'[t] = state[t]
      BY <1>3, <1>9, <2>2 DEF Ended, Goto
    <3>2. Live => state[t] = "ERROR_INIT"
      BY <1>1, <2>2 DEF StateInv, InError, ErrorStates
    <3> QED
      BY <1>2, <2>1, <3>1, <3>2 DEF EndsInv
  <2>3. CASE ~InError(t)
    <3>1. \/ cpc'[t] = "rescan"
          \/ cpc'[t] = "exit" /\ requestEndScan'[t] = requestEndScan[t]
      BY <1>3, <1>9, <2>3 DEF Ended, Goto
    <3>2. state[t] # "ERROR_INIT"
      BY <2>3 DEF InError, ErrorStates
    <3> QED
      BY <1>2, <2>1, <3>1, <3>2 DEF EndsInv
  <2> QED
    BY <2>2, <2>3
<1>10. CASE ExitNotify(t)
  <2>1. /\ cpc[t] = "exit" /\ cpc'[t] = IF state[t] = "ERROR_INIT" THEN "final" ELSE "exit_end"
        /\ fdw'[t] = fdw[t] /\ state'[t] = state[t] /\ requestEndScan'[t] = requestEndScan[t]
    BY <1>3, <1>10 DEF ExitNotify, Goto
  <2> QED
    BY <1>2, <2>1 DEF EndsInv
<1>11. CASE ExitEnd(t)
  <2>1. /\ cpc[t] = "exit_end" /\ cpc'[t] = "final"
        /\ fdw'[t].ends = IF requestEndScan[t] THEN fdw[t].ends + 1 ELSE fdw[t].ends
    BY <1>3, <1>11 DEF ExitEnd, EndIsLeft, Goto, Fdw
  <2> QED
    BY <1>1, <1>2, <2>1 DEF EndsInv
<1>12. CASE ThreadFinal(t)
  <2>1. cpc'[t] = "gone" /\ fdw'[t] = fdw[t]
    BY <1>3, <1>12 DEF ThreadFinal, Goto
  <2> QED
    BY <1>2, <2>1 DEF EndsInv
<1>13. CASE /\ cpc[t] \notin {"ending", "ended", "exit", "exit_end", "final", "gone"}
            /\ cpc'[t] # "exit_end" /\ fdw'[t].ends = fdw[t].ends
  BY <1>4, <1>13, NotEnded
<1> QED
  BY <1>1, <1>5, <1>6, <1>7, <1>8, <1>9, <1>10, <1>11, <1>12, <1>13, EndSteps

(* The main thread ends no child scan; it joins one thread after another,  *)
(* and asks a thread to end when it comes to it.                           *)
LEMMA MainEnds ==
  ASSUME IInv, NEW t \in Thread, EndsInv(t), Ask \/ Serve \/ Done \/ UNCHANGED vars
  PROVE  EndsInv(t)'
<1>1. CASE UNCHANGED vars \/ Done
  BY <1>1 DEF EndsInv, Live, Joining, Done, vars, infoVars, localVars, mainVars, histVars
<1>2. CASE Ask
  <2>1. mpc = "idle" /\ Live' => Live
    BY <1>2 DEF Ask, CallIterate, CallReScan, CallEnd, CallSubStart, CallSubEnd,
       OtherScanFails, MainGoto, Live, histVars
  <2>2. mpc = "idle" /\ UNCHANGED <<localVars, state, requestEndScan>>
    BY <1>2 DEF Ask, CallIterate, CallReScan, CallEnd, CallSubStart, CallSubEnd,
       OtherScanFails, MainGoto, infoVars
  <2> QED
    BY <2>1, <2>2 DEF EndsInv, Joining, localVars
<1>3. CASE NextRound
  <2>1. mpc = "next" /\ UNCHANGED <<localVars, state, requestEndScan>>
    BY <1>3 DEF NextRound, infoVars
  <2>2. Live
    BY <2>1 DEF IInv, MainInv, OutcomeInv, Live
  <2> QED
    BY <2>1, <2>2 DEF EndsInv, Joining, localVars
<1>4. CASE CreateDone \/ ReScanWait \/ EndWakeUp \/ EndOver
  <2>1. /\ mpc \in {"create", "rescan", "end_call", "end_loop"} /\ outcome' = outcome
        /\ UNCHANGED <<localVars, state, requestEndScan>>
    BY <1>4 DEF CreateDone, ReScanWait, EndWakeUp, EndOver, MainGoto, infoVars, histVars
  <2> QED
    BY <2>1 DEF EndsInv, Live, Joining, localVars
<1>5. CASE SubStarted \/ SubWakeUp \/ SubPend \/ SubEnded
  <2>1. /\ mpc \in {"txn", "sub_end", "sub_loop"} /\ outcome' = outcome
        /\ UNCHANGED <<localVars, state, requestEndScan>>
    BY <1>5 DEF SubStarted, SubWakeUp, SubPend, SubEnded, MainGoto, infoVars, histVars
  <2> QED
    BY <2>1 DEF EndsInv, Live, Joining, localVars
<1>6. CASE ThrowError
  BY <1>6 DEF ThrowError, EndsInv, Live
<1>7. ASSUME NEW u \in Thread, NextTuple(u) \/ NextEmpty(u) \/ NextError(u)
      PROVE  EndsInv(t)'
  <2>1. /\ mpc = "next" /\ outcome' = outcome /\ UNCHANGED <<localVars, state, requestEndScan>>
    BY <1>7 DEF NextTuple, NextEmpty, NextError, AtQueue, infoVars, histVars
  <2> QED
    BY <2>1 DEF EndsInv, Live, Joining, localVars
<1>8. ASSUME NEW u \in Thread, NotifyThread(u)
      PROVE  EndsInv(t)'
  BY <1>8 DEF NotifyThread, EndsInv, Live
<1>9. ASSUME NEW u \in Thread, ReScanAsk(u) \/ ReScanStart(u) \/ ReScanSeen(u) \/ SubSafe(u)
      PROVE  EndsInv(t)'
  <2>1. /\ mpc \in {"rescan", "rescan_start", "rescan_wait", "sub_wait"} /\ outcome' = outcome
        /\ UNCHANGED <<localVars, state, requestEndScan>>
    BY <1>9 DEF ReScanAsk, ReScanStart, ReScanSeen, SubSafe, MainGoto, infoVars, histVars
  <2> QED
    BY <2>1 DEF EndsInv, Live, Joining, localVars
<1>10. ASSUME NEW u \in Thread, EndRequest(u) \/ EndSkip(u)
       PROVE  EndsInv(t)'
  <2>1. /\ mpc \in {"end_loop", "sub_loop"} /\ outcome' = outcome
        /\ UNCHANGED <<localVars, state>>
    BY <1>10 DEF EndRequest, EndSkip, infoVars, histVars
  <2> QED
    BY <2>1 DEF EndsInv, Live, Joining, localVars
<1>11. ASSUME NEW u \in Thread, EndJoin(u)
       PROVE  EndsInv(t)'
  <2>1. /\ mpc \in {"end_join", "sub_join"} /\ node_incr = u /\ cpc[u] = "gone"
        /\ outcome' = outcome /\ UNCHANGED <<localVars, state, requestEndScan>>
    BY <1>11 DEF EndJoin, At, histVars
  <2> QED
    BY <2>1 DEF EndsInv, Live, Joining, localVars
<1> QED
  BY <1>1, <1>2, <1>3, <1>4, <1>5, <1>6, <1>7, <1>8, <1>9, <1>10, <1>11 DEF Serve

(* EndForeignScan of a child is called once at most, though both           *)
(* spd_EndForeignScanChild and THREAD_EXIT may do so, as long as no error  *)
(* is thrown: children may fail and time out, be rescanned, and be ended   *)
(* with a subtransaction.                                                  *)
THEOREM EndedOnce == Spec => [](~OtherScans /\ Live => EndOnce)
<1> DEFINE Ends == ~OtherScans => \A t \in Thread : EndsInv(t)
<1>1. Init => Ends
  BY DEF Init, EndsInv
<1>2. IInv /\ Ends /\ [Next]_vars => Ends'
  <2> SUFFICES ASSUME IInv, ~OtherScans, \A t \in Thread : EndsInv(t), [Next]_vars,
                      NEW t \in Thread
               PROVE  EndsInv(t)'
    OBVIOUS
  <2>1. CASE Ask \/ Serve \/ Done \/ UNCHANGED vars
    BY <2>1, MainEnds
  <2>2. ASSUME NEW u \in Thread, Child(u)
        PROVE  EndsInv(t)'
    <3>1. CASE u = t
      BY <2>2, <3>1, ChildEnds
    <3>2. CASE u # t
      <4>1. Same(t) /\ UNCHANGED <<mainVars, histVars>>
        BY <2>2, <3>2, ChildSteps DEF StepOf
      <4> QED
        BY <4>1 DEF Same, EndsInv, Live, Joining, mainVars, histVars
    <3> QED
      BY <3>1, <3>2
  <2> QED
    BY <2>1, <2>2 DEF Next
<1>3. Ends => (~OtherScans /\ Live => EndOnce)
  BY DEF EndsInv, EndOnce
<1> QED
  BY <1>1, <1>2, <1>3, Invariance, PTL DEF Spec

(* When the scan is over, by its end or with a subtransaction, every       *)
(* thread has left and has been joined, whatever has failed.               *)
NoThreadLeft ==
  mpc = "done" => num_running = 0 /\ \A t \in Thread : cpc[t] = "gone" /\ is_joined[t]

(* At the end of the scan none of its threads is left.                     *)
LEMMA ThreadsGone ==
  ASSUME IInv
  PROVE  NoThreadLeft
<1> SUFFICES ASSUME mpc = "done"
             PROVE  num_running = 0 /\ \A t \in Thread : cpc[t] = "gone" /\ is_joined[t]
  BY DEF NoThreadLeft
<1>1. \A t \in Thread : cpc[t] = "gone" /\ is_joined[t]
  BY DEF IInv, ThreadInv, JoinInv
<1>2. Running = {}
  BY <1>1 DEF Running
<1> QED
  BY <1>1, <1>2, FS_EmptySet DEF IInv, Counted

(* No thread outlives the scan: pthread_join has been called for each of   *)
(* them, whichever of the loops that end threads got there.                *)
THEOREM AllJoined == Spec => []NoThreadLeft
BY ThreadsGone, Invariance, PTL

(* And every child scan that began and did not fail has been ended, unless *)
(* another scan of the backend has forced the threads to end.              *)
THEOREM EndsClean == Spec => [](~OtherScans => CleanEnd)
<1>1. ASSUME IInv, ~OtherScans
      PROVE  CleanEnd
  BY <1>1, ThreadsGone DEF IInv, ThreadInv, CleanInv, NoThreadLeft, CleanEnd
<1>2. IInv => (~OtherScans => CleanEnd)
  BY <1>1
<1> QED
  BY <1>2, Invariance, PTL

(* No error is thrown where there is none, or children's are not to be     *)
(* thrown.                                                                 *)
THEOREM StaysLive == Spec => [](NoFailure \/ NotThrown => Live)
<1>1. IInv => (NoFailure \/ NotThrown => Live)
  BY DEF IInv, MainInv
<1> QED
  BY <1>1, Invariance, PTL

(* While core changes the transaction no child thread works in its FDW:    *)
(* what spd_wait_transaction_thread_safe is to bring about, unless an      *)
(* error has been thrown, where nothing is rescanned and no other scan of  *)
(* the backend fails.                                                      *)
THEOREM SafeTransactions == Spec => [](NoRescan => TxnSafe)
<1>1. ASSUME IInv, NoRescan
      PROVE  TxnSafe
  <2> SUFFICES ASSUME mpc = "txn", Live, NEW t \in Thread
               PROVE  ~InChildFdw(t)
    BY DEF TxnSafe, Live
  <2>1. ThreadInv(t) /\ ~OtherScans
    BY <1>1 DEF IInv, NoRescan
  <2>2. ~AtWork(t)
    BY <1>1, <2>1 DEF ThreadInv, SafeInv
  <2>3. ~requestRescan[t]
    <3>1. /\ rescans[t] \in Nat /\ nrescan \in Nat /\ nrescan <= MaxReScans
          /\ fdw[t].scan \in Nat
      BY <1>1, ThreadTyped DEF IInv
    <3> QED
      BY <1>1, <2>1, <3>1 DEF ThreadInv, RescanOrder, NoRescan
  <2>4. cpc[t] # "ending"
    BY <1>1, <2>1 DEF ThreadInv, EndAsked, Joining
  <2> QED
    BY <1>1, <2>1, <2>2, <2>3, <2>4 DEF ThreadInv, StateInv, InChildFdw
<1>2. IInv => (NoRescan => TxnSafe)
  BY <1>1
<1> QED
  BY <1>2, Invariance, PTL

(* Only the loop that fetches rows and the rescan move the child scan.     *)
LEMMA RowMoves ==
  ASSUME IInv, [Next]_vars, NEW t \in Thread,
         fdw'[t].row # fdw[t].row \/ fdw'[t].scan # fdw[t].scan
  PROVE  cpc[t] \in {"iterate", "rescan"}
<1>1. PICK u \in Thread : Child(u)
  <2>1. ~UNCHANGED fdw
    OBVIOUS
  <2>2. Ask => UNCHANGED fdw
    BY DEF Ask, CallIterate, CallReScan, CallEnd, CallSubStart, CallSubEnd, OtherScanFails,
       localVars
  <2>3. Serve => UNCHANGED fdw
    BY DEF Serve, CreateDone, NextRound, ThrowError, ReScanWait, EndWakeUp, EndOver, SubStarted,
       SubWakeUp, SubPend, SubEnded, NextTuple, NextEmpty, NextError, NotifyThread, ReScanAsk,
       ReScanStart, ReScanSeen, EndRequest, EndJoin, EndSkip, SubSafe, localVars
  <2>4. Done \/ UNCHANGED vars => UNCHANGED fdw
    BY DEF Done, vars, localVars
  <2> QED
    BY <2>1, <2>2, <2>3, <2>4 DEF Next
<1>2. fdw \in [Thread -> Fdw]
  BY DEF IInv, Types, ThreadTypes
<1>3. CASE IterateRow(u) \/ Rescan(u)
  BY <1>2, <1>3 DEF IterateRow, Rescan, Goto, Fdw
<1>4. CASE ~(IterateRow(u) \/ Rescan(u))
  <2>1. CASE UNCHANGED fdw
    BY <2>1
  <2>2. CASE BeginReturn(u) \/ (StartScan(u) /\ ~UNCHANGED fdw)
    <3>1. fdw' = [fdw EXCEPT ![u].begun = TRUE]
      BY <2>2 DEF BeginReturn, StartScan
    <3> QED
      BY <1>2, <3>1 DEF Fdw
  <2>3. CASE BeginFail(u) \/ IterateFail(u) \/ PendingTimeout(u) \/ EndFail(u)
    <3>1. fdw' = [fdw EXCEPT ![u].failed = TRUE]
      BY <2>3 DEF BeginFail, IterateFail, PendingTimeout, EndFail
    <3> QED
      BY <1>2, <3>1 DEF Fdw
  <2>4. CASE EndScan(u) \/ ExitEnd(u)
    BY <1>2, <2>4 DEF EndScan, ExitEnd, Fdw
  <2> QED
    BY <1>1, <1>4, <2>1, <2>2, <2>3, <2>4
    DEF Child, ThreadStart, BeginCall, RescanDone, WaitStart, WaitEnd, WaitRescan, WaitAgain,
        IterateEnd, IterateForced, CheckPending, Pend, WokenUp, Refused, Sleep, Add, LoopLeft,
        EndTurn, EndForced, EndReturn, EndRescan, EndAgain, Ended, ExitNotify, ThreadFinal,
        localVars
<1> QED
  BY <1>3, <1>4

(* A child FDW is asked for rows or to rescan only after it has begun and  *)
(* before it has ended: where no child begins late and no other scan       *)
(* forces the threads to end, whatever fails.                              *)
THEOREM ProtocolKept ==
  ASSUME Late = {}, ~OtherScans
  PROVE  Spec => FdwProtocol
<1>1. ASSUME IInv, [Next]_vars
      PROVE  [\A t \in Thread :
                fdw'[t].row # fdw[t].row \/ fdw'[t].scan # fdw[t].scan
                  => fdw[t].begun /\ fdw[t].ends = 0]_vars
  <2> SUFFICES ASSUME NEW t \in Thread,
                      fdw'[t].row # fdw[t].row \/ fdw'[t].scan # fdw[t].scan
               PROVE  fdw[t].begun /\ fdw[t].ends = 0
    OBVIOUS
  <2>1. cpc[t] \in {"iterate", "rescan"}
    BY <1>1, RowMoves
  <2>2. ThreadInv(t) /\ fdw[t].ends \in Nat
    BY <1>1, ThreadTyped DEF IInv
  <2> QED
    BY <1>1, <2>1, <2>2 DEF ThreadInv, BegunInv, EndAsked
<1>2. IInv /\ [Next]_vars =>
        [\A t \in Thread :
           fdw'[t].row # fdw[t].row \/ fdw'[t].scan # fdw[t].scan
             => fdw[t].begun /\ fdw[t].ends = 0]_vars
  BY <1>1
<1> QED
  BY <1>2, Invariance, PTL DEF Spec, FdwProtocol

=============================================================================
