---------------------------- MODULE ForeignScan ----------------------------
(***************************************************************************)
(* A foreign scan of pgspider_core_fdw: the main thread (the backend) and  *)
(* one child thread per child node, which runs the scan of that node's FDW *)
(* and passes the tuples on through its tuple queue.                       *)
(*                                                                         *)
(* The threads talk through plain variables that no lock protects: the     *)
(* state of each child thread, which both sides write, and the requests    *)
(* start, rescan and end; and, for a whole scan, through the request to    *)
(* pend (under thread_pending_mutex) and the flag that forces all child    *)
(* threads of the backend to end.  The main thread enters the scan through *)
(* the executor's calls and through the transaction callbacks that core    *)
(* runs around subtransactions and at the end of the transaction.          *)
(*                                                                         *)
(* A tuple is <<g, k>>: the k-th row the child FDW returned after its g-th *)
(* ReScanForeignScan.  The calls of the child FDW are external.            *)
(***************************************************************************)
EXTENDS SpdTupleQueue, Sequences, FiniteSets

CONSTANTS
  NThreads,          \* fdw_private->nThreads
  Parameterised,     \* children whose plan has parameters (fdw_exprs)
  Late,              \* mysql_fdw children, which begin when the scan starts
  MayFail,           \* children whose FDW may raise errors
  Settings,          \* the settings a run starts from: see Setting
  StatementTimeout,  \* statement_timeout is set
  ScanLevel,         \* the nesting level the scan was started at
  OtherScans,        \* other scans of the backend may fail in between
  MaxReScans,        \* bound: ReScanForeignScan calls
  MaxSubXacts        \* bound: subtransactions started

Thread == 0 .. NThreads - 1

(* The setting throwErrorIfDead, the rows of each child, and whether the   *)
(* executor may end or rescan between two rows.                            *)
Setting == [throwErrorIfDead : BOOLEAN, rows : [Thread -> Nat], mayLimit : BOOLEAN]

ASSUME ScanAssumption ==
  /\ NThreads \in Nat \ {0}
  /\ Settings \subseteq Setting
  /\ {Parameterised, Late, MayFail} \subseteq SUBSET Thread
  /\ {StatementTimeout, OtherScans} \subseteq BOOLEAN
  /\ ScanLevel \in Nat \ {0}
  /\ MaxReScans \in Nat /\ MaxSubXacts \in Nat

(* SpdForeignScanThreadState, by its groups.                               *)
ExecuteStates == {"INIT", "WAIT_BEGIN", "BEGIN", "ITERATE", "ITERATE_RUNNING"}
EndStates == {"PRE_END", "END", "FINISH"}
ErrorStates == {"ERROR_INIT", "ERROR"}
ThreadState == ExecuteStates \cup EndStates \cup ErrorStates \cup {"PENDING"}

VARIABLES
  \* ForeignScanThreadInfo of each child thread, read and written by both sides
  state, requestStartScan, requestRescan, requestEndScan, is_joined, tupleQueue,
  \* local to each child thread: its place in spd_ForeignScan_thread, the
  \* tuple it is adding, the state spd_check_pending_request will restore
  cpc, slot, old_state,
  \* the child FDW: begun, an error was raised, calls of EndForeignScan, of
  \* ReScanForeignScan, rows returned since
  fdw,
  \* shared by all threads of the scan, and of the backend
  requestPending, force_end, num_running,
  \* the main thread: its place, a loop index, the locals of nextChildTuple,
  \* fields of fdw_private, the transaction level, what is happening to it
  mpc, node_incr, all_finished, startNodeId, lastThreadId, isFirst, level, subxact,
  \* the setting of the backend, its data and its executor
  setting,
  \* history: what became of the scan, the tuples received since the last
  \* rescan, rescans asked of each child, and counts that bound the model
  outcome, got, rescans, nrescan, nsubxact

infoVars == <<state, requestStartScan, requestRescan, requestEndScan, is_joined, tupleQueue>>
localVars == <<cpc, slot, old_state, fdw>>
sharedVars == <<requestPending, force_end, num_running>>
mainVars == <<mpc, node_incr, all_finished, startNodeId, lastThreadId, isFirst, level, subxact>>
histVars == <<setting, outcome, got, rescans, nrescan, nsubxact>>
vars == <<infoVars, localVars, sharedVars, mainVars, histVars>>

(* spd_BeginForeignScan and spd_setThreadInfo; the threads are created.    *)
Init ==
  /\ setting \in Settings
  /\ state = [t \in Thread |-> "INIT"]
  /\ requestStartScan = [t \in Thread |-> t \notin Parameterised]
  /\ requestRescan = [t \in Thread |-> FALSE]
  /\ requestEndScan = [t \in Thread |-> FALSE]
  /\ is_joined = [t \in Thread |-> FALSE]
  /\ tupleQueue = [t \in Thread |-> QueueInit]
  /\ cpc = [t \in Thread |-> "created"]
  /\ slot = [t \in Thread |-> NoTuple]
  /\ old_state = [t \in Thread |-> "INIT"]
  /\ fdw = [t \in Thread |-> [begun |-> FALSE, failed |-> FALSE, ends |-> 0, scan |-> 0, row |-> 0]]
  /\ requestPending = FALSE
  /\ force_end = FALSE
  /\ num_running = 0
  /\ mpc = "create"
  /\ node_incr = 0
  /\ all_finished = TRUE
  /\ startNodeId = 0
  /\ lastThreadId = -1
  /\ isFirst = TRUE
  /\ level = ScanLevel
  /\ subxact = "none"
  /\ outcome = "open"
  /\ got = [t \in Thread |-> <<>>]
  /\ rescans = [t \in Thread |-> 0]
  /\ nrescan = 0
  /\ nsubxact = 0

-----------------------------------------------------------------------------
(* The child thread: spd_ForeignScan_thread.                               *)

Goto(t, from, to) == cpc[t] = from /\ cpc' = [cpc EXCEPT ![t] = to]

SetState(t, s) == state' = [state EXCEPT ![t] = s]

(* THREAD_ERROR_INIT_CHECK finds the state of t in error.                  *)
InError(t) == state[t] \in ErrorStates

(* The scan_mutex is held for writing around the begin of a child scan and *)
(* for reading around the other calls of the child FDW.                    *)
CanReadLock == \A t \in Thread : cpc[t] # "beginning"
CanWriteLock == \A t \in Thread : cpc[t] \notin {"beginning", "ending"}

(* The thread starts.  No error can be notified before it leaves INIT, the *)
(* main thread waits for that.                                             *)
ThreadStart(t) ==
  /\ Goto(t, "created", "begin")
  /\ num_running' = num_running + 1
  /\ SetState(t, "WAIT_BEGIN")
  /\ UNCHANGED <<requestStartScan, requestRescan, requestEndScan, is_joined, tupleQueue,
                 slot, old_state, fdw, requestPending, force_end, mainVars, histVars>>

(* Mutant: every child waits for its parameters before it begins.          *)
MutBeginsLate(t) == ~requestStartScan[t]

(* A mysql_fdw child that has to wait for its parameters begins later.     *)
BeginsLate(t) == t \in Late /\ ~requestStartScan[t]

(* spd_BeginForeignScanChild takes the lock and calls BeginForeignScan.    *)
BeginCall(t) ==
  /\ CanWriteLock
  /\ IF BeginsLate(t)
       THEN Goto(t, "begin", "rescan") /\ UNCHANGED state
       ELSE Goto(t, "begin", "beginning") /\ SetState(t, "BEGIN")
  /\ UNCHANGED <<requestStartScan, requestRescan, requestEndScan, is_joined, tupleQueue,
                 slot, old_state, fdw, sharedVars, mainVars, histVars>>

BeginReturn(t) ==
  /\ IF InError(t) THEN /\ Goto(t, "beginning", "exit")
                        /\ requestEndScan' = [requestEndScan EXCEPT ![t] = TRUE]
                   ELSE Goto(t, "beginning", "rescan") /\ UNCHANGED requestEndScan
  /\ fdw' = [fdw EXCEPT ![t].begun = TRUE]
  /\ UNCHANGED <<state, requestStartScan, requestRescan, is_joined, tupleQueue,
                 slot, old_state, sharedVars, mainVars, histVars>>

BeginFail(t) ==
  /\ t \in MayFail
  /\ Goto(t, "beginning", "exit")
  /\ SetState(t, "ERROR_INIT")
  /\ requestEndScan' = [requestEndScan EXCEPT ![t] = TRUE]
  /\ fdw' = [fdw EXCEPT ![t].failed = TRUE]
  /\ UNCHANGED <<requestStartScan, requestRescan, is_joined, tupleQueue,
                 slot, old_state, sharedVars, mainVars, histVars>>

(* RESCAN: spd_RescanForeignScanChild.  The state follows the request by a *)
(* step of its own ("rescanned").                                          *)
Rescan(t) ==
  /\ IF requestRescan[t] /\ state[t] # "BEGIN"
       THEN /\ CanReadLock
            /\ Goto(t, "rescan", "rescanned")
            /\ fdw' = [fdw EXCEPT ![t].scan = @ + 1, ![t].row = 0]
            /\ requestRescan' = [requestRescan EXCEPT ![t] = FALSE]
       ELSE Goto(t, "rescan", "wait") /\ UNCHANGED <<fdw, requestRescan>>
  /\ UNCHANGED <<state, requestStartScan, requestEndScan, is_joined, tupleQueue,
                 slot, old_state, sharedVars, mainVars, histVars>>

RescanDone(t) ==
  /\ Goto(t, "rescanned", "wait")
  /\ SetState(t, "BEGIN")
  /\ UNCHANGED <<requestStartScan, requestRescan, requestEndScan, is_joined, tupleQueue,
                 slot, old_state, fdw, sharedVars, mainVars, histVars>>

(* Waiting for requestStartScan, a turn of the loop: the flag is read, and *)
(* after usleep an end request or a rescan gets through.                   *)
WaitStart(t) ==
  /\ ~requestStartScan[t]
  /\ Goto(t, "wait", "waiting")
  /\ UNCHANGED <<infoVars, slot, old_state, fdw, sharedVars, mainVars, histVars>>

WaitEnd(t) ==
  /\ requestEndScan[t]
  /\ Goto(t, "waiting", "end")
  /\ SetState(t, "PRE_END")
  /\ UNCHANGED <<requestStartScan, requestRescan, requestEndScan, is_joined, tupleQueue,
                 slot, old_state, fdw, sharedVars, mainVars, histVars>>

WaitRescan(t) ==
  /\ ~requestEndScan[t]
  /\ requestRescan[t]
  /\ state[t] = "BEGIN"
  /\ Goto(t, "waiting", "rescan")
  /\ SetState(t, "ITERATE")
  /\ UNCHANGED <<requestStartScan, requestRescan, requestEndScan, is_joined, tupleQueue,
                 slot, old_state, fdw, sharedVars, mainVars, histVars>>

WaitAgain(t) ==
  /\ ~requestEndScan[t]
  /\ ~(requestRescan[t] /\ state[t] = "BEGIN")
  /\ Goto(t, "waiting", "wait")
  /\ UNCHANGED <<infoVars, slot, old_state, fdw, sharedVars, mainVars, histVars>>

BeginsNow(t) == state[t] = "WAIT_BEGIN" /\ t \in Late /\ ~fdw[t].begun

(* The scan starts.  A mysql_fdw child that has not begun does so now,     *)
(* without the lock, and goes back to RESCAN if that is asked for.         *)
StartScan(t) ==
  /\ requestStartScan[t]
  /\ SetState(t, "ITERATE")
  /\ IF BeginsNow(t)
       THEN /\ Goto(t, "wait", IF requestRescan[t] THEN "rescan" ELSE "iterate")
            /\ fdw' = [fdw EXCEPT ![t].begun = TRUE]
       ELSE Goto(t, "wait", "iterate") /\ UNCHANGED fdw
  /\ UNCHANGED <<requestStartScan, requestRescan, requestEndScan, is_joined, tupleQueue,
                 slot, old_state, sharedVars, mainVars, histVars>>

(* spd_IterateForeignScanChildLoop, one turn: a row,                       *)
IterateRow(t) ==
  /\ ~force_end
  /\ CanReadLock
  /\ fdw[t].row < setting.rows[t]
  /\ Goto(t, "iterate", "pend")
  /\ SetState(t, "ITERATE_RUNNING")
  /\ slot' = [slot EXCEPT ![t] = <<fdw[t].scan, fdw[t].row + 1>>]
  /\ fdw' = [fdw EXCEPT ![t].row = @ + 1]
  /\ UNCHANGED <<requestStartScan, requestRescan, requestEndScan, is_joined, tupleQueue,
                 old_state, sharedVars, mainVars, histVars>>

(* no more rows,                                                           *)
IterateEnd(t) ==
  /\ ~force_end
  /\ CanReadLock
  /\ fdw[t].row = setting.rows[t]
  /\ Goto(t, "iterate", "left")
  /\ SetState(t, "ITERATE_RUNNING")
  /\ tupleQueue' = [tupleQueue EXCEPT ![t] = NotifyFinish(@)]
  /\ UNCHANGED <<requestStartScan, requestRescan, requestEndScan, is_joined,
                 slot, old_state, fdw, sharedVars, mainVars, histVars>>

(* an error of the child FDW,                                              *)
IterateFail(t) ==
  /\ t \in MayFail
  /\ ~force_end
  /\ CanReadLock
  /\ Goto(t, "iterate", "left")
  /\ SetState(t, "ERROR_INIT")
  /\ fdw' = [fdw EXCEPT ![t].failed = TRUE]
  /\ UNCHANGED <<requestStartScan, requestRescan, requestEndScan, is_joined, tupleQueue,
                 slot, old_state, sharedVars, mainVars, histVars>>

(* or the loop is left because all child threads are forced to end.        *)
IterateForced(t) ==
  /\ force_end
  /\ Goto(t, "iterate", "left")
  /\ UNCHANGED <<infoVars, slot, old_state, fdw, sharedVars, mainVars, histVars>>

(* spd_check_pending_request, before every attempt to add: it reads the   *)
(* state first, waits while it has to, and writes back what it read.       *)
CheckPending(t) ==
  /\ Goto(t, "pend", "pended")
  /\ old_state' = [old_state EXCEPT ![t] = state[t]]
  /\ UNCHANGED <<infoVars, slot, fdw, sharedVars, mainVars, histVars>>

Pend(t) ==
  /\ cpc[t] = "pended"
  /\ requestPending
  /\ state[t] # "PENDING"
  /\ SetState(t, "PENDING")
  /\ UNCHANGED <<requestStartScan, requestRescan, requestEndScan, is_joined, tupleQueue,
                 localVars, sharedVars, mainVars, histVars>>

WokenUp(t) ==
  /\ ~requestPending
  /\ Goto(t, "pended", "add")
  /\ SetState(t, old_state[t])
  /\ UNCHANGED <<requestStartScan, requestRescan, requestEndScan, is_joined, tupleQueue,
                 slot, old_state, fdw, sharedVars, mainVars, histVars>>

(* The timed wait is over, be it that the thread is woken up meanwhile.    *)
PendingTimeout(t) ==
  /\ StatementTimeout
  /\ state[t] = "PENDING"
  /\ Goto(t, "pended", "left")
  /\ SetState(t, "ERROR_INIT")
  /\ fdw' = [fdw EXCEPT ![t].failed = TRUE]
  /\ UNCHANGED <<requestStartScan, requestRescan, requestEndScan, is_joined, tupleQueue,
                 slot, old_state, sharedVars, mainVars, histVars>>

(* Mutant: an end request does not stop a child that cannot add.           *)
MutAsked(t) == requestRescan[t]

(* A request that makes the loop leave.                                    *)
Asked(t) == requestRescan[t] \/ requestEndScan[t]

(* spd_queue_add: full, the loop tries again unless a request is there;    *)
Refused(t) ==
  /\ QueueRefuses(tupleQueue[t])
  /\ Goto(t, "add", IF Asked(t) THEN "left" ELSE "pend")
  /\ UNCHANGED <<infoVars, slot, old_state, fdw, sharedVars, mainVars, histVars>>

(* asleep with the mutex held;                                             *)
Sleep(t) ==
  /\ ~QueueRefuses(tupleQueue[t])
  /\ QueueMustWait(tupleQueue[t])
  /\ Goto(t, "add", "spin")
  /\ UNCHANGED <<infoVars, slot, old_state, fdw, sharedVars, mainVars, histVars>>

(* added, at once or after the sleep.                                      *)
Add(t) ==
  /\ \/ cpc[t] = "add" /\ ~QueueRefuses(tupleQueue[t]) /\ ~QueueMustWait(tupleQueue[t])
     \/ cpc[t] = "spin" /\ tupleQueue[t].safe_to_clear
  /\ tupleQueue' = [tupleQueue EXCEPT ![t] = QueueStore(@, slot[t])]
  /\ cpc' = [cpc EXCEPT ![t] = IF Asked(t) THEN "left" ELSE "iterate"]
  /\ UNCHANGED <<state, requestStartScan, requestRescan, requestEndScan, is_joined,
                 slot, old_state, fdw, sharedVars, mainVars, histVars>>

(* After the loop: on to THREAD_EXIT in error, else to THREAD_END.         *)
LoopLeft(t) ==
  /\ IF InError(t)
       THEN /\ Goto(t, "left", "exit")
            /\ requestEndScan' = [requestEndScan EXCEPT ![t] = TRUE]
            /\ UNCHANGED state
       ELSE Goto(t, "left", "end") /\ SetState(t, "PRE_END") /\ UNCHANGED requestEndScan
  /\ UNCHANGED <<requestStartScan, requestRescan, is_joined, tupleQueue,
                 slot, old_state, fdw, sharedVars, mainVars, histVars>>

(* spd_EndForeignScanChild, a turn of its loop: when all threads are       *)
(* forced to end, EndForeignScan is left to THREAD_EXIT.  The flag is read *)
(* twice, and may be set in between.                                       *)
EndTurn(t) ==
  /\ Goto(t, "end", "end_wait")
  /\ requestEndScan' = [requestEndScan EXCEPT ![t] = @ \/ force_end]
  /\ UNCHANGED <<state, requestStartScan, requestRescan, is_joined, tupleQueue,
                 slot, old_state, fdw, sharedVars, mainVars, histVars>>

EndForced(t) ==
  /\ force_end
  /\ Goto(t, "end_wait", "ended")
  /\ UNCHANGED <<infoVars, slot, old_state, fdw, sharedVars, mainVars, histVars>>

(* It waits for a request: to end,                                         *)
EndScan(t) ==
  /\ ~force_end
  /\ requestEndScan[t]
  /\ CanReadLock
  /\ Goto(t, "end_wait", "ending")
  /\ SetState(t, "END")
  /\ fdw' = [fdw EXCEPT ![t].ends = @ + 1]
  /\ UNCHANGED <<requestStartScan, requestRescan, requestEndScan, is_joined, tupleQueue,
                 slot, old_state, sharedVars, mainVars, histVars>>

(* Mutant: the request is not reset once the child scan has ended.         *)
MutEndReturn(t) ==
  /\ Goto(t, "ending", "ended")
  /\ UNCHANGED <<infoVars, slot, old_state, fdw, sharedVars, mainVars, histVars>>

EndReturn(t) ==
  /\ Goto(t, "ending", "ended")
  /\ requestEndScan' = [requestEndScan EXCEPT ![t] = FALSE]
  /\ UNCHANGED <<state, requestStartScan, requestRescan, is_joined, tupleQueue,
                 slot, old_state, fdw, sharedVars, mainVars, histVars>>

EndFail(t) ==
  /\ t \in MayFail
  /\ Goto(t, "ending", "ended")
  /\ SetState(t, "ERROR_INIT")
  /\ fdw' = [fdw EXCEPT ![t].failed = TRUE]
  /\ UNCHANGED <<requestStartScan, requestRescan, requestEndScan, is_joined, tupleQueue,
                 slot, old_state, sharedVars, mainVars, histVars>>

(* or to rescan, which empties the queue;                                  *)
EndRescan(t) ==
  /\ ~force_end
  /\ ~requestEndScan[t]
  /\ requestRescan[t]
  /\ Goto(t, "end_wait", "ended")
  /\ tupleQueue' = [tupleQueue EXCEPT ![t] = QueueReset(@)]
  /\ UNCHANGED <<state, requestStartScan, requestRescan, requestEndScan, is_joined,
                 slot, old_state, fdw, sharedVars, mainVars, histVars>>

(* with none, it sleeps and looks again.                                   *)
EndAgain(t) ==
  /\ ~force_end
  /\ ~requestEndScan[t]
  /\ ~requestRescan[t]
  /\ Goto(t, "end_wait", "end")
  /\ UNCHANGED <<infoVars, slot, old_state, fdw, sharedVars, mainVars, histVars>>

(* After it: to THREAD_EXIT in error, back to RESCAN, or finished.         *)
Ended(t) ==
  /\ \/ /\ InError(t)
        /\ Goto(t, "ended", "exit")
        /\ requestEndScan' = [requestEndScan EXCEPT ![t] = TRUE]
        /\ UNCHANGED state
     \/ /\ ~InError(t) /\ requestRescan[t]
        /\ Goto(t, "ended", "rescan")
        /\ UNCHANGED <<state, requestEndScan>>
     \/ /\ ~InError(t) /\ ~requestRescan[t]
        /\ Goto(t, "ended", "exit")
        /\ SetState(t, "FINISH")
        /\ UNCHANGED requestEndScan
  /\ UNCHANGED <<requestStartScan, requestRescan, is_joined, tupleQueue,
                 slot, old_state, fdw, sharedVars, mainVars, histVars>>

(* THREAD_EXIT: the queue is closed; a thread that failed itself does not  *)
(* end its child scan.                                                     *)
ExitNotify(t) ==
  /\ Goto(t, "exit", IF state[t] = "ERROR_INIT" THEN "final" ELSE "exit_end")
  /\ tupleQueue' = [tupleQueue EXCEPT ![t] = IF InError(t) THEN NotifyError(@) ELSE NotifyFinish(@)]
  /\ UNCHANGED <<state, requestStartScan, requestRescan, requestEndScan, is_joined,
                 slot, old_state, fdw, sharedVars, mainVars, histVars>>

(* Mutant: a thread that was told of an error does not end its child scan. *)
MutEndIsLeft(t) == requestEndScan[t] /\ ~InError(t)

EndIsLeft(t) == requestEndScan[t]

ExitEnd(t) ==
  /\ CanReadLock
  /\ Goto(t, "exit_end", "final")
  /\ fdw' = [fdw EXCEPT ![t].ends = IF EndIsLeft(t) THEN @ + 1 ELSE @]
  /\ requestEndScan' = [requestEndScan EXCEPT ![t] = FALSE]
  /\ UNCHANGED <<state, requestStartScan, requestRescan, is_joined, tupleQueue,
                 slot, old_state, sharedVars, mainVars, histVars>>

(* The thread counts itself out; the last one out after an error clears    *)
(* the force flag.                                                         *)
ThreadFinal(t) ==
  /\ Goto(t, "final", "gone")
  /\ num_running' = num_running - 1
  /\ force_end' = (force_end /\ ~(InError(t) /\ num_running = 1))
  /\ UNCHANGED <<infoVars, slot, old_state, fdw, requestPending, mainVars, histVars>>

Child(t) ==
  \/ ThreadStart(t) \/ BeginCall(t) \/ BeginReturn(t) \/ BeginFail(t)
  \/ Rescan(t) \/ RescanDone(t)
  \/ WaitStart(t) \/ WaitEnd(t) \/ WaitRescan(t) \/ WaitAgain(t) \/ StartScan(t)
  \/ IterateRow(t) \/ IterateEnd(t) \/ IterateFail(t) \/ IterateForced(t)
  \/ CheckPending(t) \/ Pend(t) \/ WokenUp(t) \/ PendingTimeout(t)
  \/ Refused(t) \/ Sleep(t) \/ Add(t) \/ LoopLeft(t)
  \/ EndTurn(t) \/ EndForced(t) \/ EndScan(t) \/ EndReturn(t) \/ EndFail(t)
  \/ EndRescan(t) \/ EndAgain(t) \/ Ended(t)
  \/ ExitNotify(t) \/ ExitEnd(t) \/ ThreadFinal(t)

-----------------------------------------------------------------------------
(* The main thread.  node_incr is the index of whichever loop it is in.    *)

MainGoto(from, to) == mpc = from /\ mpc' = to

(* The loop at hand is over, or looks at thread node_incr.                 *)
LoopOver == node_incr = NThreads
At(t) == node_incr = t

(* spd_CreateChildThreads waits until every thread has started.            *)
CreateDone ==
  /\ MainGoto("create", "idle")
  /\ \A t \in Thread : state[t] # "INIT"
  /\ UNCHANGED <<infoVars, localVars, sharedVars, node_incr, all_finished, startNodeId,
                 lastThreadId, isFirst, level, subxact, histVars>>

(* spd_IterateForeignScan, up to the loop of nextChildTuple: start the     *)
(* scans, allow the slot of the last tuple to be cleared.                  *)
CallIterate ==
  /\ MainGoto("idle", "next")
  /\ outcome = "open"
  /\ requestStartScan' = [t \in Thread |-> requestStartScan[t] \/ isFirst]
  /\ isFirst' = FALSE
  /\ tupleQueue' = [t \in Thread |->
       IF t = lastThreadId THEN [tupleQueue[t] EXCEPT !.safe_to_clear = TRUE]
                           ELSE tupleQueue[t]]
  /\ node_incr' = 0
  /\ all_finished' = TRUE
  /\ UNCHANGED <<state, requestRescan, requestEndScan, is_joined, localVars, sharedVars,
                 startNodeId, lastThreadId, level, subxact, histVars>>

(* The thread nextChildTuple looks at.                                     *)
Turn == (startNodeId + node_incr) % NThreads

(* spd_queue_get takes qmutex, which a sleeping spd_queue_add keeps.       *)
AtQueue(t) == mpc = "next" /\ ~LoopOver /\ t = Turn /\ cpc[t] # "spin"

(* Mutant: the start of the round does not wrap around.                    *)
MutNextStart == startNodeId + 1

(* The next call starts one thread further.                                *)
NextStart == IF startNodeId >= NThreads THEN 0 ELSE startNodeId + 1

(* A tuple is found.                                                       *)
NextTuple(t) ==
  /\ AtQueue(t)
  /\ tupleQueue[t].len > 0
  /\ tupleQueue' = [tupleQueue EXCEPT ![t] = QueueGet(@)]
  /\ got' = [got EXCEPT ![t] = Append(@, QueueHead(tupleQueue[t]))]
  /\ lastThreadId' = t
  /\ startNodeId' = NextStart
  /\ mpc' = "idle"
  /\ UNCHANGED <<state, requestStartScan, requestRescan, requestEndScan, is_joined,
                 localVars, sharedVars, node_incr, all_finished, isFirst, level, subxact,
                 outcome, rescans, nrescan, nsubxact, setting>>

(* Mutant: a queue that is empty for now counts as finished.               *)
MutFinished(t) == tupleQueue[t].queue_state # "ERROR"

Finished(t) == tupleQueue[t].queue_state = "FINISH"

(* None in this queue; a dead child's queue is marked finished when errors *)
(* of children are not to be thrown.                                       *)
NextEmpty(t) ==
  /\ AtQueue(t)
  /\ tupleQueue[t].len = 0
  /\ tupleQueue[t].queue_state = "ERROR" => ~setting.throwErrorIfDead
  /\ tupleQueue' = [tupleQueue EXCEPT ![t] = IF @.queue_state = "ERROR" THEN NotifyFinish(@) ELSE @]
  /\ all_finished' = (all_finished /\ Finished(t))
  /\ node_incr' = node_incr + 1
  /\ UNCHANGED <<state, requestStartScan, requestRescan, requestEndScan, is_joined, localVars,
                 sharedVars, mpc, startNodeId, lastThreadId, isFirst, level, subxact, histVars>>

(* One round is over: NULL if all have finished, else another one.         *)
NextRound ==
  /\ mpc = "next"
  /\ LoopOver
  /\ IF all_finished
       THEN mpc' = "idle" /\ outcome' = "eof" /\ UNCHANGED <<node_incr, all_finished>>
       ELSE node_incr' = 0 /\ all_finished' = TRUE /\ UNCHANGED <<mpc, outcome>>
  /\ UNCHANGED <<infoVars, localVars, sharedVars, startNodeId, lastThreadId, isFirst, level,
                 subxact, got, rescans, nrescan, nsubxact, setting>>

(* A child is dead and that is to be thrown.                               *)
NextError(t) ==
  /\ AtQueue(t)
  /\ tupleQueue[t].len = 0
  /\ tupleQueue[t].queue_state = "ERROR"
  /\ setting.throwErrorIfDead
  /\ mpc' = "notify"
  /\ node_incr' = 0
  /\ UNCHANGED <<infoVars, localVars, sharedVars, all_finished, startNodeId, lastThreadId,
                 isFirst, level, subxact, histVars>>

(* spd_notify_error_to_child_threads,                                      *)
NotifyThread(t) ==
  /\ mpc = "notify"
  /\ At(t)
  /\ state' = [state EXCEPT ![t] = "ERROR"]
  /\ requestEndScan' = [requestEndScan EXCEPT ![t] = TRUE]
  /\ node_incr' = node_incr + 1
  /\ UNCHANGED <<requestStartScan, requestRescan, is_joined, tupleQueue, localVars, sharedVars,
                 mpc, all_finished, startNodeId, lastThreadId, isFirst, level, subxact, histVars>>

(* and elog(ERROR), which aborts the transaction or subtransaction.        *)
ThrowError ==
  /\ mpc = "notify"
  /\ LoopOver
  /\ force_end' = TRUE
  /\ outcome' = "failed"
  /\ mpc' = IF level = 1 THEN "end_call" ELSE "sub_end"
  /\ subxact' = "abort"
  /\ UNCHANGED <<infoVars, localVars, requestPending, num_running, node_incr, all_finished,
                 startNodeId, lastThreadId, isFirst, level, got, rescans, nrescan, nsubxact,
                 setting>>

(* spd_ReScanForeignScan: its first loop sets two flags of every thread    *)
(* that is still at work,                                                  *)
CanRescan(t) == state[t] \notin {"ERROR", "ERROR_INIT", "FINISH"}

CallReScan ==
  /\ MainGoto("idle", "rescan")
  /\ nrescan < MaxReScans
  /\ outcome = "eof" \/ (outcome = "open" /\ (setting.mayLimit \/ isFirst))
  /\ nrescan' = nrescan + 1
  /\ outcome' = "open"
  /\ got' = [t \in Thread |-> <<>>]
  /\ node_incr' = 0
  /\ UNCHANGED <<infoVars, localVars, sharedVars, all_finished, startNodeId, lastThreadId,
                 isFirst, level, subxact, rescans, nsubxact, setting>>

ReScanAsk(t) ==
  /\ mpc = "rescan"
  /\ At(t)
  /\ IF CanRescan(t)
       THEN /\ requestRescan' = [requestRescan EXCEPT ![t] = TRUE]
            /\ isFirst' = TRUE
            /\ startNodeId' = 0
            /\ rescans' = [rescans EXCEPT ![t] = @ + 1]
            /\ mpc' = "rescan_start"
            /\ UNCHANGED node_incr
       ELSE /\ node_incr' = node_incr + 1
            /\ UNCHANGED <<requestRescan, isFirst, startNodeId, rescans, mpc>>
  /\ UNCHANGED <<state, requestStartScan, requestEndScan, is_joined, tupleQueue, localVars,
                 sharedVars, all_finished, lastThreadId, level, subxact,
                 outcome, got, nrescan, nsubxact, setting>>

ReScanStart(t) ==
  /\ MainGoto("rescan_start", "rescan")
  /\ At(t)
  /\ requestStartScan' = [requestStartScan EXCEPT ![t] = TRUE]
  /\ node_incr' = node_incr + 1
  /\ UNCHANGED <<state, requestRescan, requestEndScan, is_joined, tupleQueue, localVars,
                 sharedVars, all_finished, startNodeId, lastThreadId, isFirst, level, subxact,
                 histVars>>

(* and its second one waits until they have done so.                       *)
ReScanWait ==
  /\ MainGoto("rescan", "rescan_wait")
  /\ LoopOver
  /\ node_incr' = 0
  /\ UNCHANGED <<infoVars, localVars, sharedVars, all_finished, startNodeId, lastThreadId,
                 isFirst, level, subxact, histVars>>

ReScanSeen(t) ==
  /\ mpc = "rescan_wait"
  /\ At(t)
  /\ CanRescan(t) => ~requestRescan[t]
  /\ node_incr' = node_incr + 1
  /\ mpc' = IF t = NThreads - 1 THEN "idle" ELSE mpc
  /\ UNCHANGED <<infoVars, localVars, sharedVars, all_finished, startNodeId, lastThreadId,
                 isFirst, level, subxact, histVars>>

(* spd_end_child_node_thread, from spd_EndForeignScan or before the commit *)
(* or abort of the transaction.                                            *)
CallEnd ==
  /\ MainGoto("idle", "end_call")
  /\ outcome # "open" \/ setting.mayLimit
  /\ UNCHANGED <<infoVars, localVars, sharedVars, node_incr, all_finished, startNodeId,
                 lastThreadId, isFirst, level, subxact, histVars>>

EndWakeUp ==
  /\ MainGoto("end_call", "end_loop")
  /\ requestPending' = FALSE
  /\ node_incr' = 0
  /\ UNCHANGED <<infoVars, localVars, force_end, num_running, all_finished, startNodeId,
                 lastThreadId, isFirst, level, subxact, histVars>>

(* The loops that end threads, here and at the end of a subtransaction,    *)
(* which spares the threads of outer levels (spd_end_child_node_thread_    *)
(* explicit): the end is requested, the thread joined.                     *)
MustEnd(t) ==
  /\ ~is_joined[t]
  /\ mpc = "end_loop" \/ ScanLevel >= level

EndRequest(t) ==
  /\ mpc \in {"end_loop", "sub_loop"}
  /\ At(t)
  /\ MustEnd(t)
  /\ requestEndScan' = [requestEndScan EXCEPT ![t] = TRUE]
  /\ mpc' = IF mpc = "end_loop" THEN "end_join" ELSE "sub_join"
  /\ UNCHANGED <<state, requestStartScan, requestRescan, is_joined, tupleQueue, localVars,
                 sharedVars, node_incr, all_finished, startNodeId, lastThreadId, isFirst, level,
                 subxact, histVars>>

EndJoin(t) ==
  /\ mpc \in {"end_join", "sub_join"}
  /\ At(t)
  /\ cpc[t] = "gone"
  /\ is_joined' = [is_joined EXCEPT ![t] = TRUE]
  /\ node_incr' = node_incr + 1
  /\ mpc' = IF mpc = "end_join" THEN "end_loop" ELSE "sub_loop"
  /\ UNCHANGED <<state, requestStartScan, requestRescan, requestEndScan, tupleQueue, localVars,
                 sharedVars, all_finished, startNodeId, lastThreadId, isFirst, level, subxact,
                 histVars>>

EndSkip(t) ==
  /\ mpc \in {"end_loop", "sub_loop"}
  /\ At(t)
  /\ ~MustEnd(t)
  /\ node_incr' = node_incr + 1
  /\ UNCHANGED <<infoVars, localVars, sharedVars, mpc, all_finished, startNodeId, lastThreadId,
                 isFirst, level, subxact, histVars>>

(* The scan is gone, and with its memory context the force flag            *)
(* (spd_reset_callback).                                                   *)
EndOver ==
  /\ MainGoto("end_loop", "done")
  /\ LoopOver
  /\ force_end' = FALSE
  /\ UNCHANGED <<infoVars, localVars, requestPending, num_running, node_incr, all_finished,
                 startNodeId, lastThreadId, isFirst, level, subxact, histVars>>

-----------------------------------------------------------------------------
(* Subtransactions: spd_transaction_callback and spd_sub_xact_callback.    *)
(* mpc = "txn" is where core changes the local transaction.                *)

(* Before a new subtransaction all child threads are pended,               *)
CallSubStart ==
  /\ MainGoto("idle", "sub_wait")
  /\ nsubxact < MaxSubXacts
  /\ nsubxact' = nsubxact + 1
  /\ subxact' = "start"
  /\ requestPending' = TRUE
  /\ node_incr' = 0
  /\ UNCHANGED <<infoVars, localVars, force_end, num_running, all_finished, startNodeId,
                 lastThreadId, isFirst, level, outcome, got, rescans, nrescan, setting>>

(* Mutant: a thread that fetches data is taken for safe.                   *)
MutAtWork(t) == state[t] \in ExecuteStates \ {"ITERATE_RUNNING"}

(* state < SPD_FS_STATE_PRE_END                                            *)
AtWork(t) == state[t] \in ExecuteStates

(* (spd_wait_transaction_thread_safe)                                      *)
SubSafe(t) ==
  /\ mpc = "sub_wait"
  /\ At(t)
  /\ ~AtWork(t)
  /\ node_incr' = node_incr + 1
  /\ mpc' = IF t = NThreads - 1 THEN "txn" ELSE mpc
  /\ UNCHANGED <<infoVars, localVars, sharedVars, all_finished, startNodeId, lastThreadId,
                 isFirst, level, subxact, histVars>>

(* and woken up when it has started.                                       *)
SubStarted ==
  /\ MainGoto("txn", "idle")
  /\ subxact = "start"
  /\ level' = level + 1
  /\ subxact' = "none"
  /\ requestPending' = FALSE
  /\ UNCHANGED <<infoVars, localVars, force_end, num_running, node_incr, all_finished,
                 startNodeId, lastThreadId, isFirst, histVars>>

(* The end of a subtransaction, commit or abort                            *)
(* (spd_at_abort_subtransaction): all threads are woken up, those started  *)
(* in it are ended, the others pended again.                               *)
CallSubEnd ==
  /\ MainGoto("idle", "sub_end")
  /\ level > 1
  /\ subxact' \in {"commit", "abort"}
  /\ UNCHANGED <<infoVars, localVars, sharedVars, node_incr, all_finished, startNodeId,
                 lastThreadId, isFirst, level, histVars>>

SubWakeUp ==
  /\ MainGoto("sub_end", "sub_loop")
  /\ requestPending' = FALSE
  /\ node_incr' = 0
  /\ UNCHANGED <<infoVars, localVars, force_end, num_running, all_finished, startNodeId,
                 lastThreadId, isFirst, level, subxact, histVars>>

SubPend ==
  /\ MainGoto("sub_loop", "sub_wait")
  /\ LoopOver
  /\ requestPending' = TRUE
  /\ node_incr' = 0
  /\ UNCHANGED <<infoVars, localVars, force_end, num_running, all_finished, startNodeId,
                 lastThreadId, isFirst, level, subxact, histVars>>

(* The subtransaction has ended.  A scan started in it is gone when it was *)
(* aborted; the cursor of a scan survives a commit.                        *)
SubEnded ==
  /\ mpc = "txn"
  /\ subxact # "start"
  /\ level' = level - 1
  /\ subxact' = "none"
  /\ mpc' = IF subxact = "abort" /\ ScanLevel >= level THEN "done" ELSE "idle"
  /\ force_end' = (force_end /\ outcome = "failed" /\ ScanLevel < level)
  /\ UNCHANGED <<infoVars, localVars, requestPending, num_running, node_incr, all_finished,
                 startNodeId, lastThreadId, isFirst, histVars>>

(* Another scan of the backend, in an inner subtransaction, throws an      *)
(* error; its memory context is reset when that has been aborted.          *)
OtherScanFails ==
  /\ OtherScans
  /\ MainGoto("idle", "sub_end")
  /\ level > ScanLevel
  /\ force_end' = TRUE
  /\ subxact' = "abort"
  /\ UNCHANGED <<infoVars, localVars, requestPending, num_running, node_incr, all_finished,
                 startNodeId, lastThreadId, isFirst, level, histVars>>

(* What the executor and core ask for, and the rest of what they asked.    *)
Ask == CallIterate \/ CallReScan \/ CallEnd \/ CallSubStart \/ CallSubEnd \/ OtherScanFails

Serve ==
  \/ CreateDone \/ NextRound \/ ThrowError \/ ReScanWait \/ EndWakeUp \/ EndOver
  \/ SubStarted \/ SubWakeUp \/ SubPend \/ SubEnded
  \/ \E t \in Thread :
       \/ NextTuple(t) \/ NextEmpty(t) \/ NextError(t) \/ NotifyThread(t)
       \/ ReScanAsk(t) \/ ReScanStart(t) \/ ReScanSeen(t)
       \/ EndRequest(t) \/ EndJoin(t) \/ EndSkip(t) \/ SubSafe(t)

(* The scan is over.                                                       *)
Done == mpc = "done" /\ UNCHANGED vars

Next == Ask \/ Serve \/ Done \/ \E t \in Thread : Child(t)

(* Every thread is scheduled, and a call that was made goes on; nothing    *)
(* makes the executor or core call.                                        *)
Spec ==
  /\ Init
  /\ [][Next]_vars
  /\ WF_vars(Serve)
  /\ \A t \in Thread : WF_vars(Child(t))

-----------------------------------------------------------------------------
Tuple == (0 .. MaxReScans) \X Nat

(* The type invariant: states, requests and queues of the threads, and     *)
(* where the main thread is in its own calls.                              *)
TypeOK ==
  /\ state \in [Thread -> ThreadState]
  /\ {requestStartScan, requestRescan, requestEndScan, is_joined} \subseteq [Thread -> BOOLEAN]
  /\ \A t \in Thread :
       LET q == tupleQueue[t]
       IN /\ q.start \in SlotIdx /\ q.len \in 0 .. QueueLen
          /\ q.queue_state \in SpdQueueState /\ q.main_process_idx \in SlotIdx \cup {-1}
          /\ \A i \in SlotIdx : q.tuples[i] \in Tuple \cup {NoTuple}
  /\ old_state \in [Thread -> ThreadState \ {"PENDING"}]
  /\ requestPending \in BOOLEAN /\ force_end \in BOOLEAN
  /\ num_running \in 0 .. NThreads
  /\ node_incr \in 0 .. NThreads
  /\ startNodeId \in 0 .. NThreads
  /\ lastThreadId \in Thread \cup {-1}
  /\ level \in 1 .. ScanLevel + MaxSubXacts
  /\ \A t \in Thread : rescans[t] <= nrescan

(* The tuples of a child arrive in order, each once, none of them from     *)
(* before the last ReScanForeignScan, and each rescan is done once: what   *)
(* spd_queue_reset, requestRescan and the queue are for together.          *)
InOrder ==
  \A t \in Thread : got[t] = [k \in 1 .. Len(got[t]) |-> <<rescans[t], k>>]

(* When the scan returns NULL every child has delivered all its rows,      *)
(* except one that failed when throwErrorIfDead is off.                    *)
EofComplete ==
  outcome = "eof" =>
    \A t \in Thread :
      setting.throwErrorIfDead \/ ~fdw[t].failed => Len(got[t]) = setting.rows[t]

(* A child thread is in, or about to enter, a call of its child FDW.       *)
InChildFdw(t) ==
  \/ cpc[t] \in {"begin", "beginning", "iterate", "ending"}
  \/ cpc[t] = "rescan" /\ requestRescan[t] /\ state[t] # "BEGIN"

(* While core changes the transaction ("txn") no child thread works in its *)
(* FDW: what spd_wait_transaction_thread_safe is to bring about, though    *)
(* the threads move on after it has looked at them one by one.  An error   *)
(* that is thrown is excepted: its ERROR hides what the threads are at.    *)
TxnSafe ==
  mpc = "txn" /\ outcome # "failed" /\ ~force_end => \A t \in Thread : ~InChildFdw(t)

(* EndForeignScan of a child scan is called once at most, though both      *)
(* spd_EndForeignScanChild and THREAD_EXIT may do so.                      *)
EndOnce == \A t \in Thread : fdw[t].ends <= 1

(* A child FDW is asked for rows or to rescan only after it has begun and  *)
(* before it has ended.                                                    *)
FdwProtocol ==
  [][\A t \in Thread :
       fdw'[t].row # fdw[t].row \/ fdw'[t].scan # fdw[t].scan
         => fdw[t].begun /\ fdw[t].ends = 0]_vars

(* When the scan is over no thread is left, none has been left unjoined,   *)
(* and the child scans that began and did not fail have been ended.        *)
CleanEnd ==
  mpc = "done" =>
    /\ num_running = 0
    /\ \A t \in Thread :
         /\ cpc[t] = "gone"
         /\ is_joined[t]
         /\ fdw[t].begun /\ ~fdw[t].failed => fdw[t].ends > 0

(* Asleep in spd_queue_add until the main thread gives the tuple back that *)
(* it took last, and waiting for the parameters that come with a fetch.    *)
Asleep(t) == cpc[t] = "spin" /\ ~tupleQueue[t].safe_to_clear
Unstarted(t) == cpc[t] \in {"wait", "waiting"} /\ ~requestStartScan[t]

(* The main thread waits for t, which only another fetch would let go on.  *)
Stuck(t) ==
  /\ At(t)
  /\ \/ mpc \in {"rescan_wait", "end_join", "sub_join"} /\ Asleep(t)
     \/ mpc = "sub_wait" /\ AtWork(t) /\ (Asleep(t) \/ Unstarted(t))

(* Every call returns: a fetch always does, whoever sleeps, and a rescan   *)
(* or the end does unless it waits for a child that sleeps in              *)
(* spd_queue_add - the one place where a child does not see a request.     *)
CallsReturn ==
  mpc \notin {"idle", "done"} ~> mpc \in {"idle", "done"} \/ \E t \in Thread : Stuck(t)

(* The callbacks of core return, and so does the end of the scan, forced   *)
(* or not: pended threads, threads that time out and threads told of an    *)
(* error do not keep the transaction from going on.  Only a sleeping child *)
(* does, and one without its parameters when it is waited for as unsafe.   *)
CallbacksReturn ==
  mpc \in {"sub_end", "sub_loop", "sub_join", "sub_wait", "end_call", "end_loop", "end_join"}
    ~> mpc \in {"idle", "done"} \/ \E t \in Thread : Stuck(t)

(* A child that has a row to add leaves the loop when it is asked to end   *)
(* or to rescan: "If rescan or endscan is requested, break immediately."   *)
AddingRow(t) == cpc[t] \in {"pend", "pended", "add", "spin"}

BreaksOnRequest == \A t \in Thread : AddingRow(t) /\ Asked(t) ~> ~AddingRow(t)

=============================================================================
