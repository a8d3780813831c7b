---------------------------- MODULE DirectModify ----------------------------
(***************************************************************************)
(* UPDATE and DELETE pushed down to the child nodes: the main thread and   *)
(* one child thread per child node, which runs the direct modification of  *)
(* that node's FDW.                                                        *)
(*                                                                         *)
(* A child modifies its rows as soon as its thread runs: requestStartScan  *)
(* is set by the main thread and cleared by the child, and nobody waits    *)
(* for it.  RETURNING is refused when the statement is planned, so no      *)
(* tuple passes the queue, only its state.  The main thread waits for the  *)
(* queues, adds up the rows, and later asks the children to end.  Both     *)
(* sides write the state of a child thread and requestEndScan, without a   *)
(* lock.  The calls of the child FDW are external: each may fail.          *)
(***************************************************************************)
EXTENDS Integers, FiniteSets, Functions

CONSTANTS
  NThreads,          \* fdw_private->nThreads
  Rows,              \* Rows[t]: the rows the statement modifies at child t
  MayFail,           \* children whose FDW may raise errors
  ThrowErrorIfDead   \* values throwErrorIfDead may have

Thread == 0 .. NThreads - 1

ASSUME DirectAssumption ==
  /\ NThreads \in Nat \ {0}
  /\ Rows \in [Thread -> Nat]
  /\ MayFail \subseteq Thread
  /\ ThrowErrorIfDead \subseteq BOOLEAN

ErrorStates == {"ERROR_INIT", "ERROR"}
ThreadState == {"INIT", "BEGIN", "ITERATE", "PRE_END", "END", "FINISH"} \cup ErrorStates

VARIABLES
  \* ForeignScanThreadInfo of each child thread, the state of its queue, and
  \* es_processed of the child's executor state
  state, requestEndScan, is_joined, queue_state, child_processed,
  \* the place of each child thread in spd_DirectModify_thread
  cpc,
  \* the child FDW: begun, its rows modified, a call failed, calls of
  \* EndDirectModify
  fdw,
  \* shared by all threads of the backend
  force_end, num_running,
  \* the main thread: its place, a loop index, the local of nextChildTuple,
  \* es_processed of the statement
  mpc, node_incr, all_finished, es_processed,
  \* the setting of the backend, and what became of the statement
  throwErrorIfDead, outcome

infoVars == <<state, requestEndScan, is_joined, queue_state, child_processed>>
sharedVars == <<force_end, num_running>>
mainVars == <<mpc, node_incr, all_finished, es_processed, throwErrorIfDead, outcome>>
vars == <<infoVars, cpc, fdw, sharedVars, mainVars>>

(* spd_BeginDirectModify, up to the creation of the threads.               *)
Init ==
  /\ state = [t \in Thread |-> "INIT"]
  /\ requestEndScan = [t \in Thread |-> FALSE]
  /\ is_joined = [t \in Thread |-> FALSE]
  /\ queue_state = [t \in Thread |-> "OK"]
  /\ child_processed = [t \in Thread |-> 0]
  /\ cpc = [t \in Thread |-> "created"]
  /\ fdw = [t \in Thread |-> [begun |-> FALSE, modified |-> FALSE, failed |-> FALSE, ends |-> 0]]
  /\ force_end = FALSE
  /\ num_running = 0
  /\ mpc = "create"
  /\ node_incr = 0
  /\ all_finished = TRUE
  /\ es_processed = 0
  /\ throwErrorIfDead \in ThrowErrorIfDead
  /\ outcome = "open"

-----------------------------------------------------------------------------
(* The child thread: spd_DirectModify_thread.                              *)

Goto(t, from, to) == cpc[t] = from /\ cpc' = [cpc EXCEPT ![t] = to]

SetState(t, s) == state' = [state EXCEPT ![t] = s]

InError(t) == state[t] \in ErrorStates

(* The scan_mutex is held for writing around IterateDirectModify, so that  *)
(* one child modifies at a time, and for reading around the other calls.   *)
CanReadLock == \A t \in Thread : cpc[t] # "iterating"
CanWriteLock == \A t \in Thread : cpc[t] \notin {"iterating", "beginning", "ending", "exit_ending"}

(* The thread starts.  No error can be notified before it leaves INIT, the *)
(* main thread waits for that.                                             *)
ThreadStart(t) ==
  /\ Goto(t, "created", "begin")
  /\ num_running' = num_running + 1
  /\ SetState(t, "BEGIN")
  /\ UNCHANGED <<requestEndScan, is_joined, queue_state, child_processed, fdw, force_end, mainVars>>

(* A call of the child FDW takes the lock;                                 *)
BeginCall(t) ==
  /\ Goto(t, "begin", "beginning") /\ CanReadLock
  /\ UNCHANGED <<infoVars, fdw, sharedVars, mainVars>>

IterateCall(t) ==
  /\ Goto(t, "iterate", "iterating") /\ CanWriteLock
  /\ UNCHANGED <<infoVars, fdw, sharedVars, mainVars>>

EndCall(t) ==
  /\ Goto(t, "end", "ending") /\ CanReadLock
  /\ UNCHANGED <<infoVars, fdw, sharedVars, mainVars>>

(* it returns,                                                             *)
BeginReturn(t) ==
  /\ Goto(t, "beginning", "begun")
  /\ fdw' = [fdw EXCEPT ![t].begun = TRUE]
  /\ UNCHANGED <<infoVars, sharedVars, mainVars>>

IterateReturn(t) ==
  /\ Goto(t, "iterating", "returned")
  /\ fdw' = [fdw EXCEPT ![t].modified = TRUE]
  /\ child_processed' = [child_processed EXCEPT ![t] = Rows[t]]
  /\ UNCHANGED <<state, requestEndScan, is_joined, queue_state, sharedVars, mainVars>>

(* Mutant: the request is not reset once the child has ended.              *)
MutEndReturn(t) ==
  /\ Goto(t, "ending", "ended")
  /\ fdw' = [fdw EXCEPT ![t].ends = @ + 1]
  /\ UNCHANGED <<infoVars, sharedVars, mainVars>>

EndReturn(t) ==
  /\ Goto(t, "ending", "ended")
  /\ fdw' = [fdw EXCEPT ![t].ends = @ + 1]
  /\ requestEndScan' = [requestEndScan EXCEPT ![t] = FALSE]
  /\ UNCHANGED <<state, is_joined, queue_state, child_processed, sharedVars, mainVars>>

(* or fails: the PG_CATCH of the three calls.                              *)
CallFails(t) ==
  /\ t \in MayFail
  /\ \/ Goto(t, "beginning", "begun")
     \/ Goto(t, "iterating", "iterated")
     \/ Goto(t, "ending", "ended")
  /\ SetState(t, "ERROR_INIT")
  /\ fdw' = [fdw EXCEPT ![t].failed = TRUE, ![t].ends = IF cpc[t] = "ending" THEN @ + 1 ELSE @]
  /\ UNCHANGED <<requestEndScan, is_joined, queue_state, child_processed, sharedVars, mainVars>>

(* IterateDirectModify returned no tuple: the queue is finished.           *)
IterateDone(t) ==
  /\ Goto(t, "returned", "iterated")
  /\ queue_state' = [queue_state EXCEPT ![t] = "FINISH"]
  /\ UNCHANGED <<state, requestEndScan, is_joined, child_processed, fdw, sharedVars, mainVars>>

(* THREAD_ERROR_INIT_CHECK after each call: to THREAD_EXIT in error.       *)
Check(t) ==
  /\ \/ /\ InError(t) /\ cpc[t] \in {"begun", "iterated", "ended"}
        /\ cpc' = [cpc EXCEPT ![t] = "exit"]
        /\ requestEndScan' = [requestEndScan EXCEPT ![t] = TRUE]
     \/ /\ ~InError(t)
        /\ Goto(t, "begun", "start") \/ Goto(t, "iterated", "pre_end") \/ Goto(t, "ended", "finish")
        /\ UNCHANGED requestEndScan
  /\ UNCHANGED <<state, is_joined, queue_state, child_processed, fdw, sharedVars, mainVars>>

(* The next state is written after the check, over an error that the main  *)
(* thread may have notified in between; the end waits for its request.     *)
Enter(t) ==
  /\ \/ Goto(t, "start", "iterate") /\ SetState(t, "ITERATE")
     \/ Goto(t, "pre_end", "wait_end") /\ SetState(t, "PRE_END")
     \/ Goto(t, "wait_end", "end") /\ requestEndScan[t] /\ SetState(t, "END")
     \/ Goto(t, "finish", "exit") /\ SetState(t, "FINISH")
  /\ UNCHANGED <<requestEndScan, is_joined, queue_state, child_processed, fdw, sharedVars,
                 mainVars>>

ExitState(t) == IF InError(t) THEN "ERROR" ELSE "FINISH"

(* THREAD_EXIT: the queue is closed; a thread that failed itself does not  *)
(* end its child, unless it has been notified of an error since.           *)
ExitNotify(t) ==
  /\ Goto(t, "exit", IF state[t] = "ERROR_INIT" THEN "final" ELSE "exit_end")
  /\ queue_state' = [queue_state EXCEPT ![t] = ExitState(t)]
  /\ UNCHANGED <<state, requestEndScan, is_joined, child_processed, fdw, sharedVars, mainVars>>

ExitEnd(t) ==
  /\ IF requestEndScan[t] THEN Goto(t, "exit_end", "exit_ending") /\ CanReadLock
                          ELSE Goto(t, "exit_end", "final")
  /\ UNCHANGED <<infoVars, fdw, sharedVars, mainVars>>

(* EndDirectModify at the exit: its errors are ignored.                    *)
ExitEnded(t) ==
  /\ Goto(t, "exit_ending", "final")
  /\ \/ requestEndScan' = [requestEndScan EXCEPT ![t] = FALSE]
     \/ t \in MayFail /\ UNCHANGED requestEndScan
  /\ fdw' = [fdw EXCEPT ![t].ends = @ + 1]
  /\ UNCHANGED <<state, is_joined, queue_state, child_processed, sharedVars, mainVars>>

(* The thread counts itself out; the last one out clears the force flag if *)
(* it was told of an error, not if it failed itself.                       *)
ThreadFinal(t) ==
  /\ Goto(t, "final", "gone")
  /\ num_running' = num_running - 1
  /\ force_end' = (force_end /\ ~(state[t] = "ERROR" /\ num_running = 1))
  /\ UNCHANGED <<infoVars, fdw, mainVars>>

Child(t) ==
  \/ ThreadStart(t) \/ BeginCall(t) \/ BeginReturn(t)
  \/ IterateCall(t) \/ IterateReturn(t) \/ IterateDone(t)
  \/ EndCall(t) \/ EndReturn(t) \/ CallFails(t) \/ Check(t) \/ Enter(t)
  \/ ExitNotify(t) \/ ExitEnd(t) \/ ExitEnded(t) \/ ThreadFinal(t)

-----------------------------------------------------------------------------
(* The main thread.                                                        *)

MainGoto(from, to) == mpc = from /\ mpc' = to

At(t) == node_incr = t
LoopOver == node_incr = NThreads

(* spd_CreateChildDirectThreads waits until every thread has started.      *)
CreateDone ==
  /\ MainGoto("create", "idle")
  /\ \A t \in Thread : state[t] # "INIT"
  /\ UNCHANGED <<infoVars, cpc, fdw, sharedVars, node_incr, all_finished, es_processed,
                 throwErrorIfDead, outcome>>

(* spd_IterateDirectModify, up to the loop of nextChildTuple.              *)
CallIterate ==
  /\ MainGoto("idle", "next")
  /\ outcome = "open"
  /\ node_incr' = 0 /\ all_finished' = TRUE
  /\ UNCHANGED <<infoVars, cpc, fdw, sharedVars, es_processed, throwErrorIfDead, outcome>>

(* Mutant: a child that is still at work counts as finished.               *)
MutFinished(t) == queue_state[t] # "ERROR"

Finished(t) == queue_state[t] = "FINISH"

(* Mutant: the queue of a dead child stays in error.                       *)
MutSettled(q) == q

Settled(q) == IF q = "ERROR" THEN "FINISH" ELSE q

(* nextChildTuple: the queue of a dead child is marked finished when       *)
(* errors of children are not to be thrown, and counts from the next round;*)
NextEmpty(t) ==
  /\ mpc = "next" /\ At(t)
  /\ queue_state[t] = "ERROR" => ~throwErrorIfDead
  /\ queue_state' = [queue_state EXCEPT ![t] = Settled(@)]
  /\ all_finished' = (all_finished /\ Finished(t))
  /\ node_incr' = node_incr + 1
  /\ UNCHANGED <<state, requestEndScan, is_joined, child_processed, cpc, fdw, sharedVars,
                 mpc, es_processed, throwErrorIfDead, outcome>>

NextRound ==
  /\ mpc = "next" /\ LoopOver /\ ~all_finished
  /\ node_incr' = 0 /\ all_finished' = TRUE
  /\ UNCHANGED <<infoVars, cpc, fdw, sharedVars, mpc, es_processed, throwErrorIfDead, outcome>>

(* The rows of all children, added to those counted so far.                *)
AddRows(n, rows) == FoldFunction(+, n, rows)

(* all have finished, and spd_IterateDirectModify adds up the rows;        *)
IterateNull ==
  /\ LoopOver /\ all_finished
  /\ MainGoto("next", "idle")
  /\ es_processed' = AddRows(es_processed, child_processed)
  /\ outcome' = "ok"
  /\ UNCHANGED <<infoVars, cpc, fdw, sharedVars, node_incr, all_finished, throwErrorIfDead>>

(* a child is dead and that is to be thrown: all threads are notified,     *)
NextError(t) ==
  /\ At(t)
  /\ queue_state[t] = "ERROR" /\ throwErrorIfDead
  /\ MainGoto("next", "notify")
  /\ node_incr' = 0
  /\ UNCHANGED <<infoVars, cpc, fdw, sharedVars, all_finished, es_processed, throwErrorIfDead,
                 outcome>>

NotifyThread(t) ==
  /\ mpc = "notify" /\ At(t)
  /\ SetState(t, "ERROR")
  /\ requestEndScan' = [requestEndScan EXCEPT ![t] = TRUE]
  /\ node_incr' = node_incr + 1
  /\ UNCHANGED <<is_joined, queue_state, child_processed, cpc, fdw, sharedVars,
                 mpc, all_finished, es_processed, throwErrorIfDead, outcome>>

(* and elog(ERROR) aborts the transaction.                                 *)
ThrowError ==
  /\ LoopOver
  /\ MainGoto("notify", "end_call")
  /\ force_end' = TRUE
  /\ outcome' = "failed"
  /\ UNCHANGED <<infoVars, cpc, fdw, num_running, node_incr, all_finished, es_processed,
                 throwErrorIfDead>>

(* The statement fails elsewhere, or is cancelled, before or after the     *)
(* modification.                                                           *)
StatementFails ==
  /\ MainGoto("idle", "end_call")
  /\ outcome' = "failed"
  /\ UNCHANGED <<infoVars, cpc, fdw, sharedVars, node_incr, all_finished, es_processed,
                 throwErrorIfDead>>

CallEnd ==
  /\ MainGoto("idle", "end_call")
  /\ outcome = "ok"
  /\ UNCHANGED <<infoVars, cpc, fdw, sharedVars, node_incr, all_finished, es_processed,
                 throwErrorIfDead, outcome>>

(* spd_end_child_node_thread, from spd_EndDirectModify or before the abort *)
(* of the transaction: the end of each thread is requested and the thread  *)
(* joined, one after the other.                                            *)
EndLoop ==
  /\ MainGoto("end_call", "end_loop")
  /\ node_incr' = 0
  /\ UNCHANGED <<infoVars, cpc, fdw, sharedVars, all_finished, es_processed, throwErrorIfDead,
                 outcome>>

MustEnd(t) == ~is_joined[t]

EndRequest(t) ==
  /\ At(t)
  /\ MainGoto("end_loop", IF MustEnd(t) THEN "join" ELSE "end_loop")
  /\ requestEndScan' = [requestEndScan EXCEPT ![t] = @ \/ MustEnd(t)]
  /\ node_incr' = IF MustEnd(t) THEN node_incr ELSE node_incr + 1
  /\ UNCHANGED <<state, is_joined, queue_state, child_processed, cpc, fdw, sharedVars,
                 all_finished, es_processed, throwErrorIfDead, outcome>>

EndJoin(t) ==
  /\ At(t) /\ cpc[t] = "gone"
  /\ MainGoto("join", "end_loop")
  /\ is_joined' = [is_joined EXCEPT ![t] = TRUE]
  /\ node_incr' = node_incr + 1
  /\ UNCHANGED <<state, requestEndScan, queue_state, child_processed, cpc, fdw, sharedVars,
                 all_finished, es_processed, throwErrorIfDead, outcome>>

(* The statement is gone, and with its memory context the force flag       *)
(* (spd_reset_callback).                                                   *)
EndOver ==
  /\ LoopOver
  /\ MainGoto("end_loop", "done")
  /\ force_end' = FALSE
  /\ UNCHANGED <<infoVars, cpc, fdw, num_running, node_incr, all_finished, es_processed,
                 throwErrorIfDead, outcome>>

Main ==
  \/ CreateDone \/ CallIterate \/ NextRound \/ IterateNull \/ ThrowError \/ StatementFails
  \/ CallEnd \/ EndLoop \/ EndOver
  \/ \E t \in Thread :
       NextEmpty(t) \/ NextError(t) \/ NotifyThread(t) \/ EndRequest(t) \/ EndJoin(t)

Over == mpc = "done" /\ UNCHANGED vars

Next == Main \/ Over \/ \E t \in Thread : Child(t)

(* Every thread is scheduled, and the executor goes on with the statement. *)
Spec ==
  /\ Init
  /\ [][Next]_vars
  /\ WF_vars(Main)
  /\ \A t \in Thread : WF_vars(Child(t))

-----------------------------------------------------------------------------
(* Types.                                                                  *)
TypeOK ==
  /\ state \in [Thread -> ThreadState]
  /\ {requestEndScan, is_joined} \subseteq [Thread -> BOOLEAN]
  /\ queue_state \in [Thread -> {"OK", "FINISH", "ERROR"}]
  /\ child_processed \in [Thread -> Nat]
  /\ cpc \in [Thread -> {"created", "begin", "beginning", "begun", "start", "iterate",
                         "iterating", "returned", "iterated", "pre_end", "wait_end", "end",
                         "ending", "ended", "finish", "exit", "exit_end", "exit_ending",
                         "final", "gone"}]
  /\ fdw \in [Thread -> [begun : BOOLEAN, modified : BOOLEAN, failed : BOOLEAN, ends : Nat]]
  /\ {force_end, all_finished, throwErrorIfDead} \subseteq BOOLEAN
  /\ num_running \in 0 .. NThreads
  /\ mpc \in {"create", "idle", "next", "notify", "end_call", "end_loop", "join", "done"}
  /\ node_incr \in 0 .. NThreads
  /\ outcome \in {"open", "ok", "failed"}

(* The row count of a statement that succeeds is the number of rows its    *)
(* children have modified, and these are all of them unless errors of      *)
(* children are not to be thrown: what the main thread reads without a     *)
(* lock is complete when the queues say so.                                *)
CountExact ==
  outcome = "ok" =>
    /\ es_processed = AddRows(0, [t \in Thread |-> IF fdw[t].modified THEN Rows[t] ELSE 0])
    /\ \A t \in Thread : fdw[t].modified \/ (fdw[t].failed /\ ~throwErrorIfDead)

(* When the statement is over no thread is left or unjoined; a child that  *)
(* has modified its rows has been ended, and exactly once if the statement *)
(* succeeded, though spd_EndDirectModifyChild and THREAD_EXIT both do so.  *)
CleanEnd ==
  mpc = "done" =>
    /\ num_running = 0
    /\ \A t \in Thread :
         /\ cpc[t] = "gone" /\ is_joined[t]
         /\ fdw[t].modified => fdw[t].ends >= 1
         /\ outcome = "ok" => fdw[t].ends <= 1

(* The threads carry out a statement: every child modifies its rows, or    *)
(* the statement fails; nothing is modified after its end; and it ends,    *)
(* whatever locks and requests the threads wait for.  A child whose error  *)
(* is not to be thrown counts as done.                                     *)
Statement == INSTANCE ModifyStatement
  WITH rows <- Thread,
       done <- {t \in Thread : fdw[t].modified \/ (fdw[t].failed /\ ~throwErrorIfDead)},
       outcome <- IF mpc = "done" THEN outcome ELSE "open"

Implements == Statement!Spec

=============================================================================
