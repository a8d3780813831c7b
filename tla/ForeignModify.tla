---------------------------- MODULE ForeignModify ----------------------------
(***************************************************************************)
(* INSERT, UPDATE and DELETE through pgspider_core_fdw: the main thread    *)
(* (the backend) and one child thread per child node, which runs the       *)
(* foreign modify of that node's FDW.                                      *)
(*                                                                         *)
(* The main thread hands a row, or a batch of rows, to a child thread by   *)
(* setting requestExecModify, which the child clears when the row is done, *)
(* and asks it to end by requestEndModify.  Both sides write the state of  *)
(* the child thread; some of those writes, not all, are made under a       *)
(* stateMutex.  UPDATE stands for DELETE too, their loops are the same.    *)
(*                                                                         *)
(* Rows are numbered in the order in which the executor passes them.  The  *)
(* calls of the child FDW are external: each may fail.                     *)
(***************************************************************************)
EXTENDS Integers, Sequences, FiniteSets, FiniteSetsExt, SequencesExt

CONSTANTS
  NThreads,          \* fdw_private->nThreads
  Modes,             \* the statements: see Mode
  MayFail,           \* children whose FDW may raise errors
  ThrowErrorIfDead,  \* throwErrorIfDead
  ScanMayFail,       \* a foreign scan that feeds the statement may fail
  BatchLimit         \* SPD_BATCH_SIZE_MAX_LIMIT

Thread == 0 .. NThreads - 1

(* A statement: its operation, the rows it has, the batch_size option (0   *)
(* if not set, 1 also for RETURNING and triggers), the batch size of each  *)
(* child's FDW, throwCandidateError, and whether rows may name their       *)
(* server by __spd_url.                                                    *)
Mode == [op : {"INSERT", "UPDATE"}, rows : Nat, option : Nat,
         child : [Thread -> Nat \ {0}], throwCandidateError : BOOLEAN, url : BOOLEAN]

ASSUME ModifyAssumption ==
  /\ NThreads \in Nat \ {0}
  /\ Modes \subseteq Mode
  /\ MayFail \subseteq Thread
  /\ {ThrowErrorIfDead, ScanMayFail} \subseteq BOOLEAN
  /\ BatchLimit \in Nat \ {0}

(* SpdModifyThreadState, cut at the states the code compares with.         *)
BelowPreExec == {"INIT", "BEGIN"}
InsertStates == {"EXEC_SIMPLE_INSERT", "EXEC_BATCH_INSERT"}
BelowExec == BelowPreExec \cup {"PRE_EXEC"} \cup InsertStates
BelowFinish == BelowExec \cup {"EXEC", "PRE_END", "END"}
ErrorStates == {"ERROR_INIT", "ERROR"}
ThreadState == BelowFinish \cup {"FINISH"} \cup ErrorStates

VARIABLES
  \* ModifyThreadInfo of each child thread, and the status of its child
  state, requestExecModify, requestEndModify, is_joined, batch_size, slots, status,
  \* local to each child thread: its place in spd_ForeignModify_thread, how it
  \* inserts ("one" row, the "rows" or "batch"es of a batch), rows to be done
  cpc, kind, todo,
  \* the child FDW: begun, a call after that failed, calls of EndForeignModify
  fdw,
  \* shared by all threads of the backend
  force_end, num_running,
  \* the main thread: its place, a loop index, the child it talks to, the rows
  \* it has split over the children, the state it sets, the batch size
  mpc, node_incr, cur, child_slots, tell, ri_BatchSize,
  \* the statement, what became of it, and history: the rows sent to each
  \* child and those its FDW has applied
  mode, outcome, nsent, sent, applied

infoVars == <<state, requestExecModify, requestEndModify, is_joined, batch_size, slots, status>>
localVars == <<cpc, kind, todo, fdw>>
sharedVars == <<force_end, num_running>>
mainVars == <<mpc, node_incr, cur, child_slots, tell, ri_BatchSize>>
histVars == <<outcome, nsent, sent, applied>>
vars == <<infoVars, localVars, sharedVars, mainVars, histVars, mode>>

(* spd_BeginForeignModify and spd_setForeignModifyThreadInfo; the threads  *)
(* are created.                                                            *)
Init ==
  /\ mode \in Modes
  /\ state = [t \in Thread |-> "INIT"]
  /\ requestExecModify = [t \in Thread |-> FALSE]
  /\ requestEndModify = [t \in Thread |-> FALSE]
  /\ is_joined = [t \in Thread |-> FALSE]
  /\ batch_size = [t \in Thread |-> 0]
  /\ slots = [t \in Thread |-> <<>>]
  /\ status = [t \in Thread |-> "Alive"]
  /\ cpc = [t \in Thread |-> "created"]
  /\ kind = [t \in Thread |-> "one"]
  /\ todo = [t \in Thread |-> <<>>]
  /\ fdw = [t \in Thread |-> [begun |-> FALSE, failed |-> FALSE, ends |-> 0]]
  /\ force_end = FALSE
  /\ num_running = 0
  /\ mpc = "create"
  /\ node_incr = 0
  /\ cur = 0
  /\ child_slots = [t \in Thread |-> <<>>]
  /\ tell = "INIT"
  /\ ri_BatchSize = 1
  /\ outcome = "open"
  /\ nsent = 0
  /\ sent = [t \in Thread |-> <<>>]
  /\ applied = [t \in Thread |-> <<>>]

-----------------------------------------------------------------------------
(* The child thread: spd_ForeignModify_thread.                             *)

Goto(t, from, to) == cpc[t] = from /\ cpc' = [cpc EXCEPT ![t] = to]

SetState(t, s) == state' = [state EXCEPT ![t] = s]

(* THREAD_ERROR_INIT_CHECK finds the state of t in error.                  *)
InError(t) == state[t] \in ErrorStates

(* The stateMutex of the child t, which spd_set_fm_state takes only for    *)
(* the first child, around the state of every child.                       *)
LockedByMain(t) == t = 0 /\ mpc = "set_state"

(* The thread starts.  No error can be notified before it leaves INIT, the *)
(* main thread waits for that.  An UPDATE needs the thread that scans the  *)
(* child.                                                                  *)
ThreadStart(t) ==
  /\ num_running' = num_running + 1
  /\ \/ Goto(t, "created", "begin") /\ SetState(t, "BEGIN")
     \/ /\ mode.op = "UPDATE" /\ t \in MayFail
        /\ Goto(t, "created", "exit") /\ SetState(t, "ERROR")
  /\ UNCHANGED <<requestExecModify, requestEndModify, is_joined, batch_size, slots, status,
                 kind, todo, fdw, force_end, mainVars, histVars, mode>>

(* spd_BeginForeignModifyChild: BeginForeignModify succeeds or fails.  A   *)
(* failure makes the child of an INSERT no target any more, if             *)
(* throwCandidateError is off.                                             *)
BeginCall(t) ==
  /\ Goto(t, "begin", "begun")
  /\ \/ fdw' = [fdw EXCEPT ![t].begun = TRUE] /\ UNCHANGED <<state, status>>
     \/ /\ t \in MayFail
        /\ IF mode.op = "INSERT" /\ ~mode.throwCandidateError
             THEN status' = [status EXCEPT ![t] = "NotTarget"] /\ UNCHANGED state
             ELSE /\ ~LockedByMain(t)
                  /\ SetState(t, "ERROR_INIT")
                  /\ status' = [status EXCEPT ![t] = "Dead"]
        /\ UNCHANGED fdw
  /\ UNCHANGED <<requestExecModify, requestEndModify, is_joined, batch_size, slots,
                 kind, todo, sharedVars, mainVars, histVars, mode>>

(* After the begin: in error, no target, or on to the operation; an INSERT *)
(* first asks the FDW for its batch size.                                  *)
AfterBegin(t) ==
  /\ IF InError(t)
       THEN /\ Goto(t, "begun", "exit")
            /\ requestEndModify' = [requestEndModify EXCEPT ![t] = TRUE]
            /\ UNCHANGED <<state, batch_size>>
       ELSE /\ UNCHANGED requestEndModify
            /\ IF status[t] = "NotTarget"
                 THEN /\ ~LockedByMain(t)
                      /\ Goto(t, "begun", "exit") /\ SetState(t, "FINISH") /\ UNCHANGED batch_size
                 ELSE /\ UNCHANGED state
                      /\ IF mode.op = "INSERT"
                           THEN /\ Goto(t, "begun", "sized")
                                /\ batch_size' = [batch_size EXCEPT ![t] = mode.child[t]]
                           ELSE Goto(t, "begun", "enter") /\ UNCHANGED batch_size
  /\ UNCHANGED <<requestExecModify, is_joined, slots, status, kind, todo, fdw,
                 sharedVars, mainVars, histVars, mode>>

(* Under its stateMutex, the thread looks whether it has been told how to  *)
(* insert; if not, it sets PRE_EXEC.                                       *)
SizedCheck(t) ==
  /\ ~LockedByMain(t)
  /\ IF state[t] \in BelowPreExec THEN Goto(t, "sized", "tell") ELSE Goto(t, "sized", "await")
  /\ UNCHANGED <<infoVars, kind, todo, fdw, sharedVars, mainVars, histVars, mode>>

SizedTell(t) ==
  /\ Goto(t, "tell", "await")
  /\ SetState(t, "PRE_EXEC")
  /\ UNCHANGED <<requestExecModify, requestEndModify, is_joined, batch_size, slots, status,
                 kind, todo, fdw, sharedVars, mainVars, histVars, mode>>

(* How the thread was told to insert, as far as its FDW can.               *)
InsertKind(t) ==
  IF state[t] = "EXEC_SIMPLE_INSERT" THEN "one"
  ELSE IF batch_size[t] > 1 THEN "batch" ELSE "rows"

(* Wait to be told how to insert, or to end.                               *)
AwaitInsert(t) ==
  /\ IF state[t] \in InsertStates
       THEN Goto(t, "await", "enter") /\ kind' = [kind EXCEPT ![t] = InsertKind(t)]
       ELSE requestEndModify[t] /\ Goto(t, "await", "exit") /\ UNCHANGED kind
  /\ UNCHANGED <<infoVars, todo, fdw, sharedVars, mainVars, histVars, mode>>

(* The loops over the requests: spd_ExecForeignInsertChildLoop,            *)
(* spd_ExecForeignBatchInsertChildLoop, spd_ExecForeignUpdateChildLoop and *)
(* spd_ExecForeignDeleteChildLoop.                                         *)
EnterLoop(t) ==
  /\ Goto(t, "enter", "loop")
  /\ SetState(t, "EXEC")
  /\ UNCHANGED <<requestExecModify, requestEndModify, is_joined, batch_size, slots, status,
                 kind, todo, fdw, sharedVars, mainVars, histVars, mode>>

(* An INSERT gives up its request when the loop ends.                      *)
LeaveLoop(t) ==
  /\ force_end \/ requestEndModify[t]
  /\ Goto(t, "loop", "left")
  /\ requestExecModify' = IF mode.op = "INSERT" THEN [requestExecModify EXCEPT ![t] = FALSE]
                                                ELSE requestExecModify
  /\ UNCHANGED <<state, requestEndModify, is_joined, batch_size, slots, status,
                 kind, todo, fdw, sharedVars, mainVars, histVars, mode>>

TakeRequest(t) ==
  /\ ~force_end /\ ~requestEndModify[t] /\ requestExecModify[t]
  /\ Goto(t, "loop", "call")
  /\ todo' = [todo EXCEPT ![t] = slots[t]]
  /\ UNCHANGED <<infoVars, kind, fdw, sharedVars, mainVars, histVars, mode>>

(* The rows of the next call of the FDW: n_batch batches and the remainder *)
(* of a batch, or one row.                                                 *)
RowsOfCall(t) ==
  IF kind[t] = "batch" THEN Min({batch_size[t], Len(todo[t])}) ELSE 1

(* One call of ExecForeignInsert, ExecForeignBatchInsert or                *)
(* ExecForeignUpdate.  A batch would be given up between two calls if all  *)
(* threads were forced to end; only a scan does that, and the main thread  *)
(* runs none while it waits for a batch.                                   *)
ExecCall(t) ==
  LET n == RowsOfCall(t)
  IN  /\ Goto(t, "call", IF n = Len(todo[t]) THEN "done" ELSE "call")
      /\ applied' = [applied EXCEPT ![t] = @ \o SubSeq(todo[t], 1, n)]
      /\ todo' = [todo EXCEPT ![t] = SubSeq(@, n + 1, Len(@))]
      /\ UNCHANGED <<infoVars, kind, fdw, sharedVars, mainVars, outcome, nsent, sent, mode>>

(* Mutant: the error does not end the loop.                                *)
MutExecFail(t) ==
  /\ t \in MayFail
  /\ Goto(t, "call", "loop")
  /\ SetState(t, "ERROR_INIT")
  /\ fdw' = [fdw EXCEPT ![t].failed = TRUE]
  /\ UNCHANGED <<requestExecModify, requestEndModify, is_joined, batch_size, slots, status,
                 kind, todo, sharedVars, mainVars, histVars, mode>>

(* The call fails; the request stays.                                      *)
ExecFail(t) ==
  /\ t \in MayFail
  /\ Goto(t, "call", "left")
  /\ SetState(t, "ERROR_INIT")
  /\ fdw' = [fdw EXCEPT ![t].failed = TRUE]
  /\ UNCHANGED <<requestExecModify, requestEndModify, is_joined, batch_size, slots, status,
                 kind, todo, sharedVars, mainVars, histVars, mode>>

ExecDone(t) ==
  /\ Goto(t, "done", "loop")
  /\ requestExecModify' = [requestExecModify EXCEPT ![t] = FALSE]
  /\ UNCHANGED <<state, requestEndModify, is_joined, batch_size, slots, status,
                 kind, todo, fdw, sharedVars, mainVars, histVars, mode>>

(* After the loop: in error, or on to the end.                             *)
AfterLoop(t) ==
  /\ IF InError(t)
       THEN /\ Goto(t, "left", "exit")
            /\ requestEndModify' = [requestEndModify EXCEPT ![t] = TRUE]
       ELSE Goto(t, "left", "pre_end") /\ UNCHANGED requestEndModify
  /\ UNCHANGED <<state, requestExecModify, is_joined, batch_size, slots, status,
                 kind, todo, fdw, sharedVars, mainVars, histVars, mode>>

PreEnd(t) ==
  /\ Goto(t, "pre_end", "ending")
  /\ SetState(t, "PRE_END")
  /\ UNCHANGED <<requestExecModify, requestEndModify, is_joined, batch_size, slots, status,
                 kind, todo, fdw, sharedVars, mainVars, histVars, mode>>

(* spd_EndForeignModifyChild waits for the request to end, or not.         *)
EndWait(t) ==
  /\ IF force_end
       THEN Goto(t, "ending", "ended") /\ UNCHANGED state
       ELSE requestEndModify[t] /\ Goto(t, "ending", "endcall") /\ SetState(t, "END")
  /\ UNCHANGED <<requestExecModify, requestEndModify, is_joined, batch_size, slots, status,
                 kind, todo, fdw, sharedVars, mainVars, histVars, mode>>

(* Mutant: the request to end is not taken back.                           *)
MutEndCall(t) ==
  /\ Goto(t, "endcall", "ended")
  /\ fdw' = [fdw EXCEPT ![t].ends = @ + 1]
  /\ UNCHANGED <<infoVars, kind, todo, sharedVars, mainVars, histVars, mode>>

EndCall(t) ==
  /\ Goto(t, "endcall", "ended")
  /\ \/ /\ fdw' = [fdw EXCEPT ![t].ends = @ + 1]
        /\ requestEndModify' = [requestEndModify EXCEPT ![t] = FALSE]
        /\ UNCHANGED state
     \/ /\ t \in MayFail
        /\ fdw' = [fdw EXCEPT ![t].ends = @ + 1, ![t].failed = TRUE]
        /\ SetState(t, "ERROR_INIT")
        /\ UNCHANGED requestEndModify
  /\ UNCHANGED <<requestExecModify, is_joined, batch_size, slots, status,
                 kind, todo, sharedVars, mainVars, histVars, mode>>

AfterEnd(t) ==
  /\ Goto(t, "ended", "exit")
  /\ IF InError(t)
       THEN requestEndModify' = [requestEndModify EXCEPT ![t] = TRUE] /\ UNCHANGED state
       ELSE SetState(t, "FINISH") /\ UNCHANGED requestEndModify
  /\ UNCHANGED <<requestExecModify, is_joined, batch_size, slots, status,
                 kind, todo, fdw, sharedVars, mainVars, histVars, mode>>

(* THREAD_EXIT: pass the error on, or end what has to be ended; errors of  *)
(* that end are ignored.  The last thread resets the flag.                 *)
ThreadExit(t) ==
  /\ Goto(t, "exit", "gone")
  /\ IF state[t] = "ERROR_INIT"
       THEN SetState(t, "ERROR") /\ UNCHANGED <<requestEndModify, fdw>>
       ELSE /\ UNCHANGED state
            /\ IF requestEndModify[t]
                 THEN /\ fdw' = [fdw EXCEPT ![t].ends = @ + 1]
                      /\ \/ requestEndModify' = [requestEndModify EXCEPT ![t] = FALSE]
                         \/ t \in MayFail /\ UNCHANGED requestEndModify
                 ELSE UNCHANGED <<requestEndModify, fdw>>
  /\ num_running' = num_running - 1
  /\ force_end' = (force_end /\ num_running' # 0)
  /\ UNCHANGED <<requestExecModify, is_joined, batch_size, slots, status,
                 kind, todo, mainVars, histVars, mode>>

-----------------------------------------------------------------------------
(* The main thread.                                                        *)

MainGoto(from, to) == mpc = from /\ mpc' = to

(* ereport(ERROR): the statement has failed, its transaction is aborted.   *)
Fail == outcome' = "failed" /\ mpc' = "end"

(* spd_notify_error_to_child_modify_threads begins; t = -1 for             *)
(* spd_notify_error_to_all_child_modify_threads.                           *)
StartNotify(t) == cur' = t /\ node_incr' = 0 /\ mpc' = "notify"

(* spd_CreateChildForeignModifyThreads waits until all threads have left   *)
(* INIT; then core asks for the batch size of an INSERT.                   *)
ThreadsCreated ==
  /\ \A t \in Thread : state[t] # "INIT"
  /\ MainGoto("create", IF mode.op = "INSERT" THEN "size" ELSE "idle")
  /\ UNCHANGED <<infoVars, localVars, sharedVars, node_incr, cur, child_slots, tell, ri_BatchSize,
                 histVars, mode>>

(* Mutant: the first child that has batches is not counted.                *)
MutComputedBatchSize(sizes) ==
  Min({m \in 1 .. BatchLimit : \A t \in Thread : m % sizes[t] = 0})
    * (Cardinality({t \in Thread : sizes[t] > 1}) - 1)

(* The batch size for the sizes of the children: their least common        *)
(* multiple times the number of those that have batches, or the limit.     *)
ComputedBatchSize(sizes) ==
  LET multiples == {m \in 1 .. BatchLimit : \A t \in Thread : m % sizes[t] = 0}
      num_bulk_child == Cardinality({t \in Thread : sizes[t] > 1})
  IN  IF multiples = {} THEN BatchLimit
                        ELSE Min({BatchLimit, Min(multiples) * num_bulk_child})

(* A child that was asked for no batch size has none.                      *)
ChildSizes == [t \in Thread |-> IF batch_size[t] > 1 THEN batch_size[t] ELSE 1]

(* Whether the children are told to insert batches, and the batch size.    *)
IsBatch == IF mode.option = 0 THEN \E t \in Thread : batch_size[t] > 1 ELSE mode.option > 1

BatchSize ==
  IF ~IsBatch THEN 1
  ELSE IF mode.option = 0 THEN ComputedBatchSize(ChildSizes) ELSE Min({mode.option, BatchLimit})

(* spd_GetForeignModifyBatchSize, up to spd_set_fm_state.  A batch size    *)
(* that was not set is computed when all children have told theirs.        *)
GetBatchSize ==
  /\ MainGoto("size", "set")
  /\ node_incr' = 0
  /\ mode.option = 0 => \A t \in Thread : state[t] \notin BelowPreExec
  /\ tell' = IF IsBatch THEN "EXEC_BATCH_INSERT" ELSE "EXEC_SIMPLE_INSERT"
  /\ ri_BatchSize' = BatchSize
  /\ UNCHANGED <<infoVars, localVars, sharedVars, cur, child_slots, histVars, mode>>

(* spd_set_fm_state looks at the state of each child and sets it, under    *)
(* the stateMutex of the first child.                                      *)
SetStateCheck ==
  /\ node_incr < NThreads
  /\ cpc[0] # "tell"
  /\ IF state[node_incr] \in BelowFinish
       THEN MainGoto("set", "set_state") /\ UNCHANGED node_incr
       ELSE MainGoto("set", "set") /\ node_incr' = node_incr + 1
  /\ UNCHANGED <<infoVars, localVars, sharedVars, cur, child_slots, tell, ri_BatchSize,
                 histVars, mode>>

SetStateWrite ==
  /\ MainGoto("set_state", "set")
  /\ SetState(node_incr, tell)
  /\ node_incr' = node_incr + 1
  /\ UNCHANGED <<requestExecModify, requestEndModify, is_joined, batch_size, slots, status,
                 localVars, sharedVars, cur, child_slots, tell, ri_BatchSize, histVars, mode>>

SetStateDone ==
  /\ node_incr = NThreads
  /\ MainGoto("set", "idle")
  /\ UNCHANGED <<infoVars, localVars, sharedVars, node_incr, cur, child_slots, tell, ri_BatchSize,
                 histVars, mode>>

(* The executor has a row, or a batch of rows: spd_ExecForeignInsert,      *)
(* spd_ExecForeignBatchInsert, spd_ExecForeignUpdate or                    *)
(* spd_ExecForeignDelete.                                                  *)
ExecModify ==
  /\ nsent < mode.rows
  /\ MainGoto("idle", "ready")
  /\ node_incr' = 0
  /\ UNCHANGED <<infoVars, localVars, sharedVars, cur, child_slots, tell, ri_BatchSize,
                 histVars, mode>>

(* The statement fails elsewhere: in a foreign scan, which forces all      *)
(* threads of the backend to end, or in the backend itself.                *)
StatementFails ==
  /\ ScanMayFail
  /\ mpc = "idle" /\ Fail
  /\ force_end' \in BOOLEAN
  /\ UNCHANGED <<infoVars, localVars, num_running, node_incr, cur, child_slots, tell,
                 ri_BatchSize, nsent, sent, applied, mode>>

(* spd_wait_child_modify_threads_ready, one child at a time.               *)
WaitReady ==
  /\ mpc = "ready"
  /\ IF node_incr = NThreads
       THEN mpc' = "send" /\ UNCHANGED <<node_incr, cur>>
       ELSE /\ state[node_incr] \notin BelowExec \cup {"ERROR_INIT"}
            /\ IF state[node_incr] = "ERROR"
                 THEN StartNotify(node_incr)
                 ELSE node_incr' = node_incr + 1 /\ UNCHANGED <<mpc, cur>>
  /\ UNCHANGED <<infoVars, localVars, sharedVars, child_slots, tell, ri_BatchSize, histVars, mode>>

(* Hand the rows s to the child t.                                         *)
Send(t, s) ==
  /\ slots' = [slots EXCEPT ![t] = s]
  /\ requestExecModify' = [requestExecModify EXCEPT ![t] = TRUE]
  /\ sent' = [sent EXCEPT ![t] = @ \o s]

(* The children a row of an INSERT may go to: the candidates or, if it has *)
(* a URL, the one that names or that it was scanned from (InsertRouting).  *)
Targets == {t \in Thread : status[t] = "Alive" \/ mode.url}

(* spd_ExecForeignInsert sends a row, or finds the target in error.        *)
SendRow ==
  /\ mpc = "send" /\ mode.op = "INSERT" /\ ri_BatchSize = 1
  /\ \E t \in Targets :
       IF requestEndModify[t] \/ state[t] = "ERROR"
         THEN StartNotify(t) /\ UNCHANGED <<slots, requestExecModify, sent, nsent>>
         ELSE /\ Send(t, <<nsent + 1>>)
              /\ nsent' = nsent + 1
              /\ cur' = t /\ mpc' = "wait" /\ UNCHANGED node_incr
  /\ UNCHANGED <<state, requestEndModify, is_joined, batch_size, status, localVars, sharedVars,
                 child_slots, tell, ri_BatchSize, outcome, applied, mode>>

(* No candidate is left: spd_routing_choose fails.                         *)
SendNoCandidate ==
  /\ mpc = "send" /\ mode.op = "INSERT"
  /\ {t \in Thread : status[t] = "Alive"} = {}
  /\ Fail
  /\ UNCHANGED <<infoVars, localVars, sharedVars, node_incr, cur, child_slots, tell,
                 ri_BatchSize, nsent, sent, applied, mode>>

(* Wait for the row; a child that has finished leaves it undone.           *)
WaitRow ==
  /\ mpc = "wait"
  /\ IF requestExecModify[cur] /\ state[cur] = "ERROR"
       THEN StartNotify(cur)
       ELSE /\ ~requestExecModify[cur] \/ state[cur] = "FINISH"
            /\ mpc' = "idle" /\ UNCHANGED <<node_incr, cur>>
  /\ UNCHANGED <<infoVars, localVars, sharedVars, child_slots, tell, ri_BatchSize, histVars, mode>>

(* spd_split_slots looks for a first target, and gives the rows of the     *)
(* batch to the children: to the one a URL names, or to the next one,      *)
(* whatever its status.                                                    *)
SplitSlots ==
  /\ mode.op = "INSERT" /\ ri_BatchSize > 1
  /\ MainGoto("send", "split")
  /\ \E t \in Thread : status[t] = "Alive" /\ cur' = t
  /\ child_slots' = [t \in Thread |-> <<>>]
  /\ UNCHANGED <<infoVars, localVars, sharedVars, node_incr, tell, ri_BatchSize, histVars, mode>>

(* Core fills every batch but the last.                                    *)
BatchOver(n) == n = mode.rows \/ n % ri_BatchSize = 0

SplitRow(t) ==
  /\ mpc = "split"
  /\ \/ t = cur /\ cur' = (cur + 1) % NThreads
     \/ mode.url /\ UNCHANGED cur
  /\ child_slots' = [child_slots EXCEPT ![t] = Append(@, nsent + 1)]
  /\ nsent' = nsent + 1
  /\ mpc' = IF BatchOver(nsent + 1) THEN "bsend" ELSE "split"
  /\ node_incr' = 0
  /\ UNCHANGED <<infoVars, localVars, sharedVars, tell, ri_BatchSize, outcome, sent, applied, mode>>

(* A URL of the batch names no child: all threads are told to end.         *)
SplitFails ==
  /\ mpc = "split" /\ mode.url
  /\ StartNotify(-1)
  /\ UNCHANGED <<infoVars, localVars, sharedVars, child_slots, tell, ri_BatchSize, histVars, mode>>

(* spd_ExecForeignBatchInsert sends each child its part.                   *)
SendBatch ==
  /\ mpc = "bsend" /\ node_incr < NThreads
  /\ IF state[node_incr] = "ERROR"
       THEN StartNotify(node_incr) /\ UNCHANGED <<slots, requestExecModify, sent>>
       ELSE /\ IF child_slots[node_incr] # <<>>
                 THEN Send(node_incr, child_slots[node_incr])
                 ELSE UNCHANGED <<slots, requestExecModify, sent>>
            /\ node_incr' = node_incr + 1
            /\ UNCHANGED <<mpc, cur>>
  /\ UNCHANGED <<state, requestEndModify, is_joined, batch_size, status, localVars, sharedVars,
                 child_slots, tell, ri_BatchSize, outcome, nsent, applied, mode>>

(* num_child_node_executing is 0.                                          *)
BatchDone == \A t \in Thread : ~requestExecModify[t]

(* Wait until all children have done their part, or one is in error.       *)
WaitBatch ==
  /\ mpc = "bsend" /\ node_incr = NThreads
  /\ \/ BatchDone /\ mpc' = "idle" /\ UNCHANGED <<node_incr, cur>>
     \/ \E t \in Thread :
          requestExecModify[t] /\ state[t] = "ERROR" /\ StartNotify(t)
  /\ UNCHANGED <<infoVars, localVars, sharedVars, child_slots, tell, ri_BatchSize, histVars, mode>>

(* spd_ExecForeignUpdate finds the child of the row.                       *)
SendUpdate ==
  /\ mpc = "send" /\ mode.op = "UPDATE"
  /\ \E t \in Thread :
       IF requestEndModify[t]
         THEN StartNotify(t)
         ELSE cur' = t /\ mpc' = "uwait" /\ UNCHANGED node_incr
  /\ UNCHANGED <<infoVars, localVars, sharedVars, child_slots, tell, ri_BatchSize, histVars, mode>>

(* Mutant: the row is handed over while the last one is being done.        *)
MutWaitUpdate ==
  /\ mpc = "uwait"
  /\ Send(cur, <<nsent + 1>>)
  /\ nsent' = nsent + 1
  /\ mpc' = "idle" /\ UNCHANGED <<node_incr, cur>>
  /\ UNCHANGED <<state, requestEndModify, is_joined, batch_size, status, localVars, sharedVars,
                 child_slots, tell, ri_BatchSize, outcome, applied, mode>>

(* It waits until the child has done its last row and hands it this one.   *)
WaitUpdate ==
  /\ mpc = "uwait"
  /\ IF requestExecModify[cur]
       THEN /\ requestEndModify[cur] \/ state[cur] = "ERROR"
            /\ StartNotify(cur) /\ UNCHANGED <<slots, requestExecModify, sent, nsent>>
       ELSE /\ Send(cur, <<nsent + 1>>)
            /\ nsent' = nsent + 1
            /\ mpc' = "idle" /\ UNCHANGED <<node_incr, cur>>
  /\ UNCHANGED <<state, requestEndModify, is_joined, batch_size, status, localVars, sharedVars,
                 child_slots, tell, ri_BatchSize, outcome, applied, mode>>

(* The other children are put in error and asked to end; then the error is *)
(* raised.                                                                 *)
NotifyState ==
  /\ mpc = "notify" /\ node_incr < NThreads
  /\ IF node_incr = cur
       THEN node_incr' = node_incr + 1 /\ UNCHANGED <<state, mpc>>
       ELSE SetState(node_incr, "ERROR") /\ mpc' = "notify_end" /\ UNCHANGED node_incr
  /\ UNCHANGED <<requestExecModify, requestEndModify, is_joined, batch_size, slots, status,
                 localVars, sharedVars, cur, child_slots, tell, ri_BatchSize, histVars, mode>>

NotifyEnd ==
  /\ MainGoto("notify_end", "notify")
  /\ requestEndModify' = [requestEndModify EXCEPT ![node_incr] = TRUE]
  /\ node_incr' = node_incr + 1
  /\ UNCHANGED <<state, requestExecModify, is_joined, batch_size, slots, status,
                 localVars, sharedVars, cur, child_slots, tell, ri_BatchSize, histVars, mode>>

NotifyThrow ==
  /\ mpc = "notify" /\ node_incr = NThreads
  /\ Fail
  /\ UNCHANGED <<infoVars, localVars, sharedVars, node_incr, cur, child_slots, tell,
                 ri_BatchSize, nsent, sent, applied, mode>>

(* All rows are done: spd_EndForeignModify.                                *)
NoMoreRows ==
  /\ nsent = mode.rows
  /\ MainGoto("idle", "end")
  /\ UNCHANGED <<infoVars, localVars, sharedVars, node_incr, cur, child_slots, tell,
                 ri_BatchSize, histVars, mode>>

(* spd_end_child_foreign_modify_thread, called at the end of the statement *)
(* and when its transaction ends: children in error are dead.              *)
MarkDead ==
  /\ MainGoto("end", "end_request")
  /\ node_incr' = 0
  /\ status' = [t \in Thread |-> IF state[t] = "ERROR" THEN "Dead" ELSE status[t]]
  /\ UNCHANGED <<state, requestExecModify, requestEndModify, is_joined, batch_size, slots,
                 localVars, sharedVars, cur, child_slots, tell, ri_BatchSize, histVars, mode>>

(* Mutant: the main thread does not wait for the last row.                 *)
MutNoRowLeft(t) == TRUE

(* The child has no row to do, or will not do it.                          *)
NoRowLeft(t) ==
  \/ ~requestExecModify[t]
  \/ status[t] # "Alive"
  \/ requestEndModify[t]
  \/ state[t] \notin BelowFinish

RequestEnd ==
  /\ mpc = "end_request" /\ node_incr < NThreads
  /\ IF is_joined[node_incr]
       THEN node_incr' = node_incr + 1 /\ UNCHANGED <<mpc, requestEndModify>>
       ELSE /\ NoRowLeft(node_incr)
            /\ requestEndModify' = [requestEndModify EXCEPT ![node_incr] = TRUE]
            /\ mpc' = "join" /\ UNCHANGED node_incr
  /\ UNCHANGED <<state, requestExecModify, is_joined, batch_size, slots, status,
                 localVars, sharedVars, cur, child_slots, tell, ri_BatchSize, histVars, mode>>

Join ==
  /\ MainGoto("join", "end_request")
  /\ cpc[node_incr] = "gone"
  /\ is_joined' = [is_joined EXCEPT ![node_incr] = TRUE]
  /\ node_incr' = node_incr + 1
  /\ UNCHANGED <<state, requestExecModify, requestEndModify, batch_size, slots, status,
                 localVars, sharedVars, cur, child_slots, tell, ri_BatchSize, histVars, mode>>

(* Mutant: errors of the children are not looked at.                       *)
MutDeadError == FALSE

(* spd_aliveError is raised at the end of the statement.                   *)
DeadError == ThrowErrorIfDead /\ \E t \in Thread : state[t] = "ERROR"

(* All threads are joined: the statement fails or has succeeded.           *)
Finish ==
  /\ mpc = "end_request" /\ node_incr = NThreads
  /\ IF outcome = "open"
       THEN IF DeadError THEN Fail ELSE outcome' = "ok" /\ mpc' = "closed"
       ELSE mpc' = "closed" /\ UNCHANGED outcome
  /\ UNCHANGED <<infoVars, localVars, sharedVars, node_incr, cur, child_slots, tell,
                 ri_BatchSize, nsent, sent, applied, mode>>

Main ==
  \/ ThreadsCreated \/ GetBatchSize \/ SetStateCheck \/ SetStateWrite \/ SetStateDone
  \/ ExecModify \/ WaitReady \/ SendRow \/ SendNoCandidate \/ WaitRow
  \/ SplitSlots \/ (\E t \in Thread : SplitRow(t)) \/ SplitFails \/ SendBatch \/ WaitBatch
  \/ SendUpdate \/ WaitUpdate
  \/ NotifyState \/ NotifyEnd \/ NotifyThrow
  \/ NoMoreRows \/ MarkDead \/ RequestEnd \/ Join \/ Finish

Child(t) ==
  \/ ThreadStart(t) \/ BeginCall(t) \/ AfterBegin(t) \/ SizedCheck(t) \/ SizedTell(t)
  \/ AwaitInsert(t) \/ EnterLoop(t) \/ LeaveLoop(t) \/ TakeRequest(t)
  \/ ExecCall(t) \/ ExecFail(t) \/ ExecDone(t)
  \/ AfterLoop(t) \/ PreEnd(t) \/ EndWait(t) \/ EndCall(t) \/ AfterEnd(t) \/ ThreadExit(t)

Closed == mpc = "closed" /\ UNCHANGED vars

Next == Main \/ StatementFails \/ (\E t \in Thread : Child(t)) \/ Closed

(* The main thread and the child threads are threads of the operating      *)
(* system, which schedules each of them again and again; their waits are   *)
(* loops around pthread_yield.                                             *)
Fairness == WF_vars(Main) /\ \A t \in Thread : WF_vars(Child(t))

Spec == Init /\ [][Next]_vars /\ Fairness

-----------------------------------------------------------------------------
(* Types.                                                                  *)
TypeOK ==
  /\ mode \in Modes
  /\ state \in [Thread -> ThreadState]
  /\ {requestExecModify, requestEndModify, is_joined} \subseteq [Thread -> BOOLEAN]
  /\ batch_size \in [Thread -> Nat]
  /\ {slots, todo, child_slots, sent, applied} \subseteq [Thread -> Seq(Nat)]
  /\ status \in [Thread -> {"Alive", "NotTarget", "Dead"}]
  /\ cpc \in [Thread -> {"created", "begin", "begun", "sized", "tell", "await", "enter", "loop",
                         "call", "done", "left", "pre_end", "ending", "endcall", "ended", "exit",
                         "gone"}]
  /\ kind \in [Thread -> {"one", "rows", "batch"}]
  /\ fdw \in [Thread -> [begun : BOOLEAN, failed : BOOLEAN, ends : Nat]]
  /\ force_end \in BOOLEAN
  /\ num_running \in Nat
  /\ mpc \in {"create", "size", "set", "set_state", "idle", "ready", "send", "wait", "split",
              "bsend", "uwait", "notify", "notify_end", "end", "end_request", "join", "closed"}
  /\ node_incr \in 0 .. NThreads
  /\ cur \in Thread \cup {-1}
  /\ tell \in ThreadState
  /\ ri_BatchSize \in Nat \ {0}
  /\ outcome \in {"open", "ok", "failed"}
  /\ nsent \in 0 .. mode.rows

(* Whatever the interleaving of hand-over, failure and end, the rows that  *)
(* a child's FDW has applied are the first ones of those handed to it, in  *)
(* their order: none is overwritten in mtThrdInfo->slot before the child   *)
(* has taken it, none is done twice.                                       *)
InOrder == \A t \in Thread : IsPrefix(applied[t], sent[t])

(* A child's FDW is asked to apply rows only between its BeginForeignModify *)
(* and its EndForeignModify, and not after a call of it has failed.        *)
ExecOnBegun ==
  \A t \in Thread : cpc[t] = "call" => fdw[t].begun /\ ~fdw[t].failed /\ fdw[t].ends = 0

(* A statement that succeeds had no error at any child, but those of an    *)
(* INSERT that dropped a candidate; no race of state writes hides one.     *)
NoErrorLost ==
  outcome = "ok" => \A t \in Thread : /\ ~fdw[t].failed
                                      /\ fdw[t].begun \/ status[t] = "NotTarget"

(* When the statement is over every thread is gone and joined, and every   *)
(* modify that was begun at a child has been ended there, unless it        *)
(* failed or the threads were forced to end by a failing scan.             *)
CleanEnd ==
  mpc = "closed" =>
    /\ num_running = 0
    /\ \A t \in Thread : /\ cpc[t] = "gone" /\ is_joined[t]
                         /\ outcome = "ok" /\ fdw[t].begun => fdw[t].ends = 1

(* The rows of the statement that have been applied.                       *)
Done == UNION {ToSet(applied[t]) : t \in Thread}

(* The threads carry out a statement: every row once or an error, nothing  *)
(* after the end, and an end: no child waits for the main thread while     *)
(* that waits for the child.                                               *)
Statement == INSTANCE ModifyStatement
  WITH rows <- 1 .. mode.rows, done <- Done,
       outcome <- IF mpc = "closed" THEN outcome ELSE "open"

Implements == Statement!Spec
==============================================================================
