------------------------------ MODULE RemoteXact ------------------------------
(***************************************************************************)
(* The connections of pgspider_fdw and the transactions on them: a backend *)
(* keeps one connection per user mapping in ConnectionHash, opens a remote *)
(* transaction with one savepoint per local subtransaction when a          *)
(* statement uses the connection, and ends them from the callbacks of the  *)
(* local transaction.                                                      *)
(*                                                                         *)
(* A session at a remote server can be lost at any time; the backend       *)
(* notices that at its next command.  A write at a remote server is a pair *)
(* of the server and a number.  Prepared statements and asynchronous       *)
(* fetches are left out.                                                   *)
(***************************************************************************)
EXTENDS Integers, Sequences, FiniteSets, SequencesExt

CONSTANTS
  Server,              \* the user mappings, one per remote server
  ParallelCommit,      \* servers with the option parallel_commit
  ParallelAbort,       \* servers with the option parallel_abort
  KeepConnections,     \* servers with the option keep_connections
  MayCancel,           \* servers at which a query may be interrupted by a cancel
  ConcurrentFirstUse,  \* child threads may use pgspider_fdw for the first time together
  MaxLevel, MaxWrites, MaxXacts, MaxBreaks   \* bounds

ASSUME RemoteAssumption ==
  /\ {ParallelCommit, ParallelAbort, KeepConnections, MayCancel} \subseteq SUBSET Server
  /\ ConcurrentFirstUse \in BOOLEAN
  /\ {MaxLevel, MaxWrites, MaxXacts, MaxBreaks} \subseteq Nat /\ MaxLevel >= 1

VARIABLES
  \* ConnectionHash: 0 if NULL, else how often it was created; the child
  \* threads that have found it NULL and will create it
  hash, creators,
  \* ConnCacheEntry of each server: PQstatus of conn ("none" if NULL),
  \* xact_depth, changing_xact_state, invalidated, and the command sent to it
  \* whose result has not been read
  entry,
  \* the session at the server: whether it is up, the writes of each level of
  \* its transaction, whether that has failed, whether a query is running
  remote,
  xact_got_connection,
  \* the backend: GetCurrentTransactionNestLevel, its place, the server it is
  \* getting a connection to and whether that is the second try; the callback
  \* that runs and the entries it has still to look at
  level, pc, cur, retry, event, todo,
  \* history: how the last transaction ended, its writes by level, those that
  \* remote servers have committed, connections given up within it by
  \* pgfdw_reject_incomplete_xact_state_change and those no hash table holds
  outcome, kept, committed, given_up, orphans,
  nwrites, nxacts, nbreaks

hashVars == <<hash, creators>>
xactVars == <<outcome, kept, nwrites, nxacts>>
vars == <<hashVars, entry, remote, xact_got_connection, level, pc, cur, retry, event, todo,
          xactVars, committed, given_up, orphans, nbreaks>>

NoConn == [conn |-> "none", xact_depth |-> 0, changing |-> FALSE, invalidated |-> FALSE,
           sent |-> "no"]
NewConn == [NoConn EXCEPT !.conn = "ok"]
NoSession == [up |-> FALSE, stack |-> <<>>, failed |-> FALSE, busy |-> FALSE]
NewSession == [NoSession EXCEPT !.up = TRUE]

Init ==
  /\ hash = 0 /\ creators = {}
  /\ entry = [s \in Server |-> NoConn]
  /\ remote = [s \in Server |-> NoSession]
  /\ xact_got_connection = FALSE
  /\ level = 0 /\ pc = "run" /\ cur \in Server /\ retry = FALSE
  /\ event = "none" /\ todo = {}
  /\ outcome = "none" /\ kept = <<>> /\ committed = {} /\ given_up = {} /\ orphans = {}
  /\ nwrites = 0 /\ nxacts = 0 /\ nbreaks = 0

-----------------------------------------------------------------------------
(* The session at a server (external).                                     *)

Connected(s) == entry[s].conn # "none"

WritesOf(stack) == UNION Range(stack)

(* The session is lost, and with it its transaction; if COMMIT had been    *)
(* sent it may have been done before.                                      *)
LoseSession(s) ==
  /\ remote[s].up
  /\ nbreaks < MaxBreaks
  /\ nbreaks' = nbreaks + 1
  /\ remote' = [remote EXCEPT ![s] = NoSession]
  /\ \/ UNCHANGED committed
     \/ /\ entry[s].sent = "COMMIT" /\ ~remote[s].failed
        /\ committed' = committed \cup WritesOf(remote[s].stack)
  /\ UNCHANGED <<hashVars, entry, xact_got_connection, level, pc, cur, retry, event, todo,
                 xactVars, given_up, orphans>>

(* The session after COMMIT: of a failed transaction it is a rollback,     *)
(* which is no error.                                                      *)
AfterCommit(s) == NewSession

CommittedBy(s) == IF remote[s].failed THEN {} ELSE WritesOf(remote[s].stack)

(* The session after RELEASE SAVEPOINT of the level n.                     *)
AfterRelease(s, n) ==
  [remote[s] EXCEPT !.stack = Append(SubSeq(@, 1, n - 2), @[n - 1] \cup @[n])]

(* The session after the abort command for the level n: ABORT TRANSACTION, *)
(* or ROLLBACK TO SAVEPOINT and RELEASE SAVEPOINT.                         *)
AfterRollback(s, n) ==
  IF n = 1 THEN NewSession
  ELSE [remote[s] EXCEPT !.stack = SubSeq(@, 1, n - 1), !.failed = FALSE, !.busy = FALSE]

-----------------------------------------------------------------------------
(* Entries.                                                                *)

SetEntry(s, e) == entry' = [entry EXCEPT ![s] = e]
SetRemote(s, r) == remote' = [remote EXCEPT ![s] = r]

(* PQstatus after a command that has failed.                               *)
Noticed(s, e) == IF remote[s].up THEN e ELSE [e EXCEPT !.conn = "bad"]

(* disconnect_pg_server: the session ends; a COMMIT that was sent may      *)
(* still be done.                                                          *)
DisconnectServer(s) ==
  /\ SetEntry(s, NoConn)
  /\ SetRemote(s, NoSession)
  /\ IF entry[s].sent = "COMMIT"
       THEN committed' \in {committed, committed \cup CommittedBy(s)}
       ELSE UNCHANGED committed

(* Mutant: a connection in an unknown state is kept.                       *)
MutDiscarded(s, e, r) ==
  e.conn # "ok" \/ r.stack # <<>> \/ r.busy \/ e.invalidated \/ s \notin KeepConnections

(* pgfdw_reset_xact_state has to discard the connection.                   *)
Discarded(s, e, r) ==
  \/ e.conn # "ok" \/ r.stack # <<>> \/ r.busy
  \/ e.changing \/ e.invalidated \/ s \notin KeepConnections

(* pgfdw_reset_xact_state, for an entry e and a session r.                 *)
ResetXactState(s, e, r, toplevel) ==
  IF ~toplevel
    THEN SetEntry(s, [e EXCEPT !.xact_depth = @ - 1, !.sent = "no"]) /\ SetRemote(s, r)
  ELSE IF Discarded(s, e, r)
    THEN SetEntry(s, NoConn) /\ SetRemote(s, NoSession)
    ELSE SetEntry(s, [e EXCEPT !.xact_depth = 0, !.sent = "no"]) /\ SetRemote(s, r)

(* The entries that a callback looks at.                                   *)
Affected(ev) ==
  {s \in Server : /\ Connected(s)
                  /\ ev \in {"PRE_COMMIT_SUB", "ABORT_SUB"} => entry[s].xact_depth >= level}

(* The transaction or subtransaction ends: call the callback, which has    *)
(* nothing to do if no connection was used.                                *)
StartCallback(ev) ==
  /\ pc' = "scan" /\ event' = ev
  /\ todo' = IF xact_got_connection THEN Affected(ev) ELSE {}

(* ereport(ERROR) outside of a callback.                                   *)
Raise == StartCallback(IF level = 1 THEN "ABORT" ELSE "ABORT_SUB")

-----------------------------------------------------------------------------
(* The local transaction.                                                  *)

BeginXact ==
  /\ level = 0 /\ nxacts < MaxXacts
  /\ level' = 1 /\ nxacts' = nxacts + 1
  /\ outcome' = "open" /\ kept' = <<{}>> /\ nwrites' = 0
  /\ committed' = {} /\ given_up' = {}
  /\ UNCHANGED <<hashVars, entry, remote, xact_got_connection, pc, cur, retry, event, todo,
                 orphans, nbreaks>>

BeginSub ==
  /\ pc = "run" /\ level \in 1 .. MaxLevel - 1
  /\ level' = level + 1
  /\ kept' = Append(kept, {})
  /\ UNCHANGED <<hashVars, entry, remote, xact_got_connection, pc, cur, retry, event, todo,
                 outcome, nwrites, nxacts, committed, given_up, orphans, nbreaks>>

(* COMMIT, RELEASE, ROLLBACK or ROLLBACK TO by the user.                   *)
EndXact ==
  /\ pc = "run" /\ level > 0 /\ creators = {}
  /\ \E ev \in IF level = 1 THEN {"PRE_COMMIT", "ABORT"} ELSE {"PRE_COMMIT_SUB", "ABORT_SUB"} :
       StartCallback(ev)
  /\ UNCHANGED <<hashVars, entry, remote, xact_got_connection, level, cur, retry,
                 xactVars, committed, given_up, orphans, nbreaks>>

-----------------------------------------------------------------------------
(* PGSpiderGetConnection.                                                  *)

(* The first use creates ConnectionHash, without a lock: a child thread    *)
(* that has found it NULL creates it even if another one has done so.      *)
FindHashNull(s) ==
  /\ pc = "run" /\ level > 0 /\ hash = 0 /\ s \notin creators
  /\ ConcurrentFirstUse \/ creators = {}
  /\ creators' = creators \cup {s}
  /\ UNCHANGED <<hash, entry, remote, xact_got_connection, level, pc, cur, retry, event, todo,
                 xactVars, committed, given_up, orphans, nbreaks>>

(* It may do so while another thread begins its remote transaction, too:   *)
(* that one holds on to its entry of the old hash, so that the two         *)
(* commute, and the model creates the hash after it.                       *)
CreateHash(s) ==
  /\ pc \in {"run", "raise"} /\ s \in creators
  /\ creators' = creators \ {s}
  /\ hash' = hash + 1
  /\ orphans' = orphans \cup {t \in Server : Connected(t)}
  /\ entry' = [t \in Server |-> NoConn]
  /\ UNCHANGED <<remote, xact_got_connection, level, pc, cur, retry, event, todo,
                 xactVars, committed, given_up, nbreaks>>

(* pgfdw_reject_incomplete_xact_state_change finds the state of the remote *)
(* transaction unknown.                                                    *)
Incomplete(s) == Connected(s) /\ entry[s].changing

(* It gives up the connection and raises an error.                         *)
Reject(s) ==
  /\ DisconnectServer(s)
  /\ given_up' = given_up \cup {s}

(* A statement uses the server s.                                          *)
GetRejected(s) ==
  /\ pc = "run" /\ level > 0 /\ hash > 0 /\ s \notin creators \cup orphans
  /\ Incomplete(s)
  /\ Reject(s)
  /\ xact_got_connection' = TRUE
  /\ pc' = "raise"
  /\ UNCHANGED <<hashVars, level, cur, retry, event, todo, xactVars, orphans, nbreaks>>

(* A new connection is needed.                                             *)
NeedsNew(s) == ~Connected(s) \/ (entry[s].invalidated /\ entry[s].xact_depth = 0)

GetConnection(s) ==
  /\ pc = "run" /\ level > 0 /\ hash > 0 /\ s \notin creators \cup orphans
  /\ nwrites < MaxWrites
  /\ ~Incomplete(s)
  /\ IF NeedsNew(s)
       THEN \/ SetEntry(s, NewConn) /\ SetRemote(s, NewSession) /\ pc' = "begin"
            \/ SetEntry(s, NoConn) /\ SetRemote(s, NoSession) /\ pc' = "raise"
       ELSE pc' = "begin" /\ UNCHANGED <<entry, remote>>
  /\ xact_got_connection' = TRUE
  /\ cur' = s /\ retry' = FALSE
  /\ UNCHANGED <<hashVars, level, event, todo, xactVars, committed, given_up, orphans, nbreaks>>

(* An error was raised.                                                    *)
HandleError ==
  /\ pc = "raise" /\ creators = {}
  /\ Raise
  /\ UNCHANGED <<hashVars, entry, remote, xact_got_connection, level, cur, retry,
                 xactVars, committed, given_up, orphans, nbreaks>>

(* Mutant: no savepoint for the subtransactions.                           *)
MutBegun(s) == entry[s].xact_depth > 0

(* Mutant: one savepoint too many.                                         *)
MutBegunLate(s) == entry[s].xact_depth > level

(* begin_remote_xact has no level left to begin.                           *)
Begun(s) == entry[s].xact_depth >= level

(* One START TRANSACTION or SAVEPOINT of begin_remote_xact.                *)
BeginRemote ==
  LET s == cur
  IN  /\ pc = "begin" /\ ~Begun(s)
      /\ remote[s].up
      /\ \/ /\ SetEntry(s, [entry[s] EXCEPT !.xact_depth = @ + 1])
            /\ SetRemote(s, [remote[s] EXCEPT !.stack = Append(@, {})])
            /\ UNCHANGED pc
         \/ /\ SetEntry(s, [entry[s] EXCEPT !.changing = TRUE])
            /\ pc' = "raise" /\ UNCHANGED remote
      /\ UNCHANGED <<hashVars, xact_got_connection, level, cur, retry, event, todo,
                     xactVars, committed, given_up, orphans, nbreaks>>

(* The session is found lost: if no transaction was begun, one new         *)
(* connection is tried.                                                    *)
BeginLost ==
  LET s == cur
  IN  /\ pc = "begin" /\ ~Begun(s)
      /\ ~remote[s].up
      /\ IF entry[s].xact_depth = 0 /\ ~retry
           THEN /\ retry' = TRUE
                /\ \/ SetEntry(s, NewConn) /\ SetRemote(s, NewSession) /\ UNCHANGED pc
                   \/ SetEntry(s, NoConn) /\ pc' = "raise" /\ UNCHANGED remote
           ELSE /\ SetEntry(s, [entry[s] EXCEPT !.changing = TRUE, !.conn = "bad"])
                /\ pc' = "raise" /\ UNCHANGED <<remote, retry>>
      /\ UNCHANGED <<hashVars, xact_got_connection, level, cur, event, todo,
                     xactVars, committed, given_up, orphans, nbreaks>>

(* The statement writes at the server: it succeeds, fails there, is        *)
(* interrupted, or finds the session lost.                                 *)
Query ==
  LET s == cur
      w == <<s, nwrites + 1>>
  IN  /\ pc = "begin" /\ Begun(s)
      /\ nwrites' = nwrites + 1
      /\ \/ /\ remote[s].up
            /\ SetRemote(s, [remote[s] EXCEPT !.stack[Len(remote[s].stack)] = @ \cup {w}])
            /\ kept' = [kept EXCEPT ![level] = @ \cup {w}]
            /\ pc' = "run" /\ UNCHANGED entry
         \/ /\ remote[s].up
            /\ \/ SetRemote(s, [remote[s] EXCEPT !.failed = TRUE])
               \/ s \in MayCancel /\ SetRemote(s, [remote[s] EXCEPT !.busy = TRUE])
            /\ pc' = "raise" /\ UNCHANGED <<entry, kept>>
         \/ /\ ~remote[s].up
            /\ SetEntry(s, [entry[s] EXCEPT !.conn = "bad"])
            /\ pc' = "raise" /\ UNCHANGED <<remote, kept>>
      /\ UNCHANGED <<hashVars, xact_got_connection, level, cur, retry, event, todo,
                     outcome, nxacts, committed, given_up, orphans, nbreaks>>

-----------------------------------------------------------------------------
(* pgfdw_xact_callback and pgfdw_subxact_callback.                         *)

TopLevel == event \in {"PRE_COMMIT", "ABORT"}

(* An error in a callback before the commit: the abort follows.            *)
RaiseInCallback ==
  /\ pc' = "scan" /\ event' = IF TopLevel THEN "ABORT" ELSE "ABORT_SUB"
  /\ todo' = {s \in Server : /\ entry'[s].conn # "none"
                             /\ ~TopLevel => entry'[s].xact_depth >= level}

callbackUnchanged ==
  <<hashVars, xact_got_connection, level, cur, retry, xactVars, orphans, nbreaks>>

(* An entry with no remote transaction.                                    *)
ScanIdle(s) ==
  /\ pc = "scan" /\ TopLevel /\ s \in todo /\ entry[s].xact_depth = 0
  /\ ResetXactState(s, entry[s], remote[s], TRUE)
  /\ todo' = todo \ {s}
  /\ UNCHANGED <<callbackUnchanged, pc, event, committed, given_up>>

Committing(s) ==
  /\ pc = "scan" /\ event \in {"PRE_COMMIT", "PRE_COMMIT_SUB"}
  /\ s \in todo /\ entry[s].xact_depth > 0

CommitRejected(s) ==
  /\ Committing(s) /\ Incomplete(s)
  /\ Reject(s)
  /\ RaiseInCallback
  /\ UNCHANGED callbackUnchanged

(* With parallel_commit the command is only sent.                          *)
CommitSend(s) ==
  /\ Committing(s) /\ ~Incomplete(s) /\ s \in ParallelCommit
  /\ IF remote[s].up
       THEN /\ SetEntry(s, [entry[s] EXCEPT !.changing = TRUE,
                                         !.sent = IF TopLevel THEN "COMMIT" ELSE "RELEASE"])
            /\ todo' = todo \ {s} /\ UNCHANGED <<pc, event>>
       ELSE /\ SetEntry(s, [entry[s] EXCEPT !.changing = TRUE, !.conn = "bad"])
            /\ RaiseInCallback
  /\ UNCHANGED <<callbackUnchanged, remote, committed, given_up>>

(* The result of COMMIT or RELEASE is success.                             *)
CommitOk(s) ==
  LET e == [entry[s] EXCEPT !.changing = FALSE]
  IN  /\ remote[s].up
      /\ IF TopLevel
           THEN /\ ResetXactState(s, e, AfterCommit(s), TRUE)
                /\ committed' = committed \cup CommittedBy(s)
           ELSE /\ ResetXactState(s, e, AfterRelease(s, level), FALSE)
                /\ UNCHANGED committed
      /\ UNCHANGED <<pc, event, given_up>>

(* Mutant: the failure is only a warning.                                  *)
MutCommitFails(s) ==
  LET e == Noticed(s, [entry[s] EXCEPT !.changing = TRUE])
      r == IF ~remote[s].up THEN NoSession
           ELSE IF TopLevel THEN NewSession ELSE [remote[s] EXCEPT !.failed = TRUE]
  IN  /\ ResetXactState(s, e, r, TopLevel)
      /\ todo' = todo \ {s}
      /\ UNCHANGED <<pc, event, committed, given_up>>

(* The result is an error of the server, which fails the transaction or    *)
(* the subtransaction, or there is none because the session is lost, maybe *)
(* after the COMMIT was done.                                              *)
CommitFails(s) ==
  LET e == [entry[s] EXCEPT !.changing = TRUE, !.sent = "no"]
  IN  /\ \/ /\ SetEntry(s, Noticed(s, e))
            /\ SetRemote(s, IF ~remote[s].up THEN NoSession
                            ELSE IF TopLevel THEN NewSession
                            ELSE [remote[s] EXCEPT !.failed = TRUE])
            /\ UNCHANGED committed
         \/ /\ TopLevel /\ remote[s].up
            /\ SetEntry(s, [e EXCEPT !.conn = "bad"])
            /\ SetRemote(s, NoSession)
            /\ committed' = committed \cup CommittedBy(s)
      /\ RaiseInCallback
      /\ UNCHANGED given_up

CommitSerial(s) ==
  /\ Committing(s) /\ ~Incomplete(s) /\ s \notin ParallelCommit
  /\ \/ CommitOk(s) /\ todo' = todo \ {s}
     \/ CommitFails(s)
  /\ UNCHANGED callbackUnchanged

(* pgfdw_finish_pre_commit_cleanup, pgfdw_finish_pre_subcommit_cleanup: an *)
(* entry of pending_entries.                                               *)
CommitFinish(s) ==
  /\ pc = "scan" /\ todo = {} /\ entry[s].sent \in {"COMMIT", "RELEASE"}
  /\ \/ CommitOk(s) /\ UNCHANGED todo
     \/ CommitFails(s)
  /\ UNCHANGED callbackUnchanged

Aborting(s) ==
  /\ pc = "scan" /\ event \in {"ABORT", "ABORT_SUB"}
  /\ s \in todo /\ entry[s].xact_depth > 0

(* The entry and the session when the abort has failed, or is not tried    *)
(* since the connection is unsalvageable.                                  *)
AbortGivenUp(s) ==
  LET e == Noticed(s, [entry[s] EXCEPT !.changing = TRUE, !.sent = "no"])
  IN  IF TopLevel THEN DisconnectServer(s)
      ELSE ResetXactState(s, e, remote[s], FALSE) /\ UNCHANGED committed

(* The cancel of a running query and the abort command succeed.            *)
AbortDone(s) ==
  /\ remote[s].up
  /\ ResetXactState(s, [entry[s] EXCEPT !.changing = FALSE],
                    AfterRollback(s, entry[s].xact_depth), TopLevel)
  /\ UNCHANGED committed

(* pgfdw_abort_cleanup.  Its commands may also time out.                   *)
AbortSerial(s) ==
  /\ Aborting(s) /\ (entry[s].changing \/ s \notin ParallelAbort)
  /\ AbortGivenUp(s) \/ (~entry[s].changing /\ AbortDone(s))
  /\ todo' = todo \ {s}
  /\ UNCHANGED <<callbackUnchanged, pc, event, given_up>>

(* pgfdw_abort_cleanup_begin: the cancel or the abort command is sent.     *)
AbortSend(s) ==
  /\ Aborting(s) /\ ~entry[s].changing /\ s \in ParallelAbort
  /\ \/ /\ remote[s].up
        /\ SetEntry(s, [entry[s] EXCEPT !.changing = TRUE,
                                     !.sent = IF remote[s].busy THEN "CANCEL" ELSE "ABORT"])
        /\ UNCHANGED <<remote, committed>>
     \/ ~remote[s].up /\ AbortGivenUp(s)
  /\ todo' = todo \ {s}
  /\ UNCHANGED <<callbackUnchanged, pc, event, given_up>>

(* pgfdw_finish_abort_cleanup: first the entries of cancel_requested, for  *)
(* which the abort command is sent then.                                   *)
FinishCancel(s) ==
  /\ pc = "scan" /\ todo = {} /\ entry[s].sent = "CANCEL"
  /\ \/ /\ remote[s].up
        /\ SetEntry(s, [entry[s] EXCEPT !.sent = "ABORT"])
        /\ SetRemote(s, [remote[s] EXCEPT !.busy = FALSE, !.failed = TRUE])
        /\ UNCHANGED committed
     \/ AbortGivenUp(s)
  /\ UNCHANGED <<callbackUnchanged, pc, event, todo, given_up>>

FinishAbort(s) ==
  /\ pc = "scan" /\ todo = {} /\ entry[s].sent = "ABORT"
  /\ \A t \in Server : entry[t].sent # "CANCEL"
  /\ AbortDone(s) \/ AbortGivenUp(s)
  /\ UNCHANGED <<callbackUnchanged, pc, event, todo, given_up>>

CallbackDone == pc = "scan" /\ todo = {} /\ \A s \in Server : entry[s].sent = "no"

(* The callback returns and the local transaction, or subtransaction, ends.*)
(* The local commit may fail after PRE_COMMIT.                             *)
XactEnd ==
  /\ CallbackDone /\ TopLevel
  /\ xact_got_connection' = FALSE
  /\ level' = 0 /\ pc' = "run" /\ event' = "none"
  /\ outcome' \in IF event = "PRE_COMMIT" THEN {"committed", "aborted"} ELSE {"aborted"}
  /\ UNCHANGED <<hashVars, entry, remote, cur, retry, todo, kept, nwrites, nxacts,
                 committed, given_up, orphans, nbreaks>>

SubXactEnd ==
  /\ CallbackDone /\ ~TopLevel
  /\ level' = level - 1 /\ pc' = "run" /\ event' = "none"
  /\ kept' = IF event = "PRE_COMMIT_SUB"
               THEN Append(SubSeq(kept, 1, level - 2), kept[level - 1] \cup kept[level])
               ELSE SubSeq(kept, 1, level - 1)
  /\ UNCHANGED <<hashVars, entry, remote, xact_got_connection, cur, retry, todo, outcome,
                 nwrites, nxacts, committed, given_up, orphans, nbreaks>>

-----------------------------------------------------------------------------
(* pgfdw_inval_callback: the options of a server or mapping have changed.  *)
Inval(s) ==
  /\ pc = "run" /\ Connected(s)
  /\ IF entry[s].xact_depth = 0
       THEN DisconnectServer(s)
       ELSE SetEntry(s, [entry[s] EXCEPT !.invalidated = TRUE]) /\ UNCHANGED <<remote, committed>>
  /\ UNCHANGED <<hashVars, xact_got_connection, level, pc, cur, retry, event, todo,
                 xactVars, given_up, orphans, nbreaks>>

(* pgspider_fdw_disconnect: a connection that is in use is not closed.     *)
Disconnect(s) ==
  /\ pc = "run" /\ level > 0 /\ Connected(s)
  /\ entry[s].xact_depth = 0
  /\ DisconnectServer(s)
  /\ UNCHANGED <<hashVars, xact_got_connection, level, pc, cur, retry, event, todo,
                 xactVars, given_up, orphans, nbreaks>>

Next ==
  \/ BeginXact \/ BeginSub \/ EndXact \/ HandleError
  \/ BeginRemote \/ BeginLost \/ Query \/ XactEnd \/ SubXactEnd
  \/ \E s \in Server :
       \/ FindHashNull(s) \/ CreateHash(s) \/ GetRejected(s) \/ GetConnection(s)
       \/ ScanIdle(s) \/ CommitRejected(s) \/ CommitSend(s) \/ CommitSerial(s) \/ CommitFinish(s)
       \/ AbortSerial(s) \/ AbortSend(s) \/ FinishCancel(s) \/ FinishAbort(s)
       \/ Disconnect(s) \/ Inval(s) \/ LoseSession(s)

Spec == Init /\ [][Next]_vars

-----------------------------------------------------------------------------
Write == Server \X (1 .. MaxWrites)

(* Types; an entry is never deeper than the local transaction, so that no  *)
(* callback reports "missed cleaning up".                                  *)
TypeOK ==
  /\ hash \in Nat /\ creators \subseteq Server
  /\ entry \in [Server -> [conn : {"none", "ok", "bad"}, xact_depth : 0 .. MaxLevel,
                           changing : BOOLEAN, invalidated : BOOLEAN,
                           sent : {"no", "COMMIT", "RELEASE", "CANCEL", "ABORT"}]]
  /\ remote \in [Server -> [up : BOOLEAN, stack : Seq(SUBSET Write), failed : BOOLEAN,
                            busy : BOOLEAN]]
  /\ {xact_got_connection, retry} \subseteq BOOLEAN
  /\ level \in 0 .. MaxLevel
  /\ \A s \in Server : entry[s].xact_depth <= level
  /\ pc \in {"run", "begin", "raise", "scan"}
  /\ cur \in Server
  /\ event \in {"none", "PRE_COMMIT", "ABORT", "PRE_COMMIT_SUB", "ABORT_SUB"}
  /\ {todo, given_up, orphans} \subseteq SUBSET Server
  /\ outcome \in {"none", "open", "committed", "aborted"}
  /\ kept \in Seq(SUBSET Write)
  /\ committed \subseteq Write
  /\ {nwrites, nxacts, nbreaks} \subseteq Nat

(* No connection was given up in the transaction, none is lost, and none   *)
(* is known to be in an unknown state.                                     *)
Untroubled == given_up = {} /\ orphans = {} /\ \A s \in Server : ~Incomplete(s)

LocalWrites(s, n) == {w \in kept[n] : w[1] = s}

(* As long as every connection is in a known state, the transaction at     *)
(* each server holds, level by level, the writes that the local            *)
(* transaction and its subtransactions made there, however many of them    *)
(* were begun, released and rolled back in between, and no level is open   *)
(* that the local transaction has closed.                                  *)
RemoteFollows ==
  pc = "run" /\ level > 0 /\ Untroubled =>
    \A s \in Server :
      IF ~Connected(s) THEN \A n \in 1 .. level : LocalWrites(s, n) = {}
      ELSE LET depth == entry[s].xact_depth
           IN  /\ depth <= level
               /\ \A n \in depth + 1 .. level : LocalWrites(s, n) = {}
               /\ remote[s].up => /\ Len(remote[s].stack) = depth
                                  /\ \A n \in 1 .. depth : remote[s].stack[n] = LocalWrites(s, n)
                                  /\ ~remote[s].failed

(* A local transaction that commits has committed at the remote servers    *)
(* exactly its writes: those of subtransactions that were rolled back,     *)
(* also because another server failed to release its savepoint, are not    *)
(* there, and none is missing - if no connection was given up in it.       *)
CommitComplete ==
  outcome = "committed" /\ given_up = {} /\ orphans = {} => committed = kept[1]

(* Between transactions the connections that are kept are ready for the    *)
(* next: no remote transaction is open or running a query, and none is     *)
(* there whose state is unknown or whose options have changed.             *)
CleanIdle ==
  level = 0 => \A s \in Server \ orphans :
    /\ remote[s].stack = <<>> /\ ~remote[s].busy
    /\ Connected(s) => entry[s] = NewConn
===============================================================================
