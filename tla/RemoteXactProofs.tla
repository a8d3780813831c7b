-------------------------- MODULE RemoteXactProofs --------------------------
(***************************************************************************)
(* RemoteXact for any servers and options, any depth of subtransactions    *)
(* and any failures: the remote transactions follow the local one, a local *)
(* commit has all its writes committed, and the connections that are kept  *)
(* between transactions are clean.                                         *)
(***************************************************************************)
EXTENDS RemoteXact, SequenceTheorems, TLAPS

USE RemoteAssumption

(* The callbacks of an abort, and those of a subtransaction.               *)
AbortEvents == {"ABORT", "ABORT_SUB"}
SubEvents == {"PRE_COMMIT_SUB", "ABORT_SUB"}
TopEvents == {"PRE_COMMIT", "ABORT"}

(* The running callback is done with s.                                    *)
Passed(s) == s \notin todo /\ entry[s].sent = "no"

(* The remote transaction is in an unknown state, which lasts until the    *)
(* transaction is aborted or the connection given up.                      *)
Unknown(s) == entry[s].changing /\ entry[s].sent = "no" /\ entry[s].xact_depth > 0

(* The backend: its place, and the server it is getting a connection to.   *)
MainInv ==
  /\ level = 0 => pc = "run" /\ ~xact_got_connection /\ creators = {}
  /\ level > 0 => Len(kept) = level
  /\ outcome = "open" <=> level > 0
  /\ pc # "scan" => todo = {} /\ event = "none"
  /\ pc = "scan" => /\ creators = {} /\ event # "none"
                    /\ event \in TopEvents => level = 1
                    /\ event \in SubEvents => level >= 2
  /\ pc = "begin" => /\ nwrites < MaxWrites /\ cur \notin orphans /\ xact_got_connection
                     /\ Connected(cur) /\ ~entry[cur].changing

(* No entry is left of a connection that its hash table was lost with.     *)
OrphanInv == \A s \in orphans : entry[s] = NoConn

(* A command is sent from a callback, for the level that ends.  One of a   *)
(* commit that was not finished is left to the abort that follows.         *)
SentInv(s) ==
  LET e == entry[s]
  IN  /\ s \in todo => e.conn # "none"
      /\ e.sent # "no" => /\ pc = "scan" /\ e.conn # "none"
                          /\ e.changing /\ e.xact_depth = level
      /\ e.sent = "COMMIT" => event \in TopEvents
      /\ e.sent = "RELEASE" => event \in SubEvents
      /\ e.sent \in {"COMMIT", "RELEASE"} => (s \in todo <=> event \in AbortEvents)
      /\ e.sent \in {"CANCEL", "ABORT"} => s \notin todo /\ event \in AbortEvents

(* A connection and the session at its server.                             *)
SessionInv(s) ==
  LET e == entry[s]
      r == remote[s]
  IN  /\ ~r.up => r = NoSession
      /\ e.conn = "none" => e = NoConn /\ r = NoSession
      /\ e.xact_depth = 0 => r \in {NewSession, NoSession}
      /\ e.xact_depth > 0 => xact_got_connection
      /\ r.up /\ (~e.changing \/ e.sent # "no") => Len(r.stack) = e.xact_depth

(* What the running callback has done and has to do; a transaction that    *)
(* has failed at the server waits for its abort.                           *)
DoneInv(s) ==
  LET e == entry[s]
      r == remote[s]
  IN  /\ pc = "scan" /\ event \in SubEvents =>
           IF Passed(s) THEN e.xact_depth < level ELSE e.xact_depth = level
      /\ ~xact_got_connection \/ (pc = "scan" /\ event \in TopEvents /\ Passed(s)) =>
           e \in {NoConn, NewConn}
      /\ r.failed \/ r.busy =>
           \/ Unknown(s)
           \/ e.xact_depth = level /\ pc = "raise"
           \/ e.xact_depth = level /\ pc = "scan" /\ event \in AbortEvents /\ ~Passed(s)

(* Every connection is in a known state and the transaction is not         *)
(* aborted.                                                                *)
Known == /\ given_up = {} /\ orphans = {} /\ event # "ABORT"
         /\ \A s \in Server : ~Unknown(s)

(* The writes by level when the callback of a subtransaction returns.      *)
KeptAfter ==
  IF event = "PRE_COMMIT_SUB"
    THEN Append(SubSeq(kept, 1, level - 2), kept[level - 1] \cup kept[level])
    ELSE SubSeq(kept, 1, level - 1)

KeptFor(s) == IF event \in SubEvents /\ Passed(s) THEN KeptAfter ELSE kept

(* The writes of W at the server s.                                        *)
At(s, W) == {w \in W : w[1] = s}

CommittedNow(s) == event = "PRE_COMMIT" /\ Passed(s)

(* The levels of the remote transaction hold the local writes.             *)
LevelInv(s) ==
  level > 0 /\ Known /\ ~CommittedNow(s) =>
    \A n \in 1 .. Len(KeptFor(s)) :
      /\ n > entry[s].xact_depth => At(s, KeptFor(s)[n]) = {}
      /\ n <= entry[s].xact_depth /\ remote[s].up => At(s, KeptFor(s)[n]) = remote[s].stack[n]

(* A server has committed its writes once the commit is done there, and    *)
(* none before, unless the session was lost in the middle of that.         *)
CommitInv(s) ==
  level > 0 /\ Known =>
    /\ CommittedNow(s) => At(s, committed) = At(s, kept[1])
    /\ ~CommittedNow(s) => At(s, committed) = {} \/ (entry[s].sent = "COMMIT" /\ ~remote[s].up)

ServerInv(s) == /\ SentInv(s) /\ LevelInv(s) /\ CommitInv(s)
                /\ s \notin orphans => SessionInv(s) /\ DoneInv(s)

(* The inductive invariant.                                                *)
IInv ==
  /\ TypeOK /\ MainInv /\ OrphanInv /\ CommitComplete
  /\ \A s \in Server : ServerInv(s)

-----------------------------------------------------------------------------
(* Entries and sessions.                                                   *)
Entry == [conn : {"none", "ok", "bad"}, xact_depth : 0 .. MaxLevel,
          changing : BOOLEAN, invalidated : BOOLEAN,
          sent : {"no", "COMMIT", "RELEASE", "CANCEL", "ABORT"}]
Session == [up : BOOLEAN, stack : Seq(SUBSET Write), failed : BOOLEAN, busy : BOOLEAN]

(* The types, one by one.                                                  *)
Typed ==
  /\ hash \in Nat /\ creators \subseteq Server
  /\ entry \in [Server -> Entry] /\ remote \in [Server -> Session]
  /\ xact_got_connection \in BOOLEAN /\ retry \in BOOLEAN
  /\ level \in 0 .. MaxLevel
  /\ \A s \in Server : entry[s].xact_depth <= level
  /\ pc \in {"run", "begin", "raise", "scan"}
  /\ cur \in Server
  /\ event \in {"none", "PRE_COMMIT", "ABORT", "PRE_COMMIT_SUB", "ABORT_SUB"}
  /\ todo \subseteq Server /\ given_up \subseteq Server /\ orphans \subseteq Server
  /\ outcome \in {"none", "open", "committed", "aborted"}
  /\ kept \in Seq(SUBSET Write)
  /\ committed \subseteq Write
  /\ nwrites \in Nat /\ nxacts \in Nat /\ nbreaks \in Nat

(* They are those of TypeOK.                                               *)
LEMMA TypedIff == TypeOK <=> Typed
  BY DEF TypeOK, Typed, Entry, Session

(* So are they after a step.                                               *)
LEMMA TypedNext == Typed' => TypeOK'
  BY SMTT(30) DEF TypeOK, Typed, Entry, Session

(* The bounds are numbers.                                                 *)
LEMMA Bounds == /\ MaxLevel \in Nat /\ MaxLevel >= 1 /\ MaxWrites \in Nat
                /\ MaxXacts \in Nat /\ MaxBreaks \in Nat
                /\ ParallelCommit \subseteq Server /\ ParallelAbort \subseteq Server
                /\ KeepConnections \subseteq Server /\ MayCancel \subseteq Server
  BY DEF RemoteAssumption

(* The constant records.                                                   *)
LEMMA ConstantRecords ==
  /\ NoConn \in Entry /\ NewConn \in Entry /\ NoSession \in Session /\ NewSession \in Session
  /\ NoConn.conn = "none" /\ NoConn.xact_depth = 0 /\ ~NoConn.changing /\ NoConn.sent = "no"
  /\ NewConn.conn = "ok" /\ NewConn.xact_depth = 0 /\ ~NewConn.changing /\ NewConn.sent = "no"
  /\ ~NoConn.invalidated /\ ~NewConn.invalidated
  /\ ~NoSession.up /\ NoSession.stack = <<>> /\ ~NoSession.failed /\ ~NoSession.busy
  /\ NewSession.up /\ NewSession.stack = <<>> /\ ~NewSession.failed /\ ~NewSession.busy
<1>1. <<>> \in Seq(SUBSET Write)
  OBVIOUS
<1>2. 0 \in 0 .. MaxLevel
  BY Bounds
<1> QED
  BY <1>1, <1>2 DEF NoConn, NewConn, NoSession, NewSession, Entry, Session

(* An entry is its fields.                                                 *)
LEMMA EntryEqual ==
  ASSUME NEW e \in Entry, NEW f \in Entry, e.conn = f.conn, e.xact_depth = f.xact_depth,
         e.changing = f.changing, e.invalidated = f.invalidated, e.sent = f.sent
  PROVE  e = f
BY DEF Entry

(* The levels of KeptAfter.                                                *)
LEMMA KeptAfterIs ==
  ASSUME Typed, level >= 2, Len(kept) = level
  PROVE  /\ KeptAfter \in Seq(SUBSET Write) /\ Len(KeptAfter) = level - 1
         /\ \A n \in 1 .. level - 1 :
              KeptAfter[n] = IF n = level - 1 /\ event = "PRE_COMMIT_SUB"
                               THEN kept[level - 1] \cup kept[level] ELSE kept[n]
<1>1. level \in Nat /\ kept \in Seq(SUBSET Write)
  BY DEF Typed
<1>2. CASE event = "PRE_COMMIT_SUB"
  <2> DEFINE front == SubSeq(kept, 1, level - 2)
             last == kept[level - 1] \cup kept[level]
  <2>1. front \in Seq(SUBSET Write) /\ Len(front) = level - 2
        /\ \A n \in 1 .. level - 2 : front[n] = kept[n]
    BY <1>1
  <2>2. last \in SUBSET Write
    BY <1>1
  <2>3. KeptAfter = Append(front, last)
    BY <1>2 DEF KeptAfter
  <2> HIDE DEF front, last
  <2>4. /\ Append(front, last) \in Seq(SUBSET Write)
        /\ Len(Append(front, last)) = level - 1
        /\ \A n \in 1 .. level - 1 :
             Append(front, last)[n] = IF n = level - 1 THEN last ELSE front[n]
    BY <1>1, <2>1, <2>2
  <2> QED
    BY <1>1, <1>2, <2>1, <2>3, <2>4 DEF last
<1>3. CASE event # "PRE_COMMIT_SUB"
  BY <1>1, <1>3 DEF KeptAfter
<1> QED
  BY <1>2, <1>3

-----------------------------------------------------------------------------
(* A step that concerns one server: of the others it changes nothing, nor  *)
(* the writes there, and a state does not become known again.              *)
OneServer(s) ==
  /\ \A u \in Server \ {s} : /\ entry'[u] = entry[u] /\ remote'[u] = remote[u]
                             /\ u \in todo' <=> u \in todo
  /\ event' = event /\ level' = level /\ orphans' = orphans
  /\ pc' = "scan" <=> pc = "scan"
  /\ pc = "raise" => pc' = "raise"
  /\ xact_got_connection => xact_got_connection'
  /\ given_up \subseteq given_up'
  /\ Unknown(s) => Unknown(s)' \/ event = "ABORT" \/ given_up' # {}
  /\ Known => \A u \in Server \ {s} : At(u, committed') = At(u, committed)
  /\ \/ kept' = kept
     \/ /\ event = "none" /\ Len(kept') = Len(kept)
        /\ \A n \in 1 .. Len(kept) : \A u \in Server \ {s} : At(u, kept'[n]) = At(u, kept[n])

(* Such a step keeps the invariant of the others.                          *)
LEMMA Frame ==
  ASSUME IInv, NEW s \in Server, OneServer(s)
  PROVE  /\ Known' => Known
         /\ \A u \in Server \ {s} : ServerInv(u)'
<1>1. Known' => Known
  <2> SUFFICES ASSUME Known' PROVE Known
    OBVIOUS
  <2>1. given_up' = {} /\ orphans' = {} /\ event' # "ABORT" /\ \A u \in Server : ~Unknown(u)'
    BY DEF Known
  <2>2. given_up = {} /\ orphans = {} /\ event # "ABORT"
    BY <2>1 DEF OneServer
  <2>3. ~Unknown(s)
    BY <2>1, <2>2 DEF OneServer
  <2>4. \A u \in Server \ {s} : ~Unknown(u)
    BY <2>1 DEF OneServer, Unknown
  <2> QED
    BY <2>2, <2>3, <2>4 DEF Known
<1>2. ASSUME NEW u \in Server \ {s} PROVE ServerInv(u)'
  <2>1. /\ entry'[u] = entry[u] /\ remote'[u] = remote[u]
        /\ u \in todo' <=> u \in todo
        /\ event' = event /\ level' = level /\ orphans' = orphans
        /\ pc' = "scan" <=> pc = "scan"
        /\ pc = "raise" => pc' = "raise"
        /\ xact_got_connection => xact_got_connection'
    BY DEF OneServer
  <2>2. ServerInv(u)
    BY DEF IInv
  <2>3. SentInv(u)'
    BY <2>1, <2>2 DEF ServerInv, SentInv
  <2>4. Passed(u)' = Passed(u) /\ Unknown(u)' = Unknown(u) /\ CommittedNow(u)' = CommittedNow(u)
    BY <2>1 DEF Passed, Unknown, CommittedNow
  <2>5. u \notin orphans' => SessionInv(u)'
    BY <2>1, <2>2 DEF ServerInv, SessionInv
  <2>6. u \notin orphans' => DoneInv(u)'
    BY <2>1, <2>2, <2>4 DEF ServerInv, DoneInv
  <2>7. LevelInv(u)'
    <3>1. CASE kept' = kept
      <4>1. KeptFor(u)' = KeptFor(u)
        BY <2>1, <2>4, <3>1 DEF KeptFor, KeptAfter
      <4> QED
        BY <1>1, <2>1, <2>2, <2>4, <4>1 DEF ServerInv, LevelInv
    <3>2. CASE kept' # kept
      <4>1. KeptFor(u)' = kept' /\ KeptFor(u) = kept
        BY <2>1, <3>2 DEF KeptFor, SubEvents, OneServer
      <4>2. Len(kept') = Len(kept) /\ \A n \in 1 .. Len(kept) : At(u, kept'[n]) = At(u, kept[n])
        BY <3>2 DEF OneServer
      <4> HIDE DEF At
      <4> QED
        BY <1>1, <2>1, <2>2, <2>4, <4>1, <4>2 DEF ServerInv, LevelInv
    <3> QED
      BY <3>1, <3>2
  <2>8. CommitInv(u)'
    <3> SUFFICES ASSUME level' > 0, Known'
                 PROVE  /\ CommittedNow(u)' => At(u, committed') = At(u, kept'[1])
                        /\ ~CommittedNow(u)' => \/ At(u, committed') = {}
                                                \/ (entry'[u].sent = "COMMIT" /\ ~remote'[u].up)
      BY DEF CommitInv, At
    <3>1. At(u, committed') = At(u, committed)
      BY <1>1 DEF OneServer
    <3>2. CommittedNow(u) => kept' = kept
      BY DEF OneServer, CommittedNow
    <3> QED
      BY <1>1, <2>1, <2>2, <2>4, <3>1, <3>2 DEF ServerInv, CommitInv
  <2> QED
    BY <2>3, <2>5, <2>6, <2>7, <2>8 DEF ServerInv
<1> QED
  BY <1>1, <1>2

-----------------------------------------------------------------------------
(* The callbacks.                                                          *)

(* A step of a callback that deals with one connection.                    *)
CallbackAt(s, e, r) ==
  /\ pc = "scan"
  /\ entry' = [entry EXCEPT ![s] = e] /\ remote' = [remote EXCEPT ![s] = r]
  /\ todo' = todo \ {s}
  /\ UNCHANGED <<callbackUnchanged, pc, event, given_up>>

(* It keeps the invariant if it does so for that connection.               *)
LEMMA CallbackStep ==
  ASSUME IInv, NEW s \in Server \ orphans,
         NEW e \in Entry, NEW r \in Session, e.xact_depth <= level,
         CallbackAt(s, e, r),
         committed' \subseteq Write,
         Known => \A u \in Server \ {s} : At(u, committed') = At(u, committed),
         Unknown(s) => Unknown(s)' \/ event = "ABORT",
         ServerInv(s)'
  PROVE  IInv'
<1>1. Typed
  BY TypedIff DEF IInv
<1>2. /\ hash' = hash /\ creators' = creators /\ xact_got_connection' = xact_got_connection
      /\ level' = level /\ cur' = cur /\ retry' = retry /\ outcome' = outcome /\ kept' = kept
      /\ nwrites' = nwrites /\ nxacts' = nxacts /\ orphans' = orphans /\ nbreaks' = nbreaks
      /\ pc' = pc /\ event' = event /\ given_up' = given_up
  BY DEF CallbackAt, callbackUnchanged, hashVars, xactVars
<1>3. pc = "scan" /\ todo' = todo \ {s}
  BY DEF CallbackAt
<1>4. /\ entry' \in [Server -> Entry] /\ remote' \in [Server -> Session]
      /\ entry'[s] = e /\ remote'[s] = r
      /\ \A u \in Server \ {s} : entry'[u] = entry[u] /\ remote'[u] = remote[u]
  BY <1>1 DEF CallbackAt, Typed
<1>5. Typed'
  <2>1. \A u \in Server : entry'[u].xact_depth <= level'
    BY <1>1, <1>2, <1>4 DEF Typed
  <2>2. todo' \subseteq Server
    BY <1>1, <1>3 DEF Typed
  <2> QED
    BY <1>1, <1>2, <1>4, <2>1, <2>2 DEF Typed
<1>6. OneServer(s)
  <2>1. given_up \subseteq given_up'
    BY <1>2
  <2>2. Known => \A u \in Server \ {s} : At(u, committed') = At(u, committed)
    OBVIOUS
  <2> HIDE DEF At, Known
  <2> QED
    BY <1>2, <1>3, <1>4, <2>1, <2>2 DEF OneServer
<1>7. MainInv'
  BY <1>2, <1>3 DEF IInv, MainInv
<1>8. OrphanInv'
  BY <1>1, <1>2, <1>4 DEF IInv, OrphanInv, Typed
<1>9. CommitComplete'
  <2>1. level > 0
    BY <1>1, <1>3 DEF IInv, MainInv, Typed
  <2> QED
    BY <1>2, <2>1 DEF IInv, MainInv, CommitComplete
<1>10. \A u \in Server : ServerInv(u)'
  BY <1>6, Frame
<1>11. TypeOK'
  BY <1>5, TypedNext
<1> QED
  BY <1>7, <1>8, <1>9, <1>10, <1>11 DEF IInv

(* At the top level a callback leaves a clean connection, or none.         *)
LEMMA TopStep ==
  ASSUME IInv, NEW s \in Server \ orphans, TopLevel,
         NEW e \in {NoConn, NewConn}, NEW r \in {NoSession, NewSession},
         e = NoConn => r = NoSession,
         CallbackAt(s, e, r),
         committed' \subseteq Write,
         Unknown(s) => event = "ABORT",
         Known => \A u \in Server \ {s} : At(u, committed') = At(u, committed),
         Known => At(s, committed') = At(s, kept[1])
  PROVE  IInv'
<1>1. Typed /\ e \in Entry /\ r \in Session
  BY TypedIff, ConstantRecords DEF IInv
<1>2. /\ kept' = kept /\ event' = event /\ event \in TopEvents /\ level' = level /\ pc' = pc
      /\ xact_got_connection' = xact_got_connection /\ todo' = todo \ {s} /\ pc = "scan"
      /\ orphans' = orphans /\ given_up' = given_up
  BY DEF CallbackAt, callbackUnchanged, xactVars, TopLevel, TopEvents
<1>3. entry'[s] = e /\ remote'[s] = r
  BY <1>1 DEF CallbackAt, Typed
<1>4. /\ e.xact_depth = 0 /\ e.sent = "no" /\ ~e.changing /\ (e.conn = "none" => e = NoConn)
      /\ ~r.failed /\ ~r.busy /\ r.stack = <<>> /\ (~r.up => r = NoSession)
  BY ConstantRecords
<1>5. Passed(s)' /\ ~Unknown(s)'
  BY <1>2, <1>3, <1>4 DEF Passed, Unknown
<1>6. SentInv(s)'
  BY <1>2, <1>3, <1>4 DEF SentInv
<1>7. SessionInv(s)'
  BY <1>2, <1>3, <1>4 DEF SessionInv
<1>8. DoneInv(s)'
  BY <1>2, <1>3, <1>4, <1>5 DEF DoneInv, TopEvents, SubEvents
<1>9. Known' => Known /\ event = "PRE_COMMIT"
  <2>1. \A u \in Server \ {s} : entry'[u] = entry[u]
    BY DEF CallbackAt
  <2> QED
    BY <1>2, <2>1 DEF Known, Unknown, TopEvents
<1>10. LevelInv(s)'
  BY <1>2, <1>5, <1>9 DEF LevelInv, CommittedNow
<1>11. CommitInv(s)'
  BY <1>2, <1>5, <1>9 DEF CommitInv, CommittedNow, At
<1>12. ServerInv(s)'
  BY <1>6, <1>7, <1>8, <1>10, <1>11 DEF ServerInv
<1>13. e.xact_depth <= level
  BY <1>1, <1>4 DEF Typed
<1> QED
  BY <1>1, <1>12, <1>13, CallbackStep

(* pgfdw_reset_xact_state at the top level.                                *)
LEMMA ResetTop ==
  ASSUME NEW s \in Server, NEW e \in Entry, NEW r \in Session, Typed,
         ResetXactState(s, e, r, TRUE)
  PROVE  \E f \in {NoConn, NewConn}, q \in {NoSession, r} :
           /\ f = NoConn => q = NoSession
           /\ entry' = [entry EXCEPT ![s] = f] /\ remote' = [remote EXCEPT ![s] = q]
<1>1. CASE Discarded(s, e, r)
  BY <1>1 DEF ResetXactState, SetEntry, SetRemote
<1>2. CASE ~Discarded(s, e, r)
  <2>1. [e EXCEPT !.xact_depth = 0, !.sent = "no"] = NewConn
    <3>1. e.conn = "ok" /\ e.changing = FALSE /\ e.invalidated = FALSE
      BY <1>2 DEF Discarded, Entry
    <3> DEFINE f == [e EXCEPT !.xact_depth = 0, !.sent = "no"]
    <3>2. /\ f \in Entry /\ f.conn = "ok" /\ f.xact_depth = 0 /\ f.changing = FALSE
          /\ f.invalidated = FALSE /\ f.sent = "no"
      BY <3>1, ConstantRecords DEF Entry
    <3>3. /\ NewConn \in Entry /\ NewConn.changing = FALSE /\ NewConn.invalidated = FALSE
      BY ConstantRecords DEF Entry
    <3> HIDE DEF f
    <3>4. f = NewConn
      BY <3>2, <3>3, ConstantRecords, EntryEqual
    <3> QED
      BY <3>4 DEF f
  <2>2. NewConn # NoConn
    BY ConstantRecords
  <2> QED
    BY <1>2, <2>1, <2>2 DEF ResetXactState, SetEntry, SetRemote
<1> QED
  BY <1>1, <1>2

(* The abort of a subtransaction is given up: the state of the remote      *)
(* transaction is unknown from then on.                                    *)
LEMMA SubGivenUp ==
  ASSUME IInv, NEW s \in Server \ orphans, pc = "scan", event = "ABORT_SUB", ~Passed(s),
         AbortGivenUp(s), todo' = todo \ {s},
         UNCHANGED <<callbackUnchanged, pc, event, given_up>>
  PROVE  IInv'
<1> DEFINE b == [entry[s] EXCEPT !.changing = TRUE, !.sent = "no"]
           c == Noticed(s, b)
           e == [c EXCEPT !.xact_depth = @ - 1, !.sent = "no"]
           r == remote[s]
<1>1. Typed /\ entry[s] \in Entry /\ r \in Session
  BY TypedIff DEF IInv, Typed
<1>2. SessionInv(s) /\ SentInv(s) /\ entry[s].xact_depth = level /\ level >= 2 /\ level \in Nat
  BY <1>1 DEF IInv, ServerInv, DoneInv, MainInv, SubEvents, Typed
<1>3. entry[s].conn # "none"
  BY <1>2, ConstantRecords DEF SessionInv
<1>4. /\ b \in Entry /\ b.conn = entry[s].conn /\ b.xact_depth = level
      /\ b.changing = TRUE /\ b.sent = "no"
  BY <1>1, <1>2 DEF Entry
<1> HIDE DEF b
<1>5. /\ c \in Entry /\ c.conn # "none" /\ c.xact_depth = level
      /\ c.changing = TRUE /\ c.sent = "no"
  BY <1>3, <1>4 DEF Entry, Noticed
<1> HIDE DEF c
<1>6. /\ e \in Entry /\ e.conn # "none" /\ e.xact_depth = level - 1
      /\ e.changing = TRUE /\ e.sent = "no"
  <2>1. level - 1 \in 0 .. MaxLevel
    BY <1>1, <1>2 DEF Typed
  <2>2. e = [c EXCEPT !.xact_depth = level - 1, !.sent = "no"]
    BY <1>5
  <2> QED
    BY <1>5, <2>1, <2>2 DEF Entry
<1>7. /\ entry' = [entry EXCEPT ![s] = e] /\ remote' = [remote EXCEPT ![s] = r]
      /\ committed' = committed
  BY DEF AbortGivenUp, TopLevel, ResetXactState, SetEntry, SetRemote, b, c
<1> HIDE DEF e, r
<1>8. CallbackAt(s, e, r)
  BY <1>7 DEF CallbackAt
<1>9. /\ entry'[s] = e /\ remote'[s] = remote[s] /\ event' = event /\ level' = level /\ pc' = pc
      /\ xact_got_connection' = xact_got_connection /\ s \notin todo' /\ pc = "scan"
      /\ kept' = kept
  BY <1>1, <1>7 DEF Typed, callbackUnchanged, xactVars, r
<1>10. Unknown(s)' /\ Passed(s)'
  BY <1>2, <1>6, <1>9 DEF Unknown, Passed
<1>11. ~Known' /\ ~CommittedNow(s)'
  BY <1>9, <1>10 DEF Known, CommittedNow
<1>12. SentInv(s)' /\ SessionInv(s)'
  BY <1>2, <1>6, <1>9, <1>1 DEF SentInv, SessionInv
<1>13. DoneInv(s)'
  <2>1. xact_got_connection
    BY <1>2 DEF SessionInv
  <2> QED
    BY <1>2, <1>6, <1>9, <1>10, <2>1 DEF DoneInv, TopEvents, SubEvents
<1>14. ServerInv(s)'
  BY <1>11, <1>12, <1>13 DEF ServerInv, LevelInv, CommitInv
<1>15. committed' \subseteq Write /\ e.xact_depth <= level /\ s \in Server \ orphans
  BY <1>1, <1>2, <1>6, <1>7 DEF Typed
<1>16. Known => \A u \in Server \ {s} : At(u, committed') = At(u, committed)
  BY <1>7
<1> QED
  BY <1>1, <1>6, <1>8, <1>10, <1>14, <1>15, <1>16, CallbackStep DEF r

(* What a step of a callback does not change, in one place.                *)
LEMMA CallbackFacts ==
  ASSUME IInv, NEW s \in Server \ orphans, NEW e, NEW r, CallbackAt(s, e, r)
  PROVE  /\ entry'[s] = e /\ remote'[s] = r
         /\ kept' = kept /\ event' = event /\ level' = level /\ pc = "scan" /\ pc' = "scan"
         /\ xact_got_connection' = xact_got_connection /\ todo' = todo \ {s}
         /\ KeptAfter' = KeptAfter
         /\ ~Unknown(s) => (Known' => Known)
<1>1. Typed
  BY TypedIff DEF IInv
<1>2. /\ entry'[s] = e /\ remote'[s] = r
      /\ \A u \in Server \ {s} : entry'[u] = entry[u]
  BY <1>1 DEF CallbackAt, Typed
<1>3. /\ kept' = kept /\ event' = event /\ level' = level /\ pc = "scan" /\ pc' = "scan"
      /\ xact_got_connection' = xact_got_connection /\ todo' = todo \ {s}
      /\ orphans' = orphans /\ given_up' = given_up
  BY DEF CallbackAt, callbackUnchanged, xactVars
<1>4. ~Unknown(s) => (Known' => Known)
  BY <1>2, <1>3 DEF Known, Unknown
<1>5. KeptAfter' = KeptAfter
  BY <1>3 DEF KeptAfter
<1> QED
  BY <1>2, <1>3, <1>4, <1>5

(* The abort of a subtransaction succeeds.                                 *)
LEMMA SubAborted ==
  ASSUME IInv, NEW s \in Server \ orphans, pc = "scan", event = "ABORT_SUB", ~Passed(s),
         ~entry[s].changing \/ entry[s].sent # "no",
         AbortDone(s), todo' = todo \ {s},
         UNCHANGED <<callbackUnchanged, pc, event, given_up>>
  PROVE  IInv'
<1> DEFINE c == [entry[s] EXCEPT !.changing = FALSE]
           e == [c EXCEPT !.xact_depth = @ - 1, !.sent = "no"]
           r == AfterRollback(s, entry[s].xact_depth)
<1>1. Typed /\ entry[s] \in Entry /\ remote[s] \in Session /\ remote[s].up
  BY TypedIff DEF IInv, Typed, AbortDone
<1>2. /\ SessionInv(s) /\ SentInv(s) /\ LevelInv(s) /\ CommitInv(s)
      /\ entry[s].xact_depth = level /\ level >= 2 /\ level \in Nat /\ Len(kept) = level
  BY <1>1 DEF IInv, ServerInv, DoneInv, MainInv, SubEvents, Typed
<1>3. entry[s].conn # "none" /\ Len(remote[s].stack) = level
  BY <1>1, <1>2, ConstantRecords DEF SessionInv
<1>4. /\ c \in Entry /\ c.conn = entry[s].conn /\ c.xact_depth = level /\ c.changing = FALSE
  BY <1>1, <1>2 DEF Entry
<1>5. /\ entry' = [entry EXCEPT ![s] = e] /\ remote' = [remote EXCEPT ![s] = r]
      /\ committed' = committed
  BY DEF AbortDone, TopLevel, ResetXactState, SetEntry, SetRemote
<1> HIDE DEF c
<1>6. /\ e \in Entry /\ e.conn # "none" /\ e.xact_depth = level - 1
      /\ e.changing = FALSE /\ e.sent = "no"
  <2>1. level - 1 \in 0 .. MaxLevel
    BY <1>1, <1>2 DEF Typed
  <2>2. e = [c EXCEPT !.xact_depth = level - 1, !.sent = "no"]
    BY <1>4
  <2> QED
    BY <1>3, <1>4, <2>1, <2>2 DEF Entry
<1>7. /\ r \in Session /\ r.up = TRUE /\ r.failed = FALSE /\ r.busy = FALSE
      /\ Len(r.stack) = level - 1
      /\ \A n \in 1 .. level - 1 : r.stack[n] = remote[s].stack[n]
  <2> DEFINE k == SubSeq(remote[s].stack, 1, level - 1)
  <2>1. remote[s].stack \in Seq(SUBSET Write)
    BY <1>1 DEF Session
  <2>2. /\ k \in Seq(SUBSET Write) /\ Len(k) = level - 1
        /\ \A n \in 1 .. level - 1 : k[n] = remote[s].stack[n]
    BY <1>2, <1>3, <2>1
  <2>3. r = [remote[s] EXCEPT !.stack = k, !.failed = FALSE, !.busy = FALSE]
    BY <1>2 DEF AfterRollback
  <2> HIDE DEF k, r
  <2> QED
    BY <1>1, <2>2, <2>3 DEF Session
<1> HIDE DEF e, r
<1>8. CallbackAt(s, e, r)
  BY <1>5 DEF CallbackAt
<1>9. ~Unknown(s)
  BY DEF Unknown
<1>10. /\ entry'[s] = e /\ remote'[s] = r /\ kept' = kept /\ event' = event /\ level' = level
       /\ pc' = "scan" /\ xact_got_connection' = xact_got_connection /\ todo' = todo \ {s}
       /\ KeptAfter' = KeptAfter /\ (Known' => Known)
  BY <1>8, <1>9, CallbackFacts
<1>11. Passed(s)' /\ ~CommittedNow(s)' /\ ~CommittedNow(s)
  BY <1>6, <1>10 DEF Passed, CommittedNow
<1>12. SentInv(s)' /\ SessionInv(s)'
  BY <1>2, <1>6, <1>7, <1>10 DEF SentInv, SessionInv
<1>13. DoneInv(s)'
  <2>1. xact_got_connection
    BY <1>2 DEF SessionInv
  <2> QED
    BY <1>2, <1>6, <1>7, <1>10, <1>11, <2>1 DEF DoneInv, TopEvents, SubEvents
<1>14. LevelInv(s)'
  <2> SUFFICES ASSUME Known', NEW n \in 1 .. Len(KeptAfter)
               PROVE  /\ n > e.xact_depth => At(s, KeptAfter[n]) = {}
                      /\ n <= e.xact_depth /\ r.up => At(s, KeptAfter[n]) = r.stack[n]
    <3>1. KeptFor(s)' = KeptAfter
      BY <1>10, <1>11 DEF KeptFor, SubEvents
    <3> QED
      BY <1>10, <3>1 DEF LevelInv, At
  <2>1. n \in 1 .. level - 1 /\ KeptAfter[n] = kept[n] /\ n <= level /\ n \in 1 .. level
    BY <1>1, <1>2, KeptAfterIs
  <2>2. KeptFor(s) = kept
    BY DEF KeptFor
  <2>3. At(s, kept[n]) = remote[s].stack[n]
    BY <1>1, <1>2, <1>10, <1>11, <2>1, <2>2 DEF LevelInv
  <2> QED
    BY <1>6, <1>7, <2>1, <2>3
<1>15. CommitInv(s)'
  <2>1. At(s, committed)' = At(s, committed)
    BY <1>5 DEF At
  <2>2. level > 0 /\ Known => At(s, committed) = {}
    BY <1>1, <1>2, <1>11 DEF CommitInv
  <2> QED
    BY <1>10, <1>11, <2>1, <2>2 DEF CommitInv
<1>16. ServerInv(s)'
  BY <1>12, <1>13, <1>14, <1>15 DEF ServerInv
<1>17. committed' \subseteq Write /\ e.xact_depth <= level /\ s \in Server \ orphans
  BY <1>1, <1>2, <1>5, <1>6 DEF Typed
<1>18. Known => \A u \in Server \ {s} : At(u, committed') = At(u, committed)
  BY <1>5
<1> QED
  BY <1>6, <1>7, <1>8, <1>9, <1>16, <1>17, <1>18, CallbackStep

(* The savepoint of a subtransaction that commits is released.             *)
LEMMA Released ==
  ASSUME IInv, NEW s \in Server \ orphans, pc = "scan", event = "PRE_COMMIT_SUB", ~Passed(s),
         ~entry[s].changing \/ entry[s].sent # "no",
         CommitOk(s), todo' = todo \ {s}, UNCHANGED callbackUnchanged
  PROVE  IInv'
<1> DEFINE c == [entry[s] EXCEPT !.changing = FALSE]
           e == [c EXCEPT !.xact_depth = @ - 1, !.sent = "no"]
           r == AfterRelease(s, level)
<1>1. Typed /\ entry[s] \in Entry /\ remote[s] \in Session /\ remote[s].up
  BY TypedIff DEF IInv, Typed, CommitOk
<1>2. /\ SessionInv(s) /\ SentInv(s) /\ DoneInv(s) /\ LevelInv(s) /\ CommitInv(s)
      /\ entry[s].xact_depth = level /\ level >= 2 /\ level \in Nat /\ Len(kept) = level
  BY <1>1 DEF IInv, ServerInv, DoneInv, MainInv, SubEvents, Typed
<1>3. entry[s].conn # "none" /\ Len(remote[s].stack) = level
  BY <1>1, <1>2, ConstantRecords DEF SessionInv
<1>4. /\ c \in Entry /\ c.conn = entry[s].conn /\ c.xact_depth = level /\ c.changing = FALSE
  BY <1>1, <1>2 DEF Entry
<1>5. /\ entry' = [entry EXCEPT ![s] = e] /\ remote' = [remote EXCEPT ![s] = r]
      /\ committed' = committed /\ UNCHANGED <<pc, event, given_up>>
  BY DEF CommitOk, TopLevel, ResetXactState, SetEntry, SetRemote
<1> HIDE DEF c
<1>6. /\ e \in Entry /\ e.conn # "none" /\ e.xact_depth = level - 1
      /\ e.changing = FALSE /\ e.sent = "no"
  <2>1. level - 1 \in 0 .. MaxLevel
    BY <1>1, <1>2 DEF Typed
  <2>2. e = [c EXCEPT !.xact_depth = level - 1, !.sent = "no"]
    BY <1>4
  <2> QED
    BY <1>3, <1>4, <2>1, <2>2 DEF Entry
<1>7. ~remote[s].failed /\ ~remote[s].busy
  BY <1>2 DEF DoneInv, Unknown, AbortEvents
<1>8. /\ r \in Session /\ r.up = TRUE /\ ~r.failed /\ ~r.busy
      /\ Len(r.stack) = level - 1
      /\ \A n \in 1 .. level - 1 :
           r.stack[n] = IF n = level - 1 THEN remote[s].stack[level - 1] \cup remote[s].stack[level]
                                         ELSE remote[s].stack[n]
  <2> DEFINE stack == remote[s].stack
             front == SubSeq(stack, 1, level - 2)
             last == stack[level - 1] \cup stack[level]
             k == Append(front, last)
  <2>1. stack \in Seq(SUBSET Write) /\ Len(stack) = level
    BY <1>1, <1>3 DEF Session
  <2> HIDE DEF stack
  <2>2. /\ front \in Seq(SUBSET Write) /\ Len(front) = level - 2
        /\ \A n \in 1 .. level - 2 : front[n] = stack[n]
    BY <1>2, <2>1
  <2>3. last \in SUBSET Write
    BY <1>2, <2>1
  <2>4. r = [remote[s] EXCEPT !.stack = k]
    BY DEF AfterRelease, stack
  <2> HIDE DEF front, last, r
  <2>5. /\ k \in Seq(SUBSET Write) /\ Len(k) = level - 1
        /\ \A n \in 1 .. level - 1 : k[n] = IF n = level - 1 THEN last ELSE front[n]
    BY <1>2, <2>2, <2>3
  <2> HIDE DEF k
  <2>6. /\ r \in Session /\ r.up = remote[s].up /\ r.failed = remote[s].failed
        /\ r.busy = remote[s].busy /\ r.stack = k
    BY <1>1, <2>4, <2>5 DEF Session
  <2>7. \A n \in 1 .. level - 1 : k[n] = IF n = level - 1 THEN last ELSE stack[n]
    BY <1>2, <2>2, <2>5
  <2>8. remote[s].up = TRUE
    BY <1>1 DEF Session
  <2> QED
    BY <1>7, <2>5, <2>6, <2>7, <2>8 DEF last, stack
<1> HIDE DEF e, r
<1>9. CallbackAt(s, e, r)
  BY <1>5 DEF CallbackAt
<1>10. ~Unknown(s)
  BY DEF Unknown
<1>11. /\ entry'[s] = e /\ remote'[s] = r /\ kept' = kept /\ event' = event /\ level' = level
       /\ pc' = "scan" /\ xact_got_connection' = xact_got_connection /\ todo' = todo \ {s}
       /\ KeptAfter' = KeptAfter /\ (Known' => Known)
  BY <1>9, <1>10, CallbackFacts
<1>12. Passed(s)' /\ ~CommittedNow(s)' /\ ~CommittedNow(s)
  BY <1>6, <1>11 DEF Passed, CommittedNow
<1>13. SentInv(s)' /\ SessionInv(s)'
  BY <1>2, <1>6, <1>8, <1>11 DEF SentInv, SessionInv
<1>14. DoneInv(s)'
  <2>1. xact_got_connection
    BY <1>2 DEF SessionInv
  <2> QED
    BY <1>2, <1>6, <1>8, <1>11, <1>12, <2>1 DEF DoneInv, TopEvents, SubEvents
<1>15. LevelInv(s)'
  <2> SUFFICES ASSUME Known', NEW n \in 1 .. Len(KeptAfter)
               PROVE  /\ n > e.xact_depth => At(s, KeptAfter[n]) = {}
                      /\ n <= e.xact_depth /\ r.up => At(s, KeptAfter[n]) = r.stack[n]
    <3>1. KeptFor(s)' = KeptAfter
      BY <1>11, <1>12 DEF KeptFor, SubEvents
    <3> QED
      BY <1>11, <3>1 DEF LevelInv, At
  <2>1. /\ n \in 1 .. level - 1 /\ n <= level /\ n \in 1 .. level
        /\ KeptAfter[n] = IF n = level - 1 THEN kept[level - 1] \cup kept[level] ELSE kept[n]
    <3>1. /\ Len(KeptAfter) = level - 1
          /\ \A m \in 1 .. level - 1 :
               KeptAfter[m] = IF m = level - 1 /\ event = "PRE_COMMIT_SUB"
                                THEN kept[level - 1] \cup kept[level] ELSE kept[m]
      BY <1>1, <1>2, KeptAfterIs
    <3>2. n \in 1 .. level - 1
      BY <3>1
    <3>3. KeptAfter[n] = IF n = level - 1 THEN kept[level - 1] \cup kept[level] ELSE kept[n]
      BY <3>1, <3>2
    <3> QED
      BY <1>2, <3>2, <3>3
  <2>2. KeptFor(s) = kept
    BY DEF KeptFor
  <2>3. \A m \in 1 .. level : At(s, kept[m]) = remote[s].stack[m]
    BY <1>1, <1>2, <1>11, <1>12, <2>2 DEF LevelInv
  <2>4. At(s, kept[level - 1] \cup kept[level]) =
          remote[s].stack[level - 1] \cup remote[s].stack[level]
    <3>1. level - 1 \in 1 .. level /\ level \in 1 .. level
      BY <1>2
    <3>2. At(s, kept[level - 1] \cup kept[level]) = At(s, kept[level - 1]) \cup At(s, kept[level])
      BY DEF At
    <3> QED
      BY <2>3, <3>1, <3>2
  <2>5. At(s, KeptAfter[n]) = r.stack[n]
    BY <1>8, <2>1, <2>3, <2>4
  <2> QED
    BY <1>2, <1>6, <2>1, <2>5
<1>16. CommitInv(s)'
  <2>1. At(s, committed)' = At(s, committed)
    BY <1>5 DEF At
  <2>2. level > 0 /\ Known => At(s, committed) = {}
    BY <1>1, <1>2, <1>12 DEF CommitInv
  <2> QED
    BY <1>11, <1>12, <2>1, <2>2 DEF CommitInv
<1>17. ServerInv(s)'
  BY <1>13, <1>14, <1>15, <1>16 DEF ServerInv
<1>18. committed' \subseteq Write /\ e.xact_depth <= level /\ s \in Server \ orphans
  BY <1>1, <1>2, <1>5, <1>6 DEF Typed
<1>19. Known => \A u \in Server \ {s} : At(u, committed') = At(u, committed)
  BY <1>5
<1> QED
  BY <1>6, <1>8, <1>9, <1>10, <1>17, <1>18, <1>19, CallbackStep

(* A commit makes permanent what the session has written, no more.         *)
LEMMA CommittedTyped ==
  ASSUME Typed, NEW s \in Server
  PROVE  CommittedBy(s) \subseteq Write
<1>1. remote[s].stack \in Seq(SUBSET Write)
  BY DEF Typed, Session
<1>2. WritesOf(remote[s].stack) \subseteq Write
  BY <1>1 DEF WritesOf, Range
<1> QED
  BY <1>2 DEF CommittedBy

(* If all is known, that is what the local transaction wrote there.        *)
LEMMA CommittedWrites ==
  ASSUME IInv, NEW s \in Server \ orphans, pc = "scan", event = "PRE_COMMIT", ~Passed(s),
         ~entry[s].changing \/ entry[s].sent # "no", entry[s].xact_depth > 0,
         remote[s].up, Known
  PROVE  /\ CommittedBy(s) = At(s, kept[1])
         /\ At(s, committed) = {}
<1>1. Typed /\ entry[s] \in Entry /\ remote[s] \in Session
  BY TypedIff DEF IInv, Typed
<1>2. /\ SessionInv(s) /\ DoneInv(s) /\ LevelInv(s) /\ CommitInv(s)
      /\ level = 1 /\ Len(kept) = 1
  BY <1>1 DEF IInv, ServerInv, MainInv, TopEvents
<1>3. entry[s].xact_depth = 1
  BY <1>1, <1>2 DEF Typed, Entry
<1>4. Len(remote[s].stack) = 1 /\ remote[s].stack \in Seq(SUBSET Write)
  BY <1>1, <1>2, <1>3 DEF SessionInv, Session
<1>5. ~remote[s].failed
  BY <1>2 DEF DoneInv, Unknown, AbortEvents
<1>6. At(s, kept[1]) = remote[s].stack[1]
  <2>1. KeptFor(s) = kept /\ ~CommittedNow(s)
    BY DEF KeptFor, CommittedNow, SubEvents
  <2>2. LevelInv(s) /\ level > 0 /\ 1 \in 1 .. Len(kept) /\ 1 <= entry[s].xact_depth
    BY <1>2, <1>3
  <2> QED
    BY <2>1, <2>2 DEF LevelInv
<1>7. WritesOf(remote[s].stack) = remote[s].stack[1]
  BY <1>4 DEF WritesOf, Range
<1>8. At(s, committed) = {}
  BY <1>2 DEF CommitInv, CommittedNow
<1> QED
  BY <1>5, <1>6, <1>7, <1>8 DEF CommittedBy

(* The remote transaction commits.                                         *)
LEMMA TopCommitted ==
  ASSUME IInv, NEW s \in Server \ orphans, pc = "scan", event = "PRE_COMMIT", ~Passed(s),
         ~entry[s].changing \/ entry[s].sent # "no", entry[s].xact_depth > 0,
         CommitOk(s), todo' = todo \ {s}, UNCHANGED callbackUnchanged
  PROVE  IInv'
<1>1. Typed /\ entry[s] \in Entry /\ remote[s].up
  BY TypedIff DEF IInv, Typed, CommitOk
<1> DEFINE c == [entry[s] EXCEPT !.changing = FALSE]
<1>2. c \in Entry
  BY <1>1 DEF Entry
<1>3. /\ ResetXactState(s, c, NewSession, TRUE)
      /\ committed' = committed \cup CommittedBy(s) /\ UNCHANGED <<pc, event, given_up>>
  BY DEF CommitOk, TopLevel, AfterCommit
<1> HIDE DEF c
<1>4. PICK f \in {NoConn, NewConn}, q \in {NoSession, NewSession} :
        /\ f = NoConn => q = NoSession
        /\ entry' = [entry EXCEPT ![s] = f] /\ remote' = [remote EXCEPT ![s] = q]
  <2>1. NewSession \in Session
    BY ConstantRecords
  <2> QED
    BY <1>1, <1>2, <1>3, <2>1, ResetTop
<1>5. CallbackAt(s, f, q)
  BY <1>3, <1>4 DEF CallbackAt
<1>6. committed' \subseteq Write
  BY <1>1, <1>3, CommittedTyped DEF Typed
<1>7. Known => CommittedBy(s) = At(s, kept[1]) /\ At(s, committed) = {}
  BY <1>1, CommittedWrites
<1>8. Known => \A u \in Server \ {s} : At(u, committed') = At(u, committed)
  BY <1>3, <1>7 DEF At
<1>9. Known => At(s, committed') = At(s, kept[1])
  BY <1>3, <1>7 DEF At
<1>10. TopLevel /\ ~Unknown(s)
  BY DEF TopLevel, Unknown
<1> QED
  BY <1>4, <1>5, <1>6, <1>8, <1>9, <1>10, TopStep

(* The remote transaction is aborted, or the connection is given up.       *)
LEMMA TopAborted ==
  ASSUME IInv, NEW s \in Server \ orphans, pc = "scan", event = "ABORT",
         entry[s].xact_depth > 0,
         AbortDone(s) \/ AbortGivenUp(s), todo' = todo \ {s},
         UNCHANGED <<callbackUnchanged, pc, event, given_up>>
  PROVE  IInv'
<1>1. Typed /\ entry[s] \in Entry
  BY TypedIff DEF IInv, Typed
<1>2. TopLevel /\ ~Known /\ level = 1
  BY DEF TopLevel, Known, IInv, MainInv, TopEvents
<1>3. CASE AbortDone(s)
  <2>1. entry[s].xact_depth = 1
    BY <1>1, <1>2 DEF Typed, Entry
  <2> DEFINE c == [entry[s] EXCEPT !.changing = FALSE]
  <2>2. c \in Entry
    BY <1>1 DEF Entry
  <2>3. ResetXactState(s, c, NewSession, TRUE) /\ committed' = committed
    BY <1>2, <1>3, <2>1 DEF AbortDone, TopLevel, AfterRollback
  <2> HIDE DEF c
  <2>4. PICK f \in {NoConn, NewConn}, q \in {NoSession, NewSession} :
          /\ f = NoConn => q = NoSession
          /\ entry' = [entry EXCEPT ![s] = f] /\ remote' = [remote EXCEPT ![s] = q]
    <3>1. NewSession \in Session
      BY ConstantRecords
    <3> QED
      BY <1>1, <2>2, <2>3, <3>1, ResetTop
  <2>5. CallbackAt(s, f, q)
    BY <2>4 DEF CallbackAt
  <2>6. committed' \subseteq Write
    BY <1>1, <2>3 DEF Typed
  <2> QED
    BY <1>2, <2>4, <2>5, <2>6, TopStep
<1>4. CASE AbortGivenUp(s)
  <2>1. /\ entry' = [entry EXCEPT ![s] = NoConn] /\ remote' = [remote EXCEPT ![s] = NoSession]
        /\ committed' \in {committed, committed \cup CommittedBy(s)}
    BY <1>2, <1>4 DEF AbortGivenUp, DisconnectServer, SetEntry, SetRemote
  <2>2. CallbackAt(s, NoConn, NoSession)
    BY <2>1 DEF CallbackAt
  <2>3. committed' \subseteq Write
    BY <1>1, <2>1, CommittedTyped DEF Typed
  <2> QED
    BY <1>2, <2>2, <2>3, TopStep
<1> QED
  BY <1>3, <1>4

(* A command is sent.                                                      *)
LEMMA SendStep ==
  ASSUME IInv, NEW s \in Server \ orphans, ~Passed(s), remote[s].up,
         ~entry[s].changing \/ entry[s].sent # "no", entry[s].xact_depth > 0,
         NEW e \in Entry, NEW r \in Session, CallbackAt(s, e, r), committed' = committed,
         e.conn = entry[s].conn, e.xact_depth = entry[s].xact_depth, e.changing,
         e.sent \in {"COMMIT", "RELEASE", "CANCEL", "ABORT"},
         e.sent = "COMMIT" => event = "PRE_COMMIT",
         e.sent = "RELEASE" => event = "PRE_COMMIT_SUB",
         e.sent \in {"CANCEL", "ABORT"} => event \in AbortEvents,
         r.up, r.stack = remote[s].stack, r.failed \/ r.busy => event \in AbortEvents
  PROVE  IInv'
<1>1. Typed /\ entry[s] \in Entry /\ remote[s] \in Session
  BY TypedIff DEF IInv, Typed
<1>2. ~Unknown(s)
  BY DEF Unknown
<1>3. /\ entry'[s] = e /\ remote'[s] = r
      /\ kept' = kept /\ event' = event /\ level' = level /\ pc = "scan" /\ pc' = "scan"
      /\ xact_got_connection' = xact_got_connection /\ todo' = todo \ {s}
      /\ (Known' => Known)
  BY <1>2, CallbackFacts
<1>4. /\ SessionInv(s) /\ SentInv(s) /\ DoneInv(s) /\ LevelInv(s) /\ CommitInv(s)
      /\ event \in TopEvents \cup SubEvents
      /\ event \in TopEvents => level = 1
  BY <1>1, <1>3 DEF IInv, ServerInv, MainInv, Typed, TopEvents, SubEvents
<1>5. entry[s].xact_depth = level /\ level > 0
  <2>1. CASE event \in TopEvents
    BY <1>1, <1>4, <2>1 DEF Typed, Entry
  <2>2. CASE event \in SubEvents
    BY <1>1, <1>3, <1>4, <2>2 DEF DoneInv, Typed
  <2> QED
    BY <1>4, <2>1, <2>2
<1>6. entry[s].conn # "none" /\ xact_got_connection /\ Len(remote[s].stack) = level
  BY <1>1, <1>4, <1>5, ConstantRecords DEF SessionInv
<1>7. ~Passed(s)' /\ ~Unknown(s)' /\ ~CommittedNow(s)' /\ ~CommittedNow(s)
  BY <1>3 DEF Passed, Unknown, CommittedNow
<1>8. SentInv(s)'
  BY <1>3, <1>5, <1>6 DEF SentInv, TopEvents, SubEvents, AbortEvents
<1>9. SessionInv(s)'
  BY <1>3, <1>5, <1>6 DEF SessionInv
<1>10. DoneInv(s)'
  BY <1>3, <1>5, <1>6, <1>7 DEF DoneInv
<1>11. LevelInv(s)'
  <2>1. KeptFor(s)' = kept /\ KeptFor(s) = kept
    BY <1>3, <1>7 DEF KeptFor
  <2> QED
    BY <1>3, <1>4, <1>7, <2>1 DEF LevelInv, At
<1>12. CommitInv(s)'
  <2>1. level > 0 /\ Known => At(s, committed) = {}
    BY <1>4, <1>7 DEF CommitInv
  <2> QED
    BY <1>3, <1>7, <2>1 DEF CommitInv, At
<1>13. ServerInv(s)'
  BY <1>8, <1>9, <1>10, <1>11, <1>12 DEF ServerInv
<1>14. committed' \subseteq Write /\ e.xact_depth <= level
  BY <1>1, <1>5 DEF Typed
<1>15. Known => \A u \in Server \ {s} : At(u, committed') = At(u, committed)
  OBVIOUS
<1> QED
  BY <1>2, <1>13, <1>14, <1>15, CallbackStep

(* An error in a callback before the commit: the abort looks at all        *)
(* connections again.                                                      *)
LEMMA RaiseStep ==
  ASSUME IInv, NEW s \in Server \ orphans, pc = "scan", event \in {"PRE_COMMIT", "PRE_COMMIT_SUB"},
         NEW e \in Entry, NEW r \in Session, e.xact_depth <= level,
         entry' = [entry EXCEPT ![s] = e], remote' = [remote EXCEPT ![s] = r],
         RaiseInCallback, UNCHANGED callbackUnchanged,
         committed' \subseteq Write, given_up' \subseteq Server,
         e.sent = "no", Unknown(s)' \/ given_up' # {},
         r.failed \/ r.busy => Unknown(s)',
         ~r.up => r = NoSession,
         e.conn = "none" => e = NoConn /\ r = NoSession,
         e.xact_depth = 0 => r \in {NewSession, NoSession},
         xact_got_connection,
         r.up /\ ~e.changing => Len(r.stack) = e.xact_depth
  PROVE  IInv'
<1>1. Typed
  BY TypedIff DEF IInv
<1>2. /\ hash' = hash /\ creators' = creators /\ xact_got_connection' = xact_got_connection
      /\ level' = level /\ cur' = cur /\ retry' = retry /\ outcome' = outcome /\ kept' = kept
      /\ nwrites' = nwrites /\ nxacts' = nxacts /\ orphans' = orphans /\ nbreaks' = nbreaks
  BY DEF callbackUnchanged, hashVars, xactVars
<1>3. /\ entry' \in [Server -> Entry] /\ remote' \in [Server -> Session]
      /\ entry'[s] = e /\ remote'[s] = r
      /\ \A u \in Server \ {s} : entry'[u] = entry[u] /\ remote'[u] = remote[u]
  BY <1>1 DEF Typed
<1>4. /\ pc' = "scan" /\ event' \in AbortEvents
      /\ event = "PRE_COMMIT" => event' = "ABORT" /\ level = 1
      /\ event = "PRE_COMMIT_SUB" => event' = "ABORT_SUB" /\ level >= 2
      /\ todo' = {u \in Server : /\ entry'[u].conn # "none"
                                 /\ event' = "ABORT_SUB" => entry'[u].xact_depth >= level}
  BY DEF RaiseInCallback, TopLevel, AbortEvents, IInv, MainInv, TopEvents, SubEvents
<1>5. Typed'
  <2>1. \A u \in Server : entry'[u].xact_depth <= level'
    BY <1>1, <1>2, <1>3 DEF Typed
  <2>2. todo' \subseteq Server
    BY <1>4
  <2> QED
    BY <1>1, <1>2, <1>3, <1>4, <2>1, <2>2 DEF Typed, AbortEvents
<1>6. ~Known'
  BY <1>3 DEF Known
<1>7. MainInv'
  BY <1>2, <1>4 DEF IInv, MainInv, AbortEvents, TopEvents, SubEvents
<1>8. OrphanInv'
  BY <1>1, <1>2, <1>3 DEF IInv, OrphanInv, Typed
<1>9. CommitComplete'
  <2>1. level > 0
    BY <1>1, <1>4 DEF Typed
  <2> QED
    BY <1>2, <2>1 DEF IInv, MainInv, CommitComplete
<1>10. ASSUME NEW u \in Server PROVE ServerInv(u)'
  <2>1. entry'[u] \in Entry /\ entry'[u].xact_depth \in Nat /\ level \in Nat
    BY <1>1, <1>3 DEF Entry, Typed
  <2>2. entry'[u].xact_depth <= level
    BY <1>5, <1>2 DEF Typed
  <2>3. u # s => ServerInv(u)
    BY DEF IInv
  <2>4. entry'[u].sent # "no" => /\ u # s /\ entry'[u].changing /\ entry'[u].conn # "none"
                                 /\ entry'[u].xact_depth = level
                                 /\ entry'[u].sent = "COMMIT" => event = "PRE_COMMIT"
                                 /\ entry'[u].sent = "RELEASE" => event = "PRE_COMMIT_SUB"
                                 /\ entry'[u].sent \in {"COMMIT", "RELEASE"}
    <3> SUFFICES ASSUME entry'[u].sent # "no"
                 PROVE  /\ u # s /\ entry'[u].changing /\ entry'[u].conn # "none"
                        /\ entry'[u].xact_depth = level
                        /\ entry'[u].sent = "COMMIT" => event = "PRE_COMMIT"
                        /\ entry'[u].sent = "RELEASE" => event = "PRE_COMMIT_SUB"
                        /\ entry'[u].sent \in {"COMMIT", "RELEASE"}
      OBVIOUS
    <3>1. u # s
      BY <1>3
    <3>2. entry'[u] = entry[u] /\ SentInv(u)
      BY <1>3, <2>3, <3>1 DEF ServerInv
    <3>3. entry[u].sent \in {"COMMIT", "RELEASE", "CANCEL", "ABORT"}
      BY <2>1, <3>2 DEF Entry
    <3>4. event \notin AbortEvents
      BY DEF AbortEvents
    <3> QED
      BY <3>1, <3>2, <3>3, <3>4 DEF SentInv, TopEvents, SubEvents, AbortEvents
  <2>5. SentInv(u)'
    BY <1>2, <1>4, <2>1, <2>4 DEF SentInv, TopEvents, SubEvents, AbortEvents
  <2>6. ASSUME u \notin orphans' PROVE SessionInv(u)'
    <3>1. CASE u = s
      BY <1>2, <1>3, <3>1 DEF SessionInv
    <3>2. CASE u # s
      BY <1>2, <1>3, <2>3, <2>6, <3>2 DEF ServerInv, SessionInv
    <3> QED
      BY <3>1, <3>2
  <2>7. ASSUME u \notin orphans' PROVE DoneInv(u)'
    <3>1. pc' = "scan" /\ event' \in SubEvents =>
            IF Passed(u)' THEN entry'[u].xact_depth < level' ELSE entry'[u].xact_depth = level'
      <4>1. entry'[u].conn = "none" => entry'[u].xact_depth = 0
        BY <2>6, <2>7, ConstantRecords DEF SessionInv
      <4> QED
        BY <1>2, <1>4, <2>1, <2>2, <2>4, <4>1 DEF Passed, SubEvents
    <3>2. ~xact_got_connection' \/ (pc' = "scan" /\ event' \in TopEvents /\ Passed(u)') =>
            entry'[u] \in {NoConn, NewConn}
      <4> SUFFICES ASSUME event' \in TopEvents, Passed(u)' PROVE entry'[u] \in {NoConn, NewConn}
        BY <1>2
      <4>1. entry'[u].conn = "none"
        BY <1>4 DEF Passed, TopEvents
      <4> QED
        BY <2>6, <2>7, <4>1 DEF SessionInv
    <3>3. remote'[u].failed \/ remote'[u].busy => Unknown(u)'
      <4>1. CASE u = s
        BY <1>3, <4>1
      <4>2. CASE u # s
        BY <1>2, <1>3, <2>3, <2>7, <4>2 DEF ServerInv, DoneInv, Unknown, AbortEvents
      <4> QED
        BY <4>1, <4>2
    <3> QED
      BY <3>1, <3>2, <3>3 DEF DoneInv
  <2>8. LevelInv(u)' /\ CommitInv(u)'
    BY <1>6 DEF LevelInv, CommitInv
  <2> QED
    BY <2>5, <2>6, <2>7, <2>8 DEF ServerInv
<1>11. TypeOK'
  BY <1>5, TypedNext
<1> QED
  BY <1>7, <1>8, <1>9, <1>10, <1>11 DEF IInv

(* What a callback finds at an entry that it has still to deal with.       *)
LEMMA Found ==
  ASSUME IInv, NEW s \in Server, ~Passed(s)
  PROVE  /\ s \notin orphans /\ Connected(s) /\ pc = "scan"
         /\ Typed /\ entry[s] \in Entry /\ remote[s] \in Session
         /\ SessionInv(s) /\ SentInv(s) /\ DoneInv(s)
         /\ entry[s].sent # "no" => /\ entry[s].changing /\ entry[s].xact_depth = level
                                    /\ entry[s].xact_depth > 0
         /\ event \in {"PRE_COMMIT", "PRE_COMMIT_SUB", "ABORT", "ABORT_SUB"}
         /\ level > 0
<1>1. Typed /\ entry[s] \in Entry /\ remote[s] \in Session
  BY TypedIff DEF IInv, Typed
<1>2. SentInv(s)
  BY DEF IInv, ServerInv
<1>3. entry[s].conn # "none"
  BY <1>2 DEF SentInv, Passed
<1>4. s \notin orphans
  BY <1>3, ConstantRecords DEF IInv, OrphanInv
<1>5. pc = "scan"
  <2>1. todo # {} => pc = "scan"
    BY DEF IInv, MainInv
  <2> QED
    BY <1>2, <2>1 DEF SentInv, Passed
<1>6. event \in {"PRE_COMMIT", "PRE_COMMIT_SUB", "ABORT", "ABORT_SUB"}
  BY <1>1, <1>5 DEF IInv, MainInv, Typed
<1>7. level > 0
  BY <1>1, <1>5 DEF IInv, MainInv, Typed
<1>8. SessionInv(s) /\ DoneInv(s)
  BY <1>4 DEF IInv, ServerInv
<1> QED
  BY <1>1, <1>2, <1>3, <1>4, <1>5, <1>6, <1>7, <1>8 DEF SentInv, Connected

(* An entry with no remote transaction is cleaned up.                      *)
LEMMA ScanIdleStep ==
  ASSUME IInv, NEW s \in Server, ScanIdle(s)
  PROVE  IInv'
<1>1. /\ pc = "scan" /\ TopLevel /\ s \in todo /\ entry[s].xact_depth = 0
      /\ ResetXactState(s, entry[s], remote[s], TRUE)
      /\ todo' = todo \ {s}
      /\ UNCHANGED <<callbackUnchanged, pc, event, committed, given_up>>
  BY DEF ScanIdle
<1>2. ~Passed(s)
  BY <1>1 DEF Passed
<1>3. /\ s \notin orphans /\ Typed /\ entry[s] \in Entry /\ remote[s] \in Session
      /\ SessionInv(s) /\ entry[s].sent = "no" /\ level > 0
  BY <1>1, <1>2, Found
<1>4. remote[s] \in {NoSession, NewSession}
  BY <1>1, <1>3 DEF SessionInv
<1>5. PICK f \in {NoConn, NewConn}, q \in {NoSession, remote[s]} :
        /\ f = NoConn => q = NoSession
        /\ entry' = [entry EXCEPT ![s] = f] /\ remote' = [remote EXCEPT ![s] = q]
  BY <1>1, <1>3, ResetTop
<1>6. CallbackAt(s, f, q) /\ q \in {NoSession, NewSession} /\ s \in Server \ orphans
  BY <1>1, <1>3, <1>4, <1>5 DEF CallbackAt
<1>7. committed' \subseteq Write /\ committed' = committed
  BY <1>1, <1>3 DEF Typed
<1>8. ~Unknown(s)
  BY <1>1 DEF Unknown
<1>9. Known => At(s, committed') = At(s, kept[1])
  <2> SUFFICES ASSUME Known PROVE At(s, committed) = At(s, kept[1])
    BY <1>7
  <2>1. LevelInv(s) /\ CommitInv(s) /\ level = 1 /\ Len(kept) = 1
    <3>1. ServerInv(s) /\ MainInv
      BY DEF IInv
    <3>2. level = 1
      BY <1>1, <3>1 DEF MainInv, TopLevel, TopEvents
    <3> QED
      BY <3>1, <3>2 DEF MainInv, ServerInv
  <2>2. ~CommittedNow(s) /\ KeptFor(s) = kept
    BY <1>2 DEF CommittedNow, KeptFor
  <2>3. At(s, committed) = {}
    BY <1>3, <2>1, <2>2 DEF CommitInv
  <2>4. At(s, kept[1]) = {}
    <3>1. 1 \in 1 .. Len(kept) /\ 1 > entry[s].xact_depth
      BY <1>1, <2>1
    <3>2. \A n \in 1 .. Len(kept) : n > entry[s].xact_depth => At(s, kept[n]) = {}
      BY <1>3, <2>1, <2>2 DEF LevelInv, Typed, Entry
    <3> QED
      BY <3>1, <3>2
  <2> QED
    BY <2>3, <2>4
<1>10. Known => \A u \in Server \ {s} : At(u, committed') = At(u, committed)
  BY <1>7
<1> QED
  BY <1>1, <1>5, <1>6, <1>7, <1>8, <1>9, <1>10, TopStep

(* The connection is given up before the commit.                           *)
LEMMA CommitRejectedStep ==
  ASSUME IInv, NEW s \in Server, CommitRejected(s)
  PROVE  IInv'
<1>1. /\ pc = "scan" /\ event \in {"PRE_COMMIT", "PRE_COMMIT_SUB"} /\ s \in todo
      /\ entry[s].xact_depth > 0
      /\ DisconnectServer(s) /\ given_up' = given_up \cup {s}
      /\ RaiseInCallback /\ UNCHANGED callbackUnchanged
  BY DEF CommitRejected, Committing, Reject
<1>2. ~Passed(s)
  BY <1>1 DEF Passed
<1>3. s \in Server \ orphans /\ Typed /\ SessionInv(s) /\ level > 0
  BY <1>2, Found
<1>4. /\ entry' = [entry EXCEPT ![s] = NoConn] /\ remote' = [remote EXCEPT ![s] = NoSession]
      /\ committed' \in {committed, committed \cup CommittedBy(s)}
  BY <1>1 DEF DisconnectServer, SetEntry, SetRemote
<1>5. committed' \subseteq Write /\ given_up' \subseteq Server /\ given_up' # {}
  BY <1>1, <1>3, <1>4, CommittedTyped DEF Typed
<1>6. xact_got_connection
  BY <1>1, <1>3 DEF SessionInv
<1>7. NoConn.xact_depth <= level
  BY <1>3, ConstantRecords DEF Typed
<1> QED
  BY <1>1, <1>3, <1>4, <1>5, <1>6, <1>7, ConstantRecords, RaiseStep

(* COMMIT or RELEASE fails.                                                *)
LEMMA CommitFailsStep ==
  ASSUME IInv, NEW s \in Server, ~Passed(s), event \in {"PRE_COMMIT", "PRE_COMMIT_SUB"},
         entry[s].xact_depth > 0, CommitFails(s), UNCHANGED callbackUnchanged
  PROVE  IInv'
<1>1. /\ s \in Server \ orphans /\ Typed /\ entry[s] \in Entry /\ remote[s] \in Session
      /\ SessionInv(s) /\ Connected(s) /\ pc = "scan"
  BY Found
<1> DEFINE b == [entry[s] EXCEPT !.changing = TRUE, !.sent = "no"]
<1>2. /\ b \in Entry /\ b.conn # "none" /\ b.xact_depth = entry[s].xact_depth
      /\ b.changing = TRUE /\ b.sent = "no"
  BY <1>1 DEF Entry, Connected
<1>3. PICK e \in Entry, r \in Session :
        /\ entry' = [entry EXCEPT ![s] = e] /\ remote' = [remote EXCEPT ![s] = r]
        /\ e.conn # "none" /\ e.xact_depth = entry[s].xact_depth /\ e.changing /\ e.sent = "no"
        /\ ~r.up => r = NoSession
  <2> DEFINE bad == [b EXCEPT !.conn = "bad"]
             failed == [remote[s] EXCEPT !.failed = TRUE]
  <2>1. /\ bad \in Entry /\ bad.conn # "none" /\ bad.xact_depth = entry[s].xact_depth
        /\ bad.changing = TRUE /\ bad.sent = "no"
    BY <1>2 DEF Entry
  <2>2. failed \in Session /\ failed.up = remote[s].up
    BY <1>1 DEF Session
  <2>3. PICK e \in {b, bad}, r \in {NoSession, NewSession, failed} :
          /\ entry' = [entry EXCEPT ![s] = e] /\ remote' = [remote EXCEPT ![s] = r]
          /\ r \in {NoSession, NewSession} \/ (r = failed /\ remote[s].up)
    <3>1. CASE /\ SetEntry(s, Noticed(s, b))
               /\ SetRemote(s, IF ~remote[s].up THEN NoSession
                               ELSE IF TopLevel THEN NewSession ELSE failed)
      <4> HIDE DEF b, failed
      <4> QED
        BY <3>1 DEF Noticed, SetEntry, SetRemote
    <3>2. CASE SetEntry(s, bad) /\ SetRemote(s, NoSession)
      BY <3>2 DEF SetEntry, SetRemote
    <3> QED
      BY <3>1, <3>2 DEF CommitFails
  <2>4. e \in Entry /\ r \in Session
    BY <1>2, <2>1, <2>2, ConstantRecords
  <2>5. e.conn # "none" /\ e.xact_depth = entry[s].xact_depth /\ e.changing /\ e.sent = "no"
    BY <1>2, <2>1
  <2>6. ~r.up => r = NoSession
    BY <2>2, <2>3, ConstantRecords
  <2> QED
    BY <2>3, <2>4, <2>5, <2>6
<1>4. RaiseInCallback /\ given_up' = given_up
      /\ committed' \in {committed, committed \cup CommittedBy(s)}
  BY DEF CommitFails
<1>5. committed' \subseteq Write /\ given_up' \subseteq Server
  BY <1>1, <1>4, CommittedTyped DEF Typed
<1>6. xact_got_connection
  BY <1>1 DEF SessionInv
<1>7. Unknown(s)'
  <2>1. entry'[s] = e
    BY <1>1, <1>3 DEF Typed
  <2> QED
    BY <1>3, <2>1 DEF Unknown
<1>8. e.xact_depth <= level /\ e.xact_depth # 0
  BY <1>1, <1>3 DEF Typed
<1> HIDE DEF b
<1> QED
  BY <1>1, <1>3, <1>4, <1>5, <1>6, <1>7, <1>8, RaiseStep

(* COMMIT or RELEASE is sent, or is not since the session is lost.         *)
LEMMA CommitSendStep ==
  ASSUME IInv, NEW s \in Server, CommitSend(s)
  PROVE  IInv'
<1>1. /\ event \in {"PRE_COMMIT", "PRE_COMMIT_SUB"} /\ s \in todo
      /\ entry[s].xact_depth > 0 /\ ~Incomplete(s)
      /\ UNCHANGED <<callbackUnchanged, remote, committed, given_up>>
  BY DEF CommitSend, Committing
<1>2. ~Passed(s)
  BY <1>1 DEF Passed
<1>3. /\ s \in Server \ orphans /\ Typed /\ entry[s] \in Entry /\ remote[s] \in Session
      /\ SessionInv(s) /\ DoneInv(s) /\ Connected(s) /\ pc = "scan"
      /\ entry[s].sent # "no" => entry[s].changing
  BY <1>2, Found
<1>4. entry[s].changing = FALSE /\ entry[s].sent = "no"
  BY <1>1, <1>3 DEF Incomplete, Entry
<1>5. remote' = [remote EXCEPT ![s] = remote[s]]
  BY <1>1, <1>3 DEF Typed
<1>6. CASE remote[s].up
  <2> DEFINE e == [entry[s] EXCEPT !.changing = TRUE,
                                   !.sent = IF TopLevel THEN "COMMIT" ELSE "RELEASE"]
  <2>1. /\ e \in Entry /\ e.conn = entry[s].conn /\ e.xact_depth = entry[s].xact_depth
        /\ e.changing = TRUE /\ e.sent \in {"COMMIT", "RELEASE"}
        /\ e.sent = "COMMIT" => event = "PRE_COMMIT"
        /\ e.sent = "RELEASE" => event = "PRE_COMMIT_SUB"
    BY <1>1, <1>3 DEF Entry, TopLevel
  <2>2. /\ entry' = [entry EXCEPT ![s] = e] /\ todo' = todo \ {s}
        /\ UNCHANGED <<pc, event>>
    BY <1>6 DEF CommitSend, SetEntry
  <2> HIDE DEF e
  <2>3. CallbackAt(s, e, remote[s])
    BY <1>1, <1>3, <1>5, <2>2 DEF CallbackAt
  <2>4. ~remote[s].failed /\ ~remote[s].busy
    BY <1>1, <1>3, <1>4 DEF DoneInv, Unknown, AbortEvents
  <2>5. committed' = committed
    BY <1>1
  <2> QED
    BY <1>1, <1>2, <1>3, <1>4, <1>6, <2>1, <2>3, <2>4, <2>5, SendStep
<1>7. CASE ~remote[s].up
  <2> DEFINE e == [entry[s] EXCEPT !.changing = TRUE, !.conn = "bad"]
  <2>1. /\ e \in Entry /\ e.conn = "bad" /\ e.xact_depth = entry[s].xact_depth
        /\ e.changing = TRUE /\ e.sent = "no"
    BY <1>3, <1>4 DEF Entry
  <2>2. entry' = [entry EXCEPT ![s] = e] /\ RaiseInCallback
    BY <1>7 DEF CommitSend, SetEntry
  <2> HIDE DEF e
  <2>3. Unknown(s)'
    <3>1. entry'[s] = e
      BY <1>3, <2>2 DEF Typed
    <3> QED
      BY <1>1, <2>1, <3>1 DEF Unknown
  <2>4. /\ committed' \subseteq Write /\ given_up' \subseteq Server /\ e.xact_depth <= level
        /\ UNCHANGED callbackUnchanged
    BY <1>1, <1>3, <2>1 DEF Typed
  <2>5. xact_got_connection /\ remote[s] = NoSession /\ e.xact_depth # 0
    BY <1>1, <1>3, <1>7, <2>1 DEF SessionInv
  <2> QED
    BY <1>1, <1>3, <1>5, <1>7, <2>1, <2>2, <2>3, <2>4, <2>5, RaiseStep
<1> QED
  BY <1>6, <1>7

(* The result of COMMIT or RELEASE, of a connection with or without        *)
(* parallel_commit.                                                        *)
LEMMA CommitResultStep ==
  ASSUME IInv, NEW s \in Server, ~Passed(s), event \in {"PRE_COMMIT", "PRE_COMMIT_SUB"},
         entry[s].xact_depth > 0, ~entry[s].changing \/ entry[s].sent # "no",
         (CommitOk(s) /\ todo' = todo \ {s}) \/ CommitFails(s), UNCHANGED callbackUnchanged
  PROVE  IInv'
<1>1. s \in Server \ orphans /\ pc = "scan"
  BY Found
<1>2. CASE CommitFails(s)
  BY <1>2, CommitFailsStep
<1>3. CASE CommitOk(s) /\ todo' = todo \ {s} /\ event = "PRE_COMMIT"
  BY <1>1, <1>3, TopCommitted
<1>4. CASE CommitOk(s) /\ todo' = todo \ {s} /\ event = "PRE_COMMIT_SUB"
  BY <1>1, <1>4, Released
<1> QED
  BY <1>2, <1>3, <1>4

(* The connections without parallel_commit.                                *)
LEMMA CommitSerialStep ==
  ASSUME IInv, NEW s \in Server, CommitSerial(s)
  PROVE  IInv'
<1>1. /\ event \in {"PRE_COMMIT", "PRE_COMMIT_SUB"} /\ s \in todo
      /\ entry[s].xact_depth > 0 /\ ~Incomplete(s)
      /\ (CommitOk(s) /\ todo' = todo \ {s}) \/ CommitFails(s)
      /\ UNCHANGED callbackUnchanged
  BY DEF CommitSerial, Committing
<1>2. ~Passed(s)
  BY <1>1 DEF Passed
<1>3. Connected(s)
  BY <1>2, Found
<1> QED
  BY <1>1, <1>2, <1>3, CommitResultStep DEF Incomplete

(* Those with parallel_commit.                                             *)
LEMMA CommitFinishStep ==
  ASSUME IInv, NEW s \in Server, CommitFinish(s)
  PROVE  IInv'
<1>1. /\ todo = {} /\ entry[s].sent \in {"COMMIT", "RELEASE"} /\ UNCHANGED callbackUnchanged
      /\ (CommitOk(s) /\ todo' = todo \ {s}) \/ CommitFails(s)
  BY DEF CommitFinish
<1>2. ~Passed(s)
  BY <1>1 DEF Passed
<1>3. /\ SentInv(s) /\ entry[s].xact_depth > 0
      /\ event \in {"PRE_COMMIT", "PRE_COMMIT_SUB", "ABORT", "ABORT_SUB"}
  BY <1>1, <1>2, Found
<1>4. event \in {"PRE_COMMIT", "PRE_COMMIT_SUB"}
  BY <1>1, <1>3 DEF SentInv, AbortEvents
<1> QED
  BY <1>1, <1>2, <1>3, <1>4, CommitResultStep

(* The result of an abort.                                                 *)
LEMMA AbortResultStep ==
  ASSUME IInv, NEW s \in Server, ~Passed(s), event \in AbortEvents, entry[s].xact_depth > 0,
         \/ AbortDone(s) /\ (~entry[s].changing \/ entry[s].sent # "no")
         \/ AbortGivenUp(s),
         todo' = todo \ {s}, UNCHANGED <<callbackUnchanged, pc, event, given_up>>
  PROVE  IInv'
<1>1. s \in Server \ orphans /\ pc = "scan"
  BY Found
<1>2. CASE event = "ABORT"
  BY <1>1, <1>2, TopAborted
<1>3. CASE event = "ABORT_SUB" /\ AbortGivenUp(s)
  BY <1>1, <1>3, SubGivenUp
<1>4. CASE event = "ABORT_SUB" /\ AbortDone(s) /\ (~entry[s].changing \/ entry[s].sent # "no")
  BY <1>1, <1>4, SubAborted
<1> QED
  BY <1>2, <1>3, <1>4 DEF AbortEvents

(* pgfdw_abort_cleanup.                                                    *)
LEMMA AbortSerialStep ==
  ASSUME IInv, NEW s \in Server, AbortSerial(s)
  PROVE  IInv'
<1>1. /\ event \in AbortEvents /\ s \in todo /\ entry[s].xact_depth > 0
      /\ AbortGivenUp(s) \/ (~entry[s].changing /\ AbortDone(s))
      /\ todo' = todo \ {s} /\ UNCHANGED <<callbackUnchanged, pc, event, given_up>>
  BY DEF AbortSerial, Aborting, AbortEvents
<1>2. ~Passed(s)
  BY <1>1 DEF Passed
<1> QED
  BY <1>1, <1>2, AbortResultStep

(* pgfdw_abort_cleanup_begin.                                              *)
LEMMA AbortSendStep ==
  ASSUME IInv, NEW s \in Server, AbortSend(s)
  PROVE  IInv'
<1>1. /\ event \in AbortEvents /\ s \in todo /\ entry[s].xact_depth > 0 /\ ~entry[s].changing
      /\ todo' = todo \ {s} /\ UNCHANGED <<callbackUnchanged, pc, event, given_up>>
  BY DEF AbortSend, Aborting, AbortEvents
<1>2. ~Passed(s)
  BY <1>1 DEF Passed
<1>3. /\ s \in Server \ orphans /\ Typed /\ entry[s] \in Entry /\ remote[s] \in Session
      /\ pc = "scan"
  BY <1>2, Found
<1>4. CASE AbortGivenUp(s)
  BY <1>1, <1>2, <1>4, AbortResultStep
<1>5. CASE ~AbortGivenUp(s)
  <2> DEFINE e == [entry[s] EXCEPT !.changing = TRUE,
                                   !.sent = IF remote[s].busy THEN "CANCEL" ELSE "ABORT"]
  <2>1. /\ remote[s].up /\ entry' = [entry EXCEPT ![s] = e]
        /\ remote' = remote /\ committed' = committed
    BY <1>5 DEF AbortSend, SetEntry
  <2>2. /\ e \in Entry /\ e.conn = entry[s].conn /\ e.xact_depth = entry[s].xact_depth
        /\ e.changing = TRUE /\ e.sent \in {"CANCEL", "ABORT"}
    BY <1>3 DEF Entry
  <2> HIDE DEF e
  <2>3. remote' = [remote EXCEPT ![s] = remote[s]]
    BY <1>3, <2>1 DEF Typed
  <2>4. CallbackAt(s, e, remote[s])
    BY <1>1, <1>3, <2>1, <2>3 DEF CallbackAt
  <2> QED
    BY <1>1, <1>2, <1>3, <2>1, <2>2, <2>4, SendStep
<1> QED
  BY <1>4, <1>5

(* The result of a cancel; the abort command is sent.                      *)
LEMMA FinishCancelStep ==
  ASSUME IInv, NEW s \in Server, FinishCancel(s)
  PROVE  IInv'
<1>1. /\ todo = {} /\ entry[s].sent = "CANCEL"
      /\ todo' = todo \ {s} /\ UNCHANGED <<callbackUnchanged, pc, event, given_up>>
  BY DEF FinishCancel
<1>2. ~Passed(s)
  BY <1>1 DEF Passed
<1>3. /\ s \in Server \ orphans /\ Typed /\ entry[s] \in Entry /\ remote[s] \in Session
      /\ pc = "scan" /\ SentInv(s) /\ entry[s].xact_depth > 0 /\ entry[s].changing
  BY <1>1, <1>2, Found
<1>4. event \in AbortEvents
  BY <1>1, <1>3 DEF SentInv
<1>5. CASE AbortGivenUp(s)
  BY <1>1, <1>2, <1>3, <1>4, <1>5, AbortResultStep
<1>6. CASE ~AbortGivenUp(s)
  <2> DEFINE e == [entry[s] EXCEPT !.sent = "ABORT"]
             r == [remote[s] EXCEPT !.busy = FALSE, !.failed = TRUE]
  <2>1. /\ remote[s].up /\ entry' = [entry EXCEPT ![s] = e]
        /\ remote' = [remote EXCEPT ![s] = r] /\ committed' = committed
    BY <1>6 DEF FinishCancel, SetEntry, SetRemote
  <2>2. /\ e \in Entry /\ e.conn = entry[s].conn /\ e.xact_depth = entry[s].xact_depth
        /\ e.changing = entry[s].changing /\ e.sent = "ABORT"
    BY <1>3 DEF Entry
  <2>3. r \in Session /\ r.up = remote[s].up /\ r.stack = remote[s].stack
    BY <1>3 DEF Session
  <2> HIDE DEF e, r
  <2>4. CallbackAt(s, e, r)
    BY <1>1, <1>3, <2>1 DEF CallbackAt
  <2> QED
    BY <1>1, <1>2, <1>3, <1>4, <2>1, <2>2, <2>3, <2>4, SendStep
<1> QED
  BY <1>5, <1>6

(* The result of the abort command.                                        *)
LEMMA FinishAbortStep ==
  ASSUME IInv, NEW s \in Server, FinishAbort(s)
  PROVE  IInv'
<1>1. /\ todo = {} /\ entry[s].sent = "ABORT" /\ (AbortDone(s) \/ AbortGivenUp(s))
      /\ todo' = todo \ {s} /\ UNCHANGED <<callbackUnchanged, pc, event, given_up>>
  BY DEF FinishAbort
<1>2. ~Passed(s)
  BY <1>1 DEF Passed
<1>3. SentInv(s) /\ entry[s].xact_depth > 0
  BY <1>1, <1>2, Found
<1>4. event \in AbortEvents
  BY <1>1, <1>3 DEF SentInv
<1> QED
  BY <1>1, <1>2, <1>3, <1>4, AbortResultStep

-----------------------------------------------------------------------------
(* Outside of callbacks.                                                   *)

(* A step at one connection, outside of a callback.                        *)
RunAt(s, e, r) ==
  /\ pc # "scan" /\ pc' \in {"run", "begin", "raise"} /\ (pc = "raise" => pc' = "raise")
  /\ entry' = [entry EXCEPT ![s] = e] /\ remote' = [remote EXCEPT ![s] = r]
  /\ UNCHANGED <<hashVars, level, event, todo, outcome, nxacts, committed, orphans, nbreaks>>
  /\ level = 0 => UNCHANGED <<pc, xact_got_connection, kept>>

(* It keeps the invariant if it does so for that connection.               *)
LEMMA RunStep ==
  ASSUME IInv, NEW s \in Server \ orphans,
         NEW e \in Entry, NEW r \in Session, e.xact_depth <= level, e.sent = "no",
         RunAt(s, e, r),
         xact_got_connection' \in BOOLEAN, xact_got_connection => xact_got_connection',
         cur' \in Server, retry' \in BOOLEAN, nwrites' \in Nat,
         given_up' \subseteq Server, given_up \subseteq given_up',
         kept' \in Seq(SUBSET Write), Len(kept') = Len(kept),
         \A n \in 1 .. Len(kept) : \A u \in Server \ {s} : At(u, kept'[n]) = At(u, kept[n]),
         pc' = "begin" => /\ nwrites' < MaxWrites /\ cur' \notin orphans /\ xact_got_connection'
                          /\ entry'[cur'].conn # "none" /\ ~entry'[cur'].changing,
         Unknown(s) => Unknown(s)' \/ given_up' # {},
         SessionInv(s)', DoneInv(s)', Known => LevelInv(s)'
  PROVE  IInv'
<1>1. Typed
  BY TypedIff DEF IInv
<1>2. /\ hash' = hash /\ creators' = creators /\ level' = level /\ event' = event /\ todo' = todo
      /\ outcome' = outcome /\ nxacts' = nxacts /\ committed' = committed /\ orphans' = orphans
      /\ nbreaks' = nbreaks /\ pc # "scan" /\ pc' # "scan"
      /\ pc' \in {"run", "begin", "raise"} /\ (pc = "raise" => pc' = "raise")
  BY DEF RunAt, hashVars
<1>3. /\ entry' \in [Server -> Entry] /\ remote' \in [Server -> Session]
      /\ entry'[s] = e /\ remote'[s] = r
      /\ \A u \in Server \ {s} : entry'[u] = entry[u] /\ remote'[u] = remote[u]
  BY <1>1 DEF RunAt, Typed
<1>4. todo = {} /\ event = "none"
  BY <1>2 DEF IInv, MainInv
<1>5. Typed'
  <2>1. \A u \in Server : entry'[u].xact_depth <= level'
    BY <1>1, <1>2, <1>3 DEF Typed
  <2> QED
    BY <1>1, <1>2, <1>3, <2>1 DEF Typed
<1>6. OneServer(s)
  <2>1. todo' = todo \ {s}
    BY <1>2, <1>4
  <2>2. \A u \in Server \ {s} : At(u, committed') = At(u, committed)
    BY <1>2
  <2> QED
    BY <1>2, <1>3, <1>4, <2>1, <2>2 DEF OneServer
<1>7. MainInv'
  <2>1. level = 0 => pc' = pc /\ xact_got_connection' = xact_got_connection
    BY DEF RunAt
  <2> QED
    BY <1>2, <1>4, <2>1 DEF IInv, MainInv, Connected
<1>8. OrphanInv'
  BY <1>1, <1>2, <1>3 DEF IInv, OrphanInv, Typed
<1>9. CommitComplete'
  <2>1. CASE level > 0
    BY <1>2, <2>1 DEF IInv, MainInv, CommitComplete
  <2>2. CASE level = 0
    <3>1. kept' = kept
      BY <2>2 DEF RunAt
    <3> QED
      BY <1>2, <3>1 DEF IInv, CommitComplete
  <2> QED
    BY <1>1, <2>1, <2>2 DEF Typed
<1>10. (Known' => Known) /\ \A u \in Server \ {s} : ServerInv(u)'
  BY <1>6, Frame
<1>11. ServerInv(s)'
  <2>1. SentInv(s)'
    BY <1>2, <1>3, <1>4 DEF SentInv
  <2>2. SentInv(s) /\ CommitInv(s)
    BY DEF IInv, ServerInv
  <2>3. LevelInv(s)'
    BY <1>10 DEF LevelInv
  <2>4. ~CommittedNow(s) /\ ~CommittedNow(s)' /\ entry[s].sent = "no"
    BY <1>2, <1>4, <2>2 DEF CommittedNow, SentInv
  <2>5. CommitInv(s)'
    BY <1>2, <1>10, <2>2, <2>4 DEF CommitInv, At
  <2> QED
    BY <2>1, <2>3, <2>5 DEF ServerInv
<1>12. TypeOK'
  BY <1>5, TypedNext
<1> QED
  BY <1>7, <1>8, <1>9, <1>10, <1>11, <1>12 DEF IInv

(* What a step outside of a callback finds.                                *)
LEMMA RunFound ==
  ASSUME IInv, NEW s \in Server \ orphans, pc # "scan"
  PROVE  /\ Typed /\ entry[s] \in Entry /\ remote[s] \in Session
         /\ entry[s].sent = "no" /\ SessionInv(s) /\ DoneInv(s) /\ LevelInv(s)
         /\ ~CommittedNow(s) /\ KeptFor(s) = kept /\ event = "none" /\ todo = {}
         /\ level > 0 => Len(kept) = level
         /\ entry[s].xact_depth <= level /\ entry[s].xact_depth \in Nat /\ level \in Nat
<1>1. Typed /\ entry[s] \in Entry /\ remote[s] \in Session
  BY TypedIff DEF IInv, Typed
<1>2. ServerInv(s) /\ MainInv
  BY DEF IInv
<1>3. entry[s].sent = "no" /\ SessionInv(s) /\ DoneInv(s) /\ LevelInv(s)
  BY <1>2 DEF ServerInv, SentInv
<1>4. event = "none" /\ todo = {} /\ (level > 0 => Len(kept) = level)
  BY <1>2 DEF MainInv
<1>5. ~CommittedNow(s) /\ KeptFor(s) = kept
  BY <1>4 DEF CommittedNow, KeptFor, SubEvents
<1>6. entry[s].xact_depth <= level /\ entry[s].xact_depth \in Nat /\ level \in Nat
  BY <1>1 DEF Typed, Entry
<1> QED
  BY <1>1, <1>3, <1>4, <1>5, <1>6

(* A connection without a remote transaction is closed, opened or left:    *)
(* no local write is concerned.                                            *)
LEMMA NoTransaction ==
  ASSUME IInv, NEW s \in Server \ orphans, pc # "scan", entry[s].xact_depth = 0,
         NEW e \in Entry, e.xact_depth = 0, entry'[s] = e,
         UNCHANGED <<kept, level, event>>, Known
  PROVE  LevelInv(s)'
<1>1. /\ Typed /\ LevelInv(s) /\ ~CommittedNow(s) /\ KeptFor(s) = kept /\ event = "none"
  BY RunFound
<1>2. KeptFor(s)' = kept /\ kept' = kept /\ level' = level
  BY <1>1 DEF KeptFor, SubEvents
<1>3. level > 0 => \A n \in 1 .. Len(kept) : At(s, kept[n]) = {}
  <2>1. \A n \in 1 .. Len(kept) : n > entry[s].xact_depth
    OBVIOUS
  <2> QED
    BY <1>1, <2>1 DEF LevelInv
<1> QED
  BY <1>2, <1>3 DEF LevelInv, At

(* An incomplete state is rejected.                                        *)
LEMMA GetRejectedStep ==
  ASSUME IInv, NEW s \in Server, GetRejected(s)
  PROVE  IInv'
<1>1. /\ pc = "run" /\ level > 0 /\ s \in Server \ orphans
      /\ DisconnectServer(s) /\ given_up' = given_up \cup {s}
      /\ xact_got_connection' = TRUE /\ pc' = "raise"
      /\ UNCHANGED <<hashVars, level, cur, retry, event, todo, xactVars, orphans, nbreaks>>
  BY DEF GetRejected, Reject
<1>2. Typed /\ entry[s].sent = "no"
  BY <1>1, RunFound
<1>3. /\ entry' = [entry EXCEPT ![s] = NoConn] /\ remote' = [remote EXCEPT ![s] = NoSession]
      /\ committed' = committed
  BY <1>1, <1>2 DEF DisconnectServer, SetEntry, SetRemote
<1>4. entry'[s] = NoConn /\ remote'[s] = NoSession
  BY <1>2, <1>3 DEF Typed
<1>5. RunAt(s, NoConn, NoSession)
  BY <1>1, <1>2, <1>3 DEF RunAt, xactVars
<1>6. SessionInv(s)'
  BY <1>4, ConstantRecords DEF SessionInv
<1>7. DoneInv(s)'
  BY <1>1, <1>4, ConstantRecords DEF DoneInv
<1>8. LevelInv(s)'
  <2>1. given_up' # {}
    BY <1>1
  <2> QED
    BY <2>1 DEF LevelInv, Known
<1>9. /\ cur' \in Server /\ retry' \in BOOLEAN /\ nwrites' \in Nat
      /\ given_up' \subseteq Server /\ given_up \subseteq given_up' /\ given_up' # {}
      /\ kept' = kept /\ kept' \in Seq(SUBSET Write) /\ xact_got_connection' \in BOOLEAN
  BY <1>1, <1>2 DEF Typed, xactVars
<1>10. /\ NoConn \in Entry /\ NoSession \in Session /\ NoConn.xact_depth <= level
       /\ NoConn.sent = "no"
  BY <1>2, ConstantRecords DEF Typed
<1> QED
  BY <1>1, <1>5, <1>6, <1>7, <1>8, <1>9, <1>10, RunStep

(* PGSpiderGetConnection.                                                  *)
LEMMA GetConnectionStep ==
  ASSUME IInv, NEW s \in Server, GetConnection(s)
  PROVE  IInv'
<1>1. /\ pc = "run" /\ level > 0 /\ s \in Server \ orphans /\ nwrites < MaxWrites
      /\ ~Incomplete(s) /\ xact_got_connection' = TRUE /\ cur' = s /\ retry' = FALSE
      /\ UNCHANGED <<hashVars, level, event, todo, xactVars, committed, given_up, orphans, nbreaks>>
      /\ pc' \in {"begin", "raise"}
  BY DEF GetConnection
<1>2. /\ Typed /\ entry[s] \in Entry /\ remote[s] \in Session
      /\ entry[s].sent = "no" /\ SessionInv(s) /\ DoneInv(s)
  BY <1>1, RunFound
<1>3. PICK e \in Entry, r \in Session :
        /\ entry' = [entry EXCEPT ![s] = e] /\ remote' = [remote EXCEPT ![s] = r]
        /\ \/ e = entry[s] /\ r = remote[s]
           \/ /\ e.xact_depth = 0 /\ entry[s].xact_depth = 0 /\ e.sent = "no" /\ ~e.changing
              /\ (e = NewConn /\ r = NewSession) \/ (e = NoConn /\ r = NoSession)
        /\ pc' = "begin" => e.conn # "none" /\ ~e.changing
  <2>1. CASE NeedsNew(s)
    <3>1. entry[s].xact_depth = 0
      BY <1>2, <2>1, ConstantRecords DEF NeedsNew, Connected, SessionInv
    <3>2. \/ /\ entry' = [entry EXCEPT ![s] = NewConn]
             /\ remote' = [remote EXCEPT ![s] = NewSession]
          \/ /\ entry' = [entry EXCEPT ![s] = NoConn]
             /\ remote' = [remote EXCEPT ![s] = NoSession] /\ pc' = "raise"
      BY <2>1 DEF GetConnection, SetEntry, SetRemote
    <3> QED
      BY <3>1, <3>2, ConstantRecords
  <2>2. CASE ~NeedsNew(s)
    <3>1. entry' = entry /\ remote' = remote
      BY <2>2 DEF GetConnection
    <3>2. entry' = [entry EXCEPT ![s] = entry[s]] /\ remote' = [remote EXCEPT ![s] = remote[s]]
      BY <1>2, <3>1 DEF Typed
    <3>3. entry[s].conn # "none" /\ ~entry[s].changing
      BY <1>1, <2>2 DEF NeedsNew, Incomplete, Connected
    <3> QED
      BY <1>2, <3>2, <3>3
  <2> QED
    BY <2>1, <2>2
<1>4. entry'[s] = e /\ remote'[s] = r
  BY <1>2, <1>3 DEF Typed
<1>5. RunAt(s, e, r)
  <2>1. level # 0
    BY <1>1, <1>2 DEF Typed
  <2>2. UNCHANGED <<hashVars, level, event, todo, outcome, nxacts, committed, orphans, nbreaks>>
    BY <1>1 DEF xactVars
  <2>3. entry' = [entry EXCEPT ![s] = e] /\ remote' = [remote EXCEPT ![s] = r]
    BY <1>3
  <2> QED
    BY <1>1, <2>1, <2>2, <2>3 DEF RunAt
<1>6. SessionInv(s)'
  BY <1>1, <1>2, <1>3, <1>4, ConstantRecords DEF SessionInv
<1>7. DoneInv(s)'
  <2>1. (~remote[s].failed /\ ~remote[s].busy) \/ Unknown(s)
    BY <1>1, <1>2 DEF DoneInv
  <2>2. ~Unknown(s)
    BY <1>1, <1>2, ConstantRecords DEF Unknown, Incomplete, Connected, SessionInv
  <2>3. ~r.failed /\ ~r.busy
    BY <1>3, <2>1, <2>2, ConstantRecords
  <2> QED
    BY <1>1, <1>4, <2>3 DEF DoneInv
<1>8. Known => LevelInv(s)'
  <2>1. CASE e = entry[s] /\ r = remote[s]
    <3>1. LevelInv(s) /\ ~CommittedNow(s) /\ KeptFor(s) = kept /\ event = "none"
      BY <1>1, RunFound
    <3>2. KeptFor(s)' = kept
      BY <1>1, <3>1 DEF KeptFor, SubEvents, xactVars
    <3> QED
      BY <1>1, <1>4, <2>1, <3>1, <3>2 DEF LevelInv, At
  <2>2. CASE e.xact_depth = 0 /\ entry[s].xact_depth = 0
    <3>1. UNCHANGED <<kept, level, event>> /\ pc # "scan"
      BY <1>1 DEF xactVars
    <3> QED
      BY <1>1, <1>4, <2>2, <3>1, NoTransaction
  <2> QED
    BY <1>3, <2>1, <2>2
<1>9. /\ cur' \in Server /\ retry' \in BOOLEAN /\ nwrites' \in Nat /\ nwrites' < MaxWrites
      /\ given_up' \subseteq Server /\ given_up \subseteq given_up'
      /\ kept' = kept /\ kept' \in Seq(SUBSET Write) /\ xact_got_connection' \in BOOLEAN
      /\ cur' \notin orphans
  BY <1>1, <1>2 DEF Typed, xactVars
<1>10. e.xact_depth <= level /\ e.sent = "no"
  BY <1>2, <1>3 DEF Typed
<1>11. ~Unknown(s)
  BY <1>1, <1>2, ConstantRecords DEF Unknown, Incomplete, Connected, SessionInv
<1>12. pc' = "begin" => entry'[cur'].conn # "none" /\ ~entry'[cur'].changing
  BY <1>1, <1>3, <1>4
<1> QED
  BY <1>1, <1>3, <1>5, <1>6, <1>7, <1>8, <1>9, <1>10, <1>11, <1>12, RunStep

(* What begin_remote_xact and the statement after it find.                 *)
LEMMA BeginFound ==
  ASSUME IInv, pc = "begin"
  PROVE  /\ cur \in Server \ orphans /\ nwrites < MaxWrites /\ nwrites \in Nat /\ level > 0
         /\ xact_got_connection /\ entry[cur].conn # "none" /\ entry[cur].changing = FALSE
         /\ Typed /\ entry[cur] \in Entry /\ remote[cur] \in Session
         /\ entry[cur].sent = "no" /\ SessionInv(cur) /\ LevelInv(cur)
         /\ ~Unknown(cur) /\ ~remote[cur].failed /\ ~remote[cur].busy
         /\ ~CommittedNow(cur) /\ KeptFor(cur) = kept /\ event = "none" /\ Len(kept) = level
         /\ entry[cur].xact_depth <= level /\ entry[cur].xact_depth \in Nat /\ level \in Nat
<1>1. Typed
  BY TypedIff DEF IInv
<1>2. /\ cur \in Server \ orphans /\ nwrites < MaxWrites /\ level > 0
      /\ xact_got_connection /\ entry[cur].conn # "none" /\ ~entry[cur].changing
  BY <1>1 DEF IInv, MainInv, Connected, Typed
<1>3. /\ entry[cur] \in Entry /\ remote[cur] \in Session
      /\ entry[cur].sent = "no" /\ SessionInv(cur) /\ DoneInv(cur) /\ LevelInv(cur)
      /\ ~CommittedNow(cur) /\ KeptFor(cur) = kept /\ event = "none" /\ Len(kept) = level
      /\ entry[cur].xact_depth <= level /\ entry[cur].xact_depth \in Nat /\ level \in Nat
  BY <1>2, RunFound
<1>4. ~Unknown(cur)
  BY <1>2 DEF Unknown
<1>5. ~remote[cur].failed /\ ~remote[cur].busy
  BY <1>3, <1>4 DEF DoneInv
<1>6. entry[cur].changing = FALSE
  BY <1>2, <1>3 DEF Entry
<1> QED
  BY <1>1, <1>2, <1>3, <1>4, <1>5, <1>6 DEF Typed

(* A level of the remote transaction is begun, or that fails.              *)
LEMMA BeginRemoteStep ==
  ASSUME IInv, BeginRemote, NEW s \in Server, s = cur
  PROVE  IInv'
<1>1. /\ pc = "begin" /\ ~Begun(s) /\ remote[s].up
      /\ UNCHANGED <<hashVars, xact_got_connection, level, cur, retry, event, todo,
                     xactVars, committed, given_up, orphans, nbreaks>>
  BY DEF BeginRemote
<1>2. /\ s \in Server \ orphans /\ nwrites < MaxWrites /\ level > 0
      /\ xact_got_connection /\ entry[s].conn # "none" /\ entry[s].changing = FALSE
      /\ Typed /\ entry[s] \in Entry /\ remote[s] \in Session
      /\ entry[s].sent = "no" /\ SessionInv(s) /\ LevelInv(s)
      /\ ~Unknown(s) /\ ~remote[s].failed /\ ~remote[s].busy
      /\ ~CommittedNow(s) /\ KeptFor(s) = kept /\ event = "none" /\ Len(kept) = level
      /\ entry[s].xact_depth <= level /\ entry[s].xact_depth \in Nat /\ level \in Nat
  BY <1>1, BeginFound
<1>3. /\ UNCHANGED <<hashVars, level, event, todo, outcome, nxacts, committed, orphans, nbreaks,
                     cur, nwrites, kept, given_up, retry, xact_got_connection>>
      /\ pc # "scan" /\ pc # "raise" /\ level # 0 /\ entry[s].xact_depth < level
  BY <1>1, <1>2 DEF xactVars, Begun
<1>4. /\ cur' \in Server /\ retry' \in BOOLEAN /\ nwrites' \in Nat /\ nwrites' < MaxWrites
      /\ given_up' \subseteq Server /\ given_up \subseteq given_up' /\ kept' = kept
      /\ kept' \in Seq(SUBSET Write) /\ xact_got_connection' \in BOOLEAN
      /\ cur' \notin orphans /\ cur' = s
  BY <1>2, <1>3 DEF Typed
<1>5. KeptFor(s)' = kept
  BY <1>2, <1>3 DEF KeptFor, SubEvents
<1>6. CASE entry' = [entry EXCEPT ![s] = [entry[s] EXCEPT !.changing = TRUE]] /\ pc' = "raise"
           /\ remote' = remote
  <2> DEFINE e == [entry[s] EXCEPT !.changing = TRUE]
  <2>1. /\ e \in Entry /\ e.conn = entry[s].conn /\ e.xact_depth = entry[s].xact_depth
        /\ e.changing = TRUE /\ e.sent = "no"
    BY <1>2 DEF Entry
  <2>2. entry' = [entry EXCEPT ![s] = e] /\ remote' = [remote EXCEPT ![s] = remote[s]]
    BY <1>2, <1>6 DEF Typed
  <2> HIDE DEF e
  <2>3. entry'[s] = e /\ remote'[s] = remote[s]
    BY <1>2, <2>2 DEF Typed
  <2>4. RunAt(s, e, remote[s])
    BY <1>3, <1>6, <2>2 DEF RunAt
  <2>5. SessionInv(s)'
    BY <1>2, <1>3, <2>1, <2>3 DEF SessionInv
  <2>6. DoneInv(s)'
    BY <1>2, <1>3, <1>6, <2>3 DEF DoneInv
  <2>7. Known => LevelInv(s)'
    BY <1>2, <1>3, <1>5, <2>1, <2>3 DEF LevelInv, At
  <2> QED
    BY <1>2, <1>3, <1>4, <1>6, <2>1, <2>4, <2>5, <2>6, <2>7, RunStep
<1>7. CASE /\ entry' = [entry EXCEPT ![s] = [entry[s] EXCEPT !.xact_depth = @ + 1]] /\ pc' = pc
           /\ remote' = [remote EXCEPT ![s] = [remote[s] EXCEPT !.stack = Append(@, {})]]
  <2> DEFINE e == [entry[s] EXCEPT !.xact_depth = @ + 1]
             r == [remote[s] EXCEPT !.stack = Append(@, {})]
             depth == entry[s].xact_depth
  <2>1. /\ e \in Entry /\ e.conn = entry[s].conn /\ e.xact_depth = depth + 1
        /\ e.changing = FALSE /\ e.sent = "no"
    <3>1. depth + 1 \in 0 .. MaxLevel
      BY <1>2, <1>3 DEF Typed
    <3>2. e = [entry[s] EXCEPT !.xact_depth = depth + 1]
      BY <1>2
    <3> QED
      BY <1>2, <3>1, <3>2 DEF Entry
  <2>2. /\ r \in Session /\ r.up = TRUE /\ ~r.failed /\ ~r.busy /\ Len(r.stack) = depth + 1
        /\ \A n \in 1 .. depth + 1 : r.stack[n] = IF n = depth + 1 THEN {} ELSE remote[s].stack[n]
    <3> DEFINE k == Append(remote[s].stack, {})
    <3>1. remote[s].stack \in Seq(SUBSET Write) /\ Len(remote[s].stack) = depth
      BY <1>1, <1>2 DEF Session, SessionInv
    <3>2. /\ k \in Seq(SUBSET Write) /\ Len(k) = depth + 1
          /\ \A n \in 1 .. depth + 1 : k[n] = IF n = depth + 1 THEN {} ELSE remote[s].stack[n]
      <4> DEFINE old == remote[s].stack
      <4>1. old \in Seq(SUBSET Write) /\ Len(old) = depth /\ {} \in SUBSET Write /\ depth \in Nat
        BY <1>2, <3>1
      <4> HIDE DEF old, depth
      <4>2. /\ Append(old, {}) \in Seq(SUBSET Write) /\ Len(Append(old, {})) = depth + 1
            /\ \A n \in 1 .. depth + 1 :
                 Append(old, {})[n] = IF n = depth + 1 THEN {} ELSE old[n]
        BY <4>1, SMTT(30)
      <4> QED
        BY <4>2 DEF old
    <3>3. r = [remote[s] EXCEPT !.stack = k]
      BY <1>2
    <3> HIDE DEF k, r
    <3> QED
      BY <1>1, <1>2, <3>2, <3>3 DEF Session
  <2> HIDE DEF e, r
  <2>3. entry' = [entry EXCEPT ![s] = e] /\ remote' = [remote EXCEPT ![s] = r]
    BY <1>7 DEF e, r
  <2>4. entry'[s] = e /\ remote'[s] = r
    BY <1>2, <2>3 DEF Typed
  <2>5. RunAt(s, e, r)
    BY <1>1, <1>3, <1>7, <2>3 DEF RunAt
  <2>6. SessionInv(s)'
    BY <1>2, <1>3, <2>1, <2>2, <2>4 DEF SessionInv
  <2>7. DoneInv(s)'
    BY <1>1, <1>2, <1>3, <1>7, <2>2, <2>4 DEF DoneInv
  <2>8. Known => LevelInv(s)'
    <3> SUFFICES ASSUME Known, NEW n \in 1 .. Len(kept)
                 PROVE  /\ n > e.xact_depth => At(s, kept[n]) = {}
                        /\ n <= e.xact_depth => At(s, kept[n]) = r.stack[n]
      BY <1>3, <1>5, <2>4 DEF LevelInv, At
    <3>1. /\ n > depth => At(s, kept[n]) = {}
          /\ n <= depth => At(s, kept[n]) = remote[s].stack[n]
      BY <1>1, <1>2 DEF LevelInv
    <3>2. n \in Nat /\ n >= 1 /\ depth \in Nat
      BY <1>2
    <3> HIDE DEF depth
    <3>3. CASE n <= depth
      BY <2>1, <2>2, <3>1, <3>2, <3>3
    <3>4. CASE n = depth + 1
      <4>1. r.stack[n] = {}
        BY <2>2, <3>2, <3>4
      <4> QED
        BY <2>1, <3>1, <3>2, <3>4, <4>1
    <3>5. CASE n > depth + 1
      BY <2>1, <3>1, <3>2, <3>5
    <3> QED
      BY <3>2, <3>3, <3>4, <3>5
  <2>9. e.xact_depth <= level
    BY <1>2, <1>3, <2>1
  <2>10. pc' = "begin" => entry'[cur'].conn # "none" /\ ~entry'[cur'].changing
    BY <1>2, <1>4, <2>1, <2>4
  <2> QED
    BY <1>2, <1>3, <1>4, <2>1, <2>2, <2>5, <2>6, <2>7, <2>8, <2>9, <2>10, RunStep
<1> QED
  BY <1>6, <1>7 DEF BeginRemote, SetEntry, SetRemote

(* The session is found lost by begin_remote_xact.                         *)
LEMMA BeginLostStep ==
  ASSUME IInv, BeginLost, NEW s \in Server, s = cur
  PROVE  IInv'
<1>1. /\ pc = "begin" /\ ~Begun(s) /\ ~remote[s].up
      /\ UNCHANGED <<hashVars, xact_got_connection, level, cur, event, todo,
                     xactVars, committed, given_up, orphans, nbreaks>>
  BY DEF BeginLost
<1>2. /\ s \in Server \ orphans /\ nwrites < MaxWrites /\ level > 0
      /\ xact_got_connection /\ entry[s].conn # "none" /\ entry[s].changing = FALSE
      /\ Typed /\ entry[s] \in Entry /\ remote[s] \in Session
      /\ entry[s].sent = "no" /\ SessionInv(s) /\ LevelInv(s)
      /\ ~Unknown(s)
      /\ ~CommittedNow(s) /\ KeptFor(s) = kept /\ event = "none" /\ Len(kept) = level
      /\ entry[s].xact_depth <= level /\ entry[s].xact_depth \in Nat /\ level \in Nat
  BY <1>1, BeginFound
<1>3. /\ UNCHANGED <<hashVars, level, event, todo, outcome, nxacts, committed, orphans, nbreaks,
                     cur, nwrites, kept, given_up, xact_got_connection>>
      /\ pc # "scan" /\ pc # "raise" /\ level # 0
  BY <1>1, <1>2 DEF xactVars
<1>4. /\ cur' \in Server /\ nwrites' \in Nat /\ nwrites' < MaxWrites
      /\ given_up' \subseteq Server /\ given_up \subseteq given_up' /\ kept' = kept
      /\ kept' \in Seq(SUBSET Write) /\ xact_got_connection' \in BOOLEAN
      /\ cur' \notin orphans /\ cur' = s
  BY <1>2, <1>3 DEF Typed
<1>5. PICK e \in Entry, r \in {NoSession, NewSession} :
        /\ entry' = [entry EXCEPT ![s] = e] /\ remote' = [remote EXCEPT ![s] = r]
        /\ e.sent = "no" /\ retry' \in BOOLEAN
        /\ \/ e \in {NoConn, NewConn} /\ entry[s].xact_depth = 0
           \/ /\ e.conn = "bad" /\ e.xact_depth = entry[s].xact_depth
              /\ r = NoSession /\ pc' = "raise"
        /\ e = NoConn => r = NoSession
        /\ \/ pc' = "begin" /\ e = NewConn
           \/ pc' = "raise"
  <2>1. remote[s] = NoSession
    BY <1>1, <1>2 DEF SessionInv
  <2>2. remote = [remote EXCEPT ![s] = NoSession] /\ retry \in BOOLEAN
    BY <1>2, <2>1 DEF Typed
  <2>3. CASE entry[s].xact_depth = 0 /\ ~retry
    <3>1. retry' = TRUE
          /\ \/ /\ entry' = [entry EXCEPT ![s] = NewConn] /\ pc' = "begin"
                /\ remote' = [remote EXCEPT ![s] = NewSession]
             \/ entry' = [entry EXCEPT ![s] = NoConn] /\ pc' = "raise" /\ remote' = remote
      BY <1>1, <2>3 DEF BeginLost, SetEntry, SetRemote
    <3> QED
      BY <2>2, <2>3, <3>1, ConstantRecords
  <2>4. CASE ~(entry[s].xact_depth = 0 /\ ~retry)
    <3> DEFINE e == [entry[s] EXCEPT !.changing = TRUE, !.conn = "bad"]
    <3>1. entry' = [entry EXCEPT ![s] = e] /\ pc' = "raise" /\ remote' = remote /\ retry' = retry
      BY <2>4 DEF BeginLost, SetEntry
    <3>2. /\ e \in Entry /\ e.conn = "bad" /\ e.xact_depth = entry[s].xact_depth
          /\ e.sent = "no" /\ e # NoConn
      BY <1>2, ConstantRecords DEF Entry
    <3> HIDE DEF e
    <3> QED
      BY <2>2, <3>1, <3>2
  <2> QED
    BY <2>3, <2>4
<1>6. entry'[s] = e /\ remote'[s] = r
  BY <1>2, <1>5 DEF Typed
<1>7. RunAt(s, e, r)
  <2>1. UNCHANGED <<hashVars, level, event, todo, outcome, nxacts, committed, orphans, nbreaks>>
    BY <1>3
  <2> QED
    BY <1>3, <1>5, <2>1 DEF RunAt
<1>8. r \in Session /\ ~r.failed /\ ~r.busy
  BY ConstantRecords
<1>9. SessionInv(s)'
  <2>1. /\ e.conn = "none" => e = NoConn
        /\ ~r.up => r = NoSession
        /\ r.up => e.xact_depth = 0 /\ Len(r.stack) = 0
    BY <1>5, ConstantRecords
  <2> QED
    BY <1>2, <1>3, <1>5, <1>6, <2>1 DEF SessionInv
<1>10. DoneInv(s)'
  BY <1>2, <1>3, <1>5, <1>6, <1>8 DEF DoneInv
<1>11. Known => LevelInv(s)'
  <2>1. CASE e \in {NoConn, NewConn} /\ entry[s].xact_depth = 0
    <3>1. e.xact_depth = 0 /\ UNCHANGED <<kept, level, event>>
      BY <1>3, <2>1, ConstantRecords
    <3> QED
      BY <1>2, <1>3, <1>6, <2>1, <3>1, NoTransaction
  <2>2. CASE e.xact_depth = entry[s].xact_depth /\ r = NoSession
    <3>1. KeptFor(s)' = kept
      BY <1>2, <1>3 DEF KeptFor, SubEvents
    <3> QED
      BY <1>2, <1>3, <1>6, <2>2, <3>1, ConstantRecords DEF LevelInv, At
  <2> QED
    BY <1>5, <2>1, <2>2
<1>12. e.xact_depth <= level
  BY <1>2, <1>5, ConstantRecords
<1>13. pc' = "begin" => entry'[cur'].conn # "none" /\ ~entry'[cur'].changing
  BY <1>4, <1>5, <1>6, ConstantRecords
<1> QED
  BY <1>2, <1>3, <1>4, <1>5, <1>7, <1>8, <1>9, <1>10, <1>11, <1>12, <1>13, RunStep

(* The connection is closed outside of a callback.                         *)
LEMMA CloseStep ==
  ASSUME IInv, NEW s \in Server, pc = "run", Connected(s), entry[s].xact_depth = 0,
         DisconnectServer(s),
         UNCHANGED <<hashVars, xact_got_connection, level, pc, cur, retry, event, todo,
                     xactVars, given_up, orphans, nbreaks>>
  PROVE  IInv'
<1>1. s \in Server \ orphans
  BY ConstantRecords DEF Connected, IInv, OrphanInv
<1>2. Typed /\ entry[s].sent = "no" /\ entry[s].xact_depth <= level
  BY <1>1, RunFound
<1>3. /\ entry' = [entry EXCEPT ![s] = NoConn] /\ remote' = [remote EXCEPT ![s] = NoSession]
      /\ committed' = committed
  BY <1>2 DEF DisconnectServer, SetEntry, SetRemote
<1>4. entry'[s] = NoConn /\ remote'[s] = NoSession
  BY <1>2, <1>3 DEF Typed
<1>5. UNCHANGED <<hashVars, level, event, todo, outcome, nxacts, committed, orphans, nbreaks,
                  pc, xact_got_connection, kept, nwrites, cur, retry, given_up>>
  BY <1>3 DEF xactVars
<1>6. RunAt(s, NoConn, NoSession)
  BY <1>3, <1>5 DEF RunAt
<1>7. SessionInv(s)'
  BY <1>4, ConstantRecords DEF SessionInv
<1>8. DoneInv(s)'
  BY <1>4, <1>5, ConstantRecords DEF DoneInv
<1>9. NoConn \in Entry /\ NoSession \in Session /\ NoConn.xact_depth = 0 /\ NoConn.sent = "no"
  BY ConstantRecords
<1>10. Known => LevelInv(s)'
  BY <1>1, <1>4, <1>5, <1>9, NoTransaction
<1>11. /\ cur' \in Server /\ retry' \in BOOLEAN /\ nwrites' \in Nat
       /\ given_up' \subseteq Server /\ given_up \subseteq given_up'
       /\ kept' = kept /\ kept' \in Seq(SUBSET Write) /\ xact_got_connection' \in BOOLEAN
       /\ NoConn.xact_depth <= level
  BY <1>2, <1>5, <1>9 DEF Typed
<1>12. ~Unknown(s) /\ pc' # "begin"
  BY <1>5 DEF Unknown
<1> QED
  BY <1>1, <1>5, <1>6, <1>7, <1>8, <1>9, <1>10, <1>11, <1>12, RunStep

(* pgspider_fdw_disconnect.                                                *)
LEMMA DisconnectStep ==
  ASSUME IInv, NEW s \in Server, Disconnect(s)
  PROVE  IInv'
BY CloseStep DEF Disconnect

(* The options of the server have changed.                                 *)
LEMMA InvalStep ==
  ASSUME IInv, NEW s \in Server, Inval(s)
  PROVE  IInv'
<1>1. CASE entry[s].xact_depth = 0
  BY <1>1, CloseStep DEF Inval
<1>2. CASE entry[s].xact_depth # 0
  <2> DEFINE e == [entry[s] EXCEPT !.invalidated = TRUE]
  <2>1. /\ pc = "run" /\ Connected(s) /\ entry' = [entry EXCEPT ![s] = e] /\ remote' = remote
        /\ UNCHANGED <<hashVars, level, event, todo, outcome, nxacts, committed, orphans, nbreaks,
                       pc, xact_got_connection, kept, nwrites, cur, retry, given_up>>
    BY <1>2 DEF Inval, SetEntry, xactVars
  <2>2. s \in Server \ orphans
    BY <2>1, ConstantRecords DEF Connected, IInv, OrphanInv
  <2>3. /\ Typed /\ entry[s] \in Entry /\ remote[s] \in Session
        /\ entry[s].sent = "no" /\ SessionInv(s) /\ DoneInv(s) /\ LevelInv(s)
        /\ ~CommittedNow(s) /\ KeptFor(s) = kept /\ event = "none"
        /\ entry[s].xact_depth <= level /\ entry[s].xact_depth \in Nat /\ level \in Nat
    BY <2>1, <2>2, RunFound
  <2>4. /\ e \in Entry /\ e.conn = entry[s].conn /\ e.xact_depth = entry[s].xact_depth
        /\ e.changing = entry[s].changing /\ e.sent = "no"
    BY <2>3 DEF Entry
  <2> HIDE DEF e
  <2>5. remote' = [remote EXCEPT ![s] = remote[s]]
    BY <2>1, <2>3 DEF Typed
  <2>6. entry'[s] = e /\ remote'[s] = remote[s]
    BY <2>1, <2>3 DEF Typed
  <2>7. RunAt(s, e, remote[s])
    BY <2>1, <2>5 DEF RunAt
  <2>8. xact_got_connection
    BY <1>2, <2>3 DEF SessionInv
  <2>9. e.conn # "none"
    BY <2>1, <2>4 DEF Connected
  <2>10. SessionInv(s)'
    BY <1>2, <2>1, <2>3, <2>4, <2>6, <2>8, <2>9 DEF SessionInv
  <2>11. Unknown(s)' = Unknown(s)
    BY <2>3, <2>4, <2>6 DEF Unknown
  <2>12. DoneInv(s)'
    BY <2>1, <2>3, <2>4, <2>6, <2>8, <2>11 DEF DoneInv
  <2>13. Known => LevelInv(s)'
    <3>1. KeptFor(s)' = kept
      BY <2>1, <2>3 DEF KeptFor, SubEvents
    <3> QED
      BY <2>1, <2>3, <2>4, <2>6, <3>1 DEF LevelInv, At
  <2>14. /\ cur' \in Server /\ retry' \in BOOLEAN /\ nwrites' \in Nat
         /\ given_up' \subseteq Server /\ given_up \subseteq given_up'
         /\ kept' = kept /\ kept' \in Seq(SUBSET Write) /\ xact_got_connection' \in BOOLEAN
         /\ pc' # "begin" /\ e.xact_depth <= level
    BY <2>1, <2>3, <2>4 DEF Typed
  <2> QED
    BY <2>1, <2>2, <2>3, <2>4, <2>7, <2>10, <2>11, <2>12, <2>13, <2>14, RunStep
<1> QED
  BY <1>1, <1>2

(* The write w is added to k at the level n.                               *)
Added(q, k, n, w) ==
  /\ q \in Seq(SUBSET Write) /\ Len(q) = Len(k)
  /\ q[n] = k[n] \cup {w}
  /\ \A i \in 1 .. Len(k) : i # n => q[i] = k[i]

(* That is what the assignment does.                                       *)
LEMMA AddWrite ==
  ASSUME NEW k \in Seq(SUBSET Write), NEW w \in Write, NEW n \in 1 .. Len(k)
  PROVE  Added([k EXCEPT ![n] = @ \cup {w}], k, n, w)
<1> DEFINE x == k[n] \cup {w}
           q == [k EXCEPT ![n] = x]
<1>1. x \in SUBSET Write
  OBVIOUS
<1>2. /\ q \in Seq(SUBSET Write) /\ Len(q) = Len(k)
      /\ \A i \in 1 .. Len(k) : q[i] = IF i = n THEN x ELSE k[i]
  <2> HIDE DEF x
  <2> QED
    BY <1>1, ExceptSeq
<1> HIDE DEF q
<1>3. q[n] = x
  BY <1>2
<1>4. \A i \in 1 .. Len(k) : i # n => q[i] = k[i]
  BY <1>2
<1>5. Added(q, k, n, w)
  BY <1>2, <1>3, <1>4 DEF Added
<1> QED
  BY <1>5 DEF q

(* The statement has written w at the server s.                            *)
Written(s, w) ==
  /\ s = cur /\ w = <<s, nwrites + 1>>
  /\ pc = "begin" /\ Begun(s) /\ remote[s].up /\ pc' = "run" /\ entry' = entry
  /\ remote' = [remote EXCEPT ![s] =
                  [remote[s] EXCEPT !.stack[Len(remote[s].stack)] = @ \cup {w}]]
  /\ kept' = [kept EXCEPT ![level] = @ \cup {w}] /\ nwrites' = nwrites + 1
  /\ UNCHANGED <<hashVars, xact_got_connection, level, cur, retry, event, todo,
                 outcome, nxacts, committed, given_up, orphans, nbreaks>>

(* That keeps the invariant.                                               *)
LEMMA QueryDone ==
  ASSUME IInv, NEW s \in Server, NEW w, Written(s, w)
  PROVE  IInv'
<1> DEFINE r == [remote[s] EXCEPT !.stack[Len(remote[s].stack)] = @ \cup {w}]
           old == remote[s].stack
           stack == [old EXCEPT ![level] = @ \cup {w}]
<1>1. /\ s \in Server \ orphans /\ nwrites < MaxWrites /\ level > 0 /\ nwrites \in Nat
      /\ xact_got_connection /\ entry[s].conn # "none" /\ entry[s].changing = FALSE
      /\ Typed /\ entry[s] \in Entry /\ remote[s] \in Session
      /\ entry[s].sent = "no" /\ SessionInv(s) /\ LevelInv(s)
      /\ ~Unknown(s) /\ ~remote[s].failed /\ ~remote[s].busy
      /\ ~CommittedNow(s) /\ KeptFor(s) = kept /\ event = "none" /\ Len(kept) = level
      /\ entry[s].xact_depth <= level /\ entry[s].xact_depth \in Nat /\ level \in Nat
  BY BeginFound DEF Written
<1>2. entry[s].xact_depth = level
  BY <1>1 DEF Begun, Written
<1>3. old \in Seq(SUBSET Write) /\ Len(old) = level
  BY <1>1, <1>2 DEF Session, SessionInv, Written
<1>4. w \in Write /\ w[1] = s
  BY <1>1, Bounds DEF Write, Written
<1>5. /\ stack \in Seq(SUBSET Write) /\ Len(stack) = level
      /\ stack[level] = old[level] \cup {w}
      /\ \A n \in 1 .. level : n # level => stack[n] = old[n]
  <2>1. level \in 1 .. Len(old)
    BY <1>1, <1>3
  <2> HIDE DEF old
  <2>2. Added(stack, old, level, w)
    BY <1>3, <1>4, <2>1, AddWrite
  <2> HIDE DEF stack
  <2> QED
    BY <1>3, <2>2 DEF Added
<1>6. r = [remote[s] EXCEPT !.stack = stack]
  BY <1>1, <1>3 DEF Session
<1> HIDE DEF r, stack
<1>7. r \in Session /\ r.up /\ ~r.failed /\ ~r.busy /\ r.stack = stack
  BY <1>1, <1>5, <1>6 DEF Session, Written
<1>8. /\ kept' \in Seq(SUBSET Write) /\ Len(kept') = level
      /\ kept'[level] = kept[level] \cup {w}
      /\ \A n \in 1 .. level : n # level => kept'[n] = kept[n]
  <2>1. kept \in Seq(SUBSET Write) /\ level \in 1 .. Len(kept)
    BY <1>1 DEF Typed
  <2>2. Added([kept EXCEPT ![level] = @ \cup {w}], kept, level, w)
    BY <1>4, <2>1, AddWrite
  <2>3. Added(kept', kept, level, w)
    BY <2>2 DEF Written
  <2> QED
    BY <1>1, <2>3 DEF Added
<1>9. entry' = [entry EXCEPT ![s] = entry[s]] /\ remote' = [remote EXCEPT ![s] = r]
  BY <1>1 DEF Typed, r, Written
<1>10. entry'[s] = entry[s] /\ remote'[s] = r
  BY <1>1, <1>9 DEF Typed
<1>11. /\ UNCHANGED <<hashVars, level, event, todo, outcome, nxacts, committed, orphans, nbreaks>>
       /\ xact_got_connection' = xact_got_connection /\ pc = "begin" /\ pc' = "run"
       /\ level # 0
  BY <1>1 DEF Written
<1>12. RunAt(s, entry[s], r)
  BY <1>9, <1>11 DEF RunAt
<1>13. SessionInv(s)'
  BY <1>1, <1>2, <1>5, <1>7, <1>10, <1>11 DEF SessionInv
<1>14. DoneInv(s)'
  BY <1>1, <1>7, <1>10, <1>11 DEF DoneInv
<1>15. \A n \in 1 .. Len(kept) : \A u \in Server \ {s} : At(u, kept'[n]) = At(u, kept[n])
  BY <1>1, <1>4, <1>8 DEF At
<1>16. Known => LevelInv(s)'
  <2>1. KeptFor(s)' = kept'
    BY <1>1, <1>11 DEF KeptFor, SubEvents
  <2>2. ASSUME Known, NEW n \in 1 .. level
        PROVE  At(s, kept'[n]) = stack[n]
    <3>1. At(s, kept[n]) = old[n]
      <4>1. n <= entry[s].xact_depth /\ remote[s].up /\ n \in 1 .. Len(kept)
        BY <1>1, <1>2 DEF Written
      <4> QED
        BY <1>1, <2>2, <4>1 DEF LevelInv
    <3>2. CASE n = level
      <4>1. kept'[n] = kept[n] \cup {w} /\ stack[n] = old[n] \cup {w}
        BY <1>5, <1>8, <3>2
      <4> QED
        BY <1>4, <3>1, <4>1 DEF At
    <3>3. CASE n # level
      BY <1>5, <1>8, <3>1, <3>3
    <3> QED
      BY <3>2, <3>3
  <2>3. /\ entry'[s].xact_depth = level /\ remote'[s].stack = stack
        /\ Len(KeptFor(s)') = level
    BY <1>2, <1>7, <1>8, <1>10, <2>1
  <2>4. ASSUME Known, NEW n \in 1 .. level
        PROVE  /\ n > entry'[s].xact_depth => At(s, KeptFor(s)'[n]) = {}
               /\ n <= entry'[s].xact_depth /\ remote'[s].up =>
                    At(s, KeptFor(s)'[n]) = remote'[s].stack[n]
    <3>1. ~(n > level)
      BY <1>1
    <3> QED
      BY <2>1, <2>2, <2>3, <2>4, <3>1
  <2> QED
    BY <2>3, <2>4 DEF LevelInv, At
<1>17. /\ cur' \in Server /\ retry' \in BOOLEAN /\ nwrites' \in Nat
       /\ given_up' \subseteq Server /\ given_up \subseteq given_up'
       /\ xact_got_connection' \in BOOLEAN
  BY <1>1 DEF Typed, Written
<1>18. /\ s \in Server \ orphans /\ entry[s] \in Entry /\ r \in Session
       /\ entry[s].xact_depth <= level /\ entry[s].sent = "no"
       /\ kept' \in Seq(SUBSET Write) /\ Len(kept') = Len(kept)
       /\ (xact_got_connection => xact_got_connection') /\ ~(pc' = "begin") /\ ~Unknown(s)
  BY <1>1, <1>7, <1>8, <1>11
<1> QED
  BY <1>12, <1>13, <1>14, <1>15, <1>16, <1>17, <1>18, RunStep

(* It fails there, is interrupted, or finds the session lost.              *)
LEMMA QueryStep ==
  ASSUME IInv, Query, NEW s \in Server, s = cur
  PROVE  IInv'
<1>1. /\ pc = "begin" /\ Begun(s) /\ nwrites' = nwrites + 1
      /\ UNCHANGED <<hashVars, xact_got_connection, level, cur, retry, event, todo,
                     outcome, nxacts, committed, given_up, orphans, nbreaks>>
  BY DEF Query
<1>2. CASE pc' = "run"
  <2>1. /\ remote[s].up /\ entry' = entry
        /\ remote' = [remote EXCEPT ![s] =
             [remote[s] EXCEPT !.stack[Len(remote[s].stack)] = @ \cup {<<s, nwrites + 1>>}]]
        /\ kept' = [kept EXCEPT ![level] = @ \cup {<<s, nwrites + 1>>}]
    BY <1>2 DEF Query, SetRemote
  <2>2. Written(s, <<s, nwrites + 1>>)
    BY <1>1, <1>2, <2>1 DEF Written
  <2> QED
    BY <2>2, QueryDone
<1>3. CASE pc' # "run"
  <2>1. /\ s \in Server \ orphans /\ nwrites < MaxWrites /\ level > 0 /\ nwrites \in Nat
        /\ xact_got_connection /\ entry[s].conn # "none" /\ entry[s].changing = FALSE
        /\ Typed /\ entry[s] \in Entry /\ remote[s] \in Session
        /\ entry[s].sent = "no" /\ SessionInv(s) /\ LevelInv(s)
        /\ ~Unknown(s)
        /\ ~CommittedNow(s) /\ KeptFor(s) = kept /\ event = "none" /\ Len(kept) = level
        /\ entry[s].xact_depth <= level /\ entry[s].xact_depth \in Nat /\ level \in Nat
    BY <1>1, BeginFound
  <2>2. entry[s].xact_depth = level
    BY <1>1, <2>1 DEF Begun
  <2>3. PICK e \in Entry, r \in Session :
          /\ entry' = [entry EXCEPT ![s] = e] /\ remote' = [remote EXCEPT ![s] = r]
          /\ e.conn # "none" /\ e.xact_depth = level /\ e.changing = FALSE /\ e.sent = "no"
          /\ r.up = remote[s].up /\ r.stack = remote[s].stack
          /\ ~r.up => r = NoSession
    <3>1. CASE remote[s].up
      <4>1. PICK r \in {[remote[s] EXCEPT !.failed = TRUE], [remote[s] EXCEPT !.busy = TRUE]} :
              remote' = [remote EXCEPT ![s] = r]
        BY <1>3, <3>1 DEF Query, SetRemote
      <4>2. r \in Session /\ r.up = remote[s].up /\ r.stack = remote[s].stack
        BY <2>1 DEF Session
      <4>3. entry' = entry
        BY <1>3, <3>1 DEF Query
      <4>4. entry' = [entry EXCEPT ![s] = entry[s]]
        BY <2>1, <4>3 DEF Typed
      <4> QED
        BY <2>1, <2>2, <3>1, <4>1, <4>2, <4>4
    <3>2. CASE ~remote[s].up
      <4> DEFINE e == [entry[s] EXCEPT !.conn = "bad"]
      <4>1. entry' = [entry EXCEPT ![s] = e] /\ remote' = remote
        BY <1>3, <3>2 DEF Query, SetEntry
      <4>2. /\ e \in Entry /\ e.conn = "bad" /\ e.xact_depth = entry[s].xact_depth
            /\ e.changing = entry[s].changing /\ e.sent = entry[s].sent
        BY <2>1 DEF Entry
      <4> HIDE DEF e
      <4>3. remote' = [remote EXCEPT ![s] = remote[s]]
        BY <2>1, <4>1 DEF Typed
      <4>4. ~remote[s].up => remote[s] = NoSession
        BY <2>1 DEF SessionInv
      <4> QED
        BY <2>1, <2>2, <4>1, <4>2, <4>3, <4>4
    <3> QED
      BY <3>1, <3>2
  <2>4. entry'[s] = e /\ remote'[s] = r
    BY <2>1, <2>3 DEF Typed
  <2>5. pc' = "raise" /\ kept' = kept
    BY <1>3 DEF Query
  <2>6. /\ UNCHANGED <<hashVars, level, event, todo, outcome, nxacts, committed, orphans, nbreaks>>
        /\ xact_got_connection' = xact_got_connection /\ level # 0
    BY <1>1, <2>1
  <2>7. RunAt(s, e, r)
    BY <1>1, <2>3, <2>5, <2>6 DEF RunAt
  <2>8. SessionInv(s)'
    BY <2>1, <2>2, <2>3, <2>4, <2>6 DEF SessionInv
  <2>9. DoneInv(s)'
    BY <2>1, <2>3, <2>4, <2>5, <2>6 DEF DoneInv
  <2>10. Known => LevelInv(s)'
    <3>1. KeptFor(s)' = kept
      BY <2>1, <2>5, <2>6 DEF KeptFor, SubEvents
    <3> QED
      BY <2>1, <2>2, <2>3, <2>4, <2>6, <3>1 DEF LevelInv, At
  <2>11. /\ cur' \in Server /\ retry' \in BOOLEAN /\ nwrites' \in Nat
         /\ given_up' \subseteq Server /\ given_up \subseteq given_up'
         /\ kept' \in Seq(SUBSET Write) /\ xact_got_connection' \in BOOLEAN
    BY <1>1, <2>1, <2>5 DEF Typed
  <2>12. e.xact_depth <= level
    BY <2>1, <2>3
  <2> QED
    BY <2>1, <2>3, <2>5, <2>6, <2>7, <2>8, <2>9, <2>10, <2>11, <2>12, RunStep
<1> QED
  BY <1>2, <1>3

-----------------------------------------------------------------------------
(* The session of s is lost.                                               *)
LEMMA LoseSessionStep ==
  ASSUME IInv, NEW s \in Server, LoseSession(s)
  PROVE  IInv'
<1>1. Typed
  BY TypedIff DEF IInv
<1>2. /\ hash' = hash /\ creators' = creators /\ entry' = entry /\ level' = level /\ pc' = pc
      /\ xact_got_connection' = xact_got_connection /\ cur' = cur /\ retry' = retry
      /\ event' = event /\ todo' = todo /\ outcome' = outcome /\ kept' = kept
      /\ nwrites' = nwrites /\ nxacts' = nxacts /\ given_up' = given_up /\ orphans' = orphans
  BY DEF LoseSession, hashVars, xactVars
<1>3. /\ remote[s].up /\ nbreaks' = nbreaks + 1 /\ remote' \in [Server -> Session]
      /\ remote'[s] = NoSession /\ \A u \in Server \ {s} : remote'[u] = remote[u]
  BY <1>1, ConstantRecords DEF LoseSession, Typed
<1>4. \/ committed' = committed
      \/ /\ entry[s].sent = "COMMIT" /\ ~remote[s].failed
         /\ committed' = committed \cup CommittedBy(s)
  BY DEF LoseSession, CommittedBy
<1>5. committed' # committed => pc = "scan" /\ ~Passed(s) /\ event \in TopEvents
                                /\ s \notin orphans /\ entry[s].xact_depth > 0
  <2> SUFFICES ASSUME entry[s].sent = "COMMIT"
               PROVE  pc = "scan" /\ ~Passed(s) /\ event \in TopEvents
                      /\ s \notin orphans /\ entry[s].xact_depth > 0
    BY <1>4
  <2>1. ~Passed(s)
    BY DEF Passed
  <2> QED
    BY <2>1, Found DEF SentInv
<1>6. Known => \A u \in Server \ {s} : At(u, committed') = At(u, committed)
  <2> SUFFICES ASSUME Known, committed' # committed, NEW u \in Server \ {s}
               PROVE  At(u, committed') = At(u, committed)
    OBVIOUS
  <2>1. event = "PRE_COMMIT"
    BY <1>5 DEF Known, TopEvents
  <2>2. CommittedBy(s) = At(s, kept[1])
    BY <1>3, <1>4, <1>5, <2>1, CommittedWrites
  <2>3. committed' = committed \cup At(s, kept[1])
    BY <1>4, <2>2
  <2> QED
    BY <2>3 DEF At
<1>7. Typed'
  <2>1. committed' \subseteq Write
    BY <1>1, <1>4, CommittedTyped DEF Typed
  <2> QED
    BY <1>1, <1>2, <1>3, <2>1 DEF Typed
<1>8. Unknown(s)' = Unknown(s) /\ Passed(s)' = Passed(s) /\ CommittedNow(s)' = CommittedNow(s)
      /\ KeptFor(s)' = KeptFor(s)
  BY <1>2 DEF Unknown, Passed, CommittedNow, KeptFor, KeptAfter
<1>9. OneServer(s)
  <2>1. given_up \subseteq given_up' /\ \A u \in Server \ {s} : entry'[u] = entry[u]
    BY <1>2
  <2> HIDE DEF At, Known
  <2> QED
    BY <1>2, <1>3, <1>6, <1>8, <2>1 DEF OneServer
<1>10. (Known' => Known) /\ \A u \in Server \ {s} : ServerInv(u)'
  BY <1>9, Frame
<1>11. ServerInv(s)'
  <2>1. /\ SentInv(s) /\ LevelInv(s) /\ CommitInv(s)
        /\ s \notin orphans => SessionInv(s) /\ DoneInv(s)
    BY DEF IInv, ServerInv
  <2>2. SentInv(s)'
    BY <1>2, <2>1 DEF SentInv
  <2>3. LevelInv(s)'
    BY <1>2, <1>3, <1>8, <1>10, <2>1, ConstantRecords DEF LevelInv, At
  <2>4. CommitInv(s)'
    <3>1. CASE committed' = committed
      BY <1>2, <1>3, <1>8, <1>10, <2>1, <3>1 DEF CommitInv, At
    <3>2. CASE committed' # committed
      <4>1. ~CommittedNow(s) /\ entry[s].sent = "COMMIT"
        BY <1>4, <1>5, <3>2 DEF CommittedNow
      <4> QED
        BY <1>2, <1>3, <1>8, <4>1, ConstantRecords DEF CommitInv
    <3> QED
      BY <3>1, <3>2
  <2>5. s \notin orphans => SessionInv(s)'
    BY <1>2, <1>3, <2>1, ConstantRecords DEF SessionInv
  <2>6. s \notin orphans => DoneInv(s)'
    BY <1>2, <1>3, <1>8, <2>1, ConstantRecords DEF DoneInv
  <2> QED
    BY <1>2, <2>2, <2>3, <2>4, <2>5, <2>6 DEF ServerInv
<1>12. MainInv' /\ OrphanInv'
  BY <1>2 DEF IInv, MainInv, OrphanInv, Connected
<1>13. CommitComplete'
  <2>1. CASE committed' = committed
    BY <1>2, <2>1 DEF IInv, CommitComplete
  <2>2. CASE committed' # committed
    <3>1. level > 0
      BY <1>1, <1>5, <2>2 DEF IInv, MainInv, Typed
    <3> QED
      BY <1>2, <3>1 DEF IInv, MainInv, CommitComplete
  <2> QED
    BY <2>1, <2>2
<1>14. TypeOK'
  BY <1>7, TypedNext
<1> QED
  BY <1>10, <1>11, <1>12, <1>13, <1>14 DEF IInv

-----------------------------------------------------------------------------
(* The local transaction.                                                  *)

(* What holds of every connection outside of a callback.                   *)
LEMMA QuietFound ==
  ASSUME IInv, NEW s \in Server, pc # "scan"
  PROVE  /\ Typed /\ entry[s] \in Entry /\ remote[s] \in Session
         /\ entry[s].sent = "no" /\ LevelInv(s) /\ (s \in orphans => entry[s] = NoConn)
         /\ s \notin orphans => SessionInv(s) /\ DoneInv(s)
         /\ ~CommittedNow(s) /\ KeptFor(s) = kept /\ event = "none" /\ todo = {}
         /\ level > 0 => Len(kept) = level
         /\ level > 0 /\ Known => At(s, committed) = {}
         /\ entry[s].xact_depth <= level /\ entry[s].xact_depth \in Nat /\ level \in Nat
<1>1. Typed /\ entry[s] \in Entry /\ remote[s] \in Session
  BY TypedIff DEF IInv, Typed
<1>2. ServerInv(s) /\ MainInv /\ (s \in orphans => entry[s] = NoConn)
  BY DEF IInv, OrphanInv
<1>3. /\ entry[s].sent = "no" /\ LevelInv(s) /\ CommitInv(s)
      /\ s \notin orphans => SessionInv(s) /\ DoneInv(s)
  BY <1>2 DEF ServerInv, SentInv
<1>4. event = "none" /\ todo = {} /\ (level > 0 => Len(kept) = level)
  BY <1>2 DEF MainInv
<1>5. ~CommittedNow(s) /\ KeptFor(s) = kept
  BY <1>4 DEF CommittedNow, KeptFor, SubEvents
<1>6. level > 0 /\ Known => At(s, committed) = {}
  BY <1>3, <1>5 DEF CommitInv
<1>7. entry[s].xact_depth <= level /\ entry[s].xact_depth \in Nat /\ level \in Nat
  BY <1>1 DEF Typed, Entry
<1> QED
  BY <1>1, <1>2, <1>3, <1>4, <1>5, <1>6, <1>7

(* A transaction begins.                                                   *)
LEMMA BeginXactStep ==
  ASSUME IInv, BeginXact
  PROVE  IInv'
<1>1. Typed
  BY TypedIff DEF IInv
<1>2. /\ hash' = hash /\ creators' = creators /\ entry' = entry /\ remote' = remote
      /\ xact_got_connection' = xact_got_connection /\ pc' = pc /\ cur' = cur /\ retry' = retry
      /\ event' = event /\ todo' = todo /\ orphans' = orphans /\ nbreaks' = nbreaks
      /\ level = 0 /\ level' = 1 /\ nxacts < MaxXacts /\ nxacts' = nxacts + 1
      /\ outcome' = "open" /\ kept' = <<{}>> /\ nwrites' = 0 /\ committed' = {} /\ given_up' = {}
  BY DEF BeginXact, hashVars
<1>3. pc = "run" /\ ~xact_got_connection /\ creators = {} /\ todo = {} /\ event = "none"
  BY <1>2 DEF IInv, MainInv
<1>4. kept' \in Seq(SUBSET Write) /\ Len(kept') = 1 /\ kept'[1] = {}
  BY <1>2
<1>5. Typed'
  <2>1. level' \in 0 .. MaxLevel
    BY <1>2, Bounds
  <2>2. \A s \in Server : entry'[s].xact_depth <= level'
    BY <1>1, <1>2 DEF Typed, Entry
  <2> QED
    BY <1>1, <1>2, <1>4, <2>1, <2>2 DEF Typed
<1>6. ASSUME NEW s \in Server PROVE ServerInv(s)'
  <2>1. /\ entry[s].sent = "no" /\ (s \notin orphans => SessionInv(s) /\ DoneInv(s))
        /\ entry[s].xact_depth = 0
    BY <1>2, <1>3, QuietFound
  <2>2. ~CommittedNow(s)' /\ KeptFor(s)' = kept'
    BY <1>2, <1>3 DEF CommittedNow, KeptFor, SubEvents
  <2>3. SentInv(s)'
    BY <1>2, <1>3, <2>1 DEF SentInv
  <2>4. LevelInv(s)'
    BY <1>2, <1>4, <2>1, <2>2 DEF LevelInv, At
  <2>5. CommitInv(s)'
    BY <1>2, <2>2 DEF CommitInv, At
  <2>6. s \notin orphans => SessionInv(s)'
    BY <1>2, <2>1 DEF SessionInv
  <2>7. s \notin orphans => DoneInv(s)'
    BY <1>2, <1>3, <2>1, ConstantRecords DEF SessionInv, DoneInv
  <2> QED
    BY <1>2, <2>3, <2>4, <2>5, <2>6, <2>7 DEF ServerInv
<1>7. MainInv' /\ OrphanInv' /\ CommitComplete'
  BY <1>2, <1>3, <1>4 DEF IInv, MainInv, OrphanInv, CommitComplete
<1>8. TypeOK'
  BY <1>5, TypedNext
<1> QED
  BY <1>6, <1>7, <1>8 DEF IInv

(* A subtransaction begins.                                                *)
LEMMA BeginSubStep ==
  ASSUME IInv, BeginSub
  PROVE  IInv'
<1>1. Typed
  BY TypedIff DEF IInv
<1>2. /\ hash' = hash /\ creators' = creators /\ entry' = entry /\ remote' = remote
      /\ xact_got_connection' = xact_got_connection /\ pc' = pc /\ cur' = cur /\ retry' = retry
      /\ event' = event /\ todo' = todo /\ orphans' = orphans /\ nbreaks' = nbreaks
      /\ outcome' = outcome /\ nwrites' = nwrites /\ nxacts' = nxacts
      /\ committed' = committed /\ given_up' = given_up
      /\ pc = "run" /\ level \in 1 .. MaxLevel - 1 /\ level' = level + 1
      /\ kept' = Append(kept, {})
  BY DEF BeginSub, hashVars
<1>3. /\ todo = {} /\ event = "none" /\ Len(kept) = level /\ outcome = "open"
      /\ level \in Nat /\ level > 0 /\ kept \in Seq(SUBSET Write)
  BY <1>1, <1>2 DEF IInv, MainInv, Typed
<1>4. /\ kept' \in Seq(SUBSET Write) /\ Len(kept') = level + 1 /\ kept'[level + 1] = {}
      /\ \A n \in 1 .. level : kept'[n] = kept[n]
  BY <1>2, <1>3
<1>5. Typed'
  <2>1. level' \in 0 .. MaxLevel
    BY <1>2, Bounds
  <2>2. \A s \in Server : entry'[s].xact_depth <= level'
    BY <1>1, <1>2, <1>3 DEF Typed, Entry
  <2> QED
    BY <1>1, <1>2, <1>4, <2>1, <2>2 DEF Typed
<1>6. Known' => Known
  BY <1>2 DEF Known, Unknown
<1>7. ASSUME NEW s \in Server PROVE ServerInv(s)'
  <2>1. /\ entry[s].sent = "no" /\ (s \notin orphans => SessionInv(s) /\ DoneInv(s)) /\ LevelInv(s)
        /\ ~CommittedNow(s) /\ KeptFor(s) = kept /\ (level > 0 /\ Known => At(s, committed) = {})
        /\ entry[s].xact_depth <= level /\ entry[s].xact_depth \in Nat
    BY <1>2, QuietFound
  <2>2. ~CommittedNow(s)' /\ KeptFor(s)' = kept'
    BY <1>2, <1>3 DEF CommittedNow, KeptFor, SubEvents
  <2>3. SentInv(s)'
    BY <1>2, <1>3, <2>1 DEF SentInv
  <2>4. LevelInv(s)'
    <3>1. ASSUME Known, NEW n \in 1 .. Len(kept')
          PROVE  /\ n > entry[s].xact_depth => At(s, kept'[n]) = {}
                 /\ n <= entry[s].xact_depth /\ remote[s].up => At(s, kept'[n]) = remote[s].stack[n]
      <4>1. CASE n = level + 1
        <5>1. ~(n <= entry[s].xact_depth)
          BY <1>3, <2>1, <4>1
        <5> QED
          BY <1>4, <4>1, <5>1 DEF At
      <4>2. CASE n # level + 1
        <5>1. n \in 1 .. level
          BY <1>3, <1>4, <4>2
        <5> QED
          BY <1>3, <1>4, <2>1, <3>1, <5>1 DEF LevelInv
      <4> QED
        BY <4>1, <4>2
    <3> QED
      BY <1>2, <1>6, <2>2, <3>1 DEF LevelInv, At
  <2>5. CommitInv(s)'
    BY <1>2, <1>3, <1>6, <2>1, <2>2 DEF CommitInv, At
  <2>6. s \notin orphans => SessionInv(s)'
    BY <1>2, <2>1 DEF SessionInv
  <2>7. s \notin orphans => DoneInv(s)'
    BY <1>2, <1>3, <2>1 DEF DoneInv, Unknown
  <2> QED
    BY <1>2, <2>3, <2>4, <2>5, <2>6, <2>7 DEF ServerInv
<1>8. MainInv' /\ OrphanInv' /\ CommitComplete'
  BY <1>2, <1>3, <1>4 DEF IInv, MainInv, OrphanInv, CommitComplete
<1>9. TypeOK'
  BY <1>5, TypedNext
<1> QED
  BY <1>7, <1>8, <1>9 DEF IInv

(* A step that moves nothing a connection depends on.                      *)
LEMMA Unmoved ==
  ASSUME IInv, NEW u \in Server,
         UNCHANGED <<entry, remote, xact_got_connection, level, pc, event, todo, kept,
                     committed, given_up, orphans>>
  PROVE  ServerInv(u)'
<1>1. /\ entry' = entry /\ remote' = remote /\ xact_got_connection' = xact_got_connection
      /\ level' = level /\ pc' = pc /\ event' = event /\ todo' = todo /\ kept' = kept
      /\ committed' = committed /\ given_up' = given_up /\ orphans' = orphans
  OBVIOUS
<1>2. /\ Passed(u)' = Passed(u) /\ CommittedNow(u)' = CommittedNow(u)
      /\ KeptFor(u)' = KeptFor(u) /\ Known' = Known /\ Unknown(u)' = Unknown(u)
  BY <1>1 DEF Passed, CommittedNow, KeptFor, KeptAfter, Known, Unknown
<1>3. ServerInv(u)
  BY DEF IInv
<1>4. SentInv(u)' /\ (u \notin orphans => SessionInv(u)')
  BY <1>1, <1>3 DEF ServerInv, SentInv, SessionInv
<1>5. u \notin orphans => DoneInv(u)'
  BY <1>1, <1>2, <1>3 DEF ServerInv, DoneInv
<1>6. LevelInv(u)' /\ CommitInv(u)'
  BY <1>1, <1>2, <1>3 DEF ServerInv, LevelInv, CommitInv, At
<1> QED
  BY <1>1, <1>4, <1>5, <1>6 DEF ServerInv

(* A child thread finds ConnectionHash NULL.                               *)
LEMMA FindHashNullStep ==
  ASSUME IInv, NEW s \in Server, FindHashNull(s)
  PROVE  IInv'
<1>1. Typed
  BY TypedIff DEF IInv
<1>2. /\ hash' = hash /\ creators' = creators \cup {s} /\ entry' = entry /\ remote' = remote
      /\ xact_got_connection' = xact_got_connection /\ level' = level /\ pc' = pc /\ cur' = cur
      /\ retry' = retry /\ event' = event /\ todo' = todo /\ outcome' = outcome /\ kept' = kept
      /\ nwrites' = nwrites /\ nxacts' = nxacts /\ committed' = committed
      /\ given_up' = given_up /\ orphans' = orphans /\ nbreaks' = nbreaks
      /\ pc = "run" /\ level > 0
  BY DEF FindHashNull, xactVars
<1>3. Typed'
  BY <1>1, <1>2 DEF Typed
<1>4. \A u \in Server : ServerInv(u)'
  BY <1>2, Unmoved
<1>5. MainInv' /\ OrphanInv' /\ CommitComplete'
  <2>1. level # 0
    BY <1>1, <1>2 DEF Typed
  <2> QED
    BY <1>2, <2>1 DEF IInv, MainInv, OrphanInv, CommitComplete
<1>6. TypeOK'
  BY <1>3, TypedNext
<1> QED
  BY <1>4, <1>5, <1>6 DEF IInv

(* It creates the hash table: the connections of one that another thread   *)
(* has created are lost.                                                   *)
LEMMA CreateHashStep ==
  ASSUME IInv, NEW s \in Server, CreateHash(s)
  PROVE  IInv'
<1>1. Typed
  BY TypedIff DEF IInv
<1>2. /\ hash' = hash + 1 /\ creators' = creators \ {s} /\ remote' = remote
      /\ entry' = [t \in Server |-> NoConn]
      /\ orphans' = orphans \cup {t \in Server : Connected(t)}
      /\ xact_got_connection' = xact_got_connection /\ level' = level /\ pc' = pc /\ cur' = cur
      /\ retry' = retry /\ event' = event /\ todo' = todo /\ outcome' = outcome /\ kept' = kept
      /\ nwrites' = nwrites /\ nxacts' = nxacts /\ committed' = committed
      /\ given_up' = given_up /\ nbreaks' = nbreaks
      /\ pc \in {"run", "raise"} /\ s \in creators
  BY DEF CreateHash, xactVars
<1>3. level > 0 /\ todo = {} /\ event = "none" /\ level \in Nat
  BY <1>1, <1>2 DEF IInv, MainInv, Typed
<1>4. entry' \in [Server -> Entry] /\ \A u \in Server : entry'[u] = NoConn
  BY <1>2, ConstantRecords
<1>5. Typed'
  <2>1. \A u \in Server : entry'[u].xact_depth <= level'
    BY <1>2, <1>3, <1>4, ConstantRecords
  <2>2. creators' \subseteq Server /\ orphans' \subseteq Server
    BY <1>1, <1>2 DEF Typed
  <2> QED
    BY <1>1, <1>2, <1>4, <2>1, <2>2 DEF Typed
<1>6. \A u \in Server : u \notin orphans' => u \notin orphans /\ entry'[u] = entry[u]
  <2> SUFFICES ASSUME NEW u \in Server, u \notin orphans'
               PROVE  u \notin orphans /\ entry'[u] = entry[u]
    OBVIOUS
  <2>1. u \notin orphans /\ entry[u].conn = "none"
    BY <1>2 DEF Connected
  <2>2. SessionInv(u)
    BY <2>1 DEF IInv, ServerInv
  <2> QED
    BY <1>4, <2>1, <2>2 DEF SessionInv
<1>7. Known' => Known /\ \A u \in Server : entry'[u] = entry[u]
  <2> SUFFICES ASSUME Known' PROVE Known /\ \A u \in Server : entry'[u] = entry[u]
    OBVIOUS
  <2>1. orphans' = {} /\ given_up' = {} /\ event' # "ABORT" /\ \A u \in Server : ~Unknown(u)'
    BY DEF Known
  <2>2. orphans = {} /\ \A u \in Server : entry'[u] = entry[u]
    BY <1>2, <1>6, <2>1
  <2>3. \A u \in Server : ~Unknown(u)
    BY <2>1, <2>2 DEF Unknown
  <2> QED
    BY <1>2, <2>1, <2>2, <2>3 DEF Known
<1>8. ASSUME NEW u \in Server PROVE ServerInv(u)'
  <2>1. /\ LevelInv(u) /\ (u \notin orphans => SessionInv(u) /\ DoneInv(u))
        /\ ~CommittedNow(u) /\ KeptFor(u) = kept /\ (level > 0 /\ Known => At(u, committed) = {})
    BY <1>2, QuietFound
  <2>2. ~CommittedNow(u)' /\ KeptFor(u)' = kept
    BY <1>2, <1>3 DEF CommittedNow, KeptFor, SubEvents
  <2>3. SentInv(u)'
    BY <1>2, <1>3, <1>4, ConstantRecords DEF SentInv
  <2>4. LevelInv(u)'
    BY <1>2, <1>7, <2>1, <2>2 DEF LevelInv, At
  <2>5. CommitInv(u)'
    BY <1>2, <1>3, <1>7, <2>1, <2>2 DEF CommitInv, At
  <2>6. u \notin orphans' => SessionInv(u)'
    BY <1>2, <1>6, <2>1 DEF SessionInv
  <2>7. u \notin orphans' => DoneInv(u)'
    BY <1>2, <1>3, <1>6, <2>1 DEF DoneInv, Unknown, Passed
  <2> QED
    BY <2>3, <2>4, <2>5, <2>6, <2>7 DEF ServerInv
<1>9. MainInv'
  BY <1>2, <1>3 DEF IInv, MainInv
<1>10. OrphanInv' /\ CommitComplete'
  <2>1. OrphanInv'
    BY <1>4, <1>5 DEF OrphanInv, Typed
  <2>2. outcome = "open"
    BY <1>3 DEF IInv, MainInv
  <2> QED
    BY <1>2, <2>1, <2>2 DEF CommitComplete
<1>11. TypeOK'
  BY <1>5, TypedNext
<1> QED
  BY <1>8, <1>9, <1>10, <1>11 DEF IInv

(* The writes by level of a connection that the callback of a              *)
(* subtransaction has nothing to do for.                                   *)
LEMMA NothingToRelease ==
  ASSUME IInv, NEW s \in Server, pc # "scan", level' = level, kept' = kept, level >= 2,
         Known, entry[s].xact_depth < level
  PROVE  \A n \in 1 .. Len(KeptAfter') :
           /\ n > entry[s].xact_depth => At(s, KeptAfter'[n]) = {}
           /\ n <= entry[s].xact_depth /\ remote[s].up => At(s, KeptAfter'[n]) = remote[s].stack[n]
<1>1. /\ Typed /\ LevelInv(s) /\ ~CommittedNow(s) /\ KeptFor(s) = kept
      /\ (level > 0 => Len(kept) = level)
      /\ entry[s].xact_depth \in Nat /\ level \in Nat
  BY QuietFound
<1>2. \A n \in 1 .. level :
        /\ n > entry[s].xact_depth => At(s, kept[n]) = {}
        /\ n <= entry[s].xact_depth /\ remote[s].up => At(s, kept[n]) = remote[s].stack[n]
  <2>1. level > 0 /\ Len(KeptFor(s)) = level
    BY <1>1
  <2> QED
    BY <1>1, <2>1 DEF LevelInv
<1>3. At(s, kept[level]) = {}
  BY <1>1, <1>2
<1>4. kept \in Seq(SUBSET Write) /\ Len(kept) = level
  BY <1>1 DEF Typed
<1>5. /\ Len(KeptAfter') = level - 1
      /\ \A n \in 1 .. level - 1 :
           KeptAfter'[n] = kept[n] \/ KeptAfter'[n] = kept[n] \cup kept[level]
  <2>1. CASE event' = "PRE_COMMIT_SUB"
    <3> DEFINE front == SubSeq(kept, 1, level - 2)
               last == kept[level - 1] \cup kept[level]
    <3>1. front \in Seq(SUBSET Write) /\ Len(front) = level - 2
          /\ \A n \in 1 .. level - 2 : front[n] = kept[n]
      BY <1>1, <1>4
    <3>2. last \in SUBSET Write
      BY <1>1, <1>4
    <3>3. KeptAfter' = Append(front, last)
      BY <2>1 DEF KeptAfter
    <3> HIDE DEF front, last
    <3>4. /\ Len(Append(front, last)) = level - 1
          /\ \A n \in 1 .. level - 1 :
               Append(front, last)[n] = IF n = level - 1 THEN last ELSE front[n]
      BY <1>1, <3>1, <3>2
    <3> QED
      BY <1>1, <3>1, <3>3, <3>4 DEF last
  <2>2. CASE event' # "PRE_COMMIT_SUB"
    <3>1. KeptAfter' = SubSeq(kept, 1, level - 1)
      BY <2>2 DEF KeptAfter
    <3> QED
      BY <1>1, <1>4, <3>1
  <2> QED
    BY <2>1, <2>2
<1>6. \A n \in 1 .. level - 1 : At(s, KeptAfter'[n]) = At(s, kept[n])
  <2> SUFFICES ASSUME NEW n \in 1 .. level - 1 PROVE At(s, KeptAfter'[n]) = At(s, kept[n])
    OBVIOUS
  <2>1. KeptAfter'[n] = kept[n] \/ KeptAfter'[n] = kept[n] \cup kept[level]
    BY <1>5
  <2>2. At(s, kept[n] \cup kept[level]) = At(s, kept[n]) \cup At(s, kept[level])
    BY DEF At
  <2>3. At(s, kept[n] \cup kept[level]) = At(s, kept[n])
    BY <1>3, <2>2
  <2> QED
    BY <2>1, <2>3
<1>7. \A n \in 1 .. level - 1 : n \in 1 .. level
  BY <1>1
<1> QED
  BY <1>2, <1>5, <1>6, <1>7

(* The callback of the transaction or subtransaction that ends, or of the  *)
(* one that an error aborts, is called.                                    *)
LEMMA StartStep ==
  ASSUME IInv, pc \in {"run", "raise"}, level > 0, creators = {}, NEW ev,
         level = 1 => ev \in TopEvents, level # 1 => ev \in SubEvents,
         pc = "raise" => ev \in AbortEvents, StartCallback(ev),
         UNCHANGED <<hashVars, entry, remote, xact_got_connection, level, cur, retry,
                     xactVars, committed, given_up, orphans, nbreaks>>
  PROVE  IInv'
<1>1. Typed
  BY TypedIff DEF IInv
<1>2. /\ hash' = hash /\ creators' = creators /\ entry' = entry /\ remote' = remote
      /\ xact_got_connection' = xact_got_connection /\ level' = level /\ cur' = cur
      /\ retry' = retry /\ outcome' = outcome /\ kept' = kept
      /\ nwrites' = nwrites /\ nxacts' = nxacts /\ committed' = committed
      /\ given_up' = given_up /\ orphans' = orphans /\ nbreaks' = nbreaks
  BY DEF hashVars, xactVars
<1>3. /\ pc' = "scan" /\ event' = ev
      /\ todo' = IF xact_got_connection THEN Affected(ev) ELSE {}
  BY DEF StartCallback
<1>4. level \in Nat /\ event = "none" /\ todo = {} /\ outcome = "open" /\ (level # 1 => level >= 2)
  BY <1>1 DEF IInv, MainInv, Typed
<1>5. ev \in {"PRE_COMMIT", "ABORT", "PRE_COMMIT_SUB", "ABORT_SUB"}
      /\ (ev \in TopEvents <=> level = 1) /\ (ev \in SubEvents <=> level # 1)
  BY DEF TopEvents, SubEvents
<1>6. \A s \in Server : s \in todo' <=> /\ xact_got_connection /\ entry[s].conn # "none"
                                        /\ ev \in SubEvents => entry[s].xact_depth >= level
  BY <1>3 DEF Affected, Connected, SubEvents
<1>7. Typed'
  <2>1. todo' \subseteq Server
    BY <1>3 DEF Affected
  <2> QED
    BY <1>1, <1>2, <1>3, <1>5, <2>1 DEF Typed
<1>8. Known' => Known
  BY <1>2, <1>4 DEF Known, Unknown
<1>9. ASSUME NEW s \in Server PROVE ServerInv(s)'
  <2>1. /\ entry[s].sent = "no" /\ LevelInv(s) /\ (s \in orphans => entry[s] = NoConn)
        /\ s \notin orphans => SessionInv(s) /\ DoneInv(s)
        /\ ~CommittedNow(s) /\ KeptFor(s) = kept
        /\ (level > 0 => Len(kept) = level)
        /\ (level > 0 /\ Known => At(s, committed) = {})
        /\ entry[s].xact_depth <= level /\ entry[s].xact_depth \in Nat /\ entry[s] \in Entry
    BY QuietFound
  <2>2. Passed(s)' <=> s \notin todo'
    BY <1>2, <2>1 DEF Passed
  <2>3. entry[s].conn = "none" => entry[s] = NoConn /\ entry[s].xact_depth = 0
    BY <2>1, ConstantRecords DEF SessionInv
  <2>4. entry[s].xact_depth > 0 => xact_got_connection
    BY <2>1, ConstantRecords DEF SessionInv
  <2>5. ev \in SubEvents => IF Passed(s)' THEN entry[s].xact_depth < level
                                          ELSE entry[s].xact_depth = level
    BY <1>4, <1>6, <2>1, <2>2, <2>3, <2>4
  <2>6. ev \in TopEvents /\ Passed(s)' => entry[s] \in {NoConn, NewConn}
    <3> SUFFICES ASSUME ev \in TopEvents, Passed(s)' PROVE entry[s] \in {NoConn, NewConn}
      OBVIOUS
    <3>1. ev \notin SubEvents
      BY <1>5
    <3>2. ~xact_got_connection \/ entry[s].conn = "none"
      BY <1>6, <2>2, <3>1
    <3> QED
      BY <2>1, <2>3, <3>2 DEF DoneInv
  <2>7. SentInv(s)'
    BY <1>2, <1>6, <2>1 DEF SentInv
  <2>8. s \notin orphans => SessionInv(s)'
    BY <1>2, <2>1 DEF SessionInv
  <2>9. ASSUME s \notin orphans PROVE DoneInv(s)'
    <3>1. ASSUME remote[s].failed \/ remote[s].busy, ~Unknown(s)
          PROVE  entry[s].xact_depth = level /\ ev \in AbortEvents /\ ~Passed(s)'
      <4>1. entry[s].xact_depth = level /\ pc = "raise"
        BY <2>1, <2>9, <3>1 DEF DoneInv
      <4>2. xact_got_connection /\ entry[s].conn # "none"
        BY <1>4, <2>3, <2>4, <4>1
      <4>3. s \in todo'
        BY <1>4, <1>6, <4>1, <4>2
      <4> QED
        BY <2>2, <4>1, <4>3
    <3>2. Unknown(s)' = Unknown(s)
      BY <1>2 DEF Unknown
    <3>3. ~xact_got_connection => entry[s] \in {NoConn, NewConn}
      BY <2>1, <2>9 DEF DoneInv
    <3> QED
      BY <1>2, <1>3, <2>5, <2>6, <3>1, <3>2, <3>3 DEF DoneInv
  <2>10. CommittedNow(s)' <=> ev = "PRE_COMMIT" /\ Passed(s)'
    BY <1>3 DEF CommittedNow
  <2>11. LevelInv(s)'
    <3> SUFFICES ASSUME Known, ~CommittedNow(s)', NEW n \in 1 .. Len(KeptFor(s)')
                 PROVE  /\ n > entry[s].xact_depth => At(s, KeptFor(s)'[n]) = {}
                        /\ n <= entry[s].xact_depth /\ remote[s].up =>
                             At(s, KeptFor(s)'[n]) = remote[s].stack[n]
      BY <1>2, <1>8 DEF LevelInv, At
    <3>1. CASE ev \in SubEvents /\ Passed(s)'
      <4>1. KeptFor(s)' = KeptAfter'
        BY <1>3, <3>1 DEF KeptFor
      <4>2. level >= 2 /\ entry[s].xact_depth < level
        BY <1>4, <1>5, <2>5, <3>1
      <4> QED
        BY <1>2, <4>1, <4>2, NothingToRelease
    <3>2. CASE ~(ev \in SubEvents /\ Passed(s)')
      <4>1. KeptFor(s)' = kept
        BY <1>2, <1>3, <3>2 DEF KeptFor
      <4> QED
        BY <2>1, <4>1 DEF LevelInv
    <3> QED
      BY <3>1, <3>2
  <2>12. CommitInv(s)'
    <3> SUFFICES ASSUME Known
                 PROVE  /\ CommittedNow(s)' => At(s, committed) = At(s, kept[1])
                        /\ At(s, committed) = {}
      BY <1>2, <1>8 DEF CommitInv, At
    <3>1. At(s, committed) = {}
      BY <2>1
    <3>2. ASSUME CommittedNow(s)' PROVE At(s, kept[1]) = {}
      <4>1. ev = "PRE_COMMIT" /\ Passed(s)'
        BY <2>10, <3>2
      <4>2. entry[s] \in {NoConn, NewConn} /\ level = 1
        BY <1>5, <2>6, <4>1 DEF TopEvents
      <4>3. entry[s].xact_depth = 0
        BY <4>2, ConstantRecords
      <4>4. 1 \in 1 .. Len(kept)
        <5>1. level > 0 => Len(kept) = level
          BY <2>1
        <5>2. Len(kept) = 1
          BY <4>2, <5>1
        <5> QED
          BY <5>2
      <4> QED
        BY <2>1, <4>3, <4>4 DEF LevelInv
    <3> QED
      BY <3>1, <3>2
  <2> QED
    BY <1>2, <2>7, <2>8, <2>9, <2>11, <2>12 DEF ServerInv
<1>10. MainInv' /\ OrphanInv' /\ CommitComplete'
  BY <1>2, <1>3, <1>4, <1>5 DEF IInv, MainInv, OrphanInv, CommitComplete
<1>11. TypeOK'
  BY <1>7, TypedNext
<1> QED
  BY <1>9, <1>10, <1>11 DEF IInv

(* The user ends the transaction or subtransaction.                        *)
LEMMA EndXactStep ==
  ASSUME IInv, EndXact
  PROVE  IInv'
<1>1. PICK ev \in IF level = 1 THEN {"PRE_COMMIT", "ABORT"} ELSE {"PRE_COMMIT_SUB", "ABORT_SUB"} :
        StartCallback(ev)
  BY DEF EndXact
<1>2. (level = 1 => ev \in TopEvents) /\ (level # 1 => ev \in SubEvents)
  BY <1>1 DEF TopEvents, SubEvents
<1>3. /\ pc = "run" /\ level > 0 /\ creators = {}
      /\ UNCHANGED <<hashVars, entry, remote, xact_got_connection, level, cur, retry,
                     xactVars, committed, given_up, orphans, nbreaks>>
  BY DEF EndXact
<1> QED
  BY <1>1, <1>2, <1>3, StartStep

(* An error ends it.                                                       *)
LEMMA HandleErrorStep ==
  ASSUME IInv, HandleError
  PROVE  IInv'
<1> DEFINE ev == IF level = 1 THEN "ABORT" ELSE "ABORT_SUB"
<1>1. (level = 1 => ev \in TopEvents) /\ (level # 1 => ev \in SubEvents) /\ ev \in AbortEvents
  BY DEF TopEvents, SubEvents, AbortEvents
<1>2. /\ pc = "raise" /\ creators = {} /\ StartCallback(ev)
      /\ UNCHANGED <<hashVars, entry, remote, xact_got_connection, level, cur, retry,
                     xactVars, committed, given_up, orphans, nbreaks>>
  BY DEF HandleError, Raise
<1>3. level > 0
  <2>1. Typed
    BY TypedIff DEF IInv
  <2> QED
    BY <1>2, <2>1 DEF IInv, MainInv, Typed
<1> HIDE DEF ev
<1> QED
  BY <1>1, <1>2, <1>3, StartStep

(* What has been committed is what was kept, if it is so at every server.  *)
LEMMA SameWrites ==
  ASSUME NEW A, NEW B, A \subseteq Write, B \subseteq Write,
         \A s \in Server : At(s, A) = At(s, B)
  PROVE  A = B
<1>1. ASSUME NEW w \in Write PROVE w \in A <=> w \in B
  <2>1. w[1] \in Server
    BY DEF Write
  <2>2. At(w[1], A) = At(w[1], B)
    BY <2>1
  <2> QED
    BY <2>2 DEF At
<1> QED
  BY <1>1

(* What every connection is when a callback is done.                       *)
LEMMA CallbackDoneFound ==
  ASSUME IInv, CallbackDone, NEW s \in Server
  PROVE  /\ Typed /\ entry[s].sent = "no" /\ Passed(s) /\ pc = "scan" /\ todo = {}
         /\ (s \in orphans => entry[s] = NoConn)
         /\ s \notin orphans => SessionInv(s) /\ DoneInv(s)
         /\ LevelInv(s) /\ CommitInv(s) /\ creators = {}
         /\ level \in Nat /\ level > 0 /\ Len(kept) = level /\ outcome = "open"
         /\ entry[s].xact_depth \in Nat
<1>1. Typed
  BY TypedIff DEF IInv
<1>2. entry[s].sent = "no" /\ Passed(s) /\ pc = "scan" /\ todo = {}
  BY DEF CallbackDone, Passed
<1>3. /\ (s \in orphans => entry[s] = NoConn) /\ ServerInv(s)
  BY DEF IInv, OrphanInv
<1>4. creators = {} /\ level \in Nat /\ level > 0 /\ Len(kept) = level /\ outcome = "open"
  <2>1. level \in Nat
    BY <1>1 DEF Typed
  <2> QED
    BY <1>2, <2>1 DEF IInv, MainInv
<1>5. entry[s].xact_depth \in Nat
  BY <1>1 DEF Typed, Entry
<1> QED
  BY <1>1, <1>2, <1>3, <1>4, <1>5 DEF ServerInv

(* The local transaction ends.                                             *)
LEMMA XactEndStep ==
  ASSUME IInv, XactEnd
  PROVE  IInv'
<1>1. Typed
  BY TypedIff DEF IInv
<1>2. /\ CallbackDone /\ event \in TopEvents /\ xact_got_connection' = FALSE
      /\ level' = 0 /\ pc' = "run" /\ event' = "none"
      /\ outcome' \in {"committed", "aborted"}
      /\ outcome' = "committed" => event = "PRE_COMMIT"
      /\ hash' = hash /\ creators' = creators /\ entry' = entry /\ remote' = remote
      /\ cur' = cur /\ retry' = retry /\ todo' = todo /\ kept' = kept /\ nwrites' = nwrites
      /\ nxacts' = nxacts /\ committed' = committed /\ given_up' = given_up
      /\ orphans' = orphans /\ nbreaks' = nbreaks
  BY DEF XactEnd, hashVars, TopLevel, TopEvents
<1>3. pc = "scan" /\ todo = {} /\ creators = {} /\ level = 1 /\ Len(kept) = 1
  BY <1>1, <1>2 DEF CallbackDone, IInv, MainInv, Typed
<1>4. ASSUME NEW s \in Server
      PROVE  /\ entry[s] \in {NoConn, NewConn} /\ entry[s].xact_depth = 0 /\ ~Unknown(s)
             /\ entry[s].sent = "no"
  <2>1. /\ entry[s].sent = "no" /\ Passed(s) /\ (s \in orphans => entry[s] = NoConn)
        /\ s \notin orphans => DoneInv(s)
    BY <1>2, CallbackDoneFound
  <2>2. entry[s] \in {NoConn, NewConn}
    BY <1>2, <1>3, <2>1 DEF DoneInv
  <2> QED
    BY <2>1, <2>2, ConstantRecords DEF Unknown
<1>5. Typed'
  <2>1. \A s \in Server : entry'[s].xact_depth <= level'
    BY <1>2, <1>4
  <2>2. level' \in 0 .. MaxLevel
    BY <1>2, Bounds
  <2> QED
    BY <1>1, <1>2, <2>1, <2>2 DEF Typed
<1>6. ASSUME NEW s \in Server PROVE ServerInv(s)'
  <2>1. SentInv(s)'
    BY <1>2, <1>3, <1>4 DEF SentInv
  <2>2. LevelInv(s)' /\ CommitInv(s)'
    BY <1>2 DEF LevelInv, CommitInv
  <2>3. s \notin orphans => SessionInv(s) /\ DoneInv(s)
    BY DEF IInv, ServerInv
  <2>4. s \notin orphans => SessionInv(s)'
    BY <1>2, <1>4, <2>3 DEF SessionInv
  <2>5. s \notin orphans => DoneInv(s)'
    BY <1>2, <1>4, <2>3, ConstantRecords DEF SessionInv, DoneInv
  <2> QED
    BY <1>2, <2>1, <2>2, <2>4, <2>5 DEF ServerInv
<1>7. CommitComplete'
  <2> SUFFICES ASSUME outcome' = "committed", given_up = {}, orphans = {}
               PROVE  committed = kept[1]
    BY <1>2 DEF CommitComplete
  <2>1. event = "PRE_COMMIT"
    BY <1>2
  <2>2. Known
    BY <1>4, <2>1 DEF Known
  <2>3. ASSUME NEW s \in Server PROVE At(s, committed) = At(s, kept[1])
    <3>1. Passed(s) /\ CommitInv(s)
      BY <1>2, CallbackDoneFound
    <3> QED
      BY <1>3, <2>1, <2>2, <3>1 DEF CommitInv, CommittedNow
  <2>4. committed \subseteq Write /\ kept[1] \subseteq Write
    BY <1>1, <1>3 DEF Typed
  <2> QED
    BY <2>3, <2>4, SameWrites
<1>8. MainInv' /\ OrphanInv'
  BY <1>2, <1>3 DEF IInv, MainInv, OrphanInv
<1>9. TypeOK'
  BY <1>5, TypedNext
<1> QED
  BY <1>6, <1>7, <1>8, <1>9 DEF IInv

(* The local subtransaction ends.                                          *)
LEMMA SubXactEndStep ==
  ASSUME IInv, SubXactEnd
  PROVE  IInv'
<1>1. Typed
  BY TypedIff DEF IInv
<1>2. /\ CallbackDone /\ ~TopLevel /\ level' = level - 1 /\ pc' = "run" /\ event' = "none"
      /\ kept' = KeptAfter
      /\ hash' = hash /\ creators' = creators /\ entry' = entry /\ remote' = remote
      /\ xact_got_connection' = xact_got_connection /\ cur' = cur /\ retry' = retry
      /\ todo' = todo /\ outcome' = outcome /\ nwrites' = nwrites
      /\ nxacts' = nxacts /\ committed' = committed /\ given_up' = given_up
      /\ orphans' = orphans /\ nbreaks' = nbreaks
  BY DEF SubXactEnd, hashVars, KeptAfter
<1>3. /\ pc = "scan" /\ todo = {} /\ creators = {} /\ event \in SubEvents /\ level >= 2
      /\ Len(kept) = level /\ level \in Nat /\ outcome = "open"
  <2>1. pc = "scan" /\ todo = {} /\ level \in Nat
    BY <1>1, <1>2 DEF CallbackDone, Typed
  <2>2. event \in SubEvents
    BY <1>1, <1>2, <2>1 DEF IInv, MainInv, Typed, TopLevel, SubEvents
  <2> QED
    BY <2>1, <2>2 DEF IInv, MainInv
<1>4. kept' \in Seq(SUBSET Write) /\ Len(kept') = level - 1
  BY <1>1, <1>2, <1>3, KeptAfterIs
<1>5. ASSUME NEW s \in Server
      PROVE  /\ entry[s].xact_depth < level /\ entry[s].xact_depth \in Nat
             /\ entry[s].sent = "no" /\ Passed(s) /\ LevelInv(s) /\ CommitInv(s)
             /\ s \notin orphans => SessionInv(s) /\ DoneInv(s)
  <2>1. /\ entry[s].sent = "no" /\ Passed(s) /\ (s \in orphans => entry[s] = NoConn)
        /\ s \notin orphans => SessionInv(s) /\ DoneInv(s)
        /\ entry[s].xact_depth \in Nat /\ LevelInv(s) /\ CommitInv(s)
    BY <1>2, CallbackDoneFound
  <2>2. entry[s].xact_depth < level
    <3>1. CASE s \in orphans
      BY <1>3, <2>1, <3>1, ConstantRecords
    <3>2. CASE s \notin orphans
      BY <1>3, <2>1, <3>2 DEF DoneInv
    <3> QED
      BY <3>1, <3>2
  <2> QED
    BY <2>1, <2>2
<1>6. Typed'
  <2>1. \A s \in Server : entry'[s].xact_depth <= level'
    BY <1>2, <1>3, <1>5
  <2>2. level' \in 0 .. MaxLevel
    BY <1>1, <1>2, <1>3 DEF Typed
  <2> QED
    BY <1>1, <1>2, <1>4, <2>1, <2>2 DEF Typed
<1>7. Known' => Known
  BY <1>2, <1>3 DEF Known, Unknown, SubEvents
<1>8. ASSUME NEW s \in Server PROVE ServerInv(s)'
  <2>1. ~CommittedNow(s) /\ ~CommittedNow(s)'
    BY <1>2, <1>3 DEF CommittedNow, SubEvents
  <2>2. KeptFor(s)' = kept' /\ KeptFor(s) = KeptAfter
    BY <1>2, <1>3, <1>5 DEF KeptFor, SubEvents
  <2>3. KeptFor(s)' = KeptFor(s)
    BY <1>2, <2>2
  <2>4. level > 0
    BY <1>3
  <2>5. LevelInv(s)'
    BY <1>2, <1>5, <1>7, <2>1, <2>3, <2>4 DEF LevelInv, At
  <2>6. CommitInv(s)'
    BY <1>2, <1>5, <1>7, <2>1, <2>4 DEF CommitInv, At
  <2>7. SentInv(s)'
    BY <1>2, <1>3, <1>5 DEF SentInv
  <2>8. s \notin orphans => SessionInv(s)'
    BY <1>2, <1>5 DEF SessionInv
  <2>9. s \notin orphans => DoneInv(s)'
    BY <1>2, <1>3, <1>5 DEF DoneInv, Unknown
  <2> QED
    BY <1>2, <2>5, <2>6, <2>7, <2>8, <2>9 DEF ServerInv
<1>9. MainInv' /\ OrphanInv' /\ CommitComplete'
  BY <1>2, <1>3, <1>4 DEF IInv, MainInv, OrphanInv, CommitComplete
<1>10. TypeOK'
  BY <1>6, TypedNext
<1> QED
  BY <1>8, <1>9, <1>10 DEF IInv

-----------------------------------------------------------------------------
(* The theorems.                                                           *)

(* A backend that has not used pgspider_fdw yet.                           *)
LEMMA InitIInv == Init => IInv
<1> SUFFICES ASSUME Init PROVE IInv
  OBVIOUS
<1>1. /\ hash = 0 /\ creators = {} /\ xact_got_connection = FALSE /\ level = 0 /\ pc = "run"
      /\ cur \in Server /\ retry = FALSE /\ event = "none" /\ todo = {} /\ outcome = "none"
      /\ kept = <<>> /\ committed = {} /\ given_up = {} /\ orphans = {}
      /\ nwrites = 0 /\ nxacts = 0 /\ nbreaks = 0
  BY DEF Init
<1>2. /\ entry \in [Server -> Entry] /\ remote \in [Server -> Session]
      /\ \A s \in Server : entry[s] = NoConn /\ remote[s] = NoSession
  BY ConstantRecords DEF Init
<1>3. Typed
  <2>1. level \in 0 .. MaxLevel /\ kept \in Seq(SUBSET Write)
    BY <1>1, Bounds
  <2>2. \A s \in Server : entry[s].xact_depth <= level
    BY <1>1, <1>2, ConstantRecords
  <2> QED
    BY <1>1, <1>2, <2>1, <2>2 DEF Typed
<1>4. ASSUME NEW s \in Server PROVE ServerInv(s)
  <2>1. SentInv(s)
    BY <1>1, <1>2, ConstantRecords DEF SentInv
  <2>2. SessionInv(s) /\ DoneInv(s)
    BY <1>1, <1>2, ConstantRecords DEF SessionInv, DoneInv
  <2>3. LevelInv(s) /\ CommitInv(s)
    BY <1>1 DEF LevelInv, CommitInv
  <2> QED
    BY <2>1, <2>2, <2>3 DEF ServerInv
<1>5. MainInv /\ OrphanInv /\ CommitComplete
  BY <1>1 DEF MainInv, OrphanInv, CommitComplete
<1> QED
  BY <1>3, <1>4, <1>5, TypedIff DEF IInv

(* Every step keeps the invariant.                                         *)
LEMMA NextIInv == IInv /\ [Next]_vars => IInv'
<1> SUFFICES ASSUME IInv, [Next]_vars PROVE IInv'
  OBVIOUS
<1>1. cur \in Server
  BY TypedIff DEF IInv, Typed
<1>2. CASE BeginXact
  BY <1>2, BeginXactStep
<1>3. CASE BeginSub
  BY <1>3, BeginSubStep
<1>4. CASE EndXact
  BY <1>4, EndXactStep
<1>5. CASE HandleError
  BY <1>5, HandleErrorStep
<1>6. CASE BeginRemote
  BY <1>1, <1>6, BeginRemoteStep
<1>7. CASE BeginLost
  BY <1>1, <1>7, BeginLostStep
<1>8. CASE Query
  BY <1>1, <1>8, QueryStep
<1>9. CASE XactEnd
  BY <1>9, XactEndStep
<1>10. CASE SubXactEnd
  BY <1>10, SubXactEndStep
<1>11. ASSUME NEW s \in Server,
              FindHashNull(s) \/ CreateHash(s) \/ GetRejected(s) \/ GetConnection(s)
       PROVE  IInv'
  BY <1>11, FindHashNullStep, CreateHashStep, GetRejectedStep, GetConnectionStep
<1>12. ASSUME NEW s \in Server,
              \/ ScanIdle(s) \/ CommitRejected(s) \/ CommitSend(s) \/ CommitSerial(s)
              \/ CommitFinish(s)
       PROVE  IInv'
  BY <1>12, ScanIdleStep, CommitRejectedStep, CommitSendStep, CommitSerialStep, CommitFinishStep
<1>13. ASSUME NEW s \in Server,
              AbortSerial(s) \/ AbortSend(s) \/ FinishCancel(s) \/ FinishAbort(s)
       PROVE  IInv'
  BY <1>13, AbortSerialStep, AbortSendStep, FinishCancelStep, FinishAbortStep
<1>14. ASSUME NEW s \in Server, Disconnect(s) \/ Inval(s) \/ LoseSession(s)
       PROVE  IInv'
  BY <1>14, DisconnectStep, InvalStep, LoseSessionStep
<1>15. CASE UNCHANGED vars
  <2>1. UNCHANGED <<hash, creators, entry, remote, xact_got_connection, level, pc, cur, retry,
                    event, todo, outcome, kept, nwrites, nxacts, committed, given_up, orphans,
                    nbreaks>>
    BY <1>15 DEF vars, hashVars, xactVars
  <2>2. TypeOK' /\ MainInv' /\ OrphanInv' /\ CommitComplete'
    BY <2>1 DEF IInv, TypeOK, MainInv, OrphanInv, CommitComplete, Connected
  <2>3. ASSUME NEW s \in Server PROVE ServerInv(s)'
    BY <2>1, Unmoved
  <2> QED
    BY <2>2, <2>3 DEF IInv
<1> QED
  BY <1>2, <1>3, <1>4, <1>5, <1>6, <1>7, <1>8, <1>9, <1>10, <1>11, <1>12, <1>13, <1>14, <1>15
  DEF Next

(* The inductive invariant holds.                                          *)
THEOREM Invariance == Spec => []IInv
BY InitIInv, NextIInv, PTL DEF Spec

(* The types; no entry is deeper than the local transaction, so that no    *)
(* callback finds that another one missed cleaning up.                     *)
THEOREM TypeCorrect == Spec => []TypeOK
<1>1. IInv => TypeOK
  BY DEF IInv
<1> QED
  BY <1>1, Invariance, PTL

(* Between transactions every connection that is kept is clean: the        *)
(* callbacks leave none with an open transaction or in an unknown state.   *)
THEOREM CleanIdleAlways == Spec => []CleanIdle
<1>1. IInv => CleanIdle
  <2> SUFFICES ASSUME IInv, level = 0, NEW s \in Server \ orphans
               PROVE  /\ remote[s].stack = <<>> /\ ~remote[s].busy
                      /\ Connected(s) => entry[s] = NewConn
    BY DEF CleanIdle
  <2>1. SessionInv(s) /\ DoneInv(s) /\ ~xact_got_connection
    BY DEF IInv, ServerInv, MainInv
  <2>2. entry[s] \in {NoConn, NewConn}
    BY <2>1 DEF DoneInv
  <2>3. remote[s] \in {NewSession, NoSession}
    BY <2>1, <2>2, ConstantRecords DEF SessionInv
  <2> QED
    BY <2>2, <2>3, ConstantRecords DEF Connected
<1> QED
  BY <1>1, Invariance, PTL

(* A transaction that commits has committed all its writes, and no other,  *)
(* at the remote servers, unless a connection was given up or lost in it.  *)
THEOREM CommitCompleteAlways == Spec => []CommitComplete
<1>1. IInv => CommitComplete
  BY DEF IInv
<1> QED
  BY <1>1, Invariance, PTL

(* The transaction at each server holds, level by level, the writes of the *)
(* local one, as long as every connection is in a known state.             *)
THEOREM RemoteFollowsAlways == Spec => []RemoteFollows
<1>1. IInv => RemoteFollows
  <2> SUFFICES ASSUME IInv, pc = "run", level > 0, Untroubled, NEW s \in Server
               PROVE  IF ~Connected(s) THEN \A n \in 1 .. level : LocalWrites(s, n) = {}
                      ELSE LET depth == entry[s].xact_depth
                           IN  /\ depth <= level
                               /\ \A n \in depth + 1 .. level : LocalWrites(s, n) = {}
                               /\ remote[s].up =>
                                    /\ Len(remote[s].stack) = depth
                                    /\ \A n \in 1 .. depth : remote[s].stack[n] = LocalWrites(s, n)
                                    /\ ~remote[s].failed
    BY DEF RemoteFollows
  <2> DEFINE depth == entry[s].xact_depth
  <2>1. \A u \in Server : SessionInv(u)
    BY DEF Untroubled, IInv, ServerInv
  <2>2. \A u \in Server : ~Unknown(u)
    BY <2>1, ConstantRecords DEF Untroubled, Incomplete, Connected, Unknown, SessionInv
  <2>3. s \in Server \ orphans
    BY DEF Untroubled
  <2>4. /\ SessionInv(s) /\ DoneInv(s) /\ LevelInv(s) /\ ~CommittedNow(s) /\ KeptFor(s) = kept
        /\ event = "none" /\ (level > 0 => Len(kept) = level)
        /\ depth <= level /\ depth \in Nat /\ level \in Nat
    BY <2>3, RunFound
  <2>5. Known
    BY <2>2, <2>4 DEF Known, Untroubled
  <2>6. \A n \in 1 .. level :
          /\ n > depth => At(s, kept[n]) = {}
          /\ n <= depth /\ remote[s].up => At(s, kept[n]) = remote[s].stack[n]
    <3>1. Len(KeptFor(s)) = level
      BY <2>4
    <3> QED
      BY <2>4, <2>5, <3>1 DEF LevelInv
  <2>7. \A n \in 1 .. level : LocalWrites(s, n) = At(s, kept[n])
    BY DEF LocalWrites, At
  <2>8. CASE ~Connected(s)
    <3>1. depth = 0
      BY <2>4, <2>8, ConstantRecords DEF SessionInv, Connected
    <3>2. \A n \in 1 .. level : LocalWrites(s, n) = {}
      BY <2>4, <2>6, <2>7, <3>1
    <3> QED
      BY <2>8, <3>2
  <2>9. CASE Connected(s)
    <3>1. \A n \in depth + 1 .. level : LocalWrites(s, n) = {}
      <4>1. \A n \in depth + 1 .. level : n \in 1 .. level /\ n > depth
        BY <2>4
      <4> QED
        BY <2>6, <2>7, <4>1
    <3>2. ASSUME remote[s].up
          PROVE  /\ Len(remote[s].stack) = depth /\ ~remote[s].failed
                 /\ \A n \in 1 .. depth : remote[s].stack[n] = LocalWrites(s, n)
      <4>1. ~entry[s].changing
        BY <2>9 DEF Untroubled, Incomplete
      <4>2. Len(remote[s].stack) = depth
        BY <2>4, <3>2, <4>1 DEF SessionInv
      <4>3. ~remote[s].failed
        BY <2>2, <2>4 DEF DoneInv
      <4>4. \A n \in 1 .. depth : n \in 1 .. level /\ n <= depth
        BY <2>4
      <4> QED
        BY <2>6, <2>7, <3>2, <4>2, <4>3, <4>4
    <3> QED
      BY <2>4, <2>9, <3>1, <3>2
  <2> QED
    BY <2>8, <2>9
<1> QED
  BY <1>1, Invariance, PTL
=============================================================================
