------------------------- MODULE DirectModifyProofs -------------------------
(***************************************************************************)
(* DirectModify for any number of children, any rows and any failures: the *)
(* row count is exact, every child that has modified rows is ended, and a  *)
(* statement is carried out as ModifyStatement says.                       *)
(***************************************************************************)
EXTENDS DirectModify, FiniteSetTheorems, TLAPS

USE DirectAssumption

(* No error is on its way to the threads.                                  *)
Calm == outcome # "failed" /\ mpc # "notify"

(* The child will modify no more rows, and has modified them or has failed *)
(* without that being an error of the statement.                           *)
Settles(t) == fdw[t].modified \/ (fdw[t].failed /\ ~throwErrorIfDead)

Upto(t) == cpc[t] \in {"created", "begin", "beginning", "begun", "start", "iterate", "iterating"}

(* IterateDirectModify has returned, and EndDirectModify has not.          *)
Between(t) == cpc[t] \in {"returned", "iterated", "pre_end", "wait_end", "end", "ending"}

(* The main thread has asked t to end and waits for it.                    *)
Joining(t) == mpc = "join" /\ node_incr = t

(* The main thread: the statement is open as long as its children work;    *)
(* what it has looked at or joined stays so.                               *)
MainInv ==
  /\ mpc \in {"create", "next", "notify"} => outcome = "open"
  /\ mpc = "idle" => outcome # "failed"
  /\ mpc \in {"end_call", "end_loop", "join", "done"} => outcome # "open"
  /\ mpc = "join" => node_incr < NThreads
  /\ mpc = "next" /\ all_finished => \A t \in Thread : t < node_incr => ~Upto(t) /\ Settles(t)
  /\ outcome = "open" => es_processed = 0
  /\ outcome = "ok" => /\ es_processed = AddRows(0, child_processed)
                       /\ \A t \in Thread : ~Upto(t) /\ Settles(t)
  /\ mpc \in {"end_loop", "join"} => \A t \in Thread : t < node_incr => is_joined[t]
  /\ mpc = "done" => \A t \in Thread : is_joined[t]

(* The rows counted for a child are those it has modified, which it has    *)
(* done once it has come past that without an error.                       *)
RowsInv(t) ==
  /\ child_processed[t] = IF fdw[t].modified THEN Rows[t] ELSE 0
  /\ cpc[t] \in {"returned", "pre_end", "wait_end", "end", "ending", "ended", "finish"} =>
       fdw[t].modified
  /\ Upto(t) => ~fdw[t].modified
  /\ cpc[t] \in {"iterated", "exit", "exit_end", "exit_ending", "final", "gone"} =>
       fdw[t].modified \/ InError(t)

(* An error is one of the child's own as long as none is thrown, and a     *)
(* queue that is not open any more says how the child has come out.        *)
QueueInv(t) ==
  /\ state[t] = "ERROR_INIT" => fdw[t].failed
  /\ Calm => state[t] # "ERROR"
  /\ queue_state[t] # "OK" => ~Upto(t)
  /\ Calm /\ queue_state[t] = "FINISH" => Settles(t)
  /\ Calm /\ queue_state[t] = "ERROR" => fdw[t].failed

(* EndDirectModify is called in one place or the other.                    *)
EndInv(t) ==
  /\ Upto(t) \/ Between(t) => fdw[t].ends = 0
  /\ cpc[t] \in {"ended", "finish"} => fdw[t].ends = 1
  /\ cpc[t] \in {"exit", "exit_end"} => requestEndScan[t] \/ fdw[t].ends >= 1
  /\ fdw[t].modified /\ state[t] = "ERROR_INIT" => fdw[t].ends >= 1
  /\ cpc[t] \in {"final", "gone"} /\ fdw[t].modified => fdw[t].ends >= 1
  /\ state[t] = "ERROR_INIT" =>
       cpc[t] \in {"begun", "iterated", "ended", "exit", "final", "gone"}
  /\ is_joined[t] => cpc[t] = "gone"

(* As long as no error is thrown the main thread alone asks for the end,   *)
(* once, and it is over when the thread comes to its exit.                 *)
CalmEnd(t) ==
  Calm => /\ fdw[t].ends <= 1
          /\ cpc[t] # "exit_ending"
          /\ (Upto(t) \/ Between(t)) /\ requestEndScan[t] => Joining(t)
          /\ cpc[t] \in {"end", "ending", "ended", "finish"} => Joining(t)
          /\ cpc[t] \in {"exit", "exit_end"} /\ state[t] # "ERROR_INIT" => Joining(t)
          /\ cpc[t] \in {"ended", "finish", "exit", "exit_end"} /\ state[t] # "ERROR_INIT" =>
               ~requestEndScan[t]

ThreadInv(t) == RowsInv(t) /\ QueueInv(t) /\ EndInv(t) /\ CalmEnd(t)

(* The threads that run.                                                   *)
RunningSet == {t \in Thread : cpc[t] \notin {"created", "gone"}}

(* The inductive invariant.                                                *)
IInv ==
  /\ TypeOK /\ MainInv
  /\ num_running = Cardinality(RunningSet)
  /\ \A t \in Thread : ThreadInv(t)

-----------------------------------------------------------------------------
(* The threads that run are finitely many, and no more than there are.     *)
LEMMA RunningBound ==
  ASSUME NEW S, S \subseteq Thread
  PROVE  IsFiniteSet(S) /\ Cardinality(S) \in 0 .. NThreads
<1>1. /\ IsFiniteSet(Thread)
      /\ Cardinality(Thread) = IF 0 > NThreads - 1 THEN 0 ELSE NThreads - 1 - 0 + 1
  <2>1. 0 \in Int /\ NThreads - 1 \in Int
    OBVIOUS
  <2> QED
    BY <2>1, FS_Interval, Zenon DEF Thread
<1>2. Cardinality(Thread) = NThreads
  BY <1>1
<1>3. IsFiniteSet(S) /\ Cardinality(S) <= Cardinality(Thread)
  BY <1>1, FS_Subset
<1>4. Cardinality(S) \in Nat
  BY <1>3, FS_CardinalityType
<1> QED
  BY <1>2, <1>3, <1>4

(* The types but for the number of running threads.                        *)
Typed == /\ state \in [Thread -> ThreadState]
         /\ requestEndScan \in [Thread -> BOOLEAN] /\ is_joined \in [Thread -> BOOLEAN]
         /\ queue_state \in [Thread -> {"OK", "FINISH", "ERROR"}]
         /\ child_processed \in [Thread -> Nat]
         /\ cpc \in [Thread -> {"created", "begin", "beginning", "begun", "start", "iterate",
                                "iterating", "returned", "iterated", "pre_end", "wait_end",
                                "end", "ending", "ended", "finish", "exit", "exit_end",
                                "exit_ending", "final", "gone"}]
         /\ fdw \in [Thread -> [begun : BOOLEAN, modified : BOOLEAN, failed : BOOLEAN,
                                ends : Nat]]
         /\ force_end \in BOOLEAN

(* What a step of t leaves alone of another thread.                        *)
Same(u) == /\ state'[u] = state[u] /\ requestEndScan'[u] = requestEndScan[u]
           /\ is_joined'[u] = is_joined[u] /\ queue_state'[u] = queue_state[u]
           /\ child_processed'[u] = child_processed[u]
           /\ cpc'[u] = cpc[u] /\ fdw'[u] = fdw[u]

(* A thread that a step leaves alone keeps its part of the invariant; the  *)
(* main thread may go on, but not from a thrown error back to none, nor    *)
(* from the join of that thread.                                           *)
LEMMA SameThread ==
  ASSUME NEW u \in Thread, Same(u), ThreadInv(u), throwErrorIfDead' = throwErrorIfDead,
         Calm' => Calm, Joining(u) => Joining(u)'
  PROVE  ThreadInv(u)'
<1> USE DEF Same
<1>1. RowsInv(u)'
  BY DEF ThreadInv, RowsInv, InError, Upto
<1>2. QueueInv(u)'
  BY DEF ThreadInv, QueueInv, Upto, Settles
<1>3. EndInv(u)'
  BY DEF ThreadInv, EndInv, Upto, Between
<1>4. CalmEnd(u)'
  BY DEF ThreadInv, CalmEnd, Upto, Between
<1> QED
  BY <1>1, <1>2, <1>3, <1>4 DEF ThreadInv

(* The state of a child FDW of which a call fails.                         *)
LEMMA FailedCall ==
  \A r \in [begun : BOOLEAN, modified : BOOLEAN, failed : BOOLEAN, ends : Nat], n \in Nat :
    [r EXCEPT !.failed = TRUE, !.ends = n] \in
      [begun : BOOLEAN, modified : BOOLEAN, failed : BOOLEAN, ends : Nat]
OBVIOUS

(* And of one that has begun, or modified its rows.                        *)
LEMMA ReturnedCall ==
  \A r \in [begun : BOOLEAN, modified : BOOLEAN, failed : BOOLEAN, ends : Nat] :
    /\ [r EXCEPT !.begun = TRUE] \in
         [begun : BOOLEAN, modified : BOOLEAN, failed : BOOLEAN, ends : Nat]
    /\ [r EXCEPT !.modified = TRUE] \in
         [begun : BOOLEAN, modified : BOOLEAN, failed : BOOLEAN, ends : Nat]
OBVIOUS

(* A step of a child thread is one of its own: types, and what it leaves   *)
(* alone.                                                                  *)
LEMMA ChildFrame ==
  ASSUME NEW t \in Thread, TypeOK, Child(t)
  PROVE  /\ Typed' /\ UNCHANGED <<mainVars, is_joined>>
         /\ \A u \in Thread \ {t} : Same(u)
<1> USE DEF TypeOK, Typed, Same, Goto, SetState, infoVars, sharedVars, ThreadState, ErrorStates
<1>1. CASE ThreadStart(t)
  BY <1>1 DEF ThreadStart
<1>2. CASE BeginCall(t)
  BY <1>2 DEF BeginCall
<1>3. CASE IterateCall(t)
  BY <1>3 DEF IterateCall
<1>4. CASE EndCall(t)
  BY <1>4 DEF EndCall
<1>5. CASE BeginReturn(t)
  <2>1. fdw' = [fdw EXCEPT ![t] = [fdw[t] EXCEPT !.begun = TRUE]]
    BY <1>5 DEF BeginReturn
  <2>2. fdw[t] \in [begun : BOOLEAN, modified : BOOLEAN, failed : BOOLEAN, ends : Nat]
    OBVIOUS
  <2>3. [fdw[t] EXCEPT !.begun = TRUE] \in
          [begun : BOOLEAN, modified : BOOLEAN, failed : BOOLEAN, ends : Nat]
    BY <2>2, ReturnedCall, Zenon
  <2> QED
    BY <1>5, <2>1, <2>3 DEF BeginReturn
<1>6. CASE IterateReturn(t)
  <2>1. fdw' = [fdw EXCEPT ![t] = [fdw[t] EXCEPT !.modified = TRUE]]
    BY <1>6 DEF IterateReturn
  <2>2. fdw[t] \in [begun : BOOLEAN, modified : BOOLEAN, failed : BOOLEAN, ends : Nat]
    OBVIOUS
  <2>3. [fdw[t] EXCEPT !.modified = TRUE] \in
          [begun : BOOLEAN, modified : BOOLEAN, failed : BOOLEAN, ends : Nat]
    BY <2>2, ReturnedCall, Zenon
  <2> QED
    BY <1>6, <2>1, <2>3 DEF IterateReturn
<1>7. CASE EndReturn(t)
  BY <1>7 DEF EndReturn
<1>8. CASE CallFails(t)
  <2>1. PICK p \in {"begun", "iterated", "ended"} : cpc' = [cpc EXCEPT ![t] = p]
    BY <1>8 DEF CallFails
  <2>2. fdw' \in [Thread -> [begun : BOOLEAN, modified : BOOLEAN, failed : BOOLEAN, ends : Nat]]
    <3>1. PICK n : /\ n = IF cpc[t] = "ending" THEN fdw[t].ends + 1 ELSE fdw[t].ends
                   /\ fdw' = [fdw EXCEPT ![t].failed = TRUE, ![t].ends = n]
      BY <1>8 DEF CallFails
    <3>2. n \in Nat
      BY <3>1
    <3>3. [fdw[t] EXCEPT !.failed = TRUE, !.ends = n] \in
            [begun : BOOLEAN, modified : BOOLEAN, failed : BOOLEAN, ends : Nat]
      BY <3>2, FailedCall
    <3>4. fdw' = [fdw EXCEPT ![t] = [fdw[t] EXCEPT !.failed = TRUE, !.ends = n]]
      BY <3>1
    <3> QED
      BY <3>3, <3>4
  <2>3. \A u \in Thread \ {t} : fdw'[u] = fdw[u]
    BY <1>8 DEF CallFails
  <2>4. /\ state' = [state EXCEPT ![t] = "ERROR_INIT"]
        /\ UNCHANGED <<requestEndScan, is_joined, queue_state, child_processed, sharedVars,
                       mainVars>>
    BY <1>8 DEF CallFails
  <2> QED
    BY <2>1, <2>2, <2>3, <2>4
<1>9. CASE IterateDone(t)
  BY <1>9 DEF IterateDone
<1>10. CASE Check(t)
  <2>1. PICK p \in {"exit", "start", "pre_end", "finish"} : cpc' = [cpc EXCEPT ![t] = p]
    BY <1>10 DEF Check
  <2>2. PICK b \in BOOLEAN : requestEndScan' = [requestEndScan EXCEPT ![t] = b]
    <3>1. CASE requestEndScan' = [requestEndScan EXCEPT ![t] = TRUE]
      BY <3>1
    <3>2. CASE requestEndScan' = requestEndScan
      <4>1. requestEndScan' = [requestEndScan EXCEPT ![t] = requestEndScan[t]]
        BY <3>2
      <4> QED
        BY <4>1
    <3> QED
      BY <1>10, <3>1, <3>2 DEF Check
  <2>3. UNCHANGED <<state, is_joined, queue_state, child_processed, fdw, sharedVars, mainVars>>
    BY <1>10 DEF Check
  <2> QED
    BY <2>1, <2>2, <2>3
<1>11. CASE Enter(t)
  <2>1. PICK p \in {"iterate", "wait_end", "end", "exit"}, s \in ThreadState :
          cpc' = [cpc EXCEPT ![t] = p] /\ state' = [state EXCEPT ![t] = s]
    BY <1>11 DEF Enter
  <2> QED
    BY <1>11, <2>1 DEF Enter
<1>12. CASE ExitNotify(t)
  BY <1>12 DEF ExitNotify, ExitState
<1>13. CASE ExitEnd(t)
  BY <1>13 DEF ExitEnd
<1>14. CASE ExitEnded(t)
  <2>1. PICK b \in BOOLEAN : requestEndScan' = [requestEndScan EXCEPT ![t] = b]
    <3>1. CASE requestEndScan' = [requestEndScan EXCEPT ![t] = FALSE]
      BY <3>1
    <3>2. CASE requestEndScan' = requestEndScan
      <4>1. requestEndScan' = [requestEndScan EXCEPT ![t] = requestEndScan[t]]
        BY <3>2
      <4> QED
        BY <4>1
    <3> QED
      BY <1>14, <3>1, <3>2 DEF ExitEnded
  <2> QED
    BY <1>14, <2>1 DEF ExitEnded
<1>15. CASE ThreadFinal(t)
  BY <1>15 DEF ThreadFinal
<1> QED
  BY <1>1, <1>2, <1>3, <1>4, <1>5, <1>6, <1>7, <1>8, <1>9, <1>10, <1>11, <1>12, <1>13, <1>14,
                          <1>15 DEF Child

(* A step of a child thread keeps that thread's part of the invariant.     *)
LEMMA ChildOwn ==
  ASSUME NEW t \in Thread, TypeOK, ThreadInv(t), Child(t)
  PROVE  ThreadInv(t)'
<1> USE DEF TypeOK, Goto, SetState, infoVars, sharedVars, mainVars
<1> USE DEF ThreadInv, InError, ErrorStates, Calm, Settles, Upto, Between, Joining
<1>1. CASE ThreadStart(t)
  <2>1. RowsInv(t)'
    BY <1>1 DEF ThreadStart, RowsInv
  <2>2. QueueInv(t)'
    BY <1>1 DEF ThreadStart, QueueInv
  <2>3. EndInv(t)'
    BY <1>1 DEF ThreadStart, EndInv
  <2>4. CalmEnd(t)'
    BY <1>1 DEF ThreadStart, CalmEnd
  <2> QED
    BY <2>1, <2>2, <2>3, <2>4
<1>2. CASE BeginCall(t)
  <2>1. RowsInv(t)'
    BY <1>2 DEF BeginCall, RowsInv
  <2>2. QueueInv(t)'
    BY <1>2 DEF BeginCall, QueueInv
  <2>3. EndInv(t)'
    BY <1>2 DEF BeginCall, EndInv
  <2>4. CalmEnd(t)'
    BY <1>2 DEF BeginCall, CalmEnd
  <2> QED
    BY <2>1, <2>2, <2>3, <2>4
<1>3. CASE IterateCall(t)
  <2>1. RowsInv(t)'
    BY <1>3 DEF IterateCall, RowsInv
  <2>2. QueueInv(t)'
    BY <1>3 DEF IterateCall, QueueInv
  <2>3. EndInv(t)'
    BY <1>3 DEF IterateCall, EndInv
  <2>4. CalmEnd(t)'
    BY <1>3 DEF IterateCall, CalmEnd
  <2> QED
    BY <2>1, <2>2, <2>3, <2>4
<1>4. CASE EndCall(t)
  <2>1. RowsInv(t)'
    BY <1>4 DEF EndCall, RowsInv
  <2>2. QueueInv(t)'
    BY <1>4 DEF EndCall, QueueInv
  <2>3. EndInv(t)'
    BY <1>4 DEF EndCall, EndInv
  <2>4. CalmEnd(t)'
    BY <1>4 DEF EndCall, CalmEnd
  <2> QED
    BY <2>1, <2>2, <2>3, <2>4
<1>5. CASE BeginReturn(t)
  <2>1. RowsInv(t)'
    BY <1>5 DEF BeginReturn, RowsInv
  <2>2. QueueInv(t)'
    BY <1>5 DEF BeginReturn, QueueInv
  <2>3. EndInv(t)'
    BY <1>5 DEF BeginReturn, EndInv
  <2>4. CalmEnd(t)'
    BY <1>5 DEF BeginReturn, CalmEnd
  <2> QED
    BY <2>1, <2>2, <2>3, <2>4
<1>6. CASE IterateReturn(t)
  <2>1. RowsInv(t)'
    BY <1>6 DEF IterateReturn, RowsInv
  <2>2. QueueInv(t)'
    BY <1>6 DEF IterateReturn, QueueInv
  <2>3. EndInv(t)'
    BY <1>6 DEF IterateReturn, EndInv
  <2>4. CalmEnd(t)'
    BY <1>6 DEF IterateReturn, CalmEnd
  <2> QED
    BY <2>1, <2>2, <2>3, <2>4
<1>7. CASE EndReturn(t)
  <2>1. RowsInv(t)'
    BY <1>7 DEF EndReturn, RowsInv
  <2>2. QueueInv(t)'
    BY <1>7 DEF EndReturn, QueueInv
  <2>3. EndInv(t)'
    BY <1>7 DEF EndReturn, EndInv
  <2>4. CalmEnd(t)'
    BY <1>7 DEF EndReturn, CalmEnd, EndInv
  <2> QED
    BY <2>1, <2>2, <2>3, <2>4
<1>8. CASE CallFails(t)
  <2>1. RowsInv(t)'
    BY <1>8 DEF CallFails, RowsInv
  <2>2. QueueInv(t)'
    BY <1>8 DEF CallFails, QueueInv
  <2>3. EndInv(t)'
    <3>1. /\ fdw'[t].modified = fdw[t].modified
          /\ fdw'[t].ends = IF cpc[t] = "ending" THEN fdw[t].ends + 1 ELSE fdw[t].ends
          /\ is_joined' = is_joined /\ state'[t] = "ERROR_INIT"
      BY <1>8 DEF CallFails
    <3>2. CASE cpc[t] = "ending"
      <4>1. cpc'[t] = "ended" /\ fdw'[t].ends = 1 /\ ~is_joined[t]
        BY <1>8, <3>1, <3>2 DEF CallFails, EndInv
      <4> QED
        BY <3>1, <4>1 DEF EndInv
    <3>3. CASE cpc[t] # "ending"
      <4>1. /\ cpc[t] \in {"beginning", "iterating"} /\ cpc'[t] \in {"begun", "iterated"}
            /\ fdw'[t].ends = 0 /\ ~is_joined[t] /\ ~fdw[t].modified
        BY <1>8, <3>1, <3>3 DEF CallFails, EndInv, RowsInv
      <4> QED
        BY <3>1, <4>1 DEF EndInv
    <3> QED
      BY <3>2, <3>3
  <2>4. CalmEnd(t)'
    BY <1>8 DEF CallFails, CalmEnd
  <2> QED
    BY <2>1, <2>2, <2>3, <2>4
<1>9. CASE IterateDone(t)
  <2>1. RowsInv(t)'
    BY <1>9 DEF IterateDone, RowsInv
  <2>2. QueueInv(t)'
    BY <1>9 DEF IterateDone, QueueInv, RowsInv
  <2>3. EndInv(t)'
    BY <1>9 DEF IterateDone, EndInv
  <2>4. CalmEnd(t)'
    BY <1>9 DEF IterateDone, CalmEnd
  <2> QED
    BY <2>1, <2>2, <2>3, <2>4
<1>10. CASE Check(t)
  <2>1. RowsInv(t)'
    BY <1>10 DEF Check, RowsInv
  <2>2. QueueInv(t)'
    BY <1>10 DEF Check, QueueInv
  <2>3. EndInv(t)'
    BY <1>10 DEF Check, EndInv
  <2>4. CalmEnd(t)'
    BY <1>10 DEF Check, CalmEnd, QueueInv
  <2> QED
    BY <2>1, <2>2, <2>3, <2>4
<1>11. CASE Enter(t)
  <2>1. RowsInv(t)'
    BY <1>11 DEF Enter, RowsInv
  <2>2. QueueInv(t)'
    BY <1>11 DEF Enter, QueueInv
  <2>3. EndInv(t)'
    BY <1>11 DEF Enter, EndInv
  <2>4. CalmEnd(t)'
    BY <1>11 DEF Enter, CalmEnd, EndInv
  <2> QED
    BY <2>1, <2>2, <2>3, <2>4
<1>12. CASE ExitNotify(t)
  <2>1. RowsInv(t)'
    BY <1>12 DEF ExitNotify, ExitState, RowsInv
  <2>2. QueueInv(t)'
    BY <1>12 DEF ExitNotify, ExitState, QueueInv, RowsInv
  <2>3. EndInv(t)'
    BY <1>12 DEF ExitNotify, ExitState, EndInv
  <2>4. CalmEnd(t)'
    BY <1>12 DEF ExitNotify, ExitState, CalmEnd
  <2> QED
    BY <2>1, <2>2, <2>3, <2>4
<1>13. CASE ExitEnd(t)
  <2>1. RowsInv(t)'
    BY <1>13 DEF ExitEnd, RowsInv
  <2>2. QueueInv(t)'
    BY <1>13 DEF ExitEnd, QueueInv
  <2>3. EndInv(t)'
    BY <1>13 DEF ExitEnd, EndInv
  <2>4. CalmEnd(t)'
    BY <1>13 DEF ExitEnd, CalmEnd, EndInv, QueueInv
  <2> QED
    BY <2>1, <2>2, <2>3, <2>4
<1>14. CASE ExitEnded(t)
  <2>1. RowsInv(t)'
    BY <1>14 DEF ExitEnded, RowsInv
  <2>2. QueueInv(t)'
    BY <1>14 DEF ExitEnded, QueueInv
  <2>3. EndInv(t)'
    BY <1>14 DEF ExitEnded, EndInv
  <2>4. CalmEnd(t)'
    BY <1>14 DEF ExitEnded, CalmEnd
  <2> QED
    BY <2>1, <2>2, <2>3, <2>4
<1>15. CASE ThreadFinal(t)
  <2>1. RowsInv(t)'
    BY <1>15 DEF ThreadFinal, RowsInv
  <2>2. QueueInv(t)'
    BY <1>15 DEF ThreadFinal, QueueInv
  <2>3. EndInv(t)'
    BY <1>15 DEF ThreadFinal, EndInv
  <2>4. CalmEnd(t)'
    BY <1>15 DEF ThreadFinal, CalmEnd
  <2> QED
    BY <2>1, <2>2, <2>3, <2>4
<1> QED
  BY <1>1, <1>2, <1>3, <1>4, <1>5, <1>6, <1>7, <1>8, <1>9, <1>10, <1>11, <1>12, <1>13, <1>14,
                          <1>15 DEF Child

(* What a child thread has done it does not undo, and its rows are counted *)
(* only while it iterates.                                                 *)
LEMMA ChildProgress ==
  ASSUME NEW t \in Thread, TypeOK, Child(t)
  PROVE  /\ Upto(t)' => Upto(t)
         /\ fdw[t].modified => fdw'[t].modified
         /\ fdw[t].failed => fdw'[t].failed
         /\ Upto(t) \/ (child_processed' = child_processed /\ fdw'[t].modified = fdw[t].modified)
<1> USE DEF TypeOK, Goto, infoVars, Upto
<1>1. CASE ThreadStart(t)
  BY <1>1 DEF ThreadStart
<1>2. CASE BeginCall(t)
  BY <1>2 DEF BeginCall
<1>3. CASE IterateCall(t)
  BY <1>3 DEF IterateCall
<1>4. CASE EndCall(t)
  BY <1>4 DEF EndCall
<1>5. CASE BeginReturn(t)
  BY <1>5 DEF BeginReturn
<1>6. CASE IterateReturn(t)
  BY <1>6 DEF IterateReturn
<1>7. CASE EndReturn(t)
  BY <1>7 DEF EndReturn
<1>8. CASE CallFails(t)
  BY <1>8 DEF CallFails
<1>9. CASE IterateDone(t)
  BY <1>9 DEF IterateDone
<1>10. CASE Check(t)
  BY <1>10 DEF Check
<1>11. CASE Enter(t)
  BY <1>11 DEF Enter
<1>12. CASE ExitNotify(t)
  BY <1>12 DEF ExitNotify
<1>13. CASE ExitEnd(t)
  BY <1>13 DEF ExitEnd
<1>14. CASE ExitEnded(t)
  BY <1>14 DEF ExitEnded
<1>15. CASE ThreadFinal(t)
  BY <1>15 DEF ThreadFinal
<1> QED
  BY <1>1, <1>2, <1>3, <1>4, <1>5, <1>6, <1>7, <1>8, <1>9, <1>10, <1>11, <1>12, <1>13, <1>14,
                          <1>15 DEF Child

(* A child thread counts itself in when it starts and out when it ends.    *)
LEMMA ChildRunning ==
  ASSUME NEW t \in Thread, TypeOK, Child(t), num_running = Cardinality(RunningSet)
  PROVE  num_running' = Cardinality(RunningSet')
<1>1. \A u \in Thread \ {t} : cpc'[u] = cpc[u]
  BY ChildFrame DEF Same
<1>2. IsFiniteSet(RunningSet) /\ Cardinality(RunningSet) \in Nat
  BY RunningBound DEF RunningSet
<1>3. CASE ThreadStart(t)
  <2>1. cpc[t] = "created" /\ cpc'[t] = "begin" /\ num_running' = num_running + 1
    BY <1>3 DEF ThreadStart, Goto, TypeOK
  <2>2. RunningSet' = RunningSet \cup {t} /\ t \notin RunningSet
    BY <1>1, <2>1 DEF RunningSet
  <2> QED
    BY <1>2, <2>1, <2>2, FS_AddElement
<1>4. CASE ThreadFinal(t)
  <2>1. cpc[t] = "final" /\ cpc'[t] = "gone" /\ num_running' = num_running - 1
    BY <1>4 DEF ThreadFinal, Goto, TypeOK
  <2>2. RunningSet' = RunningSet \ {t} /\ t \in RunningSet
    BY <1>1, <2>1 DEF RunningSet
  <2> QED
    BY <1>2, <2>1, <2>2, FS_RemoveElement
<1>5. CASE ~ThreadStart(t) /\ ~ThreadFinal(t)
  <2>1. /\ cpc[t] \notin {"created", "gone"} /\ cpc'[t] \notin {"created", "gone"}
        /\ num_running' = num_running
    <3> USE DEF TypeOK, Goto, sharedVars
    <3>1. CASE BeginCall(t)
      BY <3>1 DEF BeginCall
    <3>2. CASE IterateCall(t)
      BY <3>2 DEF IterateCall
    <3>3. CASE EndCall(t)
      BY <3>3 DEF EndCall
    <3>4. CASE BeginReturn(t)
      BY <3>4 DEF BeginReturn
    <3>5. CASE IterateReturn(t)
      BY <3>5 DEF IterateReturn
    <3>6. CASE EndReturn(t)
      BY <3>6 DEF EndReturn
    <3>7. CASE CallFails(t)
      BY <3>7 DEF CallFails
    <3>8. CASE IterateDone(t)
      BY <3>8 DEF IterateDone
    <3>9. CASE Check(t)
      BY <3>9 DEF Check
    <3>10. CASE Enter(t)
      BY <3>10 DEF Enter
    <3>11. CASE ExitNotify(t)
      BY <3>11 DEF ExitNotify
    <3>12. CASE ExitEnd(t)
      BY <3>12 DEF ExitEnd
    <3>13. CASE ExitEnded(t)
      BY <3>13 DEF ExitEnded
    <3> QED
      BY <1>5, <3>1, <3>2, <3>3, <3>4, <3>5, <3>6, <3>7, <3>8, <3>9, <3>10, <3>11, <3>12, <3>13
                              DEF Child
  <2>2. RunningSet' = RunningSet
    BY <1>1, <2>1 DEF RunningSet
  <2> QED
    BY <2>1, <2>2
<1> QED
  BY <1>3, <1>4, <1>5

(* A step of a child thread keeps the invariant.                           *)
LEMMA ChildStep ==
  ASSUME NEW t \in Thread, IInv, Child(t)
  PROVE  IInv'
<1>1. TypeOK /\ MainInv /\ num_running = Cardinality(RunningSet)
  BY DEF IInv
<1>2. /\ Typed' /\ UNCHANGED <<mainVars, is_joined>>
      /\ \A u \in Thread \ {t} : Same(u)
  BY <1>1, ChildFrame
<1>3. num_running' = Cardinality(RunningSet')
  BY <1>1, ChildRunning
<1>4. TypeOK'
  <2>1. num_running' \in 0 .. NThreads
    BY <1>3, RunningBound DEF RunningSet
  <2> QED
    BY <1>1, <1>2, <2>1 DEF TypeOK, Typed, mainVars
<1>5. \A u \in Thread : ThreadInv(u)'
  <2>1. ThreadInv(t)'
    BY <1>1, ChildOwn DEF IInv
  <2>2. \A u \in Thread \ {t} : ThreadInv(u)'
    BY <1>2, SameThread DEF IInv, Calm, Joining, mainVars
  <2> QED
    BY <2>1, <2>2
<1>6. MainInv'
  <2>1. \A u \in Thread : ~Upto(u) /\ Settles(u) => ~Upto(u)' /\ Settles(u)'
    <3>1. \A u \in Thread \ {t} : ~Upto(u) /\ Settles(u) => ~Upto(u)' /\ Settles(u)'
      BY <1>2 DEF Same, Upto, Settles, mainVars
    <3>2. ~Upto(t) /\ Settles(t) => ~Upto(t)' /\ Settles(t)'
      BY <1>1, <1>2, ChildProgress DEF Settles, mainVars
    <3> QED
      BY <3>1, <3>2
  <2>2. outcome = "ok" => child_processed' = child_processed
    BY <1>1, ChildProgress DEF MainInv
  <2> QED
    BY <1>1, <1>2, <2>1, <2>2 DEF MainInv, mainVars
<1> QED
  BY <1>3, <1>4, <1>5, <1>6 DEF IInv

(* The steps of the main thread that leave the child threads alone.        *)
LEMMA MainAloneStep ==
  ASSUME IInv,
         \/ CreateDone \/ CallIterate \/ NextRound \/ IterateNull \/ ThrowError
         \/ StatementFails \/ CallEnd \/ EndLoop \/ EndOver
         \/ \E t \in Thread : NextError(t)
  PROVE  IInv'
<1> USE DEF MainGoto, LoopOver
<1>1. /\ UNCHANGED <<infoVars, cpc, fdw, num_running, throwErrorIfDead>>
      /\ force_end' \in BOOLEAN /\ all_finished' \in BOOLEAN
      /\ mpc' \in {"idle", "next", "notify", "end_call", "end_loop", "done"}
      /\ node_incr' \in 0 .. NThreads /\ outcome' \in {"open", "ok", "failed"}
      /\ mpc # "join"
  <2> USE DEF IInv, TypeOK, sharedVars
  <2>1. CASE CreateDone
    BY <2>1 DEF CreateDone
  <2>2. CASE CallIterate
    BY <2>2 DEF CallIterate
  <2>3. CASE NextRound
    BY <2>3 DEF NextRound
  <2>4. CASE IterateNull
    BY <2>4 DEF IterateNull
  <2>5. CASE ThrowError
    BY <2>5 DEF ThrowError
  <2>6. CASE StatementFails
    BY <2>6 DEF StatementFails
  <2>7. CASE CallEnd
    BY <2>7 DEF CallEnd
  <2>8. CASE EndLoop
    BY <2>8 DEF EndLoop
  <2>9. CASE EndOver
    BY <2>9 DEF EndOver
  <2>10. CASE \E t \in Thread : NextError(t)
    BY <2>10 DEF NextError
  <2> QED
    BY <2>1, <2>2, <2>3, <2>4, <2>5, <2>6, <2>7, <2>8, <2>9, <2>10
<1>2. TypeOK' /\ RunningSet' = RunningSet
  BY <1>1 DEF IInv, TypeOK, infoVars, RunningSet
<1>3. Calm' => Calm
  BY DEF CreateDone, CallIterate, NextRound, IterateNull, ThrowError, StatementFails, CallEnd,
         EndLoop, EndOver, NextError, IInv, MainInv, Calm
<1>4. \A u \in Thread : ThreadInv(u)'
  <2>1. \A u \in Thread : Same(u) /\ (Joining(u) => Joining(u)')
    BY <1>1 DEF Same, infoVars, Joining
  <2> QED
    BY <1>1, <1>3, <2>1, SameThread DEF IInv
<1>5. MainInv'
  <2>1. \A t \in Thread : /\ Upto(t)' = Upto(t) /\ Settles(t)' = Settles(t)
                          /\ t < NThreads /\ ~(t < 0)
    BY <1>1 DEF Upto, Settles, infoVars, Thread
  <2> USE <1>1, <2>1 DEF IInv, MainInv, infoVars
  <2>2. CASE CreateDone
    BY <2>2 DEF CreateDone
  <2>3. CASE CallIterate
    BY <2>3 DEF CallIterate
  <2>4. CASE NextRound
    BY <2>4 DEF NextRound
  <2>5. CASE IterateNull
    BY <2>5 DEF IterateNull
  <2>6. CASE ThrowError
    BY <2>6 DEF ThrowError
  <2>7. CASE StatementFails
    BY <2>7 DEF StatementFails
  <2>8. CASE CallEnd
    BY <2>8 DEF CallEnd
  <2>9. CASE EndLoop
    BY <2>9 DEF EndLoop
  <2>10. CASE EndOver
    BY <2>10 DEF EndOver
  <2>11. CASE \E t \in Thread : NextError(t)
    BY <2>11 DEF NextError
  <2> QED
    BY <2>2, <2>3, <2>4, <2>5, <2>6, <2>7, <2>8, <2>9, <2>10, <2>11
<1> QED
  BY <1>1, <1>2, <1>4, <1>5 DEF IInv

(* nextChildTuple looks at a queue: one that is finished says that its     *)
(* child has settled.                                                      *)
LEMMA NextEmptyStep ==
  ASSUME NEW t \in Thread, IInv, NextEmpty(t)
  PROVE  IInv'
<1>1. /\ UNCHANGED <<state, requestEndScan, is_joined, child_processed, cpc, fdw, sharedVars,
                     mpc, es_processed, throwErrorIfDead, outcome>>
      /\ mpc = "next" /\ node_incr = t /\ node_incr' = t + 1
      /\ all_finished' = (all_finished /\ Finished(t))
      /\ queue_state' = [queue_state EXCEPT ![t] = Settled(@)]
      /\ queue_state[t] = "ERROR" => ~throwErrorIfDead
  BY DEF NextEmpty, At
<1>2. /\ queue_state'[t] = Settled(queue_state[t])
      /\ queue_state' \in [Thread -> {"OK", "FINISH", "ERROR"}]
      /\ \A u \in Thread \ {t} : Same(u)
      /\ all_finished' \in BOOLEAN /\ node_incr' \in 0 .. NThreads
  BY <1>1 DEF IInv, TypeOK, Settled, Finished, Same, Thread
<1>3. TypeOK' /\ RunningSet' = RunningSet
  BY <1>1, <1>2 DEF IInv, TypeOK, RunningSet, sharedVars
<1>4. Calm /\ Calm'
  BY <1>1 DEF IInv, MainInv, Calm
<1>5. ThreadInv(t)'
  <2>1. RowsInv(t)' /\ EndInv(t)'
    BY <1>1 DEF IInv, ThreadInv, RowsInv, EndInv, Upto, Between, InError
  <2>2. CalmEnd(t)'
    BY <1>1, <1>4 DEF IInv, ThreadInv, CalmEnd, Joining, Upto, Between
  <2>3. QueueInv(t)'
    BY <1>1, <1>2, <1>4 DEF IInv, ThreadInv, QueueInv, Settled, Settles, Upto
  <2> QED
    BY <2>1, <2>2, <2>3 DEF ThreadInv
<1>6. \A u \in Thread \ {t} : ThreadInv(u)'
  BY <1>1, <1>2, <1>4, SameThread DEF IInv, Joining
<1>7. MainInv'
  <2>1. \A u \in Thread : Upto(u)' = Upto(u) /\ Settles(u)' = Settles(u)
    BY <1>1 DEF Upto, Settles
  <2>2. ASSUME all_finished', NEW u \in Thread, u < node_incr'
        PROVE  ~Upto(u)' /\ Settles(u)'
    <3>1. CASE u = t
      BY <3>1, <1>1, <1>4, <2>1, <2>2 DEF IInv, ThreadInv, QueueInv, Finished
    <3>2. CASE u # t
      <4>1. u < node_incr
        BY <3>2, <1>1, <2>2 DEF Thread
      <4> QED
        BY <4>1, <1>1, <2>1, <2>2 DEF IInv, MainInv
    <3> QED
      BY <3>1, <3>2
  <2> QED
    BY <1>1, <2>1, <2>2 DEF IInv, MainInv
<1> QED
  BY <1>1, <1>3, <1>5, <1>6, <1>7 DEF IInv, sharedVars

(* A thread is notified of an error that will be thrown.                   *)
LEMMA NotifyThreadStep ==
  ASSUME NEW t \in Thread, IInv, NotifyThread(t)
  PROVE  IInv'
<1>1. /\ UNCHANGED <<is_joined, queue_state, child_processed, cpc, fdw, sharedVars,
                     mpc, all_finished, es_processed, throwErrorIfDead, outcome>>
      /\ mpc = "notify" /\ node_incr = t /\ node_incr' = t + 1
      /\ state' = [state EXCEPT ![t] = "ERROR"]
      /\ requestEndScan' = [requestEndScan EXCEPT ![t] = TRUE]
  BY DEF NotifyThread, At, SetState
<1>2. /\ state'[t] = "ERROR" /\ requestEndScan'[t] = TRUE
      /\ state' \in [Thread -> ThreadState] /\ requestEndScan' \in [Thread -> BOOLEAN]
      /\ \A u \in Thread \ {t} : Same(u)
      /\ node_incr' \in 0 .. NThreads
  BY <1>1 DEF IInv, TypeOK, Same, Thread, ThreadState, ErrorStates
<1>3. TypeOK' /\ RunningSet' = RunningSet
  BY <1>1, <1>2 DEF IInv, TypeOK, RunningSet, sharedVars
<1>4. ~Calm /\ ~Calm'
  BY <1>1 DEF Calm
<1>5. ThreadInv(t)'
  <2>1. RowsInv(t)'
    BY <1>1, <1>2 DEF IInv, ThreadInv, RowsInv, Upto, InError, ErrorStates
  <2>2. QueueInv(t)' /\ CalmEnd(t)'
    BY <1>1, <1>2, <1>4 DEF IInv, ThreadInv, QueueInv, CalmEnd, Upto
  <2>3. EndInv(t)'
    BY <1>1, <1>2 DEF IInv, ThreadInv, EndInv, Upto, Between
  <2> QED
    BY <2>1, <2>2, <2>3 DEF ThreadInv
<1>6. \A u \in Thread \ {t} : ThreadInv(u)'
  BY <1>1, <1>2, <1>4, SameThread DEF IInv, Joining
<1>7. MainInv'
  BY <1>1 DEF IInv, MainInv, Upto, Settles
<1> QED
  BY <1>1, <1>3, <1>5, <1>6, <1>7 DEF IInv, sharedVars

(* A thread is asked to end: it has not been before, unless an error has   *)
(* been thrown.                                                            *)
LEMMA EndRequestStep ==
  ASSUME NEW t \in Thread, IInv, EndRequest(t)
  PROVE  IInv'
<1>1. /\ UNCHANGED <<state, is_joined, queue_state, child_processed, cpc, fdw, sharedVars,
                     all_finished, es_processed, throwErrorIfDead, outcome>>
      /\ mpc = "end_loop" /\ node_incr = t
      /\ requestEndScan' = [requestEndScan EXCEPT ![t] = @ \/ ~is_joined[t]]
      /\ mpc' = IF is_joined[t] THEN "end_loop" ELSE "join"
      /\ node_incr' = IF is_joined[t] THEN t + 1 ELSE t
  BY DEF EndRequest, At, MainGoto, MustEnd
<1>2. /\ requestEndScan'[t] = (requestEndScan[t] \/ ~is_joined[t])
      /\ requestEndScan' \in [Thread -> BOOLEAN]
      /\ \A u \in Thread \ {t} : Same(u)
      /\ t \in 0 .. NThreads /\ t + 1 \in 0 .. NThreads /\ t < NThreads
  BY <1>1 DEF IInv, TypeOK, Same, Thread
<1>3. TypeOK' /\ RunningSet' = RunningSet
  BY <1>1, <1>2 DEF IInv, TypeOK, RunningSet, sharedVars
<1>4. Calm' = Calm
  BY <1>1 DEF Calm
<1>5. ThreadInv(t)'
  <2>1. RowsInv(t)'
    BY <1>1 DEF IInv, ThreadInv, RowsInv, Upto, InError
  <2>2. QueueInv(t)'
    BY <1>1, <1>4 DEF IInv, ThreadInv, QueueInv, Upto, Settles
  <2>3. EndInv(t)'
    BY <1>1, <1>2 DEF IInv, ThreadInv, EndInv, Upto, Between
  <2>4. CalmEnd(t)'
    <3>1. CASE is_joined[t]
      <4>1. cpc[t] = "gone" /\ cpc'[t] = "gone"
        BY <3>1, <1>1 DEF IInv, ThreadInv, EndInv
      <4> QED
        BY <4>1, <1>1, <1>4 DEF IInv, ThreadInv, CalmEnd, Upto, Between
    <3>2. CASE ~is_joined[t]
      <4>1. Joining(t)'
        BY <3>2, <1>1 DEF Joining
      <4>2. ~Joining(t)
        BY <1>1 DEF Joining
      <4> QED
        BY <4>1, <4>2, <1>1, <1>4 DEF IInv, ThreadInv, CalmEnd, Upto, Between
    <3> QED
      BY <3>1, <3>2
  <2> QED
    BY <2>1, <2>2, <2>3, <2>4 DEF ThreadInv
<1>6. \A u \in Thread \ {t} : ThreadInv(u)'
  BY <1>1, <1>2, <1>4, SameThread DEF IInv, Joining
<1>7. MainInv'
  <2>1. \A u \in Thread : Upto(u)' = Upto(u) /\ Settles(u)' = Settles(u)
    BY <1>1 DEF Upto, Settles
  <2>2. ASSUME NEW u \in Thread, u < node_incr'
        PROVE  is_joined[u]
    <3>1. u < node_incr \/ (u = t /\ is_joined[t])
      BY <1>1, <2>2 DEF Thread
    <3> QED
      BY <3>1, <1>1 DEF IInv, MainInv
  <2> QED
    BY <1>1, <1>2, <2>1, <2>2 DEF IInv, MainInv
<1> QED
  BY <1>1, <1>3, <1>5, <1>6, <1>7 DEF IInv, sharedVars

(* A thread is joined when it is gone.                                     *)
LEMMA EndJoinStep ==
  ASSUME NEW t \in Thread, IInv, EndJoin(t)
  PROVE  IInv'
<1>1. /\ UNCHANGED <<state, requestEndScan, queue_state, child_processed, cpc, fdw, sharedVars,
                     all_finished, es_processed, throwErrorIfDead, outcome>>
      /\ mpc = "join" /\ mpc' = "end_loop" /\ node_incr = t /\ node_incr' = t + 1
      /\ cpc[t] = "gone"
      /\ is_joined' = [is_joined EXCEPT ![t] = TRUE]
  BY DEF EndJoin, At, MainGoto
<1>2. /\ is_joined'[t] = TRUE /\ is_joined' \in [Thread -> BOOLEAN]
      /\ \A u \in Thread \ {t} : Same(u)
      /\ t + 1 \in 0 .. NThreads
  BY <1>1 DEF IInv, TypeOK, Same, Thread
<1>3. TypeOK' /\ RunningSet' = RunningSet
  BY <1>1, <1>2 DEF IInv, TypeOK, RunningSet, sharedVars
<1>4. Calm' = Calm
  BY <1>1 DEF Calm
<1>5. ThreadInv(t)'
  <2>1. RowsInv(t)'
    BY <1>1 DEF IInv, ThreadInv, RowsInv, Upto, InError
  <2>2. QueueInv(t)'
    BY <1>1, <1>4 DEF IInv, ThreadInv, QueueInv, Upto, Settles
  <2>3. EndInv(t)'
    BY <1>1, <1>2 DEF IInv, ThreadInv, EndInv, Upto, Between
  <2>4. CalmEnd(t)'
    BY <1>1, <1>4 DEF IInv, ThreadInv, CalmEnd, Upto, Between
  <2> QED
    BY <2>1, <2>2, <2>3, <2>4 DEF ThreadInv
<1>6. \A u \in Thread \ {t} : ThreadInv(u)'
  BY <1>1, <1>2, <1>4, SameThread DEF IInv, Joining
<1>7. MainInv'
  <2>1. \A u \in Thread : Upto(u)' = Upto(u) /\ Settles(u)' = Settles(u)
    BY <1>1 DEF Upto, Settles
  <2>2. ASSUME NEW u \in Thread, u < node_incr'
        PROVE  is_joined'[u]
    <3>1. u < node_incr \/ u = t
      BY <1>1, <2>2 DEF Thread
    <3> QED
      BY <3>1, <1>1, <1>2 DEF IInv, MainInv, Same
  <2> QED
    BY <1>1, <2>1, <2>2 DEF IInv, MainInv
<1> QED
  BY <1>1, <1>3, <1>5, <1>6, <1>7 DEF IInv, sharedVars

(* Before the threads are created nothing is modified, queued or ended.    *)
LEMMA InitIInv == Init => IInv
<1> SUFFICES ASSUME Init PROVE IInv
  OBVIOUS
<1>1. num_running = Cardinality(RunningSet)
  <2>1. RunningSet = {}
    BY DEF Init, RunningSet
  <2> QED
    BY <2>1, FS_EmptySet DEF Init
<1>2. TypeOK
  <2>1. fdw \in [Thread -> [begun : BOOLEAN, modified : BOOLEAN, failed : BOOLEAN, ends : Nat]]
    BY DEF Init
  <2>2. num_running \in 0 .. NThreads /\ node_incr \in 0 .. NThreads
    BY DEF Init
  <2>3. state \in [Thread -> ThreadState]
    BY DEF Init, ThreadState
  <2> QED
    BY <2>1, <2>2, <2>3 DEF Init, TypeOK
<1>3. \A t \in Thread : ThreadInv(t)
  BY DEF Init, ThreadInv, RowsInv, QueueInv, EndInv, CalmEnd, Upto, Between
<1>4. MainInv
  BY DEF Init, MainInv, Thread
<1> QED
  BY <1>1, <1>2, <1>3, <1>4 DEF IInv

(* Every step keeps the invariant.                                         *)
LEMMA NextIInv == IInv /\ [Next]_vars => IInv'
<1> SUFFICES ASSUME IInv, [Next]_vars PROVE IInv'
  OBVIOUS
<1>1. CASE \E t \in Thread : Child(t)
  BY <1>1, ChildStep
<1>2. CASE Main
  BY <1>2, MainAloneStep, NextEmptyStep, NotifyThreadStep, EndRequestStep, EndJoinStep DEF Main
<1>3. CASE UNCHANGED vars
  <2>1. TypeOK' /\ MainInv' /\ RunningSet' = RunningSet /\ num_running' = num_running
    BY <1>3 DEF IInv, TypeOK, MainInv, RunningSet, vars, infoVars, sharedVars, mainVars, Upto,
                Settles
  <2>2. \A u \in Thread : Same(u) /\ (Joining(u) => Joining(u)')
    BY <1>3 DEF Same, Joining, vars, infoVars, mainVars
  <2>3. \A u \in Thread : ThreadInv(u)'
    BY <1>3, <2>2, SameThread DEF IInv, Calm, vars, mainVars
  <2> QED
    BY <2>1, <2>3 DEF IInv
<1> QED
  BY <1>1, <1>2, <1>3 DEF Next, Over

(* The invariant holds for any children, rows and failures.                *)
THEOREM Invariance == Spec => []IInv
<1>1. Init => IInv
  BY InitIInv
<1>2. IInv /\ [Next]_vars => IInv'
  BY NextIInv
<1> QED
  BY <1>1, <1>2, PTL DEF Spec

(* The row count of a statement that succeeds is exact: nothing is         *)
(* modified after the main thread has read es_processed of the children.   *)
THEOREM CountExactAlways == Spec => []CountExact
<1>1. IInv => CountExact
  <2> SUFFICES ASSUME IInv, outcome = "ok" PROVE CountExact
    BY DEF CountExact
  <2>1. child_processed = [t \in Thread |-> IF fdw[t].modified THEN Rows[t] ELSE 0]
    BY DEF IInv, TypeOK, ThreadInv, RowsInv
  <2>2. es_processed = AddRows(0, child_processed)
    BY DEF IInv, MainInv
  <2>3. \A t \in Thread : fdw[t].modified \/ (fdw[t].failed /\ ~throwErrorIfDead)
    BY DEF IInv, MainInv, Settles
  <2> QED
    BY <2>1, <2>2, <2>3 DEF CountExact
<1> QED
  BY <1>1, Invariance, PTL

(* When the statement is over every thread is gone and joined, a child     *)
(* that has modified rows is ended, and once only if nothing was thrown.   *)
THEOREM CleanEndAlways == Spec => []CleanEnd
<1>1. IInv => CleanEnd
  <2> SUFFICES ASSUME IInv, mpc = "done" PROVE CleanEnd
    BY DEF CleanEnd
  <2>1. \A t \in Thread : is_joined[t] /\ cpc[t] = "gone"
    BY DEF IInv, MainInv, ThreadInv, EndInv
  <2>2. num_running = 0
    <3>1. RunningSet = {}
      BY <2>1 DEF RunningSet
    <3> QED
      BY <3>1, FS_EmptySet DEF IInv
  <2>3. \A t \in Thread : fdw[t].modified => fdw[t].ends >= 1
    BY <2>1 DEF IInv, ThreadInv, EndInv
  <2>4. outcome = "ok" => \A t \in Thread : fdw[t].ends <= 1
    BY DEF IInv, ThreadInv, CalmEnd, Calm
  <2> QED
    BY <2>1, <2>2, <2>3, <2>4 DEF CleanEnd
<1> QED
  BY <1>1, Invariance, PTL

(* The children that have settled, and how the statement has ended.        *)
Done == {t \in Thread : fdw[t].modified \/ (fdw[t].failed /\ ~throwErrorIfDead)}
Ended == IF mpc = "done" THEN outcome ELSE "open"

(* What is done stays done, and when the statement is over nothing more.   *)
LEMMA DoneGrows ==
  ASSUME IInv, [Next]_vars
  PROVE  /\ Done \subseteq Done' /\ Done' \subseteq Thread
         /\ mpc = "done" => Done' = Done /\ mpc' = "done" /\ outcome' = outcome
         /\ mpc # "done" /\ mpc' = "done" => Done' = Done /\ outcome' = outcome
<1>1. ASSUME NEW t \in Thread, Child(t)
      PROVE  Done \subseteq Done' /\ UNCHANGED mainVars /\ mpc # "done"
  <2>1. UNCHANGED mainVars /\ \A u \in Thread \ {t} : fdw'[u] = fdw[u]
    BY <1>1, ChildFrame DEF IInv, Same
  <2>2. (fdw[t].modified => fdw'[t].modified) /\ (fdw[t].failed => fdw'[t].failed)
    BY <1>1, ChildProgress DEF IInv
  <2>3. cpc[t] # "gone"
    BY <1>1 DEF Child, Goto, ThreadStart, BeginCall, IterateCall, EndCall, BeginReturn,
                IterateReturn, EndReturn, CallFails, IterateDone, Check, Enter, ExitNotify,
                ExitEnd, ExitEnded, ThreadFinal
  <2>4. mpc # "done"
    BY <2>3 DEF IInv, MainInv, ThreadInv, EndInv
  <2> QED
    BY <2>1, <2>2, <2>4 DEF Done, mainVars
<1>2. ASSUME Main
      PROVE  /\ UNCHANGED <<fdw, throwErrorIfDead>> /\ mpc # "done"
             /\ mpc' = "done" => outcome' = outcome
  BY <1>2 DEF Main, MainGoto, CreateDone, CallIterate, NextRound, IterateNull, ThrowError,
              StatementFails, CallEnd, EndLoop, EndOver, NextEmpty, NextError, NotifyThread,
              EndRequest, EndJoin
<1>3. ASSUME UNCHANGED vars
      PROVE  UNCHANGED <<fdw, throwErrorIfDead, mpc, outcome>>
  BY <1>3 DEF vars, mainVars
<1>4. Done' \subseteq Thread
  BY DEF Done
<1> QED
  BY <1>1, <1>2, <1>3, <1>4 DEF Next, Over, Done, mainVars

(* The threads implement the safety of ModifyStatement: every child        *)
(* modifies its rows before the statement succeeds, and none after its     *)
(* end.                                                                    *)
THEOREM ImplementsStatement == Spec => Statement!SafeSpec
<1>1. Init => Statement!Init
  BY DEF Init, Statement!Init
<1>2. IInv /\ [Next]_vars => [Statement!Next]_(Statement!vars)
  <2> SUFFICES ASSUME IInv, [Next]_vars
               PROVE  Statement!Next \/ UNCHANGED Statement!vars
    OBVIOUS
  <2>1. Thread' = Thread
    BY DEF Thread
  <2>2. CASE mpc = "done"
    <3>1. Done' = Done /\ Ended' = Ended
      BY <2>2, DoneGrows DEF Ended
    <3> QED
      BY <3>1, <2>1 DEF Statement!vars, Done, Ended
  <2>3. CASE mpc # "done" /\ mpc' # "done"
    <3>1. Done \subseteq Done' /\ Done' \subseteq Thread /\ Ended = "open" /\ Ended' = "open"
      BY <2>3, DoneGrows DEF Ended
    <3> QED
      BY <3>1, <2>1 DEF Statement!Next, Statement!Apply, Done, Ended
  <2>4. CASE mpc # "done" /\ mpc' = "done"
    <3>1. Done' = Done /\ Ended = "open" /\ Ended' = outcome
      BY <2>4, DoneGrows DEF Ended
    <3>2. outcome \in {"ok", "failed"}
      <4>1. outcome' \in {"ok", "failed"}
        BY <2>4, NextIInv DEF IInv, TypeOK, MainInv
      <4> QED
        BY <4>1, <2>4, DoneGrows
    <3>3. CASE outcome = "ok"
      <4>1. Done = Thread
        BY <3>3 DEF IInv, MainInv, Settles, Done
      <4> QED
        BY <4>1, <3>1, <3>3, <2>1 DEF Statement!Next, Statement!Succeed, Done, Ended
    <3>4. CASE outcome = "failed"
      BY <3>1, <3>4, <2>1 DEF Statement!Next, Statement!Fail, Done, Ended
    <3> QED
      BY <3>2, <3>3, <3>4
  <2> QED
    BY <2>2, <2>3, <2>4
<1> QED
  BY <1>1, <1>2, Invariance, PTL DEF Spec, Statement!SafeSpec
=============================================================================
