------------------------ MODULE ForeignModifyProofs -------------------------
(***************************************************************************)
(* ForeignModify for any number of children, statements, failures and      *)
(* batch sizes: rows are applied in their order, and a modify is ended     *)
(* where it was begun.  That rows are applied only between the begin and   *)
(* the end, and that no error is lost, holds where the main thread waits   *)
(* for the batch sizes of the children before it writes their states: not  *)
(* if the batch_size option is set.                                        *)
(***************************************************************************)
EXTENDS ForeignModify, FiniteSetTheorems, SequenceTheorems, NaturalsInduction,
        WellFoundedInduction, TLAPS

USE ModifyAssumption

(* The main thread writes no state before the child has left BEGIN.        *)
Waited == mode.op = "UPDATE" \/ mode.option = 0

(* No error is on its way to the threads.                                  *)
Calm == outcome # "failed" /\ mpc \notin {"notify", "notify_end"}

(* No row has been sent yet.                                               *)
Setting == mpc \in {"create", "size", "set", "set_state"}

(* An INSERT has not told t how to insert.                                 *)
Untold(t) == \/ mpc \in {"create", "size"}
             \/ mpc \in {"set", "set_state"} /\ t >= node_incr

(* The main thread has asked t to end and waits for it.                    *)
Joining(t) == mpc = "join" /\ node_incr = t

(* Places of a child thread: at its end, past its loop, before its calls,  *)
(* between the begin and the end of its modify.                            *)
AtExit(t) == cpc[t] \in {"exit", "gone"}
Out(t) == cpc[t] \in {"left", "pre_end", "ending", "endcall", "ended", "exit", "gone"}
Upto(t) == cpc[t] \in {"created", "begin", "begun", "sized", "tell", "await", "enter", "loop"}
Within(t) == cpc[t] \in {"sized", "tell", "await", "enter", "loop", "call", "done", "left",
                         "pre_end", "ending", "endcall", "ended"}

(* The main thread.                                                        *)
MainInv ==
  /\ Setting => outcome = "open"
  /\ Calm => ~force_end
  /\ outcome = "ok" => mpc = "closed"
  /\ mpc \in {"ready", "send", "split", "uwait"} => nsent < mode.rows
  /\ mpc \in {"wait", "split", "uwait"} => cur \in Thread
  /\ mpc \in {"set_state", "notify_end", "join"} => node_incr < NThreads
  /\ mpc \in {"size", "set", "set_state", "wait", "split", "bsend"} => mode.op = "INSERT"
  /\ mpc = "uwait" => mode.op = "UPDATE"
  /\ mpc \in {"set", "set_state"} => tell \in InsertStates
  /\ mpc \in {"end_request", "join"} => \A t \in Thread : t < node_incr => is_joined[t]
  /\ mpc = "closed" => \A t \in Thread : is_joined[t]
  /\ outcome = "ok" /\ ThrowErrorIfDead => \A t \in Thread : state[t] # "ERROR"

(* While the states are set no child has a request, or has begun and come  *)
(* to its exit: a write loses no error of a modify that was begun.         *)
StartInv(t) ==
  /\ cpc[t] = "created" => mpc = "create" /\ state[t] = "INIT"
  /\ Setting => /\ ~requestExecModify[t] /\ ~fdw[t].failed
                /\ requestEndModify[t] => AtExit(t)
                /\ AtExit(t) => ~fdw[t].begun
                /\ Upto(t) \/ AtExit(t)
  /\ Untold(t) /\ mode.op = "INSERT" =>
       state[t] \notin InsertStates /\ cpc[t] \notin {"enter", "loop"}

(* The calls of the child FDW, and the errors of those.                    *)
CallInv(t) ==
  /\ is_joined[t] => cpc[t] = "gone"
  /\ cpc[t] \in {"created", "begin"} => ~fdw[t].begun
  /\ status[t] = "NotTarget" => ~fdw[t].begun /\ cpc[t] \notin {"created", "begin"}
  /\ fdw[t].failed => InError(t) /\ cpc[t] \in {"left", "ended", "exit", "gone"}
  /\ cpc[t] = "gone" => state[t] # "ERROR_INIT"
  /\ cpc[t] \notin {"ended", "exit", "gone"} => fdw[t].ends = 0

(* As long as no error is thrown the main thread alone asks for the end.   *)
CalmEnd(t) ==
  Calm => /\ requestEndModify[t] /\ ~AtExit(t) => Joining(t)
          /\ cpc[t] \in {"endcall", "ended"} => Joining(t)
          /\ cpc[t] = "ended" => fdw[t].ends = 1 /\ (fdw[t].failed \/ ~requestEndModify[t])
          /\ InError(t) => cpc[t] # "begin" /\ (fdw[t].begun => fdw[t].failed)
          /\ state[t] = "ERROR" /\ fdw[t].begun => cpc[t] = "gone"
          /\ cpc[t] = "exit" /\ fdw[t].begun =>
               \/ state[t] = "ERROR_INIT"
               \/ requestEndModify[t] /\ fdw[t].ends = 0
               \/ ~requestEndModify[t] /\ fdw[t].ends = 1 /\ Joining(t)
          /\ cpc[t] = "gone" /\ fdw[t].begun => state[t] = "ERROR" \/ fdw[t].ends = 1

(* A thread that goes on has begun the modify of its child.                *)
BegunInv(t) ==
  Waited => /\ cpc[t] = "begin" => state[t] \in {"BEGIN", "ERROR"}
            /\ cpc[t] = "begun" => state[t] \in {"BEGIN"} \cup ErrorStates
            /\ mode.op = "INSERT" /\ cpc[t] \in {"begin", "sized", "tell"} => state[t] = "BEGIN"
            /\ mode.op = "INSERT" /\ mpc \notin {"create", "size"} =>
                 state[t] \notin BelowPreExec
            /\ mpc = "set_state" /\ node_incr = t => cpc[t] = "await"
            /\ Setting /\ AtExit(t) => state[t] \in {"FINISH"} \cup ErrorStates
            /\ cpc[t] = "begun" /\ ~fdw[t].begun => InError(t) \/ status[t] = "NotTarget"
            /\ Within(t) => fdw[t].begun
            /\ AtExit(t) => fdw[t].begun \/ InError(t) \/ status[t] = "NotTarget"

(* The rows sent to a child are those its FDW has applied, then those it   *)
(* has been handed; an INSERT hands over no rows while it has some, unless *)
(* the child will do no more.                                              *)
RowsInv(t) ==
  /\ Upto(t) => sent[t] = applied[t] \o (IF requestExecModify[t] THEN slots[t] ELSE <<>>)
  /\ cpc[t] = "call" => /\ requestExecModify[t] /\ todo[t] # <<>>
                        /\ sent[t] = applied[t] \o todo[t]
  /\ cpc[t] = "done" => requestExecModify[t] /\ sent[t] = applied[t]
  /\ IsPrefix(applied[t], sent[t])
  /\ requestExecModify[t] => slots[t] # <<>>
  /\ kind[t] = "batch" => batch_size[t] > 1
  /\ cpc[t] \in {"created", "begin", "begun"} => kind[t] = "one"
  /\ state[t] = "FINISH" => AtExit(t)
  /\ mode.op = "INSERT" /\ requestExecModify[t] =>
       /\ mpc \in {"idle", "ready", "send", "split"} => Out(t)
       /\ mpc = "wait" /\ t # cur => Out(t)
       /\ mpc = "bsend" /\ t >= node_incr => Out(t)

ThreadInv(t) == StartInv(t) /\ CallInv(t) /\ CalmEnd(t) /\ BegunInv(t) /\ RowsInv(t)

(* The threads that run.                                                   *)
RunningSet == {t \in Thread : cpc[t] \notin {"created", "gone"}}

(* The inductive invariant.                                                *)
IInv ==
  /\ TypeOK /\ MainInv
  /\ num_running = Cardinality(RunningSet)
  /\ \A t \in Thread : ThreadInv(t)

-----------------------------------------------------------------------------
(* Sets of the type invariant.                                             *)
Place == {"created", "begin", "begun", "sized", "tell", "await", "enter", "loop", "call", "done",
          "left", "pre_end", "ending", "endcall", "ended", "exit", "gone"}
MainPlace == {"create", "size", "set", "set_state", "idle", "ready", "send", "wait", "split",
              "bsend", "uwait", "notify", "notify_end", "end", "end_request", "join", "closed"}
Fdw == [begun : BOOLEAN, failed : BOOLEAN, ends : Nat]

(* The types but for the number of running threads.                        *)
Typed ==
  /\ mode \in Modes
  /\ state \in [Thread -> ThreadState]
  /\ requestExecModify \in [Thread -> BOOLEAN] /\ requestEndModify \in [Thread -> BOOLEAN]
  /\ is_joined \in [Thread -> BOOLEAN]
  /\ batch_size \in [Thread -> Nat]
  /\ slots \in [Thread -> Seq(Nat)] /\ todo \in [Thread -> Seq(Nat)]
  /\ child_slots \in [Thread -> Seq(Nat)]
  /\ sent \in [Thread -> Seq(Nat)] /\ applied \in [Thread -> Seq(Nat)]
  /\ status \in [Thread -> {"Alive", "NotTarget", "Dead"}]
  /\ cpc \in [Thread -> Place]
  /\ kind \in [Thread -> {"one", "rows", "batch"}]
  /\ fdw \in [Thread -> Fdw]
  /\ force_end \in BOOLEAN
  /\ mpc \in MainPlace
  /\ node_incr \in 0 .. NThreads
  /\ cur \in Thread \cup {-1}
  /\ tell \in ThreadState
  /\ ri_BatchSize \in Nat \ {0}
  /\ outcome \in {"open", "ok", "failed"}
  /\ nsent \in 0 .. mode.rows

(* The threads are finitely many.                                          *)
LEMMA RunningBound ==
  ASSUME NEW S, S \subseteq Thread
  PROVE  IsFiniteSet(S) /\ Cardinality(S) \in Nat
<1>1. 0 \in Int /\ NThreads - 1 \in Int
  OBVIOUS
<1>2. IsFiniteSet(Thread)
  BY <1>1, FS_Interval, Zenon DEF Thread
<1>3. IsFiniteSet(S)
  BY <1>2, FS_Subset
<1> QED
  BY <1>3, FS_CardinalityType

(* The type invariant, in the form the proofs use.                         *)
LEMMA TypedIff == TypeOK <=> Typed /\ num_running \in Nat
BY DEF TypeOK, Typed, Place, MainPlace, Fdw

(* The child FDW after a call of EndForeignModify that succeeds or fails.  *)
EndedCall(r) == [r EXCEPT !.ends = @ + 1]
FailedEnd(r) == [r EXCEPT !.ends = @ + 1, !.failed = TRUE]

(* Such a call changes nothing else of it.                                 *)
LEMMA EndOfCall ==
  ASSUME NEW r \in Fdw
  PROVE  /\ EndedCall(r) \in Fdw /\ FailedEnd(r) \in Fdw
         /\ EndedCall(r).begun = r.begun /\ EndedCall(r).failed = r.failed
         /\ EndedCall(r).ends = r.ends + 1
         /\ FailedEnd(r).begun = r.begun /\ FailedEnd(r).failed = TRUE
         /\ FailedEnd(r).ends = r.ends + 1
<1>1. PICK n \in Nat : n = r.ends + 1
  BY DEF Fdw
<1>2. [r EXCEPT !.ends = n] \in Fdw /\ [r EXCEPT !.ends = n, !.failed = TRUE] \in Fdw
  BY <1>1 DEF Fdw
<1>3. EndedCall(r) = [r EXCEPT !.ends = n]
  BY <1>1 DEF Fdw, EndedCall
<1>4. FailedEnd(r) = [r EXCEPT !.ends = n, !.failed = TRUE]
  BY <1>1 DEF Fdw, FailedEnd
<1> QED
  BY <1>1, <1>2, <1>3, <1>4 DEF Fdw

(* Rows that are joined twice.                                             *)
LEMMA Associative ==
  ASSUME NEW a \in Seq(Nat), NEW x \in Seq(Nat), NEW y \in Seq(Nat)
  PROVE  (a \o x) \o y = a \o (x \o y)
<1>1. /\ a \o x \in Seq(Nat) /\ Len(a \o x) = Len(a) + Len(x)
      /\ \A i \in 1 .. Len(a) + Len(x) : (a \o x)[i] = IF i <= Len(a) THEN a[i] ELSE x[i - Len(a)]
  BY ConcatProperties
<1>2. /\ x \o y \in Seq(Nat) /\ Len(x \o y) = Len(x) + Len(y)
  BY ConcatProperties
<1>3. (a \o x) \o y \in Seq(Nat) /\ a \o (x \o y) \in Seq(Nat)
  BY <1>1, <1>2, ConcatProperties
<1>4. Len((a \o x) \o y) = Len(a \o (x \o y))
  BY <1>1, <1>2, ConcatProperties
<1>5. \A i \in 1 .. Len((a \o x) \o y) : ((a \o x) \o y)[i] = (a \o (x \o y))[i]
  BY <1>1, <1>2, ConcatProperties
<1> QED
  BY <1>3, <1>4, <1>5, SMTT(30)

(* The first n rows of s are done, the others are left.                    *)
LEMMA CutRows ==
  ASSUME NEW a \in Seq(Nat), NEW s \in Seq(Nat), NEW n \in 1 .. Len(s)
  PROVE  /\ a \o SubSeq(s, 1, n) \in Seq(Nat) /\ SubSeq(s, n + 1, Len(s)) \in Seq(Nat)
         /\ (a \o SubSeq(s, 1, n)) \o SubSeq(s, n + 1, Len(s)) = a \o s
         /\ n # Len(s) => SubSeq(s, n + 1, Len(s)) # <<>>
         /\ n = Len(s) => a \o SubSeq(s, 1, n) = a \o s
<1>1. Len(s) \in Nat /\ n \in Int /\ n >= 1 /\ n <= Len(s)
  OBVIOUS
<1>2. SubSeq(s, 1, n) \in Seq(Nat)
  <2>1. \A i \in 1 .. n : s[i] \in Nat
    BY <1>1
  <2> QED
    BY <1>1, <2>1, SubSeqProperties
<1>3. /\ SubSeq(s, n + 1, Len(s)) \in Seq(Nat)
      /\ Len(SubSeq(s, n + 1, Len(s))) = IF n + 1 <= Len(s) THEN Len(s) - (n + 1) + 1 ELSE 0
  <2>1. /\ \A i \in n + 1 .. Len(s) : s[i] \in Nat
        /\ n + 1 \in Int /\ Len(s) \in Int
    BY <1>1
  <2> QED
    BY <2>1, SubSeqProperties
<1>4. SubSeq(s, 1, n) \o SubSeq(s, n + 1, Len(s)) = SubSeq(s, 1, Len(s))
  <2>1. 1 \in 1 .. Len(s) + 1 /\ n \in 1 - 1 .. Len(s) /\ Len(s) \in n .. Len(s)
    BY <1>1
  <2> QED
    BY <2>1, ConcatAdjacentSubSeq
<1>5. SubSeq(s, 1, Len(s)) = s
  BY SubSeqFull
<1>6. (a \o SubSeq(s, 1, n)) \o SubSeq(s, n + 1, Len(s)) = a \o s
  <2>1. (a \o SubSeq(s, 1, n)) \o SubSeq(s, n + 1, Len(s))
          = a \o (SubSeq(s, 1, n) \o SubSeq(s, n + 1, Len(s)))
    <3> DEFINE x == SubSeq(s, 1, n)
               y == SubSeq(s, n + 1, Len(s))
    <3>1. x \in Seq(Nat) /\ y \in Seq(Nat)
      BY <1>2, <1>3
    <3> HIDE DEF x, y
    <3>2. (a \o x) \o y = a \o (x \o y)
      BY <3>1, Associative
    <3> QED
      BY <3>2 DEF x, y
  <2> QED
    BY <2>1, <1>4, <1>5
<1>7. a \o SubSeq(s, 1, n) \in Seq(Nat)
  BY <1>2, ConcatProperties
<1>8. n # Len(s) => SubSeq(s, n + 1, Len(s)) # <<>>
  <2>1. n # Len(s) => Len(SubSeq(s, n + 1, Len(s))) # 0
    BY <1>1, <1>3
  <2> QED
    BY <2>1
<1> QED
  BY <1>3, <1>5, <1>6, <1>7, <1>8

(* Rows are the first of those that others are joined to.                  *)
LEMMA PrefixConcat ==
  ASSUME NEW s \in Seq(Nat), NEW r \in Seq(Nat)
  PROVE  IsPrefix(s, s \o r)
<1>1. /\ s \o r \in Seq(Nat) /\ Len(s \o r) = Len(s) + Len(r)
      /\ Len(s) \in Nat /\ Len(r) \in Nat
  BY ConcatProperties
<1>2. CASE Len(s) = 0
  <2>1. SubSeq(s, 1, Len(s)) = <<>> /\ SubSeq(s \o r, 1, Len(s)) = <<>>
    BY <1>2, SubSeqEmpty
  <2> QED
    BY <2>1, <1>1 DEF IsPrefix
<1>3. CASE Len(s) # 0
  <2>1. 1 \in 1 .. Len(s) /\ Len(s) \in 1 .. Len(s)
    BY <1>1, <1>3
  <2>2. SubSeq(s \o r, 1, Len(s)) = SubSeq(s, 1, Len(s))
    BY <2>1, SubSeqOfConcat1
  <2> QED
    BY <2>2, <1>1 DEF IsPrefix
<1> QED
  BY <1>2, <1>3

(* Rows that are the first ones stay so.                                   *)
LEMMA PrefixExtend ==
  ASSUME NEW s \in Seq(Nat), NEW q \in Seq(Nat), NEW r \in Seq(Nat), IsPrefix(s, q)
  PROVE  IsPrefix(s, q \o r)
<1>1. /\ q \o r \in Seq(Nat) /\ Len(q \o r) = Len(q) + Len(r)
      /\ Len(s) \in Nat /\ Len(r) \in Nat /\ Len(q) \in Nat /\ Len(s) <= Len(q)
  BY ConcatProperties DEF IsPrefix
<1>2. CASE Len(s) = 0
  <2>1. SubSeq(s, 1, Len(s)) = <<>> /\ SubSeq(q \o r, 1, Len(s)) = <<>>
    BY <1>2, SubSeqEmpty
  <2> QED
    BY <2>1, <1>1, SMTT(30) DEF IsPrefix
<1>3. CASE Len(s) # 0
  <2>1. 1 \in 1 .. Len(q) /\ Len(s) \in 1 .. Len(q)
    BY <1>1, <1>3
  <2>2. SubSeq(q \o r, 1, Len(s)) = SubSeq(q, 1, Len(s))
    BY <2>1, SubSeqOfConcat1
  <2> QED
    BY <2>2, <1>1 DEF IsPrefix
<1> QED
  BY <1>2, <1>3

(* A set of numbers that is not empty has a least one.                     *)
LEMMA Least ==
  ASSUME NEW S, S \subseteq Nat, S # {}
  PROVE  Min(S) \in S /\ \A y \in S : Min(S) <= y
<1>1. PICK x \in S : \A y \in S : ~(<<y, x>> \in OpToRel(<, Nat))
  BY NatLessThanWellFounded, WFMin
<1>2. \A y \in S : ~(y < x)
  BY <1>1 DEF OpToRel
<1>3. \A y \in S : x <= y
  BY <1>2
<1> QED
  BY <1>3 DEF Min

(* A call takes at least one of the rows to be done and at most all.       *)
LEMMA CallRows ==
  ASSUME NEW t \in Thread, Typed, RowsInv(t), cpc[t] = "call"
  PROVE  RowsOfCall(t) \in 1 .. Len(todo[t])
<1>1. todo[t] \in Seq(Nat) /\ todo[t] # <<>> /\ batch_size[t] \in Nat
  BY DEF Typed, RowsInv
<1>2. Len(todo[t]) \in Nat /\ Len(todo[t]) >= 1
  BY <1>1
<1>3. CASE kind[t] = "batch"
  <2>1. batch_size[t] > 1
    BY <1>3 DEF RowsInv
  <2>2. /\ Min({batch_size[t], Len(todo[t])}) \in {batch_size[t], Len(todo[t])}
        /\ \A y \in {batch_size[t], Len(todo[t])} : Min({batch_size[t], Len(todo[t])}) <= y
    BY <1>1, <1>2, Least
  <2>3. PICK m : m = Min({batch_size[t], Len(todo[t])})
    OBVIOUS
  <2>4. m \in {batch_size[t], Len(todo[t])} /\ \A y \in {batch_size[t], Len(todo[t])} : m <= y
    BY <2>2, <2>3
  <2>5. m \in 1 .. Len(todo[t])
    BY <1>1, <1>2, <2>1, <2>4
  <2> QED
    BY <1>3, <2>3, <2>5 DEF RowsOfCall
<1>4. CASE kind[t] # "batch"
  BY <1>2, <1>4 DEF RowsOfCall
<1> QED
  BY <1>3, <1>4

(* What a step of t leaves alone of another thread.                        *)
Same(u) ==
  /\ state'[u] = state[u] /\ requestExecModify'[u] = requestExecModify[u]
  /\ requestEndModify'[u] = requestEndModify[u] /\ is_joined'[u] = is_joined[u]
  /\ batch_size'[u] = batch_size[u] /\ slots'[u] = slots[u] /\ status'[u] = status[u]
  /\ cpc'[u] = cpc[u] /\ kind'[u] = kind[u] /\ todo'[u] = todo[u] /\ fdw'[u] = fdw[u]
  /\ sent'[u] = sent[u] /\ applied'[u] = applied[u]

(* A thread that a step leaves alone, as it does the main thread, keeps    *)
(* its part of the invariant.                                              *)
LEMMA SameThread ==
  ASSUME NEW u \in Thread, Same(u), ThreadInv(u), UNCHANGED <<mainVars, outcome, mode>>
  PROVE  ThreadInv(u)'
<1> USE DEF Same, mainVars, ThreadInv
<1>1. StartInv(u)'
  BY DEF StartInv, Setting, Untold, AtExit, Upto
<1>2. CallInv(u)'
  BY DEF CallInv, InError
<1>3. CalmEnd(u)'
  BY DEF CalmEnd, Calm, AtExit, Joining, InError
<1>4. BegunInv(u)'
  BY DEF BegunInv, Waited, Setting, AtExit, Within, InError
<1>5. RowsInv(u)'
  BY DEF RowsInv, Upto, AtExit, Out
<1> QED
  BY <1>1, <1>2, <1>3, <1>4, <1>5

(* A step of a child thread keeps the types.                               *)
LEMMA ChildTyped ==
  ASSUME NEW t \in Thread, Typed, RowsInv(t), Child(t)
  PROVE  Typed'
<1>1. CASE ThreadStart(t)
  <2>1. UNCHANGED <<requestExecModify, requestEndModify, is_joined, batch_size, slots,
                    status, kind, todo, fdw, force_end, mainVars, histVars, mode>>
    BY <1>1 DEF ThreadStart
  <2>2. PICK p \in Place : cpc' = [cpc EXCEPT ![t] = p]
    BY <1>1 DEF ThreadStart, Goto, Place
  <2>3. state' \in [Thread -> ThreadState]
    <3>1. \/ state' = [state EXCEPT ![t] = "BEGIN"]
          \/ state' = [state EXCEPT ![t] = "ERROR"]
      BY <1>1 DEF ThreadStart, SetState
    <3> QED
      BY <3>1 DEF Typed, ThreadState, BelowFinish, BelowExec, ErrorStates, BelowPreExec
  <2> QED
    BY <2>1, <2>2, <2>3 DEF Typed, infoVars, mainVars, sharedVars, histVars
<1>2. CASE BeginCall(t)
  <2>1. UNCHANGED <<requestExecModify, requestEndModify, is_joined, batch_size, slots, kind,
                    todo, sharedVars, mainVars, histVars, mode>>
    BY <1>2 DEF BeginCall
  <2>2. PICK p \in Place : cpc' = [cpc EXCEPT ![t] = p]
    BY <1>2 DEF BeginCall, Goto, Place
  <2>3. state' \in [Thread -> ThreadState]
    <3>1. \/ state' = state
          \/ state' = [state EXCEPT ![t] = "ERROR_INIT"]
      BY <1>2 DEF BeginCall, SetState
    <3> QED
      BY <3>1 DEF Typed, ThreadState, BelowFinish, BelowExec, ErrorStates, BelowPreExec
  <2>4. status' \in [Thread -> {"Alive", "NotTarget", "Dead"}]
    <3>1. \/ status' = status
          \/ status' = [status EXCEPT ![t] = "NotTarget"]
          \/ status' = [status EXCEPT ![t] = "Dead"]
      BY <1>2 DEF BeginCall
    <3> QED
      BY <3>1 DEF Typed
  <2>5. fdw' \in [Thread -> Fdw]
    <3>1. \/ fdw' = fdw
          \/ fdw' = [fdw EXCEPT ![t].begun = TRUE]
      BY <1>2 DEF BeginCall
    <3>2. CASE fdw' = [fdw EXCEPT ![t].begun = TRUE]
      BY <3>2, ZenonT(30) DEF Typed, Fdw
    <3> QED
      BY <3>1, <3>2 DEF Typed
  <2> QED
    BY <2>1, <2>2, <2>3, <2>4, <2>5 DEF Typed, infoVars, mainVars, sharedVars, histVars
<1>3. CASE AfterBegin(t)
  <2>1. UNCHANGED <<requestExecModify, is_joined, slots, status, kind, todo, fdw,
                    sharedVars, mainVars, histVars, mode>>
    BY <1>3 DEF AfterBegin
  <2>2. PICK p \in Place : cpc' = [cpc EXCEPT ![t] = p]
    BY <1>3 DEF AfterBegin, Goto, Place
  <2>3. state' \in [Thread -> ThreadState]
    <3>1. \/ state' = state
          \/ state' = [state EXCEPT ![t] = "FINISH"]
      BY <1>3 DEF AfterBegin, SetState
    <3> QED
      BY <3>1 DEF Typed, ThreadState, BelowFinish, BelowExec, ErrorStates, BelowPreExec
  <2>4. requestEndModify' \in [Thread -> BOOLEAN]
    <3>1. \/ requestEndModify' = requestEndModify
          \/ requestEndModify' = [requestEndModify EXCEPT ![t] = TRUE]
      BY <1>3 DEF AfterBegin
    <3> QED
      BY <3>1 DEF Typed
  <2>5. batch_size' \in [Thread -> Nat]
    <3>1. \/ batch_size' = batch_size
          \/ batch_size' = [batch_size EXCEPT ![t] = mode.child[t]]
      BY <1>3 DEF AfterBegin
    <3>2. mode.child[t] \in Nat
      BY DEF Typed, Mode
    <3> QED
      BY <3>1, <3>2 DEF Typed
  <2> QED
    BY <2>1, <2>2, <2>3, <2>4, <2>5 DEF Typed, infoVars, mainVars, sharedVars, histVars
<1>4. CASE SizedCheck(t)
  <2>1. UNCHANGED <<infoVars, kind, todo, fdw, sharedVars, mainVars, histVars, mode>>
    BY <1>4 DEF SizedCheck
  <2>2. PICK p \in Place : cpc' = [cpc EXCEPT ![t] = p]
    BY <1>4 DEF SizedCheck, Goto, Place
  <2> QED
    BY <2>1, <2>2 DEF Typed, infoVars, mainVars, sharedVars, histVars
<1>5. CASE SizedTell(t)
  <2>1. UNCHANGED <<requestExecModify, requestEndModify, is_joined, batch_size, slots,
                    status, kind, todo, fdw, sharedVars, mainVars, histVars, mode>>
    BY <1>5 DEF SizedTell
  <2>2. PICK p \in Place : cpc' = [cpc EXCEPT ![t] = p]
    BY <1>5 DEF SizedTell, Goto, Place
  <2>3. state' \in [Thread -> ThreadState]
    <3>1. state' = [state EXCEPT ![t] = "PRE_EXEC"]
      BY <1>5 DEF SizedTell, SetState
    <3> QED
      BY <3>1 DEF Typed, ThreadState, BelowFinish, BelowExec, ErrorStates, BelowPreExec
  <2> QED
    BY <2>1, <2>2, <2>3 DEF Typed, infoVars, mainVars, sharedVars, histVars
<1>6. CASE AwaitInsert(t)
  <2>1. UNCHANGED <<infoVars, todo, fdw, sharedVars, mainVars, histVars, mode>>
    BY <1>6 DEF AwaitInsert
  <2>2. PICK p \in Place : cpc' = [cpc EXCEPT ![t] = p]
    BY <1>6 DEF AwaitInsert, Goto, Place
  <2>3. kind' \in [Thread -> {"one", "rows", "batch"}]
    <3>1. \/ kind' = kind
          \/ kind' = [kind EXCEPT ![t] = InsertKind(t)]
      BY <1>6 DEF AwaitInsert
    <3> QED
      BY <3>1 DEF Typed, InsertKind
  <2> QED
    BY <2>1, <2>2, <2>3 DEF Typed, infoVars, mainVars, sharedVars, histVars
<1>7. CASE EnterLoop(t)
  <2>1. UNCHANGED <<requestExecModify, requestEndModify, is_joined, batch_size, slots,
                    status, kind, todo, fdw, sharedVars, mainVars, histVars, mode>>
    BY <1>7 DEF EnterLoop
  <2>2. PICK p \in Place : cpc' = [cpc EXCEPT ![t] = p]
    BY <1>7 DEF EnterLoop, Goto, Place
  <2>3. state' \in [Thread -> ThreadState]
    <3>1. state' = [state EXCEPT ![t] = "EXEC"]
      BY <1>7 DEF EnterLoop, SetState
    <3> QED
      BY <3>1 DEF Typed, ThreadState, BelowFinish, BelowExec, ErrorStates, BelowPreExec
  <2> QED
    BY <2>1, <2>2, <2>3 DEF Typed, infoVars, mainVars, sharedVars, histVars
<1>8. CASE LeaveLoop(t)
  <2>1. UNCHANGED <<state, requestEndModify, is_joined, batch_size, slots, status, kind,
                    todo, fdw, sharedVars, mainVars, histVars, mode>>
    BY <1>8 DEF LeaveLoop
  <2>2. PICK p \in Place : cpc' = [cpc EXCEPT ![t] = p]
    BY <1>8 DEF LeaveLoop, Goto, Place
  <2>3. requestExecModify' \in [Thread -> BOOLEAN]
    <3>1. \/ requestExecModify' = requestExecModify
          \/ requestExecModify' = [requestExecModify EXCEPT ![t] = FALSE]
      BY <1>8 DEF LeaveLoop
    <3> QED
      BY <3>1 DEF Typed
  <2> QED
    BY <2>1, <2>2, <2>3 DEF Typed, infoVars, mainVars, sharedVars, histVars
<1>9. CASE TakeRequest(t)
  <2>1. UNCHANGED <<infoVars, kind, fdw, sharedVars, mainVars, histVars, mode>>
    BY <1>9 DEF TakeRequest
  <2>2. PICK p \in Place : cpc' = [cpc EXCEPT ![t] = p]
    BY <1>9 DEF TakeRequest, Goto, Place
  <2>3. todo' \in [Thread -> Seq(Nat)]
    <3>1. todo' = [todo EXCEPT ![t] = slots[t]]
      BY <1>9 DEF TakeRequest
    <3> QED
      BY <3>1 DEF Typed
  <2> QED
    BY <2>1, <2>2, <2>3 DEF Typed, infoVars, mainVars, sharedVars, histVars
<1>10. CASE ExecCall(t)
  <2>1. UNCHANGED <<infoVars, kind, fdw, sharedVars, mainVars, outcome, nsent, sent, mode>>
    BY <1>10 DEF ExecCall
  <2>2. PICK p \in Place : cpc' = [cpc EXCEPT ![t] = p]
    BY <1>10 DEF ExecCall, Goto, Place
  <2>3. RowsOfCall(t) \in 1 .. Len(todo[t])
    BY <1>10, CallRows DEF ExecCall, Goto
  <2>4. todo' \in [Thread -> Seq(Nat)] /\ applied' \in [Thread -> Seq(Nat)]
    <3>1. /\ applied' = [applied EXCEPT ![t] = @ \o SubSeq(todo[t], 1, RowsOfCall(t))]
          /\ todo' = [todo EXCEPT ![t] = SubSeq(@, RowsOfCall(t) + 1, Len(@))]
      BY <1>10 DEF ExecCall
    <3>2. /\ applied[t] \o SubSeq(todo[t], 1, RowsOfCall(t)) \in Seq(Nat)
          /\ SubSeq(todo[t], RowsOfCall(t) + 1, Len(todo[t])) \in Seq(Nat)
      <4>1. applied[t] \in Seq(Nat) /\ todo[t] \in Seq(Nat)
        BY DEF Typed
      <4> QED
        BY <4>1, <2>3, CutRows
    <3> QED
      BY <3>1, <3>2 DEF Typed
  <2> QED
    BY <2>1, <2>2, <2>4 DEF Typed, infoVars, mainVars, sharedVars
<1>11. CASE ExecFail(t)
  <2>1. UNCHANGED <<requestExecModify, requestEndModify, is_joined, batch_size, slots,
                    status, kind, todo, sharedVars, mainVars, histVars, mode>>
    BY <1>11 DEF ExecFail
  <2>2. PICK p \in Place : cpc' = [cpc EXCEPT ![t] = p]
    BY <1>11 DEF ExecFail, Goto, Place
  <2>3. state' \in [Thread -> ThreadState]
    <3>1. state' = [state EXCEPT ![t] = "ERROR_INIT"]
      BY <1>11 DEF ExecFail, SetState
    <3> QED
      BY <3>1 DEF Typed, ThreadState, BelowFinish, BelowExec, ErrorStates, BelowPreExec
  <2>4. fdw' \in [Thread -> Fdw]
    <3>1. fdw' = [fdw EXCEPT ![t].failed = TRUE]
      BY <1>11 DEF ExecFail
    <3> QED
      BY <3>1, ZenonT(30) DEF Typed, Fdw
  <2> QED
    BY <2>1, <2>2, <2>3, <2>4 DEF Typed, infoVars, mainVars, sharedVars, histVars
<1>12. CASE ExecDone(t)
  <2>1. UNCHANGED <<state, requestEndModify, is_joined, batch_size, slots, status, kind,
                    todo, fdw, sharedVars, mainVars, histVars, mode>>
    BY <1>12 DEF ExecDone
  <2>2. PICK p \in Place : cpc' = [cpc EXCEPT ![t] = p]
    BY <1>12 DEF ExecDone, Goto, Place
  <2>3. requestExecModify' \in [Thread -> BOOLEAN]
    <3>1. requestExecModify' = [requestExecModify EXCEPT ![t] = FALSE]
      BY <1>12 DEF ExecDone
    <3> QED
      BY <3>1 DEF Typed
  <2> QED
    BY <2>1, <2>2, <2>3 DEF Typed, infoVars, mainVars, sharedVars, histVars
<1>13. CASE AfterLoop(t)
  <2>1. UNCHANGED <<state, requestExecModify, is_joined, batch_size, slots, status, kind,
                    todo, fdw, sharedVars, mainVars, histVars, mode>>
    BY <1>13 DEF AfterLoop
  <2>2. PICK p \in Place : cpc' = [cpc EXCEPT ![t] = p]
    BY <1>13 DEF AfterLoop, Goto, Place
  <2>3. requestEndModify' \in [Thread -> BOOLEAN]
    <3>1. \/ requestEndModify' = requestEndModify
          \/ requestEndModify' = [requestEndModify EXCEPT ![t] = TRUE]
      BY <1>13 DEF AfterLoop
    <3> QED
      BY <3>1 DEF Typed
  <2> QED
    BY <2>1, <2>2, <2>3 DEF Typed, infoVars, mainVars, sharedVars, histVars
<1>14. CASE PreEnd(t)
  <2>1. UNCHANGED <<requestExecModify, requestEndModify, is_joined, batch_size, slots,
                    status, kind, todo, fdw, sharedVars, mainVars, histVars, mode>>
    BY <1>14 DEF PreEnd
  <2>2. PICK p \in Place : cpc' = [cpc EXCEPT ![t] = p]
    BY <1>14 DEF PreEnd, Goto, Place
  <2>3. state' \in [Thread -> ThreadState]
    <3>1. state' = [state EXCEPT ![t] = "PRE_END"]
      BY <1>14 DEF PreEnd, SetState
    <3> QED
      BY <3>1 DEF Typed, ThreadState, BelowFinish, BelowExec, ErrorStates, BelowPreExec
  <2> QED
    BY <2>1, <2>2, <2>3 DEF Typed, infoVars, mainVars, sharedVars, histVars
<1>15. CASE EndWait(t)
  <2>1. UNCHANGED <<requestExecModify, requestEndModify, is_joined, batch_size, slots,
                    status, kind, todo, fdw, sharedVars, mainVars, histVars, mode>>
    BY <1>15 DEF EndWait
  <2>2. PICK p \in Place : cpc' = [cpc EXCEPT ![t] = p]
    BY <1>15 DEF EndWait, Goto, Place
  <2>3. state' \in [Thread -> ThreadState]
    <3>1. \/ state' = state
          \/ state' = [state EXCEPT ![t] = "END"]
      BY <1>15 DEF EndWait, SetState
    <3> QED
      BY <3>1 DEF Typed, ThreadState, BelowFinish, BelowExec, ErrorStates, BelowPreExec
  <2> QED
    BY <2>1, <2>2, <2>3 DEF Typed, infoVars, mainVars, sharedVars, histVars
<1>16. CASE EndCall(t)
  <2>1. UNCHANGED <<requestExecModify, is_joined, batch_size, slots, status, kind, todo,
                    sharedVars, mainVars, histVars, mode>>
    BY <1>16 DEF EndCall
  <2>2. PICK p \in Place : cpc' = [cpc EXCEPT ![t] = p]
    BY <1>16 DEF EndCall, Goto, Place
  <2>3. state' \in [Thread -> ThreadState]
    <3>1. \/ state' = state
          \/ state' = [state EXCEPT ![t] = "ERROR_INIT"]
      BY <1>16 DEF EndCall, SetState
    <3> QED
      BY <3>1 DEF Typed, ThreadState, BelowFinish, BelowExec, ErrorStates, BelowPreExec
  <2>4. requestEndModify' \in [Thread -> BOOLEAN]
    <3>1. \/ requestEndModify' = requestEndModify
          \/ requestEndModify' = [requestEndModify EXCEPT ![t] = FALSE]
      BY <1>16 DEF EndCall
    <3> QED
      BY <3>1 DEF Typed
  <2>5. fdw' \in [Thread -> Fdw]
    <3>1. \/ fdw' = [fdw EXCEPT ![t] = EndedCall(fdw[t])]
          \/ fdw' = [fdw EXCEPT ![t] = FailedEnd(fdw[t])]
      BY <1>16 DEF EndCall, EndedCall, FailedEnd
    <3>2. EndedCall(fdw[t]) \in Fdw /\ FailedEnd(fdw[t]) \in Fdw
      BY EndOfCall DEF Typed
    <3> QED
      BY <3>1, <3>2 DEF Typed
  <2> QED
    BY <2>1, <2>2, <2>3, <2>4, <2>5 DEF Typed, infoVars, mainVars, sharedVars, histVars
<1>17. CASE AfterEnd(t)
  <2>1. UNCHANGED <<requestExecModify, is_joined, batch_size, slots, status, kind, todo,
                    fdw, sharedVars, mainVars, histVars, mode>>
    BY <1>17 DEF AfterEnd
  <2>2. PICK p \in Place : cpc' = [cpc EXCEPT ![t] = p]
    BY <1>17 DEF AfterEnd, Goto, Place
  <2>3. state' \in [Thread -> ThreadState]
    <3>1. \/ state' = state
          \/ state' = [state EXCEPT ![t] = "FINISH"]
      BY <1>17 DEF AfterEnd, SetState
    <3> QED
      BY <3>1 DEF Typed, ThreadState, BelowFinish, BelowExec, ErrorStates, BelowPreExec
  <2>4. requestEndModify' \in [Thread -> BOOLEAN]
    <3>1. \/ requestEndModify' = requestEndModify
          \/ requestEndModify' = [requestEndModify EXCEPT ![t] = TRUE]
      BY <1>17 DEF AfterEnd
    <3> QED
      BY <3>1 DEF Typed
  <2> QED
    BY <2>1, <2>2, <2>3, <2>4 DEF Typed, infoVars, mainVars, sharedVars, histVars
<1>18. CASE ThreadExit(t)
  <2>1. UNCHANGED <<requestExecModify, is_joined, batch_size, slots, status, kind, todo,
                    mainVars, histVars, mode>>
    BY <1>18 DEF ThreadExit
  <2>2. PICK p \in Place : cpc' = [cpc EXCEPT ![t] = p]
    BY <1>18 DEF ThreadExit, Goto, Place
  <2>3. state' \in [Thread -> ThreadState]
    <3>1. \/ state' = state
          \/ state' = [state EXCEPT ![t] = "ERROR"]
      BY <1>18 DEF ThreadExit, SetState
    <3> QED
      BY <3>1 DEF Typed, ThreadState, BelowFinish, BelowExec, ErrorStates, BelowPreExec
  <2>4. requestEndModify' \in [Thread -> BOOLEAN]
    <3>1. \/ requestEndModify' = requestEndModify
          \/ requestEndModify' = [requestEndModify EXCEPT ![t] = FALSE]
      BY <1>18 DEF ThreadExit
    <3> QED
      BY <3>1 DEF Typed
  <2>5. fdw' \in [Thread -> Fdw]
    <3>1. \/ fdw' = fdw
          \/ fdw' = [fdw EXCEPT ![t] = EndedCall(fdw[t])]
      BY <1>18 DEF ThreadExit, EndedCall, FailedEnd
    <3>2. EndedCall(fdw[t]) \in Fdw /\ FailedEnd(fdw[t]) \in Fdw
      BY EndOfCall DEF Typed
    <3> QED
      BY <3>1, <3>2 DEF Typed
  <2>6. force_end' \in BOOLEAN
    BY <1>18 DEF ThreadExit, Typed
  <2> QED
    BY <2>1, <2>2, <2>3, <2>4, <2>5, <2>6 DEF Typed, infoVars, mainVars, sharedVars, histVars
<1> QED
  BY <1>1, <1>2, <1>3, <1>4, <1>5, <1>6, <1>7, <1>8, <1>9, <1>10, <1>11, <1>12, <1>13,
     <1>14, <1>15, <1>16, <1>17, <1>18 DEF Child

(* What a step of a child thread leaves alone.                             *)
LEMMA ChildFrame ==
  ASSUME NEW t \in Thread, Typed, Child(t)
  PROVE  /\ UNCHANGED <<mainVars, outcome, mode, is_joined>>
         /\ \A u \in Thread \ {t} : Same(u)
<1> USE DEF Typed, Same, Goto, SetState, infoVars, mainVars, sharedVars, histVars
<1>1. CASE ThreadStart(t)
  BY <1>1 DEF ThreadStart
<1>2. CASE BeginCall(t)
  BY <1>2 DEF BeginCall
<1>3. CASE AfterBegin(t)
  BY <1>3 DEF AfterBegin
<1>4. CASE SizedCheck(t)
  BY <1>4 DEF SizedCheck
<1>5. CASE SizedTell(t)
  BY <1>5 DEF SizedTell
<1>6. CASE AwaitInsert(t)
  BY <1>6 DEF AwaitInsert
<1>7. CASE EnterLoop(t)
  BY <1>7 DEF EnterLoop
<1>8. CASE LeaveLoop(t)
  BY <1>8 DEF LeaveLoop
<1>9. CASE TakeRequest(t)
  BY <1>9 DEF TakeRequest
<1>10. CASE ExecCall(t)
  BY <1>10 DEF ExecCall
<1>11. CASE ExecFail(t)
  BY <1>11 DEF ExecFail
<1>12. CASE ExecDone(t)
  BY <1>12 DEF ExecDone
<1>13. CASE AfterLoop(t)
  BY <1>13 DEF AfterLoop
<1>14. CASE PreEnd(t)
  BY <1>14 DEF PreEnd
<1>15. CASE EndWait(t)
  BY <1>15 DEF EndWait
<1>16. CASE EndCall(t)
  BY <1>16, SMTT(30) DEF EndCall
<1>17. CASE AfterEnd(t)
  BY <1>17 DEF AfterEnd
<1>18. CASE ThreadExit(t)
  BY <1>18 DEF ThreadExit
<1> QED
  BY <1>1, <1>2, <1>3, <1>4, <1>5, <1>6, <1>7, <1>8, <1>9, <1>10, <1>11, <1>12, <1>13,
     <1>14, <1>15, <1>16, <1>17, <1>18 DEF Child

(* A step of a child thread keeps that thread's part of the invariant.     *)
LEMMA ChildOwn ==
  ASSUME NEW t \in Thread, Typed, MainInv, ThreadInv(t), Child(t)
  PROVE  ThreadInv(t)'
<1> USE DEF Typed, Goto, SetState, infoVars, sharedVars, mainVars, histVars
<1> USE DEF ThreadInv, InError, ErrorStates, AtExit
<1>1. CASE ThreadStart(t)
  <2>1. StartInv(t)'
    BY <1>1 DEF ThreadStart, StartInv, Setting, Untold, Upto, InsertStates, MainInv, Calm,
                CallInv
  <2>2. CallInv(t)'
    BY <1>1 DEF ThreadStart, CallInv
  <2>3. CalmEnd(t)'
    BY <1>1 DEF ThreadStart, CalmEnd, Calm, Joining, CallInv, MainInv
  <2>4. BegunInv(t)'
    <3>1. /\ cpc[t] = "created" /\ mpc = "create"
          /\ UNCHANGED <<status, fdw, mpc, node_incr, mode>>
          /\ \/ cpc'[t] = "begin" /\ state'[t] = "BEGIN"
             \/ cpc'[t] = "exit" /\ state'[t] = "ERROR"
      BY <1>1 DEF ThreadStart, StartInv
    <3> QED
      BY <3>1 DEF BegunInv, Waited, Setting, Within
  <2>5. RowsInv(t)'
    BY <1>1 DEF ThreadStart, RowsInv, Upto, Out
  <2> QED
    BY <2>1, <2>2, <2>3, <2>4, <2>5
<1>2. CASE BeginCall(t)
  <2>1. /\ cpc[t] = "begin" /\ cpc'[t] = "begun"
        /\ UNCHANGED <<requestExecModify, requestEndModify, is_joined, batch_size, slots,
                       kind, todo, sharedVars, mainVars, histVars, mode>>
    BY <1>2 DEF BeginCall
  <2>2. /\ fdw'[t].failed = fdw[t].failed /\ fdw'[t].ends = fdw[t].ends
        /\ \/ fdw'[t].begun /\ state'[t] = state[t] /\ status'[t] = status[t]
           \/ /\ ~fdw'[t].begun /\ mode.op = "INSERT"
              /\ state'[t] = state[t] /\ status'[t] = "NotTarget"
           \/ ~fdw'[t].begun /\ state'[t] = "ERROR_INIT" /\ status'[t] = "Dead"
    BY <1>2 DEF BeginCall, CallInv, Fdw
  <2>3. StartInv(t)'
    BY <2>1, <2>2 DEF StartInv, Setting, Untold, Upto, InsertStates, CallInv, CalmEnd, Calm,
                      MainInv
  <2>4. CallInv(t)'
    BY <2>1, <2>2 DEF CallInv
  <2>5. CalmEnd(t)'
    BY <2>1, <2>2 DEF CalmEnd, Calm, Joining, CallInv, MainInv
  <2>6. BegunInv(t)'
    BY <2>1, <2>2 DEF BegunInv, StartInv, Waited, Setting, Within, BelowPreExec, MainInv,
                      Untold, CallInv, InsertStates
  <2>7. RowsInv(t)'
    BY <2>1, <2>2 DEF RowsInv, Upto, Out
  <2> QED
    BY <2>3, <2>4, <2>5, <2>6, <2>7
<1>3. CASE AfterBegin(t)
  <2>1. /\ cpc[t] = "begun"
        /\ UNCHANGED <<requestExecModify, is_joined, slots, status, kind, todo, fdw, sharedVars,
                       mainVars, histVars, mode>>
    BY <1>3 DEF AfterBegin
  <2>2. \/ /\ InError(t) /\ cpc'[t] = "exit" /\ state'[t] = state[t]
           /\ batch_size'[t] = batch_size[t]
        \/ /\ status[t] = "NotTarget" /\ cpc'[t] = "exit" /\ state'[t] = "FINISH"
           /\ batch_size'[t] = batch_size[t] /\ requestEndModify'[t] = requestEndModify[t]
        \/ /\ ~InError(t) /\ status[t] # "NotTarget" /\ state'[t] = state[t]
           /\ requestEndModify'[t] = requestEndModify[t]
           /\ \/ mode.op = "INSERT" /\ cpc'[t] = "sized"
              \/ mode.op # "INSERT" /\ cpc'[t] = "enter"
    BY <1>3 DEF AfterBegin
  <2>3. StartInv(t)'
    BY <2>1, <2>2 DEF StartInv, Setting, Untold, Upto, InsertStates, CallInv, CalmEnd, Calm,
                      MainInv
  <2>4. CallInv(t)'
    BY <2>1, <2>2 DEF CallInv
  <2>5. CalmEnd(t)'
    BY <2>1, <2>2 DEF CalmEnd, Calm, Joining, CallInv, MainInv
  <2>6. BegunInv(t)'
    BY <2>1, <2>2 DEF BegunInv, StartInv, Waited, Setting, Within, BelowPreExec, MainInv,
                      Untold, CallInv, InsertStates
  <2>7. RowsInv(t)'
    BY <2>1, <2>2 DEF RowsInv, Upto, Out
  <2> QED
    BY <2>3, <2>4, <2>5, <2>6, <2>7
<1>4. CASE SizedCheck(t)
  <2>1. StartInv(t)'
    BY <1>4, SMTT(30) DEF SizedCheck, StartInv, Setting, Untold, Upto, InsertStates, MainInv, Calm
  <2>2. CallInv(t)'
    BY <1>4 DEF SizedCheck, CallInv
  <2>3. CalmEnd(t)'
    BY <1>4, SMTT(30) DEF SizedCheck, CalmEnd, Calm, Joining, CallInv, MainInv
  <2>4. BegunInv(t)'
    BY <1>4 DEF SizedCheck, BegunInv, StartInv, Waited, Setting, Within, BelowPreExec, MainInv,
                Untold, CallInv, InsertStates
  <2>5. RowsInv(t)'
    BY <1>4 DEF SizedCheck, RowsInv, Upto, Out
  <2> QED
    BY <2>1, <2>2, <2>3, <2>4, <2>5
<1>5. CASE SizedTell(t)
  <2>1. StartInv(t)'
    BY <1>5 DEF SizedTell, StartInv, Setting, Untold, Upto, InsertStates, MainInv, Calm
  <2>2. CallInv(t)'
    BY <1>5 DEF SizedTell, CallInv
  <2>3. CalmEnd(t)'
    BY <1>5 DEF SizedTell, CalmEnd, Calm, Joining, CallInv, MainInv
  <2>4. BegunInv(t)'
    BY <1>5 DEF SizedTell, BegunInv, StartInv, Waited, Setting, Within, BelowPreExec, MainInv,
                Untold, CallInv, InsertStates
  <2>5. RowsInv(t)'
    BY <1>5 DEF SizedTell, RowsInv, Upto, Out
  <2> QED
    BY <2>1, <2>2, <2>3, <2>4, <2>5
<1>6. CASE AwaitInsert(t)
  <2>1. StartInv(t)'
    BY <1>6 DEF AwaitInsert, InsertKind, StartInv, Setting, Untold, Upto, InsertStates, MainInv,
                Calm
  <2>2. CallInv(t)'
    BY <1>6 DEF AwaitInsert, InsertKind, CallInv
  <2>3. CalmEnd(t)'
    BY <1>6, SMTT(30) DEF AwaitInsert, InsertKind, CalmEnd, Calm, Joining, CallInv, MainInv
  <2>4. BegunInv(t)'
    BY <1>6 DEF AwaitInsert, InsertKind, BegunInv, StartInv, Waited, Setting, Within,
                BelowPreExec, MainInv, Untold, CallInv, InsertStates
  <2>5. RowsInv(t)'
    BY <1>6, ZenonT(30) DEF AwaitInsert, InsertKind, RowsInv, Upto, Out
  <2> QED
    BY <2>1, <2>2, <2>3, <2>4, <2>5
<1>7. CASE EnterLoop(t)
  <2>1. StartInv(t)'
    BY <1>7 DEF EnterLoop, StartInv, Setting, Untold, Upto, InsertStates, MainInv, Calm
  <2>2. CallInv(t)'
    BY <1>7 DEF EnterLoop, CallInv
  <2>3. CalmEnd(t)'
    BY <1>7 DEF EnterLoop, CalmEnd, Calm, Joining, CallInv, MainInv
  <2>4. BegunInv(t)'
    BY <1>7 DEF EnterLoop, BegunInv, StartInv, Waited, Setting, Within, BelowPreExec, MainInv,
                Untold, CallInv, InsertStates
  <2>5. RowsInv(t)'
    BY <1>7 DEF EnterLoop, RowsInv, Upto, Out
  <2> QED
    BY <2>1, <2>2, <2>3, <2>4, <2>5
<1>8. CASE LeaveLoop(t)
  <2>1. StartInv(t)'
    BY <1>8 DEF LeaveLoop, StartInv, Setting, Untold, Upto, InsertStates, MainInv, Calm
  <2>2. CallInv(t)'
    BY <1>8 DEF LeaveLoop, CallInv
  <2>3. CalmEnd(t)'
    BY <1>8 DEF LeaveLoop, CalmEnd, Calm, Joining, CallInv, MainInv
  <2>4. BegunInv(t)'
    BY <1>8 DEF LeaveLoop, BegunInv, StartInv, Waited, Setting, Within, BelowPreExec, MainInv,
                Untold, CallInv, InsertStates
  <2>5. RowsInv(t)'
    BY <1>8 DEF LeaveLoop, RowsInv, Upto, Out
  <2> QED
    BY <2>1, <2>2, <2>3, <2>4, <2>5
<1>9. CASE TakeRequest(t)
  <2>1. StartInv(t)'
    BY <1>9 DEF TakeRequest, StartInv, Setting, Untold, Upto, InsertStates, MainInv, Calm
  <2>2. CallInv(t)'
    BY <1>9 DEF TakeRequest, CallInv
  <2>3. CalmEnd(t)'
    BY <1>9 DEF TakeRequest, CalmEnd, Calm, Joining, CallInv, MainInv
  <2>4. BegunInv(t)'
    BY <1>9 DEF TakeRequest, BegunInv, StartInv, Waited, Setting, Within, BelowPreExec, MainInv,
                Untold, CallInv, InsertStates
  <2>5. RowsInv(t)'
    BY <1>9 DEF TakeRequest, RowsInv, Upto, Out
  <2> QED
    BY <2>1, <2>2, <2>3, <2>4, <2>5
<1>10. CASE ExecCall(t)
  <2>1. StartInv(t)'
    BY <1>10 DEF ExecCall, StartInv, Setting, Untold, Upto, InsertStates, MainInv, Calm
  <2>2. CallInv(t)'
    BY <1>10 DEF ExecCall, CallInv
  <2>3. CalmEnd(t)'
    BY <1>10 DEF ExecCall, CalmEnd, Calm, Joining, CallInv, MainInv
  <2>4. BegunInv(t)'
    BY <1>10 DEF ExecCall, BegunInv, StartInv, Waited, Setting, Within, BelowPreExec, MainInv,
                 Untold, CallInv, InsertStates
  <2>5. RowsInv(t)'
    <3>1. /\ applied'[t] = applied[t] \o SubSeq(todo[t], 1, RowsOfCall(t))
          /\ todo'[t] = SubSeq(todo[t], RowsOfCall(t) + 1, Len(todo[t]))
          /\ cpc[t] = "call"
          /\ cpc'[t] = IF RowsOfCall(t) = Len(todo[t]) THEN "done" ELSE "call"
          /\ UNCHANGED <<infoVars, kind, mpc, node_incr, cur, sent, mode>>
      BY <1>10 DEF ExecCall
    <3>2. /\ applied'[t] \in Seq(Nat) /\ todo'[t] \in Seq(Nat)
          /\ applied'[t] \o todo'[t] = applied[t] \o todo[t]
          /\ RowsOfCall(t) # Len(todo[t]) => todo'[t] # <<>>
          /\ RowsOfCall(t) = Len(todo[t]) => applied'[t] = applied[t] \o todo[t]
      <4>1. applied[t] \in Seq(Nat) /\ todo[t] \in Seq(Nat)
        OBVIOUS
      <4>2. RowsOfCall(t) \in 1 .. Len(todo[t])
        BY <3>1, CallRows
      <4> HIDE DEF Typed
      <4>3. PICK a \in Seq(Nat), q \in Seq(Nat) : a = applied[t] /\ q = todo[t]
        BY <4>1
      <4>4. PICK n \in 1 .. Len(q) : n = RowsOfCall(t)
        BY <4>2, <4>3
      <4>5. applied'[t] = a \o SubSeq(q, 1, n) /\ todo'[t] = SubSeq(q, n + 1, Len(q))
        BY <3>1, <4>3, <4>4
      <4>6. /\ a \o SubSeq(q, 1, n) \in Seq(Nat) /\ SubSeq(q, n + 1, Len(q)) \in Seq(Nat)
            /\ (a \o SubSeq(q, 1, n)) \o SubSeq(q, n + 1, Len(q)) = a \o q
            /\ n # Len(q) => SubSeq(q, n + 1, Len(q)) # <<>>
            /\ n = Len(q) => a \o SubSeq(q, 1, n) = a \o q
        BY CutRows
      <4> QED
        BY <4>3, <4>4, <4>5, <4>6
    <3>3. sent[t] = applied'[t] \o todo'[t]
      BY <3>1, <3>2 DEF RowsInv
    <3>4. IsPrefix(applied'[t], sent[t])
      BY <3>2, <3>3, PrefixConcat
    <3> QED
      BY <3>1, <3>2, <3>3, <3>4 DEF RowsInv, Upto, Out
  <2> QED
    BY <2>1, <2>2, <2>3, <2>4, <2>5
<1>11. CASE ExecFail(t)
  <2>1. StartInv(t)'
    BY <1>11 DEF ExecFail, StartInv, Setting, Untold, Upto, InsertStates, MainInv, Calm
  <2>2. CallInv(t)'
    BY <1>11 DEF ExecFail, CallInv
  <2>3. CalmEnd(t)'
    BY <1>11 DEF ExecFail, CalmEnd, Calm, Joining, CallInv, MainInv
  <2>4. BegunInv(t)'
    BY <1>11 DEF ExecFail, BegunInv, StartInv, Waited, Setting, Within, BelowPreExec, MainInv,
                 Untold, CallInv, InsertStates
  <2>5. RowsInv(t)'
    BY <1>11 DEF ExecFail, RowsInv, Upto, Out
  <2> QED
    BY <2>1, <2>2, <2>3, <2>4, <2>5
<1>12. CASE ExecDone(t)
  <2>1. StartInv(t)'
    BY <1>12 DEF ExecDone, StartInv, Setting, Untold, Upto, InsertStates, MainInv, Calm
  <2>2. CallInv(t)'
    BY <1>12 DEF ExecDone, CallInv
  <2>3. CalmEnd(t)'
    BY <1>12 DEF ExecDone, CalmEnd, Calm, Joining, CallInv, MainInv
  <2>4. BegunInv(t)'
    BY <1>12 DEF ExecDone, BegunInv, StartInv, Waited, Setting, Within, BelowPreExec, MainInv,
                 Untold, CallInv, InsertStates
  <2>5. RowsInv(t)'
    BY <1>12 DEF ExecDone, RowsInv, Upto, Out
  <2> QED
    BY <2>1, <2>2, <2>3, <2>4, <2>5
<1>13. CASE AfterLoop(t)
  <2>1. /\ cpc[t] = "left"
        /\ UNCHANGED <<state, requestExecModify, is_joined, batch_size, slots, status, kind, todo,
                       fdw, sharedVars, mainVars, histVars, mode>>
    BY <1>13 DEF AfterLoop
  <2>2. \/ InError(t) /\ cpc'[t] = "exit" /\ requestEndModify'[t] = TRUE
        \/ /\ ~InError(t) /\ cpc'[t] = "pre_end"
           /\ requestEndModify'[t] = requestEndModify[t]
    BY <1>13 DEF AfterLoop
  <2>3. StartInv(t)'
    BY <2>1, <2>2 DEF StartInv, Setting, Untold, Upto, InsertStates, CallInv, CalmEnd, Calm,
                      MainInv
  <2>4. CallInv(t)'
    BY <2>1, <2>2 DEF CallInv
  <2>5. CalmEnd(t)'
    BY <2>1, <2>2 DEF CalmEnd, Calm, Joining, CallInv, MainInv
  <2>6. BegunInv(t)'
    BY <2>1, <2>2 DEF BegunInv, StartInv, Waited, Setting, Within, BelowPreExec, MainInv,
                      Untold, CallInv, InsertStates
  <2>7. RowsInv(t)'
    BY <2>1, <2>2 DEF RowsInv, Upto, Out
  <2> QED
    BY <2>3, <2>4, <2>5, <2>6, <2>7
<1>14. CASE PreEnd(t)
  <2>1. StartInv(t)'
    BY <1>14 DEF PreEnd, StartInv, Setting, Untold, Upto, InsertStates, MainInv, Calm
  <2>2. CallInv(t)'
    BY <1>14 DEF PreEnd, CallInv
  <2>3. CalmEnd(t)'
    BY <1>14 DEF PreEnd, CalmEnd, Calm, Joining, CallInv, MainInv
  <2>4. BegunInv(t)'
    BY <1>14 DEF PreEnd, BegunInv, StartInv, Waited, Setting, Within, BelowPreExec, MainInv,
                 Untold, CallInv, InsertStates
  <2>5. RowsInv(t)'
    BY <1>14 DEF PreEnd, RowsInv, Upto, Out
  <2> QED
    BY <2>1, <2>2, <2>3, <2>4, <2>5
<1>15. CASE EndWait(t)
  <2>1. /\ cpc[t] = "ending"
        /\ UNCHANGED <<requestExecModify, requestEndModify, is_joined, batch_size, slots, status,
                       kind, todo, fdw, sharedVars, mainVars, histVars, mode>>
    BY <1>15 DEF EndWait
  <2>2. \/ force_end /\ cpc'[t] = "ended" /\ state'[t] = state[t]
        \/ requestEndModify[t] /\ cpc'[t] = "endcall" /\ state'[t] = "END"
    BY <1>15 DEF EndWait
  <2>3. StartInv(t)'
    BY <2>1, <2>2 DEF StartInv, Setting, Untold, Upto, InsertStates, CallInv, CalmEnd, Calm,
                      MainInv
  <2>4. CallInv(t)'
    BY <2>1, <2>2 DEF CallInv
  <2>5. CalmEnd(t)'
    BY <2>1, <2>2 DEF CalmEnd, Calm, Joining, CallInv, MainInv
  <2>6. BegunInv(t)'
    BY <2>1, <2>2 DEF BegunInv, StartInv, Waited, Setting, Within, BelowPreExec, MainInv,
                      Untold, CallInv, InsertStates
  <2>7. RowsInv(t)'
    BY <2>1, <2>2 DEF RowsInv, Upto, Out
  <2> QED
    BY <2>3, <2>4, <2>5, <2>6, <2>7
<1>16. CASE EndCall(t)
  <2>1. /\ cpc[t] = "endcall" /\ cpc'[t] = "ended"
        /\ UNCHANGED <<requestExecModify, is_joined, batch_size, slots, status, kind, todo,
                       sharedVars, mainVars, histVars, mode>>
    BY <1>16 DEF EndCall
  <2>2. /\ fdw'[t].begun = fdw[t].begun /\ fdw'[t].ends = fdw[t].ends + 1
        /\ \/ /\ fdw'[t].failed = fdw[t].failed /\ ~requestEndModify'[t]
              /\ state'[t] = state[t]
           \/ /\ fdw'[t].failed /\ requestEndModify'[t] = requestEndModify[t]
              /\ state'[t] = "ERROR_INIT"
    <3>1. \/ /\ fdw' = [fdw EXCEPT ![t] = EndedCall(fdw[t])]
             /\ ~requestEndModify'[t] /\ state'[t] = state[t]
          \/ /\ fdw' = [fdw EXCEPT ![t] = FailedEnd(fdw[t])]
             /\ requestEndModify'[t] = requestEndModify[t] /\ state'[t] = "ERROR_INIT"
      BY <1>16 DEF EndCall, EndedCall, FailedEnd
    <3>2. CASE /\ fdw' = [fdw EXCEPT ![t] = EndedCall(fdw[t])]
               /\ ~requestEndModify'[t] /\ state'[t] = state[t]
      <4>1. fdw[t] \in Fdw /\ fdw'[t] = EndedCall(fdw[t])
        BY <3>2
      <4>2. /\ fdw'[t].begun = fdw[t].begun /\ fdw'[t].ends = fdw[t].ends + 1
            /\ fdw'[t].failed = fdw[t].failed
        <5> HIDE DEF Typed
        <5> QED
          BY <4>1, EndOfCall
      <4> QED
        BY <3>2, <4>2
    <3>3. CASE /\ fdw' = [fdw EXCEPT ![t] = FailedEnd(fdw[t])]
               /\ requestEndModify'[t] = requestEndModify[t] /\ state'[t] = "ERROR_INIT"
      <4>1. fdw[t] \in Fdw /\ fdw'[t] = FailedEnd(fdw[t])
        BY <3>3
      <4>2. /\ fdw'[t].begun = fdw[t].begun /\ fdw'[t].ends = fdw[t].ends + 1
            /\ fdw'[t].failed = TRUE
        <5> HIDE DEF Typed
        <5> QED
          BY <4>1, EndOfCall
      <4> QED
        BY <3>3, <4>2
    <3> QED
      BY <3>1, <3>2, <3>3
  <2>3. StartInv(t)'
    BY <2>1, <2>2 DEF StartInv, Setting, Untold, Upto, InsertStates, CallInv, CalmEnd, Calm,
                      MainInv
  <2>4. CallInv(t)'
    BY <2>1, <2>2 DEF CallInv
  <2>5. CalmEnd(t)'
    BY <2>1, <2>2 DEF CalmEnd, Calm, Joining, CallInv, MainInv
  <2>6. BegunInv(t)'
    BY <2>1, <2>2 DEF BegunInv, StartInv, Waited, Setting, Within, BelowPreExec, MainInv,
                      Untold, CallInv, InsertStates
  <2>7. RowsInv(t)'
    BY <2>1, <2>2 DEF RowsInv, Upto, Out
  <2> QED
    BY <2>3, <2>4, <2>5, <2>6, <2>7
<1>17. CASE AfterEnd(t)
  <2>1. StartInv(t)'
    BY <1>17 DEF AfterEnd, StartInv, Setting, Untold, Upto, InsertStates, MainInv, Calm
  <2>2. CallInv(t)'
    BY <1>17 DEF AfterEnd, CallInv
  <2>3. CalmEnd(t)'
    BY <1>17 DEF AfterEnd, CalmEnd, Calm, Joining, CallInv, MainInv
  <2>4. BegunInv(t)'
    BY <1>17 DEF AfterEnd, BegunInv, StartInv, Waited, Setting, Within, BelowPreExec, MainInv,
                 Untold, CallInv, InsertStates
  <2>5. RowsInv(t)'
    BY <1>17 DEF AfterEnd, RowsInv, Upto, Out
  <2> QED
    BY <2>1, <2>2, <2>3, <2>4, <2>5
<1>18. CASE ThreadExit(t)
  <2>1. /\ cpc[t] = "exit" /\ cpc'[t] = "gone"
        /\ UNCHANGED <<requestExecModify, is_joined, batch_size, slots, status, kind, todo,
                       mainVars, histVars, mode>>
    BY <1>18 DEF ThreadExit
  <2>2. /\ fdw'[t].begun = fdw[t].begun /\ fdw'[t].failed = fdw[t].failed
        /\ \/ /\ state[t] = "ERROR_INIT" /\ state'[t] = "ERROR" /\ fdw'[t].ends = fdw[t].ends
              /\ requestEndModify'[t] = requestEndModify[t]
           \/ /\ state[t] # "ERROR_INIT" /\ state'[t] = state[t]
              /\ requestEndModify[t] /\ fdw'[t].ends = fdw[t].ends + 1
           \/ /\ state[t] # "ERROR_INIT" /\ state'[t] = state[t]
              /\ ~requestEndModify[t] /\ fdw'[t].ends = fdw[t].ends
              /\ requestEndModify'[t] = requestEndModify[t]
    <3>1. \/ fdw' = fdw
          \/ fdw' = [fdw EXCEPT ![t] = EndedCall(fdw[t])]
      BY <1>18 DEF ThreadExit, EndedCall
    <3>2. fdw'[t].begun = fdw[t].begun /\ fdw'[t].failed = fdw[t].failed
      BY <3>1, EndOfCall
    <3>3. CASE state[t] = "ERROR_INIT"
      BY <1>18, <3>2, <3>3 DEF ThreadExit
    <3>4. CASE state[t] # "ERROR_INIT" /\ ~requestEndModify[t]
      BY <1>18, <3>2, <3>4 DEF ThreadExit
    <3>5. CASE state[t] # "ERROR_INIT" /\ requestEndModify[t]
      <4>1. fdw' = [fdw EXCEPT ![t] = EndedCall(fdw[t])] /\ state' = state
        BY <1>18, <3>5 DEF ThreadExit, EndedCall
      <4> QED
        BY <4>1, <3>2, <3>5, EndOfCall
    <3> QED
      BY <3>3, <3>4, <3>5
  <2>3. StartInv(t)'
    BY <2>1, <2>2 DEF StartInv, Setting, Untold, Upto, InsertStates, CallInv, CalmEnd, Calm,
                      MainInv
  <2>4. CallInv(t)'
    BY <2>1, <2>2 DEF CallInv
  <2>5. CalmEnd(t)'
    BY <2>1, <2>2, SMTT(30) DEF CalmEnd, Calm, Joining, CallInv, MainInv
  <2>6. BegunInv(t)'
    BY <2>1, <2>2 DEF BegunInv, StartInv, Waited, Setting, Within, BelowPreExec, MainInv,
                      Untold, CallInv, InsertStates
  <2>7. RowsInv(t)'
    BY <2>1, <2>2 DEF RowsInv, Upto, Out
  <2> QED
    BY <2>3, <2>4, <2>5, <2>6, <2>7
<1> QED
  BY <1>1, <1>2, <1>3, <1>4, <1>5, <1>6, <1>7, <1>8, <1>9, <1>10, <1>11, <1>12, <1>13, <1>14,
                          <1>15, <1>16, <1>17, <1>18 DEF Child

(* The indices and numbers the main thread counts up.                      *)
LEMMA MainRanges ==
  ASSUME Typed
  PROVE  /\ 0 \in 0 .. NThreads /\ NThreads \in Nat
         /\ node_incr < NThreads <=> node_incr # NThreads
         /\ node_incr # NThreads => node_incr + 1 \in 0 .. NThreads /\ node_incr \in Thread
         /\ mode.rows \in Nat /\ nsent + 1 \in Nat /\ <<nsent + 1>> \in Seq(Nat)
         /\ nsent < mode.rows => nsent + 1 \in 0 .. mode.rows
<1>1. mode.rows \in Nat
  BY DEF Typed, Mode
<1>2. node_incr \in 0 .. NThreads /\ nsent \in 0 .. mode.rows
  BY DEF Typed
<1> QED
  BY <1>1, <1>2 DEF Thread

(* The next child, in a round.                                             *)
LEMMA NextChild == \A t \in Thread : (t + 1) % NThreads \in Thread
<1>1. \A i \in Int, n \in Nat \ {0} : i % n \in 0 .. n - 1
  OBVIOUS
<1> QED
  BY <1>1 DEF Thread

(* Rows are handed to a child as rows.                                     *)
LEMMA SendTyped ==
  ASSUME Typed, NEW t \in Thread, NEW q \in Seq(Nat), Send(t, q)
  PROVE  /\ slots' \in [Thread -> Seq(Nat)] /\ sent' \in [Thread -> Seq(Nat)]
         /\ requestExecModify' \in [Thread -> BOOLEAN]
<1>1. sent[t] \o q \in Seq(Nat)
  <2>1. sent[t] \in Seq(Nat)
    BY DEF Typed
  <2> QED
    BY <2>1, ConcatProperties
<1> QED
  BY <1>1 DEF Typed, Send

(* A batch has at least one row: if one child has batches, the least       *)
(* common multiple and the number of such children are not zero.           *)
LEMMA BatchSizePositive ==
  ASSUME Typed
  PROVE  BatchSize \in Nat \ {0}
<1>1. BatchLimit \in Nat \ {0} /\ mode.option \in Nat
  BY DEF Typed, Mode
<1>2. ASSUME NEW n \in Nat \ {0}
      PROVE  Min({BatchLimit, n}) \in Nat \ {0} /\ Min({n, BatchLimit}) \in Nat \ {0}
  <2>1. {BatchLimit, n} \subseteq Nat /\ {BatchLimit, n} # {}
    BY <1>1
  <2>2. Min({BatchLimit, n}) \in {BatchLimit, n}
    BY <2>1, Least
  <2>3. {BatchLimit, n} = {n, BatchLimit}
    OBVIOUS
  <2> QED
    BY <1>1, <2>2, <2>3
<1>3. CASE ~IsBatch
  BY <1>3 DEF BatchSize
<1>4. CASE IsBatch /\ mode.option # 0
  <2>1. mode.option \in Nat \ {0}
    BY <1>1, <1>4
  <2> QED
    BY <1>2, <1>4, <2>1 DEF BatchSize
<1>5. CASE IsBatch /\ mode.option = 0
  <2> DEFINE multiples == {m \in 1 .. BatchLimit : \A t \in Thread : m % ChildSizes[t] = 0}
             bulk == {t \in Thread : ChildSizes[t] > 1}
  <2>1. Cardinality(bulk) \in Nat \ {0}
    <3>1. PICK t \in Thread : batch_size[t] > 1
      BY <1>5 DEF IsBatch
    <3>2. t \in bulk
      BY <3>1 DEF ChildSizes
    <3>3. IsFiniteSet(bulk) /\ Cardinality(bulk) \in Nat
      BY RunningBound
    <3> QED
      BY <3>2, <3>3, FS_EmptySet
  <2>2. CASE multiples = {}
    BY <1>1, <1>5, <2>2 DEF BatchSize, ComputedBatchSize
  <2>3. CASE multiples # {}
    <3>1. multiples \subseteq Nat \ {0}
      BY <1>1
    <3>2. Min(multiples) \in Nat \ {0}
      BY <2>3, <3>1, Least
    <3>3. Min(multiples) * Cardinality(bulk) \in Nat \ {0}
      <4>1. \A i, j \in Nat \ {0} : i * j \in Nat \ {0}
        OBVIOUS
      <4> HIDE DEF multiples, bulk
      <4> QED
        BY <2>1, <3>2, <4>1
    <3>4. BatchSize = Min({BatchLimit, Min(multiples) * Cardinality(bulk)})
      BY <1>5, <2>3 DEF BatchSize, ComputedBatchSize
    <3> HIDE DEF multiples, bulk
    <3> QED
      BY <1>2, <3>3, <3>4
  <2> QED
    BY <2>2, <2>3
<1> QED
  BY <1>3, <1>4, <1>5

(* A step of the main thread keeps the types.                              *)
LEMMA MainTyped ==
  ASSUME Typed, MainInv, Main \/ StatementFails
  PROVE  Typed' /\ UNCHANGED <<cpc, kind, todo, fdw, batch_size, applied, num_running, mode>>
<1>1. CASE ThreadsCreated
  <2>1. UNCHANGED <<infoVars, localVars, sharedVars, node_incr, cur, child_slots, tell,
                    ri_BatchSize, histVars, mode>>
    BY <1>1 DEF ThreadsCreated
  <2>2. mpc' \in MainPlace
    BY <1>1 DEF ThreadsCreated, Typed, MainGoto, StartNotify, Fail, MainPlace
  <2> QED
    BY <2>1, <2>2 DEF Typed, infoVars, localVars, sharedVars, histVars
<1>2. CASE GetBatchSize
  <2>1. UNCHANGED <<infoVars, localVars, sharedVars, cur, child_slots, histVars, mode>>
    BY <1>2 DEF GetBatchSize
  <2>2. mpc' \in MainPlace
    BY <1>2 DEF GetBatchSize, Typed, MainGoto, StartNotify, Fail, MainPlace
  <2>3. node_incr' \in 0 .. NThreads
    BY <1>2, MainRanges DEF GetBatchSize, Typed, StartNotify, MainInv
  <2>4. tell' \in ThreadState
    BY <1>2 DEF GetBatchSize, Typed, ThreadState, BelowFinish, BelowExec, InsertStates
  <2>5. ri_BatchSize' \in Nat \ {0}
    BY <1>2, BatchSizePositive DEF GetBatchSize
  <2> QED
    BY <2>1, <2>2, <2>3, <2>4, <2>5 DEF Typed, infoVars, localVars, sharedVars, histVars
<1>3. CASE SetStateCheck
  <2>1. UNCHANGED <<infoVars, localVars, sharedVars, cur, child_slots, tell, ri_BatchSize,
                    histVars, mode>>
    BY <1>3 DEF SetStateCheck
  <2>2. mpc' \in MainPlace
    BY <1>3 DEF SetStateCheck, Typed, MainGoto, StartNotify, Fail, MainPlace
  <2>3. node_incr' \in 0 .. NThreads
    BY <1>3, MainRanges DEF SetStateCheck, Typed, StartNotify, MainInv
  <2> QED
    BY <2>1, <2>2, <2>3 DEF Typed, infoVars, localVars, sharedVars, histVars
<1>4. CASE SetStateWrite
  <2>1. UNCHANGED <<requestExecModify, requestEndModify, is_joined, batch_size, slots,
                    status, localVars, sharedVars, cur, child_slots, tell, ri_BatchSize,
                    histVars, mode>>
    BY <1>4 DEF SetStateWrite
  <2>2. state' \in [Thread -> ThreadState]
    BY <1>4 DEF SetStateWrite, Typed, SetState, ThreadState, ErrorStates, BelowFinish,
                BelowExec, BelowPreExec, InsertStates, MainInv
  <2>3. mpc' \in MainPlace
    BY <1>4 DEF SetStateWrite, Typed, MainGoto, StartNotify, Fail, MainPlace
  <2>4. node_incr' \in 0 .. NThreads
    BY <1>4, MainRanges DEF SetStateWrite, Typed, MainGoto, MainInv
  <2> QED
    BY <2>1, <2>2, <2>3, <2>4 DEF Typed, localVars, sharedVars, histVars
<1>5. CASE SetStateDone
  <2>1. UNCHANGED <<infoVars, localVars, sharedVars, node_incr, cur, child_slots, tell,
                    ri_BatchSize, histVars, mode>>
    BY <1>5 DEF SetStateDone
  <2>2. mpc' \in MainPlace
    BY <1>5 DEF SetStateDone, Typed, MainGoto, StartNotify, Fail, MainPlace
  <2> QED
    BY <2>1, <2>2 DEF Typed, infoVars, localVars, sharedVars, histVars
<1>6. CASE ExecModify
  <2>1. UNCHANGED <<infoVars, localVars, sharedVars, cur, child_slots, tell, ri_BatchSize,
                    histVars, mode>>
    BY <1>6 DEF ExecModify
  <2>2. mpc' \in MainPlace
    BY <1>6 DEF ExecModify, Typed, MainGoto, StartNotify, Fail, MainPlace
  <2>3. node_incr' \in 0 .. NThreads
    BY <1>6, MainRanges DEF ExecModify, Typed, StartNotify, MainInv
  <2> QED
    BY <2>1, <2>2, <2>3 DEF Typed, infoVars, localVars, sharedVars, histVars
<1>7. CASE WaitReady
  <2>1. UNCHANGED <<infoVars, localVars, sharedVars, child_slots, tell, ri_BatchSize,
                    histVars, mode>>
    BY <1>7 DEF WaitReady
  <2>2. mpc' \in MainPlace
    BY <1>7 DEF WaitReady, Typed, MainGoto, StartNotify, Fail, MainPlace
  <2>3. node_incr' \in 0 .. NThreads
    BY <1>7, MainRanges DEF WaitReady, Typed, StartNotify, MainInv
  <2>4. cur' \in Thread \cup {-1}
    BY <1>7, MainRanges DEF WaitReady, Typed, StartNotify, MainInv
  <2> QED
    BY <2>1, <2>2, <2>3, <2>4 DEF Typed, infoVars, localVars, sharedVars, histVars
<1>8. CASE SendRow
  <2>1. UNCHANGED <<state, requestEndModify, is_joined, batch_size, status, localVars,
                    sharedVars, child_slots, tell, ri_BatchSize, outcome, applied, mode>>
    BY <1>8 DEF SendRow
  <2>2. requestExecModify' \in [Thread -> BOOLEAN]
    BY <1>8 DEF SendRow, Send, Targets, Typed, MainInv
  <2>3. slots' \in [Thread -> Seq(Nat)]
    BY <1>8, SendTyped, MainRanges DEF SendRow, Targets, Typed, MainInv
  <2>4. mpc' \in MainPlace
    BY <1>8 DEF SendRow, Send, Targets, Typed, MainGoto, StartNotify, Fail, MainPlace
  <2>5. node_incr' \in 0 .. NThreads
    BY <1>8, MainRanges DEF SendRow, Send, Targets, Typed, StartNotify, MainInv
  <2>6. cur' \in Thread \cup {-1}
    BY <1>8 DEF SendRow, Send, Targets, Typed, StartNotify, MainInv
  <2>7. nsent' \in 0 .. mode.rows
    BY <1>8, MainRanges DEF SendRow, Send, Targets, Typed, MainInv
  <2>8. sent' \in [Thread -> Seq(Nat)]
    BY <1>8, SendTyped, MainRanges DEF SendRow, Targets, Typed, MainInv
  <2> QED
    BY <2>1, <2>2, <2>3, <2>4, <2>5, <2>6, <2>7, <2>8 DEF Typed, localVars, sharedVars
<1>9. CASE SendNoCandidate
  <2>1. UNCHANGED <<infoVars, localVars, sharedVars, node_incr, cur, child_slots, tell,
                    ri_BatchSize, nsent, sent, applied, mode>>
    BY <1>9 DEF SendNoCandidate
  <2>2. mpc' \in MainPlace
    BY <1>9 DEF SendNoCandidate, Typed, MainGoto, StartNotify, Fail, MainPlace
  <2>3. outcome' \in {"open", "ok", "failed"}
    BY <1>9 DEF SendNoCandidate, Typed, Fail
  <2> QED
    BY <2>1, <2>2, <2>3 DEF Typed, infoVars, localVars, sharedVars
<1>10. CASE WaitRow
  <2>1. UNCHANGED <<infoVars, localVars, sharedVars, child_slots, tell, ri_BatchSize,
                    histVars, mode>>
    BY <1>10 DEF WaitRow
  <2>2. mpc' \in MainPlace
    BY <1>10 DEF WaitRow, Typed, MainGoto, StartNotify, Fail, MainPlace
  <2>3. node_incr' \in 0 .. NThreads
    BY <1>10, MainRanges DEF WaitRow, Typed, StartNotify, MainInv
  <2>4. cur' \in Thread \cup {-1}
    BY <1>10 DEF WaitRow, Typed, StartNotify, MainInv
  <2> QED
    BY <2>1, <2>2, <2>3, <2>4 DEF Typed, infoVars, localVars, sharedVars, histVars
<1>11. CASE SplitSlots
  <2>1. UNCHANGED <<infoVars, localVars, sharedVars, node_incr, tell, ri_BatchSize, histVars, mode>>
    BY <1>11 DEF SplitSlots
  <2>2. mpc' \in MainPlace /\ cur' \in Thread
    BY <1>11 DEF SplitSlots, MainGoto, MainPlace
  <2>3. child_slots' \in [Thread -> Seq(Nat)]
    BY <1>11 DEF SplitSlots
  <2> QED
    BY <2>1, <2>2, <2>3 DEF Typed, infoVars, localVars, sharedVars, histVars
<1>12. CASE \E t \in Thread : SplitRow(t)
  <2>1. UNCHANGED <<infoVars, localVars, sharedVars, tell, ri_BatchSize, outcome, sent, applied,
                    mode>>
    BY <1>12 DEF SplitRow
  <2>2. mpc' \in MainPlace /\ node_incr' = 0
    BY <1>12 DEF SplitRow, MainPlace
  <2>3. nsent' \in 0 .. mode.rows
    BY <1>12, MainRanges DEF SplitRow, MainInv
  <2>4. child_slots' \in [Thread -> Seq(Nat)]
    BY <1>12, MainRanges DEF SplitRow, Typed
  <2>5. cur' \in Thread
    BY <1>12, NextChild DEF SplitRow, MainInv
  <2> QED
    BY <2>1, <2>2, <2>3, <2>4, <2>5, MainRanges DEF Typed, infoVars, localVars, sharedVars
<1>13. CASE SplitFails
  <2>1. UNCHANGED <<infoVars, localVars, sharedVars, child_slots, tell, ri_BatchSize,
                    histVars, mode>>
    BY <1>13 DEF SplitFails
  <2>2. mpc' \in MainPlace
    BY <1>13 DEF SplitFails, Typed, MainGoto, StartNotify, Fail, MainPlace
  <2>3. node_incr' \in 0 .. NThreads
    BY <1>13, MainRanges DEF SplitFails, Typed, StartNotify, MainInv
  <2>4. cur' \in Thread \cup {-1}
    BY <1>13 DEF SplitFails, Typed, StartNotify, MainInv
  <2> QED
    BY <2>1, <2>2, <2>3, <2>4 DEF Typed, infoVars, localVars, sharedVars, histVars
<1>14. CASE SendBatch
  <2>1. UNCHANGED <<state, requestEndModify, is_joined, batch_size, status, localVars,
                    sharedVars, child_slots, tell, ri_BatchSize, outcome, nsent, applied,
                    mode>>
    BY <1>14 DEF SendBatch
  <2>2. requestExecModify' \in [Thread -> BOOLEAN]
    BY <1>14 DEF SendBatch, Send, Typed, MainInv
  <2>3. slots' \in [Thread -> Seq(Nat)]
    BY <1>14, SendTyped, MainRanges DEF SendBatch, Typed, MainInv
  <2>4. mpc' \in MainPlace
    BY <1>14 DEF SendBatch, Send, Typed, MainGoto, StartNotify, Fail, MainPlace
  <2>5. node_incr' \in 0 .. NThreads
    BY <1>14, MainRanges DEF SendBatch, Send, Typed, StartNotify, MainInv
  <2>6. cur' \in Thread \cup {-1}
    BY <1>14, MainRanges DEF SendBatch, Send, Typed, StartNotify, MainInv
  <2>7. sent' \in [Thread -> Seq(Nat)]
    BY <1>14, SendTyped, MainRanges DEF SendBatch, Typed, MainInv
  <2> QED
    BY <2>1, <2>2, <2>3, <2>4, <2>5, <2>6, <2>7 DEF Typed, localVars, sharedVars
<1>15. CASE WaitBatch
  <2>1. UNCHANGED <<infoVars, localVars, sharedVars, child_slots, tell, ri_BatchSize,
                    histVars, mode>>
    BY <1>15 DEF WaitBatch
  <2>2. mpc' \in MainPlace
    BY <1>15 DEF WaitBatch, Typed, MainGoto, StartNotify, Fail, MainPlace
  <2>3. node_incr' \in 0 .. NThreads
    BY <1>15, MainRanges DEF WaitBatch, Typed, StartNotify, MainInv
  <2>4. cur' \in Thread \cup {-1}
    BY <1>15 DEF WaitBatch, Typed, StartNotify, MainInv
  <2> QED
    BY <2>1, <2>2, <2>3, <2>4 DEF Typed, infoVars, localVars, sharedVars, histVars
<1>16. CASE SendUpdate
  <2>1. UNCHANGED <<infoVars, localVars, sharedVars, child_slots, tell, ri_BatchSize,
                    histVars, mode>>
    BY <1>16 DEF SendUpdate
  <2>2. mpc' \in MainPlace
    BY <1>16 DEF SendUpdate, Typed, MainGoto, StartNotify, Fail, MainPlace
  <2>3. node_incr' \in 0 .. NThreads
    BY <1>16, MainRanges DEF SendUpdate, Typed, StartNotify, MainInv
  <2>4. cur' \in Thread \cup {-1}
    BY <1>16 DEF SendUpdate, Typed, StartNotify, MainInv
  <2> QED
    BY <2>1, <2>2, <2>3, <2>4 DEF Typed, infoVars, localVars, sharedVars, histVars
<1>17. CASE WaitUpdate
  <2>1. UNCHANGED <<state, requestEndModify, is_joined, batch_size, status, localVars,
                    sharedVars, child_slots, tell, ri_BatchSize, outcome, applied, mode>>
    BY <1>17 DEF WaitUpdate
  <2>2. requestExecModify' \in [Thread -> BOOLEAN]
    BY <1>17 DEF WaitUpdate, Send, Typed, MainInv
  <2>3. slots' \in [Thread -> Seq(Nat)]
    BY <1>17, SendTyped, MainRanges DEF WaitUpdate, Typed, MainInv
  <2>4. mpc' \in MainPlace
    BY <1>17 DEF WaitUpdate, Send, Typed, MainGoto, StartNotify, Fail, MainPlace
  <2>5. node_incr' \in 0 .. NThreads
    BY <1>17, MainRanges DEF WaitUpdate, Send, Typed, StartNotify, MainInv
  <2>6. cur' \in Thread \cup {-1}
    BY <1>17 DEF WaitUpdate, Send, Typed, StartNotify, MainInv
  <2>7. nsent' \in 0 .. mode.rows
    BY <1>17, MainRanges DEF WaitUpdate, Send, Typed, MainInv
  <2>8. sent' \in [Thread -> Seq(Nat)]
    BY <1>17, SendTyped, MainRanges DEF WaitUpdate, Typed, MainInv
  <2> QED
    BY <2>1, <2>2, <2>3, <2>4, <2>5, <2>6, <2>7, <2>8 DEF Typed, localVars, sharedVars
<1>18. CASE NotifyState
  <2>1. UNCHANGED <<requestExecModify, requestEndModify, is_joined, batch_size, slots,
                    status, localVars, sharedVars, cur, child_slots, tell, ri_BatchSize,
                    histVars, mode>>
    BY <1>18 DEF NotifyState
  <2>2. state' \in [Thread -> ThreadState]
    BY <1>18 DEF NotifyState, Typed, SetState, ThreadState, ErrorStates, BelowFinish, BelowExec,
                 BelowPreExec, InsertStates, MainInv
  <2>3. mpc' \in MainPlace
    BY <1>18 DEF NotifyState, Typed, MainGoto, StartNotify, Fail, MainPlace
  <2>4. node_incr' \in 0 .. NThreads
    BY <1>18, MainRanges DEF NotifyState, Typed, StartNotify, MainInv
  <2> QED
    BY <2>1, <2>2, <2>3, <2>4 DEF Typed, localVars, sharedVars, histVars
<1>19. CASE NotifyEnd
  <2>1. UNCHANGED <<state, requestExecModify, is_joined, batch_size, slots, status,
                    localVars, sharedVars, cur, child_slots, tell, ri_BatchSize, histVars,
                    mode>>
    BY <1>19 DEF NotifyEnd
  <2>2. requestEndModify' \in [Thread -> BOOLEAN]
    BY <1>19 DEF NotifyEnd, Typed, MainInv
  <2>3. mpc' \in MainPlace
    BY <1>19 DEF NotifyEnd, Typed, MainGoto, StartNotify, Fail, MainPlace
  <2>4. node_incr' \in 0 .. NThreads
    BY <1>19, MainRanges DEF NotifyEnd, Typed, MainGoto, MainInv
  <2> QED
    BY <2>1, <2>2, <2>3, <2>4 DEF Typed, localVars, sharedVars, histVars
<1>20. CASE NotifyThrow
  <2>1. UNCHANGED <<infoVars, localVars, sharedVars, node_incr, cur, child_slots, tell,
                    ri_BatchSize, nsent, sent, applied, mode>>
    BY <1>20 DEF NotifyThrow
  <2>2. mpc' \in MainPlace
    BY <1>20 DEF NotifyThrow, Typed, MainGoto, StartNotify, Fail, MainPlace
  <2>3. outcome' \in {"open", "ok", "failed"}
    BY <1>20 DEF NotifyThrow, Typed, Fail
  <2> QED
    BY <2>1, <2>2, <2>3 DEF Typed, infoVars, localVars, sharedVars
<1>21. CASE NoMoreRows
  <2>1. UNCHANGED <<infoVars, localVars, sharedVars, node_incr, cur, child_slots, tell,
                    ri_BatchSize, histVars, mode>>
    BY <1>21 DEF NoMoreRows
  <2>2. mpc' \in MainPlace
    BY <1>21 DEF NoMoreRows, Typed, MainGoto, StartNotify, Fail, MainPlace
  <2> QED
    BY <2>1, <2>2 DEF Typed, infoVars, localVars, sharedVars, histVars
<1>22. CASE MarkDead
  <2>1. UNCHANGED <<state, requestExecModify, requestEndModify, is_joined, batch_size,
                    slots, localVars, sharedVars, cur, child_slots, tell, ri_BatchSize,
                    histVars, mode>>
    BY <1>22 DEF MarkDead
  <2>2. status' \in [Thread -> {"Alive", "NotTarget", "Dead"}]
    BY <1>22 DEF MarkDead, Typed
  <2>3. mpc' \in MainPlace
    BY <1>22 DEF MarkDead, Typed, MainGoto, StartNotify, Fail, MainPlace
  <2>4. node_incr' \in 0 .. NThreads
    BY <1>22, MainRanges DEF MarkDead, Typed, StartNotify, MainInv
  <2> QED
    BY <2>1, <2>2, <2>3, <2>4 DEF Typed, localVars, sharedVars, histVars
<1>23. CASE RequestEnd
  <2>1. UNCHANGED <<state, requestExecModify, is_joined, batch_size, slots, status,
                    localVars, sharedVars, cur, child_slots, tell, ri_BatchSize, histVars,
                    mode>>
    BY <1>23 DEF RequestEnd
  <2>2. requestEndModify' \in [Thread -> BOOLEAN]
    BY <1>23 DEF RequestEnd, Typed, MainInv
  <2>3. mpc' \in MainPlace
    BY <1>23 DEF RequestEnd, Typed, MainGoto, StartNotify, Fail, MainPlace
  <2>4. node_incr' \in 0 .. NThreads
    BY <1>23, MainRanges DEF RequestEnd, Typed, StartNotify, MainInv
  <2> QED
    BY <2>1, <2>2, <2>3, <2>4 DEF Typed, localVars, sharedVars, histVars
<1>24. CASE Join
  <2>1. UNCHANGED <<state, requestExecModify, requestEndModify, batch_size, slots, status,
                    localVars, sharedVars, cur, child_slots, tell, ri_BatchSize, histVars,
                    mode>>
    BY <1>24 DEF Join
  <2>2. is_joined' \in [Thread -> BOOLEAN]
    BY <1>24 DEF Join, Typed, MainInv
  <2>3. mpc' \in MainPlace
    BY <1>24 DEF Join, Typed, MainGoto, StartNotify, Fail, MainPlace
  <2>4. node_incr' \in 0 .. NThreads
    BY <1>24, MainRanges DEF Join, Typed, MainGoto, MainInv
  <2> QED
    BY <2>1, <2>2, <2>3, <2>4 DEF Typed, localVars, sharedVars, histVars
<1>25. CASE Finish
  <2>1. UNCHANGED <<infoVars, localVars, sharedVars, node_incr, cur, child_slots, tell,
                    ri_BatchSize, nsent, sent, applied, mode>>
    BY <1>25 DEF Finish
  <2>2. mpc' \in MainPlace
    BY <1>25 DEF Finish, Typed, MainGoto, StartNotify, Fail, MainPlace
  <2>3. outcome' \in {"open", "ok", "failed"}
    BY <1>25 DEF Finish, Typed, Fail
  <2> QED
    BY <2>1, <2>2, <2>3 DEF Typed, infoVars, localVars, sharedVars
<1>26. CASE StatementFails
  <2>1. UNCHANGED <<infoVars, localVars, num_running, node_incr, cur, child_slots, tell,
                    ri_BatchSize, nsent, sent, applied, mode>>
    BY <1>26 DEF StatementFails
  <2>2. force_end' \in BOOLEAN
    BY <1>26 DEF StatementFails, Typed
  <2>3. mpc' \in MainPlace
    BY <1>26 DEF StatementFails, Typed, MainGoto, StartNotify, Fail, MainPlace
  <2>4. outcome' \in {"open", "ok", "failed"}
    BY <1>26 DEF StatementFails, Typed, Fail
  <2> QED
    BY <2>1, <2>2, <2>3, <2>4 DEF Typed, infoVars, localVars
<1> QED
  BY <1>1, <1>2, <1>3, <1>4, <1>5, <1>6, <1>7, <1>8, <1>9, <1>10, <1>11, <1>12, <1>13,
     <1>14, <1>15, <1>16, <1>17, <1>18, <1>19, <1>20, <1>21, <1>22, <1>23, <1>24, <1>25,
     <1>26 DEF Main

(* A step of the main thread keeps what the invariant says of it.          *)
LEMMA MainOwn ==
  ASSUME IInv, Typed, Main \/ StatementFails
  PROVE  MainInv'
<1> USE DEF Typed, MainGoto, SetState, StartNotify, Fail, infoVars, localVars, mainVars,
            sharedVars, histVars
<1> USE DEF IInv, MainInv, Setting, Calm, Thread, InsertStates
<1>1. CASE ThreadsCreated
  BY <1>1 DEF ThreadsCreated
<1>2. CASE GetBatchSize
  BY <1>2 DEF GetBatchSize
<1>3. CASE SetStateCheck
  BY <1>3 DEF SetStateCheck
<1>4. CASE SetStateWrite
  BY <1>4 DEF SetStateWrite
<1>5. CASE SetStateDone
  BY <1>5 DEF SetStateDone
<1>6. CASE ExecModify
  BY <1>6 DEF ExecModify
<1>7. CASE WaitReady
  BY <1>7 DEF WaitReady
<1>8. CASE SendRow
  BY <1>8 DEF SendRow, Send, Targets
<1>9. CASE SendNoCandidate
  BY <1>9 DEF SendNoCandidate
<1>10. CASE WaitRow
  BY <1>10 DEF WaitRow
<1>11. CASE SplitSlots
  BY <1>11 DEF SplitSlots
<1>12. CASE \E t \in Thread : SplitRow(t)
  <2>1. /\ mpc = "split" /\ nsent' = nsent + 1 /\ mpc' \in {"bsend", "split"}
        /\ mpc' = "split" => nsent + 1 # mode.rows
        /\ UNCHANGED <<infoVars, localVars, sharedVars, tell, outcome, mode>>
    BY <1>12 DEF SplitRow, BatchOver
  <2>2. mpc' = "split" => nsent' < mode.rows
    <3>1. nsent \in Int /\ mode.rows \in Int /\ nsent < mode.rows
      <4>1. mode.rows \in Nat
        BY MainRanges
      <4>2. nsent \in 0 .. mode.rows /\ nsent < mode.rows
        BY <2>1
      <4> HIDE DEF Typed, IInv, MainInv
      <4> QED
        BY <4>1, <4>2
    <3>2. \A i, j \in Int : i < j /\ i + 1 # j => i + 1 < j
      OBVIOUS
    <3> QED
      BY <2>1, <3>1, <3>2
  <2>3. cur' \in Thread
    <3> HIDE DEF Thread
    <3> QED
      BY <1>12, <2>1, NextChild, SMTT(30) DEF SplitRow
  <2> QED
    BY <2>1, <2>2, <2>3
<1>13. CASE SplitFails
  BY <1>13 DEF SplitFails
<1>14. CASE SendBatch
  BY <1>14 DEF SendBatch, Send
<1>15. CASE WaitBatch
  BY <1>15 DEF WaitBatch, BatchDone
<1>16. CASE SendUpdate
  BY <1>16 DEF SendUpdate
<1>17. CASE WaitUpdate
  BY <1>17 DEF WaitUpdate, Send
<1>18. CASE NotifyState
  BY <1>18 DEF NotifyState
<1>19. CASE NotifyEnd
  BY <1>19 DEF NotifyEnd
<1>20. CASE NotifyThrow
  BY <1>20 DEF NotifyThrow
<1>21. CASE NoMoreRows
  BY <1>21 DEF NoMoreRows
<1>22. CASE MarkDead
  BY <1>22 DEF MarkDead
<1>23. CASE RequestEnd
  <2>1. /\ mpc = "end_request" /\ node_incr < NThreads
        /\ \/ /\ is_joined[node_incr] /\ mpc' = mpc /\ node_incr' = node_incr + 1
           \/ mpc' = "join" /\ node_incr' = node_incr
        /\ UNCHANGED <<state, is_joined, localVars, sharedVars, cur, tell, outcome, nsent, mode>>
    BY <1>23 DEF RequestEnd
  <2>2. \A t \in Thread : t < node_incr' => is_joined[t]
    <3> SUFFICES ASSUME NEW t \in Thread, t < node_incr' PROVE is_joined[t]
      OBVIOUS
    <3>1. t < node_incr \/ (t = node_incr /\ is_joined[node_incr])
      <4>1. t \in Int /\ node_incr \in Int
        OBVIOUS
      <4>2. \A i, j \in Int : i < j + 1 => i < j \/ i = j
        OBVIOUS
      <4> HIDE DEF IInv, MainInv, Typed, Thread
      <4>3. CASE node_incr' = node_incr
        BY <4>3
      <4>4. CASE node_incr' = node_incr + 1 /\ is_joined[node_incr]
        BY <4>1, <4>2, <4>4
      <4> QED
        BY <2>1, <4>3, <4>4
    <3> QED
      BY <2>1, <3>1
  <2> QED
    BY <2>1, <2>2
<1>24. CASE Join
  BY <1>24 DEF Join
<1>25. CASE Finish
  <2>1. /\ mpc = "end_request" /\ node_incr = NThreads
        /\ \/ outcome' = "failed" /\ mpc' = "end"
           \/ outcome = "open" /\ outcome' = "ok" /\ ~DeadError /\ mpc' = "closed"
           \/ outcome # "open" /\ outcome' = outcome /\ mpc' = "closed"
        /\ UNCHANGED <<infoVars, localVars, sharedVars, node_incr, cur, tell, nsent, mode>>
    BY <1>25 DEF Finish
  <2>2. \A t \in Thread : is_joined[t]
    BY <2>1
  <2>3. ~DeadError /\ ThrowErrorIfDead => \A t \in Thread : state[t] # "ERROR"
    BY DEF DeadError
  <2> QED
    BY <2>1, <2>2, <2>3
<1>26. CASE StatementFails
  BY <1>26 DEF StatementFails
<1> QED
  BY <1>1, <1>2, <1>3, <1>4, <1>5, <1>6, <1>7, <1>8, <1>9, <1>10, <1>11, <1>12, <1>13, <1>14,
                          <1>15, <1>16, <1>17, <1>18, <1>19, <1>20, <1>21, <1>22, <1>23, <1>24,
                          <1>25, <1>26 DEF Main

(* A child that has been handed rows has no others that it will do.        *)
Handed(t) ==
  /\ requestExecModify'[t] = TRUE /\ slots'[t] # <<>>
  /\ cpc[t] \notin {"call", "done"}
  /\ Upto(t) => sent'[t] = applied[t] \o slots'[t]
  /\ IsPrefix(applied[t], sent'[t])

(* Rows are handed to a child that has none or will do none.               *)
LEMMA SendRows ==
  ASSUME NEW t \in Thread, NEW q \in Seq(Nat), q # <<>>, Typed, RowsInv(t),
         requestExecModify[t] => Out(t), Send(t, q)
  PROVE  Handed(t)
<1>1. /\ requestExecModify'[t] = TRUE /\ slots'[t] = q /\ sent'[t] = sent[t] \o q
      /\ sent[t] \in Seq(Nat) /\ applied[t] \in Seq(Nat)
  BY DEF Typed, Send
<1>2. cpc[t] \notin {"call", "done"}
  BY DEF RowsInv, Out
<1>3. Upto(t) => sent[t] = applied[t]
  <2>1. Upto(t) => sent[t] = applied[t] \o <<>>
    BY DEF RowsInv, Upto, Out
  <2> QED
    BY <1>1, <2>1, ConcatEmptySeq
<1>4. IsPrefix(applied[t], sent'[t])
  <2>1. IsPrefix(applied[t], sent[t])
    BY DEF RowsInv
  <2> QED
    BY <1>1, <2>1, PrefixExtend
<1> QED
  BY <1>1, <1>2, <1>3, <1>4 DEF Handed

(* A step of the main thread keeps what the invariant says of a child.     *)
LEMMA MainThread ==
  ASSUME NEW u \in Thread, Typed, MainInv, ThreadInv(u), Main \/ StatementFails
  PROVE  ThreadInv(u)'
<1> USE DEF Typed, MainGoto, SetState, StartNotify, Fail, infoVars, localVars, mainVars,
            sharedVars, histVars
<1> USE DEF ThreadInv, InError, ErrorStates, AtExit, MainInv, Thread
<1>1. CASE ThreadsCreated
  <2>1. StartInv(u)'
    BY <1>1 DEF ThreadsCreated, StartInv, Setting, Untold, Upto, InsertStates, Calm
  <2>2. CallInv(u)'
    BY <1>1 DEF ThreadsCreated, CallInv
  <2>3. CalmEnd(u)'
    BY <1>1 DEF ThreadsCreated, CalmEnd, Calm, Joining, CallInv
  <2>4. BegunInv(u)'
    BY <1>1 DEF ThreadsCreated, BegunInv, StartInv, Waited, Setting, Within, BelowPreExec,
                Untold, CallInv, InsertStates
  <2>5. RowsInv(u)'
    BY <1>1 DEF ThreadsCreated, RowsInv, Upto, Out
  <2> QED
    BY <2>1, <2>2, <2>3, <2>4, <2>5
<1>2. CASE GetBatchSize
  <2>1. StartInv(u)'
    BY <1>2 DEF GetBatchSize, StartInv, Setting, Untold, Upto, InsertStates, Calm
  <2>2. CallInv(u)'
    BY <1>2 DEF GetBatchSize, CallInv
  <2>3. CalmEnd(u)'
    BY <1>2 DEF GetBatchSize, CalmEnd, Calm, Joining, CallInv
  <2>4. BegunInv(u)'
    BY <1>2 DEF GetBatchSize, BegunInv, StartInv, Waited, Setting, Within, BelowPreExec, Untold,
                CallInv, InsertStates
  <2>5. RowsInv(u)'
    BY <1>2 DEF GetBatchSize, RowsInv, Upto, Out
  <2> QED
    BY <2>1, <2>2, <2>3, <2>4, <2>5
<1>3. CASE SetStateCheck
  <2>1. StartInv(u)'
    <3>1. /\ mpc = "set" /\ mpc' \in {"set", "set_state"}
          /\ node_incr' = node_incr \/ node_incr' = node_incr + 1
          /\ UNCHANGED <<infoVars, localVars, sharedVars, mode>>
      BY <1>3 DEF SetStateCheck
    <3>2. u >= node_incr' => u >= node_incr
      <4>1. u \in Int /\ node_incr \in Int
        OBVIOUS
      <4>2. \A i, j \in Int : i >= j + 1 => i >= j
        OBVIOUS
      <4> QED
        BY <3>1, <4>1, <4>2, SMTT(30)
    <3> QED
      BY <3>1, <3>2 DEF StartInv, Setting, Untold, Upto, InsertStates
  <2>2. CallInv(u)'
    BY <1>3 DEF SetStateCheck, CallInv
  <2>3. CalmEnd(u)'
    BY <1>3 DEF SetStateCheck, CalmEnd, Calm, Joining, CallInv
  <2>4. BegunInv(u)'
    <3>1. /\ mpc = "set" /\ mpc' \in {"set", "set_state"} /\ mode.op = "INSERT"
          /\ mpc' = "set_state" => node_incr' = node_incr /\ state[node_incr] \in BelowFinish
          /\ UNCHANGED <<infoVars, localVars, sharedVars, mode>>
      BY <1>3 DEF SetStateCheck
    <3>2. ASSUME Waited, mpc' = "set_state", node_incr' = u
          PROVE  cpc[u] = "await"
      <4>1. state[u] \in BelowFinish /\ u = node_incr
        BY <3>1, <3>2
      <4>2. cpc[u] \notin {"created", "enter", "loop"} /\ (Upto(u) \/ AtExit(u))
        BY <3>1, <4>1 DEF StartInv, Setting, Untold
      <4>3. cpc[u] \notin {"begin", "begun", "sized", "tell"} /\ ~AtExit(u)
        BY <3>1, <3>2, <4>1 DEF BegunInv, Setting, BelowPreExec, BelowFinish, BelowExec,
                                InsertStates
      <4> QED
        BY <4>2, <4>3 DEF Upto
    <3> QED
      BY <3>1, <3>2 DEF BegunInv, Waited, Setting, Within
  <2>5. RowsInv(u)'
    BY <1>3 DEF SetStateCheck, RowsInv, Upto, Out
  <2> QED
    BY <2>1, <2>2, <2>3, <2>4, <2>5
<1>4. CASE SetStateWrite
  <2>1. StartInv(u)'
    BY <1>4 DEF SetStateWrite, StartInv, Setting, Untold, Upto, InsertStates, Calm
  <2>2. CallInv(u)'
    BY <1>4 DEF SetStateWrite, CallInv, StartInv, Setting, InsertStates
  <2>3. CalmEnd(u)'
    BY <1>4 DEF SetStateWrite, CalmEnd, Calm, Joining, StartInv, Setting, InsertStates
  <2>4. BegunInv(u)'
    BY <1>4 DEF SetStateWrite, BegunInv, StartInv, Waited, Setting, Within, BelowPreExec,
                Untold, CallInv, InsertStates
  <2>5. RowsInv(u)'
    BY <1>4 DEF SetStateWrite, RowsInv, Upto, Out, InsertStates
  <2> QED
    BY <2>1, <2>2, <2>3, <2>4, <2>5
<1>5. CASE SetStateDone
  <2>1. StartInv(u)'
    BY <1>5 DEF SetStateDone, StartInv, Setting, Untold, Upto, InsertStates, Calm
  <2>2. CallInv(u)'
    BY <1>5 DEF SetStateDone, CallInv
  <2>3. CalmEnd(u)'
    BY <1>5 DEF SetStateDone, CalmEnd, Calm, Joining, CallInv
  <2>4. BegunInv(u)'
    BY <1>5 DEF SetStateDone, BegunInv, StartInv, Waited, Setting, Within, BelowPreExec, Untold,
                CallInv, InsertStates
  <2>5. RowsInv(u)'
    BY <1>5 DEF SetStateDone, RowsInv, Upto, Out, StartInv, Setting
  <2> QED
    BY <2>1, <2>2, <2>3, <2>4, <2>5
<1>6. CASE ExecModify
  <2>1. StartInv(u)'
    BY <1>6 DEF ExecModify, StartInv, Setting, Untold, Upto, InsertStates, Calm
  <2>2. CallInv(u)'
    BY <1>6 DEF ExecModify, CallInv
  <2>3. CalmEnd(u)'
    BY <1>6 DEF ExecModify, CalmEnd, Calm, Joining, CallInv
  <2>4. BegunInv(u)'
    BY <1>6 DEF ExecModify, BegunInv, StartInv, Waited, Setting, Within, BelowPreExec, Untold,
                CallInv, InsertStates
  <2>5. RowsInv(u)'
    BY <1>6 DEF ExecModify, RowsInv, Upto, Out
  <2> QED
    BY <2>1, <2>2, <2>3, <2>4, <2>5
<1>7. CASE WaitReady
  <2>1. StartInv(u)'
    BY <1>7 DEF WaitReady, StartInv, Setting, Untold, Upto, InsertStates, Calm
  <2>2. CallInv(u)'
    BY <1>7 DEF WaitReady, CallInv
  <2>3. CalmEnd(u)'
    BY <1>7 DEF WaitReady, CalmEnd, Calm, Joining, CallInv
  <2>4. BegunInv(u)'
    BY <1>7 DEF WaitReady, BegunInv, StartInv, Waited, Setting, Within, BelowPreExec, Untold,
                CallInv, InsertStates
  <2>5. RowsInv(u)'
    BY <1>7 DEF WaitReady, RowsInv, Upto, Out
  <2> QED
    BY <2>1, <2>2, <2>3, <2>4, <2>5
<1>8. CASE SendRow
  <2>1. StartInv(u)'
    BY <1>8 DEF SendRow, Send, Targets, StartInv, Setting, Untold, Upto, InsertStates, Calm
  <2>2. CallInv(u)'
    BY <1>8 DEF SendRow, Send, Targets, CallInv
  <2>3. CalmEnd(u)'
    BY <1>8 DEF SendRow, Send, Targets, CalmEnd, Calm, Joining, CallInv
  <2>4. BegunInv(u)'
    BY <1>8 DEF SendRow, Send, Targets, BegunInv, StartInv, Waited, Setting, Within,
                BelowPreExec, Untold, CallInv, InsertStates
  <2>5. RowsInv(u)'
    <3>1. /\ mpc = "send" /\ mode.op = "INSERT"
          /\ UNCHANGED <<state, batch_size, localVars, applied, mode>>
          /\ \/ mpc' = "notify" /\ UNCHANGED <<slots, requestExecModify, sent>>
             \/ mpc' = "wait" /\ cur' \in Thread /\ Send(cur', <<nsent + 1>>)
      BY <1>8 DEF SendRow, Targets
    <3>2. CASE mpc' = "notify" /\ UNCHANGED <<slots, requestExecModify, sent>>
      BY <3>1, <3>2 DEF RowsInv, Upto, Out
    <3>3. CASE /\ mpc' = "wait" /\ cur' \in Thread /\ Send(cur', <<nsent + 1>>)
               /\ u # cur'
      BY <3>1, <3>3 DEF Send, RowsInv, Upto, Out
    <3>4. CASE mpc' = "wait" /\ Send(u, <<nsent + 1>>) /\ u = cur'
      <4>1. <<nsent + 1>> \in Seq(Nat) /\ <<nsent + 1>> # <<>>
        BY MainRanges
      <4>2. requestExecModify[u] => Out(u)
        BY <3>1 DEF RowsInv
      <4>3. Handed(u)
        BY <3>1, <3>4, <4>1, <4>2, SendRows
      <4> QED
        BY <3>1, <3>4, <4>3 DEF Handed, RowsInv, Upto, Out
    <3> QED
      BY <3>1, <3>2, <3>3, <3>4
  <2> QED
    BY <2>1, <2>2, <2>3, <2>4, <2>5
<1>9. CASE SendNoCandidate
  <2>1. StartInv(u)'
    BY <1>9 DEF SendNoCandidate, StartInv, Setting, Untold, Upto, InsertStates, Calm
  <2>2. CallInv(u)'
    BY <1>9 DEF SendNoCandidate, CallInv
  <2>3. CalmEnd(u)'
    BY <1>9 DEF SendNoCandidate, CalmEnd, Calm, Joining, CallInv
  <2>4. BegunInv(u)'
    BY <1>9 DEF SendNoCandidate, BegunInv, StartInv, Waited, Setting, Within, BelowPreExec,
                Untold, CallInv, InsertStates
  <2>5. RowsInv(u)'
    BY <1>9 DEF SendNoCandidate, RowsInv, Upto, Out
  <2> QED
    BY <2>1, <2>2, <2>3, <2>4, <2>5
<1>10. CASE WaitRow
  <2>1. StartInv(u)'
    BY <1>10 DEF WaitRow, StartInv, Setting, Untold, Upto, InsertStates, Calm
  <2>2. CallInv(u)'
    BY <1>10 DEF WaitRow, CallInv
  <2>3. CalmEnd(u)'
    BY <1>10 DEF WaitRow, CalmEnd, Calm, Joining, CallInv
  <2>4. BegunInv(u)'
    BY <1>10 DEF WaitRow, BegunInv, StartInv, Waited, Setting, Within, BelowPreExec, Untold,
                 CallInv, InsertStates
  <2>5. RowsInv(u)'
    BY <1>10 DEF WaitRow, RowsInv, Upto, Out
  <2> QED
    BY <2>1, <2>2, <2>3, <2>4, <2>5
<1>11. CASE SplitSlots
  <2>1. StartInv(u)'
    BY <1>11 DEF SplitSlots, StartInv, Setting, Untold, Upto, InsertStates, Calm
  <2>2. CallInv(u)'
    BY <1>11 DEF SplitSlots, CallInv
  <2>3. CalmEnd(u)'
    BY <1>11 DEF SplitSlots, CalmEnd, Calm, Joining, CallInv
  <2>4. BegunInv(u)'
    BY <1>11 DEF SplitSlots, BegunInv, StartInv, Waited, Setting, Within, BelowPreExec, Untold,
                 CallInv, InsertStates
  <2>5. RowsInv(u)'
    BY <1>11 DEF SplitSlots, RowsInv, Upto, Out
  <2> QED
    BY <2>1, <2>2, <2>3, <2>4, <2>5
<1>12. CASE \E t \in Thread : SplitRow(t)
  <2>1. StartInv(u)'
    BY <1>12 DEF SplitRow, BatchOver, StartInv, Setting, Untold, Upto, InsertStates, Calm
  <2>2. CallInv(u)'
    BY <1>12 DEF SplitRow, BatchOver, CallInv
  <2>3. CalmEnd(u)'
    BY <1>12 DEF SplitRow, BatchOver, CalmEnd, Calm, Joining, CallInv
  <2>4. BegunInv(u)'
    BY <1>12 DEF SplitRow, BatchOver, BegunInv, StartInv, Waited, Setting, Within, BelowPreExec,
                 Untold, CallInv, InsertStates
  <2>5. RowsInv(u)'
    BY <1>12 DEF SplitRow, BatchOver, RowsInv, Upto, Out
  <2> QED
    BY <2>1, <2>2, <2>3, <2>4, <2>5
<1>13. CASE SplitFails
  <2>1. StartInv(u)'
    BY <1>13 DEF SplitFails, StartInv, Setting, Untold, Upto, InsertStates, Calm
  <2>2. CallInv(u)'
    BY <1>13 DEF SplitFails, CallInv
  <2>3. CalmEnd(u)'
    BY <1>13 DEF SplitFails, CalmEnd, Calm, Joining, CallInv
  <2>4. BegunInv(u)'
    BY <1>13 DEF SplitFails, BegunInv, StartInv, Waited, Setting, Within, BelowPreExec, Untold,
                 CallInv, InsertStates
  <2>5. RowsInv(u)'
    BY <1>13 DEF SplitFails, RowsInv, Upto, Out
  <2> QED
    BY <2>1, <2>2, <2>3, <2>4, <2>5
<1>14. CASE SendBatch
  <2>1. StartInv(u)'
    BY <1>14 DEF SendBatch, Send, StartInv, Setting, Untold, Upto, InsertStates, Calm
  <2>2. CallInv(u)'
    BY <1>14 DEF SendBatch, Send, CallInv
  <2>3. CalmEnd(u)'
    BY <1>14 DEF SendBatch, Send, CalmEnd, Calm, Joining, CallInv
  <2>4. BegunInv(u)'
    BY <1>14 DEF SendBatch, Send, BegunInv, StartInv, Waited, Setting, Within, BelowPreExec,
                 Untold, CallInv, InsertStates
  <2>5. RowsInv(u)'
    <3>1. /\ mpc = "bsend" /\ mode.op = "INSERT" /\ node_incr \in Thread
          /\ UNCHANGED <<state, batch_size, localVars, applied, mode>>
          /\ \/ mpc' = "notify" /\ UNCHANGED <<slots, requestExecModify, sent>>
             \/ /\ mpc' = "bsend" /\ node_incr' = node_incr + 1
                /\ UNCHANGED <<slots, requestExecModify, sent>>
             \/ /\ mpc' = "bsend" /\ node_incr' = node_incr + 1
                /\ child_slots[node_incr] # <<>> /\ Send(node_incr, child_slots[node_incr])
      BY <1>14, MainRanges DEF SendBatch
    <3>2. CASE mpc' = "notify" /\ UNCHANGED <<slots, requestExecModify, sent>>
      BY <3>1, <3>2 DEF RowsInv, Upto, Out
    <3>3. u >= node_incr + 1 => u >= node_incr /\ u # node_incr
      OBVIOUS
    <3>4. CASE /\ mpc' = "bsend" /\ node_incr' = node_incr + 1
               /\ UNCHANGED <<slots, requestExecModify, sent>>
      BY <3>1, <3>3, <3>4 DEF RowsInv, Upto, Out
    <3>5. CASE /\ mpc' = "bsend" /\ node_incr' = node_incr + 1 /\ u # node_incr
               /\ Send(node_incr, child_slots[node_incr])
      BY <3>1, <3>3, <3>5 DEF Send, RowsInv, Upto, Out
    <3>6. CASE /\ mpc' = "bsend" /\ node_incr' = node_incr + 1 /\ u = node_incr
               /\ child_slots[u] # <<>> /\ Send(u, child_slots[u])
      <4>1. child_slots[u] \in Seq(Nat)
        OBVIOUS
      <4>2. requestExecModify[u] => Out(u)
        BY <3>1, <3>6 DEF RowsInv
      <4>3. Handed(u)
        BY <3>1, <3>6, <4>1, <4>2, SendRows
      <4> QED
        BY <3>1, <3>3, <3>6, <4>3 DEF Handed, RowsInv, Upto, Out
    <3> QED
      BY <3>1, <3>2, <3>4, <3>5, <3>6
  <2> QED
    BY <2>1, <2>2, <2>3, <2>4, <2>5
<1>15. CASE WaitBatch
  <2>1. StartInv(u)'
    BY <1>15 DEF WaitBatch, BatchDone, StartInv, Setting, Untold, Upto, InsertStates, Calm
  <2>2. CallInv(u)'
    BY <1>15 DEF WaitBatch, BatchDone, CallInv
  <2>3. CalmEnd(u)'
    BY <1>15 DEF WaitBatch, BatchDone, CalmEnd, Calm, Joining, CallInv
  <2>4. BegunInv(u)'
    BY <1>15 DEF WaitBatch, BatchDone, BegunInv, StartInv, Waited, Setting, Within,
                 BelowPreExec, Untold, CallInv, InsertStates
  <2>5. RowsInv(u)'
    BY <1>15 DEF WaitBatch, BatchDone, RowsInv, Upto, Out
  <2> QED
    BY <2>1, <2>2, <2>3, <2>4, <2>5
<1>16. CASE SendUpdate
  <2>1. StartInv(u)'
    BY <1>16 DEF SendUpdate, StartInv, Setting, Untold, Upto, InsertStates, Calm
  <2>2. CallInv(u)'
    BY <1>16 DEF SendUpdate, CallInv
  <2>3. CalmEnd(u)'
    BY <1>16 DEF SendUpdate, CalmEnd, Calm, Joining, CallInv
  <2>4. BegunInv(u)'
    BY <1>16 DEF SendUpdate, BegunInv, StartInv, Waited, Setting, Within, BelowPreExec, Untold,
                 CallInv, InsertStates
  <2>5. RowsInv(u)'
    BY <1>16 DEF SendUpdate, RowsInv, Upto, Out
  <2> QED
    BY <2>1, <2>2, <2>3, <2>4, <2>5
<1>17. CASE WaitUpdate
  <2>1. StartInv(u)'
    BY <1>17 DEF WaitUpdate, Send, StartInv, Setting, Untold, Upto, InsertStates, Calm
  <2>2. CallInv(u)'
    BY <1>17 DEF WaitUpdate, Send, CallInv
  <2>3. CalmEnd(u)'
    BY <1>17 DEF WaitUpdate, Send, CalmEnd, Calm, Joining, CallInv
  <2>4. BegunInv(u)'
    BY <1>17 DEF WaitUpdate, Send, BegunInv, StartInv, Waited, Setting, Within, BelowPreExec,
                 Untold, CallInv, InsertStates
  <2>5. RowsInv(u)'
    <3>1. /\ mpc = "uwait" /\ mode.op = "UPDATE" /\ cur \in Thread
          /\ UNCHANGED <<state, batch_size, localVars, applied, mode>>
          /\ \/ UNCHANGED <<slots, requestExecModify, sent>>
             \/ ~requestExecModify[cur] /\ Send(cur, <<nsent + 1>>)
      BY <1>17 DEF WaitUpdate
    <3>2. CASE UNCHANGED <<slots, requestExecModify, sent>>
      BY <3>1, <3>2 DEF RowsInv, Upto
    <3>3. CASE Send(cur, <<nsent + 1>>) /\ u # cur
      BY <3>1, <3>3 DEF Send, RowsInv, Upto
    <3>4. CASE Send(u, <<nsent + 1>>) /\ u = cur /\ ~requestExecModify[u]
      <4>1. <<nsent + 1>> \in Seq(Nat) /\ <<nsent + 1>> # <<>>
        BY MainRanges
      <4>2. Handed(u)
        BY <3>1, <3>4, <4>1, SendRows
      <4> QED
        BY <3>1, <3>4, <4>2 DEF Handed, RowsInv, Upto
    <3> QED
      BY <3>1, <3>2, <3>3, <3>4
  <2> QED
    BY <2>1, <2>2, <2>3, <2>4, <2>5
<1>18. CASE NotifyState
  <2>1. StartInv(u)'
    BY <1>18 DEF NotifyState, StartInv, Setting, Untold, Upto, InsertStates, Calm
  <2>2. CallInv(u)'
    BY <1>18 DEF NotifyState, CallInv
  <2>3. CalmEnd(u)'
    BY <1>18 DEF NotifyState, CalmEnd, Calm, Joining, CallInv
  <2>4. BegunInv(u)'
    BY <1>18, ZenonT(30) DEF NotifyState, BegunInv, StartInv, Waited, Setting, Within, BelowPreExec, Untold,
                 CallInv, InsertStates
  <2>5. RowsInv(u)'
    BY <1>18 DEF NotifyState, RowsInv, Upto, Out
  <2> QED
    BY <2>1, <2>2, <2>3, <2>4, <2>5
<1>19. CASE NotifyEnd
  <2>1. StartInv(u)'
    BY <1>19 DEF NotifyEnd, StartInv, Setting, Untold, Upto, InsertStates, Calm
  <2>2. CallInv(u)'
    BY <1>19 DEF NotifyEnd, CallInv
  <2>3. CalmEnd(u)'
    BY <1>19 DEF NotifyEnd, CalmEnd, Calm, Joining, CallInv
  <2>4. BegunInv(u)'
    BY <1>19 DEF NotifyEnd, BegunInv, StartInv, Waited, Setting, Within, BelowPreExec, Untold,
                 CallInv, InsertStates
  <2>5. RowsInv(u)'
    BY <1>19 DEF NotifyEnd, RowsInv, Upto, Out
  <2> QED
    BY <2>1, <2>2, <2>3, <2>4, <2>5
<1>20. CASE NotifyThrow
  <2>1. StartInv(u)'
    BY <1>20 DEF NotifyThrow, StartInv, Setting, Untold, Upto, InsertStates, Calm
  <2>2. CallInv(u)'
    BY <1>20 DEF NotifyThrow, CallInv
  <2>3. CalmEnd(u)'
    BY <1>20 DEF NotifyThrow, CalmEnd, Calm, Joining, CallInv
  <2>4. BegunInv(u)'
    BY <1>20 DEF NotifyThrow, BegunInv, StartInv, Waited, Setting, Within, BelowPreExec, Untold,
                 CallInv, InsertStates
  <2>5. RowsInv(u)'
    BY <1>20 DEF NotifyThrow, RowsInv, Upto, Out
  <2> QED
    BY <2>1, <2>2, <2>3, <2>4, <2>5
<1>21. CASE NoMoreRows
  <2>1. StartInv(u)'
    BY <1>21 DEF NoMoreRows, StartInv, Setting, Untold, Upto, InsertStates, Calm
  <2>2. CallInv(u)'
    BY <1>21 DEF NoMoreRows, CallInv
  <2>3. CalmEnd(u)'
    BY <1>21 DEF NoMoreRows, CalmEnd, Calm, Joining, CallInv
  <2>4. BegunInv(u)'
    BY <1>21 DEF NoMoreRows, BegunInv, StartInv, Waited, Setting, Within, BelowPreExec, Untold,
                 CallInv, InsertStates
  <2>5. RowsInv(u)'
    BY <1>21 DEF NoMoreRows, RowsInv, Upto, Out
  <2> QED
    BY <2>1, <2>2, <2>3, <2>4, <2>5
<1>22. CASE MarkDead
  <2>1. StartInv(u)'
    BY <1>22 DEF MarkDead, StartInv, Setting, Untold, Upto, InsertStates, Calm
  <2>2. CallInv(u)'
    BY <1>22 DEF MarkDead, CallInv
  <2>3. CalmEnd(u)'
    BY <1>22 DEF MarkDead, CalmEnd, Calm, Joining, CallInv
  <2>4. BegunInv(u)'
    BY <1>22 DEF MarkDead, BegunInv, StartInv, Waited, Setting, Within, BelowPreExec, Untold,
                 CallInv, InsertStates
  <2>5. RowsInv(u)'
    BY <1>22 DEF MarkDead, RowsInv, Upto, Out
  <2> QED
    BY <2>1, <2>2, <2>3, <2>4, <2>5
<1>23. CASE RequestEnd
  <2>1. StartInv(u)'
    BY <1>23 DEF RequestEnd, NoRowLeft, StartInv, Setting, Untold, Upto, InsertStates, Calm
  <2>2. CallInv(u)'
    BY <1>23 DEF RequestEnd, NoRowLeft, CallInv
  <2>3. CalmEnd(u)'
    BY <1>23 DEF RequestEnd, NoRowLeft, CalmEnd, Calm, Joining, CallInv
  <2>4. BegunInv(u)'
    BY <1>23 DEF RequestEnd, NoRowLeft, BegunInv, StartInv, Waited, Setting, Within,
                 BelowPreExec, Untold, CallInv, InsertStates
  <2>5. RowsInv(u)'
    BY <1>23 DEF RequestEnd, NoRowLeft, RowsInv, Upto, Out
  <2> QED
    BY <2>1, <2>2, <2>3, <2>4, <2>5
<1>24. CASE Join
  <2>1. StartInv(u)'
    BY <1>24 DEF Join, StartInv, Setting, Untold, Upto, InsertStates, Calm
  <2>2. CallInv(u)'
    BY <1>24 DEF Join, CallInv
  <2>3. CalmEnd(u)'
    BY <1>24 DEF Join, CalmEnd, Calm, Joining, CallInv
  <2>4. BegunInv(u)'
    BY <1>24 DEF Join, BegunInv, StartInv, Waited, Setting, Within, BelowPreExec, Untold,
                 CallInv, InsertStates
  <2>5. RowsInv(u)'
    BY <1>24 DEF Join, RowsInv, Upto, Out
  <2> QED
    BY <2>1, <2>2, <2>3, <2>4, <2>5
<1>25. CASE Finish
  <2>1. StartInv(u)'
    BY <1>25 DEF Finish, DeadError, StartInv, Setting, Untold, Upto, InsertStates, Calm
  <2>2. CallInv(u)'
    BY <1>25 DEF Finish, DeadError, CallInv
  <2>3. CalmEnd(u)'
    BY <1>25 DEF Finish, DeadError, CalmEnd, Calm, Joining, CallInv
  <2>4. BegunInv(u)'
    BY <1>25 DEF Finish, DeadError, BegunInv, StartInv, Waited, Setting, Within, BelowPreExec,
                 Untold, CallInv, InsertStates
  <2>5. RowsInv(u)'
    BY <1>25 DEF Finish, DeadError, RowsInv, Upto, Out
  <2> QED
    BY <2>1, <2>2, <2>3, <2>4, <2>5
<1>26. CASE StatementFails
  <2>1. StartInv(u)'
    BY <1>26 DEF StatementFails, StartInv, Setting, Untold, Upto, InsertStates, Calm
  <2>2. CallInv(u)'
    BY <1>26 DEF StatementFails, CallInv
  <2>3. CalmEnd(u)'
    BY <1>26 DEF StatementFails, CalmEnd, Calm, Joining, CallInv
  <2>4. BegunInv(u)'
    BY <1>26 DEF StatementFails, BegunInv, StartInv, Waited, Setting, Within, BelowPreExec,
                 Untold, CallInv, InsertStates
  <2>5. RowsInv(u)'
    BY <1>26 DEF StatementFails, RowsInv, Upto, Out
  <2> QED
    BY <2>1, <2>2, <2>3, <2>4, <2>5
<1> QED
  BY <1>1, <1>2, <1>3, <1>4, <1>5, <1>6, <1>7, <1>8, <1>9, <1>10, <1>11, <1>12, <1>13, <1>14,
                          <1>15, <1>16, <1>17, <1>18, <1>19, <1>20, <1>21, <1>22, <1>23, <1>24,
                          <1>25, <1>26 DEF Main

(* A child thread counts itself in when it starts and out when it ends.    *)
LEMMA ChildRunning ==
  ASSUME NEW t \in Thread, Typed, Child(t), num_running = Cardinality(RunningSet)
  PROVE  num_running' = Cardinality(RunningSet')
<1>1. \A u \in Thread \ {t} : cpc'[u] = cpc[u]
  BY ChildFrame DEF Same
<1>2. IsFiniteSet(RunningSet) /\ Cardinality(RunningSet) \in Nat
  BY RunningBound DEF RunningSet
<1>3. CASE ThreadStart(t)
  <2>1. cpc[t] = "created" /\ cpc'[t] \in {"begin", "exit"} /\ num_running' = num_running + 1
    BY <1>3 DEF ThreadStart, Goto, Typed
  <2>2. RunningSet' = RunningSet \cup {t} /\ t \notin RunningSet
    BY <1>1, <2>1 DEF RunningSet
  <2> QED
    BY <1>2, <2>1, <2>2, FS_AddElement
<1>4. CASE ThreadExit(t)
  <2>1. cpc[t] = "exit" /\ cpc'[t] = "gone" /\ num_running' = num_running - 1
    BY <1>4 DEF ThreadExit, Goto, Typed
  <2>2. RunningSet' = RunningSet \ {t} /\ t \in RunningSet
    BY <1>1, <2>1 DEF RunningSet
  <2> QED
    BY <1>2, <2>1, <2>2, FS_RemoveElement
<1>5. CASE ~ThreadStart(t) /\ ~ThreadExit(t)
  <2>1. /\ cpc[t] \notin {"created", "gone"} /\ cpc'[t] \notin {"created", "gone"}
        /\ num_running' = num_running
    <3> USE DEF Typed, Goto, sharedVars
    <3>1. CASE BeginCall(t)
      BY <3>1 DEF BeginCall
    <3>2. CASE AfterBegin(t)
      BY <3>2 DEF AfterBegin
    <3>3. CASE SizedCheck(t)
      BY <3>3 DEF SizedCheck
    <3>4. CASE SizedTell(t)
      BY <3>4 DEF SizedTell
    <3>5. CASE AwaitInsert(t)
      BY <3>5 DEF AwaitInsert
    <3>6. CASE EnterLoop(t)
      BY <3>6 DEF EnterLoop
    <3>7. CASE LeaveLoop(t)
      BY <3>7 DEF LeaveLoop
    <3>8. CASE TakeRequest(t)
      BY <3>8 DEF TakeRequest
    <3>9. CASE ExecCall(t)
      BY <3>9 DEF ExecCall
    <3>10. CASE ExecFail(t)
      BY <3>10 DEF ExecFail
    <3>11. CASE ExecDone(t)
      BY <3>11 DEF ExecDone
    <3>12. CASE AfterLoop(t)
      BY <3>12 DEF AfterLoop
    <3>13. CASE PreEnd(t)
      BY <3>13 DEF PreEnd
    <3>14. CASE EndWait(t)
      BY <3>14 DEF EndWait
    <3>15. CASE EndCall(t)
      BY <3>15 DEF EndCall
    <3>16. CASE AfterEnd(t)
      BY <3>16 DEF AfterEnd
    <3> QED
      BY <1>5, <3>1, <3>2, <3>3, <3>4, <3>5, <3>6, <3>7, <3>8, <3>9, <3>10, <3>11, <3>12,
         <3>13, <3>14, <3>15, <3>16 DEF Child
  <2>2. RunningSet' = RunningSet
    BY <1>1, <2>1 DEF RunningSet
  <2> QED
    BY <2>1, <2>2
<1> QED
  BY <1>3, <1>4, <1>5

(* A thread that is joined takes no step.                                  *)
LEMMA ChildAlive ==
  ASSUME NEW t \in Thread, Typed, Child(t)
  PROVE  cpc[t] # "gone" /\ (force_end' => force_end)
<1>1. cpc[t] # "gone"
  BY DEF Child, Goto, ThreadStart, BeginCall, AfterBegin, SizedCheck, SizedTell, AwaitInsert,
         EnterLoop, LeaveLoop, TakeRequest, ExecCall, ExecFail, ExecDone, AfterLoop,
         PreEnd, EndWait, EndCall, AfterEnd, ThreadExit
<1>2. force_end' => force_end
  BY DEF Child, sharedVars, ThreadStart, BeginCall, AfterBegin, SizedCheck, SizedTell,
         AwaitInsert,
         EnterLoop, LeaveLoop, TakeRequest, ExecCall, ExecFail, ExecDone, AfterLoop,
         PreEnd, EndWait, EndCall, AfterEnd, ThreadExit
<1> QED
  BY <1>1, <1>2

(* A step of a child thread keeps the invariant.                           *)
LEMMA ChildStep ==
  ASSUME NEW t \in Thread, IInv, Child(t)
  PROVE  IInv'
<1>1. Typed /\ MainInv /\ num_running = Cardinality(RunningSet) /\ ThreadInv(t)
  BY TypedIff DEF IInv
<1>2. /\ UNCHANGED <<mainVars, outcome, mode, is_joined>>
      /\ \A u \in Thread \ {t} : Same(u)
  BY <1>1, ChildFrame
<1>3. num_running' = Cardinality(RunningSet')
  BY <1>1, ChildRunning
<1>4. TypeOK'
  <2>1. Typed'
    BY <1>1, ChildTyped DEF ThreadInv
  <2>2. num_running' \in Nat
    BY <1>3, RunningBound DEF RunningSet
  <2> QED
    BY <2>1, <2>2 DEF TypeOK, Typed, Place, MainPlace, Fdw
<1>5. \A u \in Thread : ThreadInv(u)'
  <2>1. ThreadInv(t)'
    BY <1>1, ChildOwn
  <2>2. \A u \in Thread \ {t} : ThreadInv(u)'
    BY <1>2, SameThread DEF IInv
  <2> QED
    BY <2>1, <2>2
<1>6. MainInv'
  <2>1. ~is_joined[t]
    BY <1>1, ChildAlive DEF ThreadInv, CallInv
  <2>2. force_end' => force_end
    BY <1>1, ChildAlive
  <2>3. mpc # "closed" /\ outcome # "ok"
    BY <1>1, <2>1 DEF MainInv
  <2>4. nsent' = nsent
    BY DEF Child, histVars, ThreadStart, BeginCall, AfterBegin, SizedCheck, SizedTell,
           AwaitInsert,
           EnterLoop, LeaveLoop, TakeRequest, ExecCall, ExecFail, ExecDone, AfterLoop,
           PreEnd, EndWait, EndCall, AfterEnd, ThreadExit
  <2> QED
    BY <1>1, <1>2, <2>2, <2>3, <2>4 DEF MainInv, Setting, Calm, mainVars
<1> QED
  BY <1>3, <1>4, <1>5, <1>6 DEF IInv

(* A step of the main thread keeps the invariant.                          *)
LEMMA MainStep ==
  ASSUME IInv, Main \/ StatementFails
  PROVE  IInv'
<1>1. Typed /\ MainInv /\ num_running \in Nat
  BY TypedIff DEF IInv
<1>2. Typed' /\ UNCHANGED <<cpc, num_running>>
  BY <1>1, MainTyped
<1>3. TypeOK'
  BY <1>1, <1>2 DEF TypeOK, Typed, Place, MainPlace, Fdw
<1>4. MainInv'
  BY <1>1, MainOwn
<1>5. \A u \in Thread : ThreadInv(u)'
  BY <1>1, MainThread DEF IInv
<1>6. RunningSet' = RunningSet
  BY <1>2 DEF RunningSet
<1> QED
  BY <1>2, <1>3, <1>4, <1>5, <1>6 DEF IInv

(* Before the threads are created nothing is sent, begun or ended.         *)
LEMMA InitIInv == Init => IInv
<1> SUFFICES ASSUME Init PROVE IInv
  OBVIOUS
<1>1. num_running = Cardinality(RunningSet)
  <2>1. RunningSet = {}
    BY DEF Init, RunningSet
  <2> QED
    BY <2>1, FS_EmptySet DEF Init
<1>2. Typed
  <2>1. 0 \in 0 .. mode.rows /\ mode \in Modes
    BY DEF Init, Mode
  <2>2. fdw \in [Thread -> Fdw]
    BY DEF Init, Fdw
  <2>3. 0 \in Thread /\ 0 \in 0 .. NThreads
    BY DEF Thread
  <2>4. "INIT" \in ThreadState /\ "created" \in Place /\ "create" \in MainPlace
    BY DEF ThreadState, BelowFinish, BelowExec, BelowPreExec, Place, MainPlace
  <2>5. /\ slots \in [Thread -> Seq(Nat)] /\ todo \in [Thread -> Seq(Nat)]
        /\ child_slots \in [Thread -> Seq(Nat)]
        /\ sent \in [Thread -> Seq(Nat)] /\ applied \in [Thread -> Seq(Nat)]
    BY DEF Init
  <2>6. /\ requestExecModify \in [Thread -> BOOLEAN] /\ requestEndModify \in [Thread -> BOOLEAN]
        /\ is_joined \in [Thread -> BOOLEAN] /\ force_end \in BOOLEAN
    BY DEF Init
  <2>7. /\ state \in [Thread -> ThreadState] /\ cpc \in [Thread -> Place]
        /\ mpc \in MainPlace /\ tell \in ThreadState
    BY <2>4 DEF Init
  <2>8. /\ batch_size \in [Thread -> Nat] /\ status \in [Thread -> {"Alive", "NotTarget", "Dead"}]
        /\ kind \in [Thread -> {"one", "rows", "batch"}]
        /\ node_incr \in 0 .. NThreads /\ cur \in Thread /\ ri_BatchSize \in Nat \ {0}
        /\ outcome \in {"open", "ok", "failed"} /\ nsent \in 0 .. mode.rows
    BY <2>1, <2>3 DEF Init
  <2> QED
    BY <2>1, <2>2, <2>5, <2>6, <2>7, <2>8 DEF Typed
<1>3. TypeOK
  BY <1>2, TypedIff DEF Init
<1>4. \A t \in Thread : ThreadInv(t)
  <2> SUFFICES ASSUME NEW t \in Thread PROVE ThreadInv(t)
    OBVIOUS
  <2>1. StartInv(t) /\ CallInv(t) /\ CalmEnd(t)
    BY DEF Init, StartInv, CallInv, CalmEnd, Setting, Untold, AtExit, Upto, InsertStates,
           InError, ErrorStates, Joining
  <2>2. BegunInv(t)
    BY DEF Init, BegunInv, Setting, AtExit, Within
  <2>3. RowsInv(t)
    <3>1. <<>> \o <<>> = <<>> /\ IsPrefix(<<>>, <<>>)
      <4>1. <<>> \in Seq(Nat)
        OBVIOUS
      <4> QED
        BY <4>1, ConcatEmptySeq DEF IsPrefix
    <3> QED
      BY <3>1 DEF Init, RowsInv, Upto, AtExit
  <2> QED
    BY <2>1, <2>2, <2>3 DEF ThreadInv
<1>5. MainInv
  BY DEF Init, MainInv, Setting, Calm
<1> QED
  BY <1>1, <1>3, <1>4, <1>5 DEF IInv

(* Every step keeps the invariant.                                         *)
LEMMA NextIInv == IInv /\ [Next]_vars => IInv'
<1> SUFFICES ASSUME IInv, [Next]_vars PROVE IInv'
  OBVIOUS
<1>1. CASE \E t \in Thread : Child(t)
  BY <1>1, ChildStep
<1>2. CASE Main \/ StatementFails
  BY <1>2, MainStep
<1>3. CASE UNCHANGED vars
  <2> USE DEF vars, infoVars, localVars, sharedVars, mainVars, histVars
  <2>1. TypeOK' /\ MainInv' /\ RunningSet' = RunningSet /\ num_running' = num_running
    <3>1. TypeOK'
      BY <1>3 DEF IInv, TypeOK
    <3>2. MainInv'
      BY <1>3 DEF IInv, MainInv, Setting, Calm
    <3> QED
      BY <1>3, <3>1, <3>2 DEF RunningSet
  <2>2. \A u \in Thread : Same(u)
    BY <1>3 DEF Same
  <2>3. \A u \in Thread : ThreadInv(u)'
    BY <1>3, <2>2, SameThread DEF IInv
  <2> QED
    BY <2>1, <2>3 DEF IInv
<1> QED
  BY <1>1, <1>2, <1>3 DEF Next, Closed

-----------------------------------------------------------------------------
(* The invariant holds for any children, statements and failures.          *)
THEOREM Invariance == Spec => []IInv
<1>1. Init => IInv
  BY InitIInv
<1>2. IInv /\ [Next]_vars => IInv'
  BY NextIInv
<1> QED
  BY <1>1, <1>2, PTL DEF Spec

(* The variables keep their types; a batch size is never zero, and never   *)
(* more rows are sent than the statement has.                              *)
THEOREM TypeCorrect == Spec => []TypeOK
<1>1. IInv => TypeOK
  BY DEF IInv
<1> QED
  BY <1>1, Invariance, PTL

(* The rows a child's FDW has applied are the first of those handed to it, *)
(* whatever the batch_size option: a hand-over never meets rows that the   *)
(* child will still take.                                                  *)
THEOREM InOrderAlways == Spec => []InOrder
<1>1. IInv => InOrder
  BY DEF IInv, ThreadInv, RowsInv, InOrder
<1> QED
  BY <1>1, Invariance, PTL

(* When the statement is over every thread is gone and joined, and what    *)
(* was begun at a child of a statement that succeeds is ended once; with   *)
(* throwErrorIfDead off, not at a child that failed.                       *)
THEOREM CleanEndAlways == Spec => [](ThrowErrorIfDead => CleanEnd)
<1>1. IInv /\ ThrowErrorIfDead => CleanEnd
  <2> SUFFICES ASSUME IInv, ThrowErrorIfDead, mpc = "closed" PROVE CleanEnd
    BY DEF CleanEnd
  <2>1. \A t \in Thread : is_joined[t] /\ cpc[t] = "gone"
    BY DEF IInv, MainInv, ThreadInv, CallInv
  <2>2. num_running = 0
    <3>1. RunningSet = {}
      BY <2>1 DEF RunningSet
    <3> QED
      BY <3>1, FS_EmptySet DEF IInv
  <2>3. ASSUME outcome = "ok", NEW t \in Thread, fdw[t].begun
        PROVE  fdw[t].ends = 1
    <3>1. state[t] # "ERROR" /\ Calm
      BY <2>3 DEF IInv, MainInv, Calm
    <3> QED
      BY <2>1, <2>3, <3>1 DEF IInv, ThreadInv, CalmEnd
  <2> QED
    BY <2>1, <2>2, <2>3 DEF CleanEnd
<1> QED
  BY <1>1, Invariance, PTL

(* Where the main thread waits for the batch sizes before it writes the    *)
(* states, a child's FDW is asked to apply rows only between its begin and *)
(* its end, and not after a call of it has failed.                         *)
THEOREM ExecOnBegunWaited == Spec => [](Waited => ExecOnBegun)
<1>1. IInv => (Waited => ExecOnBegun)
  BY DEF IInv, ThreadInv, BegunInv, CallInv, ExecOnBegun, Within
<1> QED
  BY <1>1, Invariance, PTL

(* Where the main thread waits so, no error of a child is lost.            *)
THEOREM NoErrorLostWaited == Spec => [](Waited /\ ThrowErrorIfDead => NoErrorLost)
<1>1. IInv => (Waited /\ ThrowErrorIfDead => NoErrorLost)
  <2> SUFFICES ASSUME IInv, Waited, ThrowErrorIfDead, outcome = "ok", NEW t \in Thread
               PROVE  ~fdw[t].failed /\ (fdw[t].begun \/ status[t] = "NotTarget")
    BY DEF NoErrorLost
  <2>1. cpc[t] = "gone" /\ state[t] # "ERROR"
    BY DEF IInv, MainInv, ThreadInv, CallInv
  <2>2. ~InError(t)
    BY <2>1 DEF IInv, ThreadInv, CallInv, InError, ErrorStates
  <2> QED
    BY <2>1, <2>2 DEF IInv, ThreadInv, CallInv, BegunInv, AtExit
<1> QED
  BY <1>1, Invariance, PTL
=============================================================================
