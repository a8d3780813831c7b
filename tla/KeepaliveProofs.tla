--------------------------- MODULE KeepaliveProofs ---------------------------
(***************************************************************************)
(* Keepalive for any number of servers, any table and any changes of it:   *)
(* the hash table is quiet while the worker makes its list, and mirrors    *)
(* what the ping threads compare with.                                     *)
(***************************************************************************)
EXTENDS Keepalive, FiniteSetTheorems, TLAPS

USE KeepaliveAssumption

(* The worker has a list: its servers are entered and have threads.        *)
AtWork == wpc \in {"threads", "check", "join"}

Alive(i) == thread[i].pc # "none"

(* The list has a thread at most for each of its servers, keyed apart.     *)
ListFits ==
  /\ Len(nodeInfo) <= MaxRows
  /\ \A i, j \in DOMAIN nodeInfo : nodeInfo[i].name = nodeInfo[j].name => i = j

(* Threads exist only for the servers passed by create_child_threads.      *)
ThreadsOfList ==
  /\ wpc = "threads" => next <= Len(nodeInfo) + 1
  /\ \A i \in 1 .. MaxRows :
       Alive(i) => /\ AtWork
                   /\ i <= Len(nodeInfo)
                   /\ wpc = "threads" => i < next
                   /\ nodeInfo[i].ip # NoAddress

(* numThreads is the number of threads there are, so that join_childs,     *)
(* which waits for that many, waits for all of them.                       *)
Counted == AtWork => numThreads = Cardinality({i \in 1 .. MaxRows : Alive(i)})

(* The hash table holds no other keys than those of the list, and the      *)
(* entries of servers without a thread yet are those of create_child_info. *)
HashOfList ==
  /\ AtWork => \A k \in Key : keepshNodeHash[k] # "none" =>
                 \E i \in DOMAIN nodeInfo : k = KeyOf(nodeInfo[i])
  /\ wpc = "threads" => \A i \in next .. Len(nodeInfo) :
                          keepshNodeHash[KeyOf(nodeInfo[i])] = "alive"

(* The inductive invariant.                                                *)
IInv == /\ TypeOK /\ ListFits /\ ThreadsOfList /\ Counted /\ HashOfList
        /\ QuietBetween /\ MirrorsHash

-----------------------------------------------------------------------------
(* The list made of a table has its rows, with their names; only addresses *)
(* are dropped.                                                            *)
LEMMA AliveListRows ==
  ASSUME NEW t \in Tables
  PROVE  /\ AliveList(t) \in Seq(Row)
         /\ DOMAIN AliveList(t) = DOMAIN t /\ Len(AliveList(t)) = Len(t)
         /\ \A i \in DOMAIN t : AliveList(t)[i].name = t[i].name
<1>1. t \in Seq(Row) /\ DOMAIN t = 1 .. Len(t) /\ Len(t) \in Nat
  OBVIOUS
<1>2. \A i \in DOMAIN t : /\ AliveList(t)[i] \in Row
                          /\ AliveList(t)[i].name = t[i].name
  <2> SUFFICES ASSUME NEW i \in DOMAIN t
               PROVE  AliveList(t)[i] \in Row /\ AliveList(t)[i].name = t[i].name
    OBVIOUS
  <2>1. t[i] \in Row
    BY <1>1
  <2>2. AliveList(t)[i] = IF t[i].fdw = "griddb_fdw" THEN [t[i] EXCEPT !.ip = NoAddress] ELSE t[i]
    BY DEF AliveList
  <2> QED
    BY <2>1, <2>2 DEF Row
<1>3. AliveList(t) \in [1 .. Len(t) -> Row]
  BY <1>1, <1>2 DEF AliveList
<1> QED
  BY <1>1, <1>2, <1>3 DEF AliveList

(* The key of a row is a key, and rows of different names have different   *)
(* keys.                                                                   *)
LEMMA KeysApart ==
  /\ \A r \in Row : KeyOf(r) \in Key
  /\ \A r, s \in Row : KeyOf(r) = KeyOf(s) => r.name = s.name
BY DEF KeyOf, Key, Row

(* The keys of a list that fits are those of different rows.               *)
LEMMA ListKeys ==
  ASSUME TypeOK, ListFits
  PROVE  /\ \A i \in DOMAIN nodeInfo : KeyOf(nodeInfo[i]) \in Key
         /\ \A i, j \in DOMAIN nodeInfo : KeyOf(nodeInfo[i]) = KeyOf(nodeInfo[j]) => i = j
         /\ DOMAIN nodeInfo = 1 .. Len(nodeInfo) /\ Len(nodeInfo) \in Nat
<1>1. nodeInfo \in Seq(Row)
  BY DEF TypeOK
<1>2. \A i \in DOMAIN nodeInfo : nodeInfo[i] \in Row
  BY <1>1
<1> QED
  BY <1>1, <1>2, KeysApart DEF ListFits

(* An interval that begins at 1 has as many members as its end says.       *)
LEMMA Interval == \A n \in Nat : IsFiniteSet(1 .. n) /\ Cardinality(1 .. n) = n
<1> TAKE n \in Nat
<1>1. /\ IsFiniteSet(1 .. n)
      /\ Cardinality(1 .. n) = IF 1 > n THEN 0 ELSE n - 1 + 1
  BY FS_Interval, 1 \in Int, n \in Int, Zenon
<1> QED
  BY <1>1

(* The threads there are, as a finite set.                                 *)
LEMMA ThreadSets ==
  ASSUME NEW S, S \subseteq 1 .. MaxRows
  PROVE  IsFiniteSet(S) /\ Cardinality(S) \in Nat
<1>1. IsFiniteSet(1 .. MaxRows)
  BY FS_Interval
<1>2. IsFiniteSet(S)
  BY <1>1, FS_Subset
<1> QED
  BY <1>2, FS_CardinalityType

(* Before the worker has made its list nothing runs and nothing is entered.*)
LEMMA InitIInv == Init => IInv
<1> SUFFICES ASSUME Init PROVE IInv
  OBVIOUS
<1>1. TypeOK
  <2>1. NoThread \in [pc : {"none", "ping", "update", "sleep", "done"},
                      latest : BOOLEAN, current : BOOLEAN]
    BY DEF NoThread
  <2>2. nodeInfo \in Seq(Row) /\ next \in 1 .. MaxRows + 1
    BY DEF Init
  <2> QED
    BY <2>1, <2>2 DEF Init, TypeOK
<1>2. ListFits
  BY DEF Init, ListFits
<1>3. \A i \in 1 .. MaxRows : thread[i] = NoThread
  BY DEF Init
<1>4. ~AtWork /\ wpc # "threads"
  BY DEF Init, AtWork
<1>5. ThreadsOfList /\ Counted /\ HashOfList
  BY <1>3, <1>4 DEF ThreadsOfList, Counted, HashOfList, Alive, NoThread
<1>6. QuietBetween /\ MirrorsHash
  BY <1>1, <1>3 DEF Init, QuietBetween, MirrorsHash, Running, NoThread, TypeOK
<1> QED
  BY <1>1, <1>2, <1>5, <1>6 DEF IInv

(* A step that leaves the worker, its threads and the hash table alone.    *)
LEMMA EnvironmentStep ==
  ASSUME IInv, TypeOK', UNCHANGED <<keepshNodeHash, workerVars, thread>>
  PROVE  IInv'
BY DEF IInv, ListFits, ThreadsOfList, Counted, HashOfList, QuietBetween, MirrorsHash,
       workerVars,
       AtWork, Alive, Running

(* Ping and Wake move a thread without touching the hash table.            *)
LEMMA ThreadMoves ==
  ASSUME IInv, NEW i \in 1 .. MaxRows, TypeOK', Running(i),
         \A j \in 1 .. MaxRows : j # i => thread'[j] = thread[j],
         thread'[i].pc # "none", thread'[i].latest = thread[i].latest,
         UNCHANGED <<keepshNodeHash, workerVars>>
  PROVE  IInv'
<1>1. Alive(i) /\ AtWork
  BY DEF IInv, ThreadsOfList, Alive, Running
<1>2. DOMAIN thread = 1 .. MaxRows /\ DOMAIN thread' = 1 .. MaxRows
  BY DEF IInv, TypeOK
<1>3. \A j \in 1 .. MaxRows : Alive(j)' <=> Alive(j)
  BY <1>1 DEF Alive
<1>4. {j \in 1 .. MaxRows : Alive(j)'} = {j \in 1 .. MaxRows : Alive(j)}
  BY <1>3
<1>5. ListFits' /\ HashOfList'
  BY DEF IInv, ListFits, HashOfList, AtWork, workerVars
<1>6. ThreadsOfList'
  BY <1>3 DEF IInv, ThreadsOfList, AtWork, workerVars
<1>7. Counted'
  BY <1>4 DEF IInv, Counted, AtWork, workerVars
<1>8. QuietBetween'
  BY <1>1 DEF QuietBetween, AtWork, workerVars
<1>9. MirrorsHash'
  BY <1>2 DEF IInv, MirrorsHash, Running, workerVars
<1> QED
  BY <1>5, <1>6, <1>7, <1>8, <1>9 DEF IInv

(* Update changes the entry of the thread's own server, which is that of   *)
(* no other thread and of no server that still waits for its thread.       *)
LEMMA UpdateStep ==
  ASSUME IInv, NEW i \in 1 .. MaxRows, Update(i)
  PROVE  IInv'
<1>1. Running(i) /\ Alive(i) /\ AtWork /\ i \in DOMAIN nodeInfo
  <2>1. Running(i) /\ Alive(i)
    BY DEF Update, Running, Alive
  <2> QED
    BY <2>1, ListKeys DEF IInv, ThreadsOfList
<1>2. KeyOf(nodeInfo[i]) \in Key
  BY <1>1, ListKeys DEF IInv
<1>3. thread[i].current \in BOOLEAN
  BY DEF IInv, TypeOK
<1>4. /\ \A k \in Key : k # KeyOf(nodeInfo[i]) => keepshNodeHash'[k] = keepshNodeHash[k]
      /\ keepshNodeHash'[KeyOf(nodeInfo[i])] = AliveEntry(thread[i].current)
      /\ keepshNodeHash' \in [Key -> {"none", "alive", "dead"}]
      /\ AliveEntry(thread[i].current) # "none"
  BY <1>2, <1>3 DEF IInv, TypeOK, Update, AliveEntry
<1>5. /\ thread' \in [1 .. MaxRows -> [pc : {"none", "ping", "update", "sleep", "done"},
                                       latest : BOOLEAN, current : BOOLEAN]]
      /\ thread'[i].pc = "sleep" /\ thread'[i].latest = thread[i].current
      /\ \A j \in 1 .. MaxRows : j # i => thread'[j] = thread[j]
  BY <1>3 DEF IInv, TypeOK, Update
<1>6. UNCHANGED <<workerVars, envVars>>
  BY DEF Update
<1>7. TypeOK'
  BY <1>4, <1>5, <1>6 DEF IInv, TypeOK, workerVars, envVars
<1>8. \A j \in 1 .. MaxRows : Alive(j)' <=> Alive(j)
  BY <1>1, <1>5 DEF Alive
<1>9. ListFits' /\ AtWork'
  BY <1>1, <1>6 DEF IInv, ListFits, AtWork, workerVars
<1>10. ThreadsOfList'
  BY <1>6, <1>8 DEF IInv, ThreadsOfList, AtWork, workerVars
<1>11. Counted'
  <2>1. {j \in 1 .. MaxRows : Alive(j)'} = {j \in 1 .. MaxRows : Alive(j)}
    BY <1>8
  <2> QED
    BY <2>1, <1>6 DEF IInv, Counted, AtWork, workerVars
<1>12. HashOfList'
  <2>1. ASSUME NEW k \in Key, keepshNodeHash'[k] # "none"
        PROVE  \E j \in DOMAIN nodeInfo : k = KeyOf(nodeInfo[j])
    BY <2>1, <1>1, <1>4 DEF IInv, HashOfList
  <2>2. ASSUME wpc = "threads", NEW j \in next .. Len(nodeInfo)
        PROVE  keepshNodeHash'[KeyOf(nodeInfo[j])] = "alive"
    <3>1. j \in DOMAIN nodeInfo /\ j # i
      BY <2>2, <1>1, ListKeys DEF IInv, ThreadsOfList, TypeOK
    <3>2. KeyOf(nodeInfo[j]) \in Key /\ KeyOf(nodeInfo[j]) # KeyOf(nodeInfo[i])
      BY <3>1, <1>1, ListKeys DEF IInv
    <3> QED
      BY <3>2, <1>4, <2>2 DEF IInv, HashOfList
  <2> QED
    BY <2>1, <2>2, <1>6 DEF HashOfList, workerVars
<1>13. QuietBetween'
  BY <1>9 DEF QuietBetween, AtWork
<1>14. MirrorsHash'
  <2> SUFFICES ASSUME NEW j \in 1 .. MaxRows, Running(j)'
               PROVE  keepshNodeHash'[KeyOf(nodeInfo[j])] = AliveEntry(thread'[j].latest)
    BY <1>5, <1>6 DEF MirrorsHash, workerVars
  <2>1. CASE j = i
    BY <2>1, <1>4, <1>5
  <2>2. CASE j # i
    <3>1. thread'[j] = thread[j] /\ Running(j)
      BY <2>2, <1>5 DEF Running
    <3>2. j \in DOMAIN nodeInfo
      BY <3>1, ListKeys DEF IInv, ThreadsOfList, Running, Alive
    <3>3. KeyOf(nodeInfo[j]) \in Key /\ KeyOf(nodeInfo[j]) # KeyOf(nodeInfo[i])
      BY <2>2, <3>2, <1>1, ListKeys DEF IInv
    <3> QED
      BY <3>1, <3>3, <1>4 DEF IInv, MirrorsHash, TypeOK
  <2> QED
    BY <2>1, <2>2
<1> QED
  BY <1>7, <1>9, <1>10, <1>11, <1>12, <1>13, <1>14 DEF IInv

(* create_alive_list: no thread is there, and the list is that of a table. *)
LEMMA CreateAliveListStep == IInv /\ CreateAliveList => IInv'
<1> SUFFICES ASSUME IInv, CreateAliveList PROVE IInv'
  OBVIOUS
<1>1. \A i \in 1 .. MaxRows : ~Alive(i)
  BY DEF IInv, ThreadsOfList, CreateAliveList, AtWork
<1>2. UNCHANGED <<keepshNodeHash, numThreads, next, thread, envVars>>
  BY DEF CreateAliveList
<1>3. CASE got_sigterm
  <2>1. wpc' = "exit" /\ UNCHANGED <<join_flag, nodeInfo>>
    BY <1>3 DEF CreateAliveList
  <2> QED
    BY <2>1, <1>1, <1>2 DEF IInv, TypeOK, ListFits, ThreadsOfList, Counted, HashOfList,
                            QuietBetween, MirrorsHash, AtWork, Alive, Running, envVars
<1>4. CASE ~got_sigterm
  <2>1. wpc' = "info" /\ join_flag' = FALSE /\ nodeInfo' = AliveList(table)
    BY <1>4 DEF CreateAliveList
  <2>2. table \in Tables /\ wpc = "list"
    BY DEF IInv, TypeOK, CreateAliveList
  <2>3. TypeOK'
    BY <2>1, <2>2, <1>2, AliveListRows DEF IInv, TypeOK, envVars
  <2>4. ListFits'
    BY <2>1, <2>2, AliveListRows DEF ListFits
  <2>5. ThreadsOfList' /\ Counted' /\ HashOfList'
    BY <2>1, <1>1, <1>2 DEF ThreadsOfList, Counted, HashOfList, AtWork, Alive
  <2>6. QuietBetween' /\ MirrorsHash'
    BY <2>1, <2>2, <1>1, <1>2 DEF IInv, TypeOK, QuietBetween, MirrorsHash, Alive, Running
  <2> QED
    BY <2>3, <2>4, <2>5, <2>6 DEF IInv
<1> QED
  BY <1>3, <1>4
(* create_child_info enters the servers of the list in an empty table.     *)
LEMMA CreateChildInfoStep == IInv /\ CreateChildInfo => IInv'
<1> SUFFICES ASSUME IInv, CreateChildInfo PROVE IInv'
  OBVIOUS
<1> DEFINE Keys == {KeyOf(nodeInfo[i]) : i \in DOMAIN nodeInfo}
<1>1. \A i \in 1 .. MaxRows : ~Alive(i)
  BY DEF IInv, ThreadsOfList, CreateChildInfo, AtWork
<1>2. UNCHANGED <<nodeInfo, join_flag, thread, envVars>> /\ next' = 1 /\ numThreads' = 0
      /\ wpc' = "threads"
  BY DEF CreateChildInfo
<1>3. \A k \in Key : keepshNodeHash[k] = "none"
  BY DEF IInv, QuietBetween, CreateChildInfo
<1>4. keepshNodeHash' = [k \in Key |-> IF k \in Keys THEN "alive" ELSE keepshNodeHash[k]]
  BY DEF CreateChildInfo, AliveEntry
<1>5. Len(nodeInfo) \in Nat /\ DOMAIN nodeInfo = 1 .. Len(nodeInfo) /\ Keys \subseteq Key
  BY ListKeys DEF IInv
<1>6. TypeOK'
  BY <1>2, <1>4, <1>5 DEF IInv, TypeOK, envVars
<1>7. ListFits' /\ ThreadsOfList'
  BY <1>1, <1>2, <1>5 DEF IInv, ListFits, ThreadsOfList, Alive
<1>8. Counted'
  <2>1. {i \in 1 .. MaxRows : Alive(i)'} = {}
    BY <1>1, <1>2 DEF Alive
  <2> QED
    BY <2>1, <1>2, FS_EmptySet DEF Counted
<1>9. HashOfList'
  BY <1>2, <1>3, <1>4, <1>5 DEF HashOfList
<1>10. QuietBetween' /\ MirrorsHash'
  BY <1>1, <1>2 DEF IInv, TypeOK, QuietBetween, MirrorsHash, Alive, Running
<1> QED
  BY <1>6, <1>7, <1>8, <1>9, <1>10 DEF IInv

(* create_child_threads: a new thread starts from the entry made for it,   *)
(* and is one more.                                                        *)
LEMMA CreateChildThreadStep == IInv /\ CreateChildThread => IInv'
<1> SUFFICES ASSUME IInv, CreateChildThread PROVE IInv'
  OBVIOUS
<1>1. UNCHANGED <<keepshNodeHash, nodeInfo, join_flag, envVars>> /\ wpc = "threads"
  BY DEF CreateChildThread
<1>2. /\ Len(nodeInfo) \in Nat /\ Len(nodeInfo) <= MaxRows
      /\ DOMAIN nodeInfo = 1 .. Len(nodeInfo)
      /\ next \in 1 .. Len(nodeInfo) + 1 /\ DOMAIN thread = 1 .. MaxRows
  BY <1>1, ListKeys DEF IInv, ListFits, ThreadsOfList, TypeOK
<1>3. CASE next > Len(nodeInfo)
  <2>1. wpc' = "check" /\ UNCHANGED <<next, thread, numThreads>>
    BY <1>3 DEF CreateChildThread
  <2>2. {i \in 1 .. MaxRows : Alive(i)'} = {i \in 1 .. MaxRows : Alive(i)}
    BY <2>1 DEF Alive
  <2>3. TypeOK' /\ ListFits' /\ ThreadsOfList'
    BY <2>1, <1>1 DEF IInv, TypeOK, ListFits, ThreadsOfList, AtWork, Alive, envVars
  <2>4. Counted' /\ HashOfList'
    BY <2>1, <2>2, <1>1 DEF IInv, Counted, HashOfList, AtWork
  <2>5. QuietBetween' /\ MirrorsHash'
    BY <2>1, <1>1 DEF IInv, QuietBetween, MirrorsHash, Running
  <2> QED
    BY <2>3, <2>4, <2>5 DEF IInv
<1>4. CASE next <= Len(nodeInfo) /\ nodeInfo[next].ip = NoAddress
  <2>1. next' = next + 1 /\ UNCHANGED <<wpc, thread, numThreads>>
    BY <1>2, <1>4 DEF CreateChildThread
  <2>2. {i \in 1 .. MaxRows : Alive(i)'} = {i \in 1 .. MaxRows : Alive(i)}
    BY <2>1 DEF Alive
  <2>3. TypeOK'
    BY <2>1, <1>1, <1>2, <1>4 DEF IInv, TypeOK, envVars
  <2>4. ListFits' /\ ThreadsOfList'
    <3>1. nodeInfo' = nodeInfo /\ thread' = thread /\ wpc' = wpc
      BY <2>1, <1>1
    <3>2. \A i \in 1 .. MaxRows : i < next => i < next'
      BY <2>1, <1>2
    <3>3. next' <= Len(nodeInfo) + 1
      BY <2>1, <1>2, <1>4
    <3> QED
      BY <3>1, <3>2, <3>3 DEF IInv, ListFits, ThreadsOfList, AtWork, Alive
  <2>5. Counted' /\ HashOfList'
    <3>1. Counted'
      BY <2>1, <2>2, <1>1 DEF IInv, Counted, AtWork
    <3>2. next' .. Len(nodeInfo) \subseteq next .. Len(nodeInfo)
      BY <2>1, <1>2
    <3>3. HashOfList'
      BY <2>1, <3>2, <1>1 DEF IInv, HashOfList, AtWork
    <3> QED
      BY <3>1, <3>3
  <2>6. QuietBetween' /\ MirrorsHash'
    BY <2>1, <1>1 DEF IInv, QuietBetween, MirrorsHash, Running
  <2> QED
    BY <2>3, <2>4, <2>5, <2>6 DEF IInv
<1>5. CASE next <= Len(nodeInfo) /\ nodeInfo[next].ip # NoAddress
  <2>1. /\ next' = next + 1 /\ wpc' = wpc /\ numThreads' = numThreads + 1
        /\ thread' = [thread EXCEPT ![next] = Started]
    BY <1>2, <1>5 DEF CreateChildThread
  <2>2. next \in 1 .. MaxRows /\ next \in DOMAIN nodeInfo
    BY <1>2, <1>5
  <2>3. /\ Started \in [pc : {"none", "ping", "update", "sleep", "done"},
                        latest : BOOLEAN, current : BOOLEAN]
        /\ Started.pc = "ping" /\ Started.latest = TRUE
    BY DEF Started
  <2>4. ~Alive(next)
    BY <1>1, <1>2, <2>2 DEF IInv, ThreadsOfList
  <2>5. {i \in 1 .. MaxRows : Alive(i)'} = {i \in 1 .. MaxRows : Alive(i)} \cup {next}
    BY <2>1, <2>2, <2>3, <1>2 DEF Alive
  <2>6. Counted'
    <3>1. IsFiniteSet({i \in 1 .. MaxRows : Alive(i)})
      BY ThreadSets
    <3>2. Cardinality({i \in 1 .. MaxRows : Alive(i)} \cup {next})
            = Cardinality({i \in 1 .. MaxRows : Alive(i)}) + 1
      BY <3>1, <2>4, FS_AddElement
    <3> QED
      BY <2>1, <2>5, <3>2, <1>1 DEF IInv, Counted, AtWork
  <2>7. ListFits' /\ ThreadsOfList'
    <3>1. nodeInfo' = nodeInfo /\ wpc' = wpc /\ wpc = "threads"
      BY <2>1, <1>1
    <3>2. \A i \in 1 .. MaxRows : i < next => i < next'
      BY <2>1, <1>2
    <3>3. next' <= Len(nodeInfo) + 1 /\ next < next'
      BY <2>1, <1>2, <1>5
    <3>4. \A i \in 1 .. MaxRows : i # next => thread'[i] = thread[i]
      BY <2>1, <1>2
    <3>5. ListFits'
      BY <3>1 DEF IInv, ListFits
    <3>6. ASSUME NEW i \in 1 .. MaxRows, Alive(i)'
          PROVE  AtWork' /\ i <= Len(nodeInfo') /\ i < next' /\ nodeInfo'[i].ip # NoAddress
      <4>1. CASE i = next
        BY <4>1, <3>1, <3>3, <1>2, <1>5 DEF AtWork
      <4>2. CASE i # next
        <5>1. Alive(i)
          BY <4>2, <3>4, <3>6 DEF Alive
        <5> QED
          BY <5>1, <3>1, <3>2 DEF IInv, ThreadsOfList, AtWork
      <4> QED
        BY <4>1, <4>2
    <3> QED
      BY <3>1, <3>3, <3>5, <3>6 DEF ThreadsOfList
  <2>8. numThreads' \in 0 .. Len(nodeInfo)
    <3>1. {i \in 1 .. MaxRows : Alive(i)} \cup {next} \subseteq 1 .. Len(nodeInfo)
      BY <2>2, <1>2 DEF IInv, ThreadsOfList
    <3>2. IsFiniteSet(1 .. Len(nodeInfo)) /\ Cardinality(1 .. Len(nodeInfo)) = Len(nodeInfo)
      BY <1>2, Interval
    <3>3. /\ Cardinality({i \in 1 .. MaxRows : Alive(i)} \cup {next}) <= Len(nodeInfo)
          /\ IsFiniteSet({i \in 1 .. MaxRows : Alive(i)} \cup {next})
      BY <3>1, <3>2, FS_Subset
    <3>4. Cardinality({i \in 1 .. MaxRows : Alive(i)} \cup {next}) \in Nat
      BY <3>3, FS_CardinalityType
    <3>5. numThreads' = Cardinality({i \in 1 .. MaxRows : Alive(i)} \cup {next})
      BY <2>1, <2>5, <2>6, <1>1 DEF Counted, AtWork
    <3> QED
      BY <3>3, <3>4, <3>5, <1>2
  <2>9. TypeOK'
    BY <2>1, <2>2, <2>3, <2>8, <1>1, <1>2 DEF IInv, TypeOK, envVars
  <2>10. HashOfList'
    BY <2>1, <1>1, <1>2 DEF IInv, HashOfList, AtWork
  <2>11. QuietBetween'
    BY <2>1, <1>1 DEF QuietBetween
  <2>12. MirrorsHash'
    <3>1. keepshNodeHash[KeyOf(nodeInfo[next])] = AliveEntry(TRUE)
      BY <1>1, <1>2, <1>5 DEF IInv, HashOfList, AliveEntry
    <3> QED
      BY <2>1, <2>2, <2>3, <3>1, <1>1, <1>2 DEF IInv, MirrorsHash, Running
  <2> QED
    BY <2>6, <2>7, <2>9, <2>10, <2>11, <2>12 DEF IInv
<1> QED
  BY <1>2, <1>3, <1>4, <1>5

(* When a thread cannot be created the worker ends, and all threads.       *)
LEMMA CreateThreadFailsStep == IInv /\ CreateThreadFails => IInv'
<1> SUFFICES ASSUME IInv, CreateThreadFails PROVE IInv'
  OBVIOUS
<1>1. /\ wpc' = "exit" /\ UNCHANGED <<keepshNodeHash, nodeInfo, join_flag, numThreads, next, envVars>>
      /\ thread' = [i \in 1 .. MaxRows |-> NoThread]
  BY DEF CreateThreadFails
<1>2. NoThread \in [pc : {"none", "ping", "update", "sleep", "done"},
                    latest : BOOLEAN, current : BOOLEAN]
      /\ NoThread.pc = "none"
  BY DEF NoThread
<1>3. TypeOK'
  BY <1>1, <1>2 DEF IInv, TypeOK, envVars
<1> QED
  BY <1>1, <1>2, <1>3 DEF IInv, ListFits, ThreadsOfList, Counted, HashOfList, QuietBetween,
                          MirrorsHash, AtWork, Alive, Running

(* join_childs tells the threads to finish.                                *)
LEMMA CheckServerInfoStep == IInv /\ CheckServerInfo => IInv'
<1> SUFFICES ASSUME IInv, CheckServerInfo PROVE IInv'
  OBVIOUS
<1>1. /\ wpc = "check" /\ wpc' = "join" /\ join_flag' = TRUE
      /\ UNCHANGED <<keepshNodeHash, nodeInfo, numThreads, next, thread, envVars>>
  BY DEF CheckServerInfo
<1>2. {i \in 1 .. MaxRows : Alive(i)'} = {i \in 1 .. MaxRows : Alive(i)}
  BY <1>1 DEF Alive
<1>3. TypeOK' /\ ListFits' /\ ThreadsOfList'
  BY <1>1 DEF IInv, TypeOK, ListFits, ThreadsOfList, AtWork, Alive, envVars
<1>4. Counted' /\ HashOfList'
  BY <1>1, <1>2 DEF IInv, Counted, HashOfList, AtWork
<1>5. QuietBetween' /\ MirrorsHash'
  BY <1>1 DEF IInv, QuietBetween, MirrorsHash, Running
<1> QED
  BY <1>3, <1>4, <1>5 DEF IInv

(* delete_oldhash: as many threads have finished as there are, so none is  *)
(* left, and every key that is entered is one of the list.                 *)
LEMMA DeleteOldHashStep == IInv /\ DeleteOldHash => IInv'
<1> SUFFICES ASSUME IInv, DeleteOldHash PROVE IInv'
  OBVIOUS
<1> DEFINE All == {i \in 1 .. MaxRows : Alive(i)}
           Done == {i \in 1 .. MaxRows : thread[i].pc = "done"}
           Keys == {KeyOf(nodeInfo[i]) : i \in DOMAIN nodeInfo}
<1>1. /\ wpc = "join" /\ wpc' = "list" /\ UNCHANGED <<nodeInfo, join_flag, numThreads, next, envVars>>
      /\ keepshNodeHash' = [k \in Key |-> IF k \in Keys THEN "none" ELSE keepshNodeHash[k]]
      /\ thread' = [i \in DOMAIN thread |-> IF thread[i].pc = "done" THEN NoThread ELSE thread[i]]
  BY DEF DeleteOldHash
<1>2. DOMAIN thread = 1 .. MaxRows
  BY DEF IInv, TypeOK
<1>3. Done = All
  <2>1. Cardinality(Done) >= numThreads /\ numThreads = Cardinality(All)
    BY <1>1, <1>2 DEF IInv, Counted, AtWork, DeleteOldHash, ThreadsJoined
  <2>2. Done \subseteq All
    BY DEF Alive
  <2>3. IsFiniteSet(All) /\ Cardinality(All) \in Nat /\ Cardinality(Done) \in Nat
    BY ThreadSets
  <2>4. Cardinality(Done) <= Cardinality(All) /\ (Cardinality(All) = Cardinality(Done) => All = Done)
    BY <2>2, <2>3, FS_Subset
  <2> QED
    BY <2>1, <2>3, <2>4
<1>4. \A i \in 1 .. MaxRows : thread'[i].pc = "none"
  BY <1>1, <1>2, <1>3 DEF Alive, NoThread
<1>5. \A k \in Key : keepshNodeHash'[k] = "none"
  BY <1>1 DEF IInv, HashOfList, AtWork
<1>6. TypeOK'
  <2>1. NoThread \in [pc : {"none", "ping", "update", "sleep", "done"},
                      latest : BOOLEAN, current : BOOLEAN]
    BY DEF NoThread
  <2>2. thread' \in [1 .. MaxRows -> [pc : {"none", "ping", "update", "sleep", "done"},
                                     latest : BOOLEAN, current : BOOLEAN]]
    BY <2>1, <1>1, <1>2 DEF IInv, TypeOK
  <2>3. keepshNodeHash' \in [Key -> {"none", "alive", "dead"}]
    BY <1>1 DEF IInv, TypeOK
  <2> QED
    BY <2>2, <2>3, <1>1 DEF IInv, TypeOK, envVars
<1>7. ListFits' /\ ThreadsOfList' /\ Counted' /\ HashOfList'
  BY <1>1, <1>4 DEF IInv, ListFits, ThreadsOfList, Counted, HashOfList, AtWork, Alive
<1>8. QuietBetween' /\ MirrorsHash'
  BY <1>1, <1>2, <1>4, <1>5 DEF QuietBetween, MirrorsHash, Running
<1> QED
  BY <1>6, <1>7, <1>8 DEF IInv

(* Every step keeps the invariant.                                         *)
LEMMA NextIInv == IInv /\ [Next]_vars => IInv'
<1> SUFFICES ASSUME IInv, [Next]_vars PROVE IInv'
  OBVIOUS
<1>1. CASE Worker
  BY <1>1, CreateAliveListStep, CreateChildInfoStep, CreateChildThreadStep, CheckServerInfoStep,
     DeleteOldHashStep DEF Worker
<1>2. CASE CreateThreadFails
  BY <1>2, CreateThreadFailsStep
<1>3. ASSUME NEW i \in 1 .. MaxRows, Thread(i)
      PROVE  IInv'
  <2>1. CASE Ping(i)
    <3>1. Running(i) /\ i \in DOMAIN nodeInfo /\ nodeInfo[i].ip \in Address
      <4>1. Running(i) /\ Alive(i)
        BY <2>1 DEF Ping, Running, Alive
      <4>2. i \in DOMAIN nodeInfo /\ nodeInfo[i].ip # NoAddress
        BY <4>1, ListKeys DEF IInv, ThreadsOfList
      <4>3. nodeInfo[i] \in Row
        BY <4>2 DEF IInv, TypeOK
      <4> QED
        BY <4>1, <4>2, <4>3 DEF Row
    <3>2. up[nodeInfo[i].ip] \in BOOLEAN
      BY <3>1 DEF IInv, TypeOK
    <3>3. /\ thread' \in [1 .. MaxRows -> [pc : {"none", "ping", "update", "sleep", "done"},
                                           latest : BOOLEAN, current : BOOLEAN]]
          /\ \A j \in 1 .. MaxRows : j # i => thread'[j] = thread[j]
          /\ thread'[i].pc # "none" /\ thread'[i].latest = thread[i].latest
      <4>1. PICK p \in {"update", "sleep"}, c \in BOOLEAN :
              thread' = [thread EXCEPT ![i] = [thread[i] EXCEPT !.current = c, !.pc = p]]
        BY <2>1, <3>2, Zenon DEF Ping
      <4>2. /\ thread \in [1 .. MaxRows -> [pc : {"none", "ping", "update", "sleep", "done"},
                                            latest : BOOLEAN, current : BOOLEAN]]
            /\ i \in 1 .. MaxRows
        BY DEF IInv, TypeOK
      <4> QED
        BY <4>1, <4>2
    <3>4. UNCHANGED <<keepshNodeHash, workerVars, envVars>>
      BY <2>1 DEF Ping
    <3>5. TypeOK'
      BY <3>3, <3>4 DEF IInv, TypeOK, workerVars, envVars
    <3> QED
      BY <3>1, <3>3, <3>4, <3>5, ThreadMoves
  <2>2. CASE Update(i)
    BY <2>2, UpdateStep
  <2>3. CASE Wake(i)
    <3>1. /\ thread' \in [1 .. MaxRows -> [pc : {"none", "ping", "update", "sleep", "done"},
                                           latest : BOOLEAN, current : BOOLEAN]]
          /\ \A j \in 1 .. MaxRows : j # i => thread'[j] = thread[j]
          /\ thread'[i].pc # "none" /\ thread'[i].latest = thread[i].latest
      <4>1. PICK p \in {"done", "ping"} : thread' = [thread EXCEPT ![i].pc = p]
        BY <2>3 DEF Wake
      <4>2. thread[i] \in [pc : {"none", "ping", "update", "sleep", "done"},
                           latest : BOOLEAN, current : BOOLEAN]
        BY DEF IInv, TypeOK
      <4>3. /\ [thread[i] EXCEPT !.pc = p] \in
                 [pc : {"none", "ping", "update", "sleep", "done"},
                  latest : BOOLEAN, current : BOOLEAN]
            /\ [thread[i] EXCEPT !.pc = p].pc = p
            /\ [thread[i] EXCEPT !.pc = p].latest = thread[i].latest
        BY <4>1, <4>2
      <4>4. thread' = [thread EXCEPT ![i] = [thread[i] EXCEPT !.pc = p]]
        BY <4>1
      <4> QED
        BY <4>1, <4>3, <4>4 DEF IInv, TypeOK
    <3>2. Running(i) /\ UNCHANGED <<keepshNodeHash, workerVars, envVars>>
      BY <2>3 DEF Wake, Running
    <3>3. TypeOK'
      BY <3>1, <3>2 DEF IInv, TypeOK, workerVars, envVars
    <3> QED
      BY <3>1, <3>2, <3>3, ThreadMoves
  <2> QED
    BY <1>3, <2>1, <2>2, <2>3 DEF Thread
<1>4. CASE ChangeTable \/ Flip \/ Sigterm
  <2>1. UNCHANGED <<keepshNodeHash, workerVars, thread>>
    BY <1>4 DEF ChangeTable, Flip, Sigterm
  <2>2. /\ table' \in Tables /\ up' \in [Address -> BOOLEAN]
        /\ got_sigterm' \in BOOLEAN
    BY <1>4 DEF IInv, TypeOK, ChangeTable, Flip, Sigterm
  <2>3. TypeOK'
    BY <2>1, <2>2 DEF IInv, TypeOK, workerVars
  <2> QED
    BY <2>1, <2>3, EnvironmentStep
<1>5. CASE UNCHANGED vars
  <2>1. TypeOK' /\ UNCHANGED <<keepshNodeHash, workerVars, thread>>
    BY <1>5 DEF IInv, TypeOK, vars, workerVars
  <2> QED
    BY <2>1, EnvironmentStep
<1> QED
  BY <1>1, <1>2, <1>3, <1>4, <1>5 DEF Next

(* The invariant holds, whatever the table, its changes and the pings.     *)
THEOREM Invariance == Spec => []IInv
<1>1. Init => IInv
  BY InitIInv
<1>2. IInv /\ [Next]_vars => IInv'
  BY NextIInv
<1> QED
  BY <1>1, <1>2, PTL DEF Spec

(* While the worker makes a new list no thread of the old one is left, and *)
(* no entry: join_childs and delete_oldhash miss none of them.             *)
THEOREM QuietBetweenAlways == Spec => []QuietBetween
<1>1. IInv => QuietBetween
  BY DEF IInv
<1> QED
  BY <1>1, Invariance, PTL

(* latest_isAlive of every ping thread is the state of its server in the   *)
(* hash table, so pgspider_check_childnnode misses no change of it.        *)
THEOREM MirrorsHashAlways == Spec => []MirrorsHash
<1>1. IInv => MirrorsHash
  BY DEF IInv
<1> QED
  BY <1>1, Invariance, PTL
==============================================================================
