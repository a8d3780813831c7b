------------------------------ MODULE Keepalive ------------------------------
(***************************************************************************)
(* pgspider_keepalive: a background worker that pings the servers listed   *)
(* in pg_spd_node_info, one thread for each, and keeps whether they answer *)
(* in a shared hash table.  The backends look there for the servers of a   *)
(* query or of an INSERT.                                                  *)
(*                                                                         *)
(* pg_spd_node_info and the servers change without notice.  A row is a     *)
(* record of the name of the server, the name of its FDW and its address.  *)
(***************************************************************************)
EXTENDS Integers, Sequences, FiniteSets

CONSTANTS
  Tables,       \* the contents pg_spd_node_info may have, sequences of rows
  Name, Fdw, Address,
  NoAddress,    \* the empty string
  MaxRows,      \* rows pg_spd_node_info may have
  MaxChanges,   \* changes of pg_spd_node_info
  MaxFlips      \* servers that go down or come up

Row == [name : Name, fdw : Fdw, ip : Address \cup {NoAddress}]
Key == Name \X (Address \cup {NoAddress})

(* Every row is a foreign server of its own, and servers have unique names.*)
ASSUME KeepaliveAssumption ==
  /\ Tables \subseteq Seq(Row)
  /\ MaxRows \in Nat
  /\ \A t \in Tables : /\ Len(t) <= MaxRows
                       /\ \A i, j \in DOMAIN t : t[i].name = t[j].name => i = j
  /\ NoAddress \notin Address
  /\ {MaxChanges, MaxFlips} \subseteq Nat

VARIABLES
  table, up,            \* pg_spd_node_info; whether each address answers
  keepshNodeHash,       \* the shared hash table: "none" is no entry
  nodeInfo,             \* the worker's list of servers
  join_flag, got_sigterm, numThreads,
  wpc, next,            \* the worker: its place, the next thread to create
  thread,               \* the threads: place, latest_isAlive, current_isAlive
  nchanges, nflips

vars == <<table, up, keepshNodeHash, nodeInfo, join_flag, got_sigterm, numThreads, wpc, next,
          thread, nchanges, nflips>>
workerVars == <<nodeInfo, join_flag, numThreads, wpc, next>>
envVars == <<table, up, got_sigterm, nchanges, nflips>>

NoThread == [pc |-> "none", latest |-> TRUE, current |-> TRUE]

Init ==
  /\ table \in Tables
  /\ up \in [Address -> BOOLEAN]
  /\ keepshNodeHash = [k \in Key |-> "none"]
  /\ nodeInfo = <<>>
  /\ join_flag = FALSE /\ got_sigterm = FALSE
  /\ numThreads = 0
  /\ wpc = "list" /\ next = 1
  /\ thread = [i \in 1 .. MaxRows |-> NoThread]
  /\ nchanges = 0 /\ nflips = 0

-----------------------------------------------------------------------------
(* The environment.                                                        *)

ChangeTable ==
  /\ nchanges < MaxChanges
  /\ table' \in Tables \ {table}
  /\ nchanges' = nchanges + 1
  /\ UNCHANGED <<up, keepshNodeHash, workerVars, got_sigterm, thread, nflips>>

Flip ==
  /\ nflips < MaxFlips
  /\ \E a \in Address : up' = [up EXCEPT ![a] = ~@]
  /\ nflips' = nflips + 1
  /\ UNCHANGED <<table, keepshNodeHash, workerVars, got_sigterm, thread, nchanges>>

Sigterm ==
  /\ ~got_sigterm /\ wpc # "exit"
  /\ got_sigterm' = TRUE
  /\ UNCHANGED <<table, up, keepshNodeHash, workerVars, thread, nchanges, nflips>>

-----------------------------------------------------------------------------
(* The hash table.                                                         *)

KeyOf(row) == <<row.name, row.ip>>

AliveEntry(isAlive) == IF isAlive THEN "alive" ELSE "dead"

(* check_server_ipname with the name and the address that a backend has    *)
(* read from pg_spd_node_info: a server that is not in the hash is alive.  *)
CheckServerIpname(row) == keepshNodeHash[KeyOf(row)] # "dead"

(* The rows as create_alive_list returns them: griddb_fdw has no address.  *)
AliveList(t) ==
  [i \in DOMAIN t |-> IF t[i].fdw = "griddb_fdw" THEN [t[i] EXCEPT !.ip = NoAddress] ELSE t[i]]

-----------------------------------------------------------------------------
(* The threads: pgspider_check_childnnode.                                 *)

Ping(i) ==
  /\ thread[i].pc = "ping"
  /\ LET alive == up[nodeInfo[i].ip]
     IN  thread' = [thread EXCEPT ![i].current = alive,
                                  ![i].pc = IF alive # thread[i].latest THEN "update" ELSE "sleep"]
  /\ UNCHANGED <<keepshNodeHash, workerVars, envVars>>

(* The entry is updated under hash_mutex, and entered if it is not there.  *)
Update(i) ==
  /\ thread[i].pc = "update"
  /\ keepshNodeHash' = [keepshNodeHash EXCEPT ![KeyOf(nodeInfo[i])] = AliveEntry(thread[i].current)]
  /\ thread' = [thread EXCEPT ![i].latest = thread[i].current, ![i].pc = "sleep"]
  /\ UNCHANGED <<workerVars, envVars>>

(* Mutant: the flag is not looked at.                                      *)
MutWake(i) ==
  /\ thread[i].pc = "sleep"
  /\ thread' = [thread EXCEPT ![i].pc = "ping"]
  /\ UNCHANGED <<keepshNodeHash, workerVars, envVars>>

(* After a sleep the thread looks whether it has to finish.                *)
Wake(i) ==
  /\ thread[i].pc = "sleep"
  /\ thread' = [thread EXCEPT ![i].pc = IF join_flag THEN "done" ELSE "ping"]
  /\ UNCHANGED <<keepshNodeHash, workerVars, envVars>>

-----------------------------------------------------------------------------
(* The worker: worker_pgspider_keepalive.                                  *)

(* create_alive_list, unless the worker has to terminate.                  *)
CreateAliveList ==
  /\ wpc = "list"
  /\ IF got_sigterm
       THEN wpc' = "exit" /\ UNCHANGED <<join_flag, nodeInfo>>
       ELSE wpc' = "info" /\ join_flag' = FALSE /\ nodeInfo' = AliveList(table)
  /\ UNCHANGED <<keepshNodeHash, numThreads, next, thread, envVars>>

(* create_child_info: every server is taken for alive at first.            *)
CreateChildInfo ==
  /\ wpc = "info" /\ wpc' = "threads"
  /\ keepshNodeHash' = [k \in Key |-> IF k \in {KeyOf(nodeInfo[i]) : i \in DOMAIN nodeInfo}
                                      THEN AliveEntry(TRUE) ELSE keepshNodeHash[k]]
  /\ next' = 1 /\ numThreads' = 0
  /\ UNCHANGED <<nodeInfo, join_flag, thread, envVars>>

(* Mutant: a new thread knows nothing of the state it is to compare with.  *)
MutStarted == [pc |-> "ping", latest |-> FALSE, current |-> TRUE]

(* latest_isAlive of a new thread is what create_child_info has entered.   *)
Started == [pc |-> "ping", latest |-> TRUE, current |-> TRUE]

(* create_child_threads, one server at a time; one without an address has  *)
(* no thread.                                                              *)
CreateChildThread ==
  /\ wpc = "threads"
  /\ IF next > Len(nodeInfo)
       THEN wpc' = "check" /\ UNCHANGED <<next, thread, numThreads>>
       ELSE /\ next' = next + 1
            /\ UNCHANGED wpc
            /\ IF nodeInfo[next].ip # NoAddress
                 THEN /\ thread' = [thread EXCEPT ![next] = Started]
                      /\ numThreads' = numThreads + 1
                 ELSE UNCHANGED <<thread, numThreads>>
  /\ UNCHANGED <<keepshNodeHash, nodeInfo, join_flag, envVars>>

(* A thread cannot be created: the error ends the worker, which is never   *)
(* restarted, and with it its threads.                                     *)
CreateThreadFails ==
  /\ wpc = "threads" /\ next <= Len(nodeInfo) /\ nodeInfo[next].ip # NoAddress
  /\ wpc' = "exit"
  /\ thread' = [i \in 1 .. MaxRows |-> NoThread]
  /\ UNCHANGED <<keepshNodeHash, nodeInfo, join_flag, numThreads, next, envVars>>

(* Mutant: only the number of servers is compared.                         *)
MutSameServers(new, old) == Len(new) = Len(old)

(* check_server_info compares the names of the servers and of their FDWs.  *)
SameServers(new, old) ==
  /\ Len(new) = Len(old)
  /\ \A i \in DOMAIN new : new[i].name = old[i].name /\ new[i].fdw = old[i].fdw

(* check_server_info finds a change, or has to terminate; join_childs.     *)
CheckServerInfo ==
  /\ wpc = "check"
  /\ got_sigterm \/ ~SameServers(AliveList(table), nodeInfo)
  /\ wpc' = "join" /\ join_flag' = TRUE
  /\ UNCHANGED <<keepshNodeHash, nodeInfo, numThreads, next, thread, envVars>>

(* Mutant: the worker does not wait.                                       *)
MutThreadsJoined == TRUE

ThreadsJoined == Cardinality({i \in DOMAIN thread : thread[i].pc = "done"}) >= numThreads

(* All threads are joined: delete_oldhash, and the list is made again.     *)
DeleteOldHash ==
  /\ wpc = "join" /\ ThreadsJoined
  /\ wpc' = "list"
  /\ keepshNodeHash' = [k \in Key |-> IF k \in {KeyOf(nodeInfo[i]) : i \in DOMAIN nodeInfo}
                                      THEN "none" ELSE keepshNodeHash[k]]
  /\ thread' = [i \in DOMAIN thread |-> IF thread[i].pc = "done" THEN NoThread ELSE thread[i]]
  /\ UNCHANGED <<nodeInfo, join_flag, numThreads, next, envVars>>

Worker ==
  \/ CreateAliveList \/ CreateChildInfo \/ CreateChildThread \/ CheckServerInfo \/ DeleteOldHash

Thread(i) == Ping(i) \/ Update(i) \/ Wake(i)

Next ==
  \/ Worker \/ CreateThreadFails \/ (\E i \in 1 .. MaxRows : Thread(i))
  \/ ChangeTable \/ Flip \/ Sigterm

(* The worker and its threads are scheduled by the operating system; a     *)
(* ping ends after timeout_time, a sleep or a wait on the latch after      *)
(* keepalive_time.                                                         *)
Fairness == WF_vars(Worker) /\ \A i \in 1 .. MaxRows : WF_vars(Thread(i))

Spec == Init /\ [][Next]_vars /\ Fairness

-----------------------------------------------------------------------------
(* Types; there are no more threads than servers in the list.              *)
TypeOK ==
  /\ table \in Tables
  /\ up \in [Address -> BOOLEAN]
  /\ keepshNodeHash \in [Key -> {"none", "alive", "dead"}]
  /\ nodeInfo \in Seq(Row)
  /\ {join_flag, got_sigterm} \subseteq BOOLEAN
  /\ wpc \in {"list", "info", "threads", "check", "join", "exit"}
  /\ wpc \in {"threads", "check", "join"} => numThreads \in 0 .. Len(nodeInfo)
  /\ next \in 1 .. MaxRows + 1
  /\ thread \in [1 .. MaxRows -> [pc : {"none", "ping", "update", "sleep", "done"},
                                  latest : BOOLEAN, current : BOOLEAN]]

Running(i) == thread[i].pc \in {"ping", "update", "sleep"}

(* When the worker makes the list anew, the old list, which it has freed,  *)
(* is used by no thread, and the hash table has no entry left of it: no    *)
(* late ping enters a server again that was deleted.                       *)
QuietBetween ==
  wpc \in {"list", "info"} => /\ \A i \in DOMAIN thread : ~Running(i)
                              /\ \A k \in Key : keepshNodeHash[k] = "none"

(* What a thread believes to be the state of its server in the hash table, *)
(* and compares its next ping with, is what is there: whatever the worker  *)
(* deletes and enters again, no change is lost by that.                    *)
MirrorsHash ==
  \A i \in DOMAIN thread :
    Running(i) => keepshNodeHash[KeyOf(nodeInfo[i])] = AliveEntry(thread[i].latest)

(* When pg_spd_node_info and the servers no longer change, the worker's    *)
(* list has the servers of the table, in its order, and a backend, which   *)
(* asks with the address it finds in the table, gets the right answer for  *)
(* every one of them - if the worker is still there.  Two kinds of servers *)
(* are alive whatever they do: those that are not pinged, and those that   *)
(* have got another address since the list was made, which the worker does *)
(* not notice.                                                             *)
EventuallyRight ==
  <>[](\/ wpc = "exit"
       \/ /\ Len(table) = Len(nodeInfo)
          /\ \A i \in DOMAIN table :
               LET ip == AliveList(table)[i].ip
               IN  /\ table[i].name = nodeInfo[i].name
                   /\ CheckServerIpname(table[i])
                        = (ip # NoAddress /\ ip = nodeInfo[i].ip => up[ip]))

(* After SIGTERM the worker ends, whatever its threads are doing.          *)
Terminates == got_sigterm ~> wpc = "exit"
==============================================================================
