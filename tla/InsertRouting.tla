---------------------------- MODULE InsertRouting ----------------------------
(***************************************************************************)
(* How a row of an INSERT finds its child table (pgspider_core_routing.c   *)
(* and spd_split_slots).                                                   *)
(*                                                                         *)
(* The child tables are kept in the order of their names, both in the list *)
(* of children and in the array of modify threads, which leaves out those  *)
(* that were no candidates when the statement began.  The last target is   *)
(* remembered by its name, in shared memory.  Names are numbers, whose     *)
(* order stands for that of strcmp.                                        *)
(***************************************************************************)
EXTENDS Integers, FiniteSets, FiniteSetsExt

CONSTANTS
  Table,    \* the child tables of the multi-tenant table
  Server,   \* Server[c]: the server of child c
  NoUrl,    \* __spd_url is not given
  NoName    \* no last target is remembered

(* child_node_status, as far as INSERT tells the values apart.             *)
ChildStatus == {"Alive", "NotTarget"}

(* Mutant: status_is_set is false, as it is when the statement is planned. *)
MutSpdUrlStatus(status, u) ==
  IF u = NoUrl THEN status
               ELSE [c \in Table |-> IF Server[c] = u \/ status[c] = "Alive" THEN "Alive" ELSE "In"]

(* spd_routing_candidate_spdurl for the URL u of a server: the children of *)
(* that server are candidates, whatever they were, and no others.          *)
SpdUrlStatus(status, u) ==
  IF u = NoUrl THEN status
               ELSE [c \in Table |-> IF Server[c] = u THEN "Alive" ELSE "NotTarget"]

(* spd_check_candidate_count                                               *)
HasCandidate(status) == \E c \in Table : status[c] = "Alive"

(* The threads, by index, whose child is a candidate.                      *)
Candidates(threads, status) == {i \in DOMAIN threads : status[threads[i]] = "Alive"}

(* Mutant: the last target itself passes for the one after it.             *)
MutIsAfter(name, prev_name) == name >= prev_name

(* strcmp(prev_name, relname) < 0                                          *)
IsAfter(name, prev_name) == name > prev_name

(* spd_routing_choose: the first candidate after the last target, or the   *)
(* first one.  It fails when there is none.                                *)
RoutingChoose(prev_name, threads, status, relname) ==
  LET candidates == Candidates(threads, status)
      after == {i \in candidates : prev_name # NoName /\ IsAfter(relname[threads[i]], prev_name)}
  IN  Min(IF after # {} THEN after ELSE candidates)

(* The rows of a batch that have no URL, before its k-th.                  *)
RowsBefore(rows, k) == {j \in DOMAIN rows : j < k /\ rows[j] = NoUrl}

(* Mutant: threads are taken for children, without childInfoIndex.         *)
MutThreadsOf(threads, u) == {i \in DOMAIN threads : i \in Table /\ Server[i] = u}

(* The threads of the server u.                                            *)
ThreadsOf(threads, u) == {i \in DOMAIN threads : Server[threads[i]] = u}

(* Mutant: threads are taken for children, without childInfoIndex.         *)
MutScannedThreads(threads, c) == {i \in DOMAIN threads : i = c}

(* The thread, if any, of the child that a row was scanned from: server    *)
(* and table are those that the scan has noted with the row.               *)
ScannedThreads(threads, c) == {i \in DOMAIN threads : threads[i] = c}

(* spd_split_slots: the thread of the k-th row, round robin from start, or *)
(* the first one of the server its URL names.                              *)
SlotTarget(start, threads, rows, k) ==
  IF rows[k] = NoUrl
    THEN (start + Cardinality(RowsBefore(rows, k))) % Cardinality(DOMAIN threads)
    ELSE Min(ThreadsOf(threads, rows[k]))

(* Every URL of the batch names a server that has a thread.                *)
RowsHaveTargets(threads, rows) ==
  \A k \in DOMAIN rows : rows[k] = NoUrl \/ ThreadsOf(threads, rows[k]) # {}

(* The thread remembered after the batch: that of its last row without a   *)
(* URL or, if there is none, the one before start.                         *)
SplitLast(start, threads, rows) ==
  LET num_child == Cardinality(DOMAIN threads)
  IN  (start + Cardinality({k \in DOMAIN rows : rows[k] = NoUrl}) - 1 + num_child) % num_child

(* Mutant: a batch that fails leaves the rotation where it put it.         *)
MutSplitReset(start, threads) == start

(* The thread remembered when the batch fails: the one before start.       *)
SplitReset(start, threads) ==
  LET num_child == Cardinality(DOMAIN threads)
  IN  (start - 1 + num_child) % num_child
==============================================================================
