# PGSpider: a verification project

PGSpider is a fork of PostgreSQL that answers a query on one *multi-tenant*
table from the tables of many data sources. The extension `pgspider_core_fdw`
holds the logic of its own: it starts one thread per child node inside the
backend, lets each run the foreign data wrapper (FDW) of its node, and merges
what they return; for INSERT, UPDATE and DELETE it hands rows to such threads.
`pgspider_fdw` connects one PGSpider to another, and a background worker keeps
track of the nodes that are alive. This directory models these parts in TLA+,
checks them with TLC on small instances, and proves with TLAPS, for every value
of the constants, the safety properties of the tuple queue between the threads,
of scans, of both kinds of modifying statements, of the routing of inserted rows, of
remote transactions and of the keepalive worker.

Line numbers without a file name are of
`src/contrib/pgspider_core_fdw/pgspider_core_fdw.c`; `connection.c` is that of
`src/contrib/pgspider_fdw`.

## 1. Inventory

| Component | State | Operations | Modelled by |
|---|---|---|---|
| Tuple queue (234-254, 1118-1344) | ring of slots, `start`, `len`, `queue_state`, `main_process_idx`, `safe_to_clear`; two tuple memory contexts of the child (2974-3014) | init, add, get, reset, notify finish / error | `SpdTupleQueue`, `TupleChannel`, `TupleStream` |
| Foreign scan threads (2758-3621, 8364-8410, 9408-9617, 11318-11933) | per thread `state` and the requests start, rescan, end; `scan_mutex`; `startNodeId`, `lastThreadId`; the counter of running threads | the thread's life (begin, rescan, wait, iterate, end, exit), `IterateForeignScan`, `ReScanForeignScan`, `EndForeignScan` | `ForeignScan` |
| Transaction callbacks (8412-8901 and `xact.c`) | `requestPendingChildThread`, `child_thread_force_end`, nesting level | pend and wake threads around a subtransaction, end them at commit or abort | `ForeignScan` |
| Foreign modify threads (8453-8480, 13655-15757) | `ModifyThreadInfo.state`, `requestExecModify`, `requestEndModify`, batch sizes, `child_node_status` | begin, wait, execute one row or a batch, notify errors, end; the least common multiple of batch sizes | `ForeignModify`, `ModifyStatement` |
| Direct modify threads (8364-8410, 12440-13049) | `ForeignScanThreadInfo.state`, the state of the queue, the child's row count | begin, iterate, end; adding up the rows | `DirectModify`, `ModifyStatement` |
| Insert routing (`pgspider_core_routing.c`, 14884-14972, 15024-15156) | last target of each table in dynamic shared memory; `child_node_status`, the array of modify threads | validate candidates, choose and remember a target, split a batch | `InsertRouting`, `RoutingSessions` |
| Aggregate merge (9620-10560, 11780-11830) | temporary table, rows of the merge query (`agg_values`, `agg_num`, `agg_tuples`) | create, fill, query, hand out, drop; again on rescan | `AggregateScan` |
| Keepalive worker (`pgspider_keepalive.c`) | list of servers, hash of their state in shared memory | one ping thread per server, list rebuilt after changes, look-up by backends | `Keepalive` |
| `pgspider_fdw` connections (`connection.c`) | connection cache, remote nesting depth, changing / invalidated flags | get, begin, savepoints, the transaction callbacks, cancel, abort, discard, invalidate | `RemoteXact` |
| Compressed transfer of insert data (`pgspider_fdw.c`, socket server thread) | sockets, pending `SocketThreadInfo`s | accept, match, send, end | planned |
| Planner, deparser, options, time measurement, `setup_cluster` | plan trees, text | sequential construction | not modelled: no concurrency, and out of TLC's reach |
| Other changes to core (thread-local memory contexts, error stacks, GUC copies) | per thread | | not modelled, except the hooks of `xact.c` |

The rest of the repository is PostgreSQL itself and is taken for granted.

**Interaction.** The executor calls the main thread (the backend) for rows. The
main thread polls the queues of its child threads round robin and never copies
a tuple: it returns the slot of the ring itself, and gives it back at its next
call. It steers the threads by plain variables (`requestStartScan`,
`requestRescan`, `requestEndScan`, `requestExecModify`, and `state`, which both
sides write), few of which a lock protects. Core calls the transaction
callbacks around subtransactions; these ask all threads of a scan to pend, wait
until no state says "executing", and let core go on. An error of any scan sets
a flag that is global to the backend. When the child FDW is `pgspider_fdw` its
child threads share one connection cache, and core's transaction callbacks end
the remote transactions. Sessions share only the last target of each table and
the keepalive hash.

**What is hard.** The reuse of a slot and of its memory while the main thread
still reads both; `spd_queue_add` sleeping with its mutex held; a rescan or an
end that arrives at any point of a thread's life; begin put off for
`mysql_fdw` children; a child that dies while the others go on; states that
are written over each other; a callback that looks at the threads one by one;
a flag for all scans; a row handed over by a slot and a request; a batch split
over children with different batch sizes; a rotation that is read, used
without the lock and written back; savepoints opened late and several at once;
sessions lost in the middle of a transaction; a commit that fails at one of
several servers; a hash table removed and made again under the threads that
write to it; results kept of a scan before a rescan. `PROJECT.json` lists these
hazards with their lines and with the properties that would catch them going
wrong.

**What makes each component correct.** Queue: FIFO, nothing lost or changed
under the reader, the end told after the last tuple. Scan: the rows of each
child since the last rescan, in order and once; all of them before NULL;
begin / iterate / rescan / end of the child FDW in a legal order; every call
returns; no thread is left behind. Callbacks: no child is in its FDW while core
changes the transaction; they return. Modify: every row is applied once or the
statement fails; nothing is applied after its end; it ends. Routing: even
distribution over rows, statements and sessions; a URL is obeyed. Aggregates:
the merged result is that of one query over all rows; no temporary table is
left. Remote transactions: the remote transaction follows the local one level
by level; a local commit has all its writes committed; nothing is left open.
Keepalive: a backend is told the right state once the world stands still.

## 2. Modules

| Module | Content |
|---|---|
| `SpdTupleQueue` | the struct and the `spd_queue_*` functions as operators on a record |
| `TupleStream` | abstract: a bounded stream with one tuple in use |
| `TupleChannel` | one child loop and the main loop on one queue, with both memory contexts; refinement mapping to `TupleStream` |
| `RingArithmetic` | lemmas on `%` and `\div` |
| `TupleChannelProofs` | the theorems on `TupleChannel` |
| `ForeignScan` | N child threads, the main thread, the executor's calls and the callbacks |
| `ModifyStatement` | abstract: rows are applied at most once, success means all of them, and the statement ends |
| `ForeignModify` | INSERT, UPDATE and DELETE through child threads; implements `ModifyStatement` |
| `DirectModify` | UPDATE and DELETE pushed down to the children; implements `ModifyStatement` |
| `InsertRouting` | the choice of a target as operators |
| `RoutingSessions` | sessions that insert into one table |
| `AggregateScan` | split aggregates, temporary table, merge query, rescans |
| `RemoteXact` | connections of `pgspider_fdw` and the transactions on them |
| `Keepalive` | the worker, its ping threads, the shared hash |
| `ForeignScanProofs`, `ForeignModifyProofs`, `DirectModifyProofs`, `RoutingSessionsProofs`, `RemoteXactProofs`, `KeepaliveProofs` | the theorems on the modules of those names |
| `MC*` | constants for TLC |

### The queue and its two users

A tuple is its ordinal. `q` is the record `SpdTupleQueue`; `tuplectx[i]` is the
set of tuples whose memory context `i` holds, and a reset empties it. The
child's loop is `ChildFetch` (with the reset at the head of the loop), then
`ChildAdd`, or `ChildSpin` and `ChildWake` when `spd_queue_add` has to wait for
`safe_to_clear`. `ChildFinish` and `ChildFail` close the queue. The main
thread's call is `MainCall` (it gives the last tuple back) followed by
`MainGet` or `MainEnd`. `TupleChannel` reads a scan to its end; scans that are
cut short belong to `ForeignScan`.

### The scan

Each thread has a place `cpc` in `spd_ForeignScan_thread` and the functions it
calls, with one action per stretch of code between two accesses to variables
that the other side writes. A call of the child FDW is two actions where its
duration matters (`BeginCall` / `BeginReturn`, `EndScan` / `EndReturn`); the
FDW is external and may return, end or, for the children in `MayFail`, raise an
error at any call. The main thread's place is `mpc`; a loop over the threads
takes one step per thread (`node_incr`). `Ask` holds what the executor and core
may call when they like, `Serve` the rest of the calls. The end of a scan that
the executor asks for and the one at the end of the transaction share their
actions (`EndRequest`, `EndJoin`).

Core's errors are modelled by their effect: after `ThrowError` the only calls
that follow are those of an abort.

### Modifying statements

`ForeignModify` follows the same conventions. `mode` is the statement, chosen
in `Init` from `Modes`: operation, number of rows, the batch_size option, the
batch size of each child's FDW, `throwCandidateError`, and whether rows may
carry a URL; UPDATE stands for DELETE, whose loop is the same. The child's life
is `BeginCall`, `AfterBegin`, for INSERT the wait of `SizedCheck` and
`AwaitInsert` until it is told how to insert, the loop `EnterLoop`,
`TakeRequest`, `ExecCall`, `ExecDone` / `ExecFail`, and `PreEnd` to
`ThreadExit`. The main thread gets the batch size (`GetBatchSize`), tells the
threads (`SetState*`, one lock for all of them), sends rows (`SendRow`,
a batch by `SplitSlots`, `SplitRow` for each of its rows and `SendBatch`,
`SendUpdate`), waits for them, notifies errors one thread at a time (`Notify*`)
and ends (`MarkDead`, `RequestEnd`, `Join`, `Finish`). The target of a single
row, and of the first row of a batch, is any candidate here, since that choice
is the subject of `InsertRouting`; the rows of a batch follow it round robin,
or go to the child their URL names. `sent` and `applied` are history.

`DirectModify` has the calls of the child FDW as two actions each, because
other threads see the locks held during them; the queue passes only its state.

### Routing

Child tables are numbers and their names are numbers, whose order stands for
`strcmp`. `threads` of a session maps a thread to its child and leaves out the
children that were no candidates when the statement began, so the two indices
differ as they do in the code. Look-up and update of the shared entry by a
simple insert is one action, since the lock of the hash entry is held; a batch
is `SplitStart` (under the lock), then `SplitDone` or `SplitFail` (under the
lock again), and other sessions move in between. A row with a URL that the
statement has just scanned from a child (INSERT ... SELECT, row by row) goes
back to that child if it has a thread here, and is not routed at all
(`InsertScanned`, 14914-14936). `byUrl` holds the rows with a URL of the last
step: where each went, its URL, and the child it was scanned from.

### Aggregates

`ChildRow` is what a child answers, with the aggregates that AVG, VARIANCE and
SPREAD are split into; `TempTable` is what the main thread collects and
`MergedRow` the query over it. Numbers are exact and a fraction is a pair of
integers; only the quotient SUM(x)/2, which the code truncates by hand, rounds
as the code does. `FirstIterate` creates, fills and queries the table,
`NextIterate` hands out what is kept, `ReScan` takes new rows and drops the
table, `Shutdown` drops what is left. `Reference` is the same aggregate over
all rows at once, defined without the split.

### Remote transactions

`entry` is the cache entry of each server and `remote` the session there
(external): whether it is up, the writes of each level of its transaction,
whether that has failed, and whether a query is running. A statement gets a
connection (`GetConnection`), opens the missing levels (`BeginRemote`, tried a
second time with a new session after `BeginLost`) and writes (`Query`). A
callback looks at the entries in any order (`todo`) and commits, releases,
rolls back or gives up each; with `parallel_commit` and `parallel_abort` all
commands are sent before the first result is read. `LoseSession`, `Inval` and
`Disconnect` come at any time the code allows for. With `ConcurrentFirstUse`
child threads may create the cache twice; the connections of the lost table are
`orphans`.

### Keepalive

The worker's loop is `CreateAliveList`, `CreateChildInfo`, `CreateChildThread`
or `CreateThreadFails`, `CheckServerInfo`, `DeleteOldHash` after all threads
have left. A ping thread is `Ping`, `Update` and `Wake`. The table
`pg_spd_node_info` and the servers change without notice. A backend looks a
server up under the address it reads from that table (`CheckServerIpname`; 2616,
4542-4546), not under the one the worker has in its list.

## 3. Runs

| Run | Shows |
|---|---|
| `tuple_channel` | ring of 3, 10 rows: `TypeOK`, the slot in use stays intact, memory of queued and used tuples stays alive, the inductive invariant `IInv`, and the refinement to `TupleStream` with its liveness |
| `scan_limit` | two children, one with parameters, the other with rows enough to sleep; the executor may rescan once and stop anywhere: order, completeness, one end per child, legal FDW calls; every call returns, unless it waits for a child that sleeps |
| `scan_fail` | both children may fail at any call, one is a late `mysql_fdw` child, `throwErrorIfDead` on or off: no truncated result is reported as complete, all threads are joined; calls return as in `scan_limit` |
| `scan_sub` | a scan opened in a subtransaction that is committed or aborted, another one around its fetches, `statement_timeout` set, a child that may fail or sleep and one that waits for parameters, forced ends by this scan or by another one: no child is in its FDW while the transaction changes, unless an error has been thrown; callbacks return, unless they wait for a child that sleeps or has no parameters |
| `modify` | INSERTs row by row and in batches, a candidate that drops out, UPDATEs, errors at any call: rows in order and once, no error hidden, a clean end, and the refinement to `ModifyStatement` with its liveness |
| `direct_modify` | three children, two of which may fail: the row count is exact, a clean end, refinement to `ModifyStatement` |
| `routing` | two sessions, three children on two servers, one of which may refuse updates or be renamed; rows with and without a URL, by themselves, in batches, or scanned from a child |
| `aggregate` | eight aggregates, with and without GROUP BY and HAVING, one rescan: the answer is that of one query over all rows, no table is left |
| `remote_xact` | two servers, one of them parallel, two transactions with a subtransaction level, a lost session, failed commits and cancels, invalidation, concurrent first use |
| `keepalive` | the worker against changes of the table and of the servers, SIGTERM and threads that cannot be created; what backends are told becomes right, the worker ends |
| `stale_groups` | violation, see below |
| `sleeping_child` | violation, see below |

**Bounds.** The length of the ring is 2 for scans and 3 for the channel: 2 is
the smallest length with a slot besides the one in use, and a third gives
indices that are neither first nor last. In most runs rows go over the ring at
least once; 10 rows on a ring of 3 use each memory context twice. Two child threads are
enough for the round robin, for a dead child beside a living one, and for a
callback that looks at one thread while another moves on. A child
has four rows, two rounds of the ring, since that is what it takes to sleep in
`spd_queue_add` on the slot in use; `scan_fail` also has scans of five rows that
are read to their end. One rescan and one further
subtransaction are enough to meet every point of a thread's life; with
`ScanLevel` 2 the scan itself is inside another.

Modify: three rows on two children give one child a second row, and the
modes hold child batch sizes 1/1, 2/1 and 2/2, whose computed batch sizes (1, 2
and 3, the limit, instead of 4) mean row by row, two batches, and one batch for
both children.
Direct modify: 1, 2 and 4 rows, so that every subset of children
has a sum of its own. Routing: three children make
a wrong step different from a right one modulo the number of threads, two
sessions meet between the halves of a batch, four rows go once round.
Aggregates: two children, groups that both, one or none of them have, NULLs
and negative numbers. Remote: two levels and two transactions meet a savepoint
opened late and an entry used again; three writes put one on each level and at
each server; one lost session falls at any point. Keepalive: two names and two
addresses, so that a server can be added, removed, replaced and moved; two
changes and two flips overlap every step of the worker.
History variables: `delivered`, `byUrl` (of the last step), `undisturbed`, `sent`, `applied`,
`kept`, `committed`, `returned` and those their modules name.

**Fairness.** Weak fairness of each child thread and of `Serve` (scans), `Main`
(modify, direct modify) or `Worker` (keepalive): threads are
scheduled by the operating system, and a call that was made goes on. Nothing
makes the executor or core call (`Ask` has no fairness); in a modifying
statement the executor does go on until the end. A child FDW call is
assumed to return. In `TupleChannel` alone the executor reads the scan to its
end, so that the fairness of the stream is met. No strong fairness is used: the waits of the code are
polling loops on conditions that, once true, stay so until seen, and where
that is not so TLC says so. `AggregateScan` and `RemoteXact` are sequential
but for their environment, and only safety is stated of them. `remote_xact` and
`keepalive` do not check for deadlock: a session that has used up its bounds,
and a worker that has ended, stop. Nor do `scan_limit`, `scan_fail` and
`scan_sub`: a main thread that waits for a sleeping child is stopped for good
once the other threads have left. `CallsReturn` and `CallbacksReturn` say
that it is stopped nowhere else: `Stuck` is the main thread waiting, in the loop
it is in, for just the thread that sleeps, or that has no parameters.

**Disagreements found.** Two have a run and an entry under `findings`.

* `stale_groups` (10163): when the merge query of a rescan returns no row, the
  function leaves before it resets what it kept, although the comment at 10188
  asks for the reset. In the run a grouped scan returns its one group, is
  rescanned with a parameter that matches no row, and returns that group again.
* `sleeping_child` (1188): a child that waits in `spd_queue_add` for
  `safe_to_clear` looks at no request, although the loop around it says "If
  rescan or endscan is requested, break immediately." (3103). A scan that is
  ended or rescanned there waits for the thread for ever. This takes 2L rows on a
  ring of length L and an executor that stops after the first L, or an error.

The following were found with the same modules, each by the constants named,
and have no run of their own:

* stale rows (11753): a rescan skips a failed child and leaves its old rows
  in the queue. (`scan_fail` with `MaxReScans = 1` and `InOrder`.)
* release truncates (8846): the threads of a cursor opened in a
  subtransaction are ended when that is released; the cursor lives on and its
  result is cut off. (`scan_sub` with `EofComplete`.)
* error not safe (11349): ERROR is written over the states of threads at
  work, which are then taken for safe. (`scan_sub` with `TxnSafe` without its exception
  for `outcome = "failed"` and `force_end`.)
* rescan not safe (3266-3267): `spd_RescanForeignScanChild` takes back
  `requestRescan` before it sets the state to BEGIN. The main thread returns from
  the rescan in between, and a subtransaction that starts then takes the thread,
  still PRE_END, for safe; it begins to fetch while core changes the transaction.
  (`scan_sub` with `MaxReScans = 1` violates `TxnSafe`, also without time-outs.)
* forced end not safe (3178-3181, 3225): a thread that read the flag of a forced end asks
  itself to end; if the flag is reset before it reads it again, it calls
  `EndForeignScan` on its own account, possibly while core starts the next
  subtransaction. (`scan_sub` with `MaxSubXacts = 2` violates `TxnSafe`, also
  without failures and time-outs.)
* uneven batches (15153): a batch overwrites the target that another session
  chose while it was split, and the rows are not distributed evenly, against
  the "evenly" of `README.md:21`. (`Even` in `routing`, also without
  URLs, renames and refusals.)
* After an error `EndForeignScan` of a healthy child may be called twice
  (3563), and so may `EndForeignModify` (14371-14377) and `EndDirectModify`
  (8401, 12465, 12589); the properties ask for one end where nothing failed.
* A rescan may be asked of a child whose late begin has not happened
  (3255), and a late child that is told of an error iterates unbegun
  (3466-3505): `FdwProtocol` is checked in `scan_limit` only.
* A thread that waits for its parameters, or sleeps, keeps
  `spd_wait_transaction_thread_safe` waiting (8609): the exception of `Stuck` in
  `CallbacksReturn`. Threads pended at the end of a subtransaction are woken only
  by the next callback (8679); hence `scan_sub` checks that callbacks return, not
  that fetches do.
* A row of INSERT ... SELECT that was scanned from a child of the table goes back
  to that child whatever its URL names, and the last target stays as it was
  (14914-14936); `UrlObeyed` says so of these rows.
* A forced end makes other scans of the backend report a truncated result as
  complete (11502) and skips `EndForeignScan` (3181).
* Modify: `spd_set_fm_state` (15308) locks the mutex of the first thread for
  all of them; another one may write PRE_EXEC over the state it was told and
  wait for ever at 14317. (Mode `Insert(2, 2, Sizes(2, 1), TRUE, FALSE)` violates
  `Implements`; with computed batch sizes the wait before hides it.) The same
  write may put EXEC over the ERROR_INIT of a child whose begin has failed: its
  thread goes on to insert without a begun modify and the error is gone. (The same
  mode violates `ExecOnBegun` and `NoErrorLost`, which is why the theorems on
  them ask for `Waited`.)
* With `throwCandidateError` off a batch is also sent to a thread whose begin
  failed (15261), and the main thread waits for it for ever; a single row whose
  URL names a dropped candidate is lost without an error (14961), and so are
  UPDATE rows of a child that has no thread (15540). With `throwErrorIfDead` off a failure of the last
  UPDATE row is lost.
* A modify inside a subtransaction hangs the callbacks: its threads never read
  the request to pend (8616-8629, 8684-8726, 8763-8776).
* Direct modify: ERROR_INIT may be written over by a notification, and a
  failure of `EndDirectModify` is not reported (13023).
* Remote transactions: two child threads that use `pgspider_fdw` for the first
  time together create the cache twice (`connection.c` 182-202; the lock of
  13665 is a read lock), and nobody ends the transactions of the connections in
  the lost table; a local commit then lacks their writes. A connection that was
  rejected in a subtransaction is disconnected with the writes of the outer
  levels on it, and the transaction commits without them (`connection.c`
  1270-1279). Both violate `outcome = "committed" => kept[1] \subseteq committed`
  under `Remote.cfg`, which is why `CommitComplete` leaves them out.
* Two aggregate scans in a plan leave the temporary table of one behind
  (11816-11819; `NScans = 2` violates `NoTableLeft`). The truncation of a
  negative SUM(x)/2 rounds the wrong way (10032-10040, 10088), so `MergeRight`
  asks for that quotient only where the sum is not negative. COUNT is NULL if all children die.
* Keepalive: a changed address of a server is never noticed, although the comment
  says name and IP are compared (490-492; the code compares name and FDW,
  494-499). The worker goes on to ping the old address, while backends ask for the
  new one, which has no entry: the server is taken for alive whether it is up or
  not. `EventuallyRight` asks for the right answer where the address is still the
  one the worker has, and for "alive" elsewhere. A worker
  that dies is not restarted (`BGW_NEVER_RESTART`) and leaves its entries; after
  the list is made anew every server counts as alive until its first ping.
* `spd_candidate_alive` copies error data when there is
  no error in progress, so a child the keepalive worker holds for dead fails
  every INSERT, whatever `throwCandidateError` says.

## 4. Theorems

Every theorem is about the specification of its module for every value of the
constants that its assumptions allow; TLC evaluates the same assumptions on the
runs. Each proof has the same shape: an invariant that is inductive (mostly `IInv`),
one lemma per action or group of actions (what the acting thread establishes,
what the others keep), and the properties as consequences of it.

### The tuple queue (`TupleChannelProofs`, `RingArithmetic`)

For every length of the ring (`QueueLen >= 1`) and every number of rows:
`TypeCorrect`, `SlotIntactAlways`, `MemoryAliveAlways`, and
`Refinement`: `Spec => Stream!SafeSpec`. The assumptions are
`QueueLenAssumption`, `MaxRowsAssumption` and `NoTupleAssumption`.

`SlotIntact` is not inductive: that the child keeps off the slot in use follows
from where that slot is. `IInv` therefore adds `RingOrder` (tuple `n`, while
queued, is in slot `n % QueueLen`, and `start` and `len` say which those are),
`SlotBlocked` (the slot in use is the one before `start`, and the ring never
gets full while there is one) and `AddReady` (a tuple being added already lies
in its context; a sleeping child sleeps because of the slot in use). The step
that matters is `StoreStep`: the slot spd_queue_add computes is that of the
next tuple, numbers less than a round apart have different slots
(`ModDistinct`), and the tuple in use is exactly a round back only when the
child waits. That `SPD_LAST_GET_IDX` does not wrap around at `start = 0` (145)
does no harm because `main_process_idx` is compared as well. For the memory,
`SameParityIsOld` says that when a round begins, all tuples of the context
being reset are more than a round old, so none is queued or in use. The
refinement follows step by step from the invariant.

### The scan (`ForeignScanProofs`)

For any number of children and rows, any length of the ring, any children that
may fail, begin late or wait for parameters, any number of rescans and of
subtransactions. `ScanAssumption` only says that the constants have their types
and that there is a thread and a level. Each property of the environment is a
hypothesis of the theorem that needs it, and TLC refutes the property without it:

| Theorem | Property | Where |
|---|---|---|
| `TypeCorrect` | `TypeOK` | always |
| `RescanReturns` | `RescanDoneByAll`: a rescan that has returned was done by every thread that is not leaving | always |
| `AllJoined` | `NoThreadLeft`: the end of a scan leaves no thread | always |
| `OrderSinceRescan` | `InOrderSinceRescan`: order and once, of a child that has done the last rescan | no forced end by another scan, or no rescan |
| `Ordered` | `InOrder` | no rescan; or no failure and `ScanLevel = 1`. A failed child, or one that a released subtransaction has ended, keeps its old rows over a rescan |
| `CompleteAtEof` | `EofComplete` | `ScanLevel = 1`, no forced end: both truncate results |
| `EndedOnce` | `EndOnce` | as long as no error is thrown (`Live`), no forced end: after either, two places may end a child |
| `EndsClean` | `CleanEnd` | no forced end, which skips `EndForeignScan` |
| `SafeTransactions` | `TxnSafe`, which leaves out what follows a thrown error ("error not safe" in section 3) | no forced end by another scan, no rescan ("rescan not safe"); children may fail and time out |
| `ProtocolKept` | `FdwProtocol` | no late begin, no forced end |

`StaysLive` adds that no error is ever thrown where `throwErrorIfDead` is off or
where nothing fails, as in `scan_limit`. The safety properties of `scan_limit` and
`scan_fail` are instances of the theorems; `scan_sub` goes further than
`SafeTransactions` in one respect: another scan may force the threads to end
there, in one further subtransaction.

There is one invariant for all of them, `IInv`, with the same hypotheses inside
(`Quiet`, `TopLevel`, `NoFailure`, `NoRescan`), so that each action is dealt
with once. None of the properties is inductive by itself, since the threads and
the main thread steer each other by flags that both write:

* `Counted`: the counter of running threads is their number.
* `RescanOrder`, `RescanInv`: which of `requestRescan`, the child's rescans and
  the main thread's loops (ask, start, wait) are ahead of which. A thread that
  has left, or is about to and reads no request any more (`Doomed`), is
  exempt; all others have rescanned when the call returns.
* `StreamInv`: what was received (`Received`), the ring (`Queued`) and the row at
  hand (`AtHand`) are consecutive rows of the present scan, if the child has
  done the last rescan, and the ring is empty until its first row (`EmptyFirst`).
  `TupleAdded` and `TupleTaken` are the steps that matter; they use
  `RingArithmetic`, as the channel's proof does.
* `StateInv`, `WaitInv`: as long as no error is on its way (`Live`), the state a
  thread shows says where it is. `ThrowError` writes over it, and from then on
  nothing is claimed of it.
* `EndAsked`, `CleanInv`, `OnceInv`: who may ask a thread to end, and that the
  request and the call of `EndForeignScan` follow each other; only the main
  thread that waits for just this thread (`Joining`) does, except after an error.
  `EndsInv`, proved from `IInv`, says why a child that has ended is not ended
  again: the request was taken back, or the thread failed and skips the call.
* `FinishInv` and `EofInv`: a queue says FINISH only when its rows have all been
  read by its thread, and the main thread's round has found complete all the
  queues it has passed, in the order of the round robin from `startNodeId`.
* `JoinInv`: the loops that join threads leave none out. `SafeInv`: a thread found
  safe stays so until core is done. `BegunInv`: begin comes first. `LevelInv` and
  `OutcomeInv`: which calls can be going on at which level and outcome.

A step of a child changes what belongs to its thread (`Updates`), so the others
keep their parts (`SameThread`) and the main thread its own; there is one lemma
per action (`ThreadStartStep` to `ThreadFinalStep`) with one step per part.
A step of the main thread is shown for the thread it is about and for the rest
(`CreateDoneStep` to `OtherScanFailsStep`). `IInv` and `EndsInv` were checked by TLC
first, with failures, time-outs, late begins, rescans and subtransactions
(up to 2.2 million states).

### Modifying statements (`ForeignModifyProofs`)

For any number of children, any set of statements and batch sizes, and any
children that may fail: `TypeCorrect`; `InOrderAlways` (each child applies a
prefix of the rows it was sent, in their order and once); `CleanEndAlways` (with
`throwErrorIfDead`, a statement that succeeds has ended every modify it began,
once); `ExecOnBegunWaited` and `NoErrorLostWaited` (no row is applied before
the begin or after the end, and no error is hidden), both where `Waited` holds,
that is for UPDATE, DELETE and INSERT with computed batch sizes. The conditions
are the code's: with the batch_size option the main thread does not wait before
it writes the states of the threads, and with `throwErrorIfDead` off an error
is not reported; TLC refutes both properties without them (section 3).

`IInv` has, for each thread, `RowsInv` (the rows sent are those applied,
followed by those handed over and not yet applied, with the thread's place
saying which of `slots` and `todo` these are; the main thread hands over
no row while the child has one, unless the child is out of its loop), `CallInv`
(a failure of the FDW stands in the state), `BegunInv` (a thread in its loop
has begun, which needs the wait), `StartInv` (while the main thread writes
states, no thread that has begun can have an error there to lose) and
`CalmEnd`: as long as no error is on its way, the main thread alone asks for
the end, of one thread at a time, and only that thread is in its end. Without
the last one the requests that an error notification leaves behind would have
to be followed through the end of every thread. `MainInv` says what the main
thread has looked at or joined so far. `BatchSizePositive` is why a batch always
gets on: the computed size is a least common multiple of positive numbers, at
least one. `CutRows`, `PrefixExtend` and `SendRows` are the facts on sequences.

### Direct modification (`DirectModifyProofs`)

For any number of children, any row counts and failures: `CountExactAlways`
(the count of a statement that succeeds is the sum of what the children
modified), `CleanEndAlways`, and `ImplementsStatement`: `Spec =>
Statement!SafeSpec`, the safety part of the refinement to `ModifyStatement`.

That a count is complete is decided by looking at one queue after the other
while the children go on. `RowsInv` and `QueueInv` say that a queue that is not
open any more tells how its child has come out and that this is final, `MainInv`
that the queues passed so far have all done so; `EndInv` and `CalmEnd` follow
the two places that call `EndDirectModify`. The sum is a fold, of which only
two facts are used: it is the same function of equal row counts, and a
state that changes no count changes no sum.

### Remote transactions (`RemoteXactProofs`)

For any servers and options, any nesting of subtransactions, any number of
transactions and of lost sessions, with or without concurrent first use:
`TypeCorrect` (an entry is never deeper than the local transaction),
`RemoteFollowsAlways`, `CommitCompleteAlways` and `CleanIdleAlways`.
`RemoteAssumption` only says that the options are sets of servers and that the
bounds are numbers, with at least one level.

`RemoteFollows` speaks of the moments between statements; the invariant has to
say what holds in the middle of a callback that has dealt with some connections
and not with others. `Passed` tells the two kinds apart. For one that is passed,
the levels are those the local transaction will have when the callback returns
(`KeptAfter`: the last level merged into the one before, or dropped), for the
others those it still has; `LevelInv` says so for every level, and `CommitInv`
that a server has committed its writes exactly if the commit is passed, or the
session was lost in the middle of it. Both hold only while every connection is
in a known state (`Known`): a failed command leaves `changing_xact_state` set,
which `Unknown` follows until the transaction aborts or the connection is given
up; a later callback finds it and refuses to commit, so that `CommitComplete`
need not claim anything that is not known. `SentInv` says which commands can be
outstanding in which callback, also after an error in the middle of sending
them; `SessionInv` ties the depth of an entry to the session, and `DoneInv`
says that a transaction that has failed at its server waits for its abort and
that a top-level callback leaves clean connections only. A callback step changes
one connection: `Frame` shows once that the invariant of the others is kept, so
that each action is proved for its own connection (`CallbackStep`, `RunStep`).
The exception is an error in a callback (`RaiseStep`), after which the abort
looks at all connections again.

### Routing (`RoutingSessionsProofs`)

For every finite set of children, any number of sessions, rows and renames and
any size of a batch: `TypeCorrect`, `UrlObeyedAlways`, `NotTwiceRunningAlways`
and `EvenIfUndisturbedAlways`. `RoutingAssumption` says that there are children,
that names are numbers and that a new name is not one of the first. Rows scanned
from a child are among those of `UrlObeyed`: they go back to that child.

`Safe` is inductive by itself and carries the first three. It says that no two
children have the same name and that the threads of every statement are in the
order of their children's names (`ThreadsOrdered`; a child is only renamed while
no statement is open). `ByNameOrders` shows that sorting by name puts every child
somewhere: the ranks of n different names are 0 to n - 1 (`Ranks`, a pigeonhole
argument). `ChooseFinds` is what `spd_routing_choose` does with any threads and
any candidates: if its target is not after the last one then no candidate is, and
it is the first of all. So a child that follows itself is the only candidate.

`RoundRobin` is what evenness needs in addition. After T rows without a URL the
i-th child by name has got as many as there are numbers below T whose remainder
modulo the number of children is i (`Turns`), and the entry in shared memory is
the child of T - 1, or there is no entry and T is a whole number of rounds. While a
batch is split this does not hold of the entry; instead `start` is the remainder
of T, and one session at most is there (`OneSplit`). `ChooseInTurn` shows that
`spd_routing_choose` takes the child of T, `TurnsOfBatch` that the rows of a batch
without a URL, wherever those with one stand between them, take the turns T,
T + 1 and so on, and `TurnsEven` that such counts differ by one at most.

### Keepalive (`KeepaliveProofs`)

For every set of names and addresses and every table of at most `MaxRows` rows
with distinct server names (a row is meant to be a foreign server of its own;
the catalog has no index that enforces it):
`QuietBetweenAlways` (when the list is made anew no thread uses the old one, and
the hash table has no entry left) and `MirrorsHashAlways` (what a thread
compares its next ping with is what the hash table says of its server).

`Counted` is the heart: the counter that `delete_old_hash` waits for is the
number of threads that have been created and have not left, also after a
thread could not be created. `ThreadsOfList` and `ListFits` tie the threads to
the list they were made for, and `HashOfList` says the table has the keys of that
list and no other, so that two threads never write one entry (`KeysApart`).

### Only model-checked

Liveness (`CallsReturn`, `CallbacksReturn`, `EventuallyRight`, `Terminates`,
and the fairness part of `ImplementsStream` and of `Implements`) is out of the
prover's reach. So is what the folds of `AggregateScan` compute for every
input. `Implements` of `ForeignModify` is not a theorem, as it does not hold for
every mode (section 3). Of `AggregateScan`, which is sequential, `MergeRight` and
`NoTableLeft` stay with TLC: the first says what the folds compute, and the
second follows a single flag through calls that come one after another. The
invariants of the proof modules (`IInv`, `Routes`) were first checked by TLC under
configurations like those of the runs.

## 5. What is left out

* of the scan: EXPLAIN, children whose aggregate is computed by the main
  program (`pseudo_agg`), the wait of INSERT ... SELECT for the first row of
  some children (11595-11608),
  progress reports, and errors raised by `ReScanForeignScan` or by a late
  begin, which run outside `PG_TRY`;
* of modifying statements: EXPLAIN, the compressed transfer, the mutexes they
  share with scans of the same node (oracle and `scan_modify`), subtransactions
  (they hang, see above), RETURNING of a direct modify, which the planner refuses;
* of routing: setting up the shared memory, prepared statements, URLs of more
  than one level, and the
  uninitialised entry that an error in `spd_routing_choose` may leave behind;
* of aggregates: children that fail, functions other than the eight, the arithmetic of types, ORDER
  BY and DISTINCT inside aggregates;
* of remote transactions: prepared statements and DEALLOCATE ALL, asynchronous
  requests, PREPARE TRANSACTION, what `connect_pg_server` checks, errors raised
  inside the abort callback, and a callback of another FDW that fails after ours;
* the components marked planned or not modelled in section 1.

## 6. Plan

1. The compressed transfer of `pgspider_fdw`.
2. A proof of `NoTableLeft` of `AggregateScan`.
