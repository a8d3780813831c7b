-------------------------- MODULE RoutingSessions --------------------------
(***************************************************************************)
(* Sessions that INSERT into one multi-tenant table.  They share the last  *)
(* target, an entry of a hash in dynamic shared memory; each look-up and   *)
(* each update of the entry is done under its lock.                        *)
(*                                                                         *)
(* A row of a simple insert looks up and updates the entry in one go.  A   *)
(* batch does so for its first row, is then distributed without the lock,  *)
(* and updates the entry again for its last row.                           *)
(*                                                                         *)
(* Every statement is planned when it is run.  Every child begins its      *)
(* modification without an error and takes the rows it is sent.            *)
(***************************************************************************)
EXTENDS InsertRouting, Functions

CONSTANTS
  Session,
  Urls,        \* the URLs a row may have, NoUrl among them
  BadUrl,      \* a URL that is malformed or names no server
  NewNames,    \* names that a child table may be given
  MayRefuse,   \* children that may turn out not to be updatable
  MaxBatch,    \* bound: rows of a batch, 0 when batching is disabled
  MaxRows,     \* bound: rows that are routed
  MaxRenames   \* bound: child tables renamed

ASSUME RoutingAssumption ==
  /\ IsFiniteSet(Table) /\ Table # {} /\ Table \subseteq Nat
  /\ DOMAIN Server = Table /\ \A c \in Table : Server[c] \notin {NoUrl, BadUrl}
  /\ NoUrl \in Urls /\ NoUrl # BadUrl
  /\ NoName \notin Nat
  /\ NewNames \subseteq Nat /\ NewNames \cap Table = {}
  /\ MayRefuse \subseteq Table
  /\ {MaxBatch, MaxRows, MaxRenames} \subseteq Nat

VARIABLES
  relname,      \* the names of the child tables in the catalog
  entry,        \* SpdRoutingElem: the last target, and its name at that time
  pc,           \* of each session: its statement inserts rows, or batches, if any
  status,       \* childinfo[].child_node_status of its statement
  threads,      \* mtThrdInfo[].childInfoIndex of its statement
  start,        \* start_child of its batch
  \* history: the number of rows without a URL that each child got, the rows
  \* with a URL that the last step sent, whether the rotation was left to
  \* itself, and a count that bounds the model
  delivered, byUrl, undisturbed, renames

sessionVars == <<pc, status, threads, start>>
vars == <<relname, entry, sessionVars, delivered, byUrl, undisturbed, renames>>

(* Of a session without a statement.                                       *)
NoChildren == [c \in {} |-> NoName]

(* The names start out in the order of the children.                       *)
Init ==
  /\ relname = [c \in Table |-> c]
  /\ entry = [child |-> NoName, tablename |-> NoName]
  /\ pc = [s \in Session |-> "idle"]
  /\ status = [s \in Session |-> NoChildren]
  /\ threads = [s \in Session |-> NoChildren]
  /\ start = [s \in Session |-> 0]
  /\ delivered = [c \in Table |-> 0]
  /\ byUrl = {}
  /\ undisturbed = TRUE
  /\ renames = 0

-----------------------------------------------------------------------------
(* The children of S by name, as spd_calculate_datasource_count lists them *)
(* and spd_BeginForeignModify gives them threads.                          *)
ByName(S) ==
  [i \in 0 .. Cardinality(S) - 1 |->
     CHOOSE c \in S : Cardinality({d \in S : relname[d] < relname[c]}) = i]

(* spd_PlanForeignModify (spd_routing_candidate_validate) and              *)
(* spd_BeginForeignModify.  Children that are not updatable are no         *)
(* candidates (spd_GetForeignModifyBatchSize settles whether rows go one   *)
(* by one or in batches).  Without any candidate the statement fails, and  *)
(* nothing has happened.  (A child that the keepalive worker holds for     *)
(* dead makes it fail as well: spd_candidate_alive reports the message of  *)
(* an error when there is none.)                                           *)
Begin(s) ==
  /\ pc[s] = "idle"
  /\ \E refused \in SUBSET MayRefuse :
       /\ refused # Table
       /\ status' = [status EXCEPT ![s] =
                       [c \in Table |-> IF c \in refused THEN "NotTarget" ELSE "Alive"]]
       /\ threads' = [threads EXCEPT ![s] = ByName(Table \ refused)]
       /\ undisturbed' = (undisturbed /\ refused = {})
  /\ \E mode \in {"rows", "batches"} :
       /\ mode = "batches" => MaxBatch > 0
       /\ pc' = [pc EXCEPT ![s] = mode]
  /\ byUrl' = {}
  /\ UNCHANGED <<relname, entry, start, delivered, renames>>

(* The statement is over, and its arrays are freed.                        *)
Over(s) ==
  /\ byUrl' = {}
  /\ pc' = [pc EXCEPT ![s] = "idle"]
  /\ status' = [status EXCEPT ![s] = NoChildren]
  /\ threads' = [threads EXCEPT ![s] = NoChildren]
  /\ start' = [start EXCEPT ![s] = 0]

End(s) ==
  /\ pc[s] \in {"rows", "batches"}
  /\ Over(s)
  /\ UNCHANGED <<relname, entry, delivered, undisturbed, renames>>

(* spd_routing_last_table: the name of the last target, if it still has    *)
(* that name.  (An entry that was just inserted has none.)                 *)
LastTable ==
  IF entry.child # NoName /\ relname[entry.child] = entry.tablename
    THEN entry.tablename ELSE NoName

(* The entry after c has been chosen.                                      *)
Remember(c) == entry' = [child |-> c, tablename |-> relname[c]]

(* The rows without a URL so far.                                          *)
Routed == SumFunction(delivered)

(* Another session is between the two updates of the entry for its batch.  *)
Splitting(s) == \E r \in Session \ {s} : pc[r] = "split"

(* A row with the URL u for c, scanned from the child f or no such row.    *)
UrlRow(c, u, f) == [to |-> c, url |-> u, from |-> f]

(* spd_ExecForeignInsert for a row with the URL u: the candidates are      *)
(* those of the URL, for the rows that follow too, and                     *)
(* spd_routing_get_target takes the next of them.                          *)
InsertRow(s, u) ==
  LET candidates == SpdUrlStatus(status[s], u)
  IN  /\ pc[s] = "rows"
      /\ u = NoUrl => Routed < MaxRows
      /\ u # BadUrl
      /\ HasCandidate(candidates)
      /\ Candidates(threads[s], candidates) # {}
      /\ LET c == threads[s][RoutingChoose(LastTable, threads[s], candidates, relname)]
         IN  /\ Remember(c)
             /\ delivered' = [delivered EXCEPT ![c] = IF u = NoUrl THEN @ + 1 ELSE @]
             /\ byUrl' = {UrlRow(c, v, NoName) : v \in {u} \ {NoUrl}}
      /\ status' = [status EXCEPT ![s] = candidates]
      /\ undisturbed' = (undisturbed /\ u = NoUrl /\ ~Splitting(s))
      /\ UNCHANGED <<relname, pc, threads, start, renames>>

(* The same for a row with a URL that a PGSpider scan has just read from   *)
(* the child f (INSERT ... SELECT): if f has a thread here it goes there,  *)
(* whatever the URL says, and neither the candidates nor the last target   *)
(* change.  If not, it is a row like any other.                            *)
InsertScanned(s, u, f) ==
  /\ pc[s] = "rows"
  /\ u # NoUrl
  /\ \E i \in ScannedThreads(threads[s], f) : byUrl' = {UrlRow(threads[s][i], u, f)}
  /\ UNCHANGED <<relname, entry, sessionVars, delivered, undisturbed, renames>>

(* An error ends the statement: the URL is malformed, names no server, or  *)
(* one whose children have no thread.                                      *)
InsertFail(s, u) ==
  /\ pc[s] = "rows"
  /\ u = BadUrl \/ Candidates(threads[s], SpdUrlStatus(status[s], u)) = {}
  /\ Over(s)
  /\ UNCHANGED <<relname, entry, delivered, undisturbed, renames>>

(* spd_split_slots gets the target of the first row,                       *)
SplitStart(s) ==
  /\ pc[s] = "batches"
  /\ Routed < MaxRows
  /\ Candidates(threads[s], status[s]) # {}
  /\ start' = [start EXCEPT ![s] = RoutingChoose(LastTable, threads[s], status[s], relname)]
  /\ Remember(threads[s][start'[s]])
  /\ pc' = [pc EXCEPT ![s] = "split"]
  /\ undisturbed' = (undisturbed /\ ~Splitting(s))
  /\ byUrl' = {}
  /\ UNCHANGED <<relname, status, threads, delivered, renames>>

(* distributes the rows, and sets the target of the last one               *)
(* (spd_routing_set_target);                                               *)
SplitDone(s) ==
  /\ pc[s] = "split"
  /\ \E n \in 1 .. MaxBatch : \E rows \in [1 .. n -> Urls] :
       LET Target(k) == threads[s][SlotTarget(start[s], threads[s], rows, k)]
       IN  /\ RowsHaveTargets(threads[s], rows)
           /\ delivered' = [c \in Table |->
                delivered[c] + Cardinality({k \in 1 .. n : Target(k) = c /\ rows[k] = NoUrl})]
           /\ byUrl' = {UrlRow(Target(k), rows[k], NoName) : k \in {j \in 1 .. n : rows[j] # NoUrl}}
           /\ Remember(threads[s][SplitLast(start[s], threads[s], rows)])
  /\ pc' = [pc EXCEPT ![s] = "batches"]
  /\ start' = [start EXCEPT ![s] = 0]
  /\ UNCHANGED <<relname, status, threads, undisturbed, renames>>

(* or fails for one of them, puts the target back and ends the statement.  *)
SplitFail(s) ==
  /\ pc[s] = "split"
  /\ \E u \in Urls : u # NoUrl /\ ThreadsOf(threads[s], u) = {}
  /\ Remember(threads[s][SplitReset(start[s], threads[s])])
  /\ Over(s)
  /\ UNCHANGED <<relname, delivered, undisturbed, renames>>

(* ALTER TABLE ... RENAME of a child; open statements lock their children. *)
Rename(c, n) ==
  /\ renames < MaxRenames
  /\ \A s \in Session : pc[s] = "idle"
  /\ n \notin Range(relname)
  /\ relname' = [relname EXCEPT ![c] = n]
  /\ renames' = renames + 1
  /\ undisturbed' = FALSE
  /\ byUrl' = {}
  /\ UNCHANGED <<entry, sessionVars, delivered>>

Next ==
  \/ \E s \in Session :
       \/ Begin(s) \/ End(s) \/ SplitStart(s) \/ SplitDone(s) \/ SplitFail(s)
       \/ \E u \in Urls : InsertRow(s, u) \/ InsertFail(s, u)
       \/ \E u \in Urls, f \in Table : InsertScanned(s, u, f)
  \/ \E c \in Table, n \in NewNames : Rename(c, n)

Spec == Init /\ [][Next]_vars

-----------------------------------------------------------------------------
(* The type invariant: the name remembered in shared memory is one a child *)
(* table may have, and start_child is the index of a thread.               *)
TypeOK ==
  /\ relname \in [Table -> Table \cup NewNames]
  /\ entry.child \in Table \cup {NoName} /\ entry.tablename \in Table \cup NewNames \cup {NoName}
  /\ pc \in [Session -> {"idle", "rows", "batches", "split"}]
  /\ \A s \in Session : pc[s] # "idle" => status[s] \in [Table -> ChildStatus]
  /\ \A s \in Session : pc[s] = "split" => start[s] \in DOMAIN threads[s]
  /\ delivered \in [Table -> Nat]
  /\ byUrl \subseteq [to : Table, url : Urls, from : Table \cup {NoName}]

(* The README of the repository: rows without a URL are distributed evenly *)
(* "not only for one query but also for many queries".                     *)
Even ==
  \A c, d \in Table : delivered[c] <= delivered[d] + 1

(* Rows without a URL are distributed evenly by statements of any number   *)
(* of sessions, row by row or in batches, failed batches included, as long *)
(* as all children are updatable and keep their names, rows with a URL     *)
(* come in batches or from a scan only, and no batch is split while        *)
(* another session routes a row.                                           *)
EvenIfUndisturbed == undisturbed => Even

(* A row with a URL goes to a child of the server it names, whatever was   *)
(* routed before it and whichever children have threads.  Only a row that  *)
(* was scanned from a child of the table goes back to that child instead.  *)
UrlObeyed ==
  \A r \in byUrl : IF r.from = NoName THEN r.url = Server[r.to] ELSE r.to = r.from

(* The same child does not get two rows without a URL in a row when the    *)
(* statement has another candidate, whatever other sessions, with other    *)
(* candidates, did before, unless the child was renamed in between.        *)
NotTwiceRunning ==
  [][\A c \in Table :
       /\ pc' = pc /\ delivered'[c] > delivered[c]
       /\ c = entry.child /\ LastTable # NoName
       => \E s \in Session : /\ pc[s] = "rows"
                             /\ \A i \in Candidates(threads[s], status[s]) : threads[s][i] = c]_vars
==============================================================================
