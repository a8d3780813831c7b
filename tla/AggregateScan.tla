---------------------------- MODULE AggregateScan ----------------------------
(***************************************************************************)
(* A query with aggregates over a table of several child nodes.  The       *)
(* aggregates are split into ones that each child computes over its own    *)
(* rows; the main thread collects the rows of the children in a temporary  *)
(* table and merges them with a second query, whose result it keeps and    *)
(* hands out row by row.  A rescan does it all again, for the rows that    *)
(* match a new parameter.                                                  *)
(*                                                                         *)
(* The query of the model computes, for the values x of each group g, the  *)
(* COUNT, SUM, MIN, MAX, AVG, VARIANCE (STDDEV is its root), SPREAD and    *)
(* SUM(x)/2, optionally with GROUP BY g and HAVING COUNT(x) >= having.     *)
(* Numbers are exact: a fraction is a pair <<numerator, denominator>>.     *)
(***************************************************************************)
EXTENDS Integers, Sequences, FiniteSets, FiniteSetsExt, SequencesExt

CONSTANTS
  Child,       \* the child nodes
  Tables,      \* what the children may hold: functions from Child to rows
  GroupBys,    \* values of groupBy: the query has a GROUP BY
  Havings,     \* values of having
  NScans,      \* aggregate scans in the plan of the statement
  NULL,
  MaxReScans   \* bound: rescans of a scan

Row == [g : STRING, x : Int \cup {NULL}]

ASSUME AggregateAssumption ==
  /\ Tables \subseteq [Child -> Seq(Row)]
  /\ GroupBys \subseteq BOOLEAN
  /\ Havings \subseteq Nat
  /\ NScans \in Nat \ {0}
  /\ NULL \notin Int
  /\ MaxReScans \in Nat

Scan == 0 .. NScans - 1

VARIABLES
  groupBy, having,                \* the query
  data,                           \* the rows that match the scan's parameter
  isFirst, temp_table_name,       \* fdw_private of each scan
  agg_values, agg_num, agg_tuples,
  temps, temp_table_id,           \* the temporary tables there are, and the next
  es_drop_table,                  \* the executor state of the statement,
  mpc, node,                      \* where its execution is, the scan shut down
  returned, ended, nrescan        \* history: rows returned since the last rescan

queryVars == <<groupBy, having>>
aggVars == <<agg_values, agg_num, agg_tuples>>
histVars == <<returned, ended, nrescan>>
vars == <<queryVars, data, isFirst, temp_table_name, aggVars, temps, temp_table_id,
          es_drop_table, mpc, node, histVars>>

-----------------------------------------------------------------------------
(* What a child computes: SQL aggregates over its rows.                    *)

Fold(op(_, _), s) == IF s = <<>> THEN NULL ELSE FoldLeft(op, Head(s), Tail(s))
Plus(a, b) == a + b
Greater(a, b) == IF a >= b THEN a ELSE b
Less(a, b) == IF a <= b THEN a ELSE b

(* The values of group g, NULLs left out.                                  *)
Values(rows, g) ==
  LET chosen == SelectSeq(rows, LAMBDA r : (groupBy => r.g = g) /\ r.x # NULL)
  IN  [i \in DOMAIN chosen |-> chosen[i].x]

Groups(rows) == IF groupBy THEN {rows[i].g : i \in DOMAIN rows} ELSE {"all"}

(* spd_makedivtlist, spd_catalog_makedivtlist: the aggregates that AVG,    *)
(* VARIANCE and SPREAD are split into, next to those passed on as they are.*)
ChildRow(rows, g) ==
  LET v == Values(rows, g)
  IN  [g     |-> g,
       count |-> Len(v),
       sum   |-> Fold(Plus, v),
       sumsq |-> Fold(Plus, [i \in DOMAIN v |-> v[i] * v[i]]),
       min   |-> Fold(Less, v),
       max   |-> Fold(Greater, v)]

(* Mutant: the children apply HAVING to their own aggregates.              *)
MutChildHaving(row) == row.count >= having

(* spd_is_having_safe: no HAVING with an aggregate is passed to a child.   *)
ChildHaving(row) == TRUE

(* The temporary table: a row per child and group (all that nextChildTuple *)
(* returns is inserted).                                                   *)
TempTable(d) ==
  {e \in UNION {{[child |-> c, row |-> ChildRow(d[c], g)] : g \in Groups(d[c])} : c \in Child} :
     ChildHaving(e.row)}

-----------------------------------------------------------------------------
(* The merge query on the temporary table.                                 *)

(* A column of the rows that are not NULL there, in any order.             *)
Column(table, f) ==
  LET s == SetToSeq({e \in table : e.row[f] # NULL})
  IN  [i \in DOMAIN s |-> s[i].row[f]]

(* The counts of the children are added up.                                *)
MergedCount(table) == Fold(Plus, Column(table, "count"))

(* numeric_int8 rounds, halves away from zero.                             *)
NumericInt8(n, d) ==
  IF n >= 0 THEN (2 * n + d) \div (2 * d) ELSE -((d - 2 * n) \div (2 * d))

RoundedUp(n, d) == n >= 0 /\ 2 * (n % d) >= d

(* datum_is_converted with is_truncated: the quotient of a division is     *)
(* made an integer again.                                                  *)
Truncated(n, d) == IF RoundedUp(n, d) THEN NumericInt8(n, d) - 1 ELSE NumericInt8(n, d)

(* rebuild_target_Aggref.                                                  *)
MergedRow(table, g) ==
  LET T     == {e \in table : e.row.g = g}
      count == MergedCount(T)
      sum   == Fold(Plus, Column(T, "sum"))
      sumsq == Fold(Plus, Column(T, "sumsq"))
      max   == Fold(Greater, Column(T, "max"))
      min   == Fold(Less, Column(T, "min"))
  IN  [g      |-> g,
       count  |-> count,
       sum    |-> sum,
       min    |-> min,
       max    |-> max,
       avg    |-> IF count = 0 THEN NULL ELSE <<sum, count>>,
       var    |-> IF count \in {0, 1} THEN NULL
                  ELSE <<count * sumsq - sum * sum, count * (count - 1)>>,
       spread |-> IF max = NULL THEN NULL ELSE max - min,
       half   |-> IF sum = NULL THEN NULL ELSE Truncated(sum, 2)]

(* spd_select_from_temp_table: with GROUP BY a row for each group in the   *)
(* table, without it one row; HAVING applies to the merged aggregates.     *)
MergedRows(table) ==
  {r \in {MergedRow(table, g) : g \in {e.row.g : e \in table}} : r.count >= having}

-----------------------------------------------------------------------------
(* The scan.                                                               *)

Init ==
  /\ groupBy \in GroupBys
  /\ having \in Havings
  /\ data \in [Scan -> Tables]
  /\ isFirst = [s \in Scan |-> TRUE]
  /\ temp_table_name = [s \in Scan |-> NULL]
  /\ agg_values = [s \in Scan |-> <<>>]
  /\ agg_num = [s \in Scan |-> 0]
  /\ agg_tuples = [s \in Scan |-> 0]
  /\ temps = {}
  /\ temp_table_id = 0
  /\ es_drop_table = FALSE
  /\ mpc = "run"
  /\ node = 0
  /\ returned = [s \in Scan |-> <<>>]
  /\ ended = [s \in Scan |-> FALSE]
  /\ nrescan = [s \in Scan |-> 0]

(* Return row k of what is kept, from 1; no row is the end of the scan.    *)
Return(s, k) ==
  IF k <= Len(agg_values'[s])
    THEN returned' = [returned EXCEPT ![s] = Append(@, agg_values'[s][k])] /\ UNCHANGED ended
    ELSE ended' = [ended EXCEPT ![s] = TRUE] /\ UNCHANGED returned

(* spd_execute_select_temp_table keeps the rows, in the order in which the *)
(* query returns them; when there are none it returns early.               *)
Keep(s, rows) ==
  IF rows = <<>>
    THEN UNCHANGED <<agg_values, agg_tuples>> /\ agg_num' = [agg_num EXCEPT ![s] = @ + 1]
    ELSE /\ agg_values' = [agg_values EXCEPT ![s] = rows]
         /\ agg_tuples' = [agg_tuples EXCEPT ![s] = Len(rows)]
         /\ agg_num' = [agg_num EXCEPT ![s] = 1]

(* spd_IterateForeignScan, the first time: a new temporary table is filled *)
(* and queried, and the first row kept is returned (spd_calc_aggvalues).   *)
FirstIterate(s) ==
  /\ mpc = "run" /\ isFirst[s] /\ ~ended[s]
  /\ isFirst' = [isFirst EXCEPT ![s] = FALSE]
  /\ temp_table_name' = [temp_table_name EXCEPT ![s] = temp_table_id]
  /\ temps' = temps \cup {temp_table_id}
  /\ temp_table_id' = temp_table_id + 1
  /\ es_drop_table' = TRUE
  /\ \E rows \in SetToSeqs(MergedRows(TempTable(data[s]))) : Keep(s, rows)
  /\ Return(s, 1)
  /\ UNCHANGED <<queryVars, data, mpc, node, nrescan>>

(* After that, spd_select_return_aggslot.                                  *)
NextIterate(s) ==
  /\ mpc = "run" /\ ~isFirst[s] /\ ~ended[s]
  /\ UNCHANGED agg_values
  /\ IF agg_num[s] < agg_tuples[s]
       THEN agg_num' = [agg_num EXCEPT ![s] = @ + 1] /\ Return(s, agg_num[s] + 1)
       ELSE ended' = [ended EXCEPT ![s] = TRUE] /\ UNCHANGED <<agg_num, returned>>
  /\ UNCHANGED <<queryVars, data, isFirst, temp_table_name, agg_tuples, temps, temp_table_id,
                 es_drop_table, mpc, node, nrescan>>

(* Mutant: the old table is not dropped before a new one is made.          *)
MutDropped(s) == {}

(* spd_drop_temp_table: DROP TABLE IF EXISTS.                              *)
Dropped(s) == {temp_table_name[s]}

(* spd_ReScanForeignScan, what it does besides the threads: at any time,   *)
(* with another parameter.  isFirst is set for each thread that has not    *)
(* failed; no child fails here.                                            *)
ReScan(s) ==
  /\ mpc = "run" /\ nrescan[s] < MaxReScans
  /\ temps' = temps \ Dropped(s)
  /\ isFirst' = [isFirst EXCEPT ![s] = TRUE]
  /\ \E d \in Tables : data' = [data EXCEPT ![s] = d]
  /\ returned' = [returned EXCEPT ![s] = <<>>]
  /\ ended' = [ended EXCEPT ![s] = FALSE]
  /\ nrescan' = [nrescan EXCEPT ![s] = @ + 1]
  /\ UNCHANGED <<queryVars, temp_table_name, aggVars, temp_table_id, es_drop_table, mpc, node>>

-----------------------------------------------------------------------------
(* ExecutePlan of the statement, once or, for a cursor, several times: at  *)
(* its end the scans are shut down one after the other.                    *)

StopExecute ==
  /\ mpc = "run" /\ mpc' = "shutdown" /\ node' = 0
  /\ UNCHANGED <<queryVars, data, isFirst, temp_table_name, aggVars, temps, temp_table_id,
                 es_drop_table, histVars>>

(* spd_ShutdownForeignScan.                                                *)
Shutdown(s) ==
  /\ mpc = "shutdown" /\ node = s
  /\ IF es_drop_table /\ temp_table_name[s] # NULL
       THEN temps' = temps \ Dropped(s) /\ es_drop_table' = FALSE
       ELSE UNCHANGED <<temps, es_drop_table>>
  /\ node' = node + 1
  /\ mpc' = IF node' = NScans THEN "stopped" ELSE mpc
  /\ UNCHANGED <<queryVars, data, isFirst, temp_table_name, aggVars, temp_table_id, histVars>>

ExecuteAgain ==
  /\ mpc = "stopped" /\ mpc' = "run"
  /\ es_drop_table' = FALSE
  /\ UNCHANGED <<queryVars, data, isFirst, temp_table_name, aggVars, temps, temp_table_id, node,
                 histVars>>

Next ==
  \/ StopExecute \/ ExecuteAgain
  \/ \E s \in Scan : FirstIterate(s) \/ NextIterate(s) \/ ReScan(s) \/ Shutdown(s)

Spec == Init /\ [][Next]_vars

-----------------------------------------------------------------------------
(* The type invariant: what is kept is what was counted, and tables have   *)
(* been created before they are used.                                      *)
TypeOK ==
  /\ isFirst \in [Scan -> BOOLEAN]
  /\ \A s \in Scan : /\ agg_tuples[s] = Len(agg_values[s])
                     /\ agg_num[s] \in Nat
                     /\ temp_table_name[s] \in 0 .. temp_table_id - 1 \cup {NULL}
  /\ temps \subseteq 0 .. temp_table_id - 1
  /\ es_drop_table \in BOOLEAN
  /\ mpc \in {"run", "shutdown", "stopped"} /\ node \in 0 .. NScans

(* The reference: the aggregates over all rows of all children, by their   *)
(* definitions.                                                            *)
AllRows(d) == FlattenSeq([i \in 1 .. Cardinality(Child) |-> d[SetToSeq(Child)[i]]])

Total(s) == FoldLeft(Plus, 0, s)

Reference(d, g) ==
  LET v == Values(AllRows(d), g)
      n == Len(v)
  IN  [g |-> g, values |-> v, count |-> n, sum |-> Total(v),
       deviations |-> Total([i \in 1 .. n |-> (n * v[i] - Total(v)) * (n * v[i] - Total(v))])]

References(d) ==
  {r \in {Reference(d, g) : g \in Groups(AllRows(d))} : r.count >= having}

(* A returned row is the one the reference defines.  SUM(x)/2 is compared  *)
(* where the sum is not negative.                                          *)
Right(row, ref) ==
  LET n == ref.count
  IN  /\ row.g = ref.g /\ row.count = n
      /\ IF n = 0
           THEN {row.sum, row.min, row.max, row.avg, row.var, row.spread, row.half} = {NULL}
           ELSE /\ row.sum = ref.sum
                /\ row.min = Min(ToSet(ref.values)) /\ row.max = Max(ToSet(ref.values))
                /\ row.spread = row.max - row.min
                /\ row.avg[1] * n = ref.sum * row.avg[2]
                /\ IF n = 1 THEN row.var = NULL
                   ELSE row.var[1] * n * n * (n - 1) = ref.deviations * row.var[2]
                /\ ref.sum >= 0 => row.half = ref.sum \div 2

(* What a scan has returned: rows of its own parameter's answer, each      *)
(* group once, and at the end all of them.                                 *)
Answers(s) ==
  LET refs == References(data[s])
  IN  /\ \A i \in DOMAIN returned[s] : \E ref \in refs : Right(returned[s][i], ref)
      /\ IsInjective([i \in DOMAIN returned[s] |-> returned[s][i].g])
      /\ ended[s] => Len(returned[s]) = Cardinality(refs)

(* Splitting, collecting and merging the aggregates gives what one query   *)
(* over all rows would give, also on a rescan, whatever was kept before,   *)
(* as long as the rescan finds a group.                                    *)
MergeRight ==
  \A s \in Scan : (nrescan[s] = 0 \/ References(data[s]) # {}) => Answers(s)

(* Every scan answers for its own parameter: "In case of rescan, we need   *)
(* to reinitial agg_num variable."                                         *)
RescanRight == \A s \in Scan : Answers(s)

(* When the execution of a statement with one aggregate scan stops, its    *)
(* temporary tables are gone, however often it was rescanned.              *)
NoTableLeft == mpc = "stopped" => temps = {}

=============================================================================
