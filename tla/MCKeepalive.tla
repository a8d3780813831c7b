----------------------------- MODULE MCKeepalive -----------------------------
(* Keepalive for TLC: servers come and go, move to another address, change *)
(* their FDW.                                                              *)
EXTENDS Keepalive, TLC

A1 == [name |-> "A", fdw |-> "pgspider_fdw", ip |-> "1"]
A2 == [name |-> "A", fdw |-> "pgspider_fdw", ip |-> "2"]
B2 == [name |-> "B", fdw |-> "pgspider_fdw", ip |-> "2"]
B0 == [name |-> "B", fdw |-> "file_fdw", ip |-> ""]
B1 == [name |-> "B", fdw |-> "griddb_fdw", ip |-> "1"]

MCTables == {<<>>, <<A1>>, <<A2>>, <<A1, B2>>, <<B2, A1>>, <<A1, B0>>, <<A1, B1>>}
==============================================================================
