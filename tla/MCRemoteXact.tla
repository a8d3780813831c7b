---------------------------- MODULE MCRemoteXact ----------------------------
(* RemoteXact for TLC: two servers, with different options.               *)
EXTENDS RemoteXact, TLC
CONSTANTS a, b
=============================================================================
