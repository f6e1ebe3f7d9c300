--------------------------- MODULE MCDatabasePool ---------------------------
(* Three connections, some of which fail to open, and as many threads:      *)
(* enough for the pool to be exhausted and for a broken connection to be    *)
(* met among good ones.                                                     *)
EXTENDS DatabasePool, TLC

CONSTANTS d1, d2, d3, t1, t2, t3
=============================================================================
