------------------------- MODULE MCDbConnectionPool -------------------------
(* Three clients of a pool of two connections, or of three when a first    *)
(* call of init has failed after one, and one link that breaks.            *)
EXTENDS DbConnectionPool
=============================================================================
