--------------------------- MODULE MCCacheAdapter ---------------------------
(* One worker, one request that may be cached, and room for everything.    *)
EXTENDS CacheAdapter

MCRequests == {[method |-> "GET", path |-> "a", encoding |-> "none", authorization |-> "none"]}
MCPrefixes == {{"a"}}
MCResponses == {[status |-> 200, noStore |-> FALSE, bytes |-> 1]}
=============================================================================
