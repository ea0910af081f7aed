------------------------- MODULE MCCacheMiddleware -------------------------
(* Two workers, three requests that may be cached and two that may not,    *)
(* and responses of which two, but not three, fit into the cache.          *)
EXTENDS CacheMiddleware, TLC

Asks(method, path, encoding, authorization) ==
    [method |-> method, path |-> path, encoding |-> encoding, authorization |-> authorization]
Answers(status, bytes) == [status |-> status, noStore |-> FALSE, bytes |-> bytes]

MCRequests == {Asks("GET", "a", "none", "none"), Asks("GET", "b", "none", "none"), Asks("GET", "b", "gzip", "none"),
               Asks("POST", "a", "none", "none"), Asks("GET", "a", "none", "token")}
MCPrefixes == {{"a"}, {"a", "b"}}
MCResponses == {Answers(200, 1), Answers(301, 2), Answers(404, 3), Answers(200, 4), Answers(500, 1)}
WorkerSymmetry == Permutations(Workers)
=============================================================================
