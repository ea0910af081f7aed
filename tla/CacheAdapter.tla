---------------------------- MODULE CacheAdapter ----------------------------
(***************************************************************************)
(* CacheAdapter, the middleware that the server runs: before gets the      *)
(* request, and after, whose interface has no request, is called with an   *)
(* empty one in its place.                                                 *)
(***************************************************************************)
EXTENDS CacheMiddleware

AdapterNext ==
    \/ \E w \in Workers : Work(w) \/ \E r \in Responses : After(w, NoRequest, r)
    \/ Tick

AdapterSpec == Init /\ [][AdapterNext]_vars

-----------------------------------------------------------------------------
\* "On an HttpCache hit the before phase returns at once, the after phase writes
\* the cache": once a handler has answered a request that may be cached with
\* 200, 301 or 404, the response has been stored (with one worker, and responses
\* that all fit).
AfterWritesCache ==
    \A w \in Workers :
        /\ pc[w] = "answer" /\ answer[w].from = "handler"
        /\ IsCacheableRequest(request[w]) /\ answer[w].status \in {200, 301, 404}
        => MakeKey(request[w]) \in index
=============================================================================
