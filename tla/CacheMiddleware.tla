-------------------------- MODULE CacheMiddleware --------------------------
(***************************************************************************)
(* CacheMiddleware over MemoryCacheLRU: before a request is handled its    *)
(* response is looked up, after it the response is stored.  The clock is   *)
(* read outside of the cache's lock, in a step of its own.                 *)
(*                                                                         *)
(* Here after is given the request that before was given, as its signature *)
(* asks; CacheAdapter models how the server calls it.                      *)
(***************************************************************************)
EXTENDS MemoryCacheLRU

CONSTANTS
    Workers,    \* threads of the HTTP server
    Requests,   \* requests, as the middleware sees them
    Responses,  \* responses of the handlers
    PathsByPrefix,  \* sets of paths: for some prefixes, those that start with it
    MaxObject,  \* maxObjectBytes
    Ttl,        \* ttl, in ticks
    Stale,      \* staleWhileRevalidate, in ticks
    MaxTime     \* bound on the clock, for model checking

Methods == {"GET", "HEAD", "POST", "PUT", "DELETE", "OPTIONS", "UNKNOWN"}

\* encoding and authorization are what getHeader finds under the names written
\* in lower case; "none" stands for the empty string.
AllRequests == [method : Methods, path : STRING, encoding : STRING,
                authorization : STRING]
AllResponses == [status : {200, 301, 404, 403, 500}, noStore : BOOLEAN, bytes : Nat]

ASSUME RequestsAssumption ==
    /\ Requests \subseteq AllRequests
    /\ PathsByPrefix \subseteq SUBSET STRING

ASSUME MiddlewareAssumption ==
    /\ Responses \subseteq AllResponses
    /\ MaxObject \in Nat /\ Ttl \in Nat /\ Stale \in Nat /\ MaxTime \in Nat

VARIABLES
    clock,
    pc,         \* where each worker is
    request,    \* the request that it serves
    stamp,      \* the clock as before has read it
    pending,    \* the key and entry that after is about to store
    answer      \* the response, and whether it comes from the cache

vars == <<lruVars, clock, pc, request, stamp, pending, answer>>

NoRequest == [method |-> "UNKNOWN", path |-> "none", encoding |-> "none", authorization |-> "none"]
NoEntry == [status |-> 0, bytes |-> 0, hardExpire |-> 0, softExpire |-> 0]
NoAnswer == [from |-> "none", status |-> 0]

IsCacheableRequest(r) == r.authorization = "none" /\ r.method \in {"GET", "HEAD"}
IsCacheableResponse(r) == ~r.noStore /\ r.status \in {200, 301, 404}
MakeKey(r) == [method |-> r.method, pathAndQuery |-> r.path, acceptEncoding |-> r.encoding]
NoPending == [key |-> MakeKey(NoRequest), entry |-> NoEntry]

Pack(r) == [status |-> r.status, bytes |-> r.bytes,
            hardExpire |-> clock + Ttl, softExpire |-> clock + Ttl + Stale]

Init ==
    /\ LruInit
    /\ clock = 0
    /\ pc = [w \in Workers |-> "idle"]
    /\ request = [w \in Workers |-> NoRequest]
    /\ stamp = [w \in Workers |-> 0]
    /\ pending = [w \in Workers |-> NoPending]
    /\ answer = [w \in Workers |-> NoAnswer]

-----------------------------------------------------------------------------
\* before: a request that may be cached reads the clock.
Before(w, r) ==
    /\ pc[w] = "idle"
    /\ request' = [request EXCEPT ![w] = r]
    /\ \/ /\ IsCacheableRequest(r)
          /\ pc' = [pc EXCEPT ![w] = "lookUp"]
          /\ stamp' = [stamp EXCEPT ![w] = clock]
       \/ /\ ~IsCacheableRequest(r)
          /\ pc' = [pc EXCEPT ![w] = "handle"]
          /\ UNCHANGED stamp
    /\ UNCHANGED <<lruVars, clock, pending, answer>>

\* What before makes of an entry that it has found.
Serves(e, time) ==
    IF time < e.hardExpire THEN "fresh"
    ELSE IF time < e.softExpire THEN "stale"
    ELSE "none"

\* before: the response is found and still of use, and goes out at once.
ServeHit(w) ==
    LET key == MakeKey(request[w])
        e == lru[Place(key)].entry
    IN  /\ pc[w] = "lookUp"
        /\ GetHit(key)
        /\ Serves(e, stamp[w]) # "none"
        /\ pc' = [pc EXCEPT ![w] = "answer"]
        /\ answer' = [answer EXCEPT ![w] = [from |-> Serves(e, stamp[w]), status |-> e.status]]
        /\ UNCHANGED <<clock, request, stamp, pending>>

\* before: it is not found, or found too old, and remains where it is.
PassOn(w) ==
    LET key == MakeKey(request[w]) IN
    /\ pc[w] = "lookUp"
    /\ \/ GetMiss(key)
       \/ GetHit(key) /\ Serves(lru[Place(key)].entry, stamp[w]) = "none"
    /\ pc' = [pc EXCEPT ![w] = "handle"]
    /\ UNCHANGED <<clock, request, stamp, pending, answer>>

\* Variant with a fault: the size of the response is not looked at.
StorableAtAnySize(given, r) == IsCacheableRequest(given) /\ IsCacheableResponse(r)

\* Whether after stores a response.
Storable(given, r) ==
    IsCacheableRequest(given) /\ IsCacheableResponse(r) /\ r.bytes <= MaxObject

\* A handler answers with r; after, called with the request given, packs it.
After(w, given, r) ==
    /\ pc[w] = "handle"
    /\ answer' = [answer EXCEPT ![w] = [from |-> "handler", status |-> r.status]]
    /\ \/ /\ Storable(given, r)
          /\ pc' = [pc EXCEPT ![w] = "store"]
          /\ pending' = [pending EXCEPT ![w] = [key |-> MakeKey(given), entry |-> Pack(r)]]
       \/ /\ ~Storable(given, r)
          /\ pc' = [pc EXCEPT ![w] = "answer"]
          /\ UNCHANGED pending
    /\ UNCHANGED <<lruVars, clock, request, stamp>>

\* after: the entry is stored.
Store(w) ==
    /\ pc[w] = "store"
    /\ Set(pending[w].key, pending[w].entry)
    /\ pc' = [pc EXCEPT ![w] = "answer"]
    /\ UNCHANGED <<clock, request, stamp, pending, answer>>

\* The response is sent.
Send(w) ==
    /\ pc[w] = "answer"
    /\ pc' = [pc EXCEPT ![w] = "idle"]
    /\ request' = [request EXCEPT ![w] = NoRequest]
    /\ stamp' = [stamp EXCEPT ![w] = 0]
    /\ pending' = [pending EXCEPT ![w] = NoPending]
    /\ answer' = [answer EXCEPT ![w] = NoAnswer]
    /\ UNCHANGED <<lruVars, clock>>

\* MemoryCacheLRU::del of one key.
Del(key) ==
    /\ RemoveKeys({key})
    /\ UNCHANGED <<clock, pc, request, stamp, pending, answer>>

\* purgePrefix, of a prefix with which these paths start.
PurgePrefix(paths) ==
    /\ RemoveKeys({k \in index : k.pathAndQuery \in paths})
    /\ UNCHANGED <<clock, pc, request, stamp, pending, answer>>

Tick ==
    /\ clock < MaxTime
    /\ clock' = clock + 1
    /\ UNCHANGED <<lruVars, pc, request, stamp, pending, answer>>

Work(w) == (\E r \in Requests : Before(w, r)) \/ ServeHit(w) \/ PassOn(w) \/ Store(w) \/ Send(w)

Next ==
    \/ \E w \in Workers : Work(w) \/ \E r \in Responses : After(w, request[w], r)
    \/ \E key \in index : Del(key)
    \/ \E paths \in PathsByPrefix : PurgePrefix(paths)
    \/ Tick

Spec == Init /\ [][Next]_vars
-----------------------------------------------------------------------------
\* Types, and where a worker can be with which request.
TypeOK ==
    /\ clock \in 0 .. MaxTime
    /\ pc \in [Workers -> {"idle", "lookUp", "handle", "store", "answer"}]
    /\ request \in [Workers -> Requests \cup {NoRequest}]
    /\ stamp \in [Workers -> 0 .. MaxTime]
    /\ \A w \in Workers : pc[w] \in {"lookUp", "store"} => IsCacheableRequest(request[w])
    /\ \A w \in Workers : pending[w].entry.bytes <= MaxObject
=============================================================================
