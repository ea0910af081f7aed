------------------------- MODULE CacheAsideService -------------------------
(***************************************************************************)
(* The service on Redis and MySQL: handlers, Bloom filter and              *)
(* CacheAsideStore, with failures of both servers and restarts of the      *)
(* program.  A restart forgets the filter and every request in progress;   *)
(* main_cache_aside.cpp builds an empty filter and does not fill it.       *)
(***************************************************************************)
EXTENDS UrlHandlers

CONSTANTS Ttls, BackfillTtl, MaxLag, MaxTime, MaxFaults,
    MaxRestarts     \* bound on restarts, for model checking

VARIABLES
    call, at, res,
    now, redis, mysql, since, attempt, faults, touched, changed,
    restarts        \* how often the program has been restarted

storeVars == <<call, at, res, now, redis, mysql, since, attempt, faults, touched, changed>>
vars == <<handlerVars, storeVars, restarts>>

Store == INSTANCE CacheAsideStore

\* The store's own assumptions; a url is not mistaken for an exception or a
\* Boolean result.
ASSUME ServiceAssumption ==
    /\ Store!TtlAssumption /\ Store!CacheAsideAssumption
    /\ Store!Outcomes \cap (Urls \cup {NoUrl}) = {}

Init ==
    /\ HandlerInit
    /\ Store!Init
    /\ restarts = 0

\* The ttl is part of the request body; nothing depends on it before setNX.
SetNX(w, id, ttl) == [op |-> "setNX", key |-> id, url |-> job[w].url, ttl |-> ttl]
Get(w) == [op |-> "get", key |-> job[w].id, url |-> NoUrl, ttl |-> 0]

Ask(w) == \E id \in Keys, ttl \in Ttls : Draw(w, id) /\ Store!Invoke(w, SetNX(w, id, ttl))
LookUp(w) == BloomHit(w) /\ Store!Invoke(w, Get(w))
Take(w) == (Claimed(w, res[w]) \/ Found(w, res[w])) /\ Store!Deliver(w)

Serve(w) ==
    /\ \/ Compute(w) /\ UNCHANGED storeVars
       \/ Ask(w)
       \/ LookUp(w)
       \/ Store!Step(w) /\ UNCHANGED handlerVars
       \/ Take(w)
    /\ UNCHANGED restarts

\* The program ends at any point and starts again; both servers live on.
Restart ==
    /\ restarts < MaxRestarts
    /\ restarts' = restarts + 1
    /\ StartAnew /\ Store!CallsEnd
    /\ since' = [w \in Workers |-> 0]
    /\ attempt' = [w \in Workers |-> 1]
    /\ UNCHANGED <<now, redis, mysql, faults, touched, changed>>

Next ==
    \/ \E w \in Workers :
          \/ Request(w) /\ UNCHANGED <<storeVars, restarts>>
          \/ Serve(w)
    \/ (\E id \in Keys : Store!Evict(id)) /\ UNCHANGED <<handlerVars, restarts>>
    \/ Store!Tick /\ UNCHANGED <<handlerVars, restarts>>
    \/ Restart

Spec == Init /\ [][Next]_vars

-----------------------------------------------------------------------------
\* The service keeps its promise of links with the rows of the table, through
\* equal ids drawn at once, lost replies, evictions and restarts: a row is
\* written once, and every id given out has its row (CacheAsideStore::setNX
\* called by ShortenHandler).
Links == INSTANCE ShortLinks WITH
            links <- [id \in Keys |-> mysql[id].url], given <- acked
KeepsPromise == Links!Spec

\* A redirect leads to the url that the id had been given out for, whether the
\* answer comes from Redis or from MySQL (CacheAsideStore::get).
RedirectTrue ==
    \A w \in Workers :
        Answers301(w) => /\ expected[w] \subseteq {answer[w].url}
                         /\ mysql[job[w].id].url = answer[w].url

\* A request for an id that had been given out is answered 404 only if the id
\* has expired, was given out before the program was restarted, or two workers
\* have since set bits in the same word of the filter at the same time.
AckedIdRedirects ==
    \A w \in Workers :
        Answers404(w) /\ expected[w] # {} =>
            \/ Store!Expired(mysql[job[w].id])
            \/ job[w].id \in forgotten
            \/ Torn(job[w].id)

\* "Local Bloom pre-check, to save store accesses for keys that do not exist":
\* a key that has a row, not expired, is not refused by the filter, torn words
\* apart.
ExistingIdRedirects ==
    \A w \in Workers :
        Answers404(w) /\ expected[w] # {} =>
            \/ Store!Expired(mysql[job[w].id])
            \/ Torn(job[w].id)
=============================================================================
