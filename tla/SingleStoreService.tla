------------------------- MODULE SingleStoreService -------------------------
(***************************************************************************)
(* The service on one store: in memory, or on Redis or MySQL alone.  main  *)
(* is built for one; the handlers, the Bloom filter and the store are      *)
(* composed, several workers, any ids drawn, also equal ones at once.  A   *)
(* restart of the program loses the filter, and the store in memory; the   *)
(* servers keep theirs.                                                    *)
(***************************************************************************)
EXTENDS UrlHandlers

CONSTANTS
    Ttls,
    Ids,            \* Ids[backend]: bound on the ids drawn and asked for, per store
    MaxRestarts     \* bound on restarts, for model checking

ASSUME BackendAssumption ==
    /\ DOMAIN Ids \subseteq {"memory", "redis", "mysql"}
    /\ \A b \in DOMAIN Ids : Ids[b] \subseteq Keys
    /\ MaxRestarts \in Nat

VARIABLES
    backend,    \* what main has stored in storePtr
    ttl,        \* the ttl of the shorten request that each worker serves
    call, at, res,
    kv, raced,
    redis, link, dropped,
    mysql, overdue,
    failed,
    restarts    \* how often the program has been restarted

storeVars == <<call, at, res, kv, raced, redis, link, dropped, mysql, overdue, failed>>
vars == <<handlerVars, backend, ttl, storeVars, restarts>>

Memory == INSTANCE MemoryStore
Redis == INSTANCE RedisStore
MySql == INSTANCE MySqlStore

\* A url is not mistaken for an exception or a Boolean result.
ASSUME ResultAssumption ==
    /\ Memory!Outcomes \cap (Urls \cup {NoUrl}) = {}
    /\ Ttls \subseteq Nat /\ 0 \in Ttls

memoryVars == <<kv, raced>>
redisVars == <<redis, link, dropped>>
mysqlVars == <<mysql, overdue>>

Init ==
    /\ HandlerInit
    /\ backend \in DOMAIN Ids
    /\ ttl = [w \in Workers |-> 0]
    /\ Memory!MemoryInit /\ Redis!RedisInit /\ MySql!MySqlInit
    /\ restarts = 0

-----------------------------------------------------------------------------
SetNX(w, id) == [op |-> "setNX", key |-> id, url |-> job[w].url, ttl |-> ttl[w]]
Get(w) == [op |-> "get", key |-> job[w].id, url |-> NoUrl, ttl |-> 0]

\* The virtual call of the store.
Invoke(w, c) ==
    /\ Memory!Begin(w, c, CASE backend = "memory" -> Memory!Entry(c.op)
                            [] backend = "redis" -> Redis!Entry(c.op)
                            [] backend = "mysql" -> MySql!Entry(c.op))
    /\ UNCHANGED <<memoryVars, redisVars, mysqlVars, failed>>

\* A step of the program itself.
Work(w) ==
    /\ \/ Compute(w) /\ UNCHANGED storeVars
       \/ \E id \in Ids[backend] : Draw(w, id) /\ Invoke(w, SetNX(w, id))
       \/ BloomHit(w) /\ Invoke(w, Get(w))
       \/ Memory!Step(w) /\ UNCHANGED <<handlerVars, redisVars, mysqlVars, failed>>
       \/ /\ Claimed(w, res[w]) \/ Found(w, res[w])
          /\ Memory!Return(w)
          /\ UNCHANGED <<memoryVars, redisVars, mysqlVars, failed>>
    /\ ttl' = [ttl EXCEPT ![w] = IF pc[w] = "reply" THEN 0 ELSE @]
    /\ UNCHANGED <<backend, restarts>>

\* A command or a statement.
Await(w) ==
    /\ \/ Redis!Step(w) /\ UNCHANGED mysqlVars
       \/ MySql!Step(w) /\ UNCHANGED redisVars
    /\ UNCHANGED <<handlerVars, backend, ttl, memoryVars, restarts>>

\* The ttls that make a difference: MemoryStore ignores them.
Heeded == IF backend = "memory" THEN {0} ELSE Ttls

\* A request comes; the ttl is part of the body of a shorten request.
Arrive(w) ==
    /\ \/ \E url \in Urls, t \in Heeded : Shorten(w, url) /\ ttl' = [ttl EXCEPT ![w] = t]
       \/ ShortenInvalid(w) /\ UNCHANGED ttl
       \/ \E id \in Ids[backend] : Redirect(w, id) /\ UNCHANGED ttl
    /\ UNCHANGED <<backend, storeVars, restarts>>

\* Time passes for an entry or a row.
Expire(id) ==
    /\ \/ Redis!Drop(id) /\ UNCHANGED mysqlVars
       \/ MySql!RunOut(id) /\ UNCHANGED redisVars
    /\ UNCHANGED <<handlerVars, backend, ttl, memoryVars, restarts>>

\* The program ends at any point and starts again; Redis and MySQL live on.
Restart ==
    /\ restarts < MaxRestarts
    /\ restarts' = restarts + 1
    /\ StartAnew /\ Memory!CallsEnd
    /\ ttl' = [w \in Workers |-> 0]
    /\ kv' = [k \in Keys |-> NoUrl]
    /\ link' = [w \in Workers |-> "none"]
    /\ UNCHANGED <<backend, raced, redis, dropped, mysqlVars, failed>>

Next ==
    \/ \E w \in Workers : Arrive(w) \/ Work(w) \/ Await(w)
    \/ \E id \in Keys : Expire(id)
    \/ Restart

Spec == Init /\ [][Next]_vars

-----------------------------------------------------------------------------
\* What the store holds for an id.
Held(id) ==
    CASE backend = "memory" -> kv[id]
      [] backend = "redis" -> redis[id]
      [] backend = "mysql" -> mysql[id].url

\* Ids whose links the program has lost with its own memory.
Gone == IF backend = "memory" THEN forgotten ELSE {}

\* Types; the store is in a call exactly while a handler waits for it.
TypeOK ==
    /\ HandlerTypeOK
    /\ Memory!StoreTypeOK(Memory!Places \cup Redis!Places \cup MySql!Places)
    /\ Memory!MemoryTypeOK /\ Redis!RedisTypeOK /\ MySql!MySqlTypeOK
    /\ \A w \in Workers : at[w] # "idle" <=> pc[w] \in {"setnx", "get"}
    /\ restarts \in Nat

\* An id given out for a url stays stored with that url and no other, unless
\* two setNX calls found it free at once in memory (MemoryStore::setNX), Redis
\* has dropped it, or the program ended that held it in memory: neither a command
\* sent twice, a statement that threw nor a restart before a server may replace
\* it, and an expired row is not used again.
AckedStored ==
    \A id \in Keys \ (raced \cup dropped \cup Gone) : \A u \in acked[id] : Held(id) = u

\* A request for an id that had been given out is answered 404 only if the id
\* has expired, was given out before the program was restarted with an empty
\* filter, two workers have since set bits in the same word of the filter at the
\* same time (Bloom::add), or the filter passes it and Redis leaves the command
\* without a reply (RedisStore::get).
AckedIdRedirects ==
    \A w \in Workers :
        Answers404(w) /\ expected[w] # {} =>
            \/ Torn(job[w].id)
            \/ job[w].id \in dropped \cup overdue \cup forgotten
            \/ link[w] = "broken" /\ \A i \in DOMAIN Probes[job[w].id] : Probes[job[w].id][i] \in bloom

\* A redirect never leads elsewhere than the id had been given out for, with
\* the same exceptions as AckedStored.
RedirectTrue ==
    \A w \in Workers :
        Answers301(w) /\ job[w].id \notin raced \cup dropped \cup Gone =>
            expected[w] \subseteq {answer[w].url}

\* While no command or statement fails, a shorten request is refused only after
\* all its draws and with the last id taken, on every store but one: Redis
\* rejects the command that RedisStore::setNX sends without a ttl.
FailsForCause ==
    \A w \in Workers :
        Answers500(w) /\ ~failed =>
            \/ backend = "redis" /\ ttl[w] = 0
            \/ tries[w] = MaxTries - 1 /\ (Held(job[w].id) # NoUrl \/ job[w].id \in dropped)

\* "int ttlSec = 0": a ttl is optional, and wrk_short.sh shortens a url without
\* one and goes on with the id it gets: while no command or statement fails, a
\* shorten request is refused only when an id that it drew is taken.
TtlOptional ==
    \A w \in Workers :
        Answers500(w) /\ ~failed => Held(job[w].id) # NoUrl \/ job[w].id \in dropped
=============================================================================
