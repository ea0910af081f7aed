----------------------------- MODULE RedisStore -----------------------------
(***************************************************************************)
(* RedisStore as the only store: get and setNX, a Redis command each, sent *)
(* through RedisClient::cmd on the thread's own connection.                *)
(*                                                                         *)
(* A command may lose its reply, executed or not; cmd then connects anew,  *)
(* which may throw, and sends it once more.  What cmd leaves broken stays  *)
(* in tls_ctx_: it fails the first sending of the thread's next command    *)
(* without reaching the server.  Redis drops an entry when its time is     *)
(* over or its memory is full, at any moment here.                         *)
(***************************************************************************)
EXTENDS IStore

VARIABLES
    redis,      \* the url of each key, NoUrl when absent
    link,       \* tls_ctx_ of each thread: not there yet, up or in error
    \* History, which no step of the code reads:
    failed,     \* some command or statement has failed
    dropped     \* keys that Redis has dropped

Places == {"redisGet", "redisSetNX"}
Entry(op) == IF op = "get" THEN "redisGet" ELSE "redisSetNX"
Key(w) == call[w].key

RedisInit ==
    /\ StoreInit
    /\ redis = [k \in Keys |-> NoUrl]
    /\ link = [w \in Workers |-> "none"]
    /\ failed = FALSE
    /\ dropped = {}

\* Variant with a fault: the command is sent without NX.
AlwaysFree(w) == call[w].ttl > 0

\* Whether SET .. NX stores: without a ttl it has an empty argument and a 0 in
\* place of "EX ttl", which Redis rejects.
Stores(w) == call[w].ttl > 0 /\ redis[Key(w)] = NoUrl

\* The server executes the command due.
Execute(w) ==
    redis' = IF at[w] = "redisSetNX" /\ Stores(w)
             THEN [redis EXCEPT ![Key(w)] = call[w].url] ELSE redis

\* The command is executed and its reply arrives.
Replied(w) ==
    /\ at[w] \in Places
    /\ Execute(w)
    /\ \/ at[w] = "redisGet" /\ Finish(w, redis[Key(w)])
       \/ at[w] = "redisSetNX" /\ Finish(w, IF Stores(w) THEN "true" ELSE "false")
    /\ link' = [link EXCEPT ![w] = "up"]
    /\ UNCHANGED <<failed, dropped>>

\* No reply: cmd will send the command again.
NoReply(w) ==
    /\ at[w] \in Places /\ link[w] # "broken"
    /\ failed' = TRUE
    /\ Execute(w) \/ UNCHANGED redis
    /\ link' = [link EXCEPT ![w] = "broken"]
    /\ UNCHANGED <<storeCallVars, dropped>>

\* No reply again: cmd returns nullptr, which get takes for no entry and setNX
\* for an entry that is there.
GaveUp(w) ==
    /\ at[w] \in Places /\ link[w] = "broken"
    /\ failed' = TRUE
    /\ Execute(w) \/ UNCHANGED redis
    /\ Finish(w, IF at[w] = "redisGet" THEN NoUrl ELSE "false")
    /\ UNCHANGED <<link, dropped>>

\* RedisClient::get cannot connect; the context in error is kept.
Throws(w) ==
    /\ at[w] \in Places /\ link[w] # "up"
    /\ failed' = TRUE
    /\ Finish(w, "threw")
    /\ link' = [link EXCEPT ![w] = "broken"]
    /\ UNCHANGED <<redis, dropped>>

Drop(k) ==
    /\ redis[k] # NoUrl
    /\ redis' = [redis EXCEPT ![k] = NoUrl]
    /\ dropped' = dropped \cup {k}
    /\ UNCHANGED <<storeCallVars, link, failed>>

Step(w) == Replied(w) \/ NoReply(w) \/ GaveUp(w) \/ Throws(w)

RedisTypeOK ==
    /\ redis \in [Keys -> Urls \cup {NoUrl}]
    /\ link \in [Workers -> {"none", "up", "broken"}]
    /\ failed \in BOOLEAN
    /\ dropped \subseteq Keys
=============================================================================
