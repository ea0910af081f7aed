-------------------------- MODULE CacheAsideStore --------------------------
(***************************************************************************)
(* CacheAsideStore: Redis as a cache before a MySQL table.  A call is a    *)
(* sequence of commands to two servers and is atomic as a whole nowhere:   *)
(* every Redis command and every SQL statement is a step of its own.       *)
(*                                                                         *)
(* The two servers are modelled from the commands that the code sends and  *)
(* from the replies it reads.  A Redis command may lose its reply, executed*)
(* or not; RedisClient::cmd then reconnects, which may throw, and sends it *)
(* once more.  A SQL statement may throw, executed or not.  One clock      *)
(* serves the program and both servers.                                    *)
(***************************************************************************)
EXTENDS IStore

CONSTANTS
    BackfillTtl,    \* backfillTtlSec_, 0 to 3600 from CACHE_BACKFILL_TTL
    MaxLag,         \* bound on the duration of one call, in seconds
    MaxTime,        \* bound on the clock, for model checking
    MaxFaults       \* bound on lost replies and failed statements

ASSUME CacheAsideAssumption ==
    /\ BackfillTtl \in Nat
    /\ MaxLag \in Nat
    /\ MaxTime \in Nat
    /\ MaxFaults \in Nat

VARIABLES
    now,        \* seconds, time(nullptr) and the servers' clocks
    redis,      \* the entry of each key, NoEntry when absent
    mysql,      \* the row of each key in short_url, NoRow when absent
    since,      \* when the call of each worker began, 0 outside of one
    attempt,    \* which sending of the Redis command is due, 1 or 2
    faults,     \* failures so far
    \* History, which no step of the code reads:
    touched,    \* keys that set or del has been called for
    changed     \* when each row was last inserted, replaced or deleted

serverVars == <<redis, mysql, changed>>
vars == <<storeCallVars, now, redis, mysql, since, attempt, faults, touched, changed>>

NoEntry == [url |-> NoUrl, exp |-> 0]
NoRow == [url |-> NoUrl, created |-> 0, ttl |-> 0]

RedisPlaces == {"redisGet", "redisSet", "redisDel"}
SqlPlaces == {"select", "insert", "replace", "delete"}
Places == RedisPlaces \cup SqlPlaces

\* The first command of each operation.
Entry(op) ==
    IF op = "get" THEN "redisGet"
    ELSE IF op = "setNX" THEN "insert"
    ELSE IF op = "set" THEN "replace"
    ELSE "delete"

Key(w) == call[w].key
HasRow(k) == mysql[k] # NoRow

\* Variant with a fault: the ttl of the row is not looked at.
NeverExpired(row) == FALSE

\* The test of MySqlStore::get on a row that it has read.
Expired(row) == row.ttl > 0 /\ now > row.created + row.ttl

Init ==
    /\ StoreInit
    /\ now = 0
    /\ redis = [k \in Keys |-> NoEntry]
    /\ mysql = [k \in Keys |-> NoRow]
    /\ since = [w \in Workers |-> 0]
    /\ attempt = [w \in Workers |-> 1]
    /\ faults = 0
    /\ touched = {}
    /\ changed = [k \in Keys |-> 0]

Invoke(w, c) ==
    /\ Begin(w, c, Entry(c.op))
    /\ since' = [since EXCEPT ![w] = now]
    /\ attempt' = [attempt EXCEPT ![w] = 1]
    /\ touched' = IF c.op \in {"set", "del"} THEN touched \cup {c.key} ELSE touched
    /\ UNCHANGED <<now, faults, serverVars>>

Fault ==
    /\ faults < MaxFaults
    /\ faults' = faults + 1

-----------------------------------------------------------------------------
\* Variant with a fault: the backfill stores the argument of the call.
ValueOfCaller(w) == call[w].url

\* What SET stores: the url of a get's row or of the caller, and its life.
Value(w) == IF call[w].op = "get" THEN res[w] ELSE call[w].url
Life(w) == IF call[w].op = "get" THEN BackfillTtl ELSE call[w].ttl

\* Variant with a fault: without a ttl the entry is stored for good.
StoredForGood(k, url, life) ==
    [url |-> url, exp |-> IF life > 0 THEN now + life ELSE MaxTime + 10]

\* RedisStore::set sends "SET key value EX ttl".  Without a ttl it sends an
\* empty argument and 0 instead, which Redis rejects: nothing is stored.
Stored(k, url, life) == IF life > 0 THEN [url |-> url, exp |-> now + life] ELSE redis[k]

\* The command due at worker w's place, executed by the server.
Execute(w) ==
    \/ at[w] = "redisGet" /\ UNCHANGED redis
    \/ at[w] = "redisSet" /\ redis' =
           [redis EXCEPT ![Key(w)] = Stored(Key(w), Value(w), Life(w))]
    \/ at[w] = "redisDel" /\ redis' = [redis EXCEPT ![Key(w)] = NoEntry]

\* The rest of the call once set or del is over; it ignores the reply.
Conclude(w) ==
    \/ call[w].op = "get" /\ Finish(w, res[w])
    \/ call[w].op = "setNX" /\ Finish(w, "true")
    \/ call[w].op \in {"set", "del"} /\ Finish(w, "void")

\* Redis executes the command and its reply arrives.
RedisReply(w) ==
    /\ at[w] \in RedisPlaces
    /\ Execute(w)
    /\ \/ at[w] # "redisGet" /\ Conclude(w)
       \/ at[w] = "redisGet" /\ redis[Key(w)] # NoEntry /\ Finish(w, redis[Key(w)].url)
       \/ at[w] = "redisGet" /\ redis[Key(w)] = NoEntry /\ Proceed(w, "select")
    /\ UNCHANGED <<now, mysql, since, attempt, faults, touched, changed>>

\* No reply: cmd drops the connection and will send the command again.
RedisNoReply(w) ==
    /\ at[w] \in RedisPlaces
    /\ attempt[w] = 1
    /\ Fault
    /\ Execute(w) \/ UNCHANGED redis
    /\ attempt' = [attempt EXCEPT ![w] = 2]
    /\ UNCHANGED <<storeCallVars, now, mysql, since, touched, changed>>

\* No reply again: cmd returns nullptr, a miss for get and nothing for set.
RedisNull(w) ==
    /\ at[w] \in RedisPlaces
    /\ attempt[w] = 2
    /\ Fault
    /\ Execute(w) \/ UNCHANGED redis
    /\ attempt' = [attempt EXCEPT ![w] = 1]
    /\ \/ at[w] # "redisGet" /\ Conclude(w)
       \/ at[w] = "redisGet" /\ Proceed(w, "select")
    /\ UNCHANGED <<now, mysql, since, touched, changed>>

\* RedisClient::get cannot connect: the exception leaves the store.
RedisThrows(w) ==
    /\ at[w] \in RedisPlaces
    /\ Fault
    /\ Finish(w, "threw")
    /\ UNCHANGED <<now, serverVars, since, attempt, touched>>

-----------------------------------------------------------------------------
\* MySqlStore::get, and the branch of CacheAsideStore::get on its result.
Select(w) ==
    LET row == mysql[Key(w)] IN
    /\ at[w] = "select"
    /\ \/ /\ HasRow(Key(w)) /\ ~Expired(row)
          /\ at' = [at EXCEPT ![w] = "redisSet"]
          /\ res' = [res EXCEPT ![w] = row.url]
          /\ UNCHANGED call
       \/ /\ ~HasRow(Key(w)) \/ Expired(row)
          /\ Finish(w, NoUrl)
    /\ attempt' = [attempt EXCEPT ![w] = 1]
    /\ UNCHANGED <<now, serverVars, since, faults, touched>>

\* The row that worker w's statement writes, created_at by default now.
Row(w) == [url |-> call[w].url, created |-> now, ttl |-> call[w].ttl]

PutRow(k, row) ==
    /\ mysql' = [mysql EXCEPT ![k] = row]
    /\ changed' = [changed EXCEPT ![k] = now]

\* Variant with a fault: the insert replaces a row that is there.
AlwaysInsert(k) == TRUE

\* Whether INSERT meets no duplicate of the primary key.
MayInsert(k) == ~HasRow(k)

\* MySqlStore::setNX: false on a duplicate key, otherwise on to Redis.
Insert(w) ==
    /\ at[w] = "insert"
    /\ \/ MayInsert(Key(w)) /\ PutRow(Key(w), Row(w)) /\ Proceed(w, "redisSet")
       \/ ~MayInsert(Key(w)) /\ UNCHANGED <<mysql, changed>> /\ Finish(w, "false")
    /\ UNCHANGED <<now, redis, since, attempt, faults, touched>>

Replace(w) ==
    /\ at[w] = "replace"
    /\ PutRow(Key(w), Row(w))
    /\ Proceed(w, "redisSet")
    /\ UNCHANGED <<now, redis, since, attempt, faults, touched>>

Delete(w) ==
    /\ at[w] = "delete"
    /\ PutRow(Key(w), NoRow)
    /\ Proceed(w, "redisDel")
    /\ UNCHANGED <<now, redis, since, attempt, faults, touched>>

\* What a statement that throws may have done all the same.
Effect(w) ==
    \/ UNCHANGED <<mysql, changed>>
    \/ at[w] = "insert" /\ MayInsert(Key(w)) /\ PutRow(Key(w), Row(w))
    \/ at[w] = "replace" /\ PutRow(Key(w), Row(w))
    \/ at[w] = "delete" /\ PutRow(Key(w), NoRow)

\* A statement throws; only setNX catches, and reports a duplicate.
SqlThrows(w) ==
    /\ at[w] \in SqlPlaces
    /\ Fault
    /\ Effect(w)
    /\ Finish(w, IF at[w] = "insert" THEN "false" ELSE "threw")
    /\ UNCHANGED <<now, redis, since, attempt, touched>>

Deliver(w) ==
    /\ Return(w)
    /\ since' = [since EXCEPT ![w] = 0]
    /\ attempt' = [attempt EXCEPT ![w] = 1]
    /\ UNCHANGED <<now, serverVars, faults, touched>>

-----------------------------------------------------------------------------
\* Redis drops an entry under memory pressure or in a restart.
Evict(k) ==
    /\ redis[k] # NoEntry
    /\ redis' = [redis EXCEPT ![k] = NoEntry]
    /\ UNCHANGED <<storeCallVars, now, mysql, since, attempt, faults, touched, changed>>

\* A second passes, unless a call would last too long; Redis forgets the
\* entries whose time has come, MySQL keeps its rows.
Tick ==
    /\ now < MaxTime
    /\ \A w \in Workers : Running(w) => now < since[w] + MaxLag
    /\ now' = now + 1
    /\ redis' = [k \in Keys |-> IF redis[k].exp <= now + 1 THEN NoEntry ELSE redis[k]]
    /\ UNCHANGED <<storeCallVars, mysql, since, attempt, faults, touched, changed>>

\* One step of the call that worker w is in.
Step(w) ==
    \/ RedisReply(w) \/ RedisNoReply(w) \/ RedisNull(w) \/ RedisThrows(w)
    \/ Select(w) \/ Insert(w) \/ Replace(w) \/ Delete(w) \/ SqlThrows(w)

Next ==
    \/ \E w \in Workers, c \in Calls : Invoke(w, c)
    \/ \E w \in Workers : Step(w) \/ Deliver(w)
    \/ \E k \in Keys : Evict(k)
    \/ Tick

Spec == Init /\ [][Next]_vars

-----------------------------------------------------------------------------
Entries == [url : Urls, exp : Nat \ {0}] \cup {NoEntry}
Rows == [url : Urls, created : Nat, ttl : Ttls] \cup {NoRow}

\* Types, and the places at which each operation can be.
TypeOK ==
    /\ StoreTypeOK(Places)
    /\ now \in Nat
    /\ redis \in [Keys -> Entries]
    /\ mysql \in [Keys -> Rows]
    /\ since \in [Workers -> Nat]
    /\ attempt \in [Workers -> {1, 2}]
    /\ faults \in 0 .. MaxFaults
    /\ touched \subseteq Keys
    /\ changed \in [Keys -> Nat]
    /\ \A w \in Workers : at[w] = "redisSet" => Value(w) \in Urls

\* An id that is only created and read, as the handlers do, is never answered
\* from Redis with another url than its row has, or without a row, whatever is
\* resent, lost or evicted (CacheAsideStore::get and setNX).
CacheTracksRow ==
    \A k \in Keys \ touched :
        redis[k] # NoEntry => HasRow(k) /\ redis[k].url = mysql[k].url

\* The ttl of such an id is exceeded in Redis by at most one backfill that a
\* call began before the expiry and the duration of that call.
ExpiryHonoured ==
    \A k \in Keys \ touched :
        redis[k] # NoEntry /\ mysql[k].ttl > 0 =>
            redis[k].exp <= mysql[k].created + mysql[k].ttl + MaxLag + BackfillTtl

\* The lives that a SET can give an entry.
Lives == Ttls \cup {BackfillTtl}

\* When set and del race with the backfill of a get, or fail half way, Redis may
\* hold what is no longer in the table, but not for longer than one call and
\* one life of an entry after the row's last change.
StaleBounded ==
    \A k \in Keys :
        redis[k] # NoEntry /\ redis[k].url # mysql[k].url =>
            \E life \in Lives : redis[k].exp <= changed[k] + MaxLag + life
=============================================================================
