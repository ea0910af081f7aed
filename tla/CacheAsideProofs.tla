-------------------------- MODULE CacheAsideProofs --------------------------
(* Theorems about CacheAsideStore, for all values of its constants.        *)
EXTENDS CacheAsideStore, TLAPS

\* The place of a call tells its operation, and a call that may change a row
\* that exists has touched its key.
Located ==
    \A w \in Workers :
        /\ at[w] \in {"redisGet", "select"} => call[w].op = "get"
        /\ at[w] = "insert" => call[w].op = "setNX"
        /\ at[w] = "replace" => call[w].op = "set"
        /\ at[w] \in {"delete", "redisDel"} => call[w].op = "del"
        /\ at[w] = "redisSet" => call[w].op \in {"get", "setNX", "set"}
        /\ call[w].op \in {"set", "del"} => Key(w) \in touched

\* No call lasts longer than MaxLag.
Timely ==
    \A w \in Workers : Running(w) => since[w] <= now /\ now <= since[w] + MaxLag

\* What a call is about to write to Redis: the url of the row, early enough.
Pending ==
    \A w \in Workers : at[w] = "redisSet" /\ Key(w) \notin touched =>
        LET row == mysql[Key(w)] IN
        /\ row # NoRow
        /\ Value(w) = row.url
        /\ row.ttl > 0 => since[w] + Life(w) <= row.created + row.ttl + BackfillTtl

IInv ==
    /\ TypeOK
    /\ Located
    /\ Timely
    /\ Pending
    /\ CacheTracksRow
    /\ ExpiryHonoured

-----------------------------------------------------------------------------
\* The invariant holds initially.
LEMMA InvInit == Init => IInv
<1> SUFFICES ASSUME Init PROVE IInv
  OBVIOUS
<1>1. TypeOK
  BY CacheAsideAssumption
  DEF Init, StoreInit, TypeOK, StoreTypeOK, Outcomes, Entries, Rows, NoEntry, NoRow
<1>2. Located /\ Timely /\ Pending
  BY DEF Init, StoreInit, Located, Timely, Pending, Running, NoCall
<1>3. CacheTracksRow /\ ExpiryHonoured
  BY DEF Init, CacheTracksRow, ExpiryHonoured
<1>4. QED BY <1>1, <1>2, <1>3 DEF IInv

\* What TypeOK says of one worker inside a call.
LEMMA CallTypes ==
    ASSUME TypeOK, NEW w \in Workers, at[w] # "idle"
    PROVE  /\ call[w] \in Calls
           /\ Key(w) \in Keys
           /\ call[w].op \in {"get", "setNX", "set", "del"}
           /\ call[w].op \in {"setNX", "set"} => call[w].url \in Urls
           /\ call[w].ttl \in Nat
           /\ Life(w) \in Nat
<1>1. call[w] \in Calls
  BY DEF TypeOK, StoreTypeOK
<1>2. /\ call[w].key \in Keys
      /\ call[w].op \in {"get", "setNX", "set", "del"}
      /\ call[w].op \in {"setNX", "set"} => call[w].url \in Urls
      /\ call[w].ttl \in Nat
  <2>1. CASE call[w] \in [op : {"get", "del"}, key : Keys, url : {NoUrl}, ttl : {0}]
    BY <2>1
  <2>2. CASE call[w] \in [op : {"setNX", "set"}, key : Keys, url : Urls, ttl : Ttls]
    BY <2>2, TtlAssumption
  <2>3. QED BY <1>1, <2>1, <2>2 DEF Calls
<1>3. Life(w) \in Nat
  BY <1>2, CacheAsideAssumption DEF Life
<1>4. QED BY <1>1, <1>2, <1>3 DEF Key

\* A value and a life that fit make a well-typed entry, or leave the old one.
LEMMA StoredType ==
    ASSUME TypeOK, NEW k \in Keys, NEW url \in Urls, NEW life \in Nat
    PROVE  Stored(k, url, life) \in Entries
<1>1. CASE life > 0
  <2>1. now + life \in Nat \ {0}
    BY <1>1 DEF TypeOK
  <2>2. QED BY <1>1, <2>1 DEF Stored, Entries
<1>2. CASE ~(life > 0)
  BY <1>2 DEF Stored, TypeOK
<1>3. QED BY <1>1, <1>2

\* Executing a Redis command keeps the entries typed and changes one key only.
LEMMA ExecuteType ==
    ASSUME TypeOK, NEW w \in Workers, at[w] \in RedisPlaces, Execute(w)
    PROVE  /\ redis' \in [Keys -> Entries]
           /\ \A k \in Keys : k # Key(w) => redis'[k] = redis[k]
           /\ at[w] = "redisGet" => redis' = redis
           /\ at[w] = "redisSet" => redis'[Key(w)] = Stored(Key(w), Value(w), Life(w))
           /\ at[w] = "redisDel" => redis'[Key(w)] = NoEntry
<1>1. Key(w) \in Keys /\ Life(w) \in Nat /\ redis \in [Keys -> Entries]
  BY CallTypes DEF TypeOK, RedisPlaces
<1>2. CASE at[w] = "redisGet"
  BY <1>1, <1>2 DEF Execute
<1>3. CASE at[w] = "redisSet"
  <2>1. Stored(Key(w), Value(w), Life(w)) \in Entries
    BY <1>1, <1>3, StoredType DEF TypeOK
  <2>2. redis' = [redis EXCEPT ![Key(w)] = Stored(Key(w), Value(w), Life(w))]
    BY <1>3 DEF Execute
  <2>3. QED BY <1>1, <1>3, <2>1, <2>2
<1>4. CASE at[w] = "redisDel"
  <2>1. redis' = [redis EXCEPT ![Key(w)] = NoEntry]
    BY <1>4 DEF Execute
  <2>2. NoEntry \in Entries
    BY DEF Entries
  <2>3. QED BY <1>1, <1>4, <2>1, <2>2
<1>5. QED BY <1>2, <1>3, <1>4 DEF RedisPlaces

-----------------------------------------------------------------------------
\* NoCall is no call, so an idle worker is told apart from a busy one.
LEMMA NoCallApart == NoCall \notin Calls
BY DEF NoCall, Calls

\* A call that begins keeps the interface typed.
LEMMA BeginType ==
    ASSUME StoreTypeOK(Places), NEW w \in Workers, NEW c \in Calls,
           NEW place \in Places, Begin(w, c, place)
    PROVE  StoreTypeOK(Places)'
BY NoCallApart DEF StoreTypeOK, Begin, Places, RedisPlaces, SqlPlaces

\* So does one that moves on to another place,
LEMMA ProceedType ==
    ASSUME StoreTypeOK(Places), NEW w \in Workers, at[w] \in Places,
           NEW place \in Places, Proceed(w, place)
    PROVE  StoreTypeOK(Places)'
BY DEF StoreTypeOK, Proceed, Places, RedisPlaces, SqlPlaces

\* one that ends,
LEMMA FinishType ==
    ASSUME StoreTypeOK(Places), NEW w \in Workers, at[w] \in Places,
           NEW r \in Urls \cup {NoUrl} \cup Outcomes, Finish(w, r)
    PROVE  StoreTypeOK(Places)'
BY DEF StoreTypeOK, Finish, Places, RedisPlaces, SqlPlaces

\* and one whose result is taken.
LEMMA ReturnType ==
    ASSUME StoreTypeOK(Places), NEW w \in Workers, Return(w)
    PROVE  StoreTypeOK(Places)'
BY DEF StoreTypeOK, Return, Outcomes

\* A row that is not NoRow: insertion gives one, and its url is in Urls.
LEMMA RowType ==
    ASSUME TypeOK, NEW w \in Workers, at[w] \in {"insert", "replace"}, Located
    PROVE  Row(w) \in Rows /\ Row(w) # NoRow /\ Row(w).url = call[w].url
<1>1. call[w].op \in {"setNX", "set"}
  BY DEF Located
<1>2. call[w].url \in Urls /\ call[w] \in Calls
  BY <1>1, CallTypes
<1>3. call[w].ttl \in Ttls
  BY <1>1, <1>2 DEF Calls
<1>4. now \in Nat
  BY DEF TypeOK
<1>5. Row(w) \in Rows /\ Row(w).url = call[w].url
  BY <1>2, <1>3, <1>4 DEF Row, Rows
<1>6. QED BY <1>5, <1>2, UrlAssumption DEF NoRow

-----------------------------------------------------------------------------
\* How the cache may change in a step that keeps the clock: entries stay, go,
\* or are stored by a pending SET; and rows of untouched keys stay.
CacheMoves ==
    /\ now' = now
    /\ touched \subseteq touched'
    /\ \A k \in Keys \ touched : mysql[k] # NoRow => mysql'[k] = mysql[k]
    /\ \A k \in Keys \ touched :
          \/ redis'[k] = redis[k]
          \/ redis'[k] = NoEntry
          \/ \E w \in Workers : /\ at[w] = "redisSet" /\ Key(w) = k
                                /\ redis'[k] = Stored(k, Value(w), Life(w))

\* A step that moves the cache so keeps what is promised of it.
LEMMA CacheStep ==
    ASSUME IInv, CacheMoves
    PROVE  CacheTracksRow' /\ ExpiryHonoured'
<1> SUFFICES ASSUME NEW k \in Keys \ touched', redis'[k] # NoEntry
             PROVE  /\ mysql'[k] # NoRow /\ redis'[k].url = mysql'[k].url
                    /\ mysql'[k].ttl > 0 =>
                         redis'[k].exp <= mysql'[k].created + mysql'[k].ttl
                                              + MaxLag + BackfillTtl
  BY DEF CacheTracksRow, ExpiryHonoured, HasRow
<1>1. k \in Keys \ touched
  BY DEF CacheMoves
<1>2. CASE redis'[k] = redis[k]
  <2>1. mysql[k] # NoRow /\ redis[k].url = mysql[k].url
    BY <1>1, <1>2 DEF IInv, CacheTracksRow, HasRow
  <2>2. mysql'[k] = mysql[k]
    BY <1>1, <2>1 DEF CacheMoves
  <2>3. mysql[k].ttl > 0 => redis[k].exp <= mysql[k].created + mysql[k].ttl
                                                + MaxLag + BackfillTtl
    BY <1>1, <1>2 DEF IInv, ExpiryHonoured
  <2>4. QED BY <2>1, <2>2, <2>3, <1>2
<1>3. CASE \E w \in Workers : /\ at[w] = "redisSet" /\ Key(w) = k
                              /\ redis'[k] = Stored(k, Value(w), Life(w))
  <2>1. PICK w \in Workers : /\ at[w] = "redisSet" /\ Key(w) = k
                             /\ redis'[k] = Stored(k, Value(w), Life(w))
    BY <1>3
  <2>2. CASE ~(Life(w) > 0)
    BY <2>1, <2>2, <1>2 DEF Stored
  <2>3. CASE Life(w) > 0
    <3>1. redis'[k].url = Value(w) /\ redis'[k].exp = now + Life(w)
      BY <2>1, <2>3 DEF Stored
    <3>2. /\ mysql[k] # NoRow /\ Value(w) = mysql[k].url
          /\ mysql[k].ttl > 0 => since[w] + Life(w)
                 <= mysql[k].created + mysql[k].ttl + BackfillTtl
      BY <1>1, <2>1 DEF IInv, Pending
    <3>3. now <= since[w] + MaxLag
      BY <2>1 DEF IInv, Timely, Running
    <3>4. /\ mysql[k].created \in Nat /\ mysql[k].ttl \in Nat
          /\ since[w] \in Nat /\ now \in Nat /\ Life(w) \in Nat
          /\ MaxLag \in Nat /\ BackfillTtl \in Nat
      <4>1. mysql[k] \in Rows /\ since[w] \in Nat /\ now \in Nat
        BY <1>1 DEF IInv, TypeOK
      <4>2. mysql[k].created \in Nat /\ mysql[k].ttl \in Nat
        BY <4>1, <3>2, TtlAssumption DEF Rows
      <4>3. Life(w) \in Nat
        BY <2>1, CallTypes DEF IInv
      <4>4. QED BY <4>1, <4>2, <4>3, CacheAsideAssumption
    <3>5. mysql'[k] = mysql[k]
      BY <1>1, <3>2 DEF CacheMoves
    <3> HIDE DEF Life, Value
    <3>6. QED BY <3>1, <3>2, <3>3, <3>4, <3>5
  <2>4. QED BY <2>2, <2>3
<1>4. QED BY <1>1, <1>2, <1>3 DEF CacheMoves

\* A SET that was pending stays so, with the same value and the same row.
StaysPending(w) ==
    /\ at[w] = "redisSet" /\ Key(w)' = Key(w)
    /\ Value(w)' = Value(w) /\ Life(w)' = Life(w) /\ since'[w] = since[w]

\* If the SETs that are still pending stay so, they still fit their rows.
LEMMA PendingStep ==
    ASSUME IInv, CacheMoves,
           \A w \in Workers :
               at'[w] = "redisSet" /\ Key(w)' \notin touched' => StaysPending(w)
    PROVE  Pending'
<1> SUFFICES ASSUME NEW w \in Workers, at'[w] = "redisSet", Key(w)' \notin touched'
             PROVE  /\ mysql'[Key(w)'] # NoRow
                    /\ Value(w)' = mysql'[Key(w)'].url
                    /\ mysql'[Key(w)'].ttl > 0 => since'[w] + Life(w)'
                         <= mysql'[Key(w)'].created + mysql'[Key(w)'].ttl + BackfillTtl
  BY DEF Pending
<1>1. StaysPending(w) /\ Key(w) \notin touched
  BY DEF CacheMoves, StaysPending
<1>2. /\ mysql[Key(w)] # NoRow /\ Value(w) = mysql[Key(w)].url
      /\ mysql[Key(w)].ttl > 0 => since[w] + Life(w)
             <= mysql[Key(w)].created + mysql[Key(w)].ttl + BackfillTtl
  BY <1>1 DEF IInv, Pending, StaysPending
<1>3. Key(w) \in Keys
  BY <1>1, CallTypes DEF IInv, StaysPending
<1>4. mysql'[Key(w)] = mysql[Key(w)]
  BY <1>1, <1>2, <1>3 DEF CacheMoves
<1>5. QED BY <1>1, <1>2, <1>4 DEF StaysPending

-----------------------------------------------------------------------------
\* A Redis command, executed or not, moves the cache as CacheMoves says.
LEMMA RedisMoves ==
    ASSUME IInv, NEW w \in Workers, at[w] \in RedisPlaces,
           Execute(w) \/ UNCHANGED redis, UNCHANGED <<now, mysql, touched>>
    PROVE  CacheMoves /\ redis' \in [Keys -> Entries]
<1>1. CASE UNCHANGED redis
  BY <1>1 DEF CacheMoves, IInv, TypeOK
<1>2. CASE Execute(w)
  <2>1. TypeOK
    BY DEF IInv
  <2>2. /\ redis' \in [Keys -> Entries]
        /\ \A k \in Keys : k # Key(w) => redis'[k] = redis[k]
        /\ at[w] = "redisGet" => redis' = redis
        /\ at[w] = "redisSet" => redis'[Key(w)] = Stored(Key(w), Value(w), Life(w))
        /\ at[w] = "redisDel" => redis'[Key(w)] = NoEntry
    BY <1>2, <2>1, ExecuteType
  <2>3. \A k \in Keys \ touched :
          \/ redis'[k] = redis[k]
          \/ redis'[k] = NoEntry
          \/ \E v \in Workers : /\ at[v] = "redisSet" /\ Key(v) = k
                                /\ redis'[k] = Stored(k, Value(v), Life(v))
    BY <2>2 DEF RedisPlaces
  <2>4. QED BY <2>2, <2>3 DEF CacheMoves
<1>3. QED BY <1>1, <1>2

\* The result a finishing set, setNX or backfill returns.
LEMMA ConcludeType ==
    ASSUME IInv, NEW w \in Workers, at[w] \in RedisPlaces, Conclude(w)
    PROVE  /\ StoreTypeOK(Places)'
           /\ at' = [at EXCEPT ![w] = "done"] /\ call' = call
           /\ \A v \in Workers : v # w => res'[v] = res[v]
<1>1. at[w] \in Places /\ res[w] \in Urls \cup {NoUrl} \cup Outcomes
      /\ StoreTypeOK(Places)
  BY DEF IInv, TypeOK, StoreTypeOK, Places
<1>2. PICK r \in Urls \cup {NoUrl} \cup Outcomes : Finish(w, r)
  BY <1>1 DEF Conclude, Outcomes
<1>3. StoreTypeOK(Places)'
  BY <1>1, <1>2, FinishType
<1>4. QED BY <1>2, <1>3 DEF Finish, IInv, TypeOK, StoreTypeOK

\* A step of worker w that leaves Redis: the others keep what they will write.
LEMMA LeaveStep ==
    ASSUME IInv, TypeOK', CacheMoves, NEW w \in Workers,
           Running(w), call' = call, since' = since, touched' = touched,
           \A v \in Workers : v # w => at'[v] = at[v] /\ res'[v] = res[v],
           \/ at'[w] = "done"
           \/ at[w] = "redisGet" /\ at'[w] = "select"
           \/ at'[w] = at[w] /\ res'[w] = res[w]
    PROVE  IInv'
<1>1. Located'
  BY DEF IInv, Located, Key
<1>2. Timely'
  BY DEF IInv, Timely, Running, CacheMoves
<1>3. \A v \in Workers : at'[v] = "redisSet" => StaysPending(v)
  BY DEF StaysPending, Key, Value, Life
<1>4. Pending'
  BY <1>3, PendingStep
<1>5. CacheTracksRow' /\ ExpiryHonoured'
  BY CacheStep
<1>6. QED BY <1>1, <1>2, <1>4, <1>5 DEF IInv

\* The reply to a Redis command keeps the invariant.
LEMMA InvRedisReply ==
    ASSUME IInv, NEW w \in Workers, RedisReply(w)
    PROVE  IInv'
<1>1. CacheMoves /\ redis' \in [Keys -> Entries]
  BY RedisMoves DEF RedisReply
<1>2. /\ at[w] \in RedisPlaces /\ at[w] \in Places /\ Running(w) /\ Key(w) \in Keys
      /\ StoreTypeOK(Places)
  BY CallTypes DEF RedisReply, RedisPlaces, Places, Running, IInv, TypeOK
<1>3. /\ StoreTypeOK(Places)' /\ call' = call
      /\ \A v \in Workers : v # w => at'[v] = at[v] /\ res'[v] = res[v]
      /\ at'[w] = "done" \/ (at[w] = "redisGet" /\ at'[w] = "select")
  <2>1. CASE Conclude(w)
    BY <2>1, <1>2, ConcludeType DEF IInv, TypeOK, StoreTypeOK
  <2>2. CASE redis[Key(w)] # NoEntry /\ Finish(w, redis[Key(w)].url)
    <3>1. redis[Key(w)].url \in Urls
      BY <2>2, <1>2 DEF IInv, TypeOK, Entries
    <3>2. StoreTypeOK(Places)'
      BY <2>2, <3>1, <1>2, FinishType
    <3>3. QED BY <2>2, <3>2, <1>2 DEF Finish, StoreTypeOK
  <2>3. CASE at[w] = "redisGet" /\ Proceed(w, "select")
    <3>1. StoreTypeOK(Places)'
      BY <2>3, <1>2, ProceedType DEF Places, SqlPlaces
    <3>2. QED BY <2>3, <3>1, <1>2 DEF Proceed, StoreTypeOK
  <2>4. QED BY <2>1, <2>2, <2>3 DEF RedisReply
<1>4. \A v \in Workers : at'[v] = "redisSet" => Value(v)' \in Urls
  BY <1>3 DEF IInv, TypeOK, Value
<1>5. TypeOK'
  BY <1>1, <1>3, <1>4 DEF RedisReply, IInv, TypeOK
<1>6. QED BY <1>1, <1>2, <1>3, <1>5, LeaveStep DEF RedisReply

\* The first loss of a reply keeps it.
LEMMA InvRedisNoReply ==
    ASSUME IInv, NEW w \in Workers, RedisNoReply(w)
    PROVE  IInv'
<1>1. CacheMoves /\ redis' \in [Keys -> Entries]
  BY RedisMoves DEF RedisNoReply
<1>2. faults' \in 0 .. MaxFaults /\ attempt' \in [Workers -> {1, 2}]
  BY CacheAsideAssumption DEF RedisNoReply, Fault, IInv, TypeOK
<1>3. \A v \in Workers : at'[v] = "redisSet" => Value(v)' \in Urls
  BY DEF IInv, TypeOK, Value, RedisNoReply, storeCallVars
<1>4. TypeOK'
  BY <1>1, <1>2, <1>3 DEF RedisNoReply, IInv, TypeOK, StoreTypeOK, storeCallVars
<1>5. Running(w)
  BY DEF RedisNoReply, Running, RedisPlaces
<1>6. QED BY <1>1, <1>4, <1>5, LeaveStep DEF RedisNoReply, storeCallVars

\* The second loss, after which the call goes on without Redis, keeps it.
LEMMA InvRedisNull ==
    ASSUME IInv, NEW w \in Workers, RedisNull(w)
    PROVE  IInv'
<1>1. CacheMoves /\ redis' \in [Keys -> Entries]
  BY RedisMoves DEF RedisNull
<1>2. /\ at[w] \in RedisPlaces /\ at[w] \in Places /\ Running(w)
      /\ StoreTypeOK(Places)
  BY DEF RedisNull, RedisPlaces, Places, Running, IInv, TypeOK
<1>3. /\ StoreTypeOK(Places)' /\ call' = call
      /\ \A v \in Workers : v # w => at'[v] = at[v] /\ res'[v] = res[v]
      /\ at'[w] = "done" \/ (at[w] = "redisGet" /\ at'[w] = "select")
  <2>1. CASE Conclude(w)
    BY <2>1, <1>2, ConcludeType DEF IInv, TypeOK, StoreTypeOK
  <2>2. CASE at[w] = "redisGet" /\ Proceed(w, "select")
    <3>1. StoreTypeOK(Places)'
      BY <2>2, <1>2, ProceedType DEF Places, SqlPlaces
    <3>2. QED BY <2>2, <3>1, <1>2 DEF Proceed, StoreTypeOK
  <2>3. QED BY <2>1, <2>2 DEF RedisNull
<1>4. \A v \in Workers : at'[v] = "redisSet" => Value(v)' \in Urls
  BY <1>3 DEF IInv, TypeOK, Value
<1>5. faults' \in 0 .. MaxFaults /\ attempt' \in [Workers -> {1, 2}]
  BY CacheAsideAssumption DEF RedisNull, Fault, IInv, TypeOK
<1>6. TypeOK'
  BY <1>1, <1>3, <1>4, <1>5 DEF RedisNull, IInv, TypeOK
<1>7. QED BY <1>1, <1>2, <1>3, <1>6, LeaveStep DEF RedisNull

\* An exception that ends the call keeps it.
LEMMA InvRedisThrows ==
    ASSUME IInv, NEW w \in Workers, RedisThrows(w)
    PROVE  IInv'
<1>1. CacheMoves
  BY DEF RedisThrows, serverVars, CacheMoves
<1>2. at[w] \in Places /\ Running(w) /\ StoreTypeOK(Places)
  BY DEF RedisThrows, RedisPlaces, Places, Running, IInv, TypeOK
<1>3. StoreTypeOK(Places)'
  BY <1>2, FinishType DEF RedisThrows, Outcomes
<1>4. /\ call' = call /\ at'[w] = "done"
      /\ \A v \in Workers : v # w => at'[v] = at[v] /\ res'[v] = res[v]
  BY <1>2 DEF RedisThrows, Finish, StoreTypeOK
<1>5. \A v \in Workers : at'[v] = "redisSet" => Value(v)' \in Urls
  BY <1>4 DEF IInv, TypeOK, Value
<1>6. faults' \in 0 .. MaxFaults
  BY CacheAsideAssumption DEF RedisThrows, Fault, IInv, TypeOK
<1>7. TypeOK'
  BY <1>3, <1>5, <1>6 DEF RedisThrows, serverVars, IInv, TypeOK
<1>8. QED BY <1>1, <1>2, <1>4, <1>7, LeaveStep DEF RedisThrows, serverVars

-----------------------------------------------------------------------------
\* The table changes a row of an untouched key only from NoRow.
LEMMA RowsStay ==
    ASSUME IInv, NEW w \in Workers, NEW row \in Rows, PutRow(Key(w), row),
           \/ MayInsert(Key(w))
           \/ at[w] \in {"replace", "delete"},
           Running(w), UNCHANGED <<now, redis, touched>>
    PROVE  /\ CacheMoves
           /\ mysql' \in [Keys -> Rows] /\ changed' \in [Keys -> Nat]
           /\ mysql'[Key(w)] = row
<1>1. Key(w) \in Keys
  BY CallTypes DEF IInv, Running
<1>2. /\ mysql \in [Keys -> Rows] /\ changed \in [Keys -> Nat] /\ now \in Nat
      /\ touched \subseteq Keys
  BY DEF IInv, TypeOK
<1>3. mysql' \in [Keys -> Rows] /\ changed' \in [Keys -> Nat] /\ mysql'[Key(w)] = row
  BY <1>1, <1>2 DEF PutRow
<1>4. Key(w) \in touched \/ mysql[Key(w)] = NoRow
  BY DEF IInv, Located, MayInsert, HasRow
<1>5. \A k \in Keys \ touched : mysql[k] # NoRow => mysql'[k] = mysql[k]
  BY <1>2, <1>4 DEF PutRow
<1>6. QED BY <1>3, <1>5 DEF CacheMoves

\* A SELECT keeps it: the backfill that follows is of a row not yet expired.
LEMMA InvSelect ==
    ASSUME IInv, NEW w \in Workers, Select(w)
    PROVE  IInv'
<1>1. /\ at[w] = "select" /\ at[w] \in Places /\ Running(w) /\ StoreTypeOK(Places)
      /\ Key(w) \in Keys /\ call[w].op = "get"
  BY CallTypes DEF Select, SqlPlaces, Places, Running, IInv, TypeOK, Located
<1>2. CacheMoves
  BY DEF Select, serverVars, CacheMoves
<1>3. attempt' \in [Workers -> {1, 2}]
  BY DEF Select, IInv, TypeOK
<1>4. CASE Finish(w, NoUrl)
  <2>1. StoreTypeOK(Places)'
    BY <1>1, <1>4, FinishType
  <2>2. /\ call' = call /\ at'[w] = "done"
        /\ \A v \in Workers : v # w => at'[v] = at[v] /\ res'[v] = res[v]
    BY <1>1, <1>4 DEF Finish, StoreTypeOK
  <2>3. \A v \in Workers : at'[v] = "redisSet" => Value(v)' \in Urls
    BY <2>2 DEF IInv, TypeOK, Value
  <2>4. TypeOK'
    BY <1>3, <2>1, <2>3 DEF Select, serverVars, IInv, TypeOK
  <2>5. QED BY <1>1, <1>2, <2>2, <2>4, LeaveStep DEF Select, serverVars
<1>5. CASE /\ HasRow(Key(w)) /\ ~Expired(mysql[Key(w)])
           /\ at' = [at EXCEPT ![w] = "redisSet"]
           /\ res' = [res EXCEPT ![w] = mysql[Key(w)].url]
           /\ UNCHANGED call
  <2> DEFINE row == mysql[Key(w)]
  <2>1. row \in Rows /\ row # NoRow
    BY <1>1, <1>5 DEF HasRow, IInv, TypeOK
  <2>2. row.url \in Urls /\ row.created \in Nat /\ row.ttl \in Nat
    BY <2>1, TtlAssumption DEF Rows
  <2>3. at'[w] = "redisSet" /\ res'[w] = row.url /\ call' = call
    BY <1>1, <1>5 DEF StoreTypeOK
  <2>4. \A v \in Workers : v # w => at'[v] = at[v] /\ res'[v] = res[v]
    BY <1>1, <1>5 DEF StoreTypeOK
  <2>5. StoreTypeOK(Places)'
    BY <1>1, <1>5, <2>2 DEF StoreTypeOK, Places, RedisPlaces
  <2>6. \A v \in Workers : at'[v] = "redisSet" => Value(v)' \in Urls
    BY <1>1, <2>2, <2>3, <2>4 DEF IInv, TypeOK, Value
  <2>7. TypeOK'
    BY <1>3, <2>5, <2>6 DEF Select, serverVars, IInv, TypeOK
  <2>8. Located'
    BY <1>1, <2>3, <2>4 DEF IInv, Located, Key, Select
  <2>9. Timely'
    BY <1>1, <2>4 DEF IInv, Timely, Running, Select
  <2>10. Pending'
    <3> SUFFICES ASSUME NEW v \in Workers, at'[v] = "redisSet", Key(v)' \notin touched'
                 PROVE  /\ mysql'[Key(v)'] # NoRow
                        /\ Value(v)' = mysql'[Key(v)'].url
                        /\ mysql'[Key(v)'].ttl > 0 => since'[v] + Life(v)'
                             <= mysql'[Key(v)'].created + mysql'[Key(v)'].ttl + BackfillTtl
      BY DEF Pending
    <3>1. /\ mysql' = mysql /\ touched' = touched /\ since' = since
          /\ Key(v)' = Key(v) /\ Life(v)' = Life(v)
      BY <2>3 DEF Select, serverVars, Key, Life
    <3>2. CASE v = w
      <4>1. Value(v)' = row.url /\ Life(v) = BackfillTtl
        BY <3>2, <1>1, <2>3 DEF Value, Life
      <4>2. row.ttl > 0 => since[w] <= row.created + row.ttl
        <5>1. row.ttl > 0 => now <= row.created + row.ttl
          <6>1. ~Expired(row) /\ now \in Nat
            BY <1>5 DEF IInv, TypeOK
          <6> HIDE DEF row
          <6>2. QED BY <6>1, <2>2 DEF Expired
        <5>2. since[w] <= now /\ since[w] \in Nat /\ now \in Nat
          BY <1>1 DEF IInv, Timely, TypeOK
        <5> HIDE DEF row
        <5>3. QED BY <5>1, <5>2, <2>2
      <4>3. since[w] \in Nat /\ BackfillTtl \in Nat
        BY CacheAsideAssumption DEF IInv, TypeOK
      <4>4. row.ttl > 0 => since[w] + BackfillTtl <= row.created + row.ttl + BackfillTtl
        <5> HIDE DEF row
        <5>1. QED BY <4>2, <4>3, <2>2
      <4>5. QED BY <3>1, <3>2, <4>1, <4>4, <2>1
    <3>3. CASE v # w
      <4>1. at[v] = "redisSet" /\ Value(v)' = Value(v) /\ Key(v) \notin touched
        BY <3>1, <3>3, <2>3, <2>4 DEF Value
      <4>2. QED BY <3>1, <4>1 DEF IInv, Pending
    <3>4. QED BY <3>2, <3>3
  <2>11. CacheTracksRow' /\ ExpiryHonoured'
    BY <1>2, CacheStep
  <2>12. QED BY <2>7, <2>8, <2>9, <2>10, <2>11 DEF IInv
<1>6. QED BY <1>4, <1>5 DEF Select

\* An INSERT keeps it: the SET that follows is of the row just written.
LEMMA InvInsert ==
    ASSUME IInv, NEW w \in Workers, Insert(w)
    PROVE  IInv'
<1>1. /\ at[w] = "insert" /\ at[w] \in Places /\ Running(w) /\ StoreTypeOK(Places)
      /\ Key(w) \in Keys /\ call[w].op = "setNX" /\ touched' = touched
      /\ since' = since /\ now' = now
  BY CallTypes DEF Insert, SqlPlaces, Places, Running, IInv, TypeOK, Located
<1>2. CASE UNCHANGED <<mysql, changed>> /\ Finish(w, "false")
  <2>1. CacheMoves
    BY <1>2 DEF Insert, CacheMoves
  <2>2. StoreTypeOK(Places)'
    BY <1>1, <1>2, FinishType DEF Outcomes
  <2>3. /\ call' = call /\ at'[w] = "done"
        /\ \A v \in Workers : v # w => at'[v] = at[v] /\ res'[v] = res[v]
    BY <1>1, <1>2 DEF Finish, StoreTypeOK
  <2>4. \A v \in Workers : at'[v] = "redisSet" => Value(v)' \in Urls
    BY <2>3 DEF IInv, TypeOK, Value
  <2>5. TypeOK'
    BY <1>2, <2>2, <2>4 DEF Insert, IInv, TypeOK
  <2>6. QED BY <1>1, <2>1, <2>3, <2>5, LeaveStep
<1>3. CASE MayInsert(Key(w)) /\ PutRow(Key(w), Row(w)) /\ Proceed(w, "redisSet")
  <2>1. Row(w) \in Rows /\ Row(w) # NoRow /\ Row(w).url = call[w].url
    BY <1>1, RowType DEF IInv
  <2>2. /\ CacheMoves /\ mysql' \in [Keys -> Rows] /\ changed' \in [Keys -> Nat]
        /\ mysql'[Key(w)] = Row(w)
    BY <1>1, <1>3, <2>1, RowsStay DEF Insert
  <2>3. StoreTypeOK(Places)'
    BY <1>1, <1>3, ProceedType DEF Places, RedisPlaces
  <2>4. /\ call' = call /\ res' = res /\ at'[w] = "redisSet"
        /\ \A v \in Workers : v # w => at'[v] = at[v]
    BY <1>1, <1>3 DEF Proceed, StoreTypeOK
  <2>5. call[w].url \in Urls
    BY <1>1, CallTypes DEF IInv
  <2>6. \A v \in Workers : at'[v] = "redisSet" => Value(v)' \in Urls
    BY <1>1, <2>4, <2>5 DEF IInv, TypeOK, Value
  <2>7. TypeOK'
    BY <2>2, <2>3, <2>6 DEF Insert, IInv, TypeOK
  <2>8. Located'
    BY <1>1, <2>4 DEF IInv, Located, Key
  <2>9. Timely'
    BY <1>1, <2>4 DEF IInv, Timely, Running
  <2>10. Pending'
    <3> SUFFICES ASSUME NEW v \in Workers, at'[v] = "redisSet", Key(v)' \notin touched'
                 PROVE  /\ mysql'[Key(v)'] # NoRow
                        /\ Value(v)' = mysql'[Key(v)'].url
                        /\ mysql'[Key(v)'].ttl > 0 => since'[v] + Life(v)'
                             <= mysql'[Key(v)'].created + mysql'[Key(v)'].ttl + BackfillTtl
      BY DEF Pending
    <3>1. Key(v)' = Key(v) /\ Life(v)' = Life(v) /\ Value(v)' = Value(v)
      BY <2>4 DEF Key, Life, Value
    <3>2. CASE v = w
      <4>1. Value(w) = call[w].url /\ Life(w) = call[w].ttl
        BY <1>1 DEF Value, Life
      <4>2. Row(w).created = now /\ Row(w).ttl = call[w].ttl
        BY DEF Row
      <4>3. since[w] <= now /\ since[w] \in Nat /\ now \in Nat
        BY <1>1 DEF IInv, Timely, TypeOK
      <4>4. call[w].ttl \in Nat /\ BackfillTtl \in Nat
        BY <1>1, CallTypes, CacheAsideAssumption DEF IInv
      <4>5. since[w] + call[w].ttl <= now + call[w].ttl + BackfillTtl
        BY <4>3, <4>4
      <4>6. QED BY <1>1, <2>1, <2>2, <3>1, <3>2, <4>1, <4>2, <4>5
    <3>3. CASE v # w
      <4>1. at[v] = "redisSet" /\ Key(v) \notin touched
        BY <1>1, <3>1, <3>3, <2>4
      <4>2. Key(v) \in Keys
        BY <4>1, CallTypes DEF IInv
      <4>3. /\ mysql[Key(v)] # NoRow /\ Value(v) = mysql[Key(v)].url
            /\ mysql[Key(v)].ttl > 0 => since[v] + Life(v)
                   <= mysql[Key(v)].created + mysql[Key(v)].ttl + BackfillTtl
        BY <4>1 DEF IInv, Pending
      <4>4. mysql'[Key(v)] = mysql[Key(v)]
        BY <2>2, <4>1, <4>2, <4>3 DEF CacheMoves
      <4>5. QED BY <1>1, <3>1, <4>3, <4>4
    <3>4. QED BY <3>2, <3>3
  <2>11. CacheTracksRow' /\ ExpiryHonoured'
    BY <2>2, CacheStep
  <2>12. QED BY <2>7, <2>8, <2>9, <2>10, <2>11 DEF IInv
<1>4. QED BY <1>2, <1>3 DEF Insert

\* The steps that replace or delete a row act on a key that is touched.
LEMMA InvReplaceDelete ==
    ASSUME IInv, NEW w \in Workers, Replace(w) \/ Delete(w)
    PROVE  IInv'
<1>1. /\ at[w] \in {"replace", "delete"} /\ at[w] \in Places /\ Running(w)
      /\ StoreTypeOK(Places) /\ Key(w) \in Keys /\ Key(w) \in touched
      /\ touched' = touched /\ since' = since /\ now' = now /\ redis' = redis
      /\ attempt' = attempt /\ faults' = faults
      /\ at[w] = "replace" => call[w].op = "set"
      /\ at[w] = "delete" => call[w].op = "del"
  BY CallTypes DEF Replace, Delete, SqlPlaces, Places, Running, IInv, TypeOK, Located
<1>2. PICK row \in Rows : PutRow(Key(w), row)
  <2>1. CASE Replace(w)
    <3>1. at[w] = "replace"
      BY <2>1 DEF Replace
    <3>2. Row(w) \in Rows
      BY <3>1, RowType DEF IInv
    <3>3. QED BY <2>1, <3>2 DEF Replace
  <2>2. CASE Delete(w)
    BY <2>2 DEF Delete, Rows
  <2>3. QED BY <2>1, <2>2
<1>3. PICK place \in {"redisSet", "redisDel"} :
          /\ Proceed(w, place)
          /\ place = "redisSet" => at[w] = "replace"
          /\ place = "redisDel" => at[w] = "delete"
  BY DEF Replace, Delete
<1>4. CacheMoves /\ mysql' \in [Keys -> Rows] /\ changed' \in [Keys -> Nat]
  BY <1>1, <1>2, RowsStay
<1>5. StoreTypeOK(Places)'
  BY <1>1, <1>3, ProceedType DEF Places, RedisPlaces
<1>6. /\ call' = call /\ res' = res /\ at'[w] = place
      /\ \A v \in Workers : v # w => at'[v] = at[v]
  BY <1>1, <1>3 DEF Proceed, StoreTypeOK
<1>7. \A v \in Workers : at'[v] = "redisSet" => Value(v)' \in Urls
  <2>1. at[w] = "replace" => call[w].url \in Urls
    BY <1>1, CallTypes DEF IInv
  <2>2. QED BY <1>1, <1>3, <1>6, <2>1 DEF IInv, TypeOK, Value
<1>8. TypeOK'
  BY <1>1, <1>4, <1>5, <1>7 DEF IInv, TypeOK
<1>9. Located'
  BY <1>1, <1>3, <1>6 DEF IInv, Located, Key
<1>10. Timely'
  BY <1>1, <1>6 DEF IInv, Timely, Running
<1>11. \A v \in Workers :
          at'[v] = "redisSet" /\ Key(v)' \notin touched' => StaysPending(v)
  BY <1>1, <1>6 DEF StaysPending, Key, Value, Life
<1>12. Pending'
  BY <1>4, <1>11, PendingStep
<1>13. CacheTracksRow' /\ ExpiryHonoured'
  BY <1>4, CacheStep
<1>14. QED BY <1>8, <1>9, <1>10, <1>12, <1>13 DEF IInv

\* A statement that throws has either no effect or the one it would have had.
LEMMA InvSqlThrows ==
    ASSUME IInv, NEW w \in Workers, SqlThrows(w)
    PROVE  IInv'
<1>1. /\ at[w] \in SqlPlaces /\ at[w] \in Places /\ Running(w) /\ StoreTypeOK(Places)
      /\ touched' = touched /\ since' = since /\ now' = now /\ redis' = redis
  BY DEF SqlThrows, SqlPlaces, Places, Running, IInv, TypeOK
<1>2. CacheMoves /\ mysql' \in [Keys -> Rows] /\ changed' \in [Keys -> Nat]
  <2>1. CASE UNCHANGED <<mysql, changed>>
    BY <1>1, <2>1 DEF CacheMoves, IInv, TypeOK
  <2>2. CASE at[w] = "insert" /\ MayInsert(Key(w)) /\ PutRow(Key(w), Row(w))
    <3>1. Row(w) \in Rows
      BY <2>2, RowType DEF IInv
    <3>2. QED BY <1>1, <2>2, <3>1, RowsStay
  <2>3. CASE at[w] = "replace" /\ PutRow(Key(w), Row(w))
    <3>1. Row(w) \in Rows
      BY <2>3, RowType DEF IInv
    <3>2. QED BY <1>1, <2>3, <3>1, RowsStay
  <2>4. CASE at[w] = "delete" /\ PutRow(Key(w), NoRow)
    <3>1. NoRow \in Rows
      BY DEF Rows
    <3>2. QED BY <1>1, <2>4, <3>1, RowsStay
  <2>5. QED BY <2>1, <2>2, <2>3, <2>4 DEF SqlThrows, Effect
<1>3. PICK r \in Outcomes : Finish(w, r)
  BY DEF SqlThrows, Outcomes
<1>4. StoreTypeOK(Places)'
  BY <1>1, <1>3, FinishType
<1>5. /\ call' = call /\ at'[w] = "done"
      /\ \A v \in Workers : v # w => at'[v] = at[v] /\ res'[v] = res[v]
  BY <1>1, <1>3 DEF Finish, StoreTypeOK
<1>6. \A v \in Workers : at'[v] = "redisSet" => Value(v)' \in Urls
  BY <1>5 DEF IInv, TypeOK, Value
<1>7. faults' \in 0 .. MaxFaults
  BY CacheAsideAssumption DEF SqlThrows, Fault, IInv, TypeOK
<1>8. TypeOK'
  BY <1>1, <1>2, <1>4, <1>6, <1>7 DEF SqlThrows, IInv, TypeOK
<1>9. QED BY <1>1, <1>2, <1>5, <1>8, LeaveStep

\* A call that begins keeps it.
LEMMA InvInvoke ==
    ASSUME IInv, NEW w \in Workers, NEW c \in Calls, Invoke(w, c)
    PROVE  IInv'
<1>1. /\ at[w] = "idle" /\ StoreTypeOK(Places)
      /\ redis' = redis /\ mysql' = mysql /\ now' = now
      /\ Begin(w, c, Entry(c.op))
  BY DEF Invoke, Begin, serverVars, IInv, TypeOK
<1>2. c.op \in {"get", "setNX", "set", "del"} /\ c.key \in Keys
  BY DEF Calls
<1>3. /\ Entry(c.op) \in Places /\ Entry(c.op) \in {"redisGet", "insert", "replace", "delete"}
      /\ Entry(c.op) = "redisGet" => c.op = "get"
      /\ Entry(c.op) = "insert" => c.op = "setNX"
      /\ Entry(c.op) = "replace" => c.op = "set"
      /\ Entry(c.op) = "delete" => c.op = "del"
  BY <1>2 DEF Entry, Places, RedisPlaces, SqlPlaces
<1>4. StoreTypeOK(Places)'
  BY <1>1, <1>3, BeginType
<1>5. /\ call'[w] = c /\ at'[w] = Entry(c.op) /\ res' = res /\ since'[w] = now
      /\ \A v \in Workers : v # w => /\ at'[v] = at[v] /\ call'[v] = call[v]
                                     /\ since'[v] = since[v]
  BY <1>1 DEF Begin, Invoke, StoreTypeOK, IInv, TypeOK
<1>6. touched \subseteq touched' /\ touched' \subseteq Keys
      /\ (c.op \in {"set", "del"} => c.key \in touched')
  BY <1>2 DEF Invoke, IInv, TypeOK
<1>7. CacheMoves
  BY <1>1, <1>6 DEF CacheMoves
<1>8. \A v \in Workers : at'[v] = "redisSet" => Value(v)' \in Urls
  BY <1>3, <1>5 DEF IInv, TypeOK, Value
<1>9. TypeOK'
  BY <1>1, <1>4, <1>6, <1>8 DEF Invoke, serverVars, IInv, TypeOK
<1>10. Located'
  <2> SUFFICES ASSUME NEW v \in Workers
               PROVE  /\ at'[v] \in {"redisGet", "select"} => call'[v].op = "get"
                      /\ at'[v] = "insert" => call'[v].op = "setNX"
                      /\ at'[v] = "replace" => call'[v].op = "set"
                      /\ at'[v] \in {"delete", "redisDel"} => call'[v].op = "del"
                      /\ at'[v] = "redisSet" => call'[v].op \in {"get", "setNX", "set"}
                      /\ call'[v].op \in {"set", "del"} => Key(v)' \in touched'
    BY DEF Located
  <2>1. CASE v = w
    BY <2>1, <1>3, <1>5, <1>6 DEF Key
  <2>2. CASE v # w
    BY <2>2, <1>5, <1>6 DEF IInv, Located, Key
  <2>3. QED BY <2>1, <2>2
<1>11. Timely'
  <2>1. now \in Nat /\ MaxLag \in Nat
    BY CacheAsideAssumption DEF IInv, TypeOK
  <2>2. QED BY <2>1, <1>1, <1>5 DEF IInv, Timely, Running
<1>12. \A v \in Workers : at'[v] = "redisSet" => StaysPending(v)
  BY <1>3, <1>5 DEF StaysPending, Key, Value, Life
<1>13. Pending'
  BY <1>7, <1>12, PendingStep
<1>14. CacheTracksRow' /\ ExpiryHonoured'
  BY <1>7, CacheStep
<1>15. QED BY <1>9, <1>10, <1>11, <1>13, <1>14 DEF IInv

\* A result that is taken keeps it.
LEMMA InvDeliver ==
    ASSUME IInv, NEW w \in Workers, Deliver(w)
    PROVE  IInv'
<1>1. /\ at[w] = "done" /\ StoreTypeOK(Places) /\ touched' = touched
      /\ redis' = redis /\ mysql' = mysql /\ now' = now /\ changed' = changed
      /\ faults' = faults
  BY DEF Deliver, Return, serverVars, IInv, TypeOK
<1>2. /\ call'[w] = NoCall /\ at'[w] = "idle"
      /\ \A v \in Workers : v # w => /\ at'[v] = at[v] /\ call'[v] = call[v]
                                     /\ since'[v] = since[v] /\ res'[v] = res[v]
  BY <1>1 DEF Deliver, Return, StoreTypeOK, IInv, TypeOK
<1>3. CacheMoves
  BY <1>1 DEF CacheMoves
<1>4. StoreTypeOK(Places)'
  BY <1>1, ReturnType DEF Deliver
<1>5. \A v \in Workers : at'[v] = "redisSet" => Value(v)' \in Urls
  BY <1>2 DEF IInv, TypeOK, Value
<1>6. TypeOK'
  BY <1>1, <1>4, <1>5 DEF Deliver, IInv, TypeOK
<1>7. Located'
  BY <1>1, <1>2 DEF IInv, Located, Key, NoCall
<1>8. Timely'
  BY <1>1, <1>2 DEF IInv, Timely, Running
<1>9. \A v \in Workers : at'[v] = "redisSet" => StaysPending(v)
  BY <1>2 DEF StaysPending, Key, Value, Life
<1>10. Pending'
  BY <1>3, <1>9, PendingStep
<1>11. CacheTracksRow' /\ ExpiryHonoured'
  BY <1>3, CacheStep
<1>12. QED BY <1>6, <1>7, <1>8, <1>10, <1>11 DEF IInv

\* An eviction keeps it.
LEMMA InvEvict ==
    ASSUME IInv, NEW k \in Keys, Evict(k)
    PROVE  IInv'
<1>1. redis' \in [Keys -> Entries]
  BY DEF Evict, IInv, TypeOK, Entries
<1>2. CacheMoves
  BY DEF Evict, CacheMoves, IInv, TypeOK
<1>3. \A v \in Workers : at'[v] = "redisSet" => Value(v)' \in Urls
  BY DEF Evict, storeCallVars, IInv, TypeOK, Value
<1>4. TypeOK'
  BY <1>1, <1>3 DEF Evict, storeCallVars, IInv, TypeOK, StoreTypeOK
<1>5. Located' /\ Timely'
  BY DEF Evict, storeCallVars, IInv, Located, Timely, Running, Key
<1>6. \A v \in Workers : at'[v] = "redisSet" => StaysPending(v)
  BY DEF Evict, storeCallVars, StaysPending, Key, Value, Life
<1>7. Pending'
  BY <1>2, <1>6, PendingStep
<1>8. CacheTracksRow' /\ ExpiryHonoured'
  BY <1>2, CacheStep
<1>9. QED BY <1>4, <1>5, <1>7, <1>8 DEF IInv

\* A tick keeps it: no call gets longer than MaxLag.
LEMMA InvTick ==
    ASSUME IInv, Tick
    PROVE  IInv'
<1>1. redis' \in [Keys -> Entries] /\ \A k \in Keys : redis'[k] \in {NoEntry, redis[k]}
  BY DEF Tick, IInv, TypeOK, Entries
<1>2. now' = now + 1 /\ now' \in Nat /\ now \in Nat
  BY DEF Tick, IInv, TypeOK
<1>3. \A v \in Workers : at'[v] = "redisSet" => Value(v)' \in Urls
  BY DEF Tick, storeCallVars, IInv, TypeOK, Value
<1>4. TypeOK'
  BY <1>1, <1>2, <1>3 DEF Tick, storeCallVars, IInv, TypeOK, StoreTypeOK
<1>5. Located' /\ Pending'
  BY DEF Tick, storeCallVars, IInv, Located, Pending, Key, Value, Life
<1>6. Timely'
  <2>1. MaxLag \in Nat /\ \A v \in Workers : since[v] \in Nat
    BY CacheAsideAssumption DEF IInv, TypeOK
  <2>2. QED BY <1>2, <2>1 DEF Tick, storeCallVars, IInv, Timely, Running
<1>7. CacheTracksRow' /\ ExpiryHonoured'
  BY <1>1 DEF Tick, storeCallVars, IInv, CacheTracksRow, ExpiryHonoured, HasRow
<1>8. QED BY <1>4, <1>5, <1>6, <1>7 DEF IInv

-----------------------------------------------------------------------------
\* Every step of the store and of its servers keeps the invariant.
LEMMA InvStep == IInv /\ [Next]_vars => IInv'
<1> SUFFICES ASSUME IInv, [Next]_vars PROVE IInv'
  OBVIOUS
<1>1. CASE \E w \in Workers, c \in Calls : Invoke(w, c)
  BY <1>1, InvInvoke
<1>2. CASE \E w \in Workers : Step(w)
  BY <1>2, InvRedisReply, InvRedisNoReply, InvRedisNull, InvRedisThrows,
     InvSelect, InvInsert, InvReplaceDelete, InvSqlThrows DEF Step
<1>3. CASE \E w \in Workers : Deliver(w)
  BY <1>3, InvDeliver
<1>4. CASE \E k \in Keys : Evict(k)
  BY <1>4, InvEvict
<1>5. CASE Tick
  BY <1>5, InvTick
<1>6. CASE UNCHANGED vars
  BY <1>6 DEF vars, storeCallVars, IInv, TypeOK, StoreTypeOK, Located, Timely, Pending,
     CacheTracksRow, ExpiryHonoured, Running, Key, Value, Life, HasRow
<1>7. QED BY <1>1, <1>2, <1>3, <1>4, <1>5, <1>6 DEF Next

\* The inductive invariant holds in every reachable state of the store.
THEOREM Invariance == Spec => []IInv
BY InvInit, InvStep, PTL DEF Spec

\* Calls, entries, rows and the place of every call have their types.
THEOREM TypeCorrect == Spec => []TypeOK
<1>1. IInv => TypeOK
  BY DEF IInv
<1>2. QED BY <1>1, Invariance, PTL

\* An id that is only created and read is never in Redis with another url than
\* in MySQL, for any number of workers, keys, lost replies and evictions.
THEOREM CacheCoherent == Spec => []CacheTracksRow
<1>1. IInv => CacheTracksRow
  BY DEF IInv
<1>2. QED BY <1>1, Invariance, PTL

\* Nor does it stay there longer than its ttl, one call and one backfill.
THEOREM ExpiryBounded == Spec => []ExpiryHonoured
<1>1. IInv => ExpiryHonoured
  BY DEF IInv
<1>2. QED BY <1>1, Invariance, PTL

-----------------------------------------------------------------------------
(* How long Redis may hold what the table no longer has.                   *)

\* No entry outlives now by more than one life, and no change lies ahead.
Fresh ==
    \A k \in Keys :
        /\ changed[k] <= now
        /\ redis[k] # NoEntry => \E life \in Lives : redis[k].exp <= now + life

\* A row that differs from what a call is about to write to Redis has changed
\* since the call began.
Drift ==
    \A w \in Workers :
        at[w] = "redisSet" /\ Value(w) # mysql[Key(w)].url => since[w] <= changed[Key(w)]

StaleInv == IInv /\ Fresh /\ Drift /\ StaleBounded

\* How the servers may change in a step that keeps the clock: a row stays or is
\* changed now, an entry stays, goes, or is stored by a pending SET that leaves
\* the table alone; and a SET is pending from before or is for its row.
ServersMove ==
    /\ now' = now
    /\ \A k \in Keys :
          \/ mysql'[k] = mysql[k] /\ changed'[k] = changed[k]
          \/ changed'[k] = now
    /\ \A k \in Keys :
          \/ redis'[k] = redis[k]
          \/ redis'[k] = NoEntry
          \/ \E w \in Workers : /\ at[w] = "redisSet" /\ Key(w) = k
                                /\ redis'[k] = Stored(k, Value(w), Life(w))
                                /\ mysql' = mysql /\ changed' = changed
    /\ \A w \in Workers : at'[w] = "redisSet" =>
          StaysPending(w) \/ (Value(w)' = mysql'[Key(w)'].url)

\* The life of an entry that is about to be written is one of the lives.
LEMMA LifeType ==
    ASSUME IInv, NEW w \in Workers, at[w] = "redisSet"
    PROVE  /\ Life(w) \in Lives /\ Life(w) \in Nat /\ Key(w) \in Keys
           /\ since[w] \in Nat /\ since[w] <= now /\ now <= since[w] + MaxLag
<1>1. /\ call[w] \in Calls /\ call[w].op \in {"get", "setNX", "set"}
      /\ Life(w) \in Nat /\ Key(w) \in Keys
  BY CallTypes DEF IInv, Located
<1>2. call[w].op # "get" => call[w].ttl \in Ttls
  BY <1>1 DEF Calls
<1>3. Life(w) \in Lives
  BY <1>2 DEF Life, Lives
<1>4. since[w] \in Nat /\ since[w] <= now /\ now <= since[w] + MaxLag
  BY DEF IInv, TypeOK, Timely, Running
<1>5. QED BY <1>1, <1>3, <1>4

\* The lives and the lag are natural numbers.
LEMMA LivesNat == Lives \subseteq Nat /\ MaxLag \in Nat
BY TtlAssumption, CacheAsideAssumption DEF Lives

\* A step that moves the servers so keeps the staleness bounded.
LEMMA StaleStep ==
    ASSUME StaleInv, ServersMove
    PROVE  Fresh' /\ Drift' /\ StaleBounded'
<1>1. /\ now \in Nat /\ now' = now /\ IInv
      /\ changed \in [Keys -> Nat] /\ redis \in [Keys -> Entries]
  BY DEF StaleInv, IInv, TypeOK, ServersMove
<1>2. ASSUME NEW k \in Keys
      PROVE  changed'[k] \in Nat /\ changed'[k] <= now /\ changed[k] <= changed'[k]
  BY <1>1, <1>2 DEF ServersMove, StaleInv, Fresh
<1>3. ASSUME NEW k \in Keys, redis'[k] # NoEntry
      PROVE  /\ \E life \in Lives : redis'[k].exp <= now + life
             /\ redis'[k].url # mysql'[k].url =>
                  \E life \in Lives : redis'[k].exp <= changed'[k] + MaxLag + life
  <2>1. CASE redis'[k] = redis[k]
    <3>1. PICK life \in Lives : redis[k].exp <= now + life
      BY <1>3, <2>1 DEF StaleInv, Fresh
    <3>2. redis[k].exp \in Nat /\ life \in Nat /\ MaxLag \in Nat
      BY <1>1, <1>3, <2>1, LivesNat DEF Entries
    <3>3. CASE changed'[k] = now
      <4>1. redis[k].exp <= changed'[k] + MaxLag + life
        BY <1>1, <3>1, <3>2, <3>3
      <4>2. QED BY <2>1, <3>1, <4>1
    <3>4. CASE mysql'[k] = mysql[k] /\ changed'[k] = changed[k]
      BY <1>3, <2>1, <3>1, <3>4 DEF StaleInv, StaleBounded
    <3>5. QED BY <3>3, <3>4 DEF ServersMove
  <2>2. CASE \E w \in Workers : /\ at[w] = "redisSet" /\ Key(w) = k
                                /\ redis'[k] = Stored(k, Value(w), Life(w))
                                /\ mysql' = mysql /\ changed' = changed
    <3>1. PICK w \in Workers : /\ at[w] = "redisSet" /\ Key(w) = k
                               /\ redis'[k] = Stored(k, Value(w), Life(w))
                               /\ mysql' = mysql /\ changed' = changed
      BY <2>2
    <3>2. CASE ~(Life(w) > 0)
      BY <3>1, <3>2, <2>1 DEF Stored
    <3>3. CASE Life(w) > 0
      <4>1. redis'[k].url = Value(w) /\ redis'[k].exp = now + Life(w)
        BY <3>1, <3>3 DEF Stored
      <4>2. /\ Life(w) \in Lives /\ Life(w) \in Nat /\ MaxLag \in Nat
            /\ since[w] \in Nat /\ now <= since[w] + MaxLag
        BY <1>1, <3>1, LifeType, LivesNat
      <4>3. Value(w) # mysql[k].url => since[w] <= changed[k]
        BY <3>1 DEF StaleInv, Drift
      <4>4. changed[k] \in Nat
        BY <1>1
      <4> DEFINE life == Life(w)
      <4>5. since[w] <= changed[k] => now + life <= changed[k] + MaxLag + life
        <5> HIDE DEF life
        <5>1. life \in Nat
          BY <4>2 DEF life
        <5>2. QED BY <1>1, <4>2, <4>4, <5>1
      <4>6. life \in Lives /\ redis'[k].exp = now + life
        BY <4>1, <4>2
      <4>7. redis'[k].url # mysql'[k].url => redis'[k].exp <= changed'[k] + MaxLag + life
        <5> HIDE DEF life
        <5>1. QED BY <3>1, <4>1, <4>3, <4>5, <4>6
      <4>8. redis'[k].exp <= now + life
        <5> HIDE DEF life
        <5>1. life \in Nat
          BY <4>2 DEF life
        <5>2. QED BY <1>1, <4>6, <5>1
      <4> HIDE DEF life
      <4>9. QED BY <4>6, <4>7, <4>8
    <3>4. QED BY <3>2, <3>3
  <2>3. QED BY <1>3, <2>1, <2>2 DEF ServersMove
<1>4. Fresh' /\ StaleBounded'
  BY <1>1, <1>2, <1>3 DEF Fresh, StaleBounded
<1>5. ASSUME NEW w \in Workers, at'[w] = "redisSet", Value(w)' # mysql'[Key(w)'].url
      PROVE  since'[w] <= changed'[Key(w)']
  <2>1. /\ at[w] = "redisSet" /\ Key(w)' = Key(w) /\ Value(w)' = Value(w)
        /\ since'[w] = since[w]
    BY <1>5 DEF ServersMove, StaysPending
  <2>2. Key(w) \in Keys /\ since[w] \in Nat /\ since[w] <= now
    BY <1>1, <2>1, LifeType
  <2>3. CASE changed'[Key(w)] = now
    BY <2>1, <2>2, <2>3
  <2>4. CASE mysql'[Key(w)] = mysql[Key(w)] /\ changed'[Key(w)] = changed[Key(w)]
    BY <1>5, <2>1, <2>4 DEF StaleInv, Drift
  <2>5. QED BY <2>2, <2>3, <2>4 DEF ServersMove
<1>6. Drift'
  BY <1>5 DEF Drift
<1>7. QED BY <1>4, <1>6

\* The part of ServersMove that is about the workers other than w.
LEMMA OthersPending ==
    ASSUME NEW w \in Workers, call' = call,
           \A v \in Workers : v # w => at'[v] = at[v] /\ res'[v] = res[v],
           \A v \in Workers : v # w => since'[v] = since[v],
           at'[w] = "redisSet" => StaysPending(w) \/ (Value(w)' = mysql'[Key(w)'].url)
    PROVE  \A v \in Workers : at'[v] = "redisSet" =>
               StaysPending(v) \/ (Value(v)' = mysql'[Key(v)'].url)
BY DEF StaysPending, Key, Value, Life

\* Ending or moving on, a call changes only its own place and result.
LEMMA OthersPlaced ==
    ASSUME TypeOK, NEW w \in Workers,
           (\E r : Finish(w, r)) \/ (\E place : Proceed(w, place))
    PROVE  call' = call /\ \A v \in Workers : v # w => at'[v] = at[v] /\ res'[v] = res[v]
BY DEF Finish, Proceed, TypeOK, StoreTypeOK

\* A Redis command moves the servers so, whether its reply arrives or not.
LEMMA RedisServers ==
    ASSUME StaleInv, NEW w \in Workers,
           RedisReply(w) \/ RedisNoReply(w) \/ RedisNull(w) \/ RedisThrows(w)
    PROVE  ServersMove
<1>1. /\ TypeOK /\ at[w] \in RedisPlaces /\ now' = now /\ mysql' = mysql
      /\ changed' = changed /\ since' = since
      /\ Execute(w) \/ UNCHANGED redis
  BY DEF StaleInv, IInv, RedisReply, RedisNoReply, RedisNull, RedisThrows, serverVars
<1>2. \A k \in Keys :
          \/ redis'[k] = redis[k]
          \/ redis'[k] = NoEntry
          \/ \E v \in Workers : /\ at[v] = "redisSet" /\ Key(v) = k
                                /\ redis'[k] = Stored(k, Value(v), Life(v))
                                /\ mysql' = mysql /\ changed' = changed
  <2>1. CASE UNCHANGED redis
    BY <2>1
  <2>2. CASE Execute(w)
    <3>1. /\ \A k \in Keys : k # Key(w) => redis'[k] = redis[k]
          /\ at[w] = "redisGet" => redis' = redis
          /\ at[w] = "redisSet" => redis'[Key(w)] = Stored(Key(w), Value(w), Life(w))
          /\ at[w] = "redisDel" => redis'[Key(w)] = NoEntry
      BY <1>1, <2>2, ExecuteType
    <3>2. QED BY <1>1, <3>1 DEF RedisPlaces
  <2>3. QED BY <1>1, <2>1, <2>2
<1>3. \A v \in Workers : at'[v] = "redisSet" => StaysPending(v)
  <2>1. CASE RedisNoReply(w)
    BY <1>1, <2>1 DEF RedisNoReply, storeCallVars, StaysPending, Key, Value, Life
  <2>2. CASE (\E r : Finish(w, r)) \/ Proceed(w, "select")
    <3>1. call' = call /\ \A v \in Workers : v # w => at'[v] = at[v] /\ res'[v] = res[v]
      BY <1>1, <2>2, OthersPlaced
    <3>2. at'[w] # "redisSet"
      BY <1>1, <2>2 DEF Finish, Proceed, TypeOK, StoreTypeOK
    <3>3. QED BY <1>1, <3>1, <3>2 DEF StaysPending, Key, Value, Life
  <2>3. QED BY <2>1, <2>2 DEF RedisReply, RedisNull, RedisThrows, Conclude
<1>4. QED BY <1>1, <1>2, <1>3 DEF ServersMove

\* So does a statement to MySQL, whether it throws or not.
LEMMA SqlServers ==
    ASSUME StaleInv, NEW w \in Workers,
           Select(w) \/ Insert(w) \/ Replace(w) \/ Delete(w) \/ SqlThrows(w)
    PROVE  ServersMove
<1>1. /\ TypeOK /\ Located /\ at[w] \in SqlPlaces /\ now' = now /\ redis' = redis
      /\ since' = since
  BY DEF StaleInv, IInv, Select, Insert, Replace, Delete, SqlThrows, serverVars, SqlPlaces
<1>2. Key(w) \in Keys
  BY <1>1, CallTypes DEF SqlPlaces
<1>3. UNCHANGED <<mysql, changed>> \/ (\E row : PutRow(Key(w), row))
  BY DEF Select, serverVars, Insert, Replace, Delete, SqlThrows, Effect
<1>4. \A k \in Keys :
          \/ mysql'[k] = mysql[k] /\ changed'[k] = changed[k]
          \/ changed'[k] = now
  BY <1>1, <1>3 DEF PutRow, TypeOK
<1>5. /\ call' = call
      /\ \A v \in Workers : v # w => at'[v] = at[v] /\ res'[v] = res[v]
  <2>1. CASE \/ \E r : Finish(w, r)
             \/ \E place : Proceed(w, place)
    BY <1>1, <2>1, OthersPlaced
  <2>2. CASE /\ at' = [at EXCEPT ![w] = "redisSet"]
             /\ res' = [res EXCEPT ![w] = mysql[Key(w)].url]
             /\ UNCHANGED call
    BY <1>1, <2>2 DEF TypeOK, StoreTypeOK
  <2>3. QED BY <2>1, <2>2 DEF Select, Insert, Replace, Delete, SqlThrows
<1>6. at'[w] = "redisSet" => Value(w)' = mysql'[Key(w)'].url
  <2>1. Key(w)' = Key(w)
    BY <1>5 DEF Key
  <2>2. CASE Select(w)
    <3>1. at[w] = "select" /\ call[w].op = "get" /\ mysql' = mysql
      BY <1>1, <2>2 DEF Select, serverVars, Located
    <3>2. at'[w] = "redisSet" => res'[w] = mysql[Key(w)].url
      BY <1>1, <2>2 DEF Select, Finish, TypeOK, StoreTypeOK
    <3>3. QED BY <1>5, <2>1, <3>1, <3>2 DEF Value
  <2>3. CASE (Insert(w) \/ Replace(w)) /\ at'[w] = "redisSet"
    <3>1. at[w] \in {"insert", "replace"} /\ call[w].op # "get"
      BY <1>1, <2>3 DEF Insert, Replace, Located
    <3>2. PutRow(Key(w), Row(w))
      BY <1>1, <2>3 DEF Insert, Replace, Finish, TypeOK, StoreTypeOK
    <3>3. mysql'[Key(w)] = Row(w) /\ Row(w).url = call[w].url
      BY <1>1, <1>2, <3>2 DEF PutRow, TypeOK, Row
    <3>4. QED BY <1>5, <2>1, <3>1, <3>3 DEF Value
  <2>4. CASE Delete(w) \/ SqlThrows(w)
    BY <1>1, <2>4 DEF Delete, SqlThrows, Proceed, Finish, TypeOK, StoreTypeOK
  <2>5. QED BY <2>2, <2>3, <2>4
<1>7. \A v \in Workers : at'[v] = "redisSet" =>
          StaysPending(v) \/ (Value(v)' = mysql'[Key(v)'].url)
  BY <1>1, <1>5, <1>6, OthersPending
<1>8. QED BY <1>1, <1>4, <1>7 DEF ServersMove

\* So do the beginning and the end of a call, and an eviction.
LEMMA OtherServers ==
    ASSUME StaleInv,
           \/ \E w \in Workers, c \in Calls : Invoke(w, c)
           \/ \E w \in Workers : Deliver(w)
           \/ \E k \in Keys : Evict(k)
    PROVE  ServersMove
<1>1. TypeOK
  BY DEF StaleInv, IInv
<1>2. ASSUME NEW w \in Workers, NEW c \in Calls, Invoke(w, c) PROVE ServersMove
  <2>1. Entry(c.op) # "redisSet"
    BY DEF Entry
  <2>2. /\ at'[w] = Entry(c.op) /\ res' = res
        /\ \A v \in Workers : v # w => /\ at'[v] = at[v] /\ call'[v] = call[v]
                                       /\ since'[v] = since[v]
    BY <1>1, <1>2 DEF Invoke, Begin, TypeOK, StoreTypeOK
  <2>3. \A v \in Workers : at'[v] = "redisSet" => StaysPending(v)
    BY <2>1, <2>2 DEF StaysPending, Key, Value, Life
  <2>4. QED BY <1>2, <2>3 DEF Invoke, serverVars, ServersMove
<1>3. ASSUME NEW w \in Workers, Deliver(w) PROVE ServersMove
  <2>1. /\ at'[w] = "idle"
        /\ \A v \in Workers : v # w => /\ at'[v] = at[v] /\ call'[v] = call[v]
                                       /\ since'[v] = since[v] /\ res'[v] = res[v]
    BY <1>1, <1>3 DEF Deliver, Return, TypeOK, StoreTypeOK
  <2>2. \A v \in Workers : at'[v] = "redisSet" => StaysPending(v)
    BY <2>1 DEF StaysPending, Key, Value, Life
  <2>3. QED BY <1>3, <2>2 DEF Deliver, serverVars, ServersMove
<1>4. ASSUME NEW k \in Keys, Evict(k) PROVE ServersMove
  <2>1. \A v \in Workers : at'[v] = "redisSet" => StaysPending(v)
    BY <1>4 DEF Evict, storeCallVars, StaysPending, Key, Value, Life
  <2>2. QED BY <1>1, <1>4, <2>1 DEF Evict, ServersMove, TypeOK
<1>5. QED BY <1>2, <1>3, <1>4

\* As time passes entries only go, and the bounds do not come nearer.
LEMMA StaleTick ==
    ASSUME StaleInv, Tick
    PROVE  Fresh' /\ Drift' /\ StaleBounded'
<1>1. /\ now \in Nat /\ now' = now + 1 /\ mysql' = mysql /\ changed' = changed
      /\ changed \in [Keys -> Nat] /\ redis \in [Keys -> Entries]
      /\ \A k \in Keys : redis'[k] \in {NoEntry, redis[k]}
  BY DEF Tick, StaleInv, IInv, TypeOK
<1>2. Drift'
  BY <1>1 DEF Tick, storeCallVars, StaleInv, Drift, Value, Key
<1>3. StaleBounded'
  BY <1>1 DEF StaleInv, StaleBounded
<1>4. ASSUME NEW k \in Keys, redis'[k] # NoEntry
      PROVE  \E life \in Lives : redis'[k].exp <= now + 1 + life
  <2>1. redis'[k] = redis[k]
    BY <1>1, <1>4
  <2>2. PICK life \in Lives : redis[k].exp <= now + life
    BY <1>4, <2>1 DEF StaleInv, Fresh
  <2>3. redis[k].exp \in Nat /\ life \in Nat
    BY <1>1, <1>4, <2>1, LivesNat DEF Entries
  <2>4. QED BY <1>1, <2>1, <2>2, <2>3
<1>5. \A k \in Keys : changed'[k] <= now'
  BY <1>1 DEF StaleInv, Fresh
<1>6. QED BY <1>1, <1>2, <1>3, <1>4, <1>5 DEF Fresh

\* The staleness of the cache is bounded initially and kept so by every step.
LEMMA StaleInvStep ==
    /\ Init => StaleInv
    /\ StaleInv /\ [Next]_vars => StaleInv'
<1>1. Init => StaleInv
  BY InvInit DEF Init, StoreInit, StaleInv, Fresh, Drift, StaleBounded
<1>2. ASSUME StaleInv, [Next]_vars PROVE StaleInv'
  <2>1. IInv'
    BY <1>2, InvStep DEF StaleInv
  <2>2. CASE Tick
    BY <1>2, <2>1, <2>2, StaleTick DEF StaleInv
  <2>3. CASE UNCHANGED vars
    BY <1>2, <2>1, <2>3 DEF vars, storeCallVars, StaleInv, Fresh, Drift, StaleBounded, Value, Key
  <2>4. CASE Next /\ ~Tick
    <3>1. ServersMove
      <4>1. CASE \E w \in Workers : Step(w)
        BY <1>2, <4>1, RedisServers, SqlServers DEF Step
      <4>2. CASE ~\E w \in Workers : Step(w)
        BY <1>2, <2>4, <4>2, OtherServers DEF Next
      <4>3. QED BY <4>1, <4>2
    <3>2. QED BY <1>2, <2>1, <3>1, StaleStep DEF StaleInv
  <2>5. QED BY <1>2, <2>2, <2>3, <2>4
<1>3. QED BY <1>1, <1>2

\* What is no longer in the table leaves Redis within one call and one life of
\* an entry after the row's last change, however set and del race with the
\* backfill of a get or fail half way, whatever is resent, lost or evicted.
THEOREM StalenessBounded == Spec => []StaleBounded
<1>1. StaleInv => StaleBounded
  BY DEF StaleInv
<1>2. Spec => []StaleInv
  BY StaleInvStep, PTL DEF Spec
<1>3. QED BY <1>1, <1>2, PTL
=============================================================================
