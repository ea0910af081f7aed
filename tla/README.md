# A verification of the short link service and its HTTP framework

The repository holds a short link service (`apps/url_shortener`) on an HTTP
server built over the network library muduo (`Kama-HTTPServer-main/HttpServer`)
with an optional response cache (`Kama-HTTPServer-main/HttpCache`).  This
directory holds TLA+ models of the parts in which state meets concurrency,
failure or order, the TLC configurations that check them on small instances, and
theorems that TLAPS proves for every value of the constants.

All paths below are relative to `src/url_shortener_redis_mysql_release/`;
`app/` stands for `apps/url_shortener/include/app/`, `HttpServer/` and
`HttpCache/` for the directories of that name in `Kama-HTTPServer-main/`.

## 1. The system

### How a request travels

muduo accepts connections in a base loop and hands each to one of several event
loops, a thread each (`server.setThreadNum(4)` in both programs).  Everything
for one connection runs in its loop; everything else is shared by all loops:

    bytes -> HttpServer::onMessage -> HttpContext::parseRequest
          -> MiddlewareChain::processBefore   CORS, rate limit, blacklist, cache
          -> Router::route                    ShortenHandler, RedirectHandler, ...
          -> IStore                           memory | Redis | MySQL | cache-aside
          -> MiddlewareChain::processAfter -> the response

A middleware that answers in place of the handler *throws* the response.
`main.cpp` builds the service on memory or, with `WITH_REDIS`, on Redis;
`main_cache_aside.cpp` on Redis before MySQL or, built with one of them only, on
that one.  Built with Redis, the latter always adds the limiter over Redis, because `redis.connect` only stores an
address and never fails; `main.cpp` always adds the in-process one, because
`redis.ok()` asks whether the calling thread has a connection and `main` has none.

### Components, their state, operations and what makes them correct

| Component | State | Operations | What has to hold |
|---|---|---|---|
| `HttpServer`, `HttpContext`, `HttpRequest` | per connection: input buffer, parser state, request, whether it is being shut down | `onMessage`, `parseRequest`, `onRequest`, `handleRequest`, `reset` | one response per request, in order; each handler sees its own body; a client that waits is answered; the connection closes when it was asked to |
| `MiddlewareChain` | list of middlewares | `processBefore`, `processAfter` (in reverse) | what a thrown response skips |
| `RateLimitMiddleware`, `RateLimiter` | a token bucket per `X-Client-Id`, under a mutex; the clock is read outside of it | `allow` | no more than burst + rate x time admitted in any window; no client locked out |
| `RateLimitRedis` (`mw_RateLimitRedis.h`) | a counter with an expiry in Redis | INCR, EXPIRE | no more than `rps_` admitted per second; nobody refused below that; a counter ends |
| `CacheAdapter`, `CacheMiddleware`, `MemoryCacheLRU` | list, map and count of bytes under a mutex; the clock is read outside of it | `before`, `after`; `get`, `set`, `del`, `purgePrefix` | capacity, order of eviction, the latest entry is the one held; what the handlers answer is stored |
| `CorsMiddleware`, `BlacklistMiddleware` | none that changes | `before` | a request is judged by its own body and path |
| `Router` | tables of handlers, written before the server starts | `route` | which handler wins |
| `ShortenHandler`, `RedirectHandler` (`RouterSetup.cpp`), `ShortId`, `Bloom` | the words of a Bloom filter, shared without a lock | `POST /api/shorten`, `GET /s/{id}` | an id that was given out redirects, and to the right url |
| `IStore`, `MemoryStore`, `KVStore` | shards of a map, each under a mutex | `get`, `setNX`, `set`, `del` | `setNX` does not replace |
| `RedisStore`, `RedisClient` | a connection per thread; keys with expiry in Redis | `get`, `setNX`, `set`, `del`; `cmd` sends a command again when it got no reply | a lost reply does no harm |
| `MySqlStore` | one connection for all threads; the table `short_url` | `get`, `setNX`, `set`, `del` | the row is the truth; ttl |
| `CacheAsideStore` | the two above | as above, Redis first on `get`, MySQL first otherwise | Redis does not contradict the table for long |
| `DbConnectionPool`, `MysqlUtil`, `DbConnection` | queue of connections, mutex, condition variable, a thread that checks them | `init`, `getConnection`, the deleter, `checkConnections` | no connection lost or shared; no wake-up lost |
| `SessionManager`, `Session`, `MemorySessionStorage` | map of sessions, without a lock | load, save, expire, destroy | a session holds its own client's data, is kept while used, stays destroyed |
| `SslConnection`, `SslContext` | OpenSSL state, two memory BIOs | handshake, decrypt, encrypt | what the peer sends arrives |
| `Metrics`, `Trace` | counters, random ids | count, print | - |
| `RedisBloom`, `HashRing` | - | used by no program | - |

### What is hard here

* **Interleaving.** Four loops call the handlers, the stores, the limiter and the
  cache; the filter has no lock at all, the limiter and the cache read the clock
  outside theirs, and `MemoryStore::setNX` locks twice.
* **Partial failure.** A cache-aside write is a SQL statement and then a Redis
  command, either of which may fail, take effect without a reply, or be sent twice.
* **Restart.** The servers remember, the filter does not.
* **Time.** Nothing bounds how long a command to Redis takes, while the limiter
  names its counter after the second in which a request read the clock.
* **Expiry.** Three places keep a time for an id: the row, its entry in Redis, and
  the entry that a later read writes back.
* **Streams.** Requests arrive in pieces, several in one, and after an error the
  rest of the input still comes.
* **Waiting.** The pool's clients and its checking thread contend for a mutex that
  the latter keeps while it sleeps.

`PROJECT.json` lists these one by one, each at its line, with the properties that
watch over it.

## 2. The modules

| Module | Models | Kind |
|---|---|---|
| `TokenBucket` | `RateLimiter::allow`, the middleware's refusal | component |
| `RateLimitRedis` | `mw_RateLimitRedis.h` over `RedisClient::cmd` | component |
| `RateLimiting` | the choice of one of the two in `main` | composition |
| `RateLimitingProofs` | theorems on it, and so on both limiters | proofs |
| `IStore` | the interface of the stores as threads use it: a call begins, is somewhere inside, ends | extended by the four stores |
| `MemoryStore` | `MemoryStore` over `KVStore` | component |
| `RedisStore` | `RedisStore` as the only store, over `RedisClient::cmd` and the connection each thread keeps | component |
| `MySqlStore` | `MySqlStore` as the only store | component |
| `CacheAsideStore` | `CacheAsideStore`, `RedisStore`, `RedisClient::cmd`, `MySqlStore` | component |
| `CacheAsideProofs` | theorems on it | proofs |
| `UrlHandlers` | the two handlers, `ShortId`, `Bloom` | component, the store left open |
| `UrlHandlersProofs` | lemmas on it, for any store | proofs |
| `SingleStoreService` | `main`'s choice of a store, `UrlHandlers` with `MemoryStore`, `RedisStore` or `MySqlStore`, restarts | composition |
| `SingleStoreProofs` | theorems on it | proofs |
| `CacheAsideService` | `UrlHandlers` with `CacheAsideStore`, restarts | composition, implements `ShortLinks` |
| `CacheAsideServiceProofs` | theorems on it, with those of its store | proofs |
| `ShortLinks` | what the service promises of its links | abstract specification |
| `Pipeline` | `HttpServer::handleRequest`: the chain, CORS, the blacklist, the router | operators |
| `HttpConnection` | `HttpServer`, `HttpContext`, `HttpRequest` for one connection, `SslConnection` up to the handshake | component, over `Pipeline` |
| `HttpConnectionProofs` | theorems on it, with lemmas on `Pipeline` | proofs |
| `MemoryCacheLRU` | the class | extended by the next |
| `CacheMiddleware` | the class, called as its signature asks | component |
| `CacheAdapter` | the same, called as the server does | variant of it |
| `DbConnectionPool` | the class, with `MysqlUtil` as its client | component |
| `PoolAndCacheProofs` | theorems on it, and on the three modules of the cache | proofs |
| `Sessions` | `SessionManager`, `Session`, `MemorySessionStorage` under several workers | component |
| `SessionsProofs` | theorems on it | proofs |
| `MC*` | constants for TLC | |

### How state and actions correspond to the code

**TokenBucket.** `bucket` is `m_`.  A call is two steps because
`auto now = clock::now()` precedes the lock: `ReadClock` and then `Admit` or
`Refuse`, the critical section with one or the other result.  Two calls may enter
their critical sections in the opposite order of their readings, so `last` may
step back and the elapsed time be negative, as in the code.  Tokens are doubles
there; here they are integers in a unit of which a token has `Cost` and a tick
adds `Rate`, so that fractions of a token exist but rounding does not.

**RateLimitRedis.** `Arrive` is the header, the clock and the name of the
counter, a pair of client and second.  INCR and EXPIRE are a step each, in the
forms that `RedisClient::cmd` gives a command: `Replied`; `NoReply`, executed or
not, after which it is sent again; `GaveUp`, where `cmd` returns `nullptr` and
`before` takes the count for 1 (`WithoutReply`); `Throws`, when it cannot connect.
A connection left broken stays so for the thread's next command (`attempt`).
`Tick` may pass whatever is under way: `cmd` limits the time it tries to connect and
no other, so INCR and EXPIRE may come after the counter has ended.
`RateLimiting` keeps this limiter and the bucket side by side and steps the one
that `main` has added.

**Stores.** `IStore` has the call (`call`), the place inside it (`at`) and the
result (`res`) of each worker.  `MemoryStore` gives `setNX` the places `check` and
`put`, one for each time the lock is held.  `RedisStore` and `MySqlStore` have one
place for each operation, its one command or statement.  What a Redis command
meets depends on `link`, the connection that the thread keeps in `tls_ctx_`: one
that is up or not there yet may lose the reply (`NoReply`, after which `cmd` sends
again), one that is broken fails the first sending before it reaches the server,
so that the next lost reply is the last (`GaveUp`), and every new connection may
fail (`Throws`).  `CacheAsideStore` makes every Redis
command and SQL statement one step: `RedisReply` is a command with its reply;
`RedisNoReply` a command that was or was not executed and has no reply, after
which `cmd` sends it once more; `RedisNull` the second time, where `cmd` gives up
and the caller goes on; `RedisThrows` the exception of `RedisClient::get`.
`Select`, `Insert`, `Replace` and `Delete` are the statements, `SqlThrows` one
that throws, with or without effect.  `Evict` and `Tick` are the servers' own
doing.  `Stored` says what `RedisStore::set` really sends: with a ttl of 0 the
command is malformed and Redis rejects it, so nothing is stored.

**UrlHandlers.** `pc` follows a worker through a handler; `Draw` is the random id
(any id at all, equal ones too), `Claimed` the loop over ids on the result of
`setNX`.  `bits_[i>>6] |= mask` is a read of a word (`BloomLoad`) and a write of
it (`BloomStore`), between which another worker may write the same word: the
outcomes that the compiled code can produce for this data race.  The
composing modules join a handler's step that calls the store with the store's
`Begin`, and one that takes its result with `Return`.  `SingleStoreService` splits
what a worker does into `Work`, which waits for nobody, and `Await`, which needs a
server; the time of an entry or a row runs out at any moment (`Expire`), because
nothing this service does depends on how long it has lived.  A restart of the
program (`Restart`, at any point) empties the filter and ends all requests
(`StartAnew`, `CallsEnd`); the store in memory goes with it, Redis and MySQL keep
what they have.  `forgotten` has the ids that were given out before.

**HttpConnection.** A line of a request head and a byte of a body are tokens.
A body is the bytes that Content-Length announces; the parser knows no other form.
`Deliver` takes any number of tokens from the wire into the buffer and starts
`onMessage`; each round of the parser's loop is an action named for what it meets
(`ParseLine`, `RefuseHeader`, `ExpectBody`, ...); `Handle` is `onRequest` with
what `HandleRequest` of `Pipeline` makes of the request, and then `Reset`, which
leaves the body and its length as `HttpRequest::swap` does.  `onMessage` parses
one request per call, so after `Handle` the loop waits, although more may be in
the buffer.  Only a POST or PUT has its body read: a GET, an OPTIONS or a DELETE is
complete with its head, and the bytes it announced stay in front of the next
request line (`Strays`).  When they are read as a line, they answer for one more 400
(`RefuseLine`); as long as nothing ends it the parser waits (`NeedMore`).  The
model leaves open what they say, except that no line among them is itself a request
line.  On a server made with `useSSL` the callback for input is
`SslConnection::onRead` (`DeliverSecure`): it moves each piece to OpenSSL and tries
the handshake again.  OpenSSL writes its answer into `writeBio_`, which nothing
ever sends, so a client that follows the protocol waits for good, and one that
sends anything else makes the handshake fail, which shuts the connection down.

**Pipeline.** `Chain` and the two tables of routes are those that `main` registers;
`ProcessBefore` is the place in the chain of the first middleware that throws,
`Stopped` the response it leaves, `Route` the handler found otherwise.  What
depends on other requests, a limiter's verdict, is the argument `event`, which
`Handle` chooses.  The afters add headers only; as the code skips them after a
throw, responses that a middleware or an exception makes lack the CORS headers.

**Cache.** Each operation of `MemoryCacheLRU` holds the lock throughout and is one
step.  `before` is two, the clock and the lookup; `after` is two, the clock and
the insertion.  `CacheAdapter` differs in one argument: `after` gets `NoRequest`.
Requests are records of strings; `"none"` stands for the empty string, which `getHeader`
returns for a header that is not there.  `Bytes` and `Only` are recursive functions over
the prefixes of a list, so that theorems can be proved about them.

**DbConnectionPool.** A critical section is one step, except that of the checking
thread when the queue is empty: it sleeps with the mutex (`FallAsleep` to
`WakeUp`).  `cv_.wait` puts a client among those that wait, `notify_one` moves any
one of them to `woken`, and whoever is woken looks at the queue again.  `init` may
stop after any number of connections.  What other modules call `Init`, `Next`, `Spec` or
`TypeOK` has the prefix `Pool` here, so that one module can hold the proofs about the
pool and about the cache.

**Sessions.** A request loads its cookie's session (`Load`), erases it when it was
found expired (`Erase`, a step later), looks at the expiry again (`Check`), or
draws an id, which reads the generator (`DrawBegin`) and advances it (`DrawEnd`),
so that two workers may draw the same one; then `Refresh` and `Save`.  The handler
sets a value (`SetValue`, which saves the session), removes it (`Remove`, which
does not) and ends with or without `Destroy`.  Workers
hold the same session object, as the shared pointers do.

Variables under the comment "History" are read by no step of the code's; they
record what a property speaks of.  Definitions under "Variant with a fault" are
used by no specification here; each is a plausible mistake in the definition
that follows it, and the property it is listed with in `PROJECT.json`
("mutants") fails when it takes that definition's place.

## 3. The runs

`tlc -workers 2 -config X.cfg M`, the modules and configurations as below.

### Runs that pass

| Run | Module | Properties | Instance |
|---|---|---|---|
| `rate_limiting` | `MCRateLimiting` | `WindowBound`, `RefusedOnlyWhenRecent`; `AdmittedPerSecond`, `RefusedOverLimit`, `CountersEnd` | bucket: 2 workers, 2 clients, two tokens, two thirds of a token per tick, a clock from 1 to 5; Redis: 2 workers, 1 client, 1 request per second allowed, 3 sent, 2 s, 2 failures |
| `cache_aside_store` | `MCCacheAsideStore` | `CacheTracksRow`, `ExpiryHonoured`, `StaleBounded` | 2 callers, 1 id, 2 urls, ttl 0 or 1, backfill 2, calls of up to 1 s, 4 s, 2 failures |
| `single_store_service` | `MCSingleStoreService` | `AckedStored`, `AckedIdRedirects`, `RedirectTrue`, `FailsForCause` | each of the three stores; 2 workers, 2 ids with bits in one word of the filter (on Redis 1 id), 2 urls, ttl 0 or 1, 2 draws per request, 1 restart, any number of failures |
| `cache_aside_service` | `MCCacheAsideService` | `KeepsPromise`, `RedirectTrue`, `AckedIdRedirects` | 2 workers, 1 id with two bits in one word, 2 urls, ttl 0 or 1, 2 failures, 1 restart, 2 s |
| `http_connection` | `MCHttpConnection` | `AnswersInOrder`, `OwnBody`, `HandledOnce`, `NoPatternHandled`, `BlockedForCause`, `ClosesForCause`, `PatientAnswered` | 3 requests of 14 shapes, cut anywhere, in clear or to a server that expects TLS |
| `cache_middleware` | `MCCacheMiddleware` | `Accounted`, `LatestHeld`, `EvictsOldest` | 2 workers, 3 keys, room for two small entries, entries of 1 to 4 bytes, 2 ticks |
| `db_pool` | `MCDbConnectionPool` | `EachInOnePlace`, `NoLostWakeup` | 3 clients, 2 connections (3 after a failed `init`), 1 broken link |
| `sessions` | `MCSessions` | `OwnData`, `KeptWhileUsed`, `NotRevived` | 2 workers, 2 clients, 3 sessions, 4 requests, an age of 1 s, 2 s |

All but `cache_aside_service` also check their module's `TypeOK` (`PoolTypeOK` in
the pool).

* **rate_limiting**, of the bucket, shows that handling readings out of order
  costs nothing: a call with an old reading lowers the level and steps the
  bucket's time back by the same amount, so whatever the order, the admissions
  of a window stay below a full bucket and its refill, and a client is refused
  only when another of its calls was handled with a reading less than one
  token's refill time before. Two workers suffice for a reading to be overtaken;
  burst of two tokens and a rate of two thirds of a token make both a fractional
  level and a negative one occur. Of the counters in Redis it shows that the
  reply of INCR alone decides: whatever interleaves, no more than `rps_`
  requests of a second are let through but those whose INCR brought no reply and
  those whose INCR came `windowSec_ + 1` seconds or more after they had read the
  clock (`slow`); only an INCR sent twice makes the limit bite too early, and a
  counter is left without an end only by a failure.  The second exception is real:
  a request that waits at Redis until its counter has ended is counted as the
  first of its second.  Before that the counter cannot have ended, however late the
  others are.  Counters do not interact, so one client is
  enough; three requests in a second against a limit of one leave room for one
  that is refused and one whose reply was lost; a life of two seconds and a clock
  that goes to 2 let a counter end and be begun anew by a late INCR.
* **cache_aside_store** shows how far Redis may stray from the table.  For ids that
  are created and read, as the handlers do, it never has another url and never an
  id without a row (`CacheTracksRow`), and outlives the ttl by at most one call
  and one backfill (`ExpiryHonoured`).  When `set` and `del` are used too, a
  backfill may put an old url back, for no longer than one call and one life of an
  entry after the change (`StaleBounded`).  Keys do not interact, so one is
  enough; two callers are what a race needs; the second failure is the one that
  makes `cmd` give up; with four seconds an entry is created, backfilled and
  outlived.
* **single_store_service** shows, on each store, through which races and failures
  alone an id that was given out can be lost.  In memory `setNX` overwrites when
  two requests draw the same id within its two critical sections (`raced`).  Redis
  forgets what it drops (`dropped`), but a lost reply never makes it forget or
  replace: a SET .. NX that is sent again finds its own entry and is taken for a
  conflict, so the id is stored and never told, which is harmless.  On MySQL the
  row stays though its ttl is over, so its id is not used again.  On all of them an
  id is refused for ever when two workers set bits in one word of the filter at
  once (`torn`), and every id given out before a restart when the program has
  started anew with an empty filter (`forgotten`): in memory the link is gone with
  it, on a server it stays stored and unreachable.  The properties exclude these
  cases by name and hold in all others.  `FailsForCause` says when a shorten request is refused while nothing
  fails: after its last draw met a taken id, and, on Redis, whenever it has no
  ttl, since `RedisStore::setNX` then sends a command that Redis rejects, which is
  what `shorten_without_ttl` is about.  Two ids
  that share a word and two draws are the least that make both races and the
  exhausted loop occur; Redis, whose connections multiply the states, has one id.
* **cache_aside_service** shows that the service implements `ShortLinks` under
  `links <- the urls of the table, given <- the ids given out`: a row once written
  is not changed, and an id is given out only for the url of its row, through
  conflicting draws, lost replies, exceptions and a restart at any point.  An id
  may exist without having been given out (a statement that took effect and
  threw); the abstract specification allows it, which is what the code does.
* **http_connection** shows that requests and responses stay matched however the
  stream is cut and however many requests are in it, that a body is never mixed
  with a neighbour's, and that a client which waits for each answer gets it. The
  matching (`AnswersInOrder`) ends with a request other than a POST that announces a
  body: what it leaves in the buffer is answered too, with a 400 that closes the
  connection, so the request is answered twice and the next one not at all.
  `HandledOnce` holds through this as well, and `ClosesForCause` names it.
  `PatientAnswered` excepts negative lengths: `std::stoi` reads them,
  `setContentLength` makes them huge, and the server waits for a body that never ends. Three requests let
  one with a fault stand before, between and after two others, bodies of 0, 1
  and 2 bytes tell "none", "last byte" and "cut inside" apart.
  `NoPatternHandled` and `BlockedForCause` say of the blacklist that no handler
  sees a pattern in the body or path of a request, and that it never refuses a
  request for what comes behind it, although for one without a body it searches
  the latest body before it. The latter excepts connections with a malformed
  request: after a 400 for a missing length, the next request's headers and body
  are joined to the POST that was refused. `OwnBody` speaks of requests that
  have a body: one with `Content-Length: 0` is given the body of the request
  before it, for the same reason as a GET in `stale_body`.  `ClosesForCause` says
  that a connection closes exactly with an answer that asks for it, so that no
  flag or header of one request acts on another.  It has to except one case: a
  request with `Connection: close` that the limiter or the blacklist answers is not
  closed after, because the response that they throw replaces the one that had the
  flag (`HttpServer.cpp:228`).
* **cache_middleware** shows that list, map and count agree through any sequence of
  insertions, replacements, evictions and removals, and that `EvictsOldest`: what
  goes is older than all that stays, and no more goes than must.  Entries of 1
  and 2 bytes in a cache of 2 make one insertion evict none, one or two; those of
  3 exceed the capacity, those of 4 the largest object.
* **db_pool** shows that no path, through a failed reconnection or a failed `init`
  either, loses or duplicates a connection, and that `notify_one` per connection
  given back is enough although others may take it first and waits may return by
  themselves.  Three clients and two connections are the least with a client
  that overtakes one that was woken.
* **sessions** shows what survives of the promises of a session store that locks
  nothing.  Sessions are shared by two clients only if their ids were generated at
  once (`doubtful`); a client that sends one request at a time keeps its session
  while it uses it, whatever others do; one that sends two at once may lose it,
  when one request erases what the other has just refreshed (`overlapped`); and a
  destroyed session comes back only through a request that held it then.  Two
  workers and two clients are what each of these takes; three sessions are one per
  client and one made anew; with an age of one second, two seconds of time let a
  session expire.

### Runs that end in a violation, and what they disagree with

| Run | Property | The disagreement |
|---|---|---|
| `restart_forgets_ids` | `ExistingIdRedirects` | README: the filter is a pre-check for keys that do not exist.  After a restart it refuses all that do. |
| `shorten_without_ttl` | `TtlOptional` | `IStore.h`: `ttlSec` is optional; `scripts/wrk_short.sh` shortens without one and uses the id.  On Redis alone that always ends in 500. |
| `stale_body` | `NoBodyWithGet` | Comment in `HttpContext.cpp`: a GET has no body.  After a POST it has that of the POST. |
| `cache_never_filled` | `AfterWritesCache` | README: `after` writes the cache.  Through the adapter it never does. |

`PROJECT.json` ("findings") quotes each line.  The instances are the passing ones
cut down to the least in which the behaviour shows.

### Fairness

* `http_connection` (`PatientAnswered`): TCP delivers what was sent and the event
  loop runs; both weakly fair.  The client is not obliged to send.
* All other runs check safety and assume none.

`CHECK_DEADLOCK` is on everywhere; `Rest` says where the system may stop: in
`HttpConnection`, that a connection on which nothing more comes is no deadlock; in
`RateLimitRedis` and `Sessions`, that the bounds on time and sessions are used up.

### Assumptions

* One clock for the program and both servers.
* A command or statement that was given up is executed before it is given up or
  never, not later; the connection on which it was sent is closed.
* `MySqlStore`'s one connection is used by all loops without a lock.  What the
  connector makes of that is open; the model has a statement throw or take effect.
* There are finitely many threads and clients of the pool (`PoolAssumption`,
  `SessionAssumption`, `WindowAssumption`).
* A url is not mistaken for an exception or a Boolean result
  (`ResultAssumption`, `ServiceAssumption`); the ids of each store are keys (`BackendAssumption`).
* The build is the Release build of `build/`, so `assert` does nothing.
* What the bounds cut off (clock, failures, restarts, requests) appears in no
  guard but that of the action that counts it, except `MaxLag`: `Tick` of
  `CacheAsideStore` waits for a call that has lasted `MaxLag`, which is part of what
  its properties say: they bound what Redis holds by the length of the longest call.
* EXPIRE asks for more than zero seconds: `windowSec_ + 1`, and `main` leaves
  `windowSec_` at 1 (`WindowAssumption`).

## 4. What is proved

Proved by TLAPS for every value of the constants that the named assumptions
allow.

**RateLimiting** (`LimiterAssumption`, `BurstCoversOneCall`, `RedisAssumption`):
`TypeCorrect` for both limiters, and of `LimiterSpec`, in which `main` has chosen
one, all that the run checks.

Of the bucket: `WindowBounded` (`[]WindowBound`), `RefusalsRecent`
(`RefusedOnlyWhenRecent`).  `WindowBound` speaks of the admissions only
and is not inductive.  The invariant `IInv` adds

* `Accounted`: admissions and what is left in the bucket together are paid for by
  a full bucket and the refill from the window's start to the bucket's *own* time,
  which steps back when the level is lowered: this is where out-of-order handling
  cancels out;
* `DebtBound`: the level is never further below zero than the refill from the
  bucket's time to the latest reading, so the next later reading brings it all
  back;
* `Stamped`: readings come from the past.

`RefilledFacts` says what the refill computes, `InvSettle` that a level which is
paid for keeps the invariant, `InvAdmit` and `InvRefuse` that both outcomes leave
one.

Of the limiter over Redis: `AdmissionsBounded` (`[]AdmittedPerSecond`),
`RefusalsDeserved` (`[]RefusedOverLimit`), `NoCounterStays` (`[]CountersEnd`).  All
three relate a counter in Redis to requests that are still on their way, so
`RedisInv` counts those: `Calling(c)` uses counter c, `Incrementing(c)` has yet to
increment it, `Passing(c)` will be let through.  `Quota`: as long as a counter cannot
have ended (`Open`) it has been incremented for each request that has passed or will
pass, those without a reply apart, and from then on whoever increments it is late and
counts in `slow`; `Dated` is why: EXPIRE, sent no earlier than in the counter's own
second, ends it no earlier than `Life` seconds after.
`Increments`: a counter holds no more than the requests that have come and the
failures.  `Ended`: what is left without an expiry is finite, and no more than
the failures.  `CallStep` reduces a step of a request to its own counter.

**CacheAsideStore** (`TtlAssumption`, `UrlAssumption`, `CacheAsideAssumption`):
`TypeCorrect`, `CacheCoherent` (`Spec => []CacheTracksRow`), `ExpiryBounded`
(`Spec => []ExpiryHonoured`).  What Redis will hold is decided when the row is
read or written, and executed later, perhaps twice.  `IInv` therefore adds
`Pending`: a SET that is due carries the url of its row, and its life, counted
from the *start of the call*, fits; `Timely`: no call lasts longer than `MaxLag`;
`Located`: a key that only `setNX` and `get` are called for never meets `replace`
or `delete`.  The steps fall into those that leave Redis (`LeaveStep`) and those
that move it (`CacheStep`); `CacheMoves` is what all of them have in common, and
`RowsStay` is why a pending SET stays right: a row of such a key is written once.

`StalenessBounded` (`Spec => []StaleBounded`) speaks of all ids, also those that
`set` and `del` are called for.  Its invariant `StaleInv` adds two parts: `Fresh`, that
no entry outlives the present by more than one life and no change lies ahead, and
`Drift`, that a row which differs from what a call is about to write to Redis has
changed since that call began, so that what it writes ends within one call and one
life of the change.

**SingleStoreService** (`TtlAssumption`, `UrlAssumption`, `BackendAssumption`,
`ResultAssumption`, `HandlerAssumption`): `TypeCorrect`, `AckedStay` (`Spec =>
[]AckedStored`), `RedirectsUnlessLost` (`AckedIdRedirects`), `RedirectsAreTrue`
(`RedirectTrue`), `FailuresHaveCauses` (`FailsForCause`), each for all three
stores at once.  What was given out is decided in the store and written down by
the handler some steps later, so the properties are not inductive.  `Leads(id, u)`
is what survives in between: the id is held, or Redis has dropped it, and unless it
is `raced` or `dropped` it is held with the url u.  `IInv` adds

* what a worker on its way through the store knows (`WorkerInv`): its call is that
  of its job (`Calling`); an id that `setNX` has granted, and one that `get` has
  found, leads to the url in hand (`Claiming`, `Finding`); why `get` finds nothing
  for an id that was given out (`Missing`); why a draw fails (`Failing`);
* `Lonely`: a worker between the two locks of `setNX` finds its key still free when
  it writes, and is alone with it, unless the key is `raced`;
* `AckedLead`: every id given out leads to the url it was given out for;
* of the handlers, `HandlerInv` (what a worker's place says of its request) and
  `FilterInv`: the bits of an id that was given out since the last restart (that is
  not in `forgotten`) are in the filter, or a word of them is torn.

`UrlHandlersProofs` shows once that every step of a handler preserves the last two,
whatever the store does.  The steps of the service but a restart have in common that they
take nothing back (`Grows`): what leads somewhere goes on leading there, bits of the
filter are lost only with a word that becomes torn, and `dropped`, `overdue`,
`torn` and `failed` only grow.  Each part of `IInv` then follows from `Grows` for
the workers that do not move, and from the step itself for the one that does.
A restart ends all calls, empties the filter and, with it, what `FilterInv` speaks of
(`RestartKeeps`); what Redis and MySQL hold stays.
`IInv` was checked with TLC on the instance of
`single_store_service` before it was proved.

**CacheAsideService** (`ServiceAssumption`, which contains the store's, and
`HandlerAssumption`): `Refinement` (`Spec => KeepsPromise`, the service implements
`ShortLinks`), `RedirectsAreTrue` (`RedirectTrue`), `RedirectsUnlessLost`
(`AckedIdRedirects`).  `CacheAsideServiceProofs` builds on the two proofs below it.
With `Aside == INSTANCE CacheAsideProofs`, every step but a restart is a step of
`CacheAsideStore` or leaves the store alone (`SameSteps`, `SameServers`), so that
the store's invariant carries over (`StoreKeeps`); a restart ends all calls and
leaves both servers as they are (`RestartKeeps`).  The handlers call `setNX` and
`get` only, so `touched` stays empty and `CacheTracksRow` and `Pending` speak of
every id.  `IInv` joins that invariant with `HandlerInv`, with `FilterInv`, which after
a restart speaks of the ids given out since, and with what a worker and the table know of each other: `Calling`,
`Claiming`, `Finding`, `Missing` and `AckedLead`, where `Leads(id, u)` now says that
the id's row has the url u.  Redis' answer is right because of `CacheTracksRow`
(`RedisKeeps`), the answer of MySQL because it is the row.  For the refinement,
`TableMove` is all that a step of the store does to the table, an insertion where
there was no row, which is `Create` (`TableMoveCreates`); a response with status 200
is `GiveOut`, and `Claiming` is what makes it one (`SendGivesOut`); every other step
maps to a stutter (`ServeMoves`, `StepMaps`).  This `IInv`, too, was checked with
TLC first.

**DbConnectionPool** (`PoolAssumption`): `PoolTypeCorrect`, `NoneLostNoneShared`
(`PoolSpec => []EachInOnePlace`), `WakeupsKept` (`PoolSpec => []NoLostWakeup`).  `EachInOnePlace` counts
places; the proof splits it into `Apart`, no two places hold the same connection,
and `Present`, every connection is in one, and counts once, at the end
(`ApartInOnePlace`).  Both then follow from what each step does to the queue:
nothing, take the first, or add one at the end.  `NoLostWakeup` is inductive
by itself: a connection that comes in wakes a client if any waits, and a woken
client leaves with a connection or finds the queue empty.

**CacheMiddleware** (`CapacityAssumption`, `MiddlewareAssumption`): `CacheTypeCorrect`,
`CacheAccounted` (`Spec => []Accounted`), `CacheLatestHeld` (`Spec => []LatestHeld`) and
the action property `CacheEvictsOldest` (`Spec => EvictsOldest`): for any capacity, any
entries and any number of threads.  What an eviction throws out depends on the order of
the list, of which the invariants of the run say nothing.  The inductive invariant
`CacheInv` therefore joins `TypeOK` and `Packed` (what `after` is about to store is a key
and an entry) with

* `LruInv`: the count is the sum of the list and within the capacity, and the list is
  `Linked`: it has the keys of the map, each once, every key used after those behind it,
  each with the entry last stored.

`CacheInv` was checked with TLC on the instance of `cache_middleware` before it was proved.
The proof goes in four stages.

1. *Recursion.*  The theorems of the library on induction take a formula as a parameter,
   which the provers do not instantiate.  Here a *set* stands for the formula: one that
   holds 0 and with each number the next is all of `Nat`, for of the numbers outside
   it there would be a least (`Least`, `SetInduction`), and the same for lists and `Append`
   (`ListInduction`).  With it, a function defined over prefixes exists and is
   determined by its steps (`RecursionExists`, `RecursionUnique`).
2. *Bytes and Only.*  Both follow `Append` and concatenation (`BytesAppend`, `BytesConcat`,
   `OnlyAppend`, `OnlyConcat`); what is kept and what is dropped add up (`OnlyBytes`).
3. *Lists that lose items.*  `Embedded(o, s, K)`: o is what is left of s, with keys in K, in
   the same order.  `Only`, `RemoveAt` and the front of a list are such (`OnlyEmbedded`,
   `RemoveAtEmbedded`, `FrontEmbedded`), and `Linked` passes on to all of them
   (`LinkedKept`); a new item in front keeps it when it has just been used (`LinkedFront`).
   `Evicted` is what `evictIfNeeded` makes of a list: it fits, and whatever went was behind
   all that stayed, in a part of the list that did not fit.
4. *Steps.*  `GetHitKeeps`, `SetFittingKeeps`, `RemoveKeysKeeps` for the store, then one lemma
   per step of the middleware.  `SetFittingEvicts` turns `Evicted` into `OldestOut`: the
   part of the list up to an evicted key is the new entry, that key and entries used
   since, so these together exceed the capacity.

**CacheAdapter:** `AdapterNeverFills` (`AdapterSpec => [](lru = <<>>)`): for all requests,
responses and limits, no worker comes to `store`, because `NoRequest` is not cacheable.
The run `cache_never_filled` shows one instance of it.

**Sessions** (`SessionAssumption`): `TypeCorrect`, `OwnDataOnly` (`Spec =>
[]OwnData`), `DestroyedStaysAway` (`Spec => []NotRevived`), `SessionKept` (`Spec =>
KeptWhileUsed`).  None of them is inductive, since what protects a session lies in the
cookies and in what other requests are about to do.  `IInv` adds

* `Generator`: the generator has gone past every id in use except `doubtful` ones,
  and whoever generates an id that will not be doubtful is alone;
* `Owned`: all that has to do with an id (`Claims`: a cookie, a request that looks for
  it or has it, a value in its data) is one client's, and a session has it.
  `OwnData` is what this says of data;
* `Survivors`: whoever has a destroyed session had it when it was destroyed, without
  which `NotRevived` would not survive a save;
* `Solo`, `KeptFor` and `KeptBetween`: at each place of a request, and between two of
  them, the session of a client that sends one at a time is stored and outlives its
  last use by `maxAge_`, or was destroyed.

`Moves` is all that a step of one worker can change of what others see, `OwnedStep`,
`OthersKept` and `RevivalStep` are what follows from it; each action then adds what
concerns its own worker only (`InvOrdinary`).  The inductive invariants of the pool,
of the sessions, of the Redis limiter, and `StaleInv` were checked with TLC on
the instances of the runs before they were proved.

**HttpConnection** (`ConnectionAssumption`): `TypeCorrect`, `InOrder` (`Spec =>
[]AnswersInOrder`), `BodyIsOwn` (`[]OwnBody`), `PassedOnOnce` (`[]HandledOnce`),
`PatternsStopped` (`[]NoPatternHandled`), `RefusedForCause` (`[]BlockedForCause`),
`ClosedForCause` (`[]ClosesForCause`): for any shapes of requests, with bodies of any length, any number of them and any cuts.
None is inductive: what goes out next is decided by what is still in the buffer and
on the wire.  `Inv` says where in the stream of messages the parser is:

* `Follows(str, asked, m, k)`: `str`, here the buffer and the wire together, consists
  of the messages of the client from the k-th token of the m-th on.  Consuming
  tokens moves k on (`FollowsOn`), the end of a message leads to the next
  (`FollowsMessage`), another request is appended (`FollowsAsk`), and a piece that
  arrives changes nothing.  `MessageTokens` says what the k-th token of a message is;
* `InLine`, `InHead`, `InBody`, `Got`: at each place of the parser, what the context
  knows of its request is what the tokens before say.  The request is the m-th
  itself, or, after a 400 for a missing length, an earlier POST that goes on with
  the lines of later requests (`Lengthless`); by then the connection is shut down,
  which is why no answer to it is sent;
* `Stray(m, k)`: or the parser has come to a body that it did not read, that of the
  request before, and stands first in what has not been consumed;
* `LatestBody`: the content that `reset` leaves in the context is that of the latest
  request with a body, so that `BadBody` speaks of that one;
* `Answered`: `AnswersInOrder`; while the connection is open, no answer so far had to
  close it, and there is one for each request before the m-th; when it is closed, one
  of the requests that were answered may have closed it;
* `Silent`, in place of all this, on a server with TLS.

`Responses` says what `HandleRequest` may answer, whatever the event; it reduces
`onRequest` to who answered and whether the connection closes (`Handles`).  Each
action then has its lemma (`ParseLineKeeps` to `HandleKeeps`, `AskKeeps`).  `Inv` was
checked with TLC on the instance of `http_connection` before it was proved.

**Only model-checked.** What needs fairness, which is `PatientAnswered` alone: the prover
does not reason about `ENABLED`, on which fairness rests.  Every other property of the passing runs, invariant, action property or
refinement, is proved.

## 5. What is not modelled

* TLS beyond the handshake: the established state, `SslConnection::send` and
  decryption cannot be reached, since no handshake completes.  The set-up of the
  contexts, which reads files before the server starts, and the map of
  connections, which the loops change without a lock.
* What concurrent calls do to the nodes of the unlocked maps of sessions; handlers
  that use sessions, of which the repository has none.  `Sessions` takes handlers
  to set and remove values and to destroy the session of their own request.
* `Router`'s callbacks, which no program registers, and path parameters; the
  headers that `CorsMiddleware` adds.
* The reply of EXPIRE, which `before` does not free: memory that is lost with every
  request is nothing that the model could show.
* The row's ttl against the life of a backfilled entry: a backfill may outlive the
  row by up to `CACHE_BACKFILL_TTL`, as `ExpiryHonoured` says.
* `set` and `del` of `MemoryStore`, and of `RedisStore` and `MySqlStore` as the only
  store, `DbConnectionPool::cleanup`, `isValid`: called by nothing in the
  repository, or by destructors only.  (`CacheAsideStore` has all operations.)
* The connection pool belongs to the framework; the short link programs do not
  link it.
* Metrics, traces, the ring and the Redis Bloom filter: no decision depends on them.
* What an unread body says.  Its bytes are no request line in the model, so they are
  answered with a 400; a body that holds a line in the form of a request would be
  answered as one.  Chunked bodies, which `HttpContext` does not know.
* Formatting and parsing of urls, JSON, HTTP dates and headers beyond what the
  parser decides by.  A url is valid or the request is refused.

## 6. Plan

Done, in this order: the limiter and its proofs; the store interface and the
cache-aside store with its proofs; handlers, filter and in-memory store composed;
the cache-aside service against `ShortLinks`, proved later; the HTTP connection; the response
cache, proved last; the connection pool; the Redis limiter; middlewares and router as operators
under the connection, proved later; sessions; Redis and MySQL as the only store, composed with
the handlers and proved; the handshake of TLS.

Open, all of it in the model:

1. `DbConnection`: one connection used by its client and by the checking thread,
   joined to `DbConnectionPool`.
2. A cache adapter that passes the request on, to see what the key leaves out.
3. `Router` with arbitrary tables and callbacks, and the ring of `HashRing`, as
   operators checked against reference definitions.
