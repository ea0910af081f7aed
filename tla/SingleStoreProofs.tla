------------------------- MODULE SingleStoreProofs -------------------------
(* Theorems about SingleStoreService, for all values of its constants.     *)
EXTENDS SingleStoreService, UrlHandlersProofs

\* The choices of main and of the client.
Chosen == backend \in DOMAIN Ids /\ ttl \in [Workers -> Ttls] /\ restarts \in Nat

\* The call that each handler is in, and how far it can be on this store.
Calling(w) ==
    /\ pc[w] = "setnx" =>
          /\ call[w] = SetNX(w, job[w].id)
          /\ at[w] \in {"check", "put", "redisSetNX", "insert", "done"}
    /\ pc[w] = "get" =>
          /\ call[w] = Get(w)
          /\ at[w] \in {"lookup", "redisGet", "select", "done"}
    /\ at[w] \in Memory!Places => backend = "memory"
    /\ at[w] \in Redis!Places => backend = "redis"
    /\ at[w] \in MySql!Places => backend = "mysql"

\* setNX writes a key that is still free, alone, unless it has raced.
Lonely(w) ==
    at[w] = "put" /\ Memory!Key(w) \notin raced =>
        /\ kv[Memory!Key(w)] = NoUrl
        /\ \A v \in Workers \ {w} : at[v] = "put" => Memory!Key(v) # Memory!Key(w)

Returned(w, r) == at[w] = "done" /\ res[w] = r

\* The id leads somewhere, to the url u unless it has raced or is gone.
Present(id) == Held(id) # NoUrl \/ id \in dropped
Leads(id, u) ==
    \/ id \in Gone
    \/ Present(id) /\ (id \notin raced \cup dropped => Held(id) = u)

\* An id given out is in the store, or was given out before a restart.
Known(id) == Present(id) \/ id \in forgotten

\* An id that setNX has granted leads where the request said.
Claims(w) ==
    \/ pc[w] = "setnx" /\ Returned(w, "true")
    \/ pc[w] \in {"load", "store"}
    \/ Shortened(w)
Claiming(w) == Claims(w) => Leads(job[w].id, job[w].url)

\* So does one that get has found.
Finding(w) ==
    /\ \A u \in Urls : pc[w] = "get" /\ Returned(w, u) => Leads(job[w].id, u)
    /\ Answers301(w) =>
          job[w].id \in Keys /\ answer[w].url \in Urls /\ Leads(job[w].id, answer[w].url)

\* Why get finds nothing, and why a request is answered 404.
Lost(w) == job[w].id \in dropped \cup overdue \cup forgotten
AllIn(id) == \A i \in DOMAIN Probes[id] : Probes[id][i] \in bloom
Missing(w) ==
    expected[w] # {} =>
        /\ pc[w] = "get" /\ Returned(w, NoUrl) => Lost(w) \/ link[w] = "broken"
        /\ Answers404(w) =>
              \/ Torn(job[w].id)
              \/ Lost(w)
              \/ link[w] = "broken" /\ AllIn(job[w].id)

\* Why a request fails.
NoTtlOnRedis(w) == backend = "redis" /\ ttl[w] = 0
Failing(w) ==
    ~failed =>
        /\ ~Returned(w, "threw")
        /\ pc[w] = "setnx" /\ Returned(w, "false") => NoTtlOnRedis(w) \/ Present(job[w].id)
        /\ Answers500(w) =>
              \/ NoTtlOnRedis(w)
              \/ tries[w] = MaxTries - 1 /\ job[w].id \in Keys /\ Present(job[w].id)

\* The stores by themselves.
RowsHaveUrls == \A k \in Keys : mysql[k].url = NoUrl => mysql[k] = MySql!NoRow
AckedLead == \A id \in Keys : \A u \in acked[id] : Leads(id, u)

WorkerInv(w) == Calling(w) /\ Claiming(w) /\ Finding(w) /\ Missing(w) /\ Failing(w)

IInv ==
    /\ TypeOK /\ Chosen
    /\ HandlerInv /\ FilterInv
    /\ RowsHaveUrls /\ AckedLead
    /\ \A w \in Workers : WorkerInv(w) /\ Lonely(w)

-----------------------------------------------------------------------------
\* What no step takes back.
Grows ==
    /\ backend' = backend /\ forgotten' = forgotten
    /\ dropped \subseteq dropped' /\ overdue \subseteq overdue' /\ (failed => failed')
    /\ torn \subseteq torn'
    /\ \A b \in bloom : b \in bloom' \/ Word(b) \in torn'
    /\ \A id \in Keys : Present(id) => Present(id)'
    /\ \A id \in Keys, u \in Urls : Leads(id, u) => Leads(id, u)'

\* Nothing that belongs to worker v changes, in the handler or in the store.
LeftAlone(v) ==
    /\ Untouched(v)
    /\ call'[v] = call[v] /\ at'[v] = at[v] /\ res'[v] = res[v]
    /\ link'[v] = link[v] /\ ttl'[v] = ttl[v]

LEMMA OthersKept ==
    ASSUME IInv, NEW v \in Workers, LeftAlone(v), Grows
    PROVE  WorkerInv(v)'
<1>1. Calling(v) /\ Claiming(v) /\ Finding(v) /\ Missing(v) /\ Failing(v) /\ Placed(v) /\ Expecting(v)
  BY DEF IInv, WorkerInv, HandlerInv
<1>2. Calling(v)'
  BY <1>1 DEF Calling, LeftAlone, Untouched, Grows, SetNX, Get, Memory!Places, Redis!Places, MySql!Places
<1>3. Claims(v)' => Claims(v) /\ job[v].url \in Urls /\ job[v].id \in Keys
  BY <1>1 DEF LeftAlone, Untouched, Claims, Returned, Shortened, Placed
<1>4. Claiming(v)'
  BY <1>1, <1>3 DEF Claiming, LeftAlone, Untouched, Grows
<1>5. Finding(v)'
  <2>1. pc[v] = "get" => job[v].id \in Keys
    BY <1>1 DEF Placed
  <2>2. QED BY <1>1, <2>1 DEF Finding, Returned, Answers301, LeftAlone, Untouched, Grows
<1>6. Missing(v)'
  <2>1. Lost(v) => Lost(v)'
    BY DEF Lost, LeftAlone, Untouched, Grows
  <2>2. Torn(job[v].id) => Torn(job[v].id)'
    BY DEF Torn, LeftAlone, Untouched, Grows
  <2>3. expected[v] # {} /\ AllIn(job[v].id) => AllIn(job[v].id)' \/ Torn(job[v].id)'
    <3>1. job'[v] = job[v] /\ \A b \in bloom : b \in bloom' \/ Word(b) \in torn'
      BY DEF LeftAlone, Untouched, Grows
    <3>2. expected[v] # {} => DOMAIN Probes[job[v].id] = 1 .. Len(Probes[job[v].id])
      BY <1>1, HandlerAssumption DEF Expecting
    <3>3. QED BY <3>1, <3>2 DEF AllIn, Torn
  <2>4. QED BY <1>1, <2>1, <2>2, <2>3 DEF Missing, Returned, Answers404, LeftAlone, Untouched
<1>7. Failing(v)'
  <2>1. pc[v] = "setnx" => job[v].id \in Keys
    BY <1>1 DEF Placed
  <2>2. QED
    BY <1>1, <2>1 DEF Failing, NoTtlOnRedis, Returned, Answers500, LeftAlone, Untouched, Grows
<1>8. QED BY <1>2, <1>4, <1>5, <1>6, <1>7 DEF WorkerInv

-----------------------------------------------------------------------------
\* A step of a handler, with what the store does at most meanwhile.
HandlerMove(w) ==
    /\ HandlerStep(w)
    /\ UNCHANGED <<backend, memoryVars, redisVars, mysqlVars, failed, restarts>>
    /\ \A v \in Workers \ {w} :
          call'[v] = call[v] /\ at'[v] = at[v] /\ res'[v] = res[v] /\ ttl'[v] = ttl[v]

LEMMA HandlerMoves ==
    ASSUME IInv, NEW w \in Workers, HandlerMove(w)
    PROVE  /\ HandlerInv' /\ FilterInv' /\ Grows
           /\ RowsHaveUrls' /\ AckedLead'
           /\ \A v \in Workers \ {w} : LeftAlone(v) /\ WorkerInv(v)'
<1> USE DEF HandlerMove, memoryVars, redisVars, mysqlVars
<1>1. HandlerInv /\ FilterInv /\ HandlerTypeOK
  BY DEF IInv, HandlerInv
<1>2. HandlerInv' /\ FilterInv'
  BY <1>1, HandlerStepKeeps, FilterStepKeeps
<1>3. \A id : Held(id)' = Held(id)
  BY DEF Held
<1>4. forgotten' = forgotten /\ \A id, u : Leads(id, u)' = Leads(id, u)
  <2>1. forgotten' = forgotten
    BY ForgottenStays
  <2>2. QED BY <1>3, <2>1 DEF Leads, Present, Gone
<1>5. \A id : Present(id)' = Present(id)
  BY <1>3 DEF Present
<1>6. torn \subseteq torn' /\ \A b \in bloom : b \in bloom' \/ Word(b) \in torn'
  BY <1>1, BitsStay
<1>7. Grows
  BY <1>4, <1>5, <1>6 DEF Grows
<1>8. RowsHaveUrls'
  BY DEF IInv, RowsHaveUrls
<1>9. ASSUME NEW v \in Workers \ {w} PROVE LeftAlone(v) /\ WorkerInv(v)'
  <2>1. LeftAlone(v)
    BY <1>1, <1>9, OthersUntouched DEF LeftAlone
  <2>2. QED BY <1>7, <2>1, OthersKept
<1>10. AckedLead'
  <2>1. SUFFICES ASSUME NEW id \in Keys, NEW u \in acked'[id] PROVE Leads(id, u)
    BY <1>4 DEF AckedLead
  <2>2. CASE u \in acked[id]
    BY <2>2 DEF IInv, AckedLead
  <2>3. CASE u \notin acked[id]
    <3>1. Send(w)
      BY <2>3 DEF HandlerStep, Shorten, ShortenInvalid, Draw, Claimed, BloomLoad,
         BloomStore, Redirect, BloomMiss, BloomPass, BloomHit, Found
    <3>2. Shortened(w) /\ job[w].id = id /\ job[w].url = u
      BY <1>1, <2>3, <3>1 DEF HandlerTypeOK, Send, Shortened
    <3>3. QED BY <3>2 DEF IInv, WorkerInv, Claiming, Claims
  <2>4. QED BY <2>2, <2>3
<1>11. QED BY <1>2, <1>7, <1>8, <1>9, <1>10

\* A step of the store for worker w.
StoreMove(w) ==
    /\ UNCHANGED <<handlerVars, backend, ttl, restarts>>
    /\ \A v \in Workers \ {w} :
          call'[v] = call[v] /\ at'[v] = at[v] /\ res'[v] = res[v] /\ link'[v] = link[v]

LEMMA StoreMoves ==
    ASSUME IInv, NEW w \in Workers, StoreMove(w), Grows
    PROVE  /\ HandlerInv' /\ FilterInv' /\ AckedLead'
           /\ \A v \in Workers \ {w} : LeftAlone(v) /\ WorkerInv(v)'
<1> USE DEF StoreMove
<1>1. HandlerInv' /\ FilterInv'
  BY HandlersStand DEF IInv
<1>2. AckedLead'
  <2>1. acked' = acked /\ acked \in [Keys -> SUBSET Urls]
    BY DEF handlerVars, IInv, HandlerInv, HandlerTypeOK
  <2>2. QED BY <2>1 DEF IInv, AckedLead, Grows
<1>3. ASSUME NEW v \in Workers \ {w} PROVE LeftAlone(v) /\ WorkerInv(v)'
  <2>1. LeftAlone(v)
    BY <1>3 DEF LeftAlone, Untouched, handlerVars, requestVars, filterVars
  <2>2. QED BY <2>1, OthersKept
<1>4. QED BY <1>1, <1>2, <1>3

\* A worker that comes to no put disturbs no other's.
LEMMA LonelyKept ==
    ASSUME IInv, NEW w \in Workers, at'[w] # "put", kv' = kv, raced \subseteq raced',
           \A v \in Workers \ {w} : call'[v] = call[v] /\ at'[v] = at[v]
    PROVE  \A v \in Workers : Lonely(v)'
BY DEF IInv, Lonely, Memory!Key

\* What the types say of one call.
LEMMA CallTypes ==
    ASSUME IInv, NEW w \in Workers
    PROVE  /\ pc[w] \in {"setnx", "get"} => Memory!Key(w) = job[w].id /\ job[w].id \in Keys
           /\ pc[w] = "setnx" => call[w].url = job[w].url /\ job[w].url \in Urls
                                 /\ call[w].ttl = ttl[w] /\ ttl[w] \in Ttls
           /\ res[w] \in Urls \cup {NoUrl} \cup Memory!Outcomes
<1>1. Placed(w) /\ Calling(w)
  BY DEF IInv, WorkerInv, HandlerInv
<1>2. res[w] \in Urls \cup {NoUrl} \cup Memory!Outcomes /\ ttl[w] \in Ttls
  BY DEF IInv, TypeOK, Chosen, Memory!StoreTypeOK
<1>3. QED BY <1>1, <1>2 DEF Placed, Calling, SetNX, Get, Memory!Key

-----------------------------------------------------------------------------
AllPlaces == Memory!Places \cup Redis!Places \cup MySql!Places

\* The interface keeps its types.
LEMMA BeginTypes ==
    ASSUME Memory!StoreTypeOK(AllPlaces), NEW w \in Workers, NEW c \in Memory!Calls,
           NEW place \in AllPlaces, Memory!Begin(w, c, place)
    PROVE  /\ Memory!StoreTypeOK(AllPlaces)'
           /\ call'[w] = c /\ at'[w] = place /\ res'[w] = res[w] /\ at[w] = "idle"
<1> USE DEF Memory!StoreTypeOK, Memory!Begin
<1>1. call'[w] = c /\ at'[w] = place /\ res'[w] = res[w] /\ at[w] = "idle"
  OBVIOUS
<1>2. c # Memory!NoCall /\ place # "idle"
  BY DEF Memory!Calls, Memory!NoCall, AllPlaces, Memory!Places, Redis!Places, MySql!Places
<1>3. QED BY <1>1, <1>2

LEMMA FinishTypes ==
    ASSUME Memory!StoreTypeOK(AllPlaces), NEW w \in Workers, at[w] # "idle",
           NEW r \in Urls \cup {NoUrl} \cup Memory!Outcomes, Memory!Finish(w, r)
    PROVE  /\ Memory!StoreTypeOK(AllPlaces)'
           /\ call'[w] = call[w] /\ at'[w] = "done" /\ res'[w] = r
BY DEF Memory!StoreTypeOK, Memory!Finish

LEMMA ProceedTypes ==
    ASSUME Memory!StoreTypeOK(AllPlaces), NEW w \in Workers, at[w] # "idle",
           NEW place \in AllPlaces, Memory!Proceed(w, place)
    PROVE  /\ Memory!StoreTypeOK(AllPlaces)'
           /\ call'[w] = call[w] /\ at'[w] = place /\ res'[w] = res[w]
<1>1. place # "idle"
  BY DEF AllPlaces, Memory!Places, Redis!Places, MySql!Places
<1>2. QED BY <1>1 DEF Memory!StoreTypeOK, Memory!Proceed

LEMMA ReturnTypes ==
    ASSUME Memory!StoreTypeOK(AllPlaces), NEW w \in Workers, Memory!Return(w)
    PROVE  /\ Memory!StoreTypeOK(AllPlaces)'
           /\ call'[w] = Memory!NoCall /\ at'[w] = "idle" /\ res'[w] = "none" /\ at[w] = "done"
BY DEF Memory!StoreTypeOK, Memory!Return, Memory!Outcomes

\* The invariant from its parts, after a step of worker w's.
LEMMA Assembled ==
    ASSUME IInv, NEW w \in Workers, HandlerInv', FilterInv', Memory!StoreTypeOK(AllPlaces)',
           Memory!MemoryTypeOK', Redis!RedisTypeOK', MySql!MySqlTypeOK', Chosen',
           RowsHaveUrls', AckedLead',
           \A v \in Workers \ {w} : LeftAlone(v) /\ WorkerInv(v)',
           at'[w] # "idle" <=> pc'[w] \in {"setnx", "get"},
           WorkerInv(w)', \A v \in Workers : Lonely(v)'
    PROVE  IInv'
<1>1. \A v \in Workers : at'[v] # "idle" <=> pc'[v] \in {"setnx", "get"}
  BY DEF IInv, TypeOK, LeftAlone, Untouched
<1>2. TypeOK'
  BY <1>1 DEF TypeOK, HandlerInv, AllPlaces, Chosen
<1>3. QED BY <1>2 DEF IInv

LEMMA InvFacts ==
    ASSUME IInv, NEW w \in Workers
    PROVE  /\ HandlerTypeOK /\ Placed(w) /\ Expecting(w) /\ FilterInv
           /\ Memory!StoreTypeOK(AllPlaces)
           /\ Memory!MemoryTypeOK /\ Redis!RedisTypeOK /\ MySql!MySqlTypeOK
           /\ Chosen /\ (at[w] # "idle" <=> pc[w] \in {"setnx", "get"})
           /\ Calling(w) /\ Claiming(w) /\ Finding(w) /\ Missing(w) /\ Failing(w)
BY DEF IInv, TypeOK, HandlerInv, WorkerInv, AllPlaces

\* A worker outside of a call.
LEMMA OutsideParts ==
    ASSUME NEW w \in Workers, at'[w] = "idle", pc'[w] \notin {"setnx", "get"}
    PROVE  /\ Calling(w)'
           /\ ~Answers301(w)' => Finding(w)'
           /\ ~Answers404(w)' => Missing(w)'
           /\ ~Answers500(w)' => Failing(w)'
           /\ Claims(w)' => pc'[w] \in {"load", "store"} \/ Shortened(w)'
<1>1. Calling(w)'
  BY DEF Calling, Memory!Places, Redis!Places, MySql!Places
<1>2. ~Answers301(w)' => Finding(w)'
  BY DEF Finding
<1>3. ~Answers404(w)' => Missing(w)'
  BY DEF Missing
<1>4. ~Answers500(w)' => Failing(w)'
  BY DEF Failing, Returned
<1>5. Claims(w)' => pc'[w] \in {"load", "store"} \/ Shortened(w)'
  BY DEF Claims
<1>6. QED BY <1>1, <1>2, <1>3, <1>4, <1>5

LEMMA OutsideInv ==
    ASSUME NEW w \in Workers, at'[w] = "idle", pc'[w] \notin {"setnx", "get"},
           pc'[w] \in {"load", "store"} \/ Shortened(w)' => Leads(job[w].id, job[w].url)',
           ~Answers301(w)', ~Answers404(w)', ~Answers500(w)'
    PROVE  WorkerInv(w)'
BY OutsideParts DEF WorkerInv, Claiming

\* A worker that answers a request without granting an id.
LEMMA ReplyInv ==
    ASSUME NEW w \in Workers, at'[w] = "idle", pc'[w] = "reply",
           answer'[w].status \in {301, 404, 500},
           answer'[w].status = 301 => Finding(w)',
           answer'[w].status = 404 => Missing(w)',
           answer'[w].status = 500 => Failing(w)'
    PROVE  WorkerInv(w)'
<1>1. ~Shortened(w)' /\ pc'[w] \notin {"load", "store", "setnx", "get"}
  BY DEF Shortened
<1>2. Finding(w)'
  <2>1. answer'[w].status # 301 => ~Answers301(w)'
    BY DEF Answers301
  <2>2. QED BY <1>1, <2>1, OutsideParts
<1>3. Missing(w)'
  <2>1. answer'[w].status # 404 => ~Answers404(w)'
    BY DEF Answers404
  <2>2. QED BY <1>1, <2>1, OutsideParts
<1>4. Failing(w)'
  <2>1. answer'[w].status # 500 => ~Answers500(w)'
    BY DEF Answers500
  <2>2. QED BY <1>1, <2>1, OutsideParts
<1>5. Calling(w)' /\ Claiming(w)'
  BY <1>1, OutsideParts DEF Claiming
<1>6. QED BY <1>2, <1>3, <1>4, <1>5 DEF WorkerInv

LEMMA ArriveKeeps ==
    ASSUME IInv, NEW w \in Workers, Arrive(w)
    PROVE  IInv'
<1> USE DEF storeVars
<1>1. /\ HandlerTypeOK /\ Memory!StoreTypeOK(AllPlaces) /\ Chosen
      /\ Memory!MemoryTypeOK /\ Redis!RedisTypeOK /\ MySql!MySqlTypeOK
      /\ (at[w] # "idle" <=> pc[w] \in {"setnx", "get"})
  BY InvFacts
<1>2. HandlerStep(w) /\ pc[w] = "idle"
  BY BackendAssumption DEF Arrive, Chosen, IInv, HandlerStep, Shorten, ShortenInvalid, Redirect
<1>3. UNCHANGED <<backend, storeVars, restarts>>
  BY DEF Arrive
<1>4. (ttl \in [Workers -> Ttls])' /\ \A v \in Workers \ {w} : ttl'[v] = ttl[v]
  BY <1>1, ResultAssumption DEF Arrive, Chosen, Heeded
<1>5. HandlerMove(w)
  BY <1>2, <1>3, <1>4 DEF HandlerMove, memoryVars, redisVars, mysqlVars
<1>6. \/ pc'[w] \in {"draw", "probe"}
      \/ pc'[w] = "reply" /\ answer'[w].status = 400
  BY <1>1, Responds DEF Arrive, HandlerTypeOK, Shorten, ShortenInvalid, Redirect
<1>7. WorkerInv(w)'
  BY <1>1, <1>2, <1>3, <1>6, OutsideInv DEF Shortened, Answers301, Answers404, Answers500
<1>8. Memory!StoreTypeOK(AllPlaces)' /\ Memory!MemoryTypeOK' /\ Redis!RedisTypeOK'
      /\ MySql!MySqlTypeOK' /\ Chosen'
  BY <1>1, <1>3, <1>4
  DEF Memory!StoreTypeOK, Memory!MemoryTypeOK, Redis!RedisTypeOK, MySql!MySqlTypeOK, Chosen
<1>9. \A v \in Workers : Lonely(v)'
  BY <1>1, <1>2, <1>3, LonelyKept
<1>10. QED BY <1>1, <1>2, <1>3, <1>5, <1>6, <1>7, <1>8, <1>9, HandlerMoves, Assembled

LEMMA ComputeKeeps ==
    ASSUME IInv, NEW w \in Workers, Compute(w), UNCHANGED <<storeVars, backend, restarts>>,
           ttl' = [ttl EXCEPT ![w] = IF pc[w] = "reply" THEN 0 ELSE @]
    PROVE  IInv'
<1> USE DEF storeVars
<1>1. /\ HandlerTypeOK /\ Memory!StoreTypeOK(AllPlaces) /\ Chosen
      /\ Memory!MemoryTypeOK /\ Redis!RedisTypeOK /\ MySql!MySqlTypeOK
      /\ (at[w] # "idle" <=> pc[w] \in {"setnx", "get"})
      /\ Placed(w) /\ Expecting(w) /\ FilterInv /\ Claiming(w)
  BY InvFacts
<1>2. HandlerStep(w) /\ pc[w] \in {"load", "store", "probe", "reply"}
  BY DEF Compute, HandlerStep, BloomLoad, BloomStore, BloomMiss, BloomPass, Send
<1>3. (ttl \in [Workers -> Ttls])' /\ \A v \in Workers \ {w} : ttl'[v] = ttl[v]
  BY <1>1, ResultAssumption DEF Chosen
<1>4. HandlerMove(w)
  BY <1>2, <1>3 DEF HandlerMove, memoryVars, redisVars, mysqlVars
<1>5. Grows /\ at[w] = "idle"
  BY <1>1, <1>2, <1>4, HandlerMoves
<1>6. WorkerInv(w)' /\ pc'[w] \notin {"setnx", "get"}
  <2>1. CASE BloomLoad(w) \/ BloomStore(w)
    <3>1. Leads(job[w].id, job[w].url) /\ job[w].id \in Keys /\ job[w].url \in Urls
      BY <1>1, <2>1 DEF BloomLoad, BloomStore, Claiming, Claims, Placed
    <3>2. Leads(job[w].id, job[w].url)'
      <4>1. job' = job
        BY <2>1 DEF BloomLoad, BloomStore
      <4>2. QED BY <1>5, <3>1, <4>1 DEF Grows
    <3>3. pc'[w] \in {"load", "store"} \/ (pc'[w] = "reply" /\ answer'[w].status = 200)
      <4>1. CASE Respond(w, 200, NoUrl)
        BY <1>1, <4>1, Responds
      <4>2. CASE pc' = [pc EXCEPT ![w] = "store"] \/ pc' = [pc EXCEPT ![w] = "load"]
        <5>1. pc \in [Workers -> Pcs]
          BY <1>1 DEF HandlerTypeOK
        <5>2. QED BY <4>2, <5>1
      <4>3. \/ pc' = [pc EXCEPT ![w] = "store"] \/ pc' = [pc EXCEPT ![w] = "load"]
            \/ Respond(w, 200, NoUrl)
        BY <2>1, Zenon DEF BloomLoad, BloomStore
      <4>4. QED BY <4>1, <4>2, <4>3
    <3>4. QED BY <1>5, <3>2, <3>3, OutsideInv DEF Answers301, Answers404, Answers500
  <2>2. CASE BloomMiss(w)
    <3>1. pc'[w] = "reply" /\ answer'[w].status = 404 /\ UNCHANGED <<job, expected, filterVars>>
      BY <1>1, <2>2, Responds DEF BloomMiss
    <3>2. expected[w] # {} => Torn(job[w].id) \/ Lost(w)
      <4>1. SUFFICES ASSUME expected[w] # {}, ~Lost(w) PROVE Torn(job[w].id)
        OBVIOUS
      <4>2. job[w].id \in Keys \ forgotten /\ acked[job[w].id] # {}
        BY <1>1, <4>1 DEF Expecting, HandlerTypeOK, Lost
      <4>3. Marked(job[w].id, Len(Probes[job[w].id]))
        BY <1>1, <4>2 DEF FilterInv, AckedMarked
      <4>4. probe[w] \in 1 .. Len(Probes[job[w].id]) /\ Bit(w) \notin bloom
        BY <1>1, <2>2 DEF BloomMiss, Placed
      <4>5. QED BY <4>3, <4>4 DEF Marked, Bit, Torn
    <3>3. Missing(w)'
      BY <1>5, <3>1, <3>2 DEF Missing, Torn, Lost, Grows, filterVars
    <3>4. QED
      BY <1>5, <3>1, <3>3 DEF WorkerInv, Calling, Claiming, Claims, Finding, Failing, Returned,
         Shortened, Answers301, Answers500, Memory!Places, Redis!Places, MySql!Places
  <2>3. CASE BloomPass(w) \/ Send(w)
    <3>1. pc'[w] \in {"probe", "idle"}
      BY <1>1, <2>3 DEF HandlerTypeOK, BloomPass, Send
    <3>2. QED
      BY <1>5, <3>1, OutsideInv DEF Shortened, Answers301, Answers404, Answers500
  <2>4. QED BY <2>1, <2>2, <2>3 DEF Compute
<1>7. Memory!StoreTypeOK(AllPlaces)' /\ Memory!MemoryTypeOK' /\ Redis!RedisTypeOK'
      /\ MySql!MySqlTypeOK' /\ Chosen'
  BY <1>1, <1>3
  DEF Memory!StoreTypeOK, Memory!MemoryTypeOK, Redis!RedisTypeOK, MySql!MySqlTypeOK, Chosen
<1>8. \A v \in Workers : Lonely(v)'
  BY <1>5, LonelyKept
<1>9. QED BY <1>4, <1>5, <1>6, <1>7, <1>8, HandlerMoves, Assembled

-----------------------------------------------------------------------------
\* Worker w calls the store, or takes what it has returned.
LEMMA AskKeeps ==
    ASSUME IInv, NEW w \in Workers, NEW id \in Ids[backend], Draw(w, id), Invoke(w, SetNX(w, id)),
           UNCHANGED <<backend, ttl, restarts>>
    PROVE  IInv'
<1>1. /\ HandlerTypeOK /\ Memory!StoreTypeOK(AllPlaces) /\ Chosen /\ Placed(w)
      /\ Memory!MemoryTypeOK /\ Redis!RedisTypeOK /\ MySql!MySqlTypeOK /\ Expecting(w)
  BY InvFacts
<1>2. id \in Keys /\ HandlerStep(w)
  BY <1>1, BackendAssumption DEF Chosen, HandlerStep
<1>3. pc[w] = "draw" /\ pc'[w] = "setnx" /\ job'[w].id = id /\ job'[w].url = job[w].url
      /\ expected[w] = {} /\ expected'[w] = {}
  BY <1>1 DEF HandlerTypeOK, Draw, Expecting
<1>4. PICK c : c = SetNX(w, id)
  OBVIOUS
<1>5. c \in Memory!Calls /\ c.op = "setNX"
  BY <1>1, <1>2, <1>3, <1>4 DEF SetNX, Memory!Calls, Placed, Chosen
<1>6. PICK place \in AllPlaces :
          /\ Memory!Begin(w, c, place)
          /\ \/ backend = "memory" /\ place = "check"
             \/ backend = "redis" /\ place = "redisSetNX"
             \/ backend = "mysql" /\ place = "insert"
  <2>1. backend \in {"memory", "redis", "mysql"}
    BY <1>1, BackendAssumption DEF Chosen
  <2>2. QED
    BY <1>4, <1>5, <2>1 DEF Invoke, Memory!Entry, Redis!Entry, MySql!Entry, AllPlaces,
       Memory!Places, Redis!Places, MySql!Places
<1>7. /\ Memory!StoreTypeOK(AllPlaces)'
      /\ call'[w] = c /\ at'[w] = place /\ at'[w] # "idle" /\ at'[w] # "done" /\ at'[w] # "put"
  BY <1>1, <1>5, <1>6, BeginTypes
<1>8. HandlerMove(w)
  BY <1>2, <1>1, <1>6 DEF HandlerMove, Invoke, Memory!Begin, Memory!StoreTypeOK
<1>9. WorkerInv(w)'
  <2>1. Calling(w)'
    BY <1>3, <1>4, <1>6, <1>7 DEF Calling, SetNX, Memory!Places, Redis!Places, MySql!Places
  <2>2. QED
    BY <1>3, <1>7, <2>1 DEF WorkerInv, Claiming, Claims, Finding, Missing, Failing, Returned, Shortened,
       Answers301, Answers404, Answers500
<1>10. Memory!MemoryTypeOK' /\ Redis!RedisTypeOK' /\ MySql!MySqlTypeOK' /\ Chosen'
  BY <1>1 DEF Invoke, memoryVars, redisVars, mysqlVars,
     Memory!MemoryTypeOK, Redis!RedisTypeOK, MySql!MySqlTypeOK, Chosen
<1>11. \A v \in Workers : Lonely(v)'
  BY <1>7, <1>8, LonelyKept DEF HandlerMove, memoryVars
<1>12. QED BY <1>3, <1>7, <1>8, <1>9, <1>10, <1>11, HandlerMoves, Assembled

LEMMA LookUpKeeps ==
    ASSUME IInv, NEW w \in Workers, BloomHit(w), Invoke(w, Get(w)), UNCHANGED <<backend, ttl, restarts>>
    PROVE  IInv'
<1>1. /\ HandlerTypeOK /\ Memory!StoreTypeOK(AllPlaces) /\ Chosen /\ Placed(w)
      /\ Memory!MemoryTypeOK /\ Redis!RedisTypeOK /\ MySql!MySqlTypeOK
  BY InvFacts
<1>2. HandlerStep(w)
  BY DEF HandlerStep
<1>3. pc[w] = "probe" /\ pc'[w] = "get" /\ job' = job /\ job[w].id \in Keys
  BY <1>1 DEF HandlerTypeOK, BloomHit, Placed
<1>4. PICK c : c = Get(w)
  OBVIOUS
<1>5. c \in Memory!Calls /\ c.op = "get"
  BY <1>3, <1>4 DEF Get, Memory!Calls
<1>6. PICK place \in AllPlaces :
          /\ Memory!Begin(w, c, place)
          /\ \/ backend = "memory" /\ place = "lookup"
             \/ backend = "redis" /\ place = "redisGet"
             \/ backend = "mysql" /\ place = "select"
  <2>1. backend \in {"memory", "redis", "mysql"}
    BY <1>1, BackendAssumption DEF Chosen
  <2>2. QED
    BY <1>4, <1>5, <2>1 DEF Invoke, Memory!Entry, Redis!Entry, MySql!Entry, AllPlaces,
       Memory!Places, Redis!Places, MySql!Places
<1>7. /\ Memory!StoreTypeOK(AllPlaces)'
      /\ call'[w] = c /\ at'[w] = place /\ at'[w] # "idle" /\ at'[w] # "done" /\ at'[w] # "put"
  BY <1>1, <1>5, <1>6, BeginTypes
<1>8. HandlerMove(w)
  BY <1>2, <1>1, <1>6 DEF HandlerMove, Invoke, Memory!Begin, Memory!StoreTypeOK
<1>9. WorkerInv(w)'
  <2>1. Calling(w)'
    BY <1>3, <1>4, <1>6, <1>7 DEF Calling, Get, Memory!Places, Redis!Places, MySql!Places
  <2>2. QED
    BY <1>3, <1>7, <2>1 DEF WorkerInv, Claiming, Claims, Finding, Missing, Failing, Returned, Shortened,
       Answers301, Answers404, Answers500
<1>10. Memory!MemoryTypeOK' /\ Redis!RedisTypeOK' /\ MySql!MySqlTypeOK' /\ Chosen'
  BY <1>1 DEF Invoke, memoryVars, redisVars, mysqlVars,
     Memory!MemoryTypeOK, Redis!RedisTypeOK, MySql!MySqlTypeOK, Chosen
<1>11. \A v \in Workers : Lonely(v)'
  BY <1>7, <1>8, LonelyKept DEF HandlerMove, memoryVars
<1>12. QED BY <1>3, <1>7, <1>8, <1>9, <1>10, <1>11, HandlerMoves, Assembled

LEMMA TakeKeeps ==
    ASSUME IInv, NEW w \in Workers, Claimed(w, res[w]) \/ Found(w, res[w]), Memory!Return(w),
           UNCHANGED <<memoryVars, redisVars, mysqlVars, failed, backend, ttl, restarts>>
    PROVE  IInv'
<1>1. /\ HandlerTypeOK /\ Memory!StoreTypeOK(AllPlaces) /\ Chosen /\ Placed(w) /\ Expecting(w)
      /\ Memory!MemoryTypeOK /\ Redis!RedisTypeOK /\ MySql!MySqlTypeOK /\ FilterInv
      /\ Claiming(w) /\ Finding(w) /\ Missing(w) /\ Failing(w)
  BY InvFacts
<1>2. HandlerStep(w) /\ pc[w] \in {"setnx", "get"}
  BY DEF HandlerStep, Claimed, Found
<1>3. /\ Memory!StoreTypeOK(AllPlaces)'
      /\ at'[w] = "idle" /\ at[w] = "done" /\ res'[w] = "none"
  BY <1>1, ReturnTypes
<1>4. HandlerMove(w)
  BY <1>1, <1>2 DEF HandlerMove, Memory!Return, Memory!StoreTypeOK
<1>5. Grows
  BY <1>4, HandlerMoves
<1>6. job' = job /\ expected' = expected /\ ttl' = ttl /\ UNCHANGED filterVars
      /\ link' = link /\ dropped' = dropped /\ overdue' = overdue /\ failed' = failed /\ job[w].id \in Keys
  BY <1>1, <1>2 DEF Claimed, Found, redisVars, mysqlVars, Placed
<1>7. ASSUME Claimed(w, res[w]) PROVE WorkerInv(w)'
  <2>1. pc[w] = "setnx" /\ job[w].url \in Urls
    BY <1>1, <1>7 DEF Claimed, Placed
  <2>2. CASE res[w] = "true" /\ pc'[w] = "load"
    <3>1. Leads(job[w].id, job[w].url)
      BY <1>1, <1>3, <2>1, <2>2 DEF Claiming, Claims, Returned
    <3>2. Leads(job[w].id, job[w].url)'
      BY <1>5, <1>6, <2>1, <3>1 DEF Grows
    <3>3. QED
      BY <1>3, <2>2, <3>2, OutsideInv DEF Answers301, Answers404, Answers500
  <2>3. CASE pc'[w] = "draw"
    BY <1>3, <2>3, OutsideInv DEF Shortened, Answers301, Answers404, Answers500
  <2>4. CASE Respond(w, 500, NoUrl)
    <3>1. pc'[w] = "reply" /\ answer'[w].status = 500
      BY <1>1, <2>4, Responds
    <3>2. \/ res[w] = "threw"
          \/ res[w] = "false" /\ ~TriesLeft(w) /\ tries' = tries
      <4>1. pc' # [pc EXCEPT ![w] = "load"] /\ pc' # [pc EXCEPT ![w] = "draw"]
        BY <1>1, <3>1 DEF HandlerTypeOK
      <4>2. QED BY <1>7, <4>1 DEF Claimed
    <3>3. ~TriesLeft(w) => tries[w] = MaxTries - 1
      <4>1. tries[w] \in 0 .. MaxTries - 1 /\ MaxTries \in Nat
        BY <1>1, HandlerAssumption DEF HandlerTypeOK
      <4>2. QED BY <4>1 DEF TriesLeft
    <3>4. ~failed => NoTtlOnRedis(w) \/ (tries'[w] = MaxTries - 1 /\ Present(job[w].id))
      BY <1>1, <1>3, <2>1, <3>2, <3>3 DEF Failing, Returned
    <3>5. Failing(w)'
      <4>1. Present(job[w].id) => Present(job[w].id)'
        BY <1>5, <1>6 DEF Grows
      <4>2. QED BY <1>3, <1>5, <1>6, <3>1, <3>4, <4>1 DEF Failing, NoTtlOnRedis, Returned, Grows
    <3>6. QED
      BY <1>3, <3>1, <3>5, ReplyInv
  <2>5. QED BY <1>1, <1>7, <2>2, <2>3, <2>4 DEF Claimed, HandlerTypeOK
<1>8. ASSUME Found(w, res[w]) PROVE WorkerInv(w)'
  <2>1. pc[w] = "get"
    BY <1>8 DEF Found
  <2>2. CASE res[w] = "threw" /\ Respond(w, 500, NoUrl)
    <3>1. pc'[w] = "reply" /\ answer'[w].status = 500
      BY <1>1, <2>2, Responds
    <3>2. failed'
      BY <1>1, <1>3, <1>6, <2>2 DEF Failing, Returned
    <3>3. Failing(w)'
      BY <3>2 DEF Failing
    <3>4. QED BY <1>3, <3>1, <3>3, ReplyInv
  <2>3. CASE res[w] = NoUrl /\ Respond(w, 404, NoUrl)
    <3>1. pc'[w] = "reply" /\ answer'[w].status = 404
      BY <1>1, <2>3, Responds
    <3>2. AllIn(job[w].id) \/ Torn(job[w].id)
      <4>1. Marked(job[w].id, Len(Probes[job[w].id]))
        BY <1>1, <2>1 DEF FilterInv, Marking
      <4>2. DOMAIN Probes[job[w].id] = 1 .. Len(Probes[job[w].id])
        BY <1>6, HandlerAssumption
      <4>3. QED BY <4>1, <4>2 DEF Marked, AllIn, Torn
    <3>3. expected[w] # {} => Lost(w) \/ link[w] = "broken"
      BY <1>1, <1>3, <2>1, <2>3 DEF Missing, Returned
    <3>4. Missing(w)'
      <4>1. (AllIn(job[w].id) => AllIn(job[w].id)') /\ (Torn(job[w].id) => Torn(job[w].id)')
            /\ (Lost(w) => Lost(w)')
        BY <1>6 DEF AllIn, Torn, Lost, filterVars
      <4>2. QED BY <1>3, <1>6, <3>1, <3>2, <3>3, <4>1 DEF Missing, Returned
    <3>5. QED
      BY <1>3, <3>1, <3>4, ReplyInv
  <2>4. CASE res[w] \in Urls /\ Respond(w, 301, res[w])
    <3>1. pc'[w] = "reply" /\ answer'[w].status = 301 /\ answer'[w].url = res[w]
      BY <1>1, <2>4, Responds
    <3>2. Leads(job[w].id, res[w])
      BY <1>1, <1>3, <2>1, <2>4 DEF Finding, Returned
    <3>3. Finding(w)'
      BY <1>3, <1>5, <1>6, <2>4, <3>1, <3>2 DEF Finding, Grows
    <3>4. QED
      BY <1>3, <3>1, <3>3, ReplyInv
  <2>5. QED BY <1>8, <2>2, <2>3, <2>4 DEF Found
<1>9. WorkerInv(w)'
  BY <1>7, <1>8
<1>10. pc'[w] \notin {"setnx", "get"}
  BY <1>1 DEF Claimed, Found, Respond, HandlerTypeOK
<1>11. Memory!MemoryTypeOK' /\ Redis!RedisTypeOK' /\ MySql!MySqlTypeOK' /\ Chosen'
  BY <1>1 DEF memoryVars, redisVars, mysqlVars,
     Memory!MemoryTypeOK, Redis!RedisTypeOK, MySql!MySqlTypeOK, Chosen
<1>12. \A v \in Workers : Lonely(v)'
  BY <1>3, <1>4, LonelyKept DEF HandlerMove, memoryVars
<1>13. QED BY <1>3, <1>4, <1>9, <1>10, <1>11, <1>12, HandlerMoves, Assembled

-----------------------------------------------------------------------------
\* The store of the backend holds more, or has raced or dropped something.
LEMMA StoreGrows ==
    ASSUME UNCHANGED <<handlerVars, backend, ttl, restarts>>,
           raced \subseteq raced', dropped \subseteq dropped', overdue \subseteq overdue',
           failed => failed', NoUrl \notin Urls,
           \A id \in Keys :
               \/ Held(id)' = Held(id)
               \/ Held(id) = NoUrl /\ Held(id)' # NoUrl
               \/ id \in raced' /\ Held(id)' # NoUrl
               \/ id \in dropped'
    PROVE  Grows
<1>1. torn' = torn /\ bloom' = bloom /\ forgotten' = forgotten
  BY DEF handlerVars, filterVars
<1>2. ASSUME NEW id \in Keys, Present(id) PROVE Present(id)'
  BY <1>2 DEF Present
<1>3. ASSUME NEW id \in Keys, NEW u \in Urls, Leads(id, u) PROVE Leads(id, u)'
  <2>1. CASE id \in Gone
    BY <1>1, <2>1 DEF Leads, Gone
  <2>2. CASE id \notin Gone
    <3>1. Present(id)'
      BY <1>2, <1>3, <2>2 DEF Leads
    <3>2. id \notin raced' \cup dropped' => Held(id)' = u
      BY <1>3, <2>2 DEF Leads, Present
    <3>3. QED BY <3>1, <3>2 DEF Leads
  <2>3. QED BY <2>1, <2>2
<1>4. QED BY <1>1, <1>2, <1>3 DEF Grows

\* A call that stays in the store or ends there: what its result must mean.
LEMMA InCallInv ==
    ASSUME IInv, NEW w \in Workers, StoreMove(w), at[w] # "idle", call'[w] = call[w],
           at'[w] = at[w] \/ at'[w] = "done" \/ (at[w] = "check" /\ at'[w] = "put"),
           pc[w] = "setnx" /\ Returned(w, "true")' => Leads(job[w].id, job[w].url)',
           \A u \in Urls : pc[w] = "get" /\ Returned(w, u)' => Leads(job[w].id, u)',
           expected[w] # {} /\ pc[w] = "get" /\ Returned(w, NoUrl)' =>
               Lost(w)' \/ link'[w] = "broken",
           ~failed' =>
               /\ ~Returned(w, "threw")'
               /\ pc[w] = "setnx" /\ Returned(w, "false")' => NoTtlOnRedis(w) \/ Present(job[w].id)'
    PROVE  WorkerInv(w)'
<1> USE DEF StoreMove
<1>1. pc[w] \in {"setnx", "get"} /\ Calling(w)
  BY InvFacts
<1>2. UNCHANGED <<pc, job, answer, tries, expected, backend, ttl>>
  BY DEF handlerVars, requestVars
<1>3. Calling(w)'
  BY <1>1, <1>2 DEF Calling, SetNX, Get, Memory!Places, Redis!Places, MySql!Places
<1>4. Claiming(w)'
  BY <1>1, <1>2 DEF Claiming, Claims, Shortened
<1>5. Finding(w)'
  BY <1>1, <1>2 DEF Finding, Answers301
<1>6. Missing(w)'
  BY <1>1, <1>2 DEF Missing, Answers404
<1>7. Failing(w)'
  BY <1>1, <1>2 DEF Failing, Answers500, NoTtlOnRedis
<1>8. QED BY <1>3, <1>4, <1>5, <1>6, <1>7 DEF WorkerInv

\* The invariant after a step of the store.
LEMMA StoreKeeps ==
    ASSUME IInv, NEW w \in Workers, StoreMove(w), Grows, at[w] # "idle", at'[w] # "idle",
           Memory!StoreTypeOK(AllPlaces)',
           Memory!MemoryTypeOK', Redis!RedisTypeOK', MySql!MySqlTypeOK', RowsHaveUrls',
           \A v \in Workers : Lonely(v)', WorkerInv(w)'
    PROVE  IInv'
<1>1. Chosen'
  BY InvFacts DEF StoreMove, Chosen
<1>2. pc' = pc /\ pc[w] \in {"setnx", "get"}
  BY InvFacts DEF StoreMove, handlerVars, requestVars
<1>3. QED BY <1>1, <1>2, StoreMoves, Assembled

\* The invariant after a step that ends a call with result r.
LEMMA FinishKeeps ==
    ASSUME IInv, NEW w \in Workers, StoreMove(w), Grows, at[w] # "idle",
           NEW r \in Urls \cup {NoUrl} \cup Memory!Outcomes, Memory!Finish(w, r),
           Memory!MemoryTypeOK', Redis!RedisTypeOK', MySql!MySqlTypeOK', RowsHaveUrls',
           \A v \in Workers : Lonely(v)',
           pc[w] = "setnx" /\ r = "true" => Leads(job[w].id, job[w].url)',
           \A u \in Urls : pc[w] = "get" /\ r = u => Leads(job[w].id, u)',
           expected[w] # {} /\ pc[w] = "get" /\ r = NoUrl => Lost(w)' \/ link'[w] = "broken",
           ~failed' =>
               /\ r # "threw"
               /\ pc[w] = "setnx" /\ r = "false" => NoTtlOnRedis(w) \/ Present(job[w].id)'
    PROVE  IInv'
<1>1. /\ Memory!StoreTypeOK(AllPlaces)'
      /\ call'[w] = call[w] /\ at'[w] = "done" /\ res'[w] = r
  BY InvFacts, FinishTypes
<1>2. \A q : Returned(w, q)' <=> q = r
  BY <1>1 DEF Returned
<1>3. WorkerInv(w)'
  <2>1. pc[w] = "setnx" /\ Returned(w, "true")' => Leads(job[w].id, job[w].url)'
    BY <1>2
  <2>2. \A u \in Urls : pc[w] = "get" /\ Returned(w, u)' => Leads(job[w].id, u)'
    BY <1>2
  <2>3. expected[w] # {} /\ pc[w] = "get" /\ Returned(w, NoUrl)' =>
            Lost(w)' \/ link'[w] = "broken"
    BY <1>2
  <2>4. ~failed' =>
            /\ ~Returned(w, "threw")'
            /\ pc[w] = "setnx" /\ Returned(w, "false")' => NoTtlOnRedis(w) \/ Present(job[w].id)'
    BY <1>2
  <2>5. call'[w] = call[w] /\ at'[w] = "done"
    BY <1>1
  <2>6. QED BY <2>1, <2>2, <2>3, <2>4, <2>5, InCallInv, Zenon
<1>4. QED BY <1>1, <1>3, StoreKeeps

\* What the types and the invariant say of a worker in a call.
LEMMA CallFacts ==
    ASSUME IInv, NEW w \in Workers, at[w] # "idle"
    PROVE  /\ Memory!StoreTypeOK(AllPlaces) /\ Calling(w) /\ Lonely(w)
           /\ Memory!MemoryTypeOK /\ Redis!RedisTypeOK /\ MySql!MySqlTypeOK /\ RowsHaveUrls
           /\ pc[w] \in {"setnx", "get"} /\ Memory!Key(w) = job[w].id /\ job[w].id \in Keys
           /\ pc[w] = "setnx" => call[w].url = job[w].url /\ job[w].url \in Urls
                                 /\ call[w].ttl = ttl[w] /\ ttl[w] \in Ttls
           /\ expected[w] # {} => Known(job[w].id)
           /\ NoUrl \notin Urls
<1>1. expected[w] # {} => Known(job[w].id)
  <2>1. Expecting(w) /\ AckedLead /\ HandlerTypeOK
    BY InvFacts DEF IInv
  <2>2. QED BY <2>1 DEF Expecting, AckedLead, Leads, HandlerTypeOK, Known, Gone
<1>2. QED BY <1>1, InvFacts, CallTypes, HandlerAssumption DEF IInv

-----------------------------------------------------------------------------
\* The steps of MemoryStore.
LEMMA MemoryKeeps ==
    ASSUME IInv, NEW w \in Workers, Memory!Step(w),
           UNCHANGED <<handlerVars, backend, ttl, redisVars, mysqlVars, failed, restarts>>
    PROVE  IInv'
<1> USE DEF redisVars, mysqlVars, Memory!Key
<1>1. at[w] \in Memory!Places /\ at[w] # "idle"
  BY DEF Memory!Step, Memory!Lookup, Memory!Check, Memory!Put, Memory!Places
<1>2. /\ Memory!StoreTypeOK(AllPlaces) /\ Calling(w) /\ Lonely(w)
      /\ Memory!MemoryTypeOK /\ Redis!RedisTypeOK /\ MySql!MySqlTypeOK /\ RowsHaveUrls
      /\ pc[w] \in {"setnx", "get"} /\ call[w].key = job[w].id /\ job[w].id \in Keys
      /\ pc[w] = "setnx" => call[w].url = job[w].url /\ job[w].url \in Urls
      /\ expected[w] # {} => Known(job[w].id)
      /\ NoUrl \notin Urls
  BY <1>1, CallFacts
<1>3. backend = "memory" /\ Held(job[w].id) = kv[job[w].id] /\ backend' = backend
      /\ \A id : Held(id) = kv[id] /\ Held(id)' = kv'[id]
  BY <1>1, <1>2 DEF Calling, Held
<1>4. Redis!RedisTypeOK' /\ MySql!MySqlTypeOK' /\ RowsHaveUrls'
  BY <1>2 DEF Redis!RedisTypeOK, MySql!MySqlTypeOK, RowsHaveUrls
<1>5. StoreMove(w)
  BY <1>2 DEF StoreMove, Memory!Step, Memory!Lookup, Memory!Check, Memory!Put, Memory!Finish,
     Memory!Proceed, Memory!StoreTypeOK
<1>6. CASE Memory!Lookup(w)
  <2> DEFINE r == kv[job[w].id]
  <2>1. r \in Urls \cup {NoUrl} /\ Memory!Finish(w, r) /\ UNCHANGED <<kv, raced>>
        /\ pc[w] = "get"
    BY <1>2, <1>6 DEF Memory!Lookup, Memory!MemoryTypeOK, Calling
  <2>2. Grows
    BY <1>2, <1>3, <2>1, StoreGrows
  <2>3. at'[w] # "put" /\ \A v \in Workers \ {w} : call'[v] = call[v] /\ at'[v] = at[v]
    BY <1>1, <1>2, <1>5, <2>1, FinishTypes DEF StoreMove
  <2>4. \A v \in Workers : Lonely(v)'
    BY <2>1, <2>3, LonelyKept
  <2>5. ASSUME NEW u \in Urls, r = u PROVE Leads(job[w].id, u)'
    <3>1. Leads(job[w].id, u)
      BY <1>2, <1>3, <2>5 DEF Leads, Present
    <3>2. job' = job
      BY DEF handlerVars, requestVars
    <3>3. QED BY <1>2, <2>2, <3>1, <3>2 DEF Grows
  <2>6. expected[w] # {} /\ r = NoUrl => Lost(w)'
    BY <1>2, <1>3 DEF Known, Present, Lost, handlerVars, requestVars, filterVars
  <2>7. r \notin {"threw"}
    BY <2>1, ResultAssumption DEF Memory!Outcomes
  <2>8. Memory!MemoryTypeOK'
    BY <1>2, <2>1 DEF Memory!MemoryTypeOK
  <2> HIDE DEF r
  <2>9. QED BY <1>1, <1>4, <1>5, <2>1, <2>2, <2>4, <2>5, <2>6, <2>7, <2>8, FinishKeeps
<1>7. CASE Memory!Check(w)
  <2>1. UNCHANGED kv /\ raced \subseteq raced' /\ pc[w] = "setnx" /\ raced' \subseteq raced \cup {job[w].id}
    BY <1>2, <1>7 DEF Memory!Check, Calling
  <2>2. Grows
    BY <1>2, <1>3, <2>1, StoreGrows
  <2>3. Memory!MemoryTypeOK'
    BY <1>2, <2>1 DEF Memory!MemoryTypeOK
  <2>4. CASE kv[job[w].id] # NoUrl
    <3>1. Memory!Finish(w, "false")
      BY <1>2, <1>7, <2>4 DEF Memory!Check, Memory!Taken
    <3>2. at'[w] # "put" /\ \A v \in Workers \ {w} : call'[v] = call[v] /\ at'[v] = at[v]
      BY <1>1, <1>2, <1>5, <3>1, FinishTypes DEF StoreMove, Memory!Outcomes
    <3>3. \A v \in Workers : Lonely(v)'
      BY <2>1, <3>2, LonelyKept
    <3>4. Present(job[w].id)'
      <4>1. job' = job
        BY DEF handlerVars, requestVars
      <4>2. QED BY <1>3, <2>1, <2>4, <4>1 DEF Present
    <3>5. "false" \notin Urls \cup {NoUrl}
      BY ResultAssumption DEF Memory!Outcomes
    <3>6. "false" \in Memory!Outcomes
      BY DEF Memory!Outcomes
    <3>7. QED
      BY <1>1, <1>4, <1>5, <2>1, <2>2, <2>3, <3>1, <3>3, <3>4, <3>5, <3>6, FinishKeeps
  <2>5. CASE kv[job[w].id] = NoUrl
    <3>1. /\ Memory!Proceed(w, "put") /\ at[w] = "check"
          /\ raced' = IF \E v \in Workers : at[v] = "put" /\ call[v].key = call[w].key
                      THEN raced \cup {call[w].key} ELSE raced
      BY <1>2, <1>7, <2>5 DEF Memory!Check, Memory!Taken
    <3>2. "put" \in AllPlaces
      BY DEF AllPlaces, Memory!Places
    <3>3. /\ Memory!StoreTypeOK(AllPlaces)'
          /\ call' = call /\ at'[w] = "put" /\ res'[w] = res[w]
          /\ \A v \in Workers \ {w} : at'[v] = at[v]
      BY <1>1, <1>2, <1>5, <3>1, <3>2, ProceedTypes DEF StoreMove, Memory!Proceed
    <3>4. WorkerInv(w)'
      BY <1>1, <1>5, <3>1, <3>3, InCallInv DEF Returned
    <3>5. ASSUME NEW v \in Workers PROVE Lonely(v)'
      <4>1. CASE v = w
        BY <1>2, <2>1, <2>5, <3>1, <3>3, <4>1 DEF Lonely
      <4>2. CASE v # w
        <5>1. Lonely(v)
          BY DEF IInv
        <5>2. at[v] = "put" /\ call[v].key \notin raced' => call[v].key # call[w].key
          BY <3>1
        <5>3. QED BY <2>1, <3>3, <4>2, <5>1, <5>2 DEF Lonely
      <4>3. QED BY <4>1, <4>2
    <3>6. QED BY <1>1, <1>4, <1>5, <2>2, <2>3, <3>3, <3>4, <3>5, StoreKeeps
  <2>6. QED BY <2>4, <2>5
<1>8. CASE Memory!Put(w)
  <2>1. at[w] = "put" /\ UNCHANGED raced /\ pc[w] = "setnx"
        /\ kv' = [kv EXCEPT ![job[w].id] = job[w].url] /\ Memory!Finish(w, "true")
    BY <1>2, <1>8 DEF Memory!Put, Calling
  <2>2. /\ kv'[job[w].id] = job[w].url /\ job[w].url \in Urls
        /\ \A k \in Keys \ {job[w].id} : kv'[k] = kv[k]
    BY <1>2, <2>1 DEF Memory!MemoryTypeOK
  <2>3. job[w].id \in raced \/ kv[job[w].id] = NoUrl
    BY <1>2, <2>1 DEF Lonely
  <2>4. Grows
    BY <1>2, <1>3, <2>1, <2>2, <2>3, StoreGrows
  <2>5. Memory!MemoryTypeOK'
    BY <1>2, <2>1, <2>2 DEF Memory!MemoryTypeOK
  <2>6. "true" \in Memory!Outcomes /\ "true" \notin Urls \cup {NoUrl}
    BY ResultAssumption DEF Memory!Outcomes
  <2>7. at'[w] = "done" /\ call' = call /\ \A v \in Workers \ {w} : at'[v] = at[v]
    BY <1>1, <1>2, <1>5, <2>1, <2>6, FinishTypes DEF StoreMove, Memory!Finish
  <2>8. ASSUME NEW v \in Workers PROVE Lonely(v)'
    <3>1. Lonely(v) /\ (at[v] = "put" => call[v].key \in Keys)
      BY CallFacts DEF IInv
    <3>2. QED BY <1>2, <2>1, <2>2, <2>7, <3>1 DEF Lonely
  <2>9. Leads(job[w].id, job[w].url)'
    <3>1. job' = job
      BY DEF handlerVars, requestVars
    <3>2. QED BY <1>2, <1>3, <2>2, <3>1 DEF Leads, Present
  <2>10. QED
    BY <1>1, <1>4, <1>5, <2>1, <2>4, <2>5, <2>6, <2>8, <2>9, FinishKeeps
<1>9. QED BY <1>6, <1>7, <1>8 DEF Memory!Step

-----------------------------------------------------------------------------
\* A step that leaves MemoryStore alone and brings nobody to its put.
LEMMA NotMemory ==
    ASSUME IInv, NEW w \in Workers, StoreMove(w), UNCHANGED memoryVars, at'[w] # "put"
    PROVE  Memory!MemoryTypeOK' /\ \A v \in Workers : Lonely(v)'
<1>1. \A v \in Workers \ {w} : call'[v] = call[v] /\ at'[v] = at[v]
  BY DEF StoreMove
<1>2. kv' = kv /\ raced' = raced
  BY DEF memoryVars
<1>3. Memory!MemoryTypeOK'
  BY <1>2, InvFacts DEF Memory!MemoryTypeOK
<1>4. QED BY <1>1, <1>2, <1>3, LonelyKept

\* The result strings are none of the urls.
LEMMA ResultsApart ==
    /\ {"true", "false", "threw"} \subseteq Memory!Outcomes
    /\ {"true", "false", "threw"} \cap (Urls \cup {NoUrl}) = {}
BY ResultAssumption DEF Memory!Outcomes

\* The steps of RedisStore.
LEMMA RedisKeeps ==
    ASSUME IInv, NEW w \in Workers, Redis!Step(w),
           UNCHANGED <<handlerVars, backend, ttl, memoryVars, mysqlVars, restarts>>
    PROVE  IInv'
<1> USE DEF memoryVars, mysqlVars, Memory!Key, Redis!Key
<1>1. at[w] \in Redis!Places /\ at[w] # "idle" /\ at[w] # "put"
  BY DEF Redis!Step, Redis!Replied, Redis!NoReply, Redis!GaveUp, Redis!Throws, Redis!Places
<1>2. /\ Memory!StoreTypeOK(AllPlaces) /\ Calling(w)
      /\ Memory!MemoryTypeOK /\ Redis!RedisTypeOK /\ MySql!MySqlTypeOK /\ RowsHaveUrls
      /\ pc[w] \in {"setnx", "get"} /\ call[w].key = job[w].id /\ job[w].id \in Keys
      /\ pc[w] = "setnx" => call[w].url = job[w].url /\ job[w].url \in Urls
                            /\ call[w].ttl = ttl[w] /\ ttl[w] \in Ttls
      /\ expected[w] # {} => Known(job[w].id)
      /\ NoUrl \notin Urls
  BY <1>1, CallFacts
<1>3. /\ backend = "redis" /\ backend' = backend
      /\ \A id : Held(id) = redis[id] /\ Held(id)' = redis'[id]
  BY <1>1, <1>2 DEF Calling, Held
<1>4. (pc[w] = "setnx" /\ at[w] = "redisSetNX") \/ (pc[w] = "get" /\ at[w] = "redisGet")
  BY <1>1, <1>2 DEF Calling, Redis!Places
<1>5. job' = job /\ forgotten' = forgotten /\ dropped' = dropped /\ raced' = raced /\ overdue' = overdue
      /\ (failed => failed') /\ call' = call
  BY DEF handlerVars, requestVars, filterVars, Redis!Step, Redis!Replied, Redis!NoReply, Redis!GaveUp,
     Redis!Throws, Redis!Finish, Redis!storeCallVars
<1>6. StoreMove(w)
  BY <1>2 DEF StoreMove, Redis!Step, Redis!Replied, Redis!NoReply, Redis!GaveUp, Redis!Throws,
     Redis!Finish, Redis!storeCallVars, Redis!RedisTypeOK, Memory!StoreTypeOK
<1>7. \/ redis' = redis
      \/ /\ at[w] = "redisSetNX" /\ Redis!Stores(w)
         /\ redis' = [redis EXCEPT ![job[w].id] = job[w].url]
  BY <1>2, <1>4 DEF Redis!Step, Redis!Replied, Redis!NoReply, Redis!GaveUp, Redis!Throws, Redis!Execute
<1>8. redis' \in [Keys -> Urls \cup {NoUrl}] /\ \A id \in Keys :
          redis'[id] = redis[id] \/ (redis[id] = NoUrl /\ redis'[id] # NoUrl)
  BY <1>2, <1>4, <1>7 DEF Redis!RedisTypeOK, Redis!Stores
<1>9. Grows
  BY <1>2, <1>3, <1>5, <1>8, StoreGrows
<1>10. Redis!RedisTypeOK'
  BY <1>2, <1>5, <1>8 DEF Redis!RedisTypeOK, Redis!Step, Redis!Replied, Redis!NoReply, Redis!GaveUp,
     Redis!Throws
<1>11. MySql!MySqlTypeOK' /\ RowsHaveUrls'
  BY <1>2, <1>10 DEF MySql!MySqlTypeOK, RowsHaveUrls, Redis!RedisTypeOK
<1>12. CASE Redis!NoReply(w)
  <2>1. at' = at /\ call' = call /\ res' = res /\ failed' /\ link'[w] = "broken"
    BY <1>2, <1>12 DEF Redis!NoReply, Redis!storeCallVars, Redis!RedisTypeOK
  <2>2. Memory!StoreTypeOK(AllPlaces)'
    BY <1>2, <2>1 DEF Memory!StoreTypeOK
  <2>3. WorkerInv(w)'
    <3>1. ~ \E r : Returned(w, r)'
      BY <1>1, <2>1 DEF Returned, Redis!Places
    <3>2. QED BY <1>1, <1>6, <2>1, <3>1, InCallInv
  <2>4. QED BY <1>1, <1>6, <1>9, <1>10, <1>11, <2>1, <2>2, <2>3, NotMemory, StoreKeeps
<1>13. ASSUME NEW r \in Urls \cup {NoUrl} \cup Memory!Outcomes, Memory!Finish(w, r),
              \/ pc[w] = "get" /\ r = redis[job[w].id] /\ redis' = redis
              \/ pc[w] = "get" /\ r = NoUrl /\ link'[w] = "broken" /\ failed'
              \/ r \in {"false", "threw"} /\ failed'
              \/ pc[w] = "setnx" /\ r = "true" /\ redis'[job[w].id] = job[w].url
              \/ pc[w] = "setnx" /\ r = "false" /\ ~Redis!Stores(w)
       PROVE  IInv'
  <2>1. at'[w] # "put"
    BY <1>1, <1>2, <1>13, FinishTypes
  <2>2. pc[w] = "setnx" /\ r = "true" => Leads(job[w].id, job[w].url)'
    BY <1>2, <1>3, <1>5, <1>13 DEF Leads, Present
  <2>3. ASSUME NEW u \in Urls, pc[w] = "get", r = u PROVE Leads(job[w].id, u)'
    BY <1>2, <1>3, <1>5, <1>13, <2>3, ResultsApart DEF Leads, Present
  <2>4. expected[w] # {} /\ pc[w] = "get" /\ r = NoUrl => Lost(w)' \/ link'[w] = "broken"
    BY <1>2, <1>3, <1>5, <1>13, ResultsApart DEF Lost, Known, Present
  <2>5. ~failed' =>
            /\ r # "threw"
            /\ pc[w] = "setnx" /\ r = "false" => NoTtlOnRedis(w) \/ Present(job[w].id)'
    <3>1. redis[job[w].id] \in Urls \cup {NoUrl}
      BY <1>2 DEF Redis!RedisTypeOK
    <3>2. SUFFICES ASSUME ~failed' PROVE
            /\ r # "threw"
            /\ pc[w] = "setnx" /\ r = "false" => NoTtlOnRedis(w) \/ Present(job[w].id)'
      OBVIOUS
    <3>3. r # "threw"
      BY <1>13, <3>1, <3>2, ResultsApart
    <3>4. ASSUME pc[w] = "setnx", r = "false" PROVE NoTtlOnRedis(w) \/ Present(job[w].id)'
      <4>1. ~Redis!Stores(w)
        BY <1>13, <3>2, <3>4
      <4>2. ttl[w] = 0 \/ redis[job[w].id] # NoUrl
        <5>1. call[w].ttl = ttl[w] /\ ttl[w] \in Nat /\ call[w].key = job[w].id
          BY <1>2, <3>4, ResultAssumption
        <5>2. QED BY <4>1, <5>1 DEF Redis!Stores
      <4>3. redis' = redis
        BY <1>7, <4>1
      <4>4. QED BY <1>3, <1>5, <4>2, <4>3 DEF NoTtlOnRedis, Present
    <3>5. QED BY <3>3, <3>4
  <2>6. QED
    BY <1>1, <1>6, <1>9, <1>10, <1>11, <1>13, <2>1, <2>2, <2>3, <2>4, <2>5, NotMemory, FinishKeeps
<1>14. CASE Redis!Replied(w)
  <2>1. CASE pc[w] = "get"
    <3>1. Memory!Finish(w, redis[job[w].id]) /\ redis' = redis
      BY <1>2, <1>4, <1>14, <2>1 DEF Redis!Replied, Redis!Execute, Redis!Finish, Memory!Finish
    <3>2. redis[job[w].id] \in Urls \cup {NoUrl}
      BY <1>2 DEF Redis!RedisTypeOK
    <3>3. QED BY <1>13, <2>1, <3>1, <3>2
  <2>2. CASE pc[w] = "setnx" /\ Redis!Stores(w)
    <3>1. Memory!Finish(w, "true") /\ redis'[job[w].id] = job[w].url
      BY <1>2, <1>4, <1>14, <2>2
      DEF Redis!Replied, Redis!Execute, Redis!Finish, Memory!Finish, Redis!RedisTypeOK
    <3>2. QED BY <1>13, <2>2, <3>1, ResultsApart
  <2>3. CASE pc[w] = "setnx" /\ ~Redis!Stores(w)
    <3>1. Memory!Finish(w, "false")
      BY <1>4, <1>14, <2>3 DEF Redis!Replied, Redis!Finish, Memory!Finish
    <3>2. QED BY <1>13, <2>3, <3>1, ResultsApart
  <2>4. QED BY <1>4, <2>1, <2>2, <2>3
<1>15. CASE Redis!GaveUp(w)
  <2>1. failed' /\ link'[w] = "broken"
    BY <1>15 DEF Redis!GaveUp
  <2>2. CASE pc[w] = "get"
    <3>1. Memory!Finish(w, NoUrl)
      BY <1>4, <1>15, <2>2 DEF Redis!GaveUp, Redis!Finish, Memory!Finish
    <3>2. QED BY <1>13, <2>1, <2>2, <3>1
  <2>3. CASE pc[w] = "setnx"
    <3>1. Memory!Finish(w, "false")
      BY <1>4, <1>15, <2>3 DEF Redis!GaveUp, Redis!Finish, Memory!Finish
    <3>2. QED BY <1>13, <2>1, <3>1, ResultsApart
  <2>4. QED BY <1>2, <2>2, <2>3
<1>16. CASE Redis!Throws(w)
  <2>1. failed' /\ Memory!Finish(w, "threw")
    BY <1>16 DEF Redis!Throws, Redis!Finish, Memory!Finish
  <2>2. QED BY <1>13, <2>1, ResultsApart
<1>17. QED BY <1>12, <1>14, <1>15, <1>16 DEF Redis!Step

-----------------------------------------------------------------------------
\* The steps of MySqlStore.
LEMMA MySqlKeeps ==
    ASSUME IInv, NEW w \in Workers, MySql!Step(w),
           UNCHANGED <<handlerVars, backend, ttl, memoryVars, redisVars, restarts>>
    PROVE  IInv'
<1> USE DEF memoryVars, redisVars, Memory!Key, MySql!Key
<1>1. at[w] \in MySql!Places /\ at[w] # "idle"
  BY DEF MySql!Step, MySql!Select, MySql!Insert, MySql!Throws, MySql!Places
<1>2. /\ Memory!StoreTypeOK(AllPlaces) /\ Calling(w)
      /\ Memory!MemoryTypeOK /\ Redis!RedisTypeOK /\ MySql!MySqlTypeOK /\ RowsHaveUrls
      /\ pc[w] \in {"setnx", "get"} /\ call[w].key = job[w].id /\ job[w].id \in Keys
      /\ pc[w] = "setnx" => call[w].url = job[w].url /\ job[w].url \in Urls
                            /\ call[w].ttl = ttl[w] /\ ttl[w] \in Ttls
      /\ expected[w] # {} => Known(job[w].id)
      /\ NoUrl \notin Urls
  BY <1>1, CallFacts
<1>3. /\ backend = "mysql" /\ backend' = backend
      /\ \A id : Held(id) = mysql[id].url /\ Held(id)' = mysql'[id].url
  BY <1>1, <1>2 DEF Calling, Held
<1>4. (pc[w] = "setnx" /\ at[w] = "insert") \/ (pc[w] = "get" /\ at[w] = "select")
  BY <1>1, <1>2 DEF Calling, MySql!Places
<1>5. job' = job /\ forgotten' = forgotten /\ dropped' = dropped /\ raced' = raced /\ overdue' = overdue
      /\ (failed => failed') /\ call' = call
  BY DEF handlerVars, requestVars, filterVars, MySql!Step, MySql!Select, MySql!Insert, MySql!Throws, MySql!Finish
<1>6. StoreMove(w)
  BY <1>2 DEF StoreMove, MySql!Step, MySql!Select, MySql!Insert, MySql!Throws, MySql!Finish,
     Memory!StoreTypeOK
<1>7. \/ mysql' = mysql
      \/ /\ at[w] = "insert" /\ MySql!Free(job[w].id)
         /\ mysql' = [mysql EXCEPT ![job[w].id] = [url |-> job[w].url, ttl |-> ttl[w]]]
  BY <1>2, <1>4 DEF MySql!Step, MySql!Select, MySql!Insert, MySql!Throws, MySql!Inserted
<1>8. /\ mysql' \in [Keys -> [url : Urls \cup {NoUrl}, ttl : Ttls \cup {0}]]
      /\ \A id \in Keys : \/ mysql'[id] = mysql[id]
                          \/ mysql[id] = MySql!NoRow /\ mysql'[id].url \in Urls
  BY <1>2, <1>4, <1>7 DEF MySql!MySqlTypeOK, MySql!Free
<1>9. Grows
  BY <1>2, <1>3, <1>5, <1>8, StoreGrows DEF MySql!NoRow
<1>10. MySql!MySqlTypeOK'
  <2>1. \A k \in overdue : k \in Keys /\ mysql[k].ttl > 0
    BY <1>2 DEF MySql!MySqlTypeOK
  <2>2. \A k \in Keys : mysql[k] = MySql!NoRow => k \notin overdue
    BY <2>1 DEF MySql!NoRow
  <2>3. \A k \in overdue : mysql'[k].ttl > 0
    BY <1>8, <2>1, <2>2
  <2>4. failed' \in BOOLEAN
    BY <1>2 DEF MySql!MySqlTypeOK, MySql!Step, MySql!Select, MySql!Insert, MySql!Throws
  <2>5. QED BY <1>5, <1>8, <2>1, <2>3, <2>4 DEF MySql!MySqlTypeOK
<1>11. RowsHaveUrls'
  BY <1>2, <1>8 DEF RowsHaveUrls
<1>12. Redis!RedisTypeOK'
  BY <1>2, <1>5, <1>10 DEF Redis!RedisTypeOK, MySql!MySqlTypeOK
<1>13. ASSUME NEW r \in Urls \cup {NoUrl} \cup Memory!Outcomes, Memory!Finish(w, r),
              \/ pc[w] = "get" /\ r \in {NoUrl, mysql[job[w].id].url} /\ mysql' = mysql
                 /\ (r = NoUrl => job[w].id \in overdue \/ mysql[job[w].id].url = NoUrl)
              \/ r \in {"false", "threw"} /\ failed'
              \/ pc[w] = "setnx" /\ r = "true" /\ mysql'[job[w].id].url = job[w].url
              \/ pc[w] = "setnx" /\ r = "false" /\ mysql' = mysql /\ ~MySql!Free(job[w].id)
       PROVE  IInv'
  <2>1. at'[w] # "put"
    BY <1>1, <1>2, <1>13, FinishTypes
  <2>2. pc[w] = "setnx" /\ r = "true" => Leads(job[w].id, job[w].url)'
    BY <1>2, <1>3, <1>5, <1>13 DEF Leads, Present
  <2>3. ASSUME NEW u \in Urls, pc[w] = "get", r = u PROVE Leads(job[w].id, u)'
    BY <1>2, <1>3, <1>5, <1>13, <2>3, ResultsApart DEF Leads, Present
  <2>4. expected[w] # {} /\ pc[w] = "get" /\ r = NoUrl => Lost(w)' \/ link'[w] = "broken"
    BY <1>2, <1>3, <1>5, <1>13, ResultsApart DEF Lost, Known, Present
  <2>5. ~failed' =>
            /\ r # "threw"
            /\ pc[w] = "setnx" /\ r = "false" => NoTtlOnRedis(w) \/ Present(job[w].id)'
    <3>1. mysql[job[w].id].url \in Urls \cup {NoUrl}
      BY <1>2 DEF MySql!MySqlTypeOK
    <3>2. SUFFICES ASSUME ~failed' PROVE
            /\ r # "threw"
            /\ pc[w] = "setnx" /\ r = "false" => NoTtlOnRedis(w) \/ Present(job[w].id)'
      OBVIOUS
    <3>3. r # "threw"
      BY <1>13, <3>1, <3>2, ResultsApart
    <3>4. ASSUME pc[w] = "setnx", r = "false" PROVE Present(job[w].id)'
      <4>1. mysql' = mysql /\ ~MySql!Free(job[w].id)
        BY <1>13, <3>2, <3>4
      <4>2. mysql[job[w].id].url # NoUrl
        BY <1>2, <4>1 DEF RowsHaveUrls, MySql!Free
      <4>3. QED BY <1>3, <1>5, <4>1, <4>2 DEF Present
    <3>5. QED BY <3>3, <3>4
  <2>6. QED
    BY <1>1, <1>6, <1>9, <1>10, <1>11, <1>12, <1>13, <2>1, <2>2, <2>3, <2>4, <2>5, NotMemory, FinishKeeps
<1>14. CASE MySql!Select(w)
  <2> DEFINE r == IF job[w].id \in overdue THEN NoUrl ELSE mysql[job[w].id].url
  <2>1. pc[w] = "get" /\ Memory!Finish(w, r) /\ mysql' = mysql
    BY <1>2, <1>4, <1>14 DEF MySql!Select, MySql!Finish, Memory!Finish
  <2>2. r \in Urls \cup {NoUrl}
    BY <1>2 DEF MySql!MySqlTypeOK
  <2>3. r \in {NoUrl, mysql[job[w].id].url}
        /\ (r = NoUrl => job[w].id \in overdue \/ mysql[job[w].id].url = NoUrl)
    OBVIOUS
  <2> HIDE DEF r
  <2>4. QED BY <1>13, <2>1, <2>2, <2>3
<1>15. CASE MySql!Insert(w)
  <2>1. pc[w] = "setnx"
    BY <1>4, <1>15 DEF MySql!Insert
  <2>2. CASE MySql!Free(job[w].id)
    <3>1. Memory!Finish(w, "true") /\ mysql'[job[w].id].url = job[w].url
      BY <1>2, <1>15, <2>1, <2>2
      DEF MySql!Insert, MySql!Inserted, MySql!Finish, Memory!Finish, MySql!MySqlTypeOK
    <3>2. QED BY <1>13, <2>1, <3>1, ResultsApart
  <2>3. CASE ~MySql!Free(job[w].id)
    <3>1. Memory!Finish(w, "false") /\ mysql' = mysql
      BY <1>2, <1>15, <2>3 DEF MySql!Insert, MySql!Finish, Memory!Finish
    <3>2. QED BY <1>13, <2>1, <2>3, <3>1, ResultsApart
  <2>4. QED BY <2>2, <2>3
<1>16. CASE MySql!Throws(w)
  <2> DEFINE r == IF at[w] = "insert" THEN "false" ELSE "threw"
  <2>1. failed' /\ Memory!Finish(w, r) /\ r \in {"false", "threw"}
    BY <1>16 DEF MySql!Throws, MySql!Finish, Memory!Finish
  <2> HIDE DEF r
  <2>2. QED BY <1>13, <2>1, ResultsApart
<1>17. QED BY <1>14, <1>15, <1>16 DEF MySql!Step

-----------------------------------------------------------------------------
\* Time passes for an entry or a row: no worker moves.
LEMMA ExpireKeeps ==
    ASSUME IInv, NEW id \in Keys, Expire(id)
    PROVE  IInv'
<1> USE DEF memoryVars, redisVars, mysqlVars
<1>1. /\ Memory!MemoryTypeOK /\ Redis!RedisTypeOK /\ MySql!MySqlTypeOK /\ RowsHaveUrls
      /\ Memory!StoreTypeOK(AllPlaces) /\ Chosen
  BY DEF IInv, TypeOK, AllPlaces
<1>2. UNCHANGED <<handlerVars, backend, ttl, restarts, kv, raced, call, at, res, link, failed>>
  BY DEF Expire, Redis!Drop, MySql!RunOut, Redis!storeCallVars, MySql!storeCallVars
<1>3. /\ mysql' = mysql
      /\ \/ redis' = redis /\ dropped' = dropped
         \/ redis' = [redis EXCEPT ![id] = NoUrl] /\ dropped' = dropped \cup {id}
      /\ \/ overdue' = overdue
         \/ overdue' = overdue \cup {id} /\ mysql[id].ttl > 0
  BY DEF Expire, Redis!Drop, MySql!RunOut
<1>4. Grows
  <2>1. \A k \in Keys : redis'[k] = redis[k] \/ k \in dropped'
    BY <1>1, <1>3 DEF Redis!RedisTypeOK
  <2>2. \A k \in Keys : Held(k)' = Held(k) \/ k \in dropped'
    BY <1>2, <1>3, <2>1 DEF Held
  <2>3. dropped \subseteq dropped' /\ overdue \subseteq overdue'
    BY <1>3
  <2>4. QED BY <1>2, <2>2, <2>3, HandlerAssumption, StoreGrows
<1>5. \A v \in Workers : LeftAlone(v)
  BY <1>2 DEF LeftAlone, Untouched, handlerVars, requestVars, filterVars
<1>6. \A v \in Workers : WorkerInv(v)'
  BY <1>4, <1>5, OthersKept
<1>7. \A v \in Workers : Lonely(v)'
  BY <1>2 DEF IInv, Lonely, Memory!Key
<1>8. HandlerInv' /\ FilterInv'
  BY <1>2, HandlersStand DEF IInv
<1>9. AckedLead'
  <2>1. acked' = acked /\ acked \in [Keys -> SUBSET Urls]
    BY <1>2 DEF handlerVars, IInv, HandlerInv, HandlerTypeOK
  <2>2. QED BY <1>4, <2>1 DEF IInv, AckedLead, Grows
<1>10. RowsHaveUrls'
  BY <1>1, <1>3 DEF RowsHaveUrls
<1>11. Chosen'
  BY <1>1, <1>2 DEF Chosen
<1>12. TypeOK'
  <2>1. Memory!StoreTypeOK(AllPlaces)' /\ Memory!MemoryTypeOK'
    BY <1>1, <1>2 DEF Memory!StoreTypeOK, Memory!MemoryTypeOK
  <2>2. Redis!RedisTypeOK'
    BY <1>1, <1>2, <1>3 DEF Redis!RedisTypeOK
  <2>3. MySql!MySqlTypeOK'
    BY <1>1, <1>2, <1>3 DEF MySql!MySqlTypeOK
  <2>4. \A v \in Workers : at'[v] # "idle" <=> pc'[v] \in {"setnx", "get"}
    BY <1>2 DEF IInv, TypeOK, handlerVars, requestVars
  <2>5. QED BY <1>8, <1>11, <2>1, <2>2, <2>3, <2>4 DEF TypeOK, HandlerInv, AllPlaces, Chosen
<1>13. QED BY <1>6, <1>7, <1>8, <1>9, <1>10, <1>11, <1>12 DEF IInv

-----------------------------------------------------------------------------
LEMMA InitInv == Init => IInv
<1> SUFFICES ASSUME Init PROVE IInv
  OBVIOUS
<1> USE DEF Init, Memory!MemoryInit, Redis!RedisInit, MySql!MySqlInit, Memory!StoreInit
<1>1. HandlerInv /\ FilterInv
  BY HandlerInitInv, FilterInitInv
<1>2. /\ \A w \in Workers : /\ pc[w] = "idle" /\ at[w] = "idle" /\ call[w] = Memory!NoCall
                             /\ res[w] = "none"
      /\ \A id \in Keys : acked[id] = {}
  BY DEF HandlerInit
<1>3. Memory!StoreTypeOK(AllPlaces)
  BY DEF Memory!StoreTypeOK, Memory!Outcomes
<1>4. Memory!MemoryTypeOK /\ Redis!RedisTypeOK /\ MySql!MySqlTypeOK /\ RowsHaveUrls
  BY DEF Memory!MemoryTypeOK, Redis!RedisTypeOK, MySql!MySqlTypeOK, RowsHaveUrls, MySql!NoRow
<1>5. TypeOK
  BY <1>1, <1>2, <1>3, <1>4 DEF TypeOK, HandlerInv, AllPlaces
<1>6. Chosen
  BY ResultAssumption DEF Chosen
<1>7. AckedLead
  BY <1>2 DEF AckedLead
<1>8. ASSUME NEW w \in Workers PROVE WorkerInv(w) /\ Lonely(w)
  BY <1>2 DEF WorkerInv, Calling, Claiming, Claims, Finding, Missing, Failing, Lonely, Returned,
     Shortened, Answers301, Answers404, Answers500, Memory!Places, Redis!Places, MySql!Places
<1>9. QED BY <1>1, <1>4, <1>5, <1>6, <1>7, <1>8 DEF IInv

LEMMA WorkKeeps ==
    ASSUME IInv, NEW w \in Workers, Work(w)
    PROVE  IInv'
<1>1. UNCHANGED <<backend, restarts>> /\ ttl' = [ttl EXCEPT ![w] = IF pc[w] = "reply" THEN 0 ELSE @]
  BY DEF Work
<1>2. pc[w] # "reply" => ttl' = ttl
  BY <1>1, InvFacts DEF Chosen
<1>3. CASE Compute(w) /\ UNCHANGED storeVars
  BY <1>1, <1>3, ComputeKeeps
<1>4. ASSUME NEW id \in Ids[backend], Draw(w, id), Invoke(w, SetNX(w, id)) PROVE IInv'
  BY <1>1, <1>2, <1>4, AskKeeps DEF Draw
<1>5. CASE BloomHit(w) /\ Invoke(w, Get(w))
  BY <1>1, <1>2, <1>5, LookUpKeeps DEF BloomHit
<1>6. CASE Memory!Step(w) /\ UNCHANGED <<handlerVars, redisVars, mysqlVars, failed>>
  <2>1. at[w] # "idle"
    BY <1>6 DEF Memory!Step, Memory!Lookup, Memory!Check, Memory!Put
  <2>2. ttl' = ttl
    BY <1>2, <2>1, CallFacts
  <2>3. QED BY <1>1, <1>6, <2>2, MemoryKeeps
<1>7. CASE /\ Claimed(w, res[w]) \/ Found(w, res[w])
           /\ Memory!Return(w)
           /\ UNCHANGED <<memoryVars, redisVars, mysqlVars, failed>>
  BY <1>1, <1>2, <1>7, TakeKeeps DEF Claimed, Found
<1>8. QED BY <1>3, <1>4, <1>5, <1>6, <1>7 DEF Work

LEMMA AwaitKeeps ==
    ASSUME IInv, NEW w \in Workers, Await(w)
    PROVE  IInv'
BY RedisKeeps, MySqlKeeps DEF Await

\* A restart leaves no request and no call; what it loses was given out before.
LEMMA RestartKeeps ==
    ASSUME IInv, Restart
    PROVE  IInv'
<1> USE DEF Restart, Memory!CallsEnd
<1>1. /\ Memory!MemoryTypeOK /\ Redis!RedisTypeOK /\ MySql!MySqlTypeOK /\ RowsHaveUrls
      /\ Chosen /\ HandlerInv /\ AckedLead
  BY DEF IInv, TypeOK
<1>2. HandlerInv' /\ FilterInv'
  BY <1>1, StartKeeps
<1>3. UNCHANGED <<backend, raced, redis, dropped, mysql, overdue, failed, acked>>
  BY DEF mysqlVars, StartAnew
<1>4. \A w \in Workers : pc'[w] = "idle" /\ at'[w] = "idle" /\ answer'[w] = NoAnswer
                         /\ expected'[w] = {}
  BY DEF StartAnew
<1>5. Memory!StoreTypeOK(AllPlaces)'
  BY DEF Memory!StoreTypeOK, Memory!Outcomes
<1>6. Memory!MemoryTypeOK' /\ Redis!RedisTypeOK' /\ MySql!MySqlTypeOK' /\ RowsHaveUrls'
  BY <1>1, <1>3 DEF Memory!MemoryTypeOK, Redis!RedisTypeOK, MySql!MySqlTypeOK, RowsHaveUrls
<1>7. Chosen'
  BY <1>1, <1>3, ResultAssumption DEF Chosen
<1>8. TypeOK'
  BY <1>2, <1>4, <1>5, <1>6, <1>7 DEF TypeOK, HandlerInv, AllPlaces, Chosen
<1>9. AckedLead'
  <2>1. SUFFICES ASSUME NEW id \in Keys, NEW u \in acked'[id] PROVE Leads(id, u)'
    BY DEF AckedLead
  <2>2. u \in acked[id] /\ Leads(id, u)
    BY <1>1, <1>3 DEF AckedLead
  <2>3. CASE backend = "memory"
    BY <1>3, <2>2, <2>3 DEF StartAnew, Gone, Leads
  <2>4. CASE backend # "memory"
    <3>1. Held(id)' = Held(id)
      <4>1. backend \in {"redis", "mysql"}
        BY <1>1, <2>4, BackendAssumption DEF Chosen
      <4>2. CASE backend = "redis"
        BY <1>3, <4>2 DEF Held
      <4>3. CASE backend = "mysql"
        BY <1>3, <4>3 DEF Held
      <4>4. QED BY <4>1, <4>2, <4>3
    <3>2. id \notin Gone
      BY <2>4 DEF Gone
    <3>3. Present(id)' = Present(id)
      BY <1>3, <3>1 DEF Present
    <3>4. QED BY <1>3, <2>2, <3>1, <3>2, <3>3 DEF Leads
  <2>5. QED BY <2>3, <2>4
<1>10. ASSUME NEW w \in Workers PROVE WorkerInv(w)' /\ Lonely(w)'
  BY <1>4 DEF WorkerInv, Calling, Claiming, Claims, Finding, Missing, Failing, Lonely, Returned,
     Shortened, Answers301, Answers404, Answers500, Memory!Places, Redis!Places, MySql!Places
<1>11. QED BY <1>2, <1>6, <1>7, <1>8, <1>9, <1>10 DEF IInv

LEMMA StutterKeeps ==
    ASSUME IInv, UNCHANGED vars
    PROVE  IInv'
<1> USE DEF vars, storeVars, handlerVars, requestVars, filterVars
<1>1. HandlerInv' /\ FilterInv'
  BY HandlersStand DEF IInv
<1>2. Grows
  BY HandlerAssumption, StoreGrows DEF Held
<1>3. \A v \in Workers : WorkerInv(v)'
  BY <1>2, OthersKept DEF LeftAlone, Untouched
<1>4. (\A v \in Workers : Lonely(v)') /\ Chosen' /\ RowsHaveUrls'
  BY DEF IInv, Lonely, Memory!Key, Chosen, RowsHaveUrls
<1>5. AckedLead'
  <2>1. acked \in [Keys -> SUBSET Urls]
    BY DEF IInv, HandlerInv, HandlerTypeOK
  <2>2. QED BY <1>2, <2>1 DEF IInv, AckedLead, Grows
<1>6. TypeOK'
  BY <1>1 DEF IInv, TypeOK, HandlerInv, Memory!StoreTypeOK, Memory!MemoryTypeOK, Redis!RedisTypeOK,
     MySql!MySqlTypeOK
<1>7. QED BY <1>1, <1>3, <1>4, <1>5, <1>6 DEF IInv

\* The invariant is inductive: it holds at start-up and every step of a worker,
\* of a server or of time and every restart keeps it, on each of the three stores.
THEOREM Invariant == Spec => []IInv
<1>1. Init => IInv
  BY InitInv
<1>2. IInv /\ [Next]_vars => IInv'
  <2> SUFFICES ASSUME IInv, [Next]_vars PROVE IInv'
    OBVIOUS
  <2>1. ASSUME NEW w \in Workers, Arrive(w) \/ Work(w) \/ Await(w) PROVE IInv'
    BY <2>1, ArriveKeeps, WorkKeeps, AwaitKeeps
  <2>2. CASE \E id \in Keys : Expire(id)
    BY <2>2, ExpireKeeps
  <2>3. CASE Restart
    BY <2>3, RestartKeeps
  <2>4. CASE UNCHANGED vars
    BY <2>4, StutterKeeps
  <2>5. QED BY <2>1, <2>2, <2>3, <2>4 DEF Next
<1>3. QED BY <1>1, <1>2, PTL DEF Spec

\* Types, and: the store is in a call exactly while a handler waits for it
\* (IStore's calls by ShortenHandler and RedirectHandler).
THEOREM TypeCorrect == Spec => []TypeOK
<1>1. IInv => TypeOK
  BY DEF IInv
<1>2. QED BY <1>1, Invariant, PTL

\* An id given out stays stored with its url, whatever commands and statements
\* fail or are sent twice, but for setNX's race in memory, Redis' own drops and
\* the end of the program that held the id in memory.
THEOREM AckedStay == Spec => []AckedStored
<1>1. IInv => AckedStored
  BY DEF IInv, AckedLead, Leads, AckedStored
<1>2. QED BY <1>1, Invariant, PTL

\* RedirectHandler answers 404 for an id given out only for one of the reasons that
\* AckedIdRedirects names: expiry, a restart since, bits lost to a race in the
\* filter, or a command to Redis without a reply.
THEOREM RedirectsUnlessLost == Spec => []AckedIdRedirects
<1>1. IInv => AckedIdRedirects
  BY DEF IInv, WorkerInv, Missing, Lost, AllIn, AckedIdRedirects
<1>2. QED BY <1>1, Invariant, PTL

\* RedirectHandler leads to no other url than the id was given out for, with
\* the exceptions of AckedStored.
THEOREM RedirectsAreTrue == Spec => []RedirectTrue
<1>1. ASSUME IInv PROVE RedirectTrue
  <2> SUFFICES ASSUME NEW w \in Workers, Answers301(w), job[w].id \notin raced \cup dropped \cup Gone,
                      NEW u \in expected[w]
               PROVE  u = answer[w].url
    BY DEF RedirectTrue
  <2>1. Expecting(w) /\ Finding(w) /\ AckedLead
    BY <1>1, InvFacts DEF IInv
  <2>2. job[w].id \in Keys /\ Held(job[w].id) = answer[w].url
    BY <2>1 DEF Finding, Leads
  <2>3. u \in acked[job[w].id]
    BY <2>1 DEF Expecting
  <2>4. Held(job[w].id) = u
    BY <2>1, <2>2, <2>3 DEF AckedLead, Leads
  <2>5. QED BY <2>2, <2>4
<1>2. QED BY <1>1, Invariant, PTL

\* While nothing fails, ShortenHandler answers 500 only after its last draw, or
\* for want of a ttl on Redis (RedisStore::setNX).
THEOREM FailuresHaveCauses == Spec => []FailsForCause
<1>1. IInv => FailsForCause
  BY DEF IInv, WorkerInv, Failing, NoTtlOnRedis, Present, FailsForCause
<1>2. QED BY <1>1, Invariant, PTL
=============================================================================
