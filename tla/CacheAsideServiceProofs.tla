---------------------- MODULE CacheAsideServiceProofs ----------------------
(* Theorems about CacheAsideService, for all values of its constants.  What *)
(* CacheAsideProofs proves of the store by itself holds in the service too: *)
(* every step but a restart is a step of the store or leaves it alone.      *)
EXTENDS CacheAsideService, UrlHandlersProofs

Aside == INSTANCE CacheAsideProofs

\* The call that each handler is in, and how far it can be.
Calling(w) ==
    /\ pc[w] = "setnx" =>
          /\ call[w].op = "setNX" /\ call[w].key = job[w].id /\ call[w].url = job[w].url
          /\ at[w] \in {"insert", "redisSet", "done"}
    /\ pc[w] = "get" =>
          /\ call[w] = Get(w)
          /\ at[w] \in {"redisGet", "select", "redisSet", "done"}
    /\ pc[w] \notin {"setnx", "get"} => at[w] = "idle"

Returned(w, r) == at[w] = "done" /\ res[w] = r

\* The id has a row, with the url u.
Leads(id, u) == mysql[id].url = u

\* An id that setNX has granted, or is about to grant, has the row it was
\* granted for.
Claims(w) ==
    \/ pc[w] = "setnx" /\ (at[w] = "redisSet" \/ Returned(w, "true"))
    \/ pc[w] \in {"load", "store"}
    \/ Shortened(w)
Claiming(w) == Claims(w) => Leads(job[w].id, job[w].url)

\* What get has found, in Redis or in MySQL, is in the row.
Finding(w) ==
    /\ \A u \in Urls : pc[w] = "get" /\ Returned(w, u) => Leads(job[w].id, u)
    /\ Answers301(w) =>
          job[w].id \in Keys /\ answer[w].url \in Urls /\ Leads(job[w].id, answer[w].url)

\* Why get finds nothing, and why a request is answered 404.
Overdue(id) == Aside!Expired(mysql[id])
Missing(w) ==
    expected[w] # {} =>
        /\ pc[w] = "get" /\ Returned(w, NoUrl) => Overdue(job[w].id)
        /\ Answers404(w) => Overdue(job[w].id) \/ job[w].id \in forgotten \/ Torn(job[w].id)

WorkerInv(w) == Calling(w) /\ Claiming(w) /\ Finding(w) /\ Missing(w)

AckedLead == \A id \in Keys : \A u \in acked[id] : Leads(id, u)

IInv ==
    /\ Aside!IInv /\ touched = {}
    /\ restarts \in Nat
    /\ HandlerInv /\ FilterInv
    /\ AckedLead
    /\ \A w \in Workers : WorkerInv(w)

-----------------------------------------------------------------------------
\* The names of CacheAsideStore, as the service and as its proofs know them.
LEMMA AsideAssumptions ==
    Aside!TtlAssumption /\ Aside!UrlAssumption /\ Aside!CacheAsideAssumption
BY ServiceAssumption, HandlerAssumption
DEF Aside!TtlAssumption, Aside!UrlAssumption, Aside!CacheAsideAssumption,
    Store!TtlAssumption, Store!CacheAsideAssumption

LEMMA SameConstants ==
    /\ Store!NoCall = Aside!NoCall /\ Store!NoRow = Aside!NoRow /\ Store!NoEntry = Aside!NoEntry
    /\ \A row : Store!Expired(row) <=> Aside!Expired(row)
    /\ Aside!Outcomes \cap (Urls \cup {NoUrl}) = {}
BY ServiceAssumption
DEF Store!NoCall, Aside!NoCall, Store!NoRow, Aside!NoRow, Store!NoEntry, Aside!NoEntry,
    Store!Expired, Aside!Expired, Store!Outcomes, Aside!Outcomes

LEMMA SameInit == Store!Init => Aside!Init
BY DEF Store!Init, Aside!Init, Store!StoreInit, Aside!StoreInit, Store!NoCall, Aside!NoCall,
   Store!NoRow, Aside!NoRow, Store!NoEntry, Aside!NoEntry

LEMMA SameSteps ==
    ASSUME NEW w \in Workers
    PROVE  /\ Store!Step(w) => Aside!Step(w)
           /\ Store!Deliver(w) => Aside!Deliver(w)
           /\ \A c : Store!Invoke(w, c) => Aside!Invoke(w, c)
<1> USE DEF Store!Step, Aside!Step, Store!Deliver, Aside!Deliver, Store!Invoke, Aside!Invoke,
    Store!Begin, Aside!Begin, Store!Proceed, Aside!Proceed, Store!Finish, Aside!Finish,
    Store!Return, Aside!Return, Store!Entry, Aside!Entry, Store!serverVars, Aside!serverVars,
    Store!storeCallVars, Aside!storeCallVars, Store!NoCall, Aside!NoCall,
    Store!NoRow, Aside!NoRow, Store!NoEntry, Aside!NoEntry, Store!Fault, Aside!Fault,
    Store!Key, Aside!Key, Store!HasRow, Aside!HasRow, Store!Expired, Aside!Expired,
    Store!Value, Aside!Value, Store!Life, Aside!Life, Store!Stored, Aside!Stored,
    Store!Execute, Aside!Execute, Store!Conclude, Aside!Conclude,
    Store!RedisPlaces, Aside!RedisPlaces, Store!SqlPlaces, Aside!SqlPlaces,
    Store!Row, Aside!Row, Store!PutRow, Aside!PutRow, Store!MayInsert, Aside!MayInsert,
    Store!Effect, Aside!Effect
<1>1. /\ Store!RedisReply(w) => Aside!RedisReply(w)
      /\ Store!RedisNoReply(w) => Aside!RedisNoReply(w)
      /\ Store!RedisNull(w) => Aside!RedisNull(w)
      /\ Store!RedisThrows(w) => Aside!RedisThrows(w)
  BY DEF Store!RedisReply, Aside!RedisReply, Store!RedisNoReply, Aside!RedisNoReply,
     Store!RedisNull, Aside!RedisNull, Store!RedisThrows, Aside!RedisThrows
<1>2. /\ Store!Select(w) => Aside!Select(w)
      /\ Store!Insert(w) => Aside!Insert(w)
      /\ Store!Replace(w) => Aside!Replace(w)
      /\ Store!Delete(w) => Aside!Delete(w)
      /\ Store!SqlThrows(w) => Aside!SqlThrows(w)
  BY DEF Store!Select, Aside!Select, Store!Insert, Aside!Insert, Store!Replace, Aside!Replace,
     Store!Delete, Aside!Delete, Store!SqlThrows, Aside!SqlThrows
<1>3. Store!Step(w) => Aside!Step(w)
  BY <1>1, <1>2
<1>4. Store!Deliver(w) => Aside!Deliver(w)
  OBVIOUS
<1>5. \A c : Store!Invoke(w, c) => Aside!Invoke(w, c)
  OBVIOUS
<1>6. QED BY <1>3, <1>4, <1>5

LEMMA SameServers ==
    /\ \A id \in Keys : Store!Evict(id) => Aside!Evict(id)
    /\ Store!Tick => Aside!Tick
BY DEF Store!Evict, Aside!Evict, Store!Tick, Aside!Tick, Store!NoEntry, Aside!NoEntry,
   Store!storeCallVars, Aside!storeCallVars, Store!Running, Aside!Running

LEMMA StoreKeeps ==
    ASSUME Aside!IInv, [Aside!Next]_Aside!vars
    PROVE  Aside!IInv'
BY Aside!InvStep, AsideAssumptions

-----------------------------------------------------------------------------
\* What no step takes back: rows, their age, and the damage to the filter.
Grows ==
    /\ restarts' = restarts /\ forgotten' = forgotten
    /\ torn \subseteq torn'
    /\ \A id \in Keys : mysql[id].url # NoUrl => mysql'[id] = mysql[id]
    /\ \A id \in Keys : Overdue(id) => Overdue(id)'

\* Nothing that belongs to worker v changes, in the handler or in the store.
LeftAlone(v) ==
    /\ Untouched(v)
    /\ call'[v] = call[v] /\ at'[v] = at[v] /\ res'[v] = res[v]

LEMMA InvFacts ==
    ASSUME IInv, NEW w \in Workers
    PROVE  /\ Aside!IInv /\ Aside!TypeOK /\ Aside!StoreTypeOK(Aside!Places)
           /\ HandlerTypeOK /\ Placed(w) /\ Expecting(w)
           /\ Calling(w) /\ Claiming(w) /\ Finding(w) /\ Missing(w)
           /\ pc[w] = "setnx" \/ pc[w] = "get" <=> at[w] # "idle"
           /\ \A id \in Keys, u \in Urls : Leads(id, u) => mysql[id].url # NoUrl
<1>1. /\ Aside!IInv /\ Aside!TypeOK /\ Aside!StoreTypeOK(Aside!Places)
      /\ HandlerTypeOK /\ Placed(w) /\ Expecting(w)
      /\ Calling(w) /\ Claiming(w) /\ Finding(w) /\ Missing(w)
  BY DEF IInv, HandlerInv, WorkerInv, Aside!IInv, Aside!TypeOK
<1>2. (pc[w] = "setnx" \/ pc[w] = "get") <=> at[w] # "idle"
  BY <1>1 DEF Calling
<1>3. \A id \in Keys, u \in Urls : Leads(id, u) => mysql[id].url # NoUrl
  BY HandlerAssumption DEF Leads
<1>4. QED BY <1>1, <1>2, <1>3

LEMMA OthersKept ==
    ASSUME IInv, NEW v \in Workers, LeftAlone(v), Grows
    PROVE  WorkerInv(v)'
<1>1. /\ Calling(v) /\ Claiming(v) /\ Finding(v) /\ Missing(v) /\ Placed(v) /\ Expecting(v)
      /\ \A id \in Keys, u \in Urls : Leads(id, u) => mysql[id].url # NoUrl
  BY InvFacts
<1>2. \A id \in Keys, u \in Urls : Leads(id, u) => Leads(id, u)'
  BY <1>1 DEF Leads, Grows
<1>3. Calling(v)'
  BY <1>1 DEF Calling, LeftAlone, Untouched, Get
<1>4. Claims(v)' => Claims(v) /\ job[v].url \in Urls /\ job[v].id \in Keys
  BY <1>1 DEF LeftAlone, Untouched, Claims, Returned, Shortened, Placed
<1>5. Claiming(v)'
  BY <1>1, <1>2, <1>4 DEF Claiming, LeftAlone, Untouched, Leads
<1>6. Finding(v)'
  <2>1. pc[v] = "get" => job[v].id \in Keys
    BY <1>1 DEF Placed
  <2>2. QED BY <1>1, <1>2, <2>1 DEF Finding, Returned, Answers301, LeftAlone, Untouched, Leads
<1>7. Missing(v)'
  <2>1. expected[v] # {} /\ Overdue(job[v].id) => Overdue(job[v].id)'
    BY <1>1 DEF Expecting, LeftAlone, Untouched, Grows, Overdue
  <2>2. Torn(job[v].id) => Torn(job[v].id)'
    BY DEF Torn, LeftAlone, Untouched, Grows
  <2>3. QED BY <1>1, <2>1, <2>2 DEF Missing, Returned, Answers404, LeftAlone, Untouched, Grows
<1>8. QED BY <1>3, <1>5, <1>6, <1>7 DEF WorkerInv

\* A step of a handler, with what the store does at most meanwhile.
HandlerMove(w) ==
    /\ HandlerStep(w)
    /\ UNCHANGED <<now, redis, mysql, touched, restarts>>
    /\ \A v \in Workers \ {w} : call'[v] = call[v] /\ at'[v] = at[v] /\ res'[v] = res[v]

LEMMA HandlerMoves ==
    ASSUME IInv, NEW w \in Workers, HandlerMove(w), Aside!IInv', WorkerInv(w)'
    PROVE  IInv'
<1> USE DEF HandlerMove
<1>1. HandlerInv /\ HandlerTypeOK /\ restarts \in Nat
  BY DEF IInv, HandlerInv
<1>2. HandlerInv'
  BY <1>1, HandlerStepKeeps
<1>3. FilterInv'
  BY <1>1, FilterStepKeeps DEF IInv
<1>4. Grows
  <2>1. torn \subseteq torn'
    <3>1. CASE BloomLoad(w)
      BY <3>1 DEF BloomLoad
    <3>2. CASE BloomStore(w)
      BY <3>2 DEF BloomStore
    <3>3. CASE ~BloomLoad(w) /\ ~BloomStore(w)
      BY <1>1, <3>3, FilterQuiet DEF filterVars
    <3>4. QED BY <3>1, <3>2, <3>3
  <2>2. forgotten' = forgotten
    BY ForgottenStays
  <2>3. QED BY <2>1, <2>2 DEF Grows, Overdue, Aside!Expired
<1>5. ASSUME NEW v \in Workers \ {w} PROVE WorkerInv(v)'
  <2>1. LeftAlone(v)
    BY <1>1, <1>5, OthersUntouched DEF LeftAlone
  <2>2. QED BY <1>4, <2>1, OthersKept
<1>6. AckedLead'
  <2>1. SUFFICES ASSUME NEW id \in Keys, NEW u \in acked'[id] PROVE Leads(id, u)
    BY DEF AckedLead, Leads
  <2>2. CASE u \in acked[id]
    BY <2>2 DEF IInv, AckedLead
  <2>3. CASE u \notin acked[id]
    <3>1. Send(w)
      BY <2>3 DEF HandlerStep, Shorten, ShortenInvalid, Draw, Claimed, BloomLoad,
         BloomStore, Redirect, BloomMiss, BloomPass, BloomHit, Found
    <3>2. Shortened(w) /\ job[w].id = id /\ job[w].url = u
      BY <1>1, <2>3, <3>1 DEF HandlerTypeOK, Send, Shortened
    <3>3. QED BY <3>2 DEF IInv, WorkerInv, Claiming, Claims
  <2>4. QED BY <2>2, <2>3
<1>7. touched' = {}
  BY DEF IInv
<1>8. QED BY <1>1, <1>2, <1>3, <1>5, <1>6, <1>7 DEF IInv

\* A step that leaves the handlers alone and takes nothing back.
LEMMA StoreMoves ==
    ASSUME IInv, UNCHANGED <<handlerVars, touched>>, Grows, Aside!IInv',
           \A v \in Workers : LeftAlone(v) \/ WorkerInv(v)'
    PROVE  IInv'
<1>1. HandlerInv' /\ FilterInv'
  <2>1. (HandlerInv => HandlerInv') /\ (FilterInv => FilterInv')
    BY HandlersStand
  <2>2. QED BY <2>1 DEF IInv, Grows
<1>2. \A v \in Workers : WorkerInv(v)'
  BY OthersKept
<1>3. AckedLead'
  <2>1. acked' = acked /\ acked \in [Keys -> SUBSET Urls]
    BY DEF handlerVars, IInv, HandlerInv, HandlerTypeOK
  <2>2. QED BY <2>1, HandlerAssumption DEF IInv, AckedLead, Grows, Leads
<1>4. QED BY <1>1, <1>2, <1>3 DEF IInv, Grows

-----------------------------------------------------------------------------
LEMMA StoreStands ==
    ASSUME Aside!IInv, UNCHANGED storeVars
    PROVE  Aside!IInv'
BY StoreKeeps DEF storeVars, Aside!vars, Aside!storeCallVars

\* A worker outside of a call.
LEMMA OutsideInv ==
    ASSUME NEW w \in Workers, at'[w] = "idle", pc'[w] \notin {"setnx", "get"},
           pc'[w] \in {"load", "store"} \/ Shortened(w)' => Leads(job[w].id, job[w].url)',
           Answers301(w)' => Finding(w)', Answers404(w)' => Missing(w)'
    PROVE  WorkerInv(w)'
<1>1. Calling(w)'
  BY DEF Calling
<1>2. Claiming(w)'
  BY DEF Claiming, Claims
<1>3. Finding(w)'
  BY DEF Finding
<1>4. Missing(w)'
  BY DEF Missing
<1>5. QED BY <1>1, <1>2, <1>3, <1>4 DEF WorkerInv

LEMMA RequestKeeps ==
    ASSUME IInv, NEW w \in Workers, Request(w), UNCHANGED <<storeVars, restarts>>
    PROVE  IInv'
<1>1. HandlerTypeOK /\ (pc[w] = "setnx" \/ pc[w] = "get" <=> at[w] # "idle") /\ Aside!IInv
  BY InvFacts
<1>2. HandlerStep(w) /\ pc[w] = "idle"
  BY DEF Request, HandlerStep, Shorten, ShortenInvalid, Redirect
<1>3. Aside!IInv'
  BY <1>1, StoreStands
<1>4. HandlerMove(w)
  BY <1>2 DEF HandlerMove, storeVars
<1>5. pc'[w] \in {"draw", "probe"} \/ (pc'[w] = "reply" /\ answer'[w].status = 400)
  <2>1. ASSUME NEW url \in Urls, Shorten(w, url) PROVE pc'[w] = "draw"
    BY <1>1, <2>1 DEF HandlerTypeOK, Shorten
  <2>2. ASSUME NEW id \in Keys, Redirect(w, id) PROVE pc'[w] = "probe"
    BY <1>1, <2>2 DEF HandlerTypeOK, Redirect
  <2>3. CASE ShortenInvalid(w)
    BY <1>1, <2>3, Responds DEF ShortenInvalid
  <2>4. QED BY <2>1, <2>2, <2>3 DEF Request
<1>6. at'[w] = "idle"
  BY <1>1, <1>2 DEF storeVars
<1>7. WorkerInv(w)'
  BY <1>5, <1>6, OutsideInv DEF Shortened, Answers301, Answers404
<1>8. QED BY <1>3, <1>4, <1>7, HandlerMoves

LEMMA ComputeKeeps ==
    ASSUME IInv, NEW w \in Workers, Compute(w), UNCHANGED <<storeVars, restarts>>
    PROVE  IInv'
<1>1. /\ HandlerTypeOK /\ (pc[w] = "setnx" \/ pc[w] = "get" <=> at[w] # "idle") /\ Aside!IInv
      /\ Placed(w) /\ Expecting(w) /\ Claiming(w)
  BY InvFacts
<1>2. HandlerStep(w) /\ pc[w] \in {"load", "store", "probe", "reply"}
  BY DEF Compute, HandlerStep, BloomLoad, BloomStore, BloomMiss, BloomPass, Send
<1>3. Aside!IInv' /\ mysql' = mysql /\ at' = at /\ now' = now /\ restarts' = restarts
  BY <1>1, StoreStands DEF storeVars
<1>4. HandlerMove(w)
  BY <1>2 DEF HandlerMove, storeVars
<1>5. at'[w] = "idle"
  BY <1>1, <1>2, <1>3
<1>6. CASE BloomLoad(w) \/ BloomStore(w)
  <2>1. Leads(job[w].id, job[w].url)'
    BY <1>1, <1>3, <1>6 DEF BloomLoad, BloomStore, Claiming, Claims, Leads
  <2>2. pc'[w] \in {"load", "store"} \/ (pc'[w] = "reply" /\ answer'[w].status = 200)
    <3>1. CASE Respond(w, 200, NoUrl)
      BY <1>1, <3>1, Responds
    <3>2. CASE pc' = [pc EXCEPT ![w] = "store"] \/ pc' = [pc EXCEPT ![w] = "load"]
      <4>1. pc \in [Workers -> Pcs]
        BY <1>1 DEF HandlerTypeOK
      <4>2. QED BY <3>2, <4>1
    <3>3. \/ pc' = [pc EXCEPT ![w] = "store"] \/ pc' = [pc EXCEPT ![w] = "load"]
          \/ Respond(w, 200, NoUrl)
      BY <1>6, Zenon DEF BloomLoad, BloomStore
    <3>4. QED BY <3>1, <3>2, <3>3
  <2>3. WorkerInv(w)'
    BY <1>5, <2>1, <2>2, OutsideInv DEF Answers301, Answers404
  <2>4. QED BY <1>3, <1>4, <2>3, HandlerMoves
<1>7. CASE BloomMiss(w)
  <2>1. pc'[w] = "reply" /\ answer'[w].status = 404 /\ UNCHANGED <<job, expected, filterVars>>
    BY <1>1, <1>7, Responds DEF BloomMiss
  <2>2. expected[w] # {} => job[w].id \in forgotten \/ Torn(job[w].id)
    <3>1. SUFFICES ASSUME expected[w] # {}, job[w].id \notin forgotten PROVE Torn(job[w].id)
      BY DEF IInv
    <3>2. job[w].id \in Keys /\ acked[job[w].id] # {}
      BY <1>1, <3>1 DEF Expecting, HandlerTypeOK
    <3>3. Marked(job[w].id, Len(Probes[job[w].id]))
      BY <3>1, <3>2 DEF IInv, FilterInv, AckedMarked
    <3>4. probe[w] \in 1 .. Len(Probes[job[w].id]) /\ Bit(w) \notin bloom
      BY <1>1, <1>7 DEF BloomMiss, Placed
    <3>5. QED BY <3>3, <3>4 DEF Marked, Bit, Torn
  <2>3. Missing(w)'
    BY <1>3, <1>5, <2>1, <2>2 DEF Missing, Returned, Torn, filterVars
  <2>4. WorkerInv(w)'
    BY <1>5, <2>1, <2>3, OutsideInv DEF Shortened, Answers301
  <2>5. QED BY <1>3, <1>4, <2>4, HandlerMoves
<1>8. CASE BloomPass(w) \/ Send(w)
  <2>1. pc'[w] \in {"probe", "idle"}
    BY <1>1, <1>8 DEF HandlerTypeOK, BloomPass, Send
  <2>2. WorkerInv(w)'
    BY <1>5, <2>1, OutsideInv DEF Shortened, Answers301, Answers404
  <2>3. QED BY <1>3, <1>4, <2>2, HandlerMoves
<1>9. QED BY <1>6, <1>7, <1>8 DEF Compute

-----------------------------------------------------------------------------
\* Worker w calls the store, or takes what it has returned.
LEMMA InvokeFacts ==
    ASSUME IInv, NEW w \in Workers, NEW c \in Aside!Calls, c.op \in {"setNX", "get"},
           Store!Invoke(w, c)
    PROVE  /\ Aside!IInv' /\ UNCHANGED <<now, redis, mysql, touched>>
           /\ call'[w] = c /\ res'[w] = res[w] /\ at[w] = "idle"
           /\ at'[w] = IF c.op = "get" THEN "redisGet" ELSE "insert"
           /\ \A v \in Workers \ {w} : call'[v] = call[v] /\ at'[v] = at[v] /\ res'[v] = res[v]
<1>1. Aside!Invoke(w, c)
  BY SameSteps
<1>2. Aside!IInv'
  BY <1>1, StoreKeeps DEF IInv, Aside!Next
<1>3. Aside!Begin(w, c, Aside!Entry(c.op)) /\ UNCHANGED <<now, redis, mysql, touched>>
  BY <1>1 DEF Aside!Invoke, Aside!serverVars
<1>4. Aside!StoreTypeOK(Aside!Places)
  BY InvFacts
<1>5. QED BY <1>2, <1>3, <1>4 DEF Aside!Begin, Aside!Entry, Aside!StoreTypeOK

\* Inside a call that has not ended there is little to know.
LEMMA EnteredInv ==
    ASSUME NEW w \in Workers, Calling(w)', at'[w] \in {"insert", "redisGet"},
           pc'[w] \in {"setnx", "get"}
    PROVE  WorkerInv(w)'
BY DEF WorkerInv, Claiming, Claims, Finding, Missing, Returned, Shortened, Answers301, Answers404

LEMMA AskKeeps ==
    ASSUME IInv, NEW w \in Workers, NEW id \in Keys, NEW ttl \in Ttls, Draw(w, id),
           Store!Invoke(w, SetNX(w, id, ttl)), restarts' = restarts
    PROVE  IInv'
<1>1. HandlerTypeOK /\ Placed(w)
  BY InvFacts
<1>2. HandlerStep(w)
  BY DEF HandlerStep
<1>3. pc[w] = "draw" /\ pc'[w] = "setnx" /\ job'[w].id = id /\ job'[w].url = job[w].url
  BY <1>1 DEF HandlerTypeOK, Draw
<1>4. PICK c : c = SetNX(w, id, ttl)
  OBVIOUS
<1>5. /\ c \in Aside!Calls
      /\ c.op = "setNX" /\ c.key = id /\ c.url = job[w].url
  BY <1>1, <1>3, <1>4 DEF SetNX, Aside!Calls, Placed
<1>6. /\ Aside!IInv' /\ UNCHANGED <<now, redis, mysql, touched>>
      /\ call'[w] = c /\ at'[w] = "insert"
      /\ \A v \in Workers \ {w} : call'[v] = call[v] /\ at'[v] = at[v] /\ res'[v] = res[v]
  BY <1>4, <1>5, InvokeFacts
<1>7. HandlerMove(w)
  BY <1>2, <1>6 DEF HandlerMove
<1>8. WorkerInv(w)'
  <2>1. Calling(w)'
    BY <1>3, <1>5, <1>6 DEF Calling
  <2>2. QED BY <1>3, <1>6, <2>1, EnteredInv
<1>9. QED BY <1>6, <1>7, <1>8, HandlerMoves

LEMMA LookUpKeeps ==
    ASSUME IInv, NEW w \in Workers, LookUp(w), restarts' = restarts
    PROVE  IInv'
<1>1. HandlerTypeOK /\ Placed(w)
  BY InvFacts
<1>2. HandlerStep(w)
  BY DEF LookUp, HandlerStep
<1>3. pc[w] = "probe" /\ pc'[w] = "get" /\ job' = job /\ job[w].id \in Keys
  BY <1>1 DEF LookUp, HandlerTypeOK, BloomHit, Placed
<1>4. PICK c : c = Get(w)
  OBVIOUS
<1>5. c \in Aside!Calls /\ c.op = "get"
  BY <1>3, <1>4 DEF Get, Aside!Calls
<1>6. /\ Aside!IInv' /\ UNCHANGED <<now, redis, mysql, touched>>
      /\ call'[w] = c /\ at'[w] = "redisGet"
      /\ \A v \in Workers \ {w} : call'[v] = call[v] /\ at'[v] = at[v] /\ res'[v] = res[v]
  BY <1>4, <1>5, InvokeFacts DEF LookUp
<1>7. HandlerMove(w)
  BY <1>2, <1>6 DEF HandlerMove
<1>8. WorkerInv(w)'
  <2>1. Calling(w)'
    BY <1>3, <1>4, <1>6 DEF Calling, Get
  <2>2. QED BY <1>3, <1>6, <2>1, EnteredInv
<1>9. QED BY <1>6, <1>7, <1>8, HandlerMoves

LEMMA TakeKeeps ==
    ASSUME IInv, NEW w \in Workers, Take(w), restarts' = restarts
    PROVE  IInv'
<1>1. /\ HandlerTypeOK /\ Placed(w) /\ Expecting(w) /\ Aside!StoreTypeOK(Aside!Places)
      /\ Claiming(w) /\ Finding(w) /\ Missing(w)
  BY InvFacts
<1>2. HandlerStep(w) /\ pc[w] \in {"setnx", "get"}
  BY DEF Take, HandlerStep, Claimed, Found
<1>3. Aside!Deliver(w)
  BY SameSteps DEF Take
<1>4. Aside!IInv'
  BY <1>3, StoreKeeps DEF IInv, Aside!Next
<1>5. /\ at'[w] = "idle" /\ at[w] = "done" /\ UNCHANGED <<now, redis, mysql, touched>>
      /\ \A v \in Workers \ {w} : call'[v] = call[v] /\ at'[v] = at[v] /\ res'[v] = res[v]
  BY <1>1, <1>3 DEF Aside!Deliver, Aside!Return, Aside!StoreTypeOK, Aside!serverVars
<1>6. HandlerMove(w)
  BY <1>2, <1>5 DEF HandlerMove
<1>7. job' = job /\ expected' = expected /\ torn' = torn /\ job[w].id \in Keys
  BY <1>1, <1>2 DEF Take, Claimed, Found, filterVars, Placed
<1>8. ASSUME Claimed(w, res[w]) PROVE WorkerInv(w)'
  <2>1. CASE res[w] = "true" /\ pc'[w] = "load"
    <3>1. Leads(job[w].id, job[w].url)
      BY <1>1, <1>5, <1>8, <2>1 DEF Claimed, Claiming, Claims, Returned
    <3>2. Leads(job[w].id, job[w].url)'
      BY <1>5, <1>7, <3>1 DEF Leads
    <3>3. QED BY <1>5, <2>1, <3>2, OutsideInv DEF Answers301, Answers404
  <2>2. CASE pc'[w] = "draw"
    BY <1>5, <2>2, OutsideInv DEF Shortened, Answers301, Answers404
  <2>3. CASE Respond(w, 500, NoUrl)
    <3>1. pc'[w] = "reply" /\ answer'[w].status = 500
      BY <1>1, <2>3, Responds
    <3>2. QED BY <1>5, <3>1, OutsideInv DEF Shortened, Answers301, Answers404
  <2>4. QED BY <1>1, <1>8, <2>1, <2>2, <2>3 DEF Claimed, HandlerTypeOK
<1>9. ASSUME Found(w, res[w]) PROVE WorkerInv(w)'
  <2>1. pc[w] = "get"
    BY <1>9 DEF Found
  <2>2. CASE res[w] = "threw" /\ Respond(w, 500, NoUrl)
    <3>1. pc'[w] = "reply" /\ answer'[w].status = 500
      BY <1>1, <2>2, Responds
    <3>2. QED BY <1>5, <3>1, OutsideInv DEF Shortened, Answers301, Answers404
  <2>3. CASE res[w] = NoUrl /\ Respond(w, 404, NoUrl)
    <3>1. pc'[w] = "reply" /\ answer'[w].status = 404
      BY <1>1, <2>3, Responds
    <3>2. expected[w] # {} => Overdue(job[w].id)
      BY <1>1, <1>5, <2>1, <2>3 DEF Missing, Returned
    <3>3. Missing(w)'
      BY <1>5, <1>7, <3>1, <3>2 DEF Missing, Overdue, Aside!Expired, Returned
    <3>4. QED BY <1>5, <3>1, <3>3, OutsideInv DEF Shortened, Answers301
  <2>4. CASE res[w] \in Urls /\ Respond(w, 301, res[w])
    <3>1. pc'[w] = "reply" /\ answer'[w].status = 301 /\ answer'[w].url = res[w]
      BY <1>1, <2>4, Responds
    <3>2. Leads(job[w].id, res[w])
      BY <1>1, <1>5, <2>1, <2>4 DEF Finding, Returned
    <3>3. Finding(w)'
      BY <1>5, <1>7, <2>4, <3>1, <3>2 DEF Finding, Leads
    <3>4. QED BY <1>5, <3>1, <3>3, OutsideInv DEF Shortened, Answers404
  <2>5. QED BY <1>9, <2>2, <2>3, <2>4 DEF Found
<1>10. QED BY <1>4, <1>6, <1>8, <1>9, HandlerMoves DEF Take

-----------------------------------------------------------------------------
\* A worker inside a call, after a step of the store.
LEMMA InCallInv ==
    ASSUME NEW w \in Workers, UNCHANGED handlerVars, call'[w] = call[w], Calling(w),
           pc[w] = "setnx" =>
               /\ at'[w] \in {"insert", "redisSet", "done"}
               /\ at'[w] = "redisSet" \/ Returned(w, "true")' => Leads(job[w].id, job[w].url)',
           pc[w] = "get" =>
               /\ at'[w] \in {"redisGet", "select", "redisSet", "done"}
               /\ \A u \in Urls : Returned(w, u)' => Leads(job[w].id, u)'
               /\ expected[w] # {} /\ Returned(w, NoUrl)' => Overdue(job[w].id)',
           pc[w] \in {"setnx", "get"}
    PROVE  WorkerInv(w)'
<1> USE DEF handlerVars, requestVars
<1>1. Calling(w)'
  BY DEF Calling, Get
<1>2. Claiming(w)'
  BY DEF Claiming, Claims, Shortened, Leads
<1>3. Finding(w)'
  BY DEF Finding, Answers301, Leads
<1>4. Missing(w)'
  BY DEF Missing, Answers404, Overdue
<1>5. QED BY <1>1, <1>2, <1>3, <1>4 DEF WorkerInv

\* What the invariant says of a worker inside a call.
LEMMA CallFacts ==
    ASSUME IInv, NEW w \in Workers, at[w] # "idle"
    PROVE  /\ pc[w] \in {"setnx", "get"} /\ Calling(w)
           /\ Aside!Key(w) = job[w].id /\ job[w].id \in Keys
           /\ pc[w] = "setnx" => call[w].op = "setNX" /\ call[w].url = job[w].url
                                 /\ job[w].url \in Urls
           /\ pc[w] = "get" => call[w].op = "get"
           /\ mysql \in [Keys -> Aside!Rows] /\ redis \in [Keys -> Aside!Entries]
           /\ Aside!StoreTypeOK(Aside!Places)
           /\ mysql[job[w].id].url # NoUrl <=> mysql[job[w].id] # Aside!NoRow
           /\ Claiming(w) /\ Missing(w)
           /\ pc[w] = "get" /\ expected[w] # {} => mysql[job[w].id] # Aside!NoRow
<1>1. /\ Calling(w) /\ Placed(w) /\ Expecting(w) /\ pc[w] \in {"setnx", "get"} /\ Aside!TypeOK
      /\ Aside!StoreTypeOK(Aside!Places) /\ HandlerTypeOK /\ Claiming(w) /\ Missing(w)
  BY InvFacts
<1>2. /\ Aside!Key(w) = job[w].id /\ job[w].id \in Keys
      /\ pc[w] = "setnx" => call[w].op = "setNX" /\ call[w].url = job[w].url /\ job[w].url \in Urls
      /\ pc[w] = "get" => call[w].op = "get"
  BY <1>1 DEF Calling, Placed, Get, Aside!Key
<1>3. mysql \in [Keys -> Aside!Rows] /\ redis \in [Keys -> Aside!Entries]
  BY <1>1 DEF Aside!TypeOK
<1>4. mysql[job[w].id].url # NoUrl <=> mysql[job[w].id] # Aside!NoRow
  BY <1>2, <1>3, HandlerAssumption DEF Aside!Rows, Aside!NoRow
<1>5. pc[w] = "get" /\ expected[w] # {} => mysql[job[w].id] # Aside!NoRow
  <2> SUFFICES ASSUME expected[w] # {} PROVE mysql[job[w].id].url # NoUrl
    BY <1>4
  <2>1. PICK u \in Urls : u \in acked[job[w].id]
    BY <1>1, <1>2 DEF Expecting, HandlerTypeOK
  <2>2. QED BY <1>2, <2>1, HandlerAssumption DEF IInv, AckedLead, Leads
<1>6. QED BY <1>1, <1>2, <1>3, <1>4, <1>5

\* A SET that is due stores the url of its row, which is there.
LEMMA SetFacts ==
    ASSUME IInv, NEW w \in Workers, at[w] = "redisSet"
    PROVE  /\ mysql[job[w].id] # Aside!NoRow
           /\ pc[w] = "get" => res[w] \in Urls /\ Leads(job[w].id, res[w])
           /\ pc[w] = "setnx" => Leads(job[w].id, job[w].url)
<1>1. /\ Aside!Key(w) = job[w].id /\ Aside!Key(w) \notin touched
      /\ pc[w] = "setnx" => call[w].op = "setNX"
      /\ pc[w] = "get" => call[w].op = "get"
      /\ Claiming(w)
  BY CallFacts DEF IInv
<1>2. /\ mysql[job[w].id] # Aside!NoRow
      /\ Aside!Value(w) = mysql[job[w].id].url
  BY <1>1 DEF IInv, Aside!IInv, Aside!Pending
<1>3. Aside!Value(w) \in Urls
  BY DEF IInv, Aside!IInv, Aside!TypeOK
<1>4. QED BY <1>1, <1>2, <1>3 DEF Aside!Value, Leads, Claiming, Claims

\* What a step of the store does to the table: nothing, or the job's new row.
TableMove(w) ==
    \/ mysql' = mysql
    \/ /\ pc[w] = "setnx" /\ at[w] = "insert" /\ job[w].id \in Keys /\ job[w].url \in Urls
       /\ mysql[job[w].id].url = NoUrl
       /\ \E row \in Aside!Rows : row.url = job[w].url /\ mysql' = [mysql EXCEPT ![job[w].id] = row]

\* What every step of the store for worker w leaves alone.
StoreFrame(w) ==
    /\ call' = call /\ now' = now /\ touched' = touched
    /\ \A v \in Workers \ {w} : at'[v] = at[v] /\ res'[v] = res[v]

LEMMA FinishFacts ==
    ASSUME IInv, NEW w \in Workers, NEW r, Aside!Finish(w, r)
    PROVE  /\ call' = call /\ at'[w] = "done" /\ res'[w] = r
           /\ \A v \in Workers \ {w} : at'[v] = at[v] /\ res'[v] = res[v]
<1>1. Aside!StoreTypeOK(Aside!Places)
  BY InvFacts
<1>2. QED BY <1>1 DEF Aside!Finish, Aside!StoreTypeOK

LEMMA ProceedFacts ==
    ASSUME IInv, NEW w \in Workers, NEW place, Aside!Proceed(w, place)
    PROVE  /\ call' = call /\ at'[w] = place /\ res' = res
           /\ \A v \in Workers \ {w} : at'[v] = at[v] /\ res'[v] = res[v]
<1>1. Aside!StoreTypeOK(Aside!Places)
  BY InvFacts
<1>2. QED BY <1>1 DEF Aside!Proceed, Aside!StoreTypeOK

LEMMA ResultsApart ==
    \A r \in {"true", "false", "threw"} : r \notin Urls /\ r # NoUrl
BY ServiceAssumption DEF Store!Outcomes

-----------------------------------------------------------------------------
\* The commands to Redis, executed or not, replied to or not.
LEMMA ConcludeKeeps ==
    ASSUME IInv, NEW w \in Workers, at[w] = "redisSet", Aside!Conclude(w),
           UNCHANGED <<handlerVars, mysql, now, touched>>
    PROVE  WorkerInv(w)' /\ StoreFrame(w)
<1>1. /\ pc[w] \in {"setnx", "get"} /\ Calling(w)
      /\ pc[w] = "setnx" => call[w].op = "setNX"
      /\ pc[w] = "get" => call[w].op = "get"
  BY CallFacts
<1>2. /\ pc[w] = "get" => res[w] \in Urls /\ Leads(job[w].id, res[w])
      /\ pc[w] = "setnx" => Leads(job[w].id, job[w].url)
  BY SetFacts
<1>3. Aside!Finish(w, IF pc[w] = "get" THEN res[w] ELSE "true")
  BY <1>1 DEF Aside!Conclude
<1>4. /\ call' = call /\ at'[w] = "done" /\ res'[w] = IF pc[w] = "get" THEN res[w] ELSE "true"
      /\ \A v \in Workers \ {w} : at'[v] = at[v] /\ res'[v] = res[v]
  BY <1>3, FinishFacts
<1>5. job' = job
  BY DEF handlerVars, requestVars
<1>6. WorkerInv(w)'
  BY <1>1, <1>2, <1>4, <1>5, HandlerAssumption, InCallInv DEF Returned, Leads
<1>7. QED BY <1>4, <1>6 DEF StoreFrame

LEMMA RedisKeeps ==
    ASSUME IInv, NEW w \in Workers, UNCHANGED handlerVars,
           \/ Aside!RedisReply(w) \/ Aside!RedisNoReply(w)
           \/ Aside!RedisNull(w) \/ Aside!RedisThrows(w)
    PROVE  WorkerInv(w)' /\ StoreFrame(w) /\ mysql' = mysql
<1>1. at[w] \in Aside!RedisPlaces /\ UNCHANGED <<mysql, now, touched>>
  BY DEF Aside!RedisReply, Aside!RedisNoReply, Aside!RedisNull, Aside!RedisThrows, Aside!serverVars
<1>2. at[w] # "idle"
  BY <1>1 DEF Aside!RedisPlaces
<1>3. /\ pc[w] \in {"setnx", "get"} /\ Calling(w)
      /\ Aside!Key(w) = job[w].id /\ job[w].id \in Keys
      /\ redis \in [Keys -> Aside!Entries]
  BY <1>2, CallFacts
<1>4. at[w] = "redisSet" \/ (at[w] = "redisGet" /\ pc[w] = "get")
  BY <1>1, <1>3 DEF Calling, Aside!RedisPlaces
<1>5. job' = job
  BY DEF handlerVars, requestVars
<1>6. ASSUME Aside!Conclude(w), at[w] # "redisGet"
      PROVE  WorkerInv(w)' /\ StoreFrame(w)
  BY <1>1, <1>4, <1>6, ConcludeKeeps
<1>7. ASSUME Aside!Proceed(w, "select"), at[w] = "redisGet"
      PROVE  WorkerInv(w)' /\ StoreFrame(w)
  <2>1. /\ call' = call /\ at'[w] = "select"
        /\ \A v \in Workers \ {w} : at'[v] = at[v] /\ res'[v] = res[v]
    BY <1>7, ProceedFacts
  <2>2. WorkerInv(w)'
    BY <1>3, <1>4, <1>7, <2>1, InCallInv DEF Returned
  <2>3. QED BY <1>1, <2>1, <2>2 DEF StoreFrame
<1>8. ASSUME redis[job[w].id] # Aside!NoEntry, at[w] = "redisGet",
             Aside!Finish(w, redis[job[w].id].url)
      PROVE  WorkerInv(w)' /\ StoreFrame(w)
  <2>1. /\ call' = call /\ at'[w] = "done" /\ res'[w] = redis[job[w].id].url
        /\ \A v \in Workers \ {w} : at'[v] = at[v] /\ res'[v] = res[v]
    BY <1>8, FinishFacts
  <2>2. redis[job[w].id].url \in Urls
    BY <1>3, <1>8 DEF Aside!Entries
  <2>3. Leads(job[w].id, redis[job[w].id].url)
    BY <1>3, <1>8 DEF IInv, Aside!IInv, Aside!CacheTracksRow, Leads
  <2>4. WorkerInv(w)'
    BY <1>1, <1>3, <1>4, <1>5, <1>8, <2>1, <2>2, <2>3, HandlerAssumption, InCallInv
    DEF Returned, Leads
  <2>5. QED BY <1>1, <2>1, <2>4 DEF StoreFrame
<1>9. CASE Aside!RedisReply(w)
  BY <1>1, <1>3, <1>6, <1>7, <1>8, <1>9 DEF Aside!RedisReply
<1>10. CASE Aside!RedisNoReply(w)
  <2>1. UNCHANGED <<call, at, res>>
    BY <1>10 DEF Aside!RedisNoReply, Aside!storeCallVars
  <2>2. pc[w] = "setnx" => Leads(job[w].id, job[w].url)
    BY <1>4, SetFacts
  <2>3. WorkerInv(w)'
    BY <1>1, <1>3, <1>4, <1>5, <2>1, <2>2, InCallInv DEF Returned, Calling, Leads
  <2>4. QED BY <1>1, <2>1, <2>3 DEF StoreFrame
<1>11. CASE Aside!RedisNull(w)
  BY <1>1, <1>6, <1>7, <1>11 DEF Aside!RedisNull
<1>12. CASE Aside!RedisThrows(w)
  <2>1. /\ call' = call /\ at'[w] = "done" /\ res'[w] = "threw"
        /\ \A v \in Workers \ {w} : at'[v] = at[v] /\ res'[v] = res[v]
    BY <1>12, FinishFacts DEF Aside!RedisThrows
  <2>2. WorkerInv(w)'
    BY <1>3, <2>1, ResultsApart, InCallInv DEF Returned
  <2>3. QED BY <1>1, <2>1, <2>2 DEF StoreFrame
<1>13. QED BY <1>1, <1>9, <1>10, <1>11, <1>12

-----------------------------------------------------------------------------
\* The statements, which may throw with or without an effect.
LEMMA InsertedRow ==
    ASSUME IInv, NEW w \in Workers, at[w] = "insert", UNCHANGED handlerVars,
           Aside!MayInsert(Aside!Key(w)), Aside!PutRow(Aside!Key(w), Aside!Row(w))
    PROVE  /\ TableMove(w) /\ pc[w] = "setnx"
           /\ Leads(job[w].id, job[w].url)'
<1>1. /\ pc[w] = "setnx" /\ Aside!Key(w) = job[w].id /\ job[w].id \in Keys
      /\ call[w].url = job[w].url /\ job[w].url \in Urls
      /\ mysql \in [Keys -> Aside!Rows]
      /\ mysql[job[w].id].url # NoUrl <=> mysql[job[w].id] # Aside!NoRow
  BY CallFacts DEF Calling
<1>2. Aside!Row(w) \in Aside!Rows /\ Aside!Row(w).url = call[w].url
  BY Aside!RowType, AsideAssumptions DEF IInv, Aside!IInv
<1>3. mysql' = [mysql EXCEPT ![job[w].id] = Aside!Row(w)]
  BY <1>1 DEF Aside!PutRow
<1>4. mysql[job[w].id].url = NoUrl
  BY <1>1 DEF Aside!MayInsert, Aside!HasRow
<1>5. TableMove(w)
  BY <1>1, <1>2, <1>3, <1>4 DEF TableMove
<1>6. job' = job
  BY DEF handlerVars, requestVars
<1>7. mysql'[job[w].id].url = job[w].url
  BY <1>1, <1>2, <1>3
<1>8. QED BY <1>1, <1>5, <1>6, <1>7 DEF Leads

LEMMA SelectKeeps ==
    ASSUME IInv, NEW w \in Workers, UNCHANGED handlerVars, Aside!Select(w)
    PROVE  WorkerInv(w)' /\ StoreFrame(w) /\ mysql' = mysql
<1>1. at[w] = "select" /\ UNCHANGED <<mysql, now, touched>>
  BY DEF Aside!Select, Aside!serverVars
<1>2. /\ pc[w] = "get" /\ Calling(w) /\ job' = job
      /\ Aside!Key(w) = job[w].id /\ job[w].id \in Keys
      /\ mysql \in [Keys -> Aside!Rows]
      /\ expected[w] # {} => mysql[job[w].id] # Aside!NoRow
      /\ Aside!StoreTypeOK(Aside!Places)
  BY <1>1, CallFacts DEF Calling, handlerVars, requestVars
<1>3. CASE /\ at' = [at EXCEPT ![w] = "redisSet"]
           /\ res' = [res EXCEPT ![w] = mysql[job[w].id].url]
           /\ UNCHANGED call
  <2>1. /\ at'[w] = "redisSet"
        /\ \A v \in Workers \ {w} : at'[v] = at[v] /\ res'[v] = res[v]
    BY <1>2, <1>3 DEF Aside!StoreTypeOK
  <2>2. WorkerInv(w)'
    BY <1>2, <1>3, <2>1, InCallInv DEF Returned
  <2>3. QED BY <1>1, <1>3, <2>1, <2>2 DEF StoreFrame
<1>4. CASE /\ mysql[job[w].id] = Aside!NoRow \/ Aside!Expired(mysql[job[w].id])
           /\ Aside!Finish(w, NoUrl)
  <2>1. /\ call' = call /\ at'[w] = "done" /\ res'[w] = NoUrl
        /\ \A v \in Workers \ {w} : at'[v] = at[v] /\ res'[v] = res[v]
    BY <1>4, FinishFacts
  <2>2. expected[w] # {} => Overdue(job[w].id)'
    BY <1>1, <1>2, <1>4 DEF Overdue, Aside!Expired
  <2>3. \A u \in Urls : ~Returned(w, u)'
    BY <2>1, HandlerAssumption DEF Returned
  <2>4. WorkerInv(w)'
    BY <1>2, <2>1, <2>2, <2>3, InCallInv
  <2>5. QED BY <1>1, <2>1, <2>4 DEF StoreFrame
<1>5. QED BY <1>2, <1>3, <1>4 DEF Aside!Select, Aside!HasRow

LEMMA InsertKeeps ==
    ASSUME IInv, NEW w \in Workers, UNCHANGED handlerVars, Aside!Insert(w)
    PROVE  WorkerInv(w)' /\ StoreFrame(w) /\ TableMove(w)
<1>1. at[w] = "insert" /\ UNCHANGED <<now, touched>>
  BY DEF Aside!Insert
<1>2. pc[w] = "setnx" /\ Calling(w) /\ job' = job
  BY <1>1, CallFacts DEF Calling, handlerVars, requestVars
<1>3. CASE /\ Aside!MayInsert(Aside!Key(w)) /\ Aside!PutRow(Aside!Key(w), Aside!Row(w))
           /\ Aside!Proceed(w, "redisSet")
  <2>1. /\ call' = call /\ at'[w] = "redisSet"
        /\ \A v \in Workers \ {w} : at'[v] = at[v] /\ res'[v] = res[v]
    BY <1>3, ProceedFacts
  <2>2. TableMove(w) /\ Leads(job[w].id, job[w].url)'
    BY <1>1, <1>3, InsertedRow
  <2>3. WorkerInv(w)'
    BY <1>2, <2>1, <2>2, InCallInv DEF Leads
  <2>4. QED BY <1>1, <2>1, <2>2, <2>3 DEF StoreFrame
<1>4. CASE mysql' = mysql /\ Aside!Finish(w, "false")
  <2>1. /\ call' = call /\ at'[w] = "done" /\ res'[w] = "false"
        /\ \A v \in Workers \ {w} : at'[v] = at[v] /\ res'[v] = res[v]
    BY <1>4, FinishFacts
  <2>2. WorkerInv(w)'
    BY <1>2, <2>1, InCallInv DEF Returned
  <2>3. QED BY <1>1, <1>4, <2>1, <2>2 DEF StoreFrame, TableMove
<1>5. QED BY <1>3, <1>4 DEF Aside!Insert

LEMMA ThrowKeeps ==
    ASSUME IInv, NEW w \in Workers, UNCHANGED handlerVars, Aside!SqlThrows(w)
    PROVE  WorkerInv(w)' /\ StoreFrame(w) /\ TableMove(w)
<1>1. at[w] \in Aside!SqlPlaces /\ UNCHANGED <<now, touched>> /\ Aside!Effect(w)
  BY DEF Aside!SqlThrows
<1>2. /\ pc[w] \in {"setnx", "get"} /\ Calling(w)
  BY <1>1, CallFacts DEF Aside!SqlPlaces
<1>3. at[w] = "insert" \/ (at[w] = "select" /\ pc[w] = "get")
  BY <1>1, <1>2 DEF Calling, Aside!SqlPlaces
<1>4. TableMove(w)
  BY <1>1, <1>3, InsertedRow DEF Aside!Effect, TableMove
<1>5. PICK r \in {"false", "threw"} : Aside!Finish(w, r)
  BY DEF Aside!SqlThrows
<1>6. /\ call' = call /\ at'[w] = "done" /\ res'[w] = r
      /\ \A v \in Workers \ {w} : at'[v] = at[v] /\ res'[v] = res[v]
  BY <1>5, FinishFacts
<1>7. WorkerInv(w)'
  BY <1>2, <1>5, <1>6, ResultsApart, InCallInv DEF Returned
<1>8. QED BY <1>1, <1>4, <1>6, <1>7 DEF StoreFrame

\* A step of the store inside a call, whichever it is.
LEMMA StoreStepKeeps ==
    ASSUME IInv, NEW w \in Workers, Store!Step(w), UNCHANGED <<handlerVars, restarts>>
    PROVE  IInv' /\ TableMove(w)
<1>1. Aside!Step(w)
  BY SameSteps
<1>2. Aside!IInv'
  BY <1>1, StoreKeeps DEF IInv, Aside!Next
<1>3. UNCHANGED handlerVars
  OBVIOUS
<1>4. WorkerInv(w)' /\ StoreFrame(w) /\ TableMove(w)
  <2>1. CASE \/ Aside!RedisReply(w) \/ Aside!RedisNoReply(w)
             \/ Aside!RedisNull(w) \/ Aside!RedisThrows(w)
    BY <1>3, <2>1, RedisKeeps DEF TableMove
  <2>2. CASE Aside!Select(w)
    BY <1>3, <2>2, SelectKeeps DEF TableMove
  <2>3. CASE Aside!Insert(w)
    BY <1>3, <2>3, InsertKeeps
  <2>4. CASE Aside!SqlThrows(w)
    BY <1>3, <2>4, ThrowKeeps
  <2>5. CASE Aside!Replace(w) \/ Aside!Delete(w)
    <3>1. at[w] \in {"replace", "delete"}
      BY <2>5 DEF Aside!Replace, Aside!Delete
    <3>2. QED BY <3>1, CallFacts DEF Calling
  <2>6. QED BY <1>1, <2>1, <2>2, <2>3, <2>4, <2>5 DEF Aside!Step
<1>5. Grows
  <2>1. \A id \in Keys : mysql[id].url # NoUrl => mysql'[id] = mysql[id]
    <3>1. mysql \in [Keys -> Aside!Rows]
      BY DEF IInv, Aside!IInv, Aside!TypeOK
    <3>2. QED BY <1>4, <3>1 DEF TableMove
  <2>2. \A id \in Keys : Overdue(id) => mysql[id] # Aside!NoRow
    BY DEF Overdue, Aside!Expired, Aside!NoRow
  <2>3. \A id \in Keys : mysql[id] # Aside!NoRow => mysql[id].url # NoUrl
    BY HandlerAssumption DEF IInv, Aside!IInv, Aside!TypeOK, Aside!Rows
  <2>4. \A id \in Keys : Overdue(id) => Overdue(id)'
    BY <1>4, <2>1, <2>2, <2>3 DEF Overdue, Aside!Expired, StoreFrame
  <2>5. QED BY <2>1, <2>4 DEF Grows, handlerVars, filterVars
<1>6. \A v \in Workers : LeftAlone(v) \/ WorkerInv(v)'
  BY <1>3, <1>4 DEF LeftAlone, StoreFrame, Untouched, handlerVars, requestVars, filterVars
<1>7. touched' = touched
  BY <1>4 DEF StoreFrame
<1>8. IInv'
  BY <1>2, <1>5, <1>6, <1>7, StoreMoves
<1>9. QED BY <1>4, <1>8

-----------------------------------------------------------------------------
\* The servers and the clock.
LEMMA ServersKeep ==
    ASSUME IInv, UNCHANGED <<handlerVars, restarts>>,
           Store!Tick \/ (\E id \in Keys : Store!Evict(id))
    PROVE  IInv' /\ mysql' = mysql
<1>1. Aside!Tick \/ (\E id \in Keys : Aside!Evict(id))
  BY SameServers
<1>2. Aside!IInv'
  BY <1>1, StoreKeeps DEF IInv, Aside!Next
<1>3. /\ UNCHANGED <<call, at, res, mysql, touched>>
      /\ now' = now \/ now' = now + 1
  BY <1>1 DEF Aside!Tick, Aside!Evict, Aside!storeCallVars
<1>4. now \in Nat /\ mysql \in [Keys -> Aside!Rows]
  BY DEF IInv, Aside!IInv, Aside!TypeOK
<1>5. Grows
  <2>1. ASSUME NEW id \in Keys, Overdue(id) PROVE Overdue(id)'
    <3>1. mysql[id].created \in Nat /\ mysql[id].ttl \in Nat
      <4>1. Ttls \subseteq Nat
        BY ServiceAssumption DEF Store!TtlAssumption
      <4>2. mysql[id] \in Aside!Rows
        BY <1>4
      <4>3. CASE mysql[id] = Aside!NoRow
        BY <4>3 DEF Aside!NoRow
      <4>4. CASE mysql[id] \in [url : Urls, created : Nat, ttl : Ttls]
        BY <4>1, <4>4
      <4>5. QED BY <4>2, <4>3, <4>4 DEF Aside!Rows
    <3>2. mysql[id].ttl > 0 /\ now > mysql[id].created + mysql[id].ttl
      BY <2>1 DEF Overdue, Aside!Expired
    <3>3. now' > mysql[id].created + mysql[id].ttl
      BY <1>3, <1>4, <3>1, <3>2
    <3>4. QED BY <1>3, <3>2, <3>3 DEF Overdue, Aside!Expired
  <2>2. QED BY <1>3, <2>1 DEF Grows, handlerVars, filterVars
<1>6. \A v \in Workers : LeftAlone(v)
  BY <1>3 DEF LeftAlone, Untouched, handlerVars, requestVars, filterVars
<1>7. UNCHANGED <<handlerVars, touched>>
  BY <1>3
<1>8. QED BY <1>2, <1>3, <1>5, <1>6, <1>7, StoreMoves

-----------------------------------------------------------------------------
\* A restart leaves the servers as they are, and no worker with a request.
LEMMA RestartKeeps ==
    ASSUME IInv, Restart
    PROVE  IInv'
<1> USE DEF Restart, Store!CallsEnd
<1>1. /\ Aside!IInv /\ restarts \in Nat /\ touched' = touched /\ restarts' = restarts + 1
      /\ acked' = acked /\ mysql' = mysql
  BY DEF IInv, StartAnew
<1>2. /\ call' = [w \in Workers |-> Aside!NoCall] /\ at' = [w \in Workers |-> "idle"]
      /\ res' = [w \in Workers |-> "none"]
  BY SameConstants
<1>3. Aside!IInv'
  <2>1. Aside!StoreTypeOK(Aside!Places)'
    BY <1>2 DEF Aside!StoreTypeOK, Aside!Outcomes
  <2>2. Aside!TypeOK'
    BY <1>1, <1>2, <2>1 DEF Aside!IInv, Aside!TypeOK
  <2>3. Aside!Located' /\ Aside!Timely' /\ Aside!Pending'
    BY <1>2 DEF Aside!Located, Aside!Timely, Aside!Pending, Aside!Running, Aside!NoCall
  <2>4. Aside!CacheTracksRow' /\ Aside!ExpiryHonoured'
    BY <1>1 DEF Aside!IInv, Aside!CacheTracksRow, Aside!ExpiryHonoured, Aside!HasRow
  <2>5. QED BY <2>2, <2>3, <2>4 DEF Aside!IInv
<1>4. HandlerInv' /\ FilterInv'
  BY StartKeeps DEF IInv
<1>5. ASSUME NEW w \in Workers PROVE WorkerInv(w)'
  BY <1>2, OutsideInv DEF Shortened, Answers301, Answers404, StartAnew
<1>6. AckedLead'
  BY <1>1 DEF IInv, AckedLead, Leads
<1>7. restarts' \in Nat
  BY <1>1
<1>8. QED BY <1>1, <1>3, <1>4, <1>5, <1>6, <1>7 DEF IInv

LEMMA StutterKeeps ==
    ASSUME IInv, UNCHANGED vars
    PROVE  IInv'
<1> USE DEF vars, storeVars
<1>1. Aside!IInv'
  BY StoreStands DEF IInv
<1>2. Grows
  BY DEF Grows, Overdue, Aside!Expired, handlerVars, filterVars
<1>3. \A v \in Workers : LeftAlone(v)
  BY DEF LeftAlone, Untouched, handlerVars, requestVars, filterVars
<1>4. UNCHANGED <<handlerVars, touched>>
  OBVIOUS
<1>5. QED BY <1>1, <1>2, <1>3, <1>4, StoreMoves

LEMMA InitInv == Init => IInv
<1> SUFFICES ASSUME Init PROVE IInv
  OBVIOUS
<1>1. HandlerInit /\ Store!Init /\ restarts = 0
  BY DEF Init
<1>2. Aside!IInv
  BY <1>1, SameInit, Aside!InvInit, AsideAssumptions
<1>3. HandlerInv /\ FilterInv
  BY <1>1, HandlerInitInv, FilterInitInv
<1>4. touched = {} /\ \A w \in Workers : at[w] = "idle"
  BY <1>1 DEF Store!Init, Store!StoreInit
<1>5. AckedLead
  BY <1>1 DEF HandlerInit, AckedLead
<1>6. ASSUME NEW w \in Workers PROVE WorkerInv(w)
  BY <1>1, <1>4 DEF HandlerInit, WorkerInv, Calling, Claiming, Claims, Finding, Missing,
     Shortened, Answers301, Answers404
<1>7. QED BY <1>1, <1>2, <1>3, <1>4, <1>5, <1>6 DEF IInv

-----------------------------------------------------------------------------
\* The steps of a worker's handler, with the store's share in them.
LEMMA ServeKeeps ==
    ASSUME IInv, NEW w \in Workers, Serve(w)
    PROVE  IInv'
<1> USE DEF Serve
<1>1. CASE Compute(w) /\ UNCHANGED storeVars
  BY <1>1, ComputeKeeps
<1>2. CASE Ask(w)
  BY <1>2, AskKeeps DEF Ask
<1>3. CASE LookUp(w)
  BY <1>3, LookUpKeeps
<1>4. CASE Store!Step(w) /\ UNCHANGED handlerVars
  BY <1>4, StoreStepKeeps
<1>5. CASE Take(w)
  BY <1>5, TakeKeeps
<1>6. QED BY <1>1, <1>2, <1>3, <1>4, <1>5

LEMMA NextKeeps ==
    ASSUME IInv, [Next]_vars
    PROVE  IInv'
<1>1. ASSUME NEW w \in Workers, Request(w), UNCHANGED <<storeVars, restarts>> PROVE IInv'
  BY <1>1, RequestKeeps
<1>2. ASSUME NEW w \in Workers, Serve(w) PROVE IInv'
  BY <1>2, ServeKeeps
<1>3. CASE /\ Store!Tick \/ (\E id \in Keys : Store!Evict(id))
           /\ UNCHANGED <<handlerVars, restarts>>
  BY <1>3, ServersKeep
<1>4. CASE Restart
  BY <1>4, RestartKeeps
<1>5. CASE UNCHANGED vars
  BY <1>5, StutterKeeps
<1>6. QED BY <1>1, <1>2, <1>3, <1>4, <1>5 DEF Next

\* The invariant is inductive, through failures of the servers, evictions and
\* restarts of the program.
THEOREM Invariant == Spec => []IInv
<1>1. Init => IInv
  BY InitInv
<1>2. IInv /\ [Next]_vars => IInv'
  BY NextKeeps
<1>3. QED BY <1>1, <1>2, PTL DEF Spec

\* RedirectHandler leads to the url that the id was given out for, which is the
\* one in the id's row, whether Redis or MySQL answers CacheAsideStore::get.
THEOREM RedirectsAreTrue == Spec => []RedirectTrue
<1>1. ASSUME IInv PROVE RedirectTrue
  <2> SUFFICES ASSUME NEW w \in Workers, Answers301(w)
               PROVE  /\ expected[w] \subseteq {answer[w].url}
                      /\ mysql[job[w].id].url = answer[w].url
    BY DEF RedirectTrue
  <2>1. Expecting(w) /\ Finding(w) /\ HandlerTypeOK
    BY <1>1, InvFacts
  <2>2. job[w].id \in Keys /\ mysql[job[w].id].url = answer[w].url
    BY <2>1 DEF Finding, Leads
  <2>3. ASSUME NEW u \in expected[w] PROVE u = answer[w].url
    <3>1. u \in acked[job[w].id]
      BY <2>1, <2>3 DEF Expecting
    <3>2. QED BY <1>1, <2>2, <3>1 DEF IInv, AckedLead, Leads
  <2>4. QED BY <2>2, <2>3
<1>2. QED BY <1>1, Invariant, PTL

\* RedirectHandler answers 404 for an id given out before only if it expired, was
\* given out before a restart, or Bloom::add lost an update of its words.
THEOREM RedirectsUnlessLost == Spec => []AckedIdRedirects
<1>1. ASSUME IInv PROVE AckedIdRedirects
  <2> SUFFICES ASSUME NEW w \in Workers, Answers404(w), expected[w] # {}
               PROVE  Overdue(job[w].id) \/ job[w].id \in forgotten \/ Torn(job[w].id)
    BY SameConstants DEF AckedIdRedirects, Overdue
  <2>1. Missing(w)
    BY <1>1, InvFacts
  <2>2. QED BY <2>1 DEF Missing
<1>2. QED BY <1>1, Invariant, PTL

-----------------------------------------------------------------------------
\* The rows of the table, as links.
RowLinks == [id \in Keys |-> mysql[id].url]

\* Handlers and the store never touch the rows of the table at once.
LEMMA ServeMoves ==
    ASSUME IInv, NEW w \in Workers, Serve(w)
    PROVE  \/ UNCHANGED <<mysql, acked>>
           \/ TableMove(w) /\ UNCHANGED acked
           \/ Send(w) /\ UNCHANGED mysql
<1> USE DEF Serve
<1>1. CASE Compute(w) /\ UNCHANGED storeVars
  BY <1>1 DEF Compute, BloomLoad, BloomStore, BloomMiss, BloomPass, storeVars
<1>2. CASE Ask(w)
  <2>1. PICK id \in Keys, ttl \in Ttls : Draw(w, id) /\ Store!Invoke(w, SetNX(w, id, ttl))
    BY <1>2 DEF Ask
  <2>2. UNCHANGED mysql
    BY <2>1 DEF Store!Invoke, Store!serverVars
  <2>3. QED BY <2>1, <2>2 DEF Draw
<1>3. CASE LookUp(w)
  BY <1>3 DEF LookUp, BloomHit, Store!Invoke, Store!serverVars
<1>4. CASE Store!Step(w) /\ UNCHANGED handlerVars
  BY <1>4, StoreStepKeeps DEF handlerVars
<1>5. CASE Take(w)
  BY <1>5 DEF Take, Claimed, Found, Store!Deliver, Store!serverVars
<1>6. QED BY <1>1, <1>2, <1>3, <1>4, <1>5

\* An insertion creates a link where there was none.
LEMMA TableMoveCreates ==
    ASSUME IInv, NEW w \in Workers, TableMove(w), UNCHANGED acked
    PROVE  [Links!Next]_Links!linkVars
<1>1. CASE mysql' = mysql
  BY <1>1 DEF Links!linkVars
<1>2. CASE mysql' # mysql
  <2>1. PICK row \in Aside!Rows : row.url = job[w].url
                                  /\ mysql' = [mysql EXCEPT ![job[w].id] = row]
    BY <1>2 DEF TableMove
  <2>2. job[w].id \in Keys /\ job[w].url \in Urls /\ mysql[job[w].id].url = NoUrl
    BY <1>2 DEF TableMove
  <2>3. mysql \in [Keys -> Aside!Rows]
    BY DEF IInv, Aside!IInv, Aside!TypeOK
  <2>4. RowLinks' = [RowLinks EXCEPT ![job[w].id] = job[w].url]
    BY <2>1, <2>2, <2>3 DEF RowLinks
  <2>5. RowLinks[job[w].id] = NoUrl
    BY <2>2 DEF RowLinks
  <2>6. PICK id \in Keys, url \in Urls : id = job[w].id /\ url = job[w].url
    BY <2>2
  <2>7. Links!Create(id, url)
    BY <2>4, <2>5, <2>6 DEF Links!Create, RowLinks
  <2>8. Links!Next
    BY <2>7 DEF Links!Next
  <2>9. QED BY <2>8
<1>3. QED BY <1>1, <1>2

\* A response with status 200 gives out the link of its id.
LEMMA SendGivesOut ==
    ASSUME IInv, NEW w \in Workers, Send(w), UNCHANGED mysql
    PROVE  [Links!Next]_Links!linkVars
<1>1. CASE ~Shortened(w)
  BY <1>1 DEF Send, Shortened, Links!linkVars
<1>2. CASE Shortened(w)
  <2>1. /\ Claiming(w) /\ Placed(w)
    BY InvFacts
  <2>2. job[w].id \in Keys /\ job[w].url \in Urls /\ mysql[job[w].id].url = job[w].url
    BY <1>2, <2>1 DEF Claiming, Claims, Placed, Leads
  <2>3. acked' = [acked EXCEPT ![job[w].id] = @ \cup {job[w].url}]
    BY <1>2 DEF Send, Shortened
  <2>4. Links!GiveOut(job[w].id, job[w].url)
    BY <2>2, <2>3 DEF Links!GiveOut
  <2>5. Links!Next
    BY <2>2, <2>4 DEF Links!Next
  <2>6. QED BY <2>5
<1>3. QED BY <1>1, <1>2

LEMMA StepMaps ==
    ASSUME IInv, [Next]_vars
    PROVE  [Links!Next]_Links!linkVars
<1>1. ASSUME NEW w \in Workers, Request(w), UNCHANGED <<storeVars, restarts>>
      PROVE  UNCHANGED <<mysql, acked>>
  BY <1>1 DEF Request, Shorten, ShortenInvalid, Redirect, storeVars
<1>2. ASSUME NEW w \in Workers, Serve(w) PROVE [Links!Next]_Links!linkVars
  BY <1>2, ServeMoves, TableMoveCreates, SendGivesOut DEF Links!linkVars
<1>3. CASE /\ Store!Tick \/ (\E id \in Keys : Store!Evict(id))
           /\ UNCHANGED <<handlerVars, restarts>>
  BY <1>3, ServersKeep DEF handlerVars, Links!linkVars
<1>4. CASE Restart \/ UNCHANGED vars
  BY <1>4 DEF Restart, StartAnew, vars, handlerVars, storeVars, Links!linkVars
<1>5. QED BY <1>1, <1>2, <1>3, <1>4 DEF Next, Links!linkVars

\* The service implements ShortLinks with the rows of its table: an id that has
\* a row leads to the same url for good (CacheAsideStore::setNX), and an id is
\* given out only for the url in its row (ShortenHandler).
THEOREM Refinement == Spec => KeepsPromise
<1>1. Init => Links!Init
  BY DEF Init, HandlerInit, Store!Init, Store!NoRow, Links!Init
<1>2. IInv /\ [Next]_vars => [Links!Next]_Links!linkVars
  BY StepMaps
<1>3. QED BY <1>1, <1>2, Invariant, PTL DEF Spec, KeepsPromise, Links!Spec
=============================================================================
