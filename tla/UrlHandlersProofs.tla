------------------------- MODULE UrlHandlersProofs -------------------------
(***************************************************************************)
(* What the handlers and the Bloom filter keep by themselves, whatever     *)
(* store they are joined with and for every value of the constants.  The   *)
(* proofs about the services cite these lemmas.                            *)
(***************************************************************************)
EXTENDS UrlHandlers, TLAPS

\* A step of worker w's handler, with any result of the store.
HandlerStep(w) ==
    \/ \E url \in Urls : Shorten(w, url)
    \/ ShortenInvalid(w)
    \/ \E id \in Keys : Draw(w, id)
    \/ \E r : Claimed(w, r)
    \/ BloomLoad(w) \/ BloomStore(w)
    \/ \E id \in Keys : Redirect(w, id)
    \/ BloomMiss(w) \/ BloomPass(w) \/ BloomHit(w)
    \/ \E r : Found(w, r)
    \/ Send(w)

Shortened(w) == pc[w] = "reply" /\ answer[w].status = 200

\* What a worker's place says of its request.
Placed(w) ==
    /\ pc[w] \in {"draw", "setnx", "load", "store"} \/ Shortened(w) => job[w].url \in Urls
    /\ pc[w] \in {"setnx", "load", "store", "probe", "get"} \/ Shortened(w) => job[w].id \in Keys
    /\ pc[w] \in {"idle", "draw", "setnx"} => probe[w] = 1
    /\ pc[w] \in {"load", "store", "probe"} => probe[w] \in 1 .. Len(Probes[job[w].id])
    /\ pc[w] # "reply" => answer[w] = NoAnswer

\* The urls that a redirect request may expect.
Expecting(w) ==
    expected[w] # {} =>
        /\ pc[w] \in {"probe", "get", "reply"} /\ ~Shortened(w)
        /\ job[w].id \in Keys
        /\ expected[w] \subseteq acked[job[w].id]

HandlerInv == HandlerTypeOK /\ \A w \in Workers : Placed(w) /\ Expecting(w)

\* Nothing that belongs to worker v changes.
Untouched(v) ==
    /\ pc'[v] = pc[v] /\ job'[v] = job[v] /\ probe'[v] = probe[v]
    /\ tries'[v] = tries[v] /\ answer'[v] = answer[v] /\ expected'[v] = expected[v]
    /\ reg'[v] = reg[v]

-----------------------------------------------------------------------------
LEMMA HandlerInitInv == HandlerInit => HandlerInv
<1> SUFFICES ASSUME HandlerInit PROVE HandlerInv
  OBVIOUS
<1>1. HandlerTypeOK
  BY HandlerAssumption
  DEF HandlerInit, HandlerTypeOK, Pcs, NoJob, NoAnswer, Reply, Answers
<1>2. ASSUME NEW w \in Workers PROVE Placed(w) /\ Expecting(w)
  BY DEF HandlerInit, Placed, Expecting, Shortened, NoAnswer
<1>3. QED BY <1>1, <1>2 DEF HandlerInv

\* A step of one worker leaves what the others have.
LEMMA OthersUntouched ==
    ASSUME NEW w \in Workers, NEW v \in Workers, v # w, HandlerTypeOK, HandlerStep(w)
    PROVE  Untouched(v)
<1> USE DEF HandlerTypeOK, Untouched, filterVars
<1>1. ASSUME NEW url \in Urls, Shorten(w, url) PROVE Untouched(v)
  BY <1>1 DEF Shorten
<1>2. CASE ShortenInvalid(w)
  BY <1>2 DEF ShortenInvalid, Respond
<1>3. ASSUME NEW id \in Keys, Draw(w, id) PROVE Untouched(v)
  BY <1>3 DEF Draw
<1>4. ASSUME NEW r, Claimed(w, r) PROVE Untouched(v)
  BY <1>4 DEF Claimed, Respond
<1>5. CASE BloomLoad(w)
  BY <1>5 DEF BloomLoad
<1>6. CASE BloomStore(w)
  BY <1>6 DEF BloomStore, Respond
<1>7. ASSUME NEW id \in Keys, Redirect(w, id) PROVE Untouched(v)
  BY <1>7 DEF Redirect
<1>8. CASE BloomMiss(w) \/ BloomPass(w) \/ BloomHit(w)
  BY <1>8 DEF BloomMiss, BloomPass, BloomHit, Respond
<1>9. ASSUME NEW r, Found(w, r) PROVE Untouched(v)
  BY <1>9 DEF Found, Respond
<1>10. CASE Send(w)
  BY <1>10 DEF Send
<1>11. QED
  BY <1>1, <1>2, <1>3, <1>4, <1>5, <1>6, <1>7, <1>8, <1>9, <1>10 DEF HandlerStep

\* Ids are never taken back, and a step gives out an id or none.
LEMMA AckedGrows ==
    ASSUME NEW w \in Workers, HandlerTypeOK, HandlerStep(w)
    PROVE  \A id \in Keys : acked[id] \subseteq acked'[id]
<1>1. CASE Send(w)
  BY <1>1 DEF HandlerTypeOK, Send
<1>2. CASE ~Send(w)
  BY <1>2 DEF HandlerStep, Shorten, ShortenInvalid, Draw, Claimed, BloomLoad, BloomStore,
     Redirect, BloomMiss, BloomPass, BloomHit, Found
<1>3. QED BY <1>1, <1>2

\* The bit at which a worker is belongs to its id.
LEMMA BitOfId ==
    ASSUME HandlerInv, NEW w \in Workers, pc[w] \in {"load", "store", "probe"}
    PROVE  Bit(w) \in AllBits /\ job[w].id \in Keys
<1>1. job[w].id \in Keys /\ probe[w] \in 1 .. Len(Probes[job[w].id])
  BY DEF HandlerInv, Placed
<1>2. QED BY <1>1 DEF Bit, AllBits

\* A response and who has it.
LEMMA Responds ==
    ASSUME HandlerTypeOK, NEW w \in Workers, NEW status \in {200, 301, 400, 404, 500},
           NEW url \in Urls \cup {NoUrl}, Respond(w, status, url)
    PROVE  /\ (answer \in [Workers -> Answers \cup {NoAnswer}])'
           /\ answer'[w].status = status /\ answer'[w].url = url
           /\ pc'[w] = "reply"
<1>1. Reply(status, url) \in Answers
  BY DEF Reply, Answers
<1>2. answer'[w] = Reply(status, url) /\ pc'[w] = "reply"
  BY DEF HandlerTypeOK, Respond
<1>3. QED BY <1>1, <1>2 DEF HandlerTypeOK, Respond, Reply

LEMMA LenNat == \A id \in Keys : Len(Probes[id]) \in Nat \ {0}
BY HandlerAssumption

LEMMA ShortenKeeps ==
    ASSUME HandlerInv, NEW w \in Workers, NEW url \in Urls, Shorten(w, url)
    PROVE  HandlerTypeOK' /\ Placed(w)' /\ Expecting(w)'
<1>1. HandlerTypeOK /\ Placed(w) /\ Expecting(w)
  BY DEF HandlerInv
<1>2. (pc \in [Workers -> Pcs])'
  BY <1>1 DEF HandlerTypeOK, Pcs, Shorten
<1>3. (\A v \in Workers : reg[v] # {} => pc[v] = "store")'
  BY <1>1 DEF HandlerTypeOK, filterVars, Shorten
<1>4. (job \in [Workers -> [id : Keys \cup {"none"}, url : Urls \cup {NoUrl}]])'
  BY <1>1 DEF HandlerTypeOK, Shorten
<1>5. HandlerTypeOK'
  BY <1>1, <1>2, <1>3, <1>4 DEF HandlerTypeOK, Shorten, filterVars
<1>6. Placed(w)'
  BY <1>1, <1>2, <1>3, <1>4, LenNat DEF Placed, Shortened, HandlerTypeOK, Shorten, filterVars
<1>7. Expecting(w)'
  BY <1>1, <1>2, <1>3, <1>4 DEF Expecting, Shortened, HandlerTypeOK, Shorten, filterVars
<1>8. QED BY <1>5, <1>6, <1>7

LEMMA ShortenInvalidKeeps ==
    ASSUME HandlerInv, NEW w \in Workers, ShortenInvalid(w)
    PROVE  HandlerTypeOK' /\ Placed(w)' /\ Expecting(w)'
<1>1. HandlerTypeOK /\ Placed(w) /\ Expecting(w)
  BY DEF HandlerInv
<1>2. (pc \in [Workers -> Pcs])'
  BY <1>1 DEF HandlerTypeOK, Pcs, ShortenInvalid, Respond
<1>3. (\A v \in Workers : reg[v] # {} => pc[v] = "store")'
  BY <1>1 DEF HandlerTypeOK, filterVars, ShortenInvalid, Respond
<1>4. (answer \in [Workers -> Answers \cup {NoAnswer}])'
  BY <1>1 DEF HandlerTypeOK, Answers, NoAnswer, Reply, Respond, ShortenInvalid
<1>5. answer'[w].status = 400
  BY <1>1 DEF HandlerTypeOK, ShortenInvalid, Respond, Reply
<1>6. HandlerTypeOK'
  BY <1>1, <1>2, <1>3, <1>4, <1>5 DEF HandlerTypeOK, ShortenInvalid, Respond, filterVars
<1>7. Placed(w)'
  BY <1>1, <1>2, <1>3, <1>4, <1>5, LenNat DEF Placed, Shortened, HandlerTypeOK, ShortenInvalid, Respond, filterVars
<1>8. Expecting(w)'
  BY <1>1, <1>2, <1>3, <1>4, <1>5 DEF Expecting, Shortened, HandlerTypeOK, ShortenInvalid, Respond, filterVars
<1>9. QED BY <1>6, <1>7, <1>8

LEMMA DrawKeeps ==
    ASSUME HandlerInv, NEW w \in Workers, NEW id \in Keys, Draw(w, id)
    PROVE  HandlerTypeOK' /\ Placed(w)' /\ Expecting(w)'
<1>1. HandlerTypeOK /\ Placed(w) /\ Expecting(w)
  BY DEF HandlerInv
<1>2. (pc \in [Workers -> Pcs])'
  BY <1>1 DEF HandlerTypeOK, Pcs, Draw
<1>3. (\A v \in Workers : reg[v] # {} => pc[v] = "store")'
  BY <1>1 DEF HandlerTypeOK, filterVars, Draw
<1>4. (job \in [Workers -> [id : Keys \cup {"none"}, url : Urls \cup {NoUrl}]])'
  BY <1>1 DEF HandlerTypeOK, Draw
<1>5. job'[w].id = id /\ job'[w].url = job[w].url
  BY <1>1 DEF HandlerTypeOK, Draw
<1>6. HandlerTypeOK'
  BY <1>1, <1>2, <1>3, <1>4, <1>5 DEF HandlerTypeOK, Draw, filterVars
<1>7. Placed(w)'
  BY <1>1, <1>2, <1>3, <1>4, <1>5, LenNat DEF Placed, Shortened, HandlerTypeOK, Draw, filterVars
<1>8. Expecting(w)'
  BY <1>1, <1>2, <1>3, <1>4, <1>5 DEF Expecting, Shortened, HandlerTypeOK, Draw, filterVars
<1>9. QED BY <1>6, <1>7, <1>8

LEMMA ClaimedKeeps ==
    ASSUME HandlerInv, NEW w \in Workers, NEW r, Claimed(w, r)
    PROVE  HandlerTypeOK' /\ Placed(w)' /\ Expecting(w)'
<1>1. HandlerTypeOK /\ Placed(w) /\ Expecting(w)
  BY DEF HandlerInv
<1>2. (pc \in [Workers -> Pcs])'
  BY <1>1 DEF HandlerTypeOK, Pcs, Claimed, Respond
<1>3. (\A v \in Workers : reg[v] # {} => pc[v] = "store")'
  BY <1>1 DEF HandlerTypeOK, filterVars, Claimed, Respond
<1>4. (answer \in [Workers -> Answers \cup {NoAnswer}])'
  BY <1>1 DEF HandlerTypeOK, Answers, NoAnswer, Reply, Respond, Claimed
<1>5. (tries \in [Workers -> 0 .. MaxTries - 1])'
  BY <1>1, HandlerAssumption DEF HandlerTypeOK, Claimed, TriesLeft
<1>6. \/ answer'[w] = answer[w] /\ pc'[w] \in {"load", "draw"}
      \/ answer'[w].status = 500 /\ pc'[w] = "reply"
  BY <1>1, Responds DEF HandlerTypeOK, Claimed
<1>7. HandlerTypeOK'
  BY <1>1, <1>2, <1>3, <1>4, <1>5, <1>6 DEF HandlerTypeOK, Claimed, Respond, filterVars
<1>8. Placed(w)'
  BY <1>1, <1>2, <1>3, <1>4, <1>5, <1>6, LenNat DEF Placed, Shortened, HandlerTypeOK, Claimed, Respond, filterVars
<1>9. Expecting(w)'
  BY <1>1, <1>2, <1>3, <1>4, <1>5, <1>6 DEF Expecting, Shortened, HandlerTypeOK, Claimed, Respond, filterVars
<1>10. QED BY <1>7, <1>8, <1>9

LEMMA BloomLoadKeeps ==
    ASSUME HandlerInv, NEW w \in Workers, BloomLoad(w)
    PROVE  HandlerTypeOK' /\ Placed(w)' /\ Expecting(w)'
<1>1. HandlerTypeOK /\ Placed(w) /\ Expecting(w)
  BY DEF HandlerInv
<1>2. (pc \in [Workers -> Pcs])'
  BY <1>1 DEF HandlerTypeOK, Pcs, BloomLoad
<1>3. (\A v \in Workers : reg[v] # {} => pc[v] = "store")'
  BY <1>1 DEF HandlerTypeOK, BloomLoad
<1>4. Bit(w) \in AllBits
  BY BitOfId DEF BloomLoad
<1>5. (reg \in [Workers -> SUBSET AllBits])'
  BY <1>1 DEF HandlerTypeOK, BloomLoad, Keeps, InWord
<1>6. (torn \subseteq {Word(b) : b \in AllBits})'
  BY <1>1, <1>4 DEF HandlerTypeOK, BloomLoad, AllBits, Word
<1>7. HandlerTypeOK'
  BY <1>1, <1>2, <1>3, <1>4, <1>5, <1>6 DEF HandlerTypeOK, BloomLoad
<1>8. Placed(w)'
  BY <1>1, <1>2, <1>3, <1>4, <1>5, <1>6, LenNat DEF Placed, Shortened, HandlerTypeOK, BloomLoad
<1>9. Expecting(w)'
  BY <1>1, <1>2, <1>3, <1>4, <1>5, <1>6 DEF Expecting, Shortened, HandlerTypeOK, BloomLoad
<1>10. QED BY <1>7, <1>8, <1>9

LEMMA BloomStoreKeeps ==
    ASSUME HandlerInv, NEW w \in Workers, BloomStore(w)
    PROVE  HandlerTypeOK' /\ Placed(w)' /\ Expecting(w)'
<1>1. HandlerTypeOK /\ Placed(w) /\ Expecting(w)
  BY DEF HandlerInv
<1>2. (pc \in [Workers -> Pcs])'
  BY <1>1 DEF HandlerTypeOK, Pcs, BloomStore, Respond
<1>3. (\A v \in Workers : reg[v] # {} => pc[v] = "store")'
  BY <1>1 DEF HandlerTypeOK, BloomStore, Respond
<1>4. Bit(w) \in AllBits /\ job[w].id \in Keys
  BY BitOfId DEF BloomStore
<1>5. (reg \in [Workers -> SUBSET AllBits] /\ bloom \subseteq AllBits)'
  BY <1>1, <1>4 DEF HandlerTypeOK, BloomStore, AllBits, InWord
<1>6. (answer \in [Workers -> Answers \cup {NoAnswer}])'
  BY <1>1 DEF HandlerTypeOK, Answers, NoAnswer, Reply, Respond, BloomStore
<1>7. (probe \in [Workers -> Nat \ {0}])'
  BY <1>1 DEF HandlerTypeOK, BloomStore
<1>8. HandlerTypeOK'
  BY <1>1, <1>2, <1>3, <1>4, <1>5, <1>6, <1>7 DEF HandlerTypeOK, BloomStore, Respond, LastProbe
<1>9. Placed(w)'
  BY <1>1, <1>2, <1>3, <1>4, <1>5, <1>6, <1>7, LenNat DEF Placed, Shortened, HandlerTypeOK, BloomStore, Respond, LastProbe
<1>10. Expecting(w)'
  BY <1>1, <1>2, <1>3, <1>4, <1>5, <1>6, <1>7 DEF Expecting, Shortened, HandlerTypeOK, BloomStore, Respond, LastProbe
<1>11. QED BY <1>8, <1>9, <1>10

LEMMA RedirectKeeps ==
    ASSUME HandlerInv, NEW w \in Workers, NEW id \in Keys, Redirect(w, id)
    PROVE  HandlerTypeOK' /\ Placed(w)' /\ Expecting(w)'
<1>1. HandlerTypeOK /\ Placed(w) /\ Expecting(w)
  BY DEF HandlerInv
<1>2. (pc \in [Workers -> Pcs])'
  BY <1>1 DEF HandlerTypeOK, Pcs, Redirect
<1>3. (\A v \in Workers : reg[v] # {} => pc[v] = "store")'
  BY <1>1 DEF HandlerTypeOK, filterVars, Redirect
<1>4. (job \in [Workers -> [id : Keys \cup {"none"}, url : Urls \cup {NoUrl}]])'
  BY <1>1 DEF HandlerTypeOK, Redirect
<1>5. (expected \in [Workers -> SUBSET Urls])'
  BY <1>1 DEF HandlerTypeOK, Redirect
<1>6. probe'[w] = 1 /\ job'[w].id = id /\ expected'[w] = acked[id]
  BY <1>1 DEF HandlerTypeOK, Placed, Redirect
<1>7. HandlerTypeOK'
  BY <1>1, <1>2, <1>3, <1>4, <1>5, <1>6 DEF HandlerTypeOK, Redirect, filterVars
<1>8. Placed(w)'
  BY <1>1, <1>2, <1>3, <1>4, <1>5, <1>6, LenNat DEF Placed, Shortened, HandlerTypeOK, Redirect, filterVars
<1>9. Expecting(w)'
  BY <1>1, <1>2, <1>3, <1>4, <1>5, <1>6 DEF Expecting, Shortened, HandlerTypeOK, Redirect, filterVars
<1>10. QED BY <1>7, <1>8, <1>9

LEMMA BloomMissKeeps ==
    ASSUME HandlerInv, NEW w \in Workers, BloomMiss(w)
    PROVE  HandlerTypeOK' /\ Placed(w)' /\ Expecting(w)'
<1>1. HandlerTypeOK /\ Placed(w) /\ Expecting(w)
  BY DEF HandlerInv
<1>2. (pc \in [Workers -> Pcs])'
  BY <1>1 DEF HandlerTypeOK, Pcs, BloomMiss, Respond
<1>3. (\A v \in Workers : reg[v] # {} => pc[v] = "store")'
  BY <1>1 DEF HandlerTypeOK, filterVars, BloomMiss, Respond
<1>4. (answer \in [Workers -> Answers \cup {NoAnswer}])'
  BY <1>1 DEF HandlerTypeOK, Answers, NoAnswer, Reply, Respond, BloomMiss
<1>5. answer'[w].status = 404
  BY <1>1 DEF HandlerTypeOK, BloomMiss, Respond, Reply
<1>6. HandlerTypeOK'
  BY <1>1, <1>2, <1>3, <1>4, <1>5 DEF HandlerTypeOK, BloomMiss, Respond, filterVars
<1>7. Placed(w)'
  BY <1>1, <1>2, <1>3, <1>4, <1>5, LenNat DEF Placed, Shortened, HandlerTypeOK, BloomMiss, Respond, filterVars
<1>8. Expecting(w)'
  BY <1>1, <1>2, <1>3, <1>4, <1>5 DEF Expecting, Shortened, HandlerTypeOK, BloomMiss, Respond, filterVars
<1>9. QED BY <1>6, <1>7, <1>8

LEMMA BloomPassKeeps ==
    ASSUME HandlerInv, NEW w \in Workers, BloomPass(w)
    PROVE  HandlerTypeOK' /\ Placed(w)' /\ Expecting(w)'
<1>1. HandlerTypeOK /\ Placed(w) /\ Expecting(w)
  BY DEF HandlerInv
<1>2. (\A v \in Workers : reg[v] # {} => pc[v] = "store")'
  BY <1>1 DEF HandlerTypeOK, filterVars, BloomPass
<1>3. (probe \in [Workers -> Nat \ {0}])'
  BY <1>1 DEF HandlerTypeOK, BloomPass
<1>4. HandlerTypeOK'
  BY <1>1, <1>2, <1>3 DEF HandlerTypeOK, BloomPass, LastProbe, filterVars
<1>5. Placed(w)'
  BY <1>1, <1>2, <1>3, LenNat DEF Placed, Shortened, HandlerTypeOK, BloomPass, LastProbe, filterVars
<1>6. Expecting(w)'
  BY <1>1, <1>2, <1>3 DEF Expecting, Shortened, HandlerTypeOK, BloomPass, LastProbe, filterVars
<1>7. QED BY <1>4, <1>5, <1>6

LEMMA BloomHitKeeps ==
    ASSUME HandlerInv, NEW w \in Workers, BloomHit(w)
    PROVE  HandlerTypeOK' /\ Placed(w)' /\ Expecting(w)'
<1>1. HandlerTypeOK /\ Placed(w) /\ Expecting(w)
  BY DEF HandlerInv
<1>2. (pc \in [Workers -> Pcs])'
  BY <1>1 DEF HandlerTypeOK, Pcs, BloomHit
<1>3. (\A v \in Workers : reg[v] # {} => pc[v] = "store")'
  BY <1>1 DEF HandlerTypeOK, filterVars, BloomHit
<1>4. HandlerTypeOK'
  BY <1>1, <1>2, <1>3 DEF HandlerTypeOK, BloomHit, filterVars
<1>5. Placed(w)'
  BY <1>1, <1>2, <1>3, LenNat DEF Placed, Shortened, HandlerTypeOK, BloomHit, filterVars
<1>6. Expecting(w)'
  BY <1>1, <1>2, <1>3 DEF Expecting, Shortened, HandlerTypeOK, BloomHit, filterVars
<1>7. QED BY <1>4, <1>5, <1>6

LEMMA FoundKeeps ==
    ASSUME HandlerInv, NEW w \in Workers, NEW r, Found(w, r)
    PROVE  HandlerTypeOK' /\ Placed(w)' /\ Expecting(w)'
<1>1. HandlerTypeOK /\ Placed(w) /\ Expecting(w)
  BY DEF HandlerInv
<1>2. (pc \in [Workers -> Pcs])'
  BY <1>1 DEF HandlerTypeOK, Pcs, Found, Respond
<1>3. (\A v \in Workers : reg[v] # {} => pc[v] = "store")'
  BY <1>1 DEF HandlerTypeOK, filterVars, Found, Respond
<1>4. (answer \in [Workers -> Answers \cup {NoAnswer}])'
  BY <1>1, Responds DEF Found
<1>5. answer'[w].status \in {301, 404, 500}
  BY <1>1, Responds DEF Found
<1>6. HandlerTypeOK'
  BY <1>1, <1>2, <1>3, <1>4, <1>5 DEF HandlerTypeOK, Found, Respond, filterVars
<1>7. Placed(w)'
  BY <1>1, <1>2, <1>3, <1>4, <1>5, LenNat DEF Placed, Shortened, HandlerTypeOK, Found, Respond, filterVars
<1>8. Expecting(w)'
  BY <1>1, <1>2, <1>3, <1>4, <1>5 DEF Expecting, Shortened, HandlerTypeOK, Found, Respond, filterVars
<1>9. QED BY <1>6, <1>7, <1>8

LEMMA SendKeeps ==
    ASSUME HandlerInv, NEW w \in Workers, Send(w)
    PROVE  HandlerTypeOK' /\ Placed(w)' /\ Expecting(w)'
<1>1. HandlerTypeOK /\ Placed(w) /\ Expecting(w)
  BY DEF HandlerInv
<1>2. (pc \in [Workers -> Pcs])'
  BY <1>1 DEF HandlerTypeOK, Pcs, Send
<1>3. (\A v \in Workers : reg[v] # {} => pc[v] = "store")'
  BY <1>1 DEF HandlerTypeOK, filterVars, Send
<1>4. (job \in [Workers -> [id : Keys \cup {"none"}, url : Urls \cup {NoUrl}]])'
  BY <1>1 DEF HandlerTypeOK, Send, NoJob
<1>5. (answer \in [Workers -> Answers \cup {NoAnswer}])'
  BY <1>1 DEF HandlerTypeOK, Send
<1>6. (tries \in [Workers -> 0 .. MaxTries - 1] /\ probe \in [Workers -> Nat \ {0}])'
  BY <1>1, HandlerAssumption DEF HandlerTypeOK, Send
<1>7. (acked \in [Keys -> SUBSET Urls])'
  BY <1>1 DEF HandlerTypeOK, Send, Placed, Shortened
<1>8. HandlerTypeOK'
  BY <1>1, <1>2, <1>3, <1>4, <1>5, <1>6, <1>7 DEF HandlerTypeOK, Send, filterVars
<1>9. Placed(w)'
  BY <1>1, <1>2, <1>3, <1>4, <1>5, <1>6, <1>7, LenNat DEF Placed, Shortened, HandlerTypeOK, Send, filterVars
<1>10. Expecting(w)'
  BY <1>1, <1>2, <1>3, <1>4, <1>5, <1>6, <1>7 DEF Expecting, Shortened, HandlerTypeOK, Send, filterVars
<1>11. QED BY <1>8, <1>9, <1>10

\* Each step of a handler keeps the invariant.
LEMMA HandlerStepKeeps ==
    ASSUME HandlerInv, NEW w \in Workers, HandlerStep(w)
    PROVE  HandlerInv'
<1>1. HandlerTypeOK' /\ Placed(w)' /\ Expecting(w)'
  BY ShortenKeeps, ShortenInvalidKeeps, DrawKeeps, ClaimedKeeps, BloomLoadKeeps,
     BloomStoreKeeps, RedirectKeeps, BloomMissKeeps, BloomPassKeeps, BloomHitKeeps,
     FoundKeeps, SendKeeps DEF HandlerStep
<1>2. ASSUME NEW v \in Workers, v # w PROVE Placed(v)' /\ Expecting(v)'
  <2>1. Placed(v) /\ Expecting(v) /\ HandlerTypeOK
    BY DEF HandlerInv
  <2>2. Untouched(v)
    BY <1>2, <2>1, OthersUntouched
  <2>3. \A id \in Keys : acked[id] \subseteq acked'[id]
    BY <2>1, AckedGrows
  <2>4. Placed(v)'
    BY <2>1, <2>2 DEF Placed, Shortened, Untouched
  <2>5. Expecting(v)'
    BY <2>1, <2>2, <2>3 DEF Expecting, Shortened, Untouched
  <2>6. QED BY <2>4, <2>5
<1>3. QED BY <1>1, <1>2 DEF HandlerInv

-----------------------------------------------------------------------------
\* The first n bits of the id are in the filter, torn words apart.
Marked(id, n) == \A i \in 1 .. n : Probes[id][i] \in bloom \/ Word(Probes[id][i]) \in torn

\* A worker about to write a word back holds it as it is, unless another is about
\* to do the same or was.
Alone(w) ==
    pc[w] = "store" =>
        /\ \A b \in reg[w] : Word(b) = Word(Bit(w))
        /\ Word(Bit(w)) \notin torn =>
              /\ reg[w] = InWord(Bit(w))
              /\ \A v \in Workers \ {w} : pc[v] = "store" => Word(Bit(v)) # Word(Bit(w))

\* What a worker has set of its id's bits, or has found set.
Marking(w) ==
    /\ pc[w] \in {"load", "store", "probe"} => Marked(job[w].id, probe[w] - 1)
    /\ pc[w] = "get" \/ Shortened(w) => Marked(job[w].id, Len(Probes[job[w].id]))

\* The filter knows every id given out since the program was started, torn words
\* apart.
AckedMarked ==
    \A id \in Keys \ forgotten : acked[id] # {} => Marked(id, Len(Probes[id]))

FilterInv == AckedMarked /\ \A w \in Workers : Alone(w) /\ Marking(w)

LEMMA FilterInitInv == HandlerInit => FilterInv
BY DEF HandlerInit, FilterInv, AckedMarked, Alone, Marking, Shortened, NoAnswer

\* Every step but the two halves of `|=` leaves the filter alone.
LEMMA FilterQuiet ==
    ASSUME HandlerTypeOK, NEW w \in Workers, HandlerStep(w), ~BloomLoad(w), ~BloomStore(w)
    PROVE  UNCHANGED filterVars /\ pc'[w] # "store"
<1> USE DEF HandlerTypeOK
<1>1. UNCHANGED filterVars
  BY DEF HandlerStep, Shorten, ShortenInvalid, Draw, Claimed, Redirect, BloomMiss,
     BloomPass, BloomHit, Found, Send
<1>2. ASSUME NEW r, Claimed(w, r) PROVE pc'[w] # "store"
  BY <1>2 DEF Claimed, Respond
<1>3. ASSUME NEW r, Found(w, r) PROVE pc'[w] # "store"
  BY <1>3 DEF Found, Respond
<1>4. CASE BloomMiss(w) \/ BloomPass(w) \/ BloomHit(w) \/ Send(w) \/ ShortenInvalid(w)
  BY <1>4 DEF BloomMiss, BloomPass, BloomHit, Send, ShortenInvalid, Respond
<1>5. ASSUME NEW id \in Keys, Draw(w, id) \/ Redirect(w, id) PROVE pc'[w] # "store"
  BY <1>5 DEF Draw, Redirect
<1>6. ASSUME NEW url \in Urls, Shorten(w, url) PROVE pc'[w] # "store"
  BY <1>6 DEF Shorten
<1>7. QED BY <1>1, <1>2, <1>3, <1>4, <1>5, <1>6 DEF HandlerStep

LEMMA ForgottenStays ==
    ASSUME NEW w \in Workers, HandlerStep(w)
    PROVE  forgotten' = forgotten
BY DEF HandlerStep, Shorten, ShortenInvalid, Draw, Claimed, BloomLoad, BloomStore, Redirect,
   BloomMiss, BloomPass, BloomHit, Found, Send, filterVars

\* A bit of the filter is lost only with a torn word.
LEMMA BitsStay ==
    ASSUME HandlerInv, FilterInv, NEW w \in Workers, HandlerStep(w)
    PROVE  /\ torn \subseteq torn'
           /\ \A b \in bloom : b \in bloom' \/ Word(b) \in torn'
<1>1. CASE BloomLoad(w)
  BY <1>1 DEF BloomLoad
<1>2. CASE BloomStore(w)
  <2>1. Alone(w) /\ torn' = torn /\ pc[w] = "store"
        /\ bloom' = (bloom \ InWord(Bit(w))) \cup reg[w] \cup {Bit(w)}
    BY <1>2 DEF BloomStore, FilterInv
  <2>2. QED BY <2>1 DEF Alone, InWord
<1>3. CASE ~BloomLoad(w) /\ ~BloomStore(w)
  BY <1>3, FilterQuiet DEF HandlerInv, filterVars
<1>4. QED BY <1>1, <1>2, <1>3

LEMMA MarkedStays ==
    ASSUME HandlerInv, FilterInv, NEW w \in Workers, HandlerStep(w), NEW id, NEW n, Marked(id, n)
    PROVE  Marked(id, n)'
BY BitsStay DEF Marked

\* The two halves of `|=` against each other.
LEMMA AloneKept ==
    ASSUME HandlerInv, FilterInv, NEW w \in Workers, HandlerStep(w), NEW v \in Workers
    PROVE  Alone(v)'
<1> HandlerTypeOK
  BY DEF HandlerInv
<1>1. \A u \in Workers \ {w} : pc'[u] = pc[u] /\ Bit(u)' = Bit(u) /\ reg'[u] = reg[u]
  BY OthersUntouched DEF Untouched, Bit
<1>2. \A u \in Workers : Alone(u)
  BY DEF FilterInv
<1>3. CASE BloomLoad(w)
  <2>1. /\ pc[w] = "load" /\ pc'[w] = "store" /\ bloom' = bloom /\ Bit(w)' = Bit(w)
        /\ reg'[w] = InWord(Bit(w))
        /\ torn \subseteq torn'
    BY <1>3 DEF HandlerTypeOK, BloomLoad, Bit, Keeps
  <2>2. \A u \in Workers : pc[u] = "store" /\ Word(Bit(u)) = Word(Bit(w)) => Word(Bit(w)) \in torn'
    BY <1>3 DEF BloomLoad
  <2>3. \A u \in Workers : InWord(Bit(u))' = InWord(Bit(u))
    BY <2>1, <1>1 DEF InWord
  <2>4. CASE v = w
    BY <1>1, <2>1, <2>2, <2>3, <2>4 DEF Alone, InWord
  <2>5. CASE v # w
    BY <1>1, <1>2, <2>1, <2>2, <2>3, <2>5 DEF Alone
  <2>6. QED BY <2>4, <2>5
<1>4. CASE BloomStore(w)
  <2>1. /\ pc[w] = "store" /\ pc'[w] # "store" /\ torn' = torn
        /\ bloom' = (bloom \ InWord(Bit(w))) \cup reg[w] \cup {Bit(w)}
    BY <1>4 DEF HandlerTypeOK, BloomStore, Respond
  <2>2. CASE v = w
    BY <2>1, <2>2 DEF Alone
  <2>3. ASSUME v # w, pc[v] = "store", Word(Bit(v)) \notin torn
        PROVE  InWord(Bit(v))' = InWord(Bit(v))
    <3>1. Word(Bit(w)) # Word(Bit(v)) /\ \A b \in reg[w] : Word(b) = Word(Bit(w))
      BY <1>2, <2>1, <2>3 DEF Alone
    <3>2. Bit(v)' = Bit(v)
      BY <1>1, <2>3
    <3>3. QED BY <2>1, <3>1, <3>2 DEF InWord
  <2>4. CASE v # w
    BY <1>1, <1>2, <2>1, <2>3, <2>4 DEF Alone
  <2>5. QED BY <2>2, <2>4
<1>5. CASE ~BloomLoad(w) /\ ~BloomStore(w)
  <2>1. UNCHANGED <<reg, bloom, torn>> /\ pc'[w] # "store"
    BY <1>5, FilterQuiet DEF filterVars
  <2>2. CASE v = w
    BY <2>1, <2>2 DEF Alone
  <2>3. CASE v # w
    <3>1. InWord(Bit(v))' = InWord(Bit(v))
      BY <1>1, <2>1, <2>3 DEF InWord
    <3>2. QED BY <1>1, <1>2, <2>1, <2>3, <3>1 DEF Alone
  <2>4. QED BY <2>2, <2>3
<1>6. QED BY <1>3, <1>4, <1>5

\* One bit more.
LEMMA MarkedNext ==
    ASSUME NEW id, NEW n \in Nat \ {0}
    PROVE  /\ Marked(id, n - 1) /\ Probes[id][n] \in bloom => Marked(id, n)
           /\ Marked(id, n - 1)' /\ Probes[id][n] \in bloom' => Marked(id, n)'
<1>1. \A i \in 1 .. n : i = n \/ i \in 1 .. n - 1
  OBVIOUS
<1>2. QED BY <1>1 DEF Marked

\* A worker's own bits.
LEMMA MarkingKept ==
    ASSUME HandlerInv, FilterInv, NEW w \in Workers, HandlerStep(w)
    PROVE  Marking(w)'
<1> HandlerTypeOK /\ Placed(w) /\ Marking(w)
  BY DEF HandlerInv, FilterInv
<1>1. PICK id, n, last : id = job[w].id /\ n = probe[w] /\ last = Len(Probes[id])
  OBVIOUS
<1>2. \A k, m : Marked(k, m) => Marked(k, m)'
  BY MarkedStays
<1>3. CASE BloomLoad(w)
  <2>1. pc[w] = "load" /\ pc'[w] = "store" /\ UNCHANGED <<job, probe>>
    BY <1>3 DEF HandlerTypeOK, BloomLoad
  <2>2. Marked(id, n - 1)'
    BY <1>1, <1>2, <2>1 DEF Marking
  <2>3. QED BY <1>1, <2>1, <2>2 DEF Marking, Shortened
<1>4. CASE BloomStore(w)
  <2>1. /\ pc[w] = "store" /\ job' = job /\ Probes[id][n] \in bloom'
        /\ n \in Nat \ {0}
    BY <1>1, <1>4 DEF BloomStore, Bit, HandlerTypeOK
  <2>2. Marked(id, n - 1)'
    BY <1>1, <1>2, <2>1 DEF Marking
  <2>3. Marked(id, n)'
    BY <2>1, <2>2, MarkedNext
  <2>4. \/ pc'[w] = "load" /\ probe'[w] - 1 = n
        \/ pc'[w] = "reply" /\ n = last
    BY <1>1, <1>4, <2>1 DEF HandlerTypeOK, BloomStore, LastProbe, Respond
  <2>5. QED BY <1>1, <2>1, <2>3, <2>4 DEF Marking, Shortened
<1>5. CASE BloomPass(w) \/ BloomHit(w)
  <2>1. /\ pc[w] = "probe" /\ job' = job /\ Probes[id][n] \in bloom
        /\ n \in Nat \ {0}
    BY <1>1, <1>5 DEF BloomPass, BloomHit, Bit, HandlerTypeOK
  <2>2. Marked(id, n)'
    BY <1>1, <1>2, <2>1, MarkedNext DEF Marking
  <2>3. \/ pc'[w] = "probe" /\ probe'[w] - 1 = n
        \/ pc'[w] = "get" /\ n = last
    BY <1>1, <1>5, <2>1 DEF HandlerTypeOK, BloomPass, BloomHit, LastProbe
  <2>4. QED BY <1>1, <2>1, <2>2, <2>3 DEF Marking, Shortened
<1>6. ASSUME NEW r, Claimed(w, r) PROVE Marking(w)'
  <2>1. \/ pc'[w] = "load" /\ probe'[w] = 1
        \/ pc'[w] = "draw"
        \/ pc'[w] = "reply" /\ answer'[w].status # 200
    <3>1. CASE Respond(w, 500, NoUrl)
      BY <3>1, Responds
    <3>2. CASE ~Respond(w, 500, NoUrl)
      BY <1>6, <3>2 DEF HandlerTypeOK, Claimed, Placed
    <3>3. QED BY <3>1, <3>2
  <2>2. QED BY <2>1 DEF Marking, Shortened, Marked
<1>7. ASSUME NEW r, Found(w, r) PROVE Marking(w)'
  <2>1. pc'[w] = "reply" /\ answer'[w].status # 200
    BY <1>7, Responds DEF Found
  <2>2. QED BY <2>1 DEF Marking, Shortened
<1>8. CASE BloomMiss(w) \/ ShortenInvalid(w)
  <2>1. pc'[w] = "reply" /\ answer'[w].status # 200
    BY <1>8, Responds DEF BloomMiss, ShortenInvalid
  <2>2. QED BY <2>1 DEF Marking, Shortened
<1>9. ASSUME NEW k \in Keys, Redirect(w, k) PROVE Marking(w)'
  <2>1. pc'[w] = "probe" /\ probe'[w] = 1
    BY <1>9 DEF HandlerTypeOK, Placed, Redirect
  <2>2. QED BY <2>1 DEF Marking, Shortened, Marked
<1>10. ASSUME NEW k \in Keys, Draw(w, k) PROVE Marking(w)'
  BY <1>10 DEF HandlerTypeOK, Draw, Marking, Shortened
<1>11. CASE Send(w)
  BY <1>11 DEF HandlerTypeOK, Send, Marking, Shortened
<1>12. ASSUME NEW url \in Urls, Shorten(w, url) PROVE Marking(w)'
  BY <1>12 DEF HandlerTypeOK, Shorten, Marking, Shortened
<1>13. QED BY <1>3, <1>4, <1>5, <1>6, <1>7, <1>8, <1>9, <1>10, <1>11, <1>12 DEF HandlerStep

\* Each step of a handler keeps what the filter knows.
LEMMA FilterStepKeeps ==
    ASSUME HandlerInv, FilterInv, NEW w \in Workers, HandlerStep(w)
    PROVE  FilterInv'
<1> HandlerTypeOK /\ \A v \in Workers : Placed(v) /\ Marking(v)
  BY DEF HandlerInv, FilterInv
<1>1. ASSUME NEW v \in Workers PROVE Alone(v)'
  BY AloneKept
<1>2. ASSUME NEW v \in Workers PROVE Marking(v)'
  <2>1. CASE v = w
    BY <2>1, MarkingKept
  <2>2. CASE v # w
    BY <2>2, OthersUntouched, MarkedStays DEF Untouched, Marking, Shortened
  <2>3. QED BY <2>1, <2>2
<1>3. ASSUME NEW id \in Keys \ forgotten', acked'[id] # {} PROVE Marked(id, Len(Probes[id]))'
  <2> id \in Keys \ forgotten
    BY ForgottenStays
  <2>1. CASE acked[id] # {}
    BY <2>1, MarkedStays DEF FilterInv, AckedMarked
  <2>2. CASE acked[id] = {}
    <3>1. Send(w)
      BY <1>3, <2>2 DEF HandlerStep, Shorten, ShortenInvalid, Draw, Claimed, BloomLoad,
         BloomStore, Redirect, BloomMiss, BloomPass, BloomHit, Found
    <3>2. Shortened(w) /\ job[w].id = id
      BY <1>3, <2>2, <3>1 DEF HandlerTypeOK, Send, Shortened
    <3>3. QED BY <3>2, MarkedStays DEF Marking
  <2>3. QED BY <2>1, <2>2
<1>4. QED BY <1>1, <1>2, <1>3 DEF FilterInv, AckedMarked

\* A restart leaves no request and an empty filter, which then knows every id that
\* it has to.
LEMMA StartKeeps ==
    ASSUME HandlerInv, StartAnew
    PROVE  HandlerInv' /\ FilterInv'
<1> USE DEF StartAnew
<1>1. HandlerTypeOK /\ acked' = acked
  BY DEF HandlerInv
<1>2. HandlerTypeOK'
  <2>1. MaxTries - 1 \in Nat /\ 0 \in 0 .. MaxTries - 1
    BY HandlerAssumption
  <2>2. (forgotten \subseteq Keys)'
    BY <1>1 DEF HandlerTypeOK
  <2>3. NoJob \in [id : Keys \cup {"none"}, url : Urls \cup {NoUrl}]
    BY DEF NoJob
  <2>4. (\A w \in Workers : reg[w] # {} => pc[w] = "store")'
    OBVIOUS
  <2>5. (acked \in [Keys -> SUBSET Urls])'
    BY <1>1 DEF HandlerTypeOK
  <2>6. QED BY <2>1, <2>2, <2>3, <2>4, <2>5 DEF HandlerTypeOK, Pcs
<1>3. ASSUME NEW w \in Workers PROVE (Placed(w) /\ Expecting(w))'
  BY DEF Placed, Expecting, Shortened, NoAnswer
<1>4. ASSUME NEW w \in Workers PROVE (Alone(w) /\ Marking(w))'
  BY DEF Alone, Marking, Shortened
<1>5. AckedMarked'
  BY <1>1 DEF AckedMarked
<1>6. QED BY <1>2, <1>3, <1>4, <1>5 DEF HandlerInv, FilterInv

LEMMA HandlersStand ==
    ASSUME UNCHANGED handlerVars
    PROVE  (HandlerInv => HandlerInv') /\ (FilterInv => FilterInv')
<1> USE DEF handlerVars, requestVars, filterVars
<1>1. ASSUME HandlerInv PROVE HandlerInv'
  <2>1. HandlerTypeOK'
    BY <1>1 DEF HandlerInv, HandlerTypeOK
  <2>2. ASSUME NEW w \in Workers PROVE (Placed(w) /\ Expecting(w))'
    BY <1>1 DEF HandlerInv, Placed, Expecting, Shortened
  <2>3. QED BY <2>1, <2>2 DEF HandlerInv
<1>2. ASSUME FilterInv PROVE FilterInv'
  <2>1. ASSUME NEW w \in Workers PROVE Alone(w)'
    BY <1>2 DEF FilterInv, Alone, Bit, InWord
  <2>2. ASSUME NEW w \in Workers PROVE Marking(w)'
    BY <1>2 DEF FilterInv, Marking, Shortened, Marked
  <2>3. AckedMarked'
    BY <1>2 DEF FilterInv, AckedMarked, Marked
  <2>4. QED BY <2>1, <2>2, <2>3 DEF FilterInv
<1>3. QED BY <1>1, <1>2
=============================================================================
