---------------------------- MODULE UrlHandlers ----------------------------
(***************************************************************************)
(* ShortenHandler and RedirectHandler, run by several worker threads, and  *)
(* the Bloom filter that they share without a lock.  The store is another  *)
(* module: a handler step that calls it, or that takes its result, is      *)
(* joined with the store's step by the module that composes the two.       *)
(*                                                                         *)
(* A word of the filter is read and written back by `bits_[i>>6] |= mask`  *)
(* without synchronisation: two steps, between which another worker may    *)
(* write the same word.                                                    *)
(***************************************************************************)
EXTENDS Integers, Sequences

CONSTANTS
    Workers,    \* threads of the HTTP server
    Keys,       \* short ids
    Urls,       \* valid long urls
    NoUrl,      \* no url
    Probes,     \* Probes[id]: the bits that add and mightContain use, in order
    WordSize,   \* bits in a word of the filter, 64 in the code
    MaxTries    \* ids that a shorten request draws at most, 5 in the code

ASSUME HandlerAssumption ==
    /\ Probes \in [Keys -> Seq(Nat)]
    /\ \A id \in Keys : Len(Probes[id]) > 0
    /\ WordSize \in Nat \ {0}
    /\ MaxTries \in Nat \ {0}
    /\ NoUrl \notin Urls

VARIABLES
    pc,         \* where each worker is in its handler
    job,        \* id and url of the request; the id of a shorten is drawn
    tries,      \* i of the loop over ids
    probe,      \* i of the loop over bits
    reg,        \* the word that a worker has read to set a bit in it
    bloom,      \* the bits of the filter that are 1
    answer,     \* the response of each worker
    \* History, which no step of the code reads:
    acked,      \* urls that each id has been given out for
    expected,   \* of these, when the redirect request began
    torn,       \* words that two workers were setting bits in at once
    forgotten   \* ids that had been given out before the program was restarted

requestVars == <<pc, job, tries, probe, answer, expected>>
filterVars == <<reg, bloom, torn, forgotten>>
handlerVars == <<requestVars, filterVars, acked>>

Pcs == {"idle", "draw", "setnx", "load", "store", "probe", "get", "reply"}
NoJob == [id |-> "none", url |-> NoUrl]
Reply(status, url) == [status |-> status, url |-> url]
NoAnswer == Reply(0, NoUrl)

Word(bit) == bit \div WordSize
Bit(w) == Probes[job[w].id][probe[w]]
LastProbe(w) == probe[w] = Len(Probes[job[w].id])

HandlerInit ==
    /\ pc = [w \in Workers |-> "idle"]
    /\ job = [w \in Workers |-> NoJob]
    /\ tries = [w \in Workers |-> 0]
    /\ probe = [w \in Workers |-> 1]
    /\ reg = [w \in Workers |-> {}]
    /\ bloom = {}
    /\ answer = [w \in Workers |-> NoAnswer]
    /\ acked = [id \in Keys |-> {}]
    /\ expected = [w \in Workers |-> {}]
    /\ torn = {}
    /\ forgotten = {}

\* The program starts anew: its filter is empty and no handler runs.
StartAnew ==
    /\ pc' = [w \in Workers |-> "idle"]
    /\ job' = [w \in Workers |-> NoJob]
    /\ tries' = [w \in Workers |-> 0]
    /\ probe' = [w \in Workers |-> 1]
    /\ reg' = [w \in Workers |-> {}]
    /\ bloom' = {} /\ torn' = {}
    /\ answer' = [w \in Workers |-> NoAnswer]
    /\ expected' = [w \in Workers |-> {}]
    /\ forgotten' = forgotten \cup {id \in Keys : acked[id] # {}}
    /\ UNCHANGED acked

\* Worker w leaves its handler with a response.
Respond(w, status, url) ==
    /\ pc' = [pc EXCEPT ![w] = "reply"]
    /\ answer' = [answer EXCEPT ![w] = Reply(status, url)]

-----------------------------------------------------------------------------
\* POST /api/shorten with a body that parseJson and UrlValidator accept.
Shorten(w, url) ==
    /\ pc[w] = "idle"
    /\ pc' = [pc EXCEPT ![w] = "draw"]
    /\ job' = [job EXCEPT ![w] = [id |-> "none", url |-> url]]
    /\ UNCHANGED <<tries, probe, answer, expected, filterVars, acked>>

\* POST /api/shorten with any other body.
ShortenInvalid(w) ==
    /\ pc[w] = "idle"
    /\ Respond(w, 400, NoUrl)
    /\ UNCHANGED <<job, tries, probe, expected, filterVars, acked>>

\* ShortId::random gives id, and the store's setNX is called for it.
Draw(w, id) ==
    /\ pc[w] = "draw"
    /\ pc' = [pc EXCEPT ![w] = "setnx"]
    /\ job' = [job EXCEPT ![w].id = id]
    /\ UNCHANGED <<tries, probe, answer, expected, filterVars, acked>>

\* Variants with a fault: the loop runs one round too far, or ends one too early.
TriesLeftTooLong(w) == tries[w] + 1 <= MaxTries
TriesLeftTooShort(w) == tries[w] + 2 < MaxTries

\* Whether the loop over ids goes on after a failure.
TriesLeft(w) == tries[w] + 1 < MaxTries

\* setNX has returned r, or thrown.
Claimed(w, r) ==
    /\ pc[w] = "setnx"
    /\ \/ /\ r = "true"
          /\ pc' = [pc EXCEPT ![w] = "load"]
          /\ UNCHANGED <<tries, answer>>
       \/ /\ r = "false" /\ TriesLeft(w)
          /\ pc' = [pc EXCEPT ![w] = "draw"]
          /\ tries' = [tries EXCEPT ![w] = @ + 1]
          /\ UNCHANGED answer
       \/ /\ r = "false" /\ ~TriesLeft(w)
          /\ Respond(w, 500, NoUrl)
          /\ UNCHANGED tries
       \/ /\ r = "threw"
          /\ Respond(w, 500, NoUrl)
          /\ UNCHANGED tries
    /\ UNCHANGED <<job, probe, expected, filterVars, acked>>

InWord(bit) == {b \in bloom : Word(b) = Word(bit)}

\* Variant with a fault: bits_[i>>6] = mask, an assignment without the or.
KeepsNone(w) == {}

\* The bits of the word that `|=` keeps.
Keeps(w) == InWord(Bit(w))

\* Bloom::add, the read of the word.
BloomLoad(w) ==
    /\ pc[w] = "load"
    /\ pc' = [pc EXCEPT ![w] = "store"]
    /\ reg' = [reg EXCEPT ![w] = Keeps(w)]
    /\ torn' = IF \E v \in Workers : pc[v] = "store" /\ Word(Bit(v)) = Word(Bit(w))
                  THEN torn \cup {Word(Bit(w))} ELSE torn
    /\ UNCHANGED <<job, tries, probe, answer, expected, bloom, acked, forgotten>>

\* Bloom::add, the write of the word; then the next bit, or the response.
BloomStore(w) ==
    /\ pc[w] = "store"
    /\ bloom' = (bloom \ InWord(Bit(w))) \cup reg[w] \cup {Bit(w)}
    /\ reg' = [reg EXCEPT ![w] = {}]
    /\ \/ /\ ~LastProbe(w)
          /\ pc' = [pc EXCEPT ![w] = "load"]
          /\ probe' = [probe EXCEPT ![w] = @ + 1]
          /\ UNCHANGED answer
       \/ /\ LastProbe(w)
          /\ Respond(w, 200, NoUrl)
          /\ UNCHANGED probe
    /\ UNCHANGED <<job, tries, expected, torn, acked, forgotten>>

-----------------------------------------------------------------------------
\* GET /s/{id}.
Redirect(w, id) ==
    /\ pc[w] = "idle"
    /\ pc' = [pc EXCEPT ![w] = "probe"]
    /\ job' = [job EXCEPT ![w] = [id |-> id, url |-> NoUrl]]
    /\ expected' = [expected EXCEPT ![w] = acked[id]]
    /\ UNCHANGED <<tries, probe, answer, filterVars, acked>>

\* Bloom::mightContain meets a bit that is 0: no such id.
BloomMiss(w) ==
    /\ pc[w] = "probe"
    /\ Bit(w) \notin bloom
    /\ Respond(w, 404, NoUrl)
    /\ UNCHANGED <<job, tries, probe, expected, filterVars, acked>>

\* It meets a 1 that is not the last.
BloomPass(w) ==
    /\ pc[w] = "probe"
    /\ Bit(w) \in bloom /\ ~LastProbe(w)
    /\ probe' = [probe EXCEPT ![w] = @ + 1]
    /\ UNCHANGED <<pc, job, tries, answer, expected, filterVars, acked>>

\* All bits are 1: the store's get is called.
BloomHit(w) ==
    /\ pc[w] = "probe"
    /\ Bit(w) \in bloom /\ LastProbe(w)
    /\ pc' = [pc EXCEPT ![w] = "get"]
    /\ UNCHANGED <<job, tries, probe, answer, expected, filterVars, acked>>

\* get has returned r, or thrown.
Found(w, r) ==
    /\ pc[w] = "get"
    /\ \/ r = "threw" /\ Respond(w, 500, NoUrl)
       \/ r = NoUrl /\ Respond(w, 404, NoUrl)
       \/ r \in Urls /\ Respond(w, 301, r)
    /\ UNCHANGED <<job, tries, probe, expected, filterVars, acked>>

\* The response is sent; a 200 gives its id out.
Send(w) ==
    /\ pc[w] = "reply"
    /\ acked' = IF answer[w].status = 200
                THEN [acked EXCEPT ![job[w].id] = @ \cup {job[w].url}] ELSE acked
    /\ pc' = [pc EXCEPT ![w] = "idle"]
    /\ job' = [job EXCEPT ![w] = NoJob]
    /\ tries' = [tries EXCEPT ![w] = 0]
    /\ probe' = [probe EXCEPT ![w] = 1]
    /\ answer' = [answer EXCEPT ![w] = NoAnswer]
    /\ expected' = [expected EXCEPT ![w] = {}]
    /\ UNCHANGED filterVars

\* A new request reaches an idle worker.
Request(w) ==
    \/ \E url \in Urls : Shorten(w, url)
    \/ ShortenInvalid(w)
    \/ \E id \in Keys : Redirect(w, id)

\* The steps of a handler that do not involve the store.
Compute(w) ==
    BloomLoad(w) \/ BloomStore(w) \/ BloomMiss(w) \/ BloomPass(w) \/ Send(w)

-----------------------------------------------------------------------------
AllBits == UNION {{Probes[id][i] : i \in 1 .. Len(Probes[id])} : id \in Keys}
Answers == [status : {200, 301, 400, 404, 500}, url : Urls \cup {NoUrl}]

HandlerTypeOK ==
    /\ pc \in [Workers -> Pcs]
    /\ job \in [Workers -> [id : Keys \cup {"none"}, url : Urls \cup {NoUrl}]]
    /\ tries \in [Workers -> 0 .. MaxTries - 1]
    /\ probe \in [Workers -> Nat \ {0}]
    /\ reg \in [Workers -> SUBSET AllBits]
    /\ bloom \subseteq AllBits
    /\ answer \in [Workers -> Answers \cup {NoAnswer}]
    /\ acked \in [Keys -> SUBSET Urls]
    /\ expected \in [Workers -> SUBSET Urls]
    /\ torn \subseteq {Word(b) : b \in AllBits}
    /\ forgotten \subseteq Keys
    /\ \A w \in Workers : reg[w] # {} => pc[w] = "store"

\* A redirect answers with this status.
Answers404(w) == pc[w] = "reply" /\ answer[w].status = 404
Answers301(w) == pc[w] = "reply" /\ answer[w].status = 301
Answers500(w) == pc[w] = "reply" /\ answer[w].status = 500

\* Some word of the id has had two writers at once.
Torn(id) == \E i \in 1 .. Len(Probes[id]) : Word(Probes[id][i]) \in torn
=============================================================================
