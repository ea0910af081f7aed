---------------------------- MODULE TokenBucket ----------------------------
(***************************************************************************)
(* The in-process rate limiter: RateLimiter::allow and the middleware that *)
(* calls it for every request.  Worker threads call allow concurrently;    *)
(* a call reads the clock BEFORE it takes the mutex, so calls may handle   *)
(* their clock readings in another order than they took them.  The model   *)
(* has one step for the reading and one for the critical section.          *)
(*                                                                         *)
(* Tokens are doubles in the code; here they are integers in a unit small  *)
(* enough that one token is Cost units and a tick adds Rate units.         *)
(***************************************************************************)
EXTENDS Integers

CONSTANTS
    Workers,    \* threads of the HTTP server
    Keys,       \* values of X-Client-Id, "global" for a request without one
    Rate,       \* units a tick adds (rate_)
    Burst,      \* units a full bucket holds (burst_)
    Cost,       \* units of one token (the 1.0 of allow)
    MaxClock    \* bound on the clock, for model checking

ASSUME LimiterAssumption ==
    /\ Rate \in Nat
    /\ Burst \in Nat
    /\ Cost \in Nat \ {0}
    /\ MaxClock \in Nat \ {0}

\* A full bucket admits a call: in the code it holds 2000.  With less than one
\* token the limiter would refuse every request.
ASSUME BurstCoversOneCall == Cost <= Burst

VARIABLES
    clock,      \* steady_clock, never 0 while the program runs
    phase,      \* where each worker is in allow
    key,        \* the key each worker asks for
    stamp,      \* its local variable now
    bucket,     \* m_: tokens and time of the last call, 0 before the first
    \* History, which no step of the code reads:
    from,       \* start of the window that is observed
    admitted,   \* calls per key admitted with a reading inside the window
    latest      \* latest reading handled so far per key, 0 if none

limiterVars == <<phase, key, stamp, bucket>>
vars == <<clock, phase, key, stamp, bucket, from, admitted, latest>>

Phases == {"idle", "waiting", "admitted", "refused"}

Least(a, b) == IF a <= b THEN a ELSE b
Greatest(a, b) == IF a >= b THEN a ELSE b

\* Variants with a fault: the refill is not limited to burst_; a new bucket
\* starts empty.
RefilledUncapped(b, t) ==
    IF b.last = 0 THEN Burst ELSE b.tokens + Rate * (t - b.last)
RefilledFromEmpty(b, t) ==
    IF b.last = 0 THEN 0 ELSE Least(Burst, b.tokens + Rate * (t - b.last))

\* The tokens of bucket b once a call with reading t has refilled it.  The
\* elapsed time t - b.last is negative when a later reading was handled first.
Refilled(b, t) ==
    IF b.last = 0 THEN Burst ELSE Least(Burst, b.tokens + Rate * (t - b.last))

\* Variant with a fault: part of a token is enough.
CoversPart(tokens) == tokens > 0

\* One token is there to be taken.
Covers(tokens) == tokens >= Cost

Init ==
    /\ clock = 1
    /\ phase = [w \in Workers |-> "idle"]
    /\ key \in [Workers -> Keys]
    /\ stamp = [w \in Workers |-> 0]
    /\ bucket = [k \in Keys |-> [tokens |-> 0, last |-> 0]]
    /\ from = 1
    /\ admitted = [k \in Keys |-> 0]
    /\ latest = [k \in Keys |-> 0]

\* now = clock::now(), the mutex not yet taken.
ReadClock(w, k) ==
    /\ phase[w] # "waiting"
    /\ phase' = [phase EXCEPT ![w] = "waiting"]
    /\ key' = [key EXCEPT ![w] = k]
    /\ stamp' = [stamp EXCEPT ![w] = clock]
    /\ UNCHANGED <<clock, bucket, from, admitted, latest>>

\* The bucket of worker w's call is left with the given tokens.
Settle(w, tokens) ==
    /\ bucket' = [bucket EXCEPT ![key[w]] = [tokens |-> tokens, last |-> stamp[w]]]
    /\ latest' = [latest EXCEPT ![key[w]] = Greatest(@, stamp[w])]
    /\ UNCHANGED <<clock, key, stamp, from>>

\* The critical section when there is a token: allow returns true.
Admit(w) ==
    LET tokens == Refilled(bucket[key[w]], stamp[w]) IN
    /\ phase[w] = "waiting"
    /\ Covers(tokens)
    /\ phase' = [phase EXCEPT ![w] = "admitted"]
    /\ Settle(w, tokens - Cost)
    /\ admitted' = [admitted EXCEPT ![key[w]] =
                        IF stamp[w] >= from THEN @ + 1 ELSE @]

\* The critical section when there is none: the request is answered 403.
Refuse(w) ==
    LET tokens == Refilled(bucket[key[w]], stamp[w]) IN
    /\ phase[w] = "waiting"
    /\ ~Covers(tokens)
    /\ phase' = [phase EXCEPT ![w] = "refused"]
    /\ Settle(w, tokens)
    /\ UNCHANGED admitted

Tick ==
    /\ clock < MaxClock
    /\ clock' = clock + 1
    /\ UNCHANGED <<limiterVars, from, admitted, latest>>

\* Observation of a new window begins; no step of the code.
StartWindow ==
    /\ from' = clock
    /\ admitted' = [k \in Keys |-> 0]
    /\ UNCHANGED <<clock, limiterVars, latest>>

Next ==
    \/ \E w \in Workers, k \in Keys : ReadClock(w, k)
    \/ \E w \in Workers : Admit(w) \/ Refuse(w)
    \/ Tick
    \/ StartWindow

Spec == Init /\ [][Next]_vars

-----------------------------------------------------------------------------
\* Types; a bucket never holds more than burst_, and readings are past.
TypeOK ==
    /\ clock \in Nat
    /\ phase \in [Workers -> Phases]
    /\ key \in [Workers -> Keys]
    /\ stamp \in [Workers -> Nat]
    /\ bucket \in [Keys -> [tokens : Int, last : Nat]]
    /\ \A k \in Keys : bucket[k].tokens <= Burst
    /\ from \in 1 .. clock
    /\ admitted \in [Keys -> Nat]
    /\ latest \in [Keys -> Nat]

\* Among the calls of one key that read the clock at or after the start of any
\* window, at most a full bucket and what the window's length refills are
\* admitted, however the critical sections of the workers are ordered and
\* however often the bucket's time steps back (RateLimiter::allow).
WindowBound ==
    \A k \in Keys : Cost * admitted[k] <= Burst + Rate * (clock - from)

\* A call is refused only if its reading comes less than one token's refill
\* time after the latest reading already handled for its key: late handling of
\* old readings, which lowers the tokens below zero, never locks a quiet client
\* out (RateLimiter::allow, the step that throws in RateLimitMiddleware).
RefusedOnlyWhenRecent ==
    [][\A w \in Workers :
         phase[w] = "waiting" /\ phase'[w] = "refused"
             => Rate * (stamp[w] - latest[key[w]]) < Cost]_vars

-----------------------------------------------------------------------------
\* What a bucket holds is backed by what was not admitted in the window.
Accounted ==
    \A k \in Keys : admitted[k] > 0 =>
        /\ bucket[k].last > 0
        /\ Cost * admitted[k] + bucket[k].tokens
               <= Burst + Rate * (bucket[k].last - from)

\* A debt is never larger than what the latest reading brings back.
DebtBound ==
    \A k \in Keys : bucket[k].tokens >= Rate * (bucket[k].last - latest[k])

\* Readings come from the past and belong to calls that began.
Stamped ==
    /\ \A w \in Workers : phase[w] = "waiting" => stamp[w] \in 1 .. clock
    /\ \A k \in Keys : bucket[k].last <= latest[k] /\ latest[k] <= clock

IInv ==
    /\ TypeOK
    /\ Stamped
    /\ Accounted
    /\ DebtBound
    /\ WindowBound
=============================================================================
