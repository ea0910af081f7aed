--------------------------- MODULE RateLimitRedis ---------------------------
(***************************************************************************)
(* The rate limiter over Redis: each request reads the clock, increments   *)
(* the counter of its client and second with INCR, gives it an expiry with *)
(* EXPIRE, and is refused if the counter was over the limit.               *)
(*                                                                         *)
(* The two commands go through RedisClient::cmd, which sends a command     *)
(* once more when its reply is lost, executed or not, and throws when it   *)
(* cannot connect.  A connection left broken by the command before makes   *)
(* the first sending fail at once, so only the second one remains.         *)
(* Nothing bounds how long a command takes: cmd limits only the time it    *)
(* tries to connect.                                                       *)
(***************************************************************************)
EXTENDS Integers, FiniteSets

CONSTANTS
    Workers,    \* threads of the HTTP server
    Keys,       \* values of X-Client-Id, "global" for a request without one
    Rps,        \* rps_
    Life,       \* windowSec_ + 1, the seconds that EXPIRE gives a counter
    MaxCalls,   \* bound on the requests of a client in a second
    MaxTime,    \* bound on the clock, for model checking
    MaxFaults   \* bound on lost replies and failed connections

\* EXPIRE never asks for zero seconds, which would delete the counter.
WindowAssumption ==
    /\ {Rps, Life, MaxCalls, MaxTime, MaxFaults} \subseteq Nat
    /\ Life > 0
    /\ IsFiniteSet(Workers)

VARIABLES
    now,        \* time(nullptr) and the clock of Redis
    at,         \* where each worker is in before
    counter,    \* rkey, the counter that its request uses: a key and a second
    val,        \* its local variable val
    attempt,    \* per thread: which sending of the next command is due, 1 or 2
    redis,      \* the counters: what they hold and when they end, 0 for never
    faults,     \* failures so far
    \* History, which no step of the code reads:
    arrived,    \* requests per counter
    admitted,   \* those of them that were let through
    blind,      \* those of them whose INCR brought no reply
    slow        \* those of them whose INCR was late

windowVars == <<counter, arrived>>
historyVars == <<admitted, blind, slow>>
vars == <<now, at, counter, val, attempt, redis, faults, arrived, historyVars>>

Counters == Keys \X (0 .. MaxTime)
NoCounter == [count |-> 0, exp |-> 0]
Commands == {"incr", "expire"}
InFlight(w) == at[w] \in Commands

Init ==
    /\ now = 0
    /\ at = [w \in Workers |-> "idle"]
    /\ counter \in [Workers -> Keys \X {0}]
    /\ val = [w \in Workers |-> 0]
    /\ attempt = [w \in Workers |-> 1]
    /\ redis = [c \in Counters |-> NoCounter]
    /\ faults = 0
    /\ arrived = [c \in Counters |-> 0]
    /\ admitted = [c \in Counters |-> 0]
    /\ blind = [c \in Counters |-> 0]
    /\ slow = [c \in Counters |-> 0]

\* A request of client k: its counter is that of this second.
Arrive(w, k) ==
    /\ ~InFlight(w)
    /\ arrived[<<k, now>>] < MaxCalls
    /\ arrived' = [arrived EXCEPT ![<<k, now>>] = @ + 1]
    /\ at' = [at EXCEPT ![w] = "incr"]
    /\ counter' = [counter EXCEPT ![w] = <<k, now>>]
    /\ val' = [val EXCEPT ![w] = 0]
    /\ UNCHANGED <<now, attempt, redis, faults, historyVars>>

Fault ==
    /\ faults < MaxFaults
    /\ faults' = faults + 1

-----------------------------------------------------------------------------
Incremented(w) == redis[counter[w]].count + 1

\* Variant with a fault: the second is read again for EXPIRE.
ExpiringOfNow(w) == <<counter[w][1], now>>

\* The counter that EXPIRE names.
Expiring(w) == counter[w]

\* The command due at worker w's place, executed by the server.
Execute(w) ==
    \/ /\ at[w] = "incr"
       /\ redis' = [redis EXCEPT ![counter[w]].count = @ + 1]
    \/ /\ at[w] = "expire"
       /\ redis' = [redis EXCEPT ![Expiring(w)] =
                        IF @ = NoCounter THEN @ ELSE [@ EXCEPT !.exp = now + Life]]

\* Variants with a fault: the limit itself is too much; one more is let through.
OverOrAt(v) == v >= Rps
OverByTwo(v) == v > Rps + 1

\* Whether the request is refused.
Over(v) == v > Rps

\* What before takes for the count when INCR has no reply.
WithoutReply == 1

\* INCR is over, with the reply v or without one.
Counted(w, v) ==
    /\ at[w] = "incr"
    /\ val' = [val EXCEPT ![w] = v]
    /\ at' = [at EXCEPT ![w] = "expire"]
    /\ UNCHANGED admitted

\* EXPIRE is over, its reply ignored, and the request is decided.
Decided(w) ==
    /\ at[w] = "expire"
    /\ \/ /\ Over(val[w])
          /\ at' = [at EXCEPT ![w] = "refused"]
          /\ UNCHANGED admitted
       \/ /\ ~Over(val[w])
          /\ at' = [at EXCEPT ![w] = "admitted"]
          /\ admitted' = [admitted EXCEPT ![counter[w]] = @ + 1]
    /\ UNCHANGED val

\* Life seconds have passed since the request read the clock, so that an expiry
\* given to its counter may have ended it.
Late(w) == now >= counter[w][2] + Life

\* The command is executed and its reply arrives.
Replied(w) ==
    /\ InFlight(w)
    /\ Execute(w)
    /\ \/ /\ Counted(w, Incremented(w))
          /\ slow' = IF Late(w) THEN [slow EXCEPT ![counter[w]] = @ + 1] ELSE slow
       \/ Decided(w) /\ UNCHANGED slow
    /\ attempt' = [attempt EXCEPT ![w] = 1]
    /\ UNCHANGED <<now, faults, windowVars, blind>>

\* No reply: cmd reconnects and will send the command again.
NoReply(w) ==
    /\ InFlight(w) /\ attempt[w] = 1
    /\ Fault
    /\ Execute(w) \/ UNCHANGED redis
    /\ attempt' = [attempt EXCEPT ![w] = 2]
    /\ UNCHANGED <<now, at, val, windowVars, historyVars>>

\* No reply again: cmd returns nullptr and before goes on.
GaveUp(w) ==
    /\ InFlight(w) /\ attempt[w] = 2
    /\ Fault
    /\ Execute(w) \/ UNCHANGED redis
    /\ \/ Counted(w, WithoutReply) /\ blind' = [blind EXCEPT ![counter[w]] = @ + 1]
       \/ Decided(w) /\ UNCHANGED blind
    /\ UNCHANGED <<now, attempt, windowVars, slow>>

\* cmd cannot connect: the exception becomes a response with status 500.
Throws(w) ==
    /\ InFlight(w)
    /\ Fault
    /\ at' = [at EXCEPT ![w] = "failed"]
    /\ attempt' = [attempt EXCEPT ![w] = 2]
    /\ UNCHANGED <<now, val, redis, windowVars, historyVars>>

\* A second passes, whatever is under way; counters end.
Tick ==
    /\ now < MaxTime
    /\ now' = now + 1
    /\ redis' = [c \in Counters |->
                    IF redis[c].exp \in 1 .. now + 1 THEN NoCounter ELSE redis[c]]
    /\ UNCHANGED <<at, val, attempt, faults, windowVars, historyVars>>

\* The time of the model is over and every call has returned.
Rest ==
    /\ now = MaxTime
    /\ \A w \in Workers : ~InFlight(w)
    /\ UNCHANGED vars

Next ==
    \/ \E w \in Workers, k \in Keys : Arrive(w, k)
    \/ \E w \in Workers : Replied(w) \/ NoReply(w) \/ GaveUp(w) \/ Throws(w)
    \/ Tick
    \/ Rest

Spec == Init /\ [][Next]_vars

-----------------------------------------------------------------------------
\* Types; a request that is counted has arrived.
TypeOK ==
    /\ now \in 0 .. MaxTime
    /\ at \in [Workers -> Commands \cup {"idle", "admitted", "refused", "failed"}]
    /\ counter \in [Workers -> Counters]
    /\ val \in [Workers -> Nat]
    /\ attempt \in [Workers -> {1, 2}]
    /\ redis \in [Counters -> [count : Nat, exp : Nat]]
    /\ faults \in 0 .. MaxFaults
    /\ \A c \in Counters : admitted[c] <= arrived[c] /\ blind[c] + slow[c] <= arrived[c]

\* Of the requests that a client sends in one second no more than rps_ are let
\* through, but for those whose INCR brought no reply and those whose INCR came
\* Life seconds or more after they had read the clock, when the counter may have
\* ended and counts from 1 again: the two commands may interleave, be resent and
\* take any time (RateLimitRedis::before).
AdmittedPerSecond == \A c \in Counters : admitted[c] <= Rps + blind[c] + slow[c]

\* A request is refused only if its client has sent more than rps_ requests in
\* its second, each reply that was lost counting for one more.
RefusedOverLimit ==
    \A w \in Workers : at[w] = "refused" => arrived[counter[w]] + faults > Rps

\* A counter that no request is using any more has an expiry, but for one per
\* failure: none stays in Redis for good because requests interleave.
CountersEnd ==
    Cardinality({c \in Counters :
                    /\ redis[c].count > 0 /\ redis[c].exp = 0
                    /\ \A w \in Workers : InFlight(w) => counter[w] # c}) <= faults
=============================================================================
