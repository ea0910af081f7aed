---------------------------- MODULE RateLimiting ----------------------------
(***************************************************************************)
(* Which limiter a server runs: main adds the one over Redis when it holds *)
(* a Redis client for it and the in-process one otherwise, once, before    *)
(* the first request.                                                      *)
(***************************************************************************)
EXTENDS TokenBucket

CONSTANTS
    WindowKeys,                             \* Keys of RateLimitRedis
    Rps, Life,                              \* as in RateLimitRedis
    MaxCalls, MaxTime, MaxFaults            \* bounds, as in RateLimitRedis

VARIABLES
    limiter,    \* the limiter that main has added
    now, at, counter, val, attempt, redis, faults, arrived, blind, slow,
    passed      \* admitted of RateLimitRedis

redisVars == <<now, at, counter, val, attempt, redis, faults, arrived, blind, slow, passed>>

Redis == INSTANCE RateLimitRedis WITH Keys <- WindowKeys, admitted <- passed

ASSUME RedisAssumption == Redis!WindowAssumption

LimiterInit ==
    /\ limiter \in {"memory", "redis"}
    /\ Init
    /\ Redis!Init

\* A step of the limiter that main has added.
Limit ==
    \/ limiter = "memory" /\ Next /\ UNCHANGED redisVars
    \/ limiter = "redis" /\ Redis!Next /\ UNCHANGED vars

LimiterSpec == LimiterInit /\ [][Limit /\ UNCHANGED limiter]_<<vars, redisVars, limiter>>

-----------------------------------------------------------------------------
\* Of the requests that a client sends in one second no more than rps_ are let
\* through, but for those whose INCR brought no reply and those whose INCR came
\* Life seconds or more after they had read the clock, when the counter may have
\* ended and counts from 1 again: the two commands may interleave, be resent and
\* take any time (RateLimitRedis::before).
AdmittedPerSecond == Redis!AdmittedPerSecond

\* A request is refused only if its client has sent more than rps_ requests in
\* its second, each reply that was lost counting for one more.
RefusedOverLimit == Redis!RefusedOverLimit

\* A counter that no request is using any more has an expiry, but for one per
\* failure: none stays in Redis for good because requests interleave.
CountersEnd == Redis!CountersEnd
=============================================================================
