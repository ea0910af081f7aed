------------------------------- MODULE IStore -------------------------------
(***************************************************************************)
(* The interface IStore as the worker threads use it: a worker begins a    *)
(* call of one of the four operations, the implementation moves it through *)
(* places of its own, and the call ends with a result or an exception.     *)
(* The implementations (MemoryStore, RedisStore, MySqlStore and            *)
(* CacheAsideStore) extend this module.                                    *)
(***************************************************************************)
EXTENDS Integers

CONSTANTS
    Workers,    \* threads of the HTTP server
    Keys,       \* short ids
    Urls,       \* long urls
    NoUrl,      \* std::nullopt
    Ttls        \* values of ttlSec, 0 for none

ASSUME TtlAssumption == Ttls \subseteq Nat
ASSUME UrlAssumption == NoUrl \notin Urls

VARIABLES
    call,       \* the call of each worker, NoCall outside of one
    at,         \* where the implementation is in it
    res         \* its result, or the value it will return once it has one

storeCallVars == <<call, at, res>>

Outcomes == {"none", "true", "false", "void", "threw"}

\* get and del have no value and no ttl.
Calls == [op : {"get", "del"}, key : Keys, url : {NoUrl}, ttl : {0}]
            \cup [op : {"setNX", "set"}, key : Keys, url : Urls, ttl : Ttls]
NoCall == [op |-> "none", key |-> "none", url |-> NoUrl, ttl |-> 0]

Running(w) == at[w] \notin {"idle", "done"}

StoreTypeOK(places) ==
    /\ call \in [Workers -> Calls \cup {NoCall}]
    /\ at \in [Workers -> places \cup {"idle", "done"}]
    /\ res \in [Workers -> Urls \cup {NoUrl} \cup Outcomes]
    /\ \A w \in Workers : (call[w] = NoCall) <=> (at[w] = "idle")

StoreInit ==
    /\ call = [w \in Workers |-> NoCall]
    /\ at = [w \in Workers |-> "idle"]
    /\ res = [w \in Workers |-> "none"]

\* Worker w calls the store; the implementation starts at the given place.
Begin(w, c, place) ==
    /\ at[w] = "idle"
    /\ call' = [call EXCEPT ![w] = c]
    /\ at' = [at EXCEPT ![w] = place]
    /\ UNCHANGED res

Proceed(w, place) ==
    /\ at' = [at EXCEPT ![w] = place]
    /\ UNCHANGED <<call, res>>

\* The call ends with result r.
Finish(w, r) ==
    /\ at' = [at EXCEPT ![w] = "done"]
    /\ res' = [res EXCEPT ![w] = r]
    /\ UNCHANGED call

\* The caller has taken the result.
Return(w) ==
    /\ at[w] = "done"
    /\ at' = [at EXCEPT ![w] = "idle"]
    /\ call' = [call EXCEPT ![w] = NoCall]
    /\ res' = [res EXCEPT ![w] = "none"]

\* The program ends with all its threads.
CallsEnd ==
    /\ call' = [w \in Workers |-> NoCall]
    /\ at' = [w \in Workers |-> "idle"]
    /\ res' = [w \in Workers |-> "none"]
=============================================================================
