---------------------------- MODULE MemoryStore ----------------------------
(***************************************************************************)
(* MemoryStore over KVStore: get, and setNX as a read and a write that     *)
(* each take the lock of the key's shard, released in between.  ttlSec is  *)
(* ignored.  (set and del, which no handler calls, are left out.)          *)
(***************************************************************************)
EXTENDS IStore

VARIABLES
    kv,         \* the url of each key, NoUrl when absent
    raced       \* history: keys that a second setNX found free in between

Places == {"lookup", "check", "put"}
Entry(op) == IF op = "get" THEN "lookup" ELSE "check"
Key(w) == call[w].key

MemoryInit ==
    /\ StoreInit
    /\ kv = [k \in Keys |-> NoUrl]
    /\ raced = {}

Lookup(w) ==
    /\ at[w] = "lookup"
    /\ Finish(w, kv[Key(w)])
    /\ UNCHANGED <<kv, raced>>

Taken(k) == kv[k] # NoUrl

\* setNX reads the key under the shared lock.
Check(w) ==
    /\ at[w] = "check"
    /\ \/ Taken(Key(w)) /\ Finish(w, "false") /\ UNCHANGED raced
       \/ /\ ~Taken(Key(w))
          /\ Proceed(w, "put")
          /\ raced' = IF \E v \in Workers : at[v] = "put" /\ Key(v) = Key(w)
                      THEN raced \cup {Key(w)} ELSE raced
    /\ UNCHANGED kv

\* and writes it under the exclusive lock, without looking again.
Put(w) ==
    /\ at[w] = "put"
    /\ kv' = [kv EXCEPT ![Key(w)] = call[w].url]
    /\ Finish(w, "true")
    /\ UNCHANGED raced

Step(w) == Lookup(w) \/ Check(w) \/ Put(w)

MemoryTypeOK ==
    /\ kv \in [Keys -> Urls \cup {NoUrl}]
    /\ raced \subseteq Keys
=============================================================================
