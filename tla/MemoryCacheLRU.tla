--------------------------- MODULE MemoryCacheLRU ---------------------------
(***************************************************************************)
(* MemoryCacheLRU: a list of entries, the one used last in front, a map to *)
(* the places of the keys in it, and a count of bytes.  Each operation     *)
(* holds the lock from its first to its last line, so it is one step.      *)
(***************************************************************************)
EXTENDS Integers, Sequences, SequencesExt

CONSTANT Capacity   \* capBytes_

ASSUME CapacityAssumption == Capacity \in Nat

VARIABLES
    lru,        \* lru_: records of a key and an entry, with its size in bytes
    index,      \* the keys in map_
    used,       \* usedBytes_
    \* History, which no step of the code reads:
    usedAfter,  \* pairs of keys in the cache: the first was used after the second
    latest      \* of each key in the cache, the entry last stored for it

lruVars == <<lru, index, used, usedAfter, latest>>

KeysOf(list) == {list[i].key : i \in DOMAIN list}

\* The bytes of a list, and the part of it with these keys, by recursion over
\* its prefixes.
Bytes(list) ==
    LET upTo[n \in 0 .. Len(list)] ==
            IF n = 0 THEN 0 ELSE upTo[n - 1] + list[n].entry.bytes
    IN  upTo[Len(list)]
Only(list, keys) ==
    LET upTo[n \in 0 .. Len(list)] ==
            IF n = 0 THEN <<>>
            ELSE IF list[n].key \in keys THEN Append(upTo[n - 1], list[n])
            ELSE upTo[n - 1]
    IN  upTo[Len(list)]

\* map_[key], the place of a key in the list.
Place(key) == CHOOSE i \in DOMAIN lru : lru[i].key = key

\* The history once a key has been used.
UsedNow(key) ==
    {p \in usedAfter : key \notin {p[1], p[2]}} \cup ({key} \X (index \ {key}))

LruInit ==
    /\ lru = <<>>
    /\ index = {}
    /\ used = 0
    /\ usedAfter = {}
    /\ latest = <<>>

-----------------------------------------------------------------------------
\* get finds the key, and moves it to the front of the list.
GetHit(key) ==
    /\ key \in index
    /\ lru' = <<lru[Place(key)]>> \o RemoveAt(lru, Place(key))
    /\ usedAfter' = UsedNow(key)
    /\ UNCHANGED <<index, used, latest>>

GetMiss(key) == key \notin index /\ UNCHANGED lruVars

\* The last n entries of a list.
Back(list, n) == SubSeq(list, Len(list) - n + 1, Len(list))

\* How many entries evictIfNeeded takes from the back of the list, of which
\* the count of bytes is sum.
Drops(list, sum) ==
    Min({Len(list)} \cup {n \in 0 .. Len(list) : sum - Bytes(Back(list, n)) <= Capacity})

\* Variants with a fault: a key that is there already is not moved to the
\* front; or its old entry stays.
StaysInPlace(key, e) ==
    IF key \in index THEN [lru EXCEPT ![Place(key)].entry = e]
    ELSE <<[key |-> key, entry |-> e]>> \o lru
KeepsOldEntry(key, e) ==
    IF key \in index THEN <<lru[Place(key)]>> \o RemoveAt(lru, Place(key))
    ELSE <<[key |-> key, entry |-> e]>> \o lru

\* The list with the entry in front, in place of the one that the key had.
Inserted(key, e) ==
    <<[key |-> key, entry |-> e]>> \o
        (IF key \in index THEN RemoveAt(lru, Place(key)) ELSE lru)

\* Variant with a fault: the bytes of the old entry stay in the count.
ReplacesNothing(key) == 0

\* The bytes of the entry that set replaces.
Replaced(key) == IF key \in index THEN lru[Place(key)].entry.bytes ELSE 0

\* set, of an entry that fits, and the eviction that ends it.
SetFitting(key, e) ==
    LET list == Inserted(key, e)
        sum == used - Replaced(key) + e.bytes
        out == Back(list, Drops(list, sum))
    IN  /\ e.bytes <= Capacity
        /\ lru' = SubSeq(list, 1, Len(list) - Len(out))
        /\ used' = sum - Bytes(out)
        /\ index' = (index \cup {key}) \ KeysOf(out)
        /\ usedAfter' = UsedNow(key) \cap (index' \X index')
        /\ latest' = [k \in index' |-> IF k = key THEN e ELSE latest[k]]

\* set, of one that does not: the old entry of the key stays.
SetTooLarge(e) == e.bytes > Capacity /\ UNCHANGED lruVars

Set(key, e) == SetFitting(key, e) \/ SetTooLarge(e)

\* del for one key, purgePrefix for those with a prefix: none in the map is
\* passed over.
RemoveKeys(keys) ==
    /\ lru' = Only(lru, index \ keys)
    /\ used' = used - Bytes(Only(lru, keys))
    /\ index' = index \ keys
    /\ usedAfter' = usedAfter \cap (index' \X index')
    /\ latest' = [k \in index' |-> latest[k]]

-----------------------------------------------------------------------------
\* The list, the map and the count agree and the capacity is kept, through any
\* sequence of insertions, replacements, evictions and removals.
Accounted ==
    /\ KeysOf(lru) = index
    /\ \A i, j \in DOMAIN lru : lru[i].key = lru[j].key => i = j
    /\ used = Bytes(lru)
    /\ used <= Capacity

\* The cache holds of each key the entry last stored for it, not an older one.
LatestHeld == \A i \in DOMAIN lru : lru[i].entry = latest[lru[i].key]

\* What a set evicts was used before all that it keeps, and would not fit in
\* together with the new entry and those used since (evictIfNeeded).
OldestOut ==
    \A new \in index' : (new \notin index \/ latest'[new] # latest[new]) =>
        \A key \in index \ index' :
            LET since == {k \in index \ {new} : <<k, key>> \in usedAfter} IN
            /\ index' \subseteq since \cup {new}
            /\ latest'[new].bytes + Bytes(Only(lru, since \cup {key})) > Capacity
EvictsOldest == [][OldestOut]_lruVars
=============================================================================
