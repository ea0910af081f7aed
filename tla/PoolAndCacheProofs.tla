------------------------- MODULE PoolAndCacheProofs -------------------------
(***************************************************************************)
(* Theorems about DbConnectionPool and about CacheMiddleware with its      *)
(* MemoryCacheLRU, as it is meant to be called and as CacheAdapter calls   *)
(* it, for all values of their constants: the two structures with a lock   *)
(* of their own that the threads of the framework share.                   *)
(***************************************************************************)
EXTENDS DbConnectionPool, CacheAdapter, FiniteSetTheorems, SequenceTheorems,
        WellFoundedInduction, TLAPS

(***************************************************************************)
(* The pool.                                                               *)
(***************************************************************************)
Woken == {c \in Clients : phase[c] = "woken"}

\* Two places in the queue, two clients, or a place and a client never have the
\* same connection,
Apart ==
    /\ \A i, j \in 1..Len(connections) : connections[i] = connections[j] => i = j
    /\ \A c, d \in Clients : conn[c] = conn[d] /\ conn[c] # Nobody => c = d
    /\ \A i \in 1..Len(connections), c \in Clients : connections[i] # conn[c]

\* and every connection is in the queue or with a client.
Present ==
    \A x \in All :
        \/ \E i \in 1..Len(connections) : connections[i] = x
        \/ \E c \in Clients : conn[c] = x

PoolInv == PoolTypeOK /\ Apart /\ Present /\ NoLostWakeup

-----------------------------------------------------------------------------
\* The constants.
LEMMA PoolBounds ==
    PoolSize \in Nat /\ MaxConnections \in Nat /\ MaxBreaks \in Nat /\ IsFiniteSet(Clients)
BY PoolAssumption DEF PoolAssumption

\* There are finitely many woken clients, and waking one adds it to them.
LEMMA WokenFinite == IsFiniteSet(Woken) /\ Cardinality(Woken) \in Nat
<1>1. Woken \in SUBSET Clients
  BY DEF Woken
<1>2. IsFiniteSet(Woken)
  BY <1>1, PoolBounds, FS_Subset
<1>3. QED BY <1>2, FS_CardinalityType

LEMMA WakeOne ==
    ASSUME NEW w \in Clients, Woken' = Woken \cup {w}, w \notin Woken
    PROVE  Cardinality(Woken') = Cardinality(Woken) + 1
BY WokenFinite, FS_AddElement

\* What is first in a queue that is not empty, and what is left of it.
LEMMA PoppedQueue ==
    ASSUME NEW S, NEW q \in Seq(S), q # <<>>
    PROVE  /\ Len(q) \in Nat \ {0} /\ FirstOf(q) = q[1] /\ q[1] \in S
           /\ Popped(q) \in Seq(S) /\ Len(Popped(q)) = Len(q) - 1
           /\ \A i \in 1..Len(q) - 1 : Popped(q)[i] = q[i + 1]
<1>1. Len(q) \in Nat \ {0}
  BY EmptySeq
<1>2. q[1] \in S /\ FirstOf(q) = q[1]
  BY <1>1, ElementOfSeq DEF FirstOf
<1>3. \A i \in 2..Len(q) : q[i] \in S
  BY <1>1, ElementOfSeq
<1>4. /\ SubSeq(q, 2, Len(q)) \in Seq(S)
      /\ Len(SubSeq(q, 2, Len(q))) = IF 2 <= Len(q) THEN Len(q) - 2 + 1 ELSE 0
      /\ \A i \in 1..(Len(q) - 2 + 1) : SubSeq(q, 2, Len(q))[i] = q[2 + i - 1]
  BY <1>1, <1>3, SubSeqProperties
<1>5. /\ Popped(q) \in Seq(S) /\ Len(Popped(q)) = Len(q) - 1
      /\ \A i \in 1..(Len(q) - 2 + 1) : Popped(q)[i] = q[2 + i - 1]
  <2>1. CASE 2 <= Len(q)
    BY <1>1, <1>4, <2>1 DEF Popped
  <2>2. CASE Len(q) = 1
    BY <1>4, <2>2 DEF Popped
  <2>3. \A n \in Nat \ {0} : 2 <= n \/ n = 1
    OBVIOUS
  <2>4. QED BY <1>1, <2>1, <2>2, <2>3
<1>6. \A i \in 1..Len(q) - 1 : i \in 1..(Len(q) - 2 + 1) /\ 2 + i - 1 = i + 1
  BY <1>1
<1>7. QED BY <1>1, <1>2, <1>5, <1>6

\* If connections are apart and all of them present, each is in one place: of
\* the places in the queue and the clients that have it there is exactly one.
LEMMA ApartInOnePlace ==
    ASSUME PoolTypeOK, Apart, Present
    PROVE  EachInOnePlace
<1> SUFFICES ASSUME NEW x \in All
             PROVE  Cardinality({i \in 1..Len(connections) : connections[i] = x})
                      + Cardinality({c \in Clients : conn[c] = x}) = 1
  BY DEF EachInOnePlace
<1> DEFINE places == {i \in 1..Len(connections) : connections[i] = x}
           having == {c \in Clients : conn[c] = x}
<1>1. x # Nobody
  BY DEF All, Nobody, PoolTypeOK
<1>2. CASE \E i \in 1..Len(connections) : connections[i] = x
  <2>1. PICK i \in 1..Len(connections) : connections[i] = x
    BY <1>2
  <2>2. places = {i} /\ having = {}
    BY <2>1 DEF Apart
  <2>3. Cardinality(places) = 1 /\ Cardinality(having) = 0
    BY <2>2, FS_Singleton, FS_EmptySet
  <2> HIDE DEF places, having
  <2>4. Cardinality(places) + Cardinality(having) = 1
    BY <2>3
  <2>5. QED BY <2>4 DEF places, having
<1>3. CASE \E c \in Clients : conn[c] = x
  <2>1. PICK c \in Clients : conn[c] = x
    BY <1>3
  <2>2. places = {} /\ having = {c}
    BY <1>1, <2>1 DEF Apart
  <2>3. Cardinality(places) = 0 /\ Cardinality(having) = 1
    BY <2>2, FS_Singleton, FS_EmptySet
  <2> HIDE DEF places, having
  <2>4. Cardinality(places) + Cardinality(having) = 1
    BY <2>3
  <2>5. QED BY <2>4 DEF places, having
<1>4. QED BY <1>2, <1>3 DEF Present

-----------------------------------------------------------------------------
\* The invariant holds initially.
LEMMA PoolInvInit == PoolInit => PoolInv
<1> SUFFICES ASSUME PoolInit PROVE PoolInv
  OBVIOUS
<1>1. connections = <<>> /\ Len(connections) = 0 /\ connsToCheck = <<>>
  BY EmptySeq DEF PoolInit
<1>2. PoolTypeOK
  <2>1. created \in 0..MaxConnections /\ breaks \in 0..MaxBreaks
    BY PoolBounds DEF PoolInit
  <2>2. connections \in Seq(All) /\ connsToCheck \in Seq(All)
    BY <1>1, EmptySeq
  <2>3. QED BY <2>1, <2>2 DEF PoolInit, PoolTypeOK, Nobody, Waiting
<1>3. Apart /\ Present
  BY <1>1 DEF PoolInit, Apart, Present, All, Nobody
<1>4. NoLostWakeup
  BY DEF PoolInit, NoLostWakeup, Waiting
<1>5. QED BY <1>2, <1>3, <1>4 DEF PoolInv

\* A connection moves about only with the queue and with what clients have.
LEMMA PlacesStay ==
    ASSUME PoolInv, UNCHANGED <<connections, created, conn>>
    PROVE  Apart' /\ Present'
BY DEF PoolInv, Apart, Present, All

\* While clients only fall asleep over an empty queue or wake up, no wake-up is
\* lost.
LEMMA WakeupsStay ==
    ASSUME PoolInv, UNCHANGED connections,
           Waiting(phase') \subseteq Waiting(phase), Woken \subseteq Woken',
           Woken' \subseteq Clients
    PROVE  NoLostWakeup'
<1>1. IsFiniteSet(Woken') /\ Cardinality(Woken) <= Cardinality(Woken')
  <2>1. IsFiniteSet(Woken')
    BY PoolBounds, FS_Subset
  <2>2. QED BY <2>1, FS_Subset
<1>2. Cardinality(Woken') \in Nat /\ Cardinality(Woken) \in Nat
  BY <1>1, WokenFinite, FS_CardinalityType
<1>3. Len(connections) \in Nat
  BY LenProperties DEF PoolInv, PoolTypeOK
<1>4. Waiting(phase') # {} => Len(connections') <= Cardinality(Woken')
  BY <1>1, <1>2, <1>3 DEF PoolInv, NoLostWakeup, Woken
<1>5. QED BY <1>4 DEF NoLostWakeup, Waiting, Woken

\* init fills the queue of a pool that nobody waits for.
LEMMA PoolInvInitPool ==
    ASSUME PoolInv, NEW n \in 0..PoolSize, InitPool(n)
    PROVE  PoolInv'
<1> DEFINE fresh == [i \in 1..n |-> created + i]
<1>1. /\ n \in Nat /\ created \in Nat /\ created' = created + n
      /\ created' \in 0..MaxConnections /\ conn' = conn /\ phase' = phase
      /\ connections \in Seq(All) /\ connsToCheck \in Seq(All)
      /\ connections' = connections \o fresh
  BY PoolBounds DEF InitPool, PoolInv, PoolTypeOK, clients
<1>2. All \subseteq All'
  BY <1>1 DEF All
<1>3. /\ fresh \in Seq(All') /\ Len(fresh) = n
      /\ \A j \in 1..n : fresh[j] = created + j
  <2>1. \A i \in 1..n : created + i \in 1..created'
    BY <1>1
  <2>2. \A i \in 1..n : created + i \in All'
    BY <2>1 DEF All
  <2>3. fresh \in Seq(All')
    BY <1>1, <2>2, IsASeq
  <2>4. Len(fresh) = n
    BY <1>1
  <2>5. QED BY <2>3, <2>4
<1>4. connections \in Seq(All') /\ connsToCheck \in Seq(All')
  BY <1>1, <1>2, SeqMonotonic
<1>5. /\ connections' \in Seq(All') /\ Len(connections') = Len(connections) + n
      /\ \A i \in 1..Len(connections) + n :
            connections'[i] = IF i <= Len(connections) THEN connections[i]
                              ELSE fresh[i - Len(connections)]
  BY <1>1, <1>3, <1>4, ConcatProperties
<1>6. Len(connections) \in Nat
  BY <1>1, LenProperties
<1>7. ASSUME NEW i \in 1..Len(connections')
      PROVE  \/ i \in 1..Len(connections) /\ connections'[i] = connections[i]
             \/ i \notin 1..Len(connections) /\ connections'[i] = created + (i - Len(connections))
  <2> HIDE DEF fresh
  <2>1. CASE i <= Len(connections)
    BY <1>1, <1>5, <1>6, <1>7, <2>1
  <2>2. CASE ~(i <= Len(connections))
    <3>1. i - Len(connections) \in 1..n
      BY <1>1, <1>5, <1>6, <2>2
    <3>2. connections'[i] = fresh[i - Len(connections)]
      BY <1>1, <1>5, <1>6, <2>2
    <3>3. QED BY <1>3, <1>6, <2>2, <3>1, <3>2
  <2>3. QED BY <2>1, <2>2
<1>8. \A i \in 1..Len(connections) : connections[i] \in 1..created
  BY <1>1, ElementOfSeq DEF All
<1>9. \A c \in Clients : conn[c] \in 0..created
  BY DEF PoolInv, PoolTypeOK, All, Nobody
<1>10. Apart'
  <2>1. ASSUME NEW i \in 1..Len(connections'), NEW j \in 1..Len(connections'),
               connections'[i] = connections'[j]
        PROVE  i = j
    <3>1. CASE i \in 1..Len(connections) /\ j \in 1..Len(connections)
      BY <1>7, <2>1, <3>1 DEF PoolInv, Apart
    <3>2. CASE i \notin 1..Len(connections) /\ j \notin 1..Len(connections)
      BY <1>1, <1>5, <1>6, <1>7, <2>1, <3>2
    <3>3. CASE i \in 1..Len(connections) /\ j \notin 1..Len(connections)
      BY <1>1, <1>5, <1>6, <1>7, <1>8, <2>1, <3>3
    <3>4. CASE i \notin 1..Len(connections) /\ j \in 1..Len(connections)
      BY <1>1, <1>5, <1>6, <1>7, <1>8, <2>1, <3>4
    <3>5. QED BY <3>1, <3>2, <3>3, <3>4
  <2>2. ASSUME NEW i \in 1..Len(connections'), NEW c \in Clients
        PROVE  connections'[i] # conn[c]
    <3>1. CASE i \in 1..Len(connections)
      BY <1>7, <3>1 DEF PoolInv, Apart
    <3>2. CASE i \notin 1..Len(connections)
      BY <1>1, <1>5, <1>6, <1>7, <1>9, <3>2
    <3>3. QED BY <3>1, <3>2
  <2>3. QED BY <1>1, <2>1, <2>2 DEF PoolInv, Apart
<1>11. Present'
  <2>1. ASSUME NEW x \in All', x \notin All
        PROVE  \E i \in 1..Len(connections') : connections'[i] = x
    <3>1. x - created \in 1..n /\ x \in Nat
      BY <1>1, <2>1 DEF All
    <3>2. Len(connections) + (x - created) \in 1..Len(connections')
      BY <1>1, <1>5, <1>6, <3>1
    <3>3. connections'[Len(connections) + (x - created)] = x
      BY <1>1, <1>6, <1>7, <3>1, <3>2
    <3>4. QED BY <3>2, <3>3
  <2>2. ASSUME NEW x \in All
        PROVE  \/ \E i \in 1..Len(connections') : connections'[i] = x
               \/ \E c \in Clients : conn[c] = x
    <3>1. ASSUME NEW i \in 1..Len(connections), connections[i] = x
          PROVE  i \in 1..Len(connections') /\ connections'[i] = x
      BY <1>1, <1>5, <1>6, <1>7, <3>1
    <3>2. QED BY <3>1 DEF PoolInv, Present
  <2>3. QED BY <1>1, <2>1, <2>2 DEF Present
<1>12. PoolTypeOK'
  <2>1. alive' \subseteq All'
    BY <1>1 DEF InitPool, PoolInv, PoolTypeOK, All
  <2>2. conn' \in [Clients -> All' \cup {Nobody}]
    BY <1>1, <1>2 DEF PoolInv, PoolTypeOK
  <2>3. /\ connections' \in Seq(All') /\ connsToCheck' \in Seq(All')
        /\ {initialized', asleep'} \subseteq BOOLEAN
    BY <1>4, <1>5 DEF InitPool, checker, PoolInv, PoolTypeOK
  <2>4. Waiting(phase') = {}
    BY <1>1 DEF InitPool, PoolInv, PoolTypeOK
  <2>5. QED BY <1>1, <2>1, <2>2, <2>3, <2>4 DEF InitPool, PoolInv, PoolTypeOK, Waiting
<1>13. NoLostWakeup'
  BY <1>1 DEF InitPool, PoolInv, PoolTypeOK, NoLostWakeup, Waiting
<1>14. QED BY <1>10, <1>11, <1>12, <1>13 DEF PoolInv

\* Whoever takes a connection was woken for it or finds one more than it needs.
LEMMA PoolInvTake ==
    ASSUME PoolInv, NEW c \in Clients, Take(c)
    PROVE  PoolInv'
<1>1. /\ phase[c] \in {"idle", "woken"} /\ connections # <<>> /\ connections \in Seq(All)
      /\ phase' = [phase EXCEPT ![c] = "pinging"] /\ conn' = [conn EXCEPT ![c] = FirstOf(connections)]
      /\ connections' = Popped(connections)
      /\ created' = created /\ All' = All /\ created \in Nat
  <2>1. phase[c] \in {"idle", "woken"} /\ connections # <<>>
    BY DEF Take, Contends, HasToWait
  <2>2. connections \in Seq(All) /\ created \in Nat
    BY DEF PoolInv, PoolTypeOK
  <2>3. created' = created /\ All' = All
    BY DEF Take, All
  <2>4. QED BY <2>1, <2>2, <2>3 DEF Take
<1>2. /\ Len(connections) \in Nat \ {0} /\ FirstOf(connections) = connections[1]
      /\ connections[1] \in All /\ connections' \in Seq(All)
      /\ Len(connections') = Len(connections) - 1
      /\ \A i \in 1..Len(connections) - 1 : connections'[i] = connections[i + 1]
  BY <1>1, PoppedQueue
<1>3. \A x \in All : x # Nobody
  BY <1>1 DEF All, Nobody
<1>4. /\ conn'[c] = connections[1] /\ conn' \in [Clients -> All \cup {Nobody}]
      /\ \A d \in Clients : d # c => conn'[d] = conn[d]
  BY <1>1, <1>2 DEF PoolInv, PoolTypeOK
<1>5. /\ phase'[c] = "pinging" /\ \A d \in Clients : d # c => phase'[d] = phase[d]
      /\ phase' \in [Clients -> {"idle", "waiting", "woken", "pinging", "holding", "failed"}]
  BY <1>1 DEF PoolInv, PoolTypeOK
<1>6. Waiting(phase') = Waiting(phase)
  BY <1>1, <1>5 DEF Waiting
<1>7. PoolTypeOK'
  <2>1. \A d \in Clients : conn'[d] # Nobody <=> phase'[d] \in {"pinging", "holding", "failed"}
    BY <1>2, <1>3, <1>4, <1>5 DEF PoolInv, PoolTypeOK
  <2>2. QED BY <1>1, <1>2, <1>4, <1>5, <1>6, <2>1 DEF Take, links, checker, PoolInv, PoolTypeOK, Waiting
<1>8. Apart'
  <2>1. \A i \in 1..Len(connections') :
          /\ i + 1 \in 1..Len(connections) /\ i + 1 # 1
          /\ connections'[i] = connections[i + 1]
    BY <1>2
  <2>2. \A i, j \in 1..Len(connections') : i + 1 = j + 1 => i = j
    BY <1>2
  <2>3. 1 \in 1..Len(connections)
    BY <1>2
  <2>4. \A i, j \in 1..Len(connections') : connections'[i] = connections'[j] => i = j
    BY <2>1, <2>2 DEF PoolInv, Apart
  <2>5. \A i \in 1..Len(connections'), d \in Clients : connections'[i] # conn'[d]
    BY <1>4, <2>1, <2>3 DEF PoolInv, Apart
  <2>6. \A d, e \in Clients : conn'[d] = conn'[e] /\ conn'[d] # Nobody => d = e
    BY <1>4, <2>3 DEF PoolInv, Apart
  <2>7. QED BY <2>4, <2>5, <2>6 DEF Apart
<1>9. Present'
  <2>1. ASSUME NEW i \in 1..Len(connections), i # 1
        PROVE  i - 1 \in 1..Len(connections') /\ connections'[i - 1] = connections[i]
    BY <1>2, <2>1
  <2>2. ASSUME NEW x \in All
        PROVE  \/ \E i \in 1..Len(connections') : connections'[i] = x
               \/ \E d \in Clients : conn'[d] = x
    <3>1. CASE \E d \in Clients : conn[d] = x
      BY <1>1, <1>3, <1>4, <3>1 DEF PoolInv, PoolTypeOK
    <3>2. CASE \E i \in 1..Len(connections) : connections[i] = x
      BY <1>4, <2>1, <3>2
    <3>3. QED BY <3>1, <3>2 DEF PoolInv, Present
  <2>3. QED BY <1>1, <2>2 DEF Present
<1>10. NoLostWakeup'
  <2> SUFFICES ASSUME Waiting(phase) # {} PROVE Len(connections') <= Cardinality(Woken')
    BY <1>6 DEF NoLostWakeup, Woken, Waiting
  <2>1. Woken' = Woken \ {c}
    BY <1>5 DEF Woken
  <2>2. Cardinality(Woken') >= Cardinality(Woken) - 1
    <3>1. Cardinality(Woken \ {c}) = IF c \in Woken THEN Cardinality(Woken) - 1 ELSE Cardinality(Woken)
      BY WokenFinite, FS_RemoveElement
    <3>2. QED BY <2>1, <3>1, WokenFinite
  <2>3. Len(connections) <= Cardinality(Woken)
    BY DEF PoolInv, NoLostWakeup, Woken
  <2>4. Cardinality(Woken') \in Nat
    BY <2>1, WokenFinite, FS_RemoveElement, FS_CardinalityType
  <2>5. QED BY <1>2, <2>2, <2>3, <2>4, WokenFinite
<1>11. QED BY <1>7, <1>8, <1>9, <1>10 DEF PoolInv

\* Waiting and refusing happen over an empty queue, waking only adds a client
\* to those that have been woken, and a ping changes nobody's connection.
LEMMA PoolInvWaitPing ==
    ASSUME PoolInv, NEW c \in Clients,
           Wait(c) \/ Refuse(c) \/ WakeSpuriously(c) \/ Ping(c)
    PROVE  PoolInv'
<1>1. /\ UNCHANGED <<queue, conn, breaks, checker>> /\ All' = All
      /\ connections' = connections /\ created' = created /\ conn' = conn
  BY DEF Wait, Refuse, WakeSpuriously, Ping, queue, links, checker, All
<1>2. PICK p \in {"idle", "waiting", "woken", "holding", "failed"} :
          /\ phase' = [phase EXCEPT ![c] = p]
          /\ p \in {"holding", "failed"} <=> phase[c] = "pinging"
          /\ p = "waiting" => initialized
          /\ \/ p \in {"holding", "failed"}
             \/ p = "woken" /\ phase[c] = "waiting"
             \/ connections = <<>>
  BY DEF Wait, Refuse, WakeSpuriously, Ping, Contends, HasToWait
<1>3. /\ phase'[c] = p /\ \A d \in Clients : d # c => phase'[d] = phase[d]
      /\ phase' \in [Clients -> {"idle", "waiting", "woken", "pinging", "holding", "failed"}]
  BY <1>2 DEF PoolInv, PoolTypeOK
<1>4. alive' \subseteq All
  <2>1. phase[c] = "pinging" => conn[c] \in All
    BY DEF PoolInv, PoolTypeOK
  <2>2. QED BY <2>1 DEF Wait, Refuse, WakeSpuriously, Ping, links, PoolInv, PoolTypeOK
<1>5. phase[c] \in {"idle", "woken", "waiting", "pinging"}
  BY DEF Wait, Refuse, WakeSpuriously, Ping, Contends
<1>6. \A d \in Clients : conn[d] # Nobody <=> phase'[d] \in {"pinging", "holding", "failed"}
  BY <1>2, <1>3, <1>5 DEF PoolInv, PoolTypeOK
<1>7. ~initialized => Waiting(phase') = {}
  BY <1>2, <1>3 DEF PoolInv, PoolTypeOK, Waiting
<1>8. PoolTypeOK'
  BY <1>1, <1>3, <1>4, <1>6, <1>7 DEF queue, checker, PoolInv, PoolTypeOK, Waiting
<1>9. Apart' /\ Present'
  BY <1>1, PlacesStay
<1>10. NoLostWakeup'
  <2>1. CASE connections = <<>>
    <3>1. Len(connections') = 0
      BY <1>1, <2>1, EmptySeq
    <3>2. Woken' \in SUBSET Clients
      BY DEF Woken
    <3>3. Cardinality(Woken') \in Nat
      BY <3>2, PoolBounds, FS_Subset, FS_CardinalityType
    <3>4. QED BY <3>1, <3>3 DEF NoLostWakeup, Woken
  <2>2. CASE p \in {"holding", "failed"} \/ (p = "woken" /\ phase[c] = "waiting")
    <3>1. Waiting(phase') \subseteq Waiting(phase)
      BY <1>2, <1>3, <2>2 DEF Waiting
    <3>2. Woken \subseteq Woken'
      BY <1>2, <1>3, <2>2 DEF Woken
    <3>3. Woken' \subseteq Clients
      BY DEF Woken
    <3>4. QED BY <1>1, <3>1, <3>2, <3>3, WakeupsStay
  <2>3. QED BY <1>2, <2>1, <2>2
<1>11. QED BY <1>8, <1>9, <1>10 DEF PoolInv

\* Whoever gives a connection back wakes one of those who wait, also when it
\* could not be reconnected.
LEMMA PoolInvPush ==
    ASSUME PoolInv, NEW c \in Clients, Release(c) \/ GiveUp(c)
    PROVE  PoolInv'
<1> DEFINE p == [phase EXCEPT ![c] = "idle"]
<1>1. /\ phase[c] \in {"holding", "failed"} /\ connections \in Seq(All)
      /\ connections' = Append(connections, conn[c]) /\ conn' = [conn EXCEPT ![c] = Nobody]
      /\ phase' \in Notified(p) /\ conn[c] \in All /\ All' = All /\ created' = created
      /\ UNCHANGED <<initialized, links, checker>> /\ created \in Nat
  BY DEF Release, GiveUp, PushAndNotify, GivenBack, PoolInv, PoolTypeOK, All
<1>2. /\ Len(connections) \in Nat /\ connections' \in Seq(All)
      /\ Len(connections') = Len(connections) + 1
      /\ \A i \in 1..Len(connections) : connections'[i] = connections[i]
      /\ connections'[Len(connections) + 1] = conn[c]
  BY <1>1, AppendProperties, LenProperties
<1>3. /\ conn'[c] = Nobody /\ \A d \in Clients : d # c => conn'[d] = conn[d]
      /\ conn' \in [Clients -> All \cup {Nobody}]
  BY <1>1 DEF PoolInv, PoolTypeOK
<1>4. \A x \in All : x # Nobody
  BY <1>1 DEF All, Nobody
<1>5. /\ p[c] = "idle" /\ \A d \in Clients : d # c => p[d] = phase[d]
      /\ p \in [Clients -> {"idle", "waiting", "woken", "pinging", "holding", "failed"}]
      /\ Waiting(p) = Waiting(phase)
  BY <1>1 DEF PoolInv, PoolTypeOK, Waiting
<1>6. \/ phase' = p /\ Waiting(phase) = {}
      \/ \E w \in Waiting(phase) : phase' = [p EXCEPT ![w] = "woken"]
  <2> HIDE DEF p
  <2>1. QED BY <1>1, <1>5 DEF Notified
<1>7. /\ phase' \in [Clients -> {"idle", "waiting", "woken", "pinging", "holding", "failed"}]
      /\ phase'[c] = "idle"
      /\ \A d \in Clients : d # c => phase'[d] = phase[d] \/ (phase[d] = "waiting" /\ phase'[d] = "woken")
  <2> HIDE DEF p
  <2>1. CASE phase' = p
    BY <1>5, <2>1
  <2>2. CASE \E w \in Waiting(phase) : phase' = [p EXCEPT ![w] = "woken"]
    BY <1>1, <1>5, <2>2 DEF Waiting
  <2>3. QED BY <1>6, <2>1, <2>2
<1>8. PoolTypeOK'
  <2>1. \A d \in Clients : conn'[d] # Nobody <=> phase'[d] \in {"pinging", "holding", "failed"}
    BY <1>3, <1>7 DEF PoolInv, PoolTypeOK
  <2>2. ~initialized => Waiting(phase') = {}
    BY <1>7 DEF PoolInv, PoolTypeOK, Waiting
  <2>3. QED BY <1>1, <1>2, <1>3, <1>7, <2>1, <2>2 DEF links, checker, PoolInv, PoolTypeOK, Waiting
<1>9. \A i \in 1..Len(connections') :
          \/ i \in 1..Len(connections) /\ connections'[i] = connections[i]
          \/ i = Len(connections) + 1 /\ connections'[i] = conn[c]
  BY <1>2
<1>10. Apart'
  <2>1. \A i, j \in 1..Len(connections') : connections'[i] = connections'[j] => i = j
    BY <1>9 DEF PoolInv, Apart
  <2>2. \A i \in 1..Len(connections'), d \in Clients : connections'[i] # conn'[d]
    BY <1>1, <1>3, <1>4, <1>9, ElementOfSeq DEF PoolInv, Apart
  <2>3. \A d, e \in Clients : conn'[d] = conn'[e] /\ conn'[d] # Nobody => d = e
    BY <1>3 DEF PoolInv, Apart
  <2>4. QED BY <2>1, <2>2, <2>3 DEF Apart
<1>11. Present'
  <2>1. Len(connections) + 1 \in 1..Len(connections')
        /\ \A i \in 1..Len(connections) : i \in 1..Len(connections')
    BY <1>2
  <2>2. ASSUME NEW x \in All
        PROVE  \/ \E i \in 1..Len(connections') : connections'[i] = x
               \/ \E d \in Clients : conn'[d] = x
    BY <1>2, <1>3, <2>1 DEF PoolInv, Present
  <2>3. QED BY <1>1, <2>2 DEF Present
<1>12. NoLostWakeup'
  <2> SUFFICES ASSUME Waiting(phase') # {} PROVE Len(connections') <= Cardinality(Woken')
    BY DEF NoLostWakeup, Woken, Waiting
  <2>1. Waiting(phase) # {}
    BY <1>7 DEF Waiting
  <2>2. PICK w \in Waiting(phase) : phase' = [p EXCEPT ![w] = "woken"]
    BY <1>6, <2>1
  <2>3. w \in Clients /\ w \notin Woken
    BY <2>2 DEF Waiting, Woken
  <2>4. Woken' = Woken \cup {w}
    <3> HIDE DEF p
    <3>1. QED BY <1>1, <1>5, <2>2 DEF Waiting, Woken
  <2>5. Cardinality(Woken') = Cardinality(Woken) + 1
    BY <2>3, <2>4, WakeOne
  <2>6. Len(connections) <= Cardinality(Woken)
    BY <2>1 DEF PoolInv, NoLostWakeup, Woken
  <2>7. QED BY <1>2, <2>5, <2>6, WokenFinite
<1>13. QED BY <1>8, <1>10, <1>11, <1>12 DEF PoolInv

\* The checking thread and broken links touch neither the queue nor the clients.
LEMMA PoolInvChecker ==
    ASSUME PoolInv, CopyQueue \/ CheckNext \/ FallAsleep \/ WakeUp \/ Break
    PROVE  PoolInv'
<1>1. UNCHANGED <<connections, initialized, created, phase, conn>> /\ All' = All
  BY DEF CopyQueue, CheckNext, FallAsleep, WakeUp, Break, queue, clients, All
<1>2. connsToCheck' \in Seq(All)
  <2>1. CASE CheckNext
    BY <2>1, HeadTailProperties DEF CheckNext, PoolInv, PoolTypeOK
  <2>2. CASE ~CheckNext
    BY <2>2 DEF CopyQueue, FallAsleep, WakeUp, Break, checker, PoolInv, PoolTypeOK
  <2>3. QED BY <2>1, <2>2
<1>3. alive' \subseteq All
  <2>1. CASE CheckNext
    <3>1. Head(connsToCheck) \in All
      BY <2>1, HeadTailProperties DEF CheckNext, PoolInv, PoolTypeOK
    <3>2. QED BY <2>1, <3>1 DEF CheckNext, PoolInv, PoolTypeOK
  <2>2. CASE ~CheckNext
    BY <2>2 DEF CopyQueue, FallAsleep, WakeUp, Break, links, PoolInv, PoolTypeOK
  <2>3. QED BY <2>1, <2>2
<1>4. breaks' \in 0..MaxBreaks /\ asleep' \in BOOLEAN
  <2>1. breaks' \in 0..MaxBreaks
    BY PoolBounds DEF CopyQueue, CheckNext, FallAsleep, WakeUp, Break, links, checker, PoolInv, PoolTypeOK
  <2>2. asleep \in BOOLEAN
    BY DEF PoolInv, PoolTypeOK
  <2>3. asleep' \in BOOLEAN
    BY <2>2 DEF CopyQueue, CheckNext, FallAsleep, WakeUp, Break, links, checker
  <2>4. QED BY <2>1, <2>3
<1>5. PoolTypeOK'
  BY <1>1, <1>2, <1>3, <1>4 DEF PoolInv, PoolTypeOK, Waiting
<1>6. Apart' /\ Present'
  BY <1>1, PlacesStay
<1>7. NoLostWakeup'
  BY <1>1 DEF PoolInv, NoLostWakeup, Waiting
<1>8. QED BY <1>5, <1>6, <1>7 DEF PoolInv

-----------------------------------------------------------------------------
\* Every step of a client, of the checking thread and of init keeps it.
LEMMA PoolInvStep == PoolInv /\ [PoolNext]_poolVars => PoolInv'
<1> SUFFICES ASSUME PoolInv, [PoolNext]_poolVars PROVE PoolInv'
  OBVIOUS
<1>1. CASE \E n \in 0..PoolSize : InitPool(n)
  BY <1>1, PoolInvInitPool
<1>2. CASE \E c \in Clients : Use(c)
  BY <1>2, PoolInvTake, PoolInvWaitPing, PoolInvPush DEF Use
<1>3. CASE CopyQueue \/ CheckNext \/ FallAsleep \/ WakeUp \/ Break
  BY <1>3, PoolInvChecker
<1>4. CASE UNCHANGED poolVars
  <2>1. Apart' /\ Present'
    BY <1>4, PlacesStay DEF poolVars
  <2>2. PoolTypeOK' /\ NoLostWakeup'
    BY <1>4 DEF poolVars, PoolInv, PoolTypeOK, All, NoLostWakeup, Waiting
  <2>3. QED BY <2>1, <2>2 DEF PoolInv
<1>5. QED BY <1>1, <1>2, <1>3, <1>4 DEF PoolNext

\* The inductive invariant holds in every reachable state of the pool.
THEOREM PoolInvariance == PoolSpec => []PoolInv
BY PoolInvInit, PoolInvStep, PTL DEF PoolSpec

\* A client has a connection exactly from taking one to giving it back, and
\* nobody waits for a pool that is not initialized.
THEOREM PoolTypeCorrect == PoolSpec => []PoolTypeOK
<1>1. PoolInv => PoolTypeOK
  BY DEF PoolInv
<1>2. QED BY <1>1, PoolInvariance, PTL

\* getConnection and the deleter lose no connection and share none, for any
\* number of clients and connections, whatever breaks or throws on the way.
THEOREM NoneLostNoneShared == PoolSpec => []EachInOnePlace
<1>1. PoolInv => EachInOnePlace
  BY ApartInOnePlace DEF PoolInv
<1>2. QED BY <1>1, PoolInvariance, PTL

\* One notify_one per connection given back is enough: while connections are
\* queued and a client waits, as many clients are on their way to take them.
THEOREM WakeupsKept == PoolSpec => []NoLostWakeup
<1>1. PoolInv => NoLostWakeup
  BY DEF PoolInv
<1>2. QED BY <1>1, PoolInvariance, PTL

(***************************************************************************)
(* The cache.                                                              *)
(***************************************************************************)
\* What the cache can hold, and under which keys.
Entries == [status : Nat, bytes : Nat, hardExpire : Nat, softExpire : Nat]
CacheKeys == {MakeKey(r) : r \in Requests \cup {NoRequest}}
Items == [key : CacheKeys, entry : Entries]

-----------------------------------------------------------------------------
\* Induction on numbers and on lists: a set that holds the first of them and
\* with each the next holds them all, for of those outside there would be a least.
LEMMA Least ==
    ASSUME NEW S \in SUBSET Nat, S # {}
    PROVE  Min(S) \in S /\ \A n \in S : Min(S) <= n
<1> DEFINE R == OpToRel(<, Nat)
<1>1. \A x, y \in Nat : x < y => <<x, y>> \in R
  BY Zenon DEF OpToRel
<1>2. IsWellFoundedOn(R, Nat)
  BY NatLessThanWellFounded, Zenon
<1> HIDE DEF R
<1>3. PICK m \in S : \A y \in S : ~(<<y, m>> \in R)
  BY <1>2, WFMin
<1>4. \A y \in S : m <= y
  <2>1. ASSUME NEW y \in S PROVE m <= y
    <3>1. ~(y < m)
      BY <1>1, <1>3
    <3>2. QED BY <3>1
  <2>2. QED BY <2>1
<1>5. QED BY <1>4 DEF Min

LEMMA SetInduction ==
    ASSUME NEW S, 0 \in S, \A n \in Nat : n \in S => n + 1 \in S
    PROVE  Nat \subseteq S
<1> DEFINE Rest == Nat \ S
<1> SUFFICES ASSUME Rest # {} PROVE FALSE
  OBVIOUS
<1> DEFINE m == Min(Rest)
<1>1. m \in Rest /\ \A n \in Rest : m <= n
  BY Least
<1> HIDE DEF m
<1>2. m # 0 /\ m - 1 \in Nat
  BY <1>1
<1>3. m - 1 \in S
  BY <1>1, <1>2
<1>4. (m - 1) + 1 \in S
  BY <1>2, <1>3
<1>5. (m - 1) + 1 = m
  BY <1>1
<1>6. QED BY <1>1, <1>4, <1>5

LEMMA ListInduction ==
    ASSUME NEW T, NEW S, <<>> \in S,
           \A s \in Seq(T), x \in T : s \in S => Append(s, x) \in S
    PROVE  Seq(T) \subseteq S
<1> DEFINE N == {n \in Nat : \A s \in Seq(T) : Len(s) = n => s \in S}
<1>1. 0 \in N
  <2>1. \A s \in Seq(T) : Len(s) = 0 => s = <<>>
    BY EmptySeq
  <2>2. QED BY <2>1
<1>2. ASSUME NEW n \in Nat, n \in N PROVE n + 1 \in N
  <2>1. ASSUME NEW s \in Seq(T), Len(s) = n + 1 PROVE s \in S
    <3> DEFINE f == SubSeq(s, 1, n)
    <3>1. s[n + 1] \in T
      BY <2>1, ElementOfSeq
    <3>2. f \in Seq(T) /\ Len(f) = n /\ \A i \in 1 .. n : f[i] = s[i]
      BY <2>1
    <3> HIDE DEF f
    <3>3. s = Append(f, s[n + 1])
      <4> DEFINE t == Append(f, s[n + 1])
      <4>1. t \in Seq(T) /\ Len(t) = n + 1 /\ \A i \in 1 .. n + 1 : t[i] = s[i]
        BY <3>1, <3>2
      <4> HIDE DEF t
      <4>2. s = t
        BY <2>1, <4>1, SeqEqual
      <4>3. QED BY <4>2 DEF t
    <3>4. f \in S
      BY <1>2, <3>2
    <3>5. QED BY <3>1, <3>2, <3>3, <3>4
  <2>2. QED BY <2>1
<1>3. Nat \subseteq N
  <2> HIDE DEF N
  <2>1. QED BY <1>1, <1>2, SetInduction
<1>4. QED BY <1>3, LenProperties

\* A function that a step over its prefixes defines exists, and is determined by it.
Follows(f, V, base, L, step) ==
    f \in [0 .. L -> V] /\ f[0] = base /\ \A n \in 1 .. L : f[n] = step[n][f[n - 1]]

LEMMA RecursionExists ==
    ASSUME NEW V, NEW base \in V, NEW L \in Nat, NEW step \in [1 .. L -> [V -> V]]
    PROVE  \E f : Follows(f, V, base, L, step)
<1> DEFINE N == {m \in Nat : m <= L => \E f : Follows(f, V, base, m, step)}
<1>1. 0 \in N
  <2> DEFINE f == [n \in 0 .. 0 |-> base]
  <2>1. f \in [0 .. 0 -> V] /\ f[0] = base
    OBVIOUS
  <2> HIDE DEF f
  <2>2. \A n \in 1 .. 0 : f[n] = step[n][f[n - 1]]
    OBVIOUS
  <2>3. QED BY <2>1, <2>2 DEF Follows
<1>2. ASSUME NEW m \in Nat, m \in N PROVE m + 1 \in N
  <2>1. SUFFICES ASSUME m + 1 <= L
                 PROVE  \E f : Follows(f, V, base, m + 1, step)
    OBVIOUS
  <2>2. PICK f : Follows(f, V, base, m, step)
    BY <1>2, <2>1
  <2> DEFINE last == step[m + 1][f[m]]
             g == [n \in 0 .. m + 1 |-> IF n = m + 1 THEN last ELSE f[n]]
  <2>3. last \in V
    BY <2>1, <2>2 DEF Follows
  <2> HIDE DEF last
  <2>4. g \in [0 .. m + 1 -> V] /\ g[m + 1] = last /\ \A n \in 0 .. m : g[n] = f[n]
    BY <2>2, <2>3 DEF Follows
  <2> HIDE DEF g
  <2>5. g[0] = base
    BY <2>2, <2>4 DEF Follows
  <2>6. ASSUME NEW n \in 1 .. m + 1 PROVE g[n] = step[n][g[n - 1]]
    <3>1. CASE n = m + 1
      <4>1. g[n - 1] = f[m]
        BY <2>4, <3>1
      <4>2. QED BY <2>4, <3>1, <4>1 DEF last
    <3>2. CASE n \in 1 .. m
      <4>1. n - 1 \in 0 .. m /\ n \in 0 .. m
        BY <3>2
      <4>2. QED BY <2>2, <2>4, <3>2, <4>1 DEF Follows
    <3>3. QED BY <3>1, <3>2
  <2>7. QED BY <2>4, <2>5, <2>6 DEF Follows
<1>3. L \in N
  <2> HIDE DEF N
  <2>1. QED BY <1>1, <1>2, SetInduction
<1>4. QED BY <1>3

LEMMA RecursionUnique ==
    ASSUME NEW L \in Nat, NEW f, NEW g, f[0] = g[0],
           \A n \in 1 .. L : f[n - 1] = g[n - 1] => f[n] = g[n]
    PROVE  f[L] = g[L]
<1> DEFINE N == {m \in Nat : m <= L => f[m] = g[m]}
<1>1. 0 \in N
  OBVIOUS
<1>2. ASSUME NEW m \in Nat, m \in N PROVE m + 1 \in N
  <2>1. m + 1 <= L => m + 1 \in 1 .. L /\ (m + 1) - 1 = m
    OBVIOUS
  <2>2. m + 1 <= L => f[m] = g[m]
    BY <1>2
  <2>3. QED BY <2>1, <2>2
<1>3. L \in N
  <2> HIDE DEF N
  <2>1. QED BY <1>1, <1>2, SetInduction
<1>4. QED BY <1>3

-----------------------------------------------------------------------------
\* Bytes is a number, 0 of the empty list, and adds what each item has.
LEMMA ItemBytes == \A x \in Items : x.entry.bytes \in Nat /\ x.key \in CacheKeys
BY DEF Items, Entries

LEMMA BytesSteps ==
    ASSUME NEW s \in Seq(Items)
    PROVE  \E f \in [0 .. Len(s) -> Nat] :
              /\ f[0] = 0 /\ Bytes(s) = f[Len(s)]
              /\ \A n \in 1 .. Len(s) : f[n] = f[n - 1] + s[n].entry.bytes
<1>1. Len(s) \in Nat /\ \A n \in 1 .. Len(s) : s[n].entry.bytes \in Nat
  BY ItemBytes, ElementOfSeq
<1> DEFINE step == [n \in 1 .. Len(s) |-> [v \in Nat |-> v + s[n].entry.bytes]]
           Recursive(f) == f = [n \in 0 .. Len(s) |->
                                  IF n = 0 THEN 0 ELSE f[n - 1] + s[n].entry.bytes]
           h == CHOOSE f : Recursive(f)
<1>2. step \in [1 .. Len(s) -> [Nat -> Nat]]
  BY <1>1
<1>3. \A n \in 1 .. Len(s), v \in Nat : step[n][v] = v + s[n].entry.bytes
  BY <1>1
<1> HIDE DEF step
<1>4. PICK f : Follows(f, Nat, 0, Len(s), step)
  BY <1>1, <1>2, RecursionExists
<1>5. f \in [0 .. Len(s) -> Nat] /\ f[0] = 0 /\ \A n \in 1 .. Len(s) : f[n] = step[n][f[n - 1]]
  BY <1>4 DEF Follows
<1>6. ASSUME NEW n \in 1 .. Len(s) PROVE f[n] = f[n - 1] + s[n].entry.bytes
  <2>1. n - 1 \in 0 .. Len(s)
    BY <1>1
  <2>2. f[n - 1] \in Nat
    BY <1>5, <2>1
  <2>3. step[n][f[n - 1]] = f[n - 1] + s[n].entry.bytes
    BY <1>3, <2>2
  <2>4. QED BY <1>5, <2>3
<1>7. Recursive(f)
  <2>1. \A n \in 0 .. Len(s) : f[n] = IF n = 0 THEN 0 ELSE f[n - 1] + s[n].entry.bytes
    BY <1>1, <1>5, <1>6
  <2>2. QED BY <1>5, <2>1
<1>8. Recursive(h)
  <2> HIDE DEF Recursive
  <2>1. QED BY <1>7, Zenon
<1>9. Bytes(s) = h[Len(s)]
  BY Zenon DEF Bytes
<1> HIDE DEF h
<1>10. h[0] = 0 /\ \A n \in 1 .. Len(s) : h[n] = h[n - 1] + s[n].entry.bytes
  <2>1. \A n \in 0 .. Len(s) : h[n] = IF n = 0 THEN 0 ELSE h[n - 1] + s[n].entry.bytes
    BY <1>8
  <2>2. h[0] = 0
    BY <1>1, <2>1
  <2>3. ASSUME NEW n \in 1 .. Len(s) PROVE h[n] = h[n - 1] + s[n].entry.bytes
    <3>1. n \in 0 .. Len(s) /\ n # 0
      BY <1>1
    <3>2. QED BY <2>1, <3>1
  <2>4. QED BY <2>2, <2>3
<1>11. h[Len(s)] = f[Len(s)]
  <2>1. h[0] = f[0] /\ \A n \in 1 .. Len(s) : h[n - 1] = f[n - 1] => h[n] = f[n]
    BY <1>5, <1>6, <1>10
  <2>2. QED BY <1>1, <2>1, RecursionUnique
<1>12. QED BY <1>5, <1>6, <1>9, <1>11

LEMMA BytesType == ASSUME NEW s \in Seq(Items) PROVE Bytes(s) \in Nat
<1>1. PICK f \in [0 .. Len(s) -> Nat] : Bytes(s) = f[Len(s)]
  BY BytesSteps
<1>2. Len(s) \in 0 .. Len(s)
  OBVIOUS
<1>3. QED BY <1>1, <1>2

LEMMA BytesEmpty == Bytes(<<>>) = 0
<1>1. <<>> \in Seq(Items) /\ Len(<<>>) = 0
  OBVIOUS
<1>2. QED BY <1>1, BytesSteps

LEMMA BytesAppend ==
    ASSUME NEW s \in Seq(Items), NEW x \in Items
    PROVE  Bytes(Append(s, x)) = Bytes(s) + x.entry.bytes
<1> DEFINE t == Append(s, x)
<1>1. /\ t \in Seq(Items) /\ Len(s) \in Nat /\ Len(t) = Len(s) + 1
      /\ t[Len(s) + 1] = x /\ \A n \in 1 .. Len(s) : t[n] = s[n]
  OBVIOUS
<1> HIDE DEF t
<1>2. PICK f \in [0 .. Len(s) -> Nat] :
          /\ f[0] = 0 /\ Bytes(s) = f[Len(s)]
          /\ \A n \in 1 .. Len(s) : f[n] = f[n - 1] + s[n].entry.bytes
  BY BytesSteps
<1>3. PICK g \in [0 .. Len(t) -> Nat] :
          /\ g[0] = 0 /\ Bytes(t) = g[Len(t)]
          /\ \A n \in 1 .. Len(t) : g[n] = g[n - 1] + t[n].entry.bytes
  BY <1>1, BytesSteps
<1>4. g[Len(s)] = f[Len(s)]
  <2>1. ASSUME NEW n \in 1 .. Len(s), g[n - 1] = f[n - 1] PROVE g[n] = f[n]
    <3>1. n \in 1 .. Len(t)
      BY <1>1
    <3>2. QED BY <1>1, <1>2, <1>3, <2>1, <3>1
  <2>2. \A n \in 1 .. Len(s) : g[n - 1] = f[n - 1] => g[n] = f[n]
    BY <2>1
  <2>3. g[0] = f[0] /\ Len(s) \in Nat
    BY <1>1, <1>2, <1>3
  <2>4. QED BY <2>2, <2>3, RecursionUnique
<1>5. g[Len(s) + 1] = g[Len(s)] + x.entry.bytes
  <2>1. Len(s) + 1 \in 1 .. Len(t) /\ (Len(s) + 1) - 1 = Len(s)
    BY <1>1
  <2>2. g[Len(s) + 1] = g[(Len(s) + 1) - 1] + t[Len(s) + 1].entry.bytes
    BY <1>3, <2>1
  <2>3. QED BY <1>1, <2>1, <2>2
<1>6. QED BY <1>1, <1>2, <1>3, <1>4, <1>5 DEF t

\* The bytes of two lists in a row.
LEMMA BytesConcat ==
    ASSUME NEW s \in Seq(Items), NEW t \in Seq(Items)
    PROVE  s \o t \in Seq(Items) /\ Bytes(s \o t) = Bytes(s) + Bytes(t)
<1> DEFINE S == {u \in Seq(Items) : Bytes(s \o u) = Bytes(s) + Bytes(u)}
<1>1. <<>> \in S
  <2>1. s \o <<>> = s /\ <<>> \in Seq(Items)
    BY ConcatEmptySeq
  <2>2. Bytes(s) + 0 = Bytes(s)
    BY BytesType
  <2>3. QED BY <2>1, <2>2, BytesEmpty
<1>2. ASSUME NEW u \in Seq(Items), NEW x \in Items, u \in S PROVE Append(u, x) \in S
  <2>1. s \o Append(u, x) = Append(s \o u, x) /\ s \o u \in Seq(Items) /\ Append(u, x) \in Seq(Items)
    OBVIOUS
  <2>2. Bytes(s \o Append(u, x)) = Bytes(s \o u) + x.entry.bytes
    BY <2>1, BytesAppend
  <2>3. Bytes(Append(u, x)) = Bytes(u) + x.entry.bytes
    BY BytesAppend
  <2>4. Bytes(s) \in Nat /\ Bytes(u) \in Nat /\ x.entry.bytes \in Nat
    BY BytesType, ItemBytes
  <2>5. Bytes(s \o u) = Bytes(s) + Bytes(u)
    BY <1>2
  <2>6. Bytes(s \o Append(u, x)) = Bytes(s) + Bytes(Append(u, x))
    BY <2>2, <2>3, <2>4, <2>5
  <2>7. QED BY <2>1, <2>6
<1>3. Seq(Items) \subseteq S
  <2> HIDE DEF S
  <2>1. QED BY <1>1, <1>2, ListInduction
<1>4. QED BY <1>3

-----------------------------------------------------------------------------
\* Only is a list of items, empty for the empty one, and takes an item by its key.
Filters(f, s, K) ==
    /\ f \in [0 .. Len(s) -> Seq(Items)]
    /\ f[0] = <<>> /\ Only(s, K) = f[Len(s)]
    /\ \A n \in 1 .. Len(s) :
          f[n] = IF s[n].key \in K THEN Append(f[n - 1], s[n]) ELSE f[n - 1]

LEMMA OnlySteps == ASSUME NEW s \in Seq(Items), NEW K PROVE \E f : Filters(f, s, K)
<1>1. Len(s) \in Nat /\ \A n \in 1 .. Len(s) : s[n] \in Items
  BY ElementOfSeq
<1> DEFINE V == Seq(Items)
           step == [n \in 1 .. Len(s) |->
                       [v \in V |-> IF s[n].key \in K THEN Append(v, s[n]) ELSE v]]
           Recursive(f) == f = [n \in 0 .. Len(s) |->
                                  IF n = 0 THEN <<>>
                                  ELSE IF s[n].key \in K THEN Append(f[n - 1], s[n])
                                  ELSE f[n - 1]]
           h == CHOOSE f : Recursive(f)
<1>2. step \in [1 .. Len(s) -> [V -> V]]
  <2>1. \A n \in 1 .. Len(s), v \in V : (IF s[n].key \in K THEN Append(v, s[n]) ELSE v) \in V
    BY <1>1
  <2>2. QED BY <2>1
<1>3. \A n \in 1 .. Len(s), v \in V :
          step[n][v] = IF s[n].key \in K THEN Append(v, s[n]) ELSE v
  OBVIOUS
<1>4. <<>> \in V
  BY EmptySeq
<1> HIDE DEF step, V
<1>5. PICK f : Follows(f, V, <<>>, Len(s), step)
  BY <1>1, <1>2, <1>4, RecursionExists
<1>6. f \in [0 .. Len(s) -> V] /\ f[0] = <<>> /\ \A n \in 1 .. Len(s) : f[n] = step[n][f[n - 1]]
  BY <1>5 DEF Follows
<1>7. ASSUME NEW n \in 1 .. Len(s)
      PROVE  f[n] = IF s[n].key \in K THEN Append(f[n - 1], s[n]) ELSE f[n - 1]
  <2>1. n - 1 \in 0 .. Len(s)
    BY <1>1
  <2>2. f[n - 1] \in V
    BY <1>6, <2>1
  <2>3. step[n][f[n - 1]] = IF s[n].key \in K THEN Append(f[n - 1], s[n]) ELSE f[n - 1]
    BY <1>3, <2>2
  <2>4. QED BY <1>6, <2>3
<1>8. Recursive(f)
  <2>1. ASSUME NEW n \in 0 .. Len(s)
        PROVE  f[n] = IF n = 0 THEN <<>> ELSE IF s[n].key \in K THEN Append(f[n - 1], s[n])
                      ELSE f[n - 1]
    <3>1. CASE n = 0
      BY <1>6, <3>1
    <3>2. CASE n # 0
      <4>1. n \in 1 .. Len(s)
        BY <1>1, <3>2
      <4>2. QED BY <1>7, <3>2, <4>1
    <3>3. QED BY <3>1, <3>2
  <2>2. QED BY <1>6, <2>1
<1>9. Recursive(h)
  <2> HIDE DEF Recursive
  <2>1. QED BY <1>8, Zenon
<1>10. Only(s, K) = h[Len(s)]
  BY Zenon DEF Only
<1> HIDE DEF h
<1>11. h[0] = <<>> /\ \A n \in 1 .. Len(s) :
          h[n] = IF s[n].key \in K THEN Append(h[n - 1], s[n]) ELSE h[n - 1]
  <2>1. \A n \in 0 .. Len(s) : h[n] = IF n = 0 THEN <<>>
                                     ELSE IF s[n].key \in K THEN Append(h[n - 1], s[n])
                                     ELSE h[n - 1]
    BY <1>9
  <2>2. h[0] = <<>>
    BY <1>1, <2>1
  <2>3. ASSUME NEW n \in 1 .. Len(s)
        PROVE  h[n] = IF s[n].key \in K THEN Append(h[n - 1], s[n]) ELSE h[n - 1]
    <3>1. n \in 0 .. Len(s) /\ n # 0
      BY <1>1
    <3>2. QED BY <2>1, <3>1
  <2>4. QED BY <2>2, <2>3
<1>12. h[Len(s)] = f[Len(s)]
  <2>1. h[0] = f[0] /\ \A n \in 1 .. Len(s) : h[n - 1] = f[n - 1] => h[n] = f[n]
    BY <1>6, <1>7, <1>11
  <2>2. QED BY <1>1, <2>1, RecursionUnique
<1>13. QED BY <1>6, <1>7, <1>10, <1>12 DEF V, Filters

LEMMA OnlyType == ASSUME NEW s \in Seq(Items), NEW K PROVE Only(s, K) \in Seq(Items)
<1>1. PICK f : Filters(f, s, K)
  BY OnlySteps
<1>2. Len(s) \in 0 .. Len(s)
  OBVIOUS
<1>3. QED BY <1>1, <1>2 DEF Filters

LEMMA OnlyEmpty == ASSUME NEW K PROVE Only(<<>>, K) = <<>>
<1>1. <<>> \in Seq(Items) /\ Len(<<>>) = 0
  OBVIOUS
<1>2. PICK f : Filters(f, <<>>, K)
  BY <1>1, OnlySteps
<1>3. QED BY <1>1, <1>2 DEF Filters

LEMMA OnlyAppend ==
    ASSUME NEW s \in Seq(Items), NEW x \in Items, NEW K
    PROVE  Only(Append(s, x), K) = IF x.key \in K THEN Append(Only(s, K), x) ELSE Only(s, K)
<1> DEFINE t == Append(s, x)
<1>1. /\ t \in Seq(Items) /\ Len(s) \in Nat /\ Len(t) = Len(s) + 1
      /\ t[Len(s) + 1] = x /\ \A n \in 1 .. Len(s) : t[n] = s[n]
  OBVIOUS
<1> HIDE DEF t
<1>2. PICK f : Filters(f, s, K)
  BY OnlySteps
<1>3. PICK g : Filters(g, t, K)
  BY <1>1, OnlySteps
<1>4. g[Len(s)] = f[Len(s)]
  <2>1. ASSUME NEW n \in 1 .. Len(s), g[n - 1] = f[n - 1] PROVE g[n] = f[n]
    <3>1. n \in 1 .. Len(t)
      BY <1>1
    <3>2. QED BY <1>1, <1>2, <1>3, <2>1, <3>1 DEF Filters
  <2>2. \A n \in 1 .. Len(s) : g[n - 1] = f[n - 1] => g[n] = f[n]
    BY <2>1
  <2>3. g[0] = f[0] /\ Len(s) \in Nat
    BY <1>1, <1>2, <1>3 DEF Filters
  <2>4. QED BY <2>2, <2>3, RecursionUnique
<1>5. g[Len(s) + 1] = IF x.key \in K THEN Append(g[Len(s)], x) ELSE g[Len(s)]
  <2>1. Len(s) + 1 \in 1 .. Len(t) /\ (Len(s) + 1) - 1 = Len(s)
    BY <1>1
  <2>2. g[Len(s) + 1] = IF t[Len(s) + 1].key \in K THEN Append(g[(Len(s) + 1) - 1], t[Len(s) + 1])
                        ELSE g[(Len(s) + 1) - 1]
    BY <1>3, <2>1 DEF Filters
  <2>3. QED BY <1>1, <2>1, <2>2
<1>6. QED BY <1>1, <1>2, <1>3, <1>4, <1>5 DEF t, Filters

\* An item at the end of a list, of its keys, and of a list after another.
LEMMA KeysOfAppend ==
    ASSUME NEW s \in Seq(Items), NEW x \in Items
    PROVE  KeysOf(Append(s, x)) = KeysOf(s) \cup {x.key}
<1> DEFINE t == Append(s, x)
<1>1. /\ DOMAIN t = 1 .. Len(s) + 1 /\ t[Len(s) + 1] = x /\ Len(s) \in Nat
      /\ DOMAIN s = 1 .. Len(s) /\ \A i \in 1 .. Len(s) : t[i] = s[i]
  OBVIOUS
<1> HIDE DEF t
<1>2. ASSUME NEW k \in KeysOf(t) PROVE k \in KeysOf(s) \cup {x.key}
  <2>1. PICK i \in 1 .. Len(s) + 1 : t[i].key = k
    BY <1>1 DEF KeysOf
  <2>2. CASE i = Len(s) + 1
    BY <1>1, <2>1, <2>2
  <2>3. CASE i \in 1 .. Len(s)
    BY <1>1, <2>1, <2>3 DEF KeysOf
  <2>4. QED BY <1>1, <2>2, <2>3
<1>3. x.key \in KeysOf(t)
  <2>1. Len(s) + 1 \in 1 .. Len(s) + 1
    BY <1>1
  <2>2. QED BY <1>1, <2>1 DEF KeysOf
<1>4. ASSUME NEW k \in KeysOf(s) PROVE k \in KeysOf(t)
  <2>1. PICK i \in 1 .. Len(s) : s[i].key = k
    BY <1>1 DEF KeysOf
  <2>2. i \in 1 .. Len(s) + 1 /\ t[i].key = k
    BY <1>1, <2>1
  <2>3. QED BY <1>1, <2>2 DEF KeysOf
<1>5. QED BY <1>2, <1>3, <1>4 DEF t

LEMMA AppendToConcat ==
    ASSUME NEW s \in Seq(Items), NEW t \in Seq(Items), NEW x \in Items
    PROVE  s \o Append(t, x) = Append(s \o t, x)
OBVIOUS

\* Of two lists in a row, what has the keys is what each has of them.
LEMMA OnlyConcat ==
    ASSUME NEW s \in Seq(Items), NEW t \in Seq(Items), NEW K
    PROVE  Only(s \o t, K) = Only(s, K) \o Only(t, K)
<1> DEFINE S == {u \in Seq(Items) : Only(s \o u, K) = Only(s, K) \o Only(u, K)}
<1>1. <<>> \in S
  <2>1. s \o <<>> = s /\ <<>> \in Seq(Items) /\ Only(s, K) \in Seq(Items)
    BY ConcatEmptySeq, OnlyType
  <2>2. Only(s, K) \o <<>> = Only(s, K)
    BY <2>1, ConcatEmptySeq
  <2>3. QED BY <2>1, <2>2, OnlyEmpty
<1>2. ASSUME NEW u \in Seq(Items), NEW x \in Items, u \in S PROVE Append(u, x) \in S
  <2>1. /\ s \o Append(u, x) = Append(s \o u, x)
        /\ s \o u \in Seq(Items) /\ Append(u, x) \in Seq(Items)
    OBVIOUS
  <2>2. Only(s \o Append(u, x), K) = IF x.key \in K THEN Append(Only(s \o u, K), x)
                                    ELSE Only(s \o u, K)
    <3> DEFINE w == s \o u
    <3>1. w \in Seq(Items)
      BY <2>1
    <3> HIDE DEF w
    <3>2. Only(Append(w, x), K) = IF x.key \in K THEN Append(Only(w, K), x) ELSE Only(w, K)
      BY <3>1, OnlyAppend
    <3>3. s \o Append(u, x) = Append(w, x)
      BY <2>1 DEF w
    <3>4. QED BY <3>2, <3>3 DEF w
  <2>3. Only(s, K) \in Seq(Items) /\ Only(u, K) \in Seq(Items)
    BY OnlyType
  <2>4. Only(s \o u, K) = Only(s, K) \o Only(u, K)
    BY <1>2
  <2>5. CASE x.key \in K
    <3>1. Only(s \o Append(u, x), K) = Append(Only(s, K) \o Only(u, K), x)
      BY <2>2, <2>4, <2>5
    <3>2. Only(Append(u, x), K) = Append(Only(u, K), x)
      BY <2>5, OnlyAppend
    <3>3. Append(Only(s, K) \o Only(u, K), x) = Only(s, K) \o Append(Only(u, K), x)
      BY <2>3, AppendToConcat
    <3>4. QED BY <2>1, <3>1, <3>2, <3>3
  <2>6. CASE x.key \notin K
    <3>1. Only(s \o Append(u, x), K) = Only(s \o u, K)
      BY <2>2, <2>6
    <3>2. Only(Append(u, x), K) = Only(u, K)
      BY <2>6, OnlyAppend
    <3>3. QED BY <2>1, <2>4, <3>1, <3>2
  <2>7. QED BY <2>5, <2>6
<1>3. Seq(Items) \subseteq S
  <2> HIDE DEF S
  <2>1. QED BY <1>1, <1>2, ListInduction
<1>4. QED BY <1>3

\* All keys of a list are wanted: the list itself.
LEMMA OnlyAll ==
    ASSUME NEW s \in Seq(Items), NEW K, KeysOf(s) \subseteq K
    PROVE  Only(s, K) = s
<1> DEFINE S == {u \in Seq(Items) : KeysOf(u) \subseteq K => Only(u, K) = u}
<1>1. <<>> \in S
  BY EmptySeq, OnlyEmpty
<1>2. ASSUME NEW u \in Seq(Items), NEW x \in Items, u \in S PROVE Append(u, x) \in S
  <2>1. Append(u, x) \in Seq(Items)
    OBVIOUS
  <2>2. ASSUME KeysOf(Append(u, x)) \subseteq K PROVE Only(Append(u, x), K) = Append(u, x)
    <3>1. KeysOf(u) \subseteq K /\ x.key \in K
      BY <2>2, KeysOfAppend
    <3>2. Only(u, K) = u
      BY <1>2, <3>1
    <3>3. QED BY <3>1, <3>2, OnlyAppend
  <2>3. QED BY <2>1, <2>2
<1>3. Seq(Items) \subseteq S
  <2> HIDE DEF S
  <2>1. QED BY <1>1, <1>2, ListInduction
<1>4. QED BY <1>3

\* A list falls into what is kept and what is dropped.
LEMMA OnlyBytes ==
    ASSUME NEW s \in Seq(Items), NEW M, NEW K, KeysOf(s) \subseteq M
    PROVE  Bytes(Only(s, M \ K)) + Bytes(Only(s, K)) = Bytes(s)
<1> DEFINE P(u) == Bytes(Only(u, M \ K)) + Bytes(Only(u, K)) = Bytes(u)
           S == {u \in Seq(Items) : KeysOf(u) \subseteq M => P(u)}
<1>1. <<>> \in S
  BY EmptySeq, OnlyEmpty, BytesEmpty
<1>2. ASSUME NEW u \in Seq(Items), NEW x \in Items, u \in S PROVE Append(u, x) \in S
  <2>1. Append(u, x) \in Seq(Items)
    OBVIOUS
  <2>2. ASSUME KeysOf(Append(u, x)) \subseteq M PROVE P(Append(u, x))
    <3>1. KeysOf(u) \subseteq M /\ x.key \in M
      BY <2>2, KeysOfAppend
    <3>2. P(u)
      BY <1>2, <3>1
    <3>3. Only(u, M \ K) \in Seq(Items) /\ Only(u, K) \in Seq(Items)
      BY OnlyType
    <3>4. /\ Bytes(u) \in Nat /\ x.entry.bytes \in Nat
          /\ Bytes(Only(u, M \ K)) \in Nat /\ Bytes(Only(u, K)) \in Nat
      BY <3>3, BytesType, ItemBytes
    <3>5. Bytes(Append(u, x)) = Bytes(u) + x.entry.bytes
      BY BytesAppend
    <3>6. CASE x.key \in K
      <4>1. Only(Append(u, x), M \ K) = Only(u, M \ K)
        BY <3>6, OnlyAppend
      <4>2. Only(Append(u, x), K) = Append(Only(u, K), x)
        BY <3>6, OnlyAppend
      <4>3. Bytes(Append(Only(u, K), x)) = Bytes(Only(u, K)) + x.entry.bytes
        BY <3>3, BytesAppend
      <4>4. Bytes(Only(u, M \ K)) + Bytes(Only(u, K)) = Bytes(u)
        BY <3>2
      <4>5. /\ Bytes(Only(Append(u, x), M \ K)) = Bytes(Only(u, M \ K))
            /\ Bytes(Only(Append(u, x), K)) = Bytes(Only(u, K)) + x.entry.bytes
        BY <4>1, <4>2, <4>3
      <4>6. QED BY <3>4, <3>5, <4>4, <4>5
    <3>7. CASE x.key \notin K
      <4>1. Only(Append(u, x), K) = Only(u, K)
        BY <3>7, OnlyAppend
      <4>2. Only(Append(u, x), M \ K) = Append(Only(u, M \ K), x)
        BY <3>1, <3>7, OnlyAppend
      <4>3. Bytes(Append(Only(u, M \ K), x)) = Bytes(Only(u, M \ K)) + x.entry.bytes
        BY <3>3, BytesAppend
      <4>4. Bytes(Only(u, M \ K)) + Bytes(Only(u, K)) = Bytes(u)
        BY <3>2
      <4>5. /\ Bytes(Only(Append(u, x), M \ K)) = Bytes(Only(u, M \ K)) + x.entry.bytes
            /\ Bytes(Only(Append(u, x), K)) = Bytes(Only(u, K))
        BY <4>1, <4>2, <4>3
      <4>6. QED BY <3>4, <3>5, <4>4, <4>5
    <3>8. QED BY <3>6, <3>7
  <2>3. QED BY <2>1, <2>2
<1>3. Seq(Items) \subseteq S
  <2> HIDE DEF S
  <2>1. QED BY <1>1, <1>2, ListInduction
<1>4. QED BY <1>3

-----------------------------------------------------------------------------
\* A list of which some items have been taken out: those with keys in K are
\* left, in the same order.
Embedded(o, s, K) ==
    /\ \A i \in 1 .. Len(o) : o[i].key \in K /\ \E p \in 1 .. Len(s) : s[p] = o[i]
    /\ \A i, j \in 1 .. Len(o) :
          i < j => \E p, q \in 1 .. Len(s) : p < q /\ s[p] = o[i] /\ s[q] = o[j]
    /\ \A p \in 1 .. Len(s) : s[p].key \in K => \E i \in 1 .. Len(o) : o[i] = s[p]

\* It stays so with a further item, which has been taken or left; and so Only
\* takes items out.
LEMMA EmbeddedTaken ==
    ASSUME NEW o \in Seq(Items), NEW s \in Seq(Items), NEW x \in Items, NEW K,
           Embedded(o, s, K), x.key \in K
    PROVE  Embedded(Append(o, x), Append(s, x), K)
<1> DEFINE t == Append(s, x)
           w == Append(o, x)
<1>1. /\ Len(s) \in Nat /\ Len(t) = Len(s) + 1
      /\ t[Len(s) + 1] = x /\ \A n \in 1 .. Len(s) : t[n] = s[n]
  OBVIOUS
<1>2. /\ Len(o) \in Nat /\ Len(w) = Len(o) + 1
      /\ w[Len(o) + 1] = x /\ \A n \in 1 .. Len(o) : w[n] = o[n]
  OBVIOUS
<1> HIDE DEF t, w
<1>3. ASSUME NEW i \in 1 .. Len(w) PROVE w[i].key \in K /\ \E p \in 1 .. Len(t) : t[p] = w[i]
  <2>1. CASE i = Len(o) + 1
    <3>1. Len(s) + 1 \in 1 .. Len(t)
      BY <1>1
    <3>2. QED BY <1>1, <1>2, <2>1, <3>1
  <2>2. CASE i \in 1 .. Len(o)
    <3>1. w[i] = o[i] /\ o[i].key \in K
      BY <1>2, <2>2 DEF Embedded
    <3>2. PICK p \in 1 .. Len(s) : s[p] = o[i]
      BY <2>2 DEF Embedded
    <3>3. p \in 1 .. Len(t) /\ t[p] = w[i]
      BY <1>1, <3>1, <3>2
    <3>4. QED BY <3>1, <3>3
  <2>3. QED BY <1>2, <2>1, <2>2
<1>4. ASSUME NEW i \in 1 .. Len(w), NEW j \in 1 .. Len(w), i < j
      PROVE  \E p, q \in 1 .. Len(t) : p < q /\ t[p] = w[i] /\ t[q] = w[j]
  <2>1. i \in 1 .. Len(o)
    BY <1>2, <1>4
  <2>2. CASE j = Len(o) + 1
    <3>1. PICK p \in 1 .. Len(s) : s[p] = o[i]
      BY <2>1 DEF Embedded
    <3>2. p \in 1 .. Len(t) /\ Len(s) + 1 \in 1 .. Len(t) /\ p < Len(s) + 1
      BY <1>1
    <3>3. t[p] = w[i] /\ t[Len(s) + 1] = w[j]
      BY <1>1, <1>2, <2>1, <2>2, <3>1
    <3>4. QED BY <3>2, <3>3
  <2>3. CASE j \in 1 .. Len(o)
    <3>1. PICK p \in 1 .. Len(s), q \in 1 .. Len(s) : p < q /\ s[p] = o[i] /\ s[q] = o[j]
      BY <1>4, <2>1, <2>3 DEF Embedded
    <3>2. p \in 1 .. Len(t) /\ q \in 1 .. Len(t) /\ t[p] = w[i] /\ t[q] = w[j]
      BY <1>1, <1>2, <2>1, <2>3, <3>1
    <3>3. QED BY <3>1, <3>2
  <2>4. QED BY <1>2, <2>2, <2>3
<1>5. ASSUME NEW p \in 1 .. Len(t), t[p].key \in K PROVE \E i \in 1 .. Len(w) : w[i] = t[p]
  <2>1. CASE p = Len(s) + 1
    <3>1. Len(o) + 1 \in 1 .. Len(w)
      BY <1>2
    <3>2. QED BY <1>1, <1>2, <2>1, <3>1
  <2>2. CASE p \in 1 .. Len(s)
    <3>1. t[p] = s[p] /\ s[p].key \in K
      BY <1>1, <1>5, <2>2
    <3>2. PICK i \in 1 .. Len(o) : o[i] = s[p]
      BY <2>2, <3>1 DEF Embedded
    <3>3. i \in 1 .. Len(w) /\ w[i] = t[p]
      BY <1>2, <3>1, <3>2
    <3>4. QED BY <3>3
  <2>3. QED BY <1>1, <2>1, <2>2
<1>6. QED BY <1>3, <1>4, <1>5 DEF Embedded, t, w

LEMMA EmbeddedLeft ==
    ASSUME NEW o \in Seq(Items), NEW s \in Seq(Items), NEW x \in Items, NEW K,
           Embedded(o, s, K), x.key \notin K
    PROVE  Embedded(o, Append(s, x), K)
<1> DEFINE t == Append(s, x)
<1>1. /\ Len(s) \in Nat /\ Len(t) = Len(s) + 1
      /\ t[Len(s) + 1] = x /\ \A n \in 1 .. Len(s) : t[n] = s[n]
  OBVIOUS
<1> HIDE DEF t
<1>2. \A p \in 1 .. Len(s) : p \in 1 .. Len(t)
  BY <1>1
<1>3. ASSUME NEW i \in 1 .. Len(o) PROVE o[i].key \in K /\ \E p \in 1 .. Len(t) : t[p] = o[i]
  <2>1. PICK p \in 1 .. Len(s) : s[p] = o[i]
    BY DEF Embedded
  <2>2. p \in 1 .. Len(t) /\ t[p] = o[i]
    BY <1>1, <1>2, <2>1
  <2>3. o[i].key \in K
    BY DEF Embedded
  <2>4. QED BY <2>2, <2>3
<1>4. ASSUME NEW i \in 1 .. Len(o), NEW j \in 1 .. Len(o), i < j
      PROVE  \E p, q \in 1 .. Len(t) : p < q /\ t[p] = o[i] /\ t[q] = o[j]
  <2>1. PICK p \in 1 .. Len(s), q \in 1 .. Len(s) : p < q /\ s[p] = o[i] /\ s[q] = o[j]
    BY <1>4 DEF Embedded
  <2>2. p \in 1 .. Len(t) /\ q \in 1 .. Len(t) /\ t[p] = o[i] /\ t[q] = o[j]
    BY <1>1, <1>2, <2>1
  <2>3. QED BY <2>1, <2>2
<1>5. ASSUME NEW p \in 1 .. Len(t), t[p].key \in K PROVE \E i \in 1 .. Len(o) : o[i] = t[p]
  <2>1. p # Len(s) + 1
    BY <1>1, <1>5
  <2>2. p \in 1 .. Len(s)
    BY <1>1, <2>1
  <2>3. t[p] = s[p] /\ s[p].key \in K
    BY <1>1, <1>5, <2>2
  <2>4. QED BY <2>2, <2>3 DEF Embedded
<1>6. QED BY <1>3, <1>4, <1>5 DEF Embedded, t

LEMMA OnlyEmbedded ==
    ASSUME NEW s \in Seq(Items), NEW K
    PROVE  Embedded(Only(s, K), s, K)
<1> DEFINE S == {u \in Seq(Items) : Embedded(Only(u, K), u, K)}
<1>1. <<>> \in S
  <2>1. <<>> \in Seq(Items) /\ Len(<<>>) = 0
    OBVIOUS
  <2>2. Embedded(<<>>, <<>>, K)
    BY <2>1 DEF Embedded
  <2>3. QED BY <2>1, <2>2, OnlyEmpty
<1>2. ASSUME NEW u \in Seq(Items), NEW x \in Items, u \in S PROVE Append(u, x) \in S
  <2>1. Append(u, x) \in Seq(Items) /\ Only(u, K) \in Seq(Items)
    BY OnlyType
  <2>2. Embedded(Only(u, K), u, K)
    BY <1>2
  <2>3. CASE x.key \in K
    <3>1. Only(Append(u, x), K) = Append(Only(u, K), x)
      BY <2>3, OnlyAppend
    <3>2. Embedded(Append(Only(u, K), x), Append(u, x), K)
      BY <2>1, <2>2, <2>3, EmbeddedTaken
    <3>3. QED BY <2>1, <3>1, <3>2
  <2>4. CASE x.key \notin K
    <3>1. Only(Append(u, x), K) = Only(u, K)
      BY <2>4, OnlyAppend
    <3>2. Embedded(Only(u, K), Append(u, x), K)
      BY <2>1, <2>2, <2>4, EmbeddedLeft
    <3>3. QED BY <2>1, <3>1, <3>2
  <2>5. QED BY <2>3, <2>4
<1>3. Seq(Items) \subseteq S
  <2> HIDE DEF S
  <2>1. QED BY <1>1, <1>2, ListInduction
<1>4. QED BY <1>3

\* No key is in a list twice.
Distinct(s) == \A i, j \in 1 .. Len(s) : i < j => s[i].key # s[j].key

\* The items of a part of a list.
LEMMA Part ==
    ASSUME NEW s \in Seq(Items), NEW m \in 1 .. Len(s) + 1, NEW n \in 0 .. Len(s), m <= n + 1
    PROVE  /\ SubSeq(s, m, n) \in Seq(Items) /\ Len(SubSeq(s, m, n)) = n - m + 1
           /\ \A i \in 1 .. Len(SubSeq(s, m, n)) : SubSeq(s, m, n)[i] = s[m + i - 1]
<1>1. Len(s) \in Nat /\ \A i \in 1 .. Len(s) : s[i] \in Items
  BY ElementOfSeq
<1>2. \A i \in m .. n : s[i] \in Items
  BY <1>1
<1> DEFINE a == SubSeq(s, m, n)
<1>3. /\ a \in Seq(Items) /\ Len(a) = IF m <= n THEN n - m + 1 ELSE 0
      /\ \A i \in 1 .. n - m + 1 : a[i] = s[m + i - 1]
  BY <1>1, <1>2, SubSeqProperties
<1> HIDE DEF a
<1>4. Len(a) = n - m + 1
  BY <1>1, <1>3
<1>5. QED BY <1>3, <1>4 DEF a

\* RemoveAt takes out one key, the front of a list leaves those of its back out.
LEMMA RemoveAtEmbedded ==
    ASSUME NEW s \in Seq(Items), Distinct(s), NEW p \in 1 .. Len(s)
    PROVE  /\ RemoveAt(s, p) \in Seq(Items)
           /\ Embedded(RemoveAt(s, p), s, KeysOf(s) \ {s[p].key})
<1> DEFINE o == RemoveAt(s, p)
           K == KeysOf(s) \ {s[p].key}
<1>1. /\ Len(s) \in Nat /\ DOMAIN s = 1 .. Len(s)
      /\ \A i \in 1 .. Len(s) : s[i] \in Items
  BY ElementOfSeq
<1>2. /\ o \in Seq(Items) /\ Len(o) = Len(s) - 1
      /\ \A i \in 1 .. Len(o) : o[i] = s[IF i < p THEN i ELSE i + 1]
  <2> DEFINE a == SubSeq(s, 1, p - 1)
             b == SubSeq(s, p + 1, Len(s))
  <2>1. a \in Seq(Items) /\ Len(a) = p - 1 /\ \A i \in 1 .. Len(a) : a[i] = s[i]
    <3>1. 1 \in 1 .. Len(s) + 1 /\ p - 1 \in 0 .. Len(s) /\ 1 <= (p - 1) + 1
      BY <1>1
    <3>2. /\ a \in Seq(Items) /\ Len(a) = (p - 1) - 1 + 1
          /\ \A i \in 1 .. Len(a) : a[i] = s[1 + i - 1]
      BY <3>1, Part
    <3> HIDE DEF a
    <3>3. QED BY <1>1, <3>2
  <2>2. b \in Seq(Items) /\ Len(b) = Len(s) - p /\ \A i \in 1 .. Len(b) : b[i] = s[p + i]
    <3>1. p + 1 \in 1 .. Len(s) + 1 /\ Len(s) \in 0 .. Len(s) /\ p + 1 <= Len(s) + 1
      BY <1>1
    <3>2. /\ b \in Seq(Items) /\ Len(b) = Len(s) - (p + 1) + 1
          /\ \A i \in 1 .. Len(b) : b[i] = s[(p + 1) + i - 1]
      BY <3>1, Part
    <3> HIDE DEF b
    <3>3. Len(b) = Len(s) - p
      BY <1>1, <3>2
    <3>4. ASSUME NEW i \in 1 .. Len(b) PROVE b[i] = s[p + i]
      <4>1. (p + 1) + i - 1 = p + i
        BY <1>1, <3>3
      <4>2. QED BY <3>2, <4>1
    <3>5. QED BY <3>2, <3>3, <3>4
  <2>3. o = a \o b
    BY DEF RemoveAt
  <2> HIDE DEF a, b, o
  <2>4. /\ a \o b \in Seq(Items) /\ Len(a \o b) = Len(a) + Len(b)
        /\ \A i \in 1 .. Len(a) + Len(b) :
              (a \o b)[i] = IF i <= Len(a) THEN a[i] ELSE b[i - Len(a)]
    BY <2>1, <2>2, ConcatProperties
  <2>5. Len(o) = Len(s) - 1
    BY <1>1, <2>1, <2>2, <2>3, <2>4
  <2>6. ASSUME NEW i \in 1 .. Len(o) PROVE o[i] = s[IF i < p THEN i ELSE i + 1]
    <3>1. CASE i < p
      BY <1>1, <2>1, <2>3, <2>4, <2>5, <3>1
    <3>2. CASE ~(i < p)
      <4>1. o[i] = b[i - Len(a)]
        BY <1>1, <2>1, <2>2, <2>3, <2>4, <2>5, <3>2
      <4>2. i - Len(a) \in 1 .. Len(b) /\ p + (i - Len(a)) = i + 1
        BY <1>1, <2>1, <2>2, <2>5, <3>2
      <4>3. QED BY <2>2, <3>2, <4>1, <4>2
    <3>3. QED BY <3>1, <3>2
  <2>7. QED BY <2>3, <2>4, <2>5, <2>6
<1>3. \A i \in 1 .. Len(s) : i # p => s[i].key \in K
  BY <1>1 DEF Distinct, KeysOf
<1> HIDE DEF o
<1>4. ASSUME NEW i \in 1 .. Len(o) PROVE o[i].key \in K /\ \E q \in 1 .. Len(s) : s[q] = o[i]
  <2>1. (IF i < p THEN i ELSE i + 1) \in 1 .. Len(s) /\ (IF i < p THEN i ELSE i + 1) # p
    BY <1>1, <1>2
  <2>2. QED BY <1>2, <1>3, <2>1
<1>5. ASSUME NEW i \in 1 .. Len(o), NEW j \in 1 .. Len(o), i < j
      PROVE  \E m, n \in 1 .. Len(s) : m < n /\ s[m] = o[i] /\ s[n] = o[j]
  <2> DEFINE m == IF i < p THEN i ELSE i + 1
             n == IF j < p THEN j ELSE j + 1
  <2>1. m \in 1 .. Len(s) /\ n \in 1 .. Len(s) /\ m < n
    BY <1>1, <1>2, <1>5
  <2>2. s[m] = o[i] /\ s[n] = o[j]
    BY <1>2
  <2>3. QED BY <2>1, <2>2
<1>6. ASSUME NEW q \in 1 .. Len(s), s[q].key \in K PROVE \E i \in 1 .. Len(o) : o[i] = s[q]
  <2>1. q # p
    BY <1>6
  <2>2. CASE q < p
    <3>1. q \in 1 .. Len(o)
      BY <1>1, <1>2, <2>2
    <3>2. QED BY <1>2, <2>2, <3>1
  <2>3. CASE p < q
    <3>1. q - 1 \in 1 .. Len(o) /\ ~(q - 1 < p) /\ (q - 1) + 1 = q
      BY <1>1, <1>2, <2>3
    <3>2. o[q - 1] = s[q]
      BY <1>2, <3>1
    <3>3. QED BY <3>1, <3>2
  <2>4. QED BY <1>1, <2>1, <2>2, <2>3
<1>7. QED BY <1>2, <1>4, <1>5, <1>6 DEF Embedded, o

LEMMA FrontEmbedded ==
    ASSUME NEW s \in Seq(Items), Distinct(s), NEW n \in 0 .. Len(s)
    PROVE  /\ SubSeq(s, 1, n) \in Seq(Items)
           /\ Embedded(SubSeq(s, 1, n), s, KeysOf(s) \ KeysOf(SubSeq(s, n + 1, Len(s))))
<1> DEFINE a == SubSeq(s, 1, n)
           b == SubSeq(s, n + 1, Len(s))
           K == KeysOf(s) \ KeysOf(b)
<1>1. /\ Len(s) \in Nat /\ DOMAIN s = 1 .. Len(s)
      /\ \A i \in 1 .. Len(s) : s[i] \in Items
  BY ElementOfSeq
<1>2. a \in Seq(Items) /\ Len(a) = n /\ \A i \in 1 .. Len(a) : a[i] = s[i]
  BY <1>1
<1>3. DOMAIN b = 1 .. Len(s) - n /\ \A i \in 1 .. Len(s) - n : b[i] = s[n + i]
  BY <1>1
<1> HIDE DEF a, b
<1>4. ASSUME NEW i \in 1 .. n PROVE s[i].key \in K
  <2>1. s[i].key \in KeysOf(s)
    BY <1>1 DEF KeysOf
  <2>2. ASSUME NEW j \in 1 .. Len(s) - n PROVE b[j].key # s[i].key
    <3>1. n + j \in 1 .. Len(s) /\ i \in 1 .. Len(s) /\ i < n + j
      BY <1>1
    <3>2. QED BY <1>3, <3>1 DEF Distinct
  <2>3. QED BY <1>3, <2>1, <2>2 DEF KeysOf
<1>5. ASSUME NEW p \in 1 .. Len(s), s[p].key \in K PROVE p \in 1 .. n
  <2>1. ~(n < p)
    <3>1. SUFFICES ASSUME n < p PROVE FALSE
      OBVIOUS
    <3>2. p - n \in 1 .. Len(s) - n /\ n + (p - n) = p
      BY <1>1, <3>1
    <3>3. b[p - n] = s[p] /\ p - n \in DOMAIN b
      BY <1>3, <3>2
    <3>4. s[p].key \in KeysOf(b)
      BY <3>3 DEF KeysOf
    <3>5. QED BY <1>5, <3>4
  <2>2. QED BY <1>1, <2>1
<1>6. \A i \in 1 .. n : i \in 1 .. Len(s)
  BY <1>1
<1> HIDE DEF K
<1>7. Embedded(a, s, K)
  BY <1>2, <1>4, <1>5, <1>6 DEF Embedded
<1>8. QED BY <1>2, <1>7 DEF a, b, K

\* A list is its front and its back, or what is before a place, the item there
\* and what is after it.
LEMMA FrontAndBack ==
    ASSUME NEW s \in Seq(Items), NEW n \in 0 .. Len(s)
    PROVE  /\ SubSeq(s, 1, n) \in Seq(Items) /\ SubSeq(s, n + 1, Len(s)) \in Seq(Items)
           /\ s = SubSeq(s, 1, n) \o SubSeq(s, n + 1, Len(s))
<1> DEFINE a == SubSeq(s, 1, n)
           b == SubSeq(s, n + 1, Len(s))
<1>1. Len(s) \in Nat
  OBVIOUS
<1>2. /\ a \in Seq(Items) /\ Len(a) = n - 1 + 1
      /\ \A i \in 1 .. Len(a) : a[i] = s[1 + i - 1]
  <2>1. 1 \in 1 .. Len(s) + 1 /\ 1 <= n + 1
    BY <1>1
  <2>2. QED BY <2>1, Part
<1>3. /\ b \in Seq(Items) /\ Len(b) = Len(s) - (n + 1) + 1
      /\ \A i \in 1 .. Len(b) : b[i] = s[(n + 1) + i - 1]
  <2>1. n + 1 \in 1 .. Len(s) + 1 /\ Len(s) \in 0 .. Len(s) /\ n + 1 <= Len(s) + 1
    BY <1>1
  <2>2. QED BY <2>1, Part
<1> HIDE DEF a, b
<1>4. /\ a \o b \in Seq(Items) /\ Len(a \o b) = Len(a) + Len(b)
      /\ \A i \in 1 .. Len(a) + Len(b) :
            (a \o b)[i] = IF i <= Len(a) THEN a[i] ELSE b[i - Len(a)]
  BY <1>2, <1>3, ConcatProperties
<1>5. Len(a) = n /\ Len(b) = Len(s) - n
  BY <1>1, <1>2, <1>3
<1>6. ASSUME NEW i \in 1 .. Len(s) PROVE s[i] = (a \o b)[i]
  <2>1. CASE i <= n
    <3>1. i \in 1 .. Len(a) /\ 1 + i - 1 = i
      BY <1>1, <1>5, <2>1
    <3>2. QED BY <1>1, <1>2, <1>4, <1>5, <2>1, <3>1
  <2>2. CASE ~(i <= n)
    <3>1. i - n \in 1 .. Len(b) /\ (n + 1) + (i - n) - 1 = i
      BY <1>1, <1>5, <2>2
    <3>2. b[i - n] = s[i]
      BY <1>3, <3>1
    <3>3. QED BY <1>1, <1>4, <1>5, <2>2, <3>2
  <2>3. QED BY <2>1, <2>2
<1>7. s = a \o b
  <2>1. Len(s) = Len(a \o b)
    BY <1>1, <1>4, <1>5
  <2>2. QED BY <1>4, <1>6, <2>1, SeqEqual
<1>8. QED BY <1>2, <1>3, <1>7 DEF a, b

LEMMA Around ==
    ASSUME NEW s \in Seq(Items), NEW p \in 1 .. Len(s)
    PROVE  \E a, b \in Seq(Items) :
              s[p] \in Items /\ RemoveAt(s, p) = a \o b /\ s = Append(a, s[p]) \o b
<1> DEFINE a == SubSeq(s, 1, p - 1)
           b == SubSeq(s, p + 1, Len(s))
           f == SubSeq(s, 1, p)
<1>1. Len(s) \in Nat /\ s[p] \in Items
  BY ElementOfSeq
<1>2. f \in Seq(Items) /\ b \in Seq(Items) /\ s = f \o b
  <2>1. p \in 0 .. Len(s)
    BY <1>1
  <2>2. QED BY <2>1, FrontAndBack
<1>3. /\ a \in Seq(Items) /\ Len(a) = (p - 1) - 1 + 1
      /\ \A i \in 1 .. Len(a) : a[i] = s[1 + i - 1]
  <2>1. 1 \in 1 .. Len(s) + 1 /\ p - 1 \in 0 .. Len(s) /\ 1 <= (p - 1) + 1
    BY <1>1
  <2>2. QED BY <2>1, Part
<1>4. Len(f) = p - 1 + 1 /\ \A i \in 1 .. Len(f) : f[i] = s[1 + i - 1]
  <2>1. 1 \in 1 .. Len(s) + 1 /\ p \in 0 .. Len(s) /\ 1 <= p + 1
    BY <1>1
  <2>2. QED BY <2>1, Part
<1>5. RemoveAt(s, p) = a \o b
  BY DEF RemoveAt
<1> HIDE DEF a, b, f
<1>6. f = Append(a, s[p])
  <2> DEFINE t == Append(a, s[p])
  <2>1. /\ t \in Seq(Items) /\ Len(t) = Len(a) + 1 /\ t[Len(a) + 1] = s[p]
        /\ \A i \in 1 .. Len(a) : t[i] = a[i]
    BY <1>1, <1>3
  <2> HIDE DEF t
  <2>2. Len(f) = p /\ Len(t) = p /\ Len(a) = p - 1
    BY <1>1, <1>3, <1>4, <2>1
  <2>3. ASSUME NEW i \in 1 .. p PROVE f[i] = t[i]
    <3>1. f[i] = s[i]
      <4>1. 1 + i - 1 = i
        OBVIOUS
      <4>2. QED BY <1>4, <2>2, <4>1
    <3>2. CASE i = p
      BY <2>1, <2>2, <3>1, <3>2
    <3>3. CASE i # p
      <4>1. i \in 1 .. Len(a) /\ 1 + i - 1 = i
        BY <1>1, <2>2, <3>3
      <4>2. QED BY <1>3, <2>1, <3>1, <4>1
    <3>4. QED BY <3>2, <3>3
  <2>4. f = t
    BY <1>2, <2>1, <2>2, <2>3, SeqEqual
  <2>5. QED BY <2>4 DEF t
<1>7. QED BY <1>1, <1>2, <1>3, <1>5, <1>6

\* The bytes without one item; and of what is wanted of the rest.
LEMMA BytesRemoveAt ==
    ASSUME NEW s \in Seq(Items), NEW p \in 1 .. Len(s)
    PROVE  /\ Bytes(RemoveAt(s, p)) = Bytes(s) - s[p].entry.bytes
           /\ \A K : Bytes(Only(RemoveAt(s, p), K)) <= Bytes(Only(s, K))
<1>1. PICK a \in Seq(Items), b \in Seq(Items) :
          s[p] \in Items /\ RemoveAt(s, p) = a \o b /\ s = Append(a, s[p]) \o b
  BY Around
<1>2. PICK x \in Items : x = s[p]
  BY <1>1
<1>3. Append(a, x) \in Seq(Items) /\ s = Append(a, x) \o b
  BY <1>1, <1>2
<1>4. Bytes(a) \in Nat /\ Bytes(b) \in Nat /\ x.entry.bytes \in Nat
  BY BytesType, ItemBytes
<1>5. Bytes(a \o b) = Bytes(a) + Bytes(b)
  BY BytesConcat
<1>6. Bytes(Append(a, x) \o b) = (Bytes(a) + x.entry.bytes) + Bytes(b)
  BY <1>3, BytesConcat, BytesAppend
<1>7. Bytes(RemoveAt(s, p)) = Bytes(s) - s[p].entry.bytes
  <2>1. Bytes(RemoveAt(s, p)) = Bytes(a) + Bytes(b)
    BY <1>1, <1>5
  <2>2. Bytes(s) = (Bytes(a) + x.entry.bytes) + Bytes(b)
    BY <1>3, <1>6
  <2>3. QED BY <1>2, <1>4, <2>1, <2>2
<1>8. ASSUME NEW K PROVE Bytes(Only(RemoveAt(s, p), K)) <= Bytes(Only(s, K))
  <2>1. Only(a, K) \in Seq(Items) /\ Only(b, K) \in Seq(Items) /\ Only(Append(a, x), K) \in Seq(Items)
    BY <1>3, OnlyType
  <2>2. Bytes(Only(a, K)) \in Nat /\ Bytes(Only(b, K)) \in Nat
    BY <2>1, BytesType
  <2>3. Only(a \o b, K) = Only(a, K) \o Only(b, K)
    BY OnlyConcat
  <2>4. Bytes(Only(RemoveAt(s, p), K)) = Bytes(Only(a, K)) + Bytes(Only(b, K))
    BY <1>1, <2>1, <2>3, BytesConcat
  <2>5. Only(s, K) = Only(Append(a, x), K) \o Only(b, K)
    BY <1>3, OnlyConcat
  <2>6. Bytes(Only(s, K)) = Bytes(Only(Append(a, x), K)) + Bytes(Only(b, K))
    BY <2>1, <2>5, BytesConcat
  <2>7. Bytes(Only(Append(a, x), K)) \in Nat /\ Bytes(Only(Append(a, x), K)) >= Bytes(Only(a, K))
    <3>1. CASE x.key \in K
      <4>1. Only(Append(a, x), K) = Append(Only(a, K), x)
        BY <3>1, OnlyAppend
      <4>2. Bytes(Append(Only(a, K), x)) = Bytes(Only(a, K)) + x.entry.bytes
        BY <2>1, BytesAppend
      <4>3. Bytes(Only(Append(a, x), K)) = Bytes(Only(a, K)) + x.entry.bytes
        BY <4>1, <4>2
      <4>4. QED BY <1>4, <2>2, <4>3
    <3>2. CASE x.key \notin K
      <4>1. Only(Append(a, x), K) = Only(a, K)
        BY <3>2, OnlyAppend
      <4>2. Bytes(Only(Append(a, x), K)) = Bytes(Only(a, K))
        BY <4>1
      <4>3. QED BY <2>2, <4>2
    <3>3. QED BY <3>1, <3>2
  <2>8. QED BY <2>2, <2>4, <2>6, <2>7
<1>9. QED BY <1>7, <1>8

\* How many entries are dropped: enough of them, and no more than that.
LEMMA DropsEnough ==
    ASSUME NEW s \in Seq(Items), NEW sum, sum = Bytes(s)
    PROVE  /\ Drops(s, sum) \in 0 .. Len(s)
           /\ sum - Bytes(Back(s, Drops(s, sum))) <= Capacity
           /\ \A m \in 0 .. Len(s) :
                 m < Drops(s, sum) => ~(sum - Bytes(Back(s, m)) <= Capacity)
<1> DEFINE Enough == {n \in 0 .. Len(s) : sum - Bytes(Back(s, n)) <= Capacity}
           S == {Len(s)} \cup Enough
<1>1. Len(s) \in Nat /\ Capacity \in Nat /\ sum \in Nat
  BY BytesType, CapacityAssumption DEF CapacityAssumption
<1>2. S \in SUBSET Nat /\ S # {}
  BY <1>1
<1>3. Min(S) \in S /\ \A n \in S : Min(S) <= n
  <2> HIDE DEF S
  <2>1. QED BY <1>2, Least
<1>4. Drops(s, sum) = Min(S)
  BY DEF Drops
<1>5. Len(s) \in Enough
  <2>1. Back(s, Len(s)) = s
    <3>1. Len(s) - Len(s) + 1 = 1
      BY <1>1
    <3>2. QED BY <3>1, SubSeqFull DEF Back
  <2>2. sum - Bytes(s) <= Capacity
    BY <1>1
  <2>3. QED BY <1>1, <2>1, <2>2
<1>6. Drops(s, sum) \in Enough
  BY <1>3, <1>4, <1>5
<1>7. ASSUME NEW m \in 0 .. Len(s), m < Drops(s, sum)
      PROVE  ~(sum - Bytes(Back(s, m)) <= Capacity)
  <2>1. SUFFICES ASSUME sum - Bytes(Back(s, m)) <= Capacity PROVE FALSE
    OBVIOUS
  <2>2. m \in S
    BY <2>1
  <2>3. Drops(s, sum) <= m
    BY <1>3, <1>4, <2>2
  <2>4. Drops(s, sum) \in Nat /\ m \in Nat
    BY <1>1, <1>6
  <2>5. QED BY <1>7, <2>3, <2>4
<1>8. QED BY <1>6, <1>7

-----------------------------------------------------------------------------
\* A list of distinct keys in the order of their use, with the entries held.
Linked(s, keys, order, held) ==
    /\ s \in Seq(Items) /\ Distinct(s) /\ KeysOf(s) = keys
    /\ \A i, j \in 1 .. Len(s) : i < j => <<s[i].key, s[j].key>> \in order
    /\ held \in [keys -> Entries]
    /\ \A i \in 1 .. Len(s) : s[i].entry = held[s[i].key]

\* What is left of such a list is one, in any order of use that keeps the pairs
\* left; in particular in the same order,
LEMMA LinkedPart ==
    ASSUME NEW s, NEW keys, NEW order, NEW held, Linked(s, keys, order, held),
           NEW o \in Seq(Items), NEW K, K \subseteq keys, Embedded(o, s, K),
           NEW order2, order \cap (K \X K) \subseteq order2,
           NEW held2 \in [K -> Entries], \A k \in K : held2[k] = held[k]
    PROVE  Linked(o, K, order2, held2)
<1>1. s \in Seq(Items) /\ DOMAIN s = 1 .. Len(s) /\ DOMAIN o = 1 .. Len(o)
  BY DEF Linked
<1>2. ASSUME NEW i \in 1 .. Len(o), NEW j \in 1 .. Len(o), i < j
      PROVE  o[i].key # o[j].key /\ <<o[i].key, o[j].key>> \in order2
  <2>1. PICK p \in 1 .. Len(s), q \in 1 .. Len(s) : p < q /\ s[p] = o[i] /\ s[q] = o[j]
    BY <1>2 DEF Embedded
  <2>2. o[i].key # o[j].key /\ <<o[i].key, o[j].key>> \in order
    BY <2>1 DEF Linked, Distinct
  <2>3. o[i].key \in K /\ o[j].key \in K
    BY DEF Embedded
  <2>4. QED BY <2>2, <2>3
<1>3. KeysOf(o) = K
  <2>1. \A i \in 1 .. Len(o) : o[i].key \in K
    BY DEF Embedded
  <2>2. ASSUME NEW k \in K PROVE k \in KeysOf(o)
    <3>1. PICK p \in 1 .. Len(s) : s[p].key = k
      BY <1>1 DEF Linked, KeysOf
    <3>2. PICK i \in 1 .. Len(o) : o[i] = s[p]
      BY <3>1 DEF Embedded
    <3>3. QED BY <1>1, <3>1, <3>2 DEF KeysOf
  <2>3. QED BY <1>1, <2>1, <2>2 DEF KeysOf
<1>4. ASSUME NEW i \in 1 .. Len(o) PROVE o[i].entry = held2[o[i].key]
  <2>1. PICK p \in 1 .. Len(s) : s[p] = o[i]
    BY DEF Embedded
  <2>2. o[i].key \in K
    BY DEF Embedded
  <2>3. s[p].entry = held[s[p].key]
    BY DEF Linked
  <2>4. QED BY <2>1, <2>2, <2>3
<1>5. QED BY <1>2, <1>3, <1>4 DEF Linked, Distinct

\* of which these are the pairs left, and these the entries.
Among(order, K) == order \cap (K \X K)
HeldOf(held, K) == [k \in K |-> held[k]]

LEMMA LinkedKept ==
    ASSUME NEW s, NEW keys, NEW order, NEW held, Linked(s, keys, order, held),
           NEW o \in Seq(Items), NEW K, K \subseteq keys, Embedded(o, s, K)
    PROVE  Linked(o, K, Among(order, K), HeldOf(held, K))
<1>1. order \cap (K \X K) \subseteq Among(order, K)
  BY DEF Among
<1>2. HeldOf(held, K) \in [K -> Entries] /\ \A k \in K : HeldOf(held, K)[k] = held[k]
  BY DEF Linked, HeldOf
<1>3. QED BY <1>1, <1>2, LinkedPart

\* So is one with a new item in front that has been used after all others.
LEMMA LinkedFront ==
    ASSUME NEW s, NEW keys, NEW order, NEW held, Linked(s, keys, order, held),
           NEW x \in Items, x.key \notin keys, {x.key} \X keys \subseteq order,
           NEW held2 \in [keys \cup {x.key} -> Entries],
           \A k \in keys : held2[k] = held[k], held2[x.key] = x.entry
    PROVE  /\ Linked(<<x>> \o s, keys \cup {x.key}, order, held2)
           /\ Bytes(<<x>> \o s) = x.entry.bytes + Bytes(s)
<1> DEFINE t == <<x>> \o s
<1>1. s \in Seq(Items) /\ DOMAIN s = 1 .. Len(s) /\ Len(s) \in Nat
  BY DEF Linked
<1>2. /\ t \in Seq(Items) /\ Len(t) = Len(s) + 1 /\ DOMAIN t = 1 .. Len(s) + 1
      /\ t[1] = x /\ \A i \in 1 .. Len(s) : t[i + 1] = s[i]
  <2>1. <<x>> \in Seq(Items) /\ Len(<<x>>) = 1 /\ <<x>>[1] = x
    OBVIOUS
  <2>2. /\ t \in Seq(Items) /\ Len(t) = 1 + Len(s)
        /\ \A i \in 1 .. 1 + Len(s) : t[i] = IF i <= 1 THEN <<x>>[i] ELSE s[i - 1]
    BY <1>1, <2>1, ConcatProperties
  <2> HIDE DEF t
  <2>3. ASSUME NEW i \in 1 .. Len(s) PROVE t[i + 1] = s[i]
    <3>1. i + 1 \in 1 .. 1 + Len(s) /\ ~(i + 1 <= 1) /\ (i + 1) - 1 = i
      BY <1>1
    <3>2. QED BY <2>2, <3>1
  <2>4. t[1] = x
    <3>1. 1 \in 1 .. 1 + Len(s)
      BY <1>1
    <3>2. QED BY <2>1, <2>2, <3>1
  <2>5. QED BY <1>1, <2>2, <2>3, <2>4
<1>3. Bytes(t) = x.entry.bytes + Bytes(s)
  <2>1. <<>> \in Seq(Items) /\ Append(<<>>, x) = <<x>> /\ <<x>> \in Seq(Items)
    OBVIOUS
  <2>2. Bytes(<<x>>) = 0 + x.entry.bytes
    BY <2>1, BytesAppend, BytesEmpty
  <2>3. Bytes(t) = Bytes(<<x>>) + Bytes(s)
    BY <1>1, <2>1, BytesConcat
  <2>4. x.entry.bytes \in Nat
    BY ItemBytes
  <2>5. QED BY <2>2, <2>3, <2>4
<1> HIDE DEF t
<1>4. \A i \in 1 .. Len(s) : s[i].key \in keys
  BY <1>1 DEF Linked, KeysOf
<1>5. \A i \in 2 .. Len(s) + 1 : i - 1 \in 1 .. Len(s) /\ t[i] = s[i - 1]
  <2>1. ASSUME NEW i \in 2 .. Len(s) + 1 PROVE i - 1 \in 1 .. Len(s) /\ t[i] = s[i - 1]
    <3>1. i - 1 \in 1 .. Len(s) /\ (i - 1) + 1 = i
      BY <1>1
    <3>2. QED BY <1>2, <3>1
  <2>2. QED BY <2>1
<1>6. ASSUME NEW i \in 1 .. Len(t), NEW j \in 1 .. Len(t), i < j
      PROVE  t[i].key # t[j].key /\ <<t[i].key, t[j].key>> \in order
  <2>1. j \in 2 .. Len(s) + 1
    BY <1>1, <1>2, <1>6
  <2>2. j - 1 \in 1 .. Len(s) /\ t[j] = s[j - 1]
    BY <1>5, <2>1
  <2>3. CASE i = 1
    <3>1. t[j].key \in keys
      BY <1>4, <2>2
    <3>2. t[i].key = x.key
      BY <1>2, <2>3
    <3>3. QED BY <3>1, <3>2
  <2>4. CASE i # 1
    <3>1. i \in 2 .. Len(s) + 1
      BY <1>1, <1>2, <2>4
    <3>2. i - 1 \in 1 .. Len(s) /\ t[i] = s[i - 1]
      BY <1>5, <3>1
    <3>3. i - 1 < j - 1
      BY <1>6
    <3>4. QED BY <2>2, <3>2, <3>3 DEF Linked, Distinct
  <2>5. QED BY <2>3, <2>4
<1>7. KeysOf(t) = keys \cup {x.key}
  <2>1. ASSUME NEW k \in KeysOf(t) PROVE k \in keys \cup {x.key}
    <3>1. PICK i \in 1 .. Len(s) + 1 : t[i].key = k
      BY <1>2 DEF KeysOf
    <3>2. CASE i = 1
      BY <1>2, <3>1, <3>2
    <3>3. CASE i # 1
      <4>1. i \in 2 .. Len(s) + 1
        BY <1>1, <3>3
      <4>2. QED BY <1>4, <1>5, <3>1, <4>1
    <3>4. QED BY <3>2, <3>3
  <2>2. x.key \in KeysOf(t)
    <3>1. 1 \in 1 .. Len(s) + 1
      BY <1>1
    <3>2. QED BY <1>2, <3>1 DEF KeysOf
  <2>3. ASSUME NEW k \in keys PROVE k \in KeysOf(t)
    <3>1. PICK i \in 1 .. Len(s) : s[i].key = k
      BY <1>1 DEF Linked, KeysOf
    <3>2. i + 1 \in 1 .. Len(s) + 1 /\ t[i + 1].key = k
      BY <1>1, <1>2, <3>1
    <3>3. QED BY <1>2, <3>2 DEF KeysOf
  <2>4. QED BY <2>1, <2>2, <2>3
<1>8. ASSUME NEW i \in 1 .. Len(t) PROVE t[i].entry = held2[t[i].key]
  <2>1. CASE i = 1
    BY <1>2, <2>1
  <2>2. CASE i # 1
    <3>1. i \in 2 .. Len(s) + 1
      BY <1>1, <1>2, <2>2
    <3>2. i - 1 \in 1 .. Len(s) /\ t[i] = s[i - 1]
      BY <1>5, <3>1
    <3>3. s[i - 1].key \in keys /\ s[i - 1].entry = held[s[i - 1].key]
      BY <1>4, <3>2 DEF Linked
    <3>4. QED BY <3>2, <3>3
  <2>3. QED BY <2>1, <2>2
<1>9. Linked(t, keys \cup {x.key}, order, held2)
  BY <1>2, <1>6, <1>7, <1>8 DEF Linked, Distinct
<1>10. QED BY <1>3, <1>9 DEF t

\* What evictIfNeeded drops from the back of a list, and what it keeps.
Dropped(s) == Back(s, Drops(s, Bytes(s)))
Kept(s) == SubSeq(s, 1, Len(s) - Len(Dropped(s)))
KeysLeft(s) == KeysOf(s) \ KeysOf(Dropped(s))

\* evictIfNeeded keeps a front of the list that fits; what it drops was behind
\* all that it keeps, and the list up to there does not fit.
LEMMA Evicted ==
    ASSUME NEW s, NEW keys, NEW order, NEW held, Linked(s, keys, order, held)
    PROVE  /\ Linked(Kept(s), KeysLeft(s), Among(order, KeysLeft(s)), HeldOf(held, KeysLeft(s)))
           /\ Bytes(Kept(s)) = Bytes(s) - Bytes(Dropped(s)) /\ Bytes(Kept(s)) <= Capacity
           /\ \A q \in 1 .. Len(s) : s[q].key \notin KeysLeft(s) =>
                 /\ \A k \in KeysLeft(s) : \E p \in 1 .. Len(s) : p < q /\ s[p].key = k
                 /\ Bytes(SubSeq(s, 1, q)) > Capacity
<1> DEFINE sum == Bytes(s)
           out == Dropped(s)
           kept == Kept(s)
           K == KeysLeft(s)
<1>1. /\ sum = Bytes(s) /\ out = Back(s, Drops(s, sum))
      /\ kept = SubSeq(s, 1, Len(s) - Len(out)) /\ K = keys \ KeysOf(out)
  BY DEF Dropped, Kept, KeysLeft, Linked
<1> HIDE DEF sum, out, kept, K
<1>2. s \in Seq(Items) /\ Len(s) \in Nat /\ DOMAIN s = 1 .. Len(s) /\ Distinct(s) /\ KeysOf(s) = keys
  BY DEF Linked
<1>3. PICK n \in 0 .. Len(s) : n = Drops(s, sum)
  BY <1>1, <1>2, DropsEnough
<1>4. PICK m \in 0 .. Len(s) : m = Len(s) - n
  <2>1. Len(s) - n \in 0 .. Len(s)
    BY <1>2
  <2>2. QED BY <2>1
<1>5. out = SubSeq(s, m + 1, Len(s))
  BY <1>1, <1>3, <1>4 DEF Back
<1>6. /\ out \in Seq(Items) /\ Len(out) = n
      /\ \A i \in 1 .. Len(out) : out[i] = s[m + i]
  <2>1. m + 1 \in 1 .. Len(s) + 1 /\ Len(s) \in 0 .. Len(s) /\ m + 1 <= Len(s) + 1
    BY <1>2
  <2>2. /\ out \in Seq(Items) /\ Len(out) = Len(s) - (m + 1) + 1
        /\ \A i \in 1 .. Len(out) : out[i] = s[(m + 1) + i - 1]
    <3> DEFINE b == SubSeq(s, m + 1, Len(s))
    <3>1. /\ b \in Seq(Items) /\ Len(b) = Len(s) - (m + 1) + 1
          /\ \A i \in 1 .. Len(b) : b[i] = s[(m + 1) + i - 1]
      BY <1>1, <1>2, <2>1, Part
    <3>2. out = b
      BY <1>5
    <3> HIDE DEF b
    <3>3. QED BY <3>1, <3>2
  <2>3. Len(out) = n
    BY <1>1, <1>2, <1>4, <2>2
  <2>4. ASSUME NEW i \in 1 .. Len(out) PROVE out[i] = s[m + i]
    <3>1. (m + 1) + i - 1 = m + i
      BY <1>1, <1>2, <2>3
    <3>2. QED BY <2>2, <3>1
  <2>5. QED BY <2>2, <2>3, <2>4
<1>7. kept = SubSeq(s, 1, m)
  BY <1>1, <1>4, <1>6
<1>8. kept \in Seq(Items) /\ s = kept \o out /\ Embedded(kept, s, K)
  BY <1>1, <1>2, <1>5, <1>7, FrontAndBack, FrontEmbedded
<1>9. Linked(kept, K, Among(order, K), HeldOf(held, K))
  <2>1. K \subseteq keys
    BY <1>1
  <2>2. kept \in Seq(Items) /\ Embedded(kept, s, K) /\ Linked(s, keys, order, held)
    BY <1>8
  <2>3. QED BY <2>1, <2>2, LinkedKept, Zenon
<1>10. Bytes(kept) = sum - Bytes(out) /\ Bytes(kept) <= Capacity
  <2>1. Bytes(s) = Bytes(kept) + Bytes(out)
    <3>1. Bytes(kept \o out) = Bytes(kept) + Bytes(out)
      BY <1>6, <1>8, BytesConcat, Zenon
    <3>2. QED BY <1>8, <3>1
  <2>2. Bytes(kept) \in Nat /\ Bytes(out) \in Nat
    BY <1>6, <1>8, BytesType
  <2>3. sum - Bytes(out) <= Capacity
    BY <1>1, <1>2, DropsEnough
  <2>4. QED BY <1>1, <2>1, <2>2, <2>3
<1>11. ASSUME NEW q \in 1 .. Len(s), s[q].key \notin K
       PROVE  /\ \A k \in K : \E p \in 1 .. Len(s) : p < q /\ s[p].key = k
              /\ Bytes(SubSeq(s, 1, q)) > Capacity
  <2>1. m < q
    <3>1. SUFFICES ASSUME q <= m PROVE FALSE
      BY <1>2
    <3>2. s[q].key \in keys
      BY <1>1, <1>2 DEF KeysOf
    <3>3. PICK i \in 1 .. Len(out) : out[i].key = s[q].key
      <4>1. DOMAIN out = 1 .. Len(out)
        BY <1>6
      <4>2. QED BY <1>1, <1>11, <3>2, <4>1 DEF KeysOf
    <3>4. m + i \in 1 .. Len(s) /\ q < m + i
      BY <1>1, <1>2, <1>4, <1>6, <3>1
    <3>5. s[m + i].key = s[q].key
      BY <1>6, <3>3
    <3>6. QED BY <1>1, <1>2, <3>4, <3>5 DEF Distinct
  <2>2. ASSUME NEW k \in K PROVE \E p \in 1 .. Len(s) : p < q /\ s[p].key = k
    <3>1. PICK p \in 1 .. Len(s) : s[p].key = k
      BY <1>1, <1>2 DEF KeysOf
    <3>2. p <= m
      <4>1. SUFFICES ASSUME m < p PROVE FALSE
        BY <1>2
      <4>2. p - m \in 1 .. Len(out) /\ m + (p - m) = p
        BY <1>1, <1>2, <1>4, <1>6, <4>1
      <4>3. out[p - m] = s[p]
        BY <1>6, <4>2
      <4>4. k \in KeysOf(out)
        <5>1. DOMAIN out = 1 .. Len(out)
          BY <1>6
        <5>2. QED BY <3>1, <4>2, <4>3, <5>1 DEF KeysOf
      <4>5. QED BY <1>1, <4>4
    <3>3. p < q
      BY <1>1, <1>2, <2>1, <3>2
    <3>4. QED BY <3>1, <3>3
  <2>3. Bytes(SubSeq(s, 1, q)) > Capacity
    <3>1. Len(s) - q \in 0 .. Len(s) /\ Len(s) - q < n /\ Len(s) - (Len(s) - q) + 1 = q + 1
      BY <1>1, <1>2, <1>4, <2>1
    <3>2. ~(sum - Bytes(Back(s, Len(s) - q)) <= Capacity)
      BY <1>1, <1>2, <1>3, <3>1, DropsEnough
    <3>3. Back(s, Len(s) - q) = SubSeq(s, q + 1, Len(s))
      BY <3>1 DEF Back
    <3>4. /\ SubSeq(s, 1, q) \in Seq(Items) /\ SubSeq(s, q + 1, Len(s)) \in Seq(Items)
          /\ s = SubSeq(s, 1, q) \o SubSeq(s, q + 1, Len(s))
      <4>1. q \in 0 .. Len(s)
        BY <1>2
      <4>2. QED BY <1>1, <1>2, <4>1, FrontAndBack, Zenon
    <3>5. PICK a \in Seq(Items), b \in Seq(Items) :
              a = SubSeq(s, 1, q) /\ b = SubSeq(s, q + 1, Len(s)) /\ s = a \o b
      BY <3>4
    <3>6. sum = Bytes(a) + Bytes(b) /\ Bytes(a) \in Nat /\ Bytes(b) \in Nat
      <4>1. Bytes(a \o b) = Bytes(a) + Bytes(b)
        BY BytesConcat
      <4>2. QED BY <1>1, <3>5, <4>1, BytesType
    <3>7. ~(sum - Bytes(b) <= Capacity)
      BY <3>2, <3>3, <3>5
    <3>8. Capacity \in Nat
      BY CapacityAssumption DEF CapacityAssumption
    <3>9. Bytes(a) > Capacity
      BY <3>6, <3>7, <3>8
    <3>10. QED BY <3>5, <3>9
  <2>4. QED BY <2>2, <2>3
<1>12. QED BY <1>1, <1>9, <1>10, <1>11 DEF sum, out, kept, K

-----------------------------------------------------------------------------
\* The invariant of the store: Accounted and LatestHeld, with the types, and the
\* list in the order of use, by which the back of it is what was used least of late.
LruInv == Linked(lru, index, usedAfter, latest) /\ used = Bytes(lru) /\ used <= Capacity

\* The list without the entry of a key.
Rest(key) == IF key \in index THEN RemoveAt(lru, Place(key)) ELSE lru

\* The map has the place of a key that the list holds.
LEMMA PlaceOfKey ==
    ASSUME LruInv, NEW key \in index
    PROVE  /\ Place(key) \in 1 .. Len(lru) /\ lru[Place(key)].key = key
           /\ lru[Place(key)] \in Items /\ lru[Place(key)].entry = latest[key]
<1>1. lru \in Seq(Items) /\ KeysOf(lru) = index /\ DOMAIN lru = 1 .. Len(lru)
  BY DEF LruInv, Linked
<1>2. \E i \in DOMAIN lru : lru[i].key = key
  BY <1>1 DEF KeysOf
<1>3. Place(key) \in DOMAIN lru /\ lru[Place(key)].key = key
  BY <1>2, Zenon DEF Place
<1>4. PICK p \in 1 .. Len(lru) : p = Place(key) /\ lru[p].key = key
  BY <1>1, <1>3
<1>5. lru[p] \in Items /\ lru[p].entry = latest[key]
  BY <1>1, <1>4, ElementOfSeq DEF LruInv, Linked
<1>6. QED BY <1>4, <1>5

\* The rest of the list is in order once the key has been used, and is less in bytes.
LEMMA RestLinked ==
    ASSUME LruInv, NEW key
    PROVE  /\ Linked(Rest(key), index \ {key}, UsedNow(key), HeldOf(latest, index \ {key}))
           /\ Bytes(Rest(key)) = used - Replaced(key)
           /\ \A K : Bytes(Only(Rest(key), K)) <= Bytes(Only(lru, K))
           /\ \A i, j \in 1 .. Len(Rest(key)) :
                 i < j => <<Rest(key)[i].key, Rest(key)[j].key>> \in usedAfter
<1>1. /\ Linked(lru, index, usedAfter, latest) /\ used = Bytes(lru)
      /\ lru \in Seq(Items) /\ Distinct(lru) /\ KeysOf(lru) = index
  BY DEF LruInv, Linked
<1> DEFINE K == index \ {key}
<1>2. /\ Rest(key) \in Seq(Items) /\ Embedded(Rest(key), lru, K)
      /\ Bytes(Rest(key)) = used - Replaced(key)
      /\ \A M : Bytes(Only(Rest(key), M)) <= Bytes(Only(lru, M))
  <2>1. CASE key \in index
    <3>1. PICK p \in 1 .. Len(lru) : p = Place(key) /\ lru[p].key = key
      BY <2>1, PlaceOfKey
    <3>2. Rest(key) = RemoveAt(lru, p) /\ Replaced(key) = lru[p].entry.bytes
      BY <2>1, <3>1 DEF Rest, Replaced
    <3>3. RemoveAt(lru, p) \in Seq(Items) /\ Embedded(RemoveAt(lru, p), lru, KeysOf(lru) \ {lru[p].key})
      BY <1>1, RemoveAtEmbedded
    <3>4. /\ Bytes(RemoveAt(lru, p)) = Bytes(lru) - lru[p].entry.bytes
          /\ \A M : Bytes(Only(RemoveAt(lru, p), M)) <= Bytes(Only(lru, M))
      BY <1>1, BytesRemoveAt
    <3>5. KeysOf(lru) \ {lru[p].key} = K
      BY <1>1, <3>1
    <3>6. QED BY <1>1, <3>2, <3>3, <3>4, <3>5
  <2>2. CASE key \notin index
    <3>1. Rest(key) = lru /\ Replaced(key) = 0 /\ K = index
      BY <2>2 DEF Rest, Replaced
    <3>2. Embedded(lru, lru, index)
      <4>1. DOMAIN lru = 1 .. Len(lru)
        BY <1>1
      <4>2. \A i \in 1 .. Len(lru) : lru[i].key \in index
        BY <1>1, <4>1 DEF KeysOf
      <4>3. QED BY <4>2 DEF Embedded
    <3>3. Bytes(lru) \in Nat /\ \A M : Bytes(Only(lru, M)) \in Nat
      BY <1>1, OnlyType, BytesType
    <3>4. used - 0 = Bytes(lru) /\ \A M : Bytes(Only(lru, M)) <= Bytes(Only(lru, M))
      BY <1>1, <3>3
    <3>5. QED BY <1>1, <3>1, <3>2, <3>4
  <2>3. QED BY <2>1, <2>2
<1>3. Linked(Rest(key), K, UsedNow(key), HeldOf(latest, K))
  <2>1. usedAfter \cap (K \X K) \subseteq UsedNow(key)
    BY DEF UsedNow
  <2>2. HeldOf(latest, K) \in [K -> Entries] /\ \A k \in K : HeldOf(latest, K)[k] = latest[k]
    BY <1>1 DEF Linked, HeldOf
  <2>3. K \subseteq index
    OBVIOUS
  <2> HIDE DEF K
  <2>4. QED BY <1>1, <1>2, <2>1, <2>2, <2>3, LinkedPart
<1>4. \A i, j \in 1 .. Len(Rest(key)) :
          i < j => <<Rest(key)[i].key, Rest(key)[j].key>> \in usedAfter
  <2> HIDE DEF K
  <2>1. ASSUME NEW i \in 1 .. Len(Rest(key)), NEW j \in 1 .. Len(Rest(key)), i < j
        PROVE  <<Rest(key)[i].key, Rest(key)[j].key>> \in usedAfter
    <3>1. PICK p \in 1 .. Len(lru), q \in 1 .. Len(lru) :
              p < q /\ lru[p] = Rest(key)[i] /\ lru[q] = Rest(key)[j]
      BY <1>2, <2>1 DEF Embedded
    <3>2. <<lru[p].key, lru[q].key>> \in usedAfter
      BY <1>1, <3>1 DEF Linked
    <3>3. QED BY <3>1, <3>2
  <2>2. QED BY <2>1
<1>5. QED BY <1>2, <1>3, <1>4

\* get moves the entry to the front, and changes neither count nor entries.
LEMMA GetHitKeeps ==
    ASSUME LruInv, NEW key, GetHit(key)
    PROVE  LruInv'
<1> DEFINE x == lru[Place(key)]
           K == index \ {key}
<1>1. key \in index /\ lru' = <<x>> \o Rest(key)
  BY DEF GetHit, Rest
<1>2. usedAfter' = UsedNow(key) /\ index' = index /\ used' = used /\ latest' = latest
  BY DEF GetHit
<1>3. x \in Items /\ x.key = key /\ x.entry = latest[key]
  BY <1>1, PlaceOfKey
<1>4. /\ Linked(Rest(key), K, UsedNow(key), HeldOf(latest, K))
      /\ Bytes(Rest(key)) = used - Replaced(key)
  BY RestLinked
<1>5. {key} \X K \subseteq UsedNow(key) /\ key \notin K /\ K \cup {key} = index
  BY <1>1 DEF UsedNow
<1>6. latest \in [index -> Entries] /\ \A k \in K : latest[k] = HeldOf(latest, K)[k]
  BY DEF LruInv, Linked, HeldOf
<1>7. Replaced(key) = x.entry.bytes /\ x.entry.bytes \in Nat
  BY <1>1, <1>3, ItemBytes DEF Replaced
<1>8. used \in Nat /\ used <= Capacity
  BY BytesType DEF LruInv, Linked
<1> HIDE DEF x, K
<1>9. /\ Linked(<<x>> \o Rest(key), index, UsedNow(key), latest)
      /\ Bytes(<<x>> \o Rest(key)) = x.entry.bytes + Bytes(Rest(key))
  <2>1. latest \in [K \cup {x.key} -> Entries] /\ latest[x.key] = x.entry
    BY <1>3, <1>5, <1>6
  <2>2. /\ Linked(<<x>> \o Rest(key), K \cup {x.key}, UsedNow(key), latest)
        /\ Bytes(<<x>> \o Rest(key)) = x.entry.bytes + Bytes(Rest(key))
    BY <1>3, <1>4, <1>5, <1>6, <2>1, LinkedFront
  <2>3. QED BY <1>3, <1>5, <2>2
<1>10. Bytes(<<x>> \o Rest(key)) = used
  BY <1>4, <1>7, <1>8, <1>9
<1>11. Linked(lru', index', usedAfter', latest') /\ used' = Bytes(lru') /\ used' <= Capacity
  BY <1>1, <1>2, <1>8, <1>9, <1>10
<1>12. QED BY <1>11 DEF LruInv

\* set puts the new entry in front, and counts it and the one it replaces.
LEMMA InsertedLinked ==
    ASSUME LruInv, NEW key \in CacheKeys, NEW e \in Entries
    PROVE  /\ Linked(Inserted(key, e), index \cup {key}, UsedNow(key),
                     [k \in index \cup {key} |-> IF k = key THEN e ELSE latest[k]])
           /\ Bytes(Inserted(key, e)) = used - Replaced(key) + e.bytes
           /\ Bytes(Inserted(key, e)) = Bytes(Rest(key)) + e.bytes
<1> DEFINE x == [key |-> key, entry |-> e]
           K == index \ {key}
           held == [k \in index \cup {key} |-> IF k = key THEN e ELSE latest[k]]
<1>1. Inserted(key, e) = <<x>> \o Rest(key)
  BY DEF Inserted, Rest
<1>2. x \in Items /\ x.key = key /\ x.entry = e /\ e.bytes \in Nat
  BY DEF Items, Entries
<1>3. /\ Linked(Rest(key), K, UsedNow(key), HeldOf(latest, K))
      /\ Bytes(Rest(key)) = used - Replaced(key)
  BY RestLinked
<1>4. {key} \X K \subseteq UsedNow(key) /\ key \notin K /\ K \cup {key} = index \cup {key}
  BY DEF UsedNow
<1>5. /\ held \in [K \cup {key} -> Entries] /\ held[key] = e
      /\ \A k \in K : held[k] = HeldOf(latest, K)[k]
  BY <1>4 DEF LruInv, Linked, HeldOf
<1>6. Bytes(Rest(key)) \in Nat
  BY <1>3, BytesType DEF Linked
<1> HIDE DEF x, K, held
<1>7. /\ Linked(<<x>> \o Rest(key), K \cup {x.key}, UsedNow(key), held)
      /\ Bytes(<<x>> \o Rest(key)) = x.entry.bytes + Bytes(Rest(key))
  <2>1. x.key \notin K /\ {x.key} \X K \subseteq UsedNow(key)
    BY <1>2, <1>4
  <2>2. held \in [K \cup {x.key} -> Entries] /\ held[x.key] = x.entry
    BY <1>2, <1>5
  <2>3. QED BY <1>2, <1>3, <1>5, <2>1, <2>2, LinkedFront
<1>8. Linked(Inserted(key, e), index \cup {key}, UsedNow(key), held)
  BY <1>1, <1>2, <1>4, <1>7
<1>9. Bytes(Inserted(key, e)) = Bytes(Rest(key)) + e.bytes
  <2>1. Bytes(Inserted(key, e)) = e.bytes + Bytes(Rest(key))
    BY <1>1, <1>2, <1>7
  <2>2. QED BY <1>2, <1>6, <2>1
<1>10. QED BY <1>3, <1>8, <1>9 DEF held

\* What set does, in terms of the list after the insertion.
LEMMA SetFittingSteps ==
    ASSUME LruInv, NEW key \in CacheKeys, NEW e \in Entries, SetFitting(key, e)
    PROVE  LET list == Inserted(key, e)
               keys == index \cup {key}
               held == [k \in keys |-> IF k = key THEN e ELSE latest[k]]
           IN  /\ Linked(list, keys, UsedNow(key), held)
               /\ lru' = Kept(list) /\ used' = Bytes(list) - Bytes(Dropped(list))
               /\ index' = KeysLeft(list)
               /\ usedAfter' = Among(UsedNow(key), KeysLeft(list))
               /\ latest' = HeldOf(held, KeysLeft(list))
<1> DEFINE list == Inserted(key, e)
           keys == index \cup {key}
           held == [k \in keys |-> IF k = key THEN e ELSE latest[k]]
           sum == used - Replaced(key) + e.bytes
           out == Back(list, Drops(list, sum))
<1>1. /\ lru' = SubSeq(list, 1, Len(list) - Len(out)) /\ used' = sum - Bytes(out)
      /\ index' = keys \ KeysOf(out)
      /\ usedAfter' = UsedNow(key) \cap (index' \X index')
      /\ latest' = [k \in index' |-> IF k = key THEN e ELSE latest[k]]
  BY DEF SetFitting
<1>2. Linked(list, keys, UsedNow(key), held) /\ sum = Bytes(list)
  BY InsertedLinked
<1>3. \A K \in SUBSET keys : [k \in K |-> IF k = key THEN e ELSE latest[k]] = HeldOf(held, K)
  BY DEF HeldOf
<1> HIDE DEF list, keys, held, sum
<1>4. out = Dropped(list) /\ KeysOf(list) = keys
  BY <1>2 DEF Dropped, Linked
<1> HIDE DEF out
<1>5. lru' = Kept(list) /\ used' = Bytes(list) - Bytes(Dropped(list)) /\ index' = KeysLeft(list)
  BY <1>1, <1>2, <1>4 DEF Kept, KeysLeft
<1>6. usedAfter' = Among(UsedNow(key), KeysLeft(list))
  BY <1>1, <1>5 DEF Among
<1>7. latest' = HeldOf(held, KeysLeft(list))
  <2>1. index' \in SUBSET keys
    BY <1>1
  <2>2. QED BY <1>1, <1>3, <1>5, <2>1
<1>8. QED BY <1>2, <1>5, <1>6, <1>7 DEF list, keys, held

\* set keeps the invariant, whatever it evicts.
LEMMA SetFittingKeeps ==
    ASSUME LruInv, NEW key \in CacheKeys, NEW e \in Entries, SetFitting(key, e)
    PROVE  LruInv'
<1> DEFINE list == Inserted(key, e)
           keys == index \cup {key}
           held == [k \in keys |-> IF k = key THEN e ELSE latest[k]]
<1>1. /\ Linked(list, keys, UsedNow(key), held)
      /\ lru' = Kept(list) /\ used' = Bytes(list) - Bytes(Dropped(list))
      /\ index' = KeysLeft(list)
      /\ usedAfter' = Among(UsedNow(key), KeysLeft(list))
      /\ latest' = HeldOf(held, KeysLeft(list))
  BY SetFittingSteps
<1> HIDE DEF list, keys, held
<1>2. /\ Linked(Kept(list), KeysLeft(list), Among(UsedNow(key), KeysLeft(list)),
                HeldOf(held, KeysLeft(list)))
      /\ Bytes(Kept(list)) = Bytes(list) - Bytes(Dropped(list)) /\ Bytes(Kept(list)) <= Capacity
  BY <1>1, Evicted
<1>3. Linked(lru', index', usedAfter', latest') /\ used' = Bytes(lru') /\ used' <= Capacity
  BY <1>1, <1>2
<1>4. QED BY <1>3 DEF LruInv

\* What set evicts is behind all that it keeps, so was used before it, and the
\* list up to there, the new entry and what was used since, does not fit.
LEMMA SetFittingEvicts ==
    ASSUME LruInv, NEW key \in CacheKeys, NEW e \in Entries, SetFitting(key, e)
    PROVE  OldestOut
<1> DEFINE list == Inserted(key, e)
           K == KeysLeft(list)
           keys == index \cup {key}
           held == [k \in keys |-> IF k = key THEN e ELSE latest[k]]
<1>1. /\ index' = K
      /\ latest' = [k \in index' |-> IF k = key THEN e ELSE latest[k]]
  BY SetFittingSteps DEF SetFitting
<1>2. Linked(list, keys, UsedNow(key), held)
  BY InsertedLinked
<1>3. list = <<[key |-> key, entry |-> e]>> \o Rest(key)
  BY DEF Inserted, Rest
<1>4. K \subseteq keys /\ keys = index \cup {key}
  BY <1>2 DEF Linked, KeysLeft
<1>5. e.bytes \in Nat /\ Capacity \in Nat
  BY CapacityAssumption DEF CapacityAssumption, Entries
<1> HIDE DEF list, keys, held
<1>6. \A q \in 1 .. Len(list) : list[q].key \notin K =>
          /\ \A k \in K : \E p \in 1 .. Len(list) : p < q /\ list[p].key = k
          /\ Bytes(SubSeq(list, 1, q)) > Capacity
  BY <1>2, Evicted
<1> HIDE DEF K
<1> SUFFICES ASSUME NEW new \in index', new \notin index \/ latest'[new] # latest[new],
                    NEW old \in index \ index'
             PROVE  LET since == {k \in index \ {new} : <<k, old>> \in usedAfter} IN
                    /\ index' \subseteq since \cup {new}
                    /\ latest'[new].bytes + Bytes(Only(lru, since \cup {old})) > Capacity
  BY DEF OldestOut
<1> DEFINE since == {k \in index \ {new} : <<k, old>> \in usedAfter}
<1>7. new = key /\ latest'[new] = e
  <2>1. new \in index \cup {key}
    BY <1>1, <1>4
  <2>2. new # key => new \in index /\ latest'[new] = latest[new]
    BY <1>1, <2>1
  <2>3. new = key
    BY <2>2
  <2>4. QED BY <1>1, <2>3
\* The evicted key is somewhere behind the first place of the list, in the rest.
<1>8. /\ Rest(key) \in Seq(Items) /\ KeysOf(Rest(key)) = index \ {key}
      /\ Len(Rest(key)) \in Nat /\ DOMAIN Rest(key) = 1 .. Len(Rest(key))
  <2>1. Rest(key) \in Seq(Items) /\ KeysOf(Rest(key)) = index \ {key}
    BY RestLinked DEF Linked
  <2>2. QED BY <2>1
<1>9. /\ Len(list) = Len(Rest(key)) + 1 /\ list[1].key = key
      /\ \A i \in 1 .. Len(Rest(key)) : list[i + 1] = Rest(key)[i]
  <2> DEFINE x == [key |-> key, entry |-> e]
  <2>1. x \in Items /\ x.key = key
    BY DEF Items
  <2> HIDE DEF x
  <2>2. <<x>> \in Seq(Items) /\ Len(<<x>>) = 1 /\ <<x>>[1] = x
    BY <2>1
  <2>3. PICK r \in Seq(Items) : r = Rest(key)
    BY <1>8
  <2>4. /\ Len(<<x>> \o r) = 1 + Len(r)
        /\ \A i \in 1 .. 1 + Len(r) : (<<x>> \o r)[i] = IF i <= 1 THEN <<x>>[i] ELSE r[i - 1]
    BY <2>2, ConcatProperties
  <2>5. list = <<x>> \o r
    BY <1>3, <2>3 DEF x
  <2>6. Len(r) \in Nat
    BY <1>8, <2>3
  <2>7. ASSUME NEW i \in 1 .. Len(r) PROVE list[i + 1] = r[i]
    <3>1. i + 1 \in 1 .. 1 + Len(r) /\ ~(i + 1 <= 1) /\ (i + 1) - 1 = i
      BY <2>6
    <3>2. QED BY <2>4, <2>5, <3>1
  <2>8. list[1] = x
    <3>1. 1 \in 1 .. 1 + Len(r)
      BY <2>6
    <3>2. QED BY <2>2, <2>4, <2>5, <3>1
  <2>9. QED BY <2>1, <2>3, <2>4, <2>5, <2>6, <2>7, <2>8
<1>10. old \in index \ {key} /\ old \notin K
  BY <1>1, <1>7
<1>11. PICK q \in 1 .. Len(Rest(key)) : Rest(key)[q].key = old
  BY <1>8, <1>10 DEF KeysOf
<1>12. q + 1 \in 1 .. Len(list) /\ list[q + 1].key \notin K
  BY <1>8, <1>9, <1>10, <1>11
\* Whatever is before it in the rest was used after it.
<1>13. ASSUME NEW p \in 1 .. Len(Rest(key)), p < q PROVE Rest(key)[p].key \in since
  <2>1. <<Rest(key)[p].key, Rest(key)[q].key>> \in usedAfter
    BY <1>13, RestLinked
  <2>2. Rest(key)[p].key \in index \ {key}
    BY <1>8 DEF KeysOf
  <2>3. QED BY <1>7, <1>11, <2>1, <2>2
<1> HIDE DEF since
<1>14. index' \subseteq since \cup {new}
  <2>1. ASSUME NEW k \in index', k # new PROVE k \in since
    <3>1. PICK p \in 1 .. Len(list) : p < q + 1 /\ list[p].key = k
      BY <1>1, <1>6, <1>12
    <3>2. p # 1
      BY <1>7, <1>9, <2>1, <3>1
    <3>3. p - 1 \in 1 .. Len(Rest(key)) /\ p - 1 < q /\ (p - 1) + 1 = p
      BY <1>8, <1>9, <3>1, <3>2
    <3>4. Rest(key)[p - 1].key = k
      BY <1>9, <3>1, <3>3
    <3>5. QED BY <1>13, <3>3, <3>4
  <2>2. QED BY <2>1
<1>15. e.bytes + Bytes(Only(lru, since \cup {old})) > Capacity
  <2>1. Bytes(SubSeq(list, 1, q + 1)) > Capacity
    BY <1>6, <1>12
  <2>2. PICK r \in Seq(Items), x \in Items :
            r = Rest(key) /\ x = [key |-> key, entry |-> e] /\ x.entry = e /\ list = <<x>> \o r
    <3>1. [key |-> key, entry |-> e] \in Items
      BY DEF Items
    <3>2. QED BY <1>3, <1>8, <3>1
  <2>3. Len(r) \in Nat /\ q \in 1 .. Len(r) /\ q \in 0 .. Len(r)
    BY <1>8, <2>2
  <2> DEFINE first == SubSeq(r, 1, q)
             last == SubSeq(r, q + 1, Len(r))
             upTo == SubSeq(list, 1, q + 1)
  <2>4. first \in Seq(Items) /\ last \in Seq(Items) /\ r = first \o last
    BY <2>3, FrontAndBack
  <2>5. Len(first) = q /\ DOMAIN first = 1 .. q /\ \A i \in 1 .. q : first[i] = r[i]
    <3>1. 1 \in 1 .. Len(r) + 1 /\ 1 <= q + 1
      BY <2>3
    <3>2. /\ Len(first) = q - 1 + 1
          /\ \A i \in 1 .. Len(first) : first[i] = r[1 + i - 1]
      BY <2>3, <3>1, Part
    <3> HIDE DEF first
    <3>3. Len(first) = q /\ DOMAIN first = 1 .. q
      BY <2>3, <2>4, <3>2
    <3>4. \A i \in 1 .. q : first[i] = r[i]
      <4>1. ASSUME NEW i \in 1 .. q PROVE first[i] = r[i]
        <5>1. i \in 1 .. Len(first) /\ 1 + i - 1 = i
          BY <2>3, <3>3
        <5>2. QED BY <3>2, <5>1
      <4>2. QED BY <4>1
    <3>5. QED BY <3>3, <3>4
  <2>6. /\ upTo \in Seq(Items) /\ Len(upTo) = q + 1
        /\ \A i \in 1 .. q + 1 : upTo[i] = list[i]
    <3>1. list \in Seq(Items) /\ Len(list) = Len(r) + 1
      BY <1>2, <1>9, <2>2 DEF Linked
    <3>2. 1 \in 1 .. Len(list) + 1 /\ q + 1 \in 0 .. Len(list) /\ 1 <= (q + 1) + 1
      BY <2>3, <3>1
    <3>3. /\ upTo \in Seq(Items) /\ Len(upTo) = (q + 1) - 1 + 1
          /\ \A i \in 1 .. Len(upTo) : upTo[i] = list[1 + i - 1]
      BY <3>1, <3>2, Part
    <3> HIDE DEF upTo
    <3>4. Len(upTo) = q + 1
      BY <2>3, <3>3
    <3>5. ASSUME NEW i \in 1 .. q + 1 PROVE upTo[i] = list[i]
      <4>1. i \in 1 .. Len(upTo) /\ 1 + i - 1 = i
        BY <2>3, <3>4
      <4>2. QED BY <3>3, <4>1
    <3>6. QED BY <3>3, <3>4, <3>5
  <2> HIDE DEF first, last, upTo
  <2>7. Bytes(upTo) = e.bytes + Bytes(first)
    <3>1. /\ <<x>> \in Seq(Items) /\ Len(<<x>>) = 1 /\ <<x>>[1] = x
          /\ <<>> \in Seq(Items) /\ Append(<<>>, x) = <<x>>
      OBVIOUS
    <3>2. /\ <<x>> \o first \in Seq(Items) /\ Len(<<x>> \o first) = 1 + q
          /\ \A i \in 1 .. 1 + q :
                (<<x>> \o first)[i] = IF i <= 1 THEN <<x>>[i] ELSE first[i - 1]
      BY <2>4, <2>5, <3>1, ConcatProperties
    <3>3. /\ Len(<<x>> \o r) = 1 + Len(r)
          /\ \A i \in 1 .. 1 + Len(r) :
                (<<x>> \o r)[i] = IF i <= 1 THEN <<x>>[i] ELSE r[i - 1]
      BY <3>1, ConcatProperties
    <3>4. ASSUME NEW i \in 1 .. q + 1 PROVE upTo[i] = (<<x>> \o first)[i]
      <4>1. upTo[i] = IF i <= 1 THEN <<x>>[i] ELSE r[i - 1]
        <5>1. i \in 1 .. 1 + Len(r)
          BY <2>3
        <5>2. QED BY <2>2, <2>6, <3>3, <5>1
      <4>2. CASE i <= 1
        BY <2>3, <3>2, <4>1, <4>2
      <4>3. CASE ~(i <= 1)
        <5>1. i - 1 \in 1 .. q
          BY <2>3, <4>3
        <5>2. r[i - 1] = first[i - 1]
          BY <2>5, <5>1
        <5>3. QED BY <2>3, <3>2, <4>1, <4>3, <5>2
      <4>4. QED BY <4>2, <4>3
    <3>5. upTo = <<x>> \o first
      <4>1. Len(upTo) = Len(<<x>> \o first)
        BY <2>3, <2>6, <3>2
      <4>2. QED BY <2>6, <3>2, <3>4, <4>1, SeqEqual
    <3>6. Bytes(<<x>>) = 0 + x.entry.bytes
      BY <3>1, BytesAppend, BytesEmpty
    <3>7. Bytes(<<x>> \o first) = Bytes(<<x>>) + Bytes(first)
      BY <2>4, <3>1, BytesConcat
    <3>8. QED BY <1>5, <2>2, <3>5, <3>6, <3>7
  <2>8. Only(first, since \cup {old}) = first
    <3>1. KeysOf(first) \subseteq since \cup {old}
      <4>1. ASSUME NEW i \in 1 .. q PROVE first[i].key \in since \cup {old}
        <5>1. CASE i = q
          BY <1>11, <2>2, <2>5, <5>1
        <5>2. CASE i # q
          <6>1. i \in 1 .. Len(Rest(key)) /\ i < q
            BY <2>2, <2>3, <5>2
          <6>2. QED BY <1>13, <2>2, <2>5, <6>1
        <5>3. QED BY <5>1, <5>2
      <4>2. QED BY <2>5, <4>1 DEF KeysOf
    <3>2. QED BY <2>4, <3>1, OnlyAll
  <2>9. Bytes(first) <= Bytes(Only(r, since \cup {old}))
    <3> DEFINE S == since \cup {old}
    <3> HIDE DEF S
    <3>1. Only(first \o last, S) = Only(first, S) \o Only(last, S)
      BY <2>4, OnlyConcat
    <3>2. Only(first, S) = first
      BY <2>8 DEF S
    <3>3. Only(last, S) \in Seq(Items)
      BY <2>4, OnlyType
    <3>4. Bytes(first \o Only(last, S)) = Bytes(first) + Bytes(Only(last, S))
      BY <2>4, <3>3, BytesConcat
    <3>5. Bytes(first) \in Nat /\ Bytes(Only(last, S)) \in Nat
      BY <2>4, <3>3, BytesType
    <3>6. Bytes(Only(r, S)) = Bytes(first) + Bytes(Only(last, S))
      BY <2>4, <3>1, <3>2, <3>4
    <3>7. Bytes(first) <= Bytes(Only(r, S))
      BY <3>5, <3>6
    <3>8. QED BY <3>7 DEF S
  <2>10. Bytes(Only(r, since \cup {old})) <= Bytes(Only(lru, since \cup {old}))
    BY <2>2, RestLinked
  <2>11. /\ Bytes(first) \in Nat /\ Bytes(Only(r, since \cup {old})) \in Nat
         /\ Bytes(Only(lru, since \cup {old})) \in Nat
    <3>1. lru \in Seq(Items)
      BY DEF LruInv, Linked
    <3>2. QED BY <2>4, <3>1, OnlyType, BytesType
  <2>12. QED BY <1>5, <2>1, <2>7, <2>9, <2>10, <2>11 DEF upTo
<1>16. QED BY <1>7, <1>14, <1>15 DEF since
\* del and purgePrefix take entries out and evict none.
LEMMA RemoveKeysKeeps ==
    ASSUME LruInv, NEW keys, RemoveKeys(keys)
    PROVE  LruInv' /\ OldestOut
<1> DEFINE K == index \ keys
           o == Only(lru, K)
<1>1. /\ Linked(lru, index, usedAfter, latest) /\ used = Bytes(lru) /\ used <= Capacity
      /\ lru \in Seq(Items) /\ KeysOf(lru) = index
  BY DEF LruInv, Linked
<1>2. lru' = o /\ index' = K /\ used' = used - Bytes(Only(lru, keys))
  BY DEF RemoveKeys
<1>3. usedAfter' = Among(usedAfter, K) /\ latest' = HeldOf(latest, K)
  BY DEF RemoveKeys, Among, HeldOf
<1>4. o \in Seq(Items) /\ Embedded(o, lru, K) /\ K \subseteq index
  BY <1>1, OnlyType, OnlyEmbedded
<1>5. Bytes(o) + Bytes(Only(lru, keys)) = Bytes(lru)
  BY <1>1, OnlyBytes
<1>6. Bytes(o) \in Nat /\ Bytes(Only(lru, keys)) \in Nat /\ Bytes(lru) \in Nat
  BY <1>1, <1>4, OnlyType, BytesType
<1>7. Capacity \in Nat
  BY CapacityAssumption DEF CapacityAssumption
<1> HIDE DEF K, o
<1>8. Linked(o, K, Among(usedAfter, K), HeldOf(latest, K))
  BY <1>1, <1>4, LinkedKept
<1>9. used' = Bytes(o) /\ used' <= Capacity
  BY <1>1, <1>2, <1>5, <1>6, <1>7
<1>10. Linked(lru', index', usedAfter', latest') /\ used' = Bytes(lru') /\ used' <= Capacity
  BY <1>2, <1>3, <1>8, <1>9
<1>11. OldestOut
  <2>1. index' \subseteq index /\ \A new \in index' : latest'[new] = latest[new]
    BY <1>2, <1>3, <1>4 DEF HeldOf
  <2>2. QED BY <2>1 DEF OldestOut
<1>12. QED BY <1>10, <1>11 DEF LruInv

\* A step that leaves the store as it is, and one that only moves an entry.
LEMMA StaysPut ==
    ASSUME LruInv, UNCHANGED lruVars
    PROVE  LruInv' /\ OldestOut
<1>1. lru' = lru /\ index' = index /\ used' = used /\ usedAfter' = usedAfter /\ latest' = latest
  BY DEF lruVars
<1>2. LruInv'
  BY <1>1 DEF LruInv
<1>3. OldestOut
  BY <1>1 DEF OldestOut
<1>4. QED BY <1>2, <1>3

LEMMA GetHitEvictsNone ==
    ASSUME NEW key, GetHit(key)
    PROVE  OldestOut
<1>1. index' = index /\ latest' = latest
  BY DEF GetHit
<1>2. QED BY <1>1 DEF OldestOut

-----------------------------------------------------------------------------
\* What after is about to store is an entry of the cache.
Packed == pending \in [Workers -> [key : CacheKeys, entry : Entries]]

\* The inductive invariant: the store's, with the types of the middleware.
CacheInv == TypeOK /\ Packed /\ LruInv

\* MakeKey and Pack make keys and entries of the cache.
LEMMA KeysAndEntries ==
    /\ \A r \in Requests \cup {NoRequest} : MakeKey(r) \in CacheKeys
    /\ NoPending \in [key : CacheKeys, entry : Entries]
    /\ NoPending.entry.bytes <= MaxObject
    /\ clock \in 0 .. MaxTime =>
          \A r \in Responses : Pack(r) \in Entries /\ Pack(r).bytes = r.bytes
<1>1. MaxObject \in Nat /\ Ttl \in Nat /\ Stale \in Nat /\ MaxTime \in Nat /\ Responses \subseteq AllResponses
  BY MiddlewareAssumption DEF MiddlewareAssumption
<1>2. \A r \in Requests \cup {NoRequest} : MakeKey(r) \in CacheKeys
  BY DEF CacheKeys
<1>3. NoEntry \in Entries /\ NoEntry.bytes = 0
  BY DEF NoEntry, Entries
<1>4. MakeKey(NoRequest) \in CacheKeys
  BY <1>2
<1>5. /\ NoPending \in [key : CacheKeys, entry : Entries]
      /\ NoPending.entry.bytes <= MaxObject
  BY <1>1, <1>3, <1>4 DEF NoPending
<1>6. ASSUME clock \in 0 .. MaxTime, NEW r \in Responses
      PROVE  Pack(r) \in Entries /\ Pack(r).bytes = r.bytes
  <2>1. r.status \in Nat /\ r.bytes \in Nat
    BY <1>1 DEF AllResponses
  <2>2. clock + Ttl \in Nat /\ clock + Ttl + Stale \in Nat
    BY <1>1, <1>6
  <2>3. QED BY <2>1, <2>2 DEF Pack, Entries
<1>7. QED BY <1>2, <1>5, <1>6

\* The invariant holds initially.
LEMMA CacheInvInit == Init => CacheInv
<1> SUFFICES ASSUME Init PROVE CacheInv
  OBVIOUS
<1>1. MaxObject \in Nat /\ MaxTime \in Nat /\ Capacity \in Nat
  BY MiddlewareAssumption, CapacityAssumption DEF MiddlewareAssumption, CapacityAssumption
<1>2. 0 \in 0 .. MaxTime
  BY <1>1
<1>3. TypeOK
  BY <1>2, KeysAndEntries DEF Init, TypeOK
<1>4. Packed
  BY KeysAndEntries DEF Init, Packed
<1>5. LruInv
  <2>1. lru = <<>> /\ index = {} /\ used = 0 /\ usedAfter = {} /\ latest = <<>>
    BY DEF Init, LruInit
  <2>2. <<>> \in Seq(Items) /\ Len(<<>>) = 0 /\ DOMAIN <<>> = {}
    OBVIOUS
  <2>3. latest \in [{} -> Entries]
    BY <2>1
  <2>4. Linked(lru, index, usedAfter, latest)
    BY <2>1, <2>2, <2>3 DEF Linked, Distinct, KeysOf
  <2>5. QED BY <1>1, <2>1, <2>4, BytesEmpty DEF LruInv
<1>6. QED BY <1>3, <1>4, <1>5 DEF CacheInv

\* Each step keeps it, and evicts in order.  before reads the clock:
LEMMA CacheInvBefore ==
    ASSUME CacheInv, NEW w \in Workers, NEW r \in Requests, Before(w, r)
    PROVE  CacheInv' /\ OldestOut
<1>1. TypeOK /\ Packed /\ LruInv
  BY DEF CacheInv
<1>2. TypeOK'
  BY <1>1 DEF Before, TypeOK
<1>3. Packed'
  BY <1>1 DEF Before, Packed
<1>4. LruInv' /\ OldestOut
  BY <1>1, StaysPut DEF Before
<1>5. QED BY <1>2, <1>3, <1>4 DEF CacheInv

\* it looks up, and finds the entry fresh, stale, too old, or not at all:
LEMMA CacheInvLookUp ==
    ASSUME CacheInv, NEW w \in Workers, ServeHit(w) \/ PassOn(w)
    PROVE  CacheInv' /\ OldestOut
<1>1. TypeOK /\ Packed /\ LruInv
  BY DEF CacheInv
<1>2. /\ clock' = clock /\ request' = request /\ stamp' = stamp /\ pending' = pending
      /\ pc' \in {[pc EXCEPT ![w] = "answer"], [pc EXCEPT ![w] = "handle"]}
  BY DEF ServeHit, PassOn
<1>3. TypeOK'
  BY <1>1, <1>2 DEF TypeOK
<1>4. Packed'
  BY <1>1, <1>2 DEF Packed
<1>5. GetHit(MakeKey(request[w])) \/ UNCHANGED lruVars
  BY DEF ServeHit, PassOn, GetMiss
<1>6. LruInv' /\ OldestOut
  BY <1>1, <1>5, GetHitKeeps, GetHitEvictsNone, StaysPut
<1>7. QED BY <1>3, <1>4, <1>6 DEF CacheInv

\* after packs the entry that it is about to store, of at most maxObjectBytes:
LEMMA CacheInvAfter ==
    ASSUME CacheInv, NEW w \in Workers, NEW r \in Responses, After(w, request[w], r)
    PROVE  CacheInv' /\ OldestOut
<1>1. TypeOK /\ Packed /\ LruInv
  BY DEF CacheInv
<1>2. request[w] \in Requests \cup {NoRequest} /\ clock \in 0 .. MaxTime
  BY <1>1 DEF TypeOK
<1>3. /\ MakeKey(request[w]) \in CacheKeys
      /\ Pack(r) \in Entries /\ Pack(r).bytes = r.bytes
  BY <1>2, KeysAndEntries
<1>4. /\ clock' = clock /\ request' = request /\ stamp' = stamp
  BY DEF After
<1>5. ASSUME Storable(request[w], r) PROVE TypeOK' /\ Packed'
  <2> DEFINE packed == [key |-> MakeKey(request[w]), entry |-> Pack(r)]
  <2>1. pc' = [pc EXCEPT ![w] = "store"] /\ pending' = [pending EXCEPT ![w] = packed]
    BY <1>5 DEF After
  <2>2. IsCacheableRequest(request[w]) /\ r.bytes <= MaxObject
    BY <1>5 DEF Storable
  <2>3. packed \in [key : CacheKeys, entry : Entries] /\ packed.entry.bytes <= MaxObject
    BY <1>3, <2>2
  <2> HIDE DEF packed
  <2>4. Packed'
    BY <1>1, <2>1, <2>3 DEF Packed
  <2>5. pc' \in [Workers -> {"idle", "lookUp", "handle", "store", "answer"}]
    BY <1>1, <2>1 DEF TypeOK
  <2>6. \A v \in Workers : pc'[v] \in {"lookUp", "store"} => IsCacheableRequest(request[v])
    BY <1>1, <2>1, <2>2 DEF TypeOK
  <2>7. \A v \in Workers : pending'[v].entry.bytes <= MaxObject
    BY <1>1, <2>1, <2>3 DEF TypeOK, Packed
  <2>8. TypeOK'
    BY <1>1, <1>4, <2>5, <2>6, <2>7 DEF TypeOK
  <2>9. QED BY <2>4, <2>8
<1>6. ASSUME ~Storable(request[w], r) PROVE TypeOK' /\ Packed'
  <2>1. pc' = [pc EXCEPT ![w] = "answer"] /\ pending' = pending
    BY <1>6 DEF After
  <2>2. QED BY <1>1, <1>4, <2>1 DEF TypeOK, Packed
<1>7. LruInv' /\ OldestOut
  BY <1>1, StaysPut DEF After
<1>8. QED BY <1>1, <1>5, <1>6, <1>7 DEF CacheInv

\* after stores it, when it fits:
LEMMA CacheInvStore ==
    ASSUME CacheInv, NEW w \in Workers, Store(w)
    PROVE  CacheInv' /\ OldestOut
<1>1. TypeOK /\ Packed /\ LruInv
  BY DEF CacheInv
<1>2. /\ clock' = clock /\ request' = request /\ stamp' = stamp /\ pending' = pending
      /\ pc' = [pc EXCEPT ![w] = "answer"]
  BY DEF Store
<1>3. TypeOK'
  BY <1>1, <1>2 DEF TypeOK
<1>4. Packed'
  BY <1>1, <1>2 DEF Packed
<1>5. pending[w].key \in CacheKeys /\ pending[w].entry \in Entries
  BY <1>1 DEF Packed
<1>6. CASE SetFitting(pending[w].key, pending[w].entry)
  <2>1. LruInv'
    BY <1>1, <1>5, <1>6, SetFittingKeeps
  <2>2. OldestOut
    BY <1>1, <1>5, <1>6, SetFittingEvicts
  <2>3. QED BY <1>3, <1>4, <2>1, <2>2 DEF CacheInv
<1>7. CASE UNCHANGED lruVars
  BY <1>1, <1>3, <1>4, <1>7, StaysPut DEF CacheInv
<1>8. QED BY <1>6, <1>7 DEF Store, Set, SetTooLarge

\* the response is sent:
LEMMA CacheInvSend ==
    ASSUME CacheInv, NEW w \in Workers, Send(w)
    PROVE  CacheInv' /\ OldestOut
<1>1. TypeOK /\ Packed /\ LruInv
  BY DEF CacheInv
<1>2. MaxTime \in Nat /\ 0 \in 0 .. MaxTime
  BY MiddlewareAssumption DEF MiddlewareAssumption
<1>3. TypeOK'
  <2>1. /\ clock' \in 0 .. MaxTime
        /\ pc' \in [Workers -> {"idle", "lookUp", "handle", "store", "answer"}]
        /\ request' \in [Workers -> Requests \cup {NoRequest}]
        /\ stamp' \in [Workers -> 0 .. MaxTime]
    BY <1>1, <1>2 DEF Send, TypeOK
  <2>2. \A v \in Workers : pc'[v] \in {"lookUp", "store"} => IsCacheableRequest(request'[v])
    BY <1>1 DEF Send, TypeOK
  <2>3. \A v \in Workers : pending'[v].entry.bytes <= MaxObject
    BY <1>1, KeysAndEntries DEF Send, TypeOK, Packed
  <2>4. QED BY <2>1, <2>2, <2>3 DEF TypeOK
<1>4. Packed'
  BY <1>1, KeysAndEntries DEF Send, Packed
<1>5. LruInv' /\ OldestOut
  BY <1>1, StaysPut DEF Send
<1>6. QED BY <1>3, <1>4, <1>5 DEF CacheInv

\* entries are taken out:
LEMMA CacheInvRemove ==
    ASSUME CacheInv,
           (\E key \in index : Del(key)) \/ (\E paths \in PathsByPrefix : PurgePrefix(paths))
    PROVE  CacheInv' /\ OldestOut
<1>1. TypeOK /\ Packed /\ LruInv
  BY DEF CacheInv
<1>2. UNCHANGED <<clock, pc, request, stamp, pending, answer>>
  BY DEF Del, PurgePrefix
<1>3. PICK keys : RemoveKeys(keys)
  BY DEF Del, PurgePrefix
<1>4. TypeOK' /\ Packed'
  BY <1>1, <1>2 DEF TypeOK, Packed
<1>5. LruInv' /\ OldestOut
  BY <1>1, <1>3, RemoveKeysKeeps
<1>6. QED BY <1>4, <1>5 DEF CacheInv

\* time passes, or nothing happens.
LEMMA CacheInvTick ==
    ASSUME CacheInv, Tick \/ UNCHANGED vars
    PROVE  CacheInv' /\ OldestOut
<1>1. TypeOK /\ Packed /\ LruInv
  BY DEF CacheInv
<1>2. UNCHANGED <<lruVars, pc, request, stamp, pending>>
  BY DEF Tick, vars
<1>3. clock' \in 0 .. MaxTime
  BY <1>1, MiddlewareAssumption DEF Tick, vars, TypeOK, MiddlewareAssumption
<1>4. TypeOK' /\ Packed'
  BY <1>1, <1>2, <1>3 DEF TypeOK, Packed
<1>5. LruInv' /\ OldestOut
  BY <1>1, <1>2, StaysPut
<1>6. QED BY <1>4, <1>5 DEF CacheInv

\* Every step keeps the invariant and evicts in order.
LEMMA CacheInvStep ==
    ASSUME CacheInv, [Next]_vars
    PROVE  CacheInv' /\ OldestOut
<1>1. ASSUME NEW w \in Workers, NEW r \in Requests, Before(w, r) PROVE CacheInv' /\ OldestOut
  BY <1>1, CacheInvBefore
<1>2. ASSUME NEW w \in Workers, ServeHit(w) \/ PassOn(w) PROVE CacheInv' /\ OldestOut
  BY <1>2, CacheInvLookUp
<1>3. ASSUME NEW w \in Workers, NEW r \in Responses, After(w, request[w], r)
      PROVE  CacheInv' /\ OldestOut
  BY <1>3, CacheInvAfter
<1>4. ASSUME NEW w \in Workers, Store(w) PROVE CacheInv' /\ OldestOut
  BY <1>4, CacheInvStore
<1>5. ASSUME NEW w \in Workers, Send(w) PROVE CacheInv' /\ OldestOut
  BY <1>5, CacheInvSend
<1>6. ASSUME (\E key \in index : Del(key)) \/ (\E paths \in PathsByPrefix : PurgePrefix(paths))
      PROVE  CacheInv' /\ OldestOut
  BY <1>6, CacheInvRemove
<1>7. ASSUME Tick \/ UNCHANGED vars PROVE CacheInv' /\ OldestOut
  BY <1>7, CacheInvTick
<1>8. QED BY <1>1, <1>2, <1>3, <1>4, <1>5, <1>6, <1>7 DEF Next, Work

\* What the invariant says of the store is what the runs check of it.
LEMMA CacheInvImplies ==
    ASSUME CacheInv
    PROVE  TypeOK /\ Accounted /\ LatestHeld
<1>1. TypeOK /\ LruInv
  BY DEF CacheInv
<1>2. /\ lru \in Seq(Items) /\ Distinct(lru) /\ KeysOf(lru) = index
      /\ \A i \in 1 .. Len(lru) : lru[i].entry = latest[lru[i].key]
      /\ used = Bytes(lru) /\ used <= Capacity
  BY <1>1 DEF LruInv, Linked
<1>3. DOMAIN lru = 1 .. Len(lru)
  BY <1>2
<1>4. ASSUME NEW i \in 1 .. Len(lru), NEW j \in 1 .. Len(lru), lru[i].key = lru[j].key
      PROVE  i = j
  <2>1. ~(i < j) /\ ~(j < i)
    BY <1>2, <1>4 DEF Distinct
  <2>2. QED BY <2>1
<1>5. Accounted
  BY <1>2, <1>3, <1>4 DEF Accounted
<1>6. LatestHeld
  BY <1>2, <1>3 DEF LatestHeld
<1>7. QED BY <1>1, <1>5, <1>6

\* The inductive invariant holds in every reachable state of the cache.
THEOREM CacheInvariance == Spec => []CacheInv
<1>1. CacheInv /\ [Next]_vars => CacheInv'
  BY CacheInvStep
<1>2. QED BY CacheInvInit, <1>1, PTL DEF Spec

\* The middleware looks up and stores for requests that may be cached only, and
\* packs no response beyond maxObjectBytes.
THEOREM CacheTypeCorrect == Spec => []TypeOK
<1>1. CacheInv => TypeOK
  BY CacheInvImplies
<1>2. QED BY CacheInvariance, <1>1, PTL

\* Through any sequence of get, set, del, purgePrefix and evictions by any number
\* of threads, lru_, map_ and usedBytes_ of MemoryCacheLRU agree, no key is in the
\* list twice and capBytes_ is kept.
THEOREM CacheAccounted == Spec => []Accounted
<1>1. CacheInv => Accounted
  BY CacheInvImplies
<1>2. QED BY CacheInvariance, <1>1, PTL

\* What the cache holds of a key is what set has last stored for it.
THEOREM CacheLatestHeld == Spec => []LatestHeld
<1>1. CacheInv => LatestHeld
  BY CacheInvImplies
<1>2. QED BY CacheInvariance, <1>1, PTL

\* evictIfNeeded takes the entries that were used before all those it leaves, and
\* only as long as the new entry and those used since would not fit with them.
THEOREM CacheEvictsOldest == Spec => EvictsOldest
<1>1. CacheInv /\ [Next]_vars => [OldestOut]_lruVars
  BY CacheInvStep
<1>2. QED BY CacheInvariance, <1>1, PTL DEF Spec, EvictsOldest
-----------------------------------------------------------------------------
\* Behind the adapter no worker comes to store anything.
AdapterInv ==
    /\ lru = <<>> /\ index = {}
    /\ pc \in [Workers -> {"idle", "lookUp", "handle", "answer"}]

LEMMA EmptyRequest == \A r : ~Storable(NoRequest, r)
BY DEF Storable, IsCacheableRequest, NoRequest

LEMMA AdapterInvStep == AdapterInv /\ [AdapterNext]_vars => AdapterInv'
<1> SUFFICES ASSUME AdapterInv, [AdapterNext]_vars PROVE AdapterInv'
  OBVIOUS
<1>1. \A key : ~GetHit(key)
  BY DEF AdapterInv, GetHit
<1>2. ASSUME NEW w \in Workers, Work(w) PROVE AdapterInv'
  <2>1. ASSUME NEW r \in Requests, Before(w, r) PROVE AdapterInv'
    BY <2>1 DEF Before, AdapterInv, lruVars
  <2>2. ~ServeHit(w)
    BY <1>1 DEF ServeHit
  <2>3. CASE PassOn(w)
    BY <1>1, <2>3 DEF PassOn, GetMiss, AdapterInv, lruVars
  <2>4. ~Store(w)
    BY DEF Store, AdapterInv
  <2>5. CASE Send(w)
    BY <2>5 DEF Send, AdapterInv, lruVars
  <2>6. QED BY <1>2, <2>1, <2>2, <2>3, <2>4, <2>5 DEF Work
<1>3. ASSUME NEW w \in Workers, NEW r \in Responses, After(w, NoRequest, r) PROVE AdapterInv'
  BY <1>3, EmptyRequest DEF After, AdapterInv, lruVars
<1>4. CASE Tick \/ UNCHANGED vars
  BY <1>4 DEF Tick, vars, AdapterInv, lruVars
<1>5. QED BY <1>2, <1>3, <1>4 DEF AdapterNext

\* CacheAdapter::after passes an empty request on, so that the cache never holds
\* anything, whatever is asked and answered and whatever its limits.
THEOREM AdapterNeverFills == AdapterSpec => [](lru = <<>>)
<1>1. Init => AdapterInv
  BY DEF Init, LruInit, AdapterInv
<1>2. AdapterInv => lru = <<>>
  BY DEF AdapterInv
<1>3. QED BY <1>1, <1>2, AdapterInvStep, PTL DEF AdapterSpec
=============================================================================
