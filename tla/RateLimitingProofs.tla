------------------------- MODULE RateLimitingProofs -------------------------
(* Theorems about RateLimiting, for all values of its constants: first the *)
(* in-process limiter, then the one over Redis.                            *)
EXTENDS RateLimiting, FiniteSetTheorems, TLAPS

\* A longer span refills no less.
LEMMA RefillGrows ==
    ASSUME NEW a \in Int, NEW b \in Int, a <= b
    PROVE  Rate * a <= Rate * b
<1>1. \E d \in Nat : b = a + d
  <2>1. b - a \in Nat /\ b = a + (b - a)
    OBVIOUS
  <2>2. QED BY <2>1
<1>2. PICK d \in Nat : b = a + d
  BY <1>1
<1>3. Rate * d \in Nat
  BY LimiterAssumption
<1>4. Rate * (a + d) = Rate * a + Rate * d /\ Rate * a \in Int
  BY LimiterAssumption
<1>5. QED BY <1>2, <1>3, <1>4

\* The invariant holds initially.
LEMMA InvInit == Init => IInv
<1> SUFFICES ASSUME Init PROVE IInv
  OBVIOUS
<1>1. Rate * (1 - 1) = 0 /\ Rate * (0 - 0) = 0 /\ Cost * 0 = 0
  BY LimiterAssumption
<1>2. TypeOK
  BY LimiterAssumption DEF Init, TypeOK, Phases
<1>3. Stamped /\ Accounted /\ DebtBound
  BY <1>1 DEF Init, Stamped, Accounted, DebtBound
<1>4. WindowBound
  BY <1>1, LimiterAssumption DEF Init, WindowBound
<1>5. QED BY <1>2, <1>3, <1>4 DEF IInv

\* What the refill computes: no more than a full bucket, and either a full
\* bucket or exactly the old tokens and the refill of the elapsed time; in the
\* observed window it is paid for by what was not admitted.
LEMMA RefilledFacts ==
    ASSUME IInv, NEW k \in Keys, NEW t \in 1 .. clock
    PROVE  LET r == Refilled(bucket[k], t) IN
           /\ r \in Int
           /\ r <= Burst
           /\ r = Burst \/ r >= Rate * (t - latest[k])
           /\ admitted[k] > 0 =>
                  Cost * admitted[k] + r <= Burst + Rate * (t - from)
<1> DEFINE last == bucket[k].last
           tokens == bucket[k].tokens
           r == Refilled(bucket[k], t)
<1>1. /\ last \in Nat /\ tokens \in Int /\ latest[k] \in Nat /\ from \in Nat
      /\ t \in Nat /\ admitted[k] \in Nat /\ clock \in Nat
  BY DEF IInv, TypeOK
<1>2. /\ Rate * (t - last) \in Int
      /\ Rate * (t - latest[k]) = Rate * (t - last) + Rate * (last - latest[k])
      /\ Rate * (t - from) = Rate * (t - last) + Rate * (last - from)
      /\ Rate * (last - latest[k]) \in Int /\ Rate * (last - from) \in Int
      /\ Cost * admitted[k] \in Int /\ Burst \in Nat
  <2>1. /\ t \in Int /\ last \in Int /\ latest[k] \in Int /\ from \in Int
    BY <1>1
  <2> HIDE DEF last
  <2>2. /\ Rate * (t - last) \in Int
        /\ Rate * (t - latest[k]) = Rate * (t - last) + Rate * (last - latest[k])
    BY <2>1, LimiterAssumption
  <2>3. Rate * (t - from) = Rate * (t - last) + Rate * (last - from)
    BY <2>1, LimiterAssumption
  <2>4. Rate * (last - latest[k]) \in Int /\ Rate * (last - from) \in Int
    BY <2>1, LimiterAssumption
  <2>5. QED BY <2>2, <2>3, <2>4, <1>1, LimiterAssumption
<1>3. tokens >= Rate * (last - latest[k])
  BY DEF IInv, DebtBound
<1>4. admitted[k] > 0 =>
          last > 0 /\ Cost * admitted[k] + tokens <= Burst + Rate * (last - from)
  BY DEF IInv, Accounted
<1>5. CASE last = 0
  <2>1. r = Burst
    BY <1>5 DEF Refilled
  <2>2. ~(admitted[k] > 0)
    BY <1>5, <1>4
  <2>3. QED BY <2>1, <2>2, <1>2
<1>6. CASE last # 0
  <2>1. r = IF Burst <= tokens + Rate * (t - last)
            THEN Burst ELSE tokens + Rate * (t - last)
    BY <1>6 DEF Refilled, Least
  <2> DEFINE span == Rate * (t - last)
             back == Rate * (last - latest[k])
             head == Rate * (last - from)
             paid == Cost * admitted[k]
  <2>2. /\ span \in Int /\ back \in Int /\ head \in Int /\ paid \in Int
        /\ tokens \in Int /\ Burst \in Nat
        /\ Rate * (t - latest[k]) = span + back
        /\ Rate * (t - from) = span + head
    BY <1>1, <1>2
  <2>3. r = (IF Burst <= tokens + span THEN Burst ELSE tokens + span)
    BY <2>1
  <2>4. /\ tokens >= back
        /\ admitted[k] > 0 => paid + tokens <= Burst + head
    BY <1>3, <1>4
  <2>5. /\ r \in Int /\ r <= Burst
        /\ r = Burst \/ r >= span + back
        /\ admitted[k] > 0 => paid + r <= Burst + (span + head)
    <3> HIDE DEF span, back, head, paid, r, tokens
    <3>1. QED BY <2>2, <2>3, <2>4
  <2>6. QED BY <2>5, <2>2
<1>7. QED BY <1>5, <1>6

\* A call that only reads the clock, a tick and a new window keep the invariant.
LEMMA InvOther ==
    ASSUME IInv,
           \/ \E w \in Workers, k \in Keys : ReadClock(w, k)
           \/ Tick \/ StartWindow \/ UNCHANGED vars
    PROVE  IInv'
<1>1. ASSUME NEW w \in Workers, NEW k \in Keys, ReadClock(w, k)
      PROVE  IInv'
  <2>1. TypeOK'
    BY <1>1 DEF IInv, TypeOK, ReadClock, Phases, Stamped
  <2>2. clock \in 1 .. clock
    BY DEF IInv, TypeOK
  <2>3. Stamped'
    BY <1>1, <2>2 DEF IInv, Stamped, TypeOK, ReadClock
  <2>4. Accounted' /\ DebtBound' /\ WindowBound'
    BY <1>1 DEF IInv, Accounted, DebtBound, WindowBound, ReadClock
  <2>5. QED BY <2>1, <2>3, <2>4 DEF IInv
<1>2. CASE Tick
  <2>1. TypeOK' /\ Stamped'
    BY <1>2 DEF IInv, TypeOK, Stamped, Tick, limiterVars
  <2>2. Accounted' /\ DebtBound'
    BY <1>2 DEF IInv, Accounted, DebtBound, Tick, limiterVars
  <2>3. ASSUME NEW k \in Keys
        PROVE  Cost * admitted[k] <= Burst + Rate * (clock' - from)
    <3>1. clock - from \in Int /\ clock' - from \in Int /\ clock - from <= clock' - from
      BY <1>2 DEF IInv, TypeOK, Tick
    <3>2. Rate * (clock - from) <= Rate * (clock' - from)
      BY <3>1, RefillGrows
    <3>3. /\ Rate * (clock - from) \in Int /\ Rate * (clock' - from) \in Int
          /\ Cost * admitted[k] \in Int /\ Burst \in Int
      BY <3>1, LimiterAssumption DEF IInv, TypeOK
    <3>4. Cost * admitted[k] <= Burst + Rate * (clock - from)
      BY DEF IInv, WindowBound
    <3>5. QED BY <3>2, <3>3, <3>4
  <2>4. WindowBound'
    BY <1>2, <2>3 DEF WindowBound, Tick, limiterVars
  <2>5. QED BY <2>1, <2>2, <2>4 DEF IInv
<1>3. CASE StartWindow
  <2>1. TypeOK' /\ Stamped' /\ DebtBound'
    BY <1>3 DEF IInv, TypeOK, Stamped, DebtBound, StartWindow, limiterVars
  <2>2. \A k \in Keys : admitted'[k] = 0
    BY <1>3 DEF StartWindow
  <2>3. Accounted'
    BY <2>2 DEF Accounted
  <2>4. clock' - from' = 0 /\ Cost * 0 = 0 /\ Rate * 0 = 0
    BY <1>3, LimiterAssumption DEF StartWindow, limiterVars, IInv, TypeOK
  <2>5. WindowBound'
    BY <2>2, <2>4, LimiterAssumption DEF WindowBound
  <2>6. QED BY <2>1, <2>3, <2>5 DEF IInv
<1>4. CASE UNCHANGED vars
  BY <1>4 DEF vars, IInv, TypeOK, Stamped, Accounted, DebtBound, WindowBound
<1>5. QED BY <1>1, <1>2, <1>3, <1>4

\* Settling a waiting call with tokens that are backed keeps the invariant.
LEMMA InvSettle ==
    ASSUME IInv, NEW w \in Workers, phase[w] = "waiting",
           NEW left \in Int, left <= Burst,
           Settle(w, left),
           phase' \in [Workers -> Phases],
           \A v \in Workers : phase'[v] = "waiting" => phase[v] = "waiting",
           left >= Rate * (stamp[w] - Greatest(latest[key[w]], stamp[w])),
           admitted' \in [Keys -> Nat],
           \A k \in Keys : k # key[w] => admitted'[k] = admitted[k],
           admitted'[key[w]] > 0 =>
               Cost * admitted'[key[w]] + left <= Burst + Rate * (stamp[w] - from),
           Cost * admitted'[key[w]] <= Burst + Rate * (clock - from)
    PROVE  IInv'
<1>1. /\ key[w] \in Keys /\ stamp[w] \in 1 .. clock /\ stamp[w] \in Nat
      /\ clock \in Nat /\ latest[key[w]] \in Nat
  BY DEF IInv, TypeOK, Stamped
<1>2. /\ Greatest(latest[key[w]], stamp[w]) \in Nat
      /\ stamp[w] <= Greatest(latest[key[w]], stamp[w])
      /\ Greatest(latest[key[w]], stamp[w]) <= clock
  BY <1>1 DEF Greatest, IInv, Stamped
<1>3. /\ bucket'[key[w]] = [tokens |-> left, last |-> stamp[w]]
      /\ latest'[key[w]] = Greatest(latest[key[w]], stamp[w])
      /\ \A k \in Keys : k # key[w] =>
             bucket'[k] = bucket[k] /\ latest'[k] = latest[k]
      /\ clock' = clock /\ key' = key /\ stamp' = stamp /\ from' = from
  BY <1>1 DEF Settle, IInv, TypeOK
<1>4. TypeOK'
  <2>1. bucket' \in [Keys -> [tokens : Int, last : Nat]]
    BY <1>1 DEF Settle, IInv, TypeOK
  <2>2. latest' \in [Keys -> Nat]
    BY <1>1, <1>2 DEF Settle, IInv, TypeOK
  <2>3. \A k \in Keys : bucket'[k].tokens <= Burst
    BY <1>3 DEF IInv, TypeOK
  <2>4. QED BY <2>1, <2>2, <2>3, <1>3 DEF IInv, TypeOK
<1>5. Stamped'
  BY <1>1, <1>2, <1>3 DEF IInv, Stamped
<1>6. Accounted'
  BY <1>1, <1>3 DEF IInv, Accounted
<1>7. DebtBound'
  BY <1>3 DEF IInv, DebtBound
<1>8. WindowBound'
  BY <1>3 DEF IInv, WindowBound
<1>9. QED BY <1>4, <1>5, <1>6, <1>7, <1>8 DEF IInv

\* Handling a reading never asks for a debt to be brought back from later.
LEMMA NoFutureRefill ==
    ASSUME NEW t \in Nat, NEW m \in Nat
    PROVE  Rate * (t - Greatest(m, t)) <= 0
<1>1. t - Greatest(m, t) \in Int /\ t - Greatest(m, t) <= 0
  BY DEF Greatest
<1>2. Rate * (t - Greatest(m, t)) <= Rate * 0
  BY <1>1, RefillGrows
<1>3. Rate * 0 = 0
  BY LimiterAssumption
<1>4. QED BY <1>2, <1>3

\* The critical section keeps the invariant, whether or not it admits.
LEMMA InvAdmit ==
    ASSUME IInv, NEW w \in Workers, Admit(w)
    PROVE  IInv'
<1> DEFINE k == key[w]
           t == stamp[w]
           r == Refilled(bucket[k], t)
<1>1. /\ k \in Keys /\ t \in 1 .. clock /\ t \in Nat /\ phase[w] = "waiting"
      /\ clock \in Nat /\ from \in Nat /\ latest[k] \in Nat
      /\ admitted[k] \in Nat /\ t <= clock
  BY DEF IInv, TypeOK, Stamped, Admit
<1>2. /\ r \in Int /\ r <= Burst
      /\ admitted[k] > 0 => Cost * admitted[k] + r <= Burst + Rate * (t - from)
  BY <1>1, RefilledFacts
<1>3. r >= Cost /\ Cost \in Nat /\ Burst \in Nat /\ Settle(w, r - Cost)
  BY LimiterAssumption DEF Admit, Covers
<1>4. phase' \in [Workers -> Phases]
  BY DEF Admit, IInv, TypeOK, Phases
<1>5. \A v \in Workers : phase'[v] = "waiting" => phase[v] = "waiting"
  BY DEF Admit, IInv, TypeOK
<1>6. r - Cost >= Rate * (t - Greatest(latest[k], t))
  <2>1. Rate * (t - Greatest(latest[k], t)) <= 0
    BY <1>1, NoFutureRefill
  <2>2. Greatest(latest[k], t) \in Nat
    BY <1>1 DEF Greatest
  <2>3. Rate * (t - Greatest(latest[k], t)) \in Int
    BY <1>1, <2>2, LimiterAssumption
  <2>4. QED
    <3> HIDE DEF r
    <3>1. QED BY <1>2, <1>3, <2>1, <2>3
<1>7. /\ admitted' \in [Keys -> Nat]
      /\ \A j \in Keys : j # k => admitted'[j] = admitted[j]
      /\ admitted'[k] = IF t >= from THEN admitted[k] + 1 ELSE admitted[k]
  BY <1>1 DEF Admit, IInv, TypeOK
<1>8. admitted'[k] > 0 =>
          Cost * admitted'[k] + (r - Cost) <= Burst + Rate * (t - from)
  <2>1. CASE t >= from
    <3>1. Cost * admitted'[k] = Cost * admitted[k] + Cost
      BY <2>1, <1>1, <1>3, <1>7
    <3>2. CASE admitted[k] = 0
      <4>1. Rate * 0 <= Rate * (t - from) /\ Rate * 0 = 0 /\ Cost * 0 = 0
        BY <2>1, <1>1, RefillGrows, LimiterAssumption
      <4>2. Rate * (t - from) \in Int
        BY <1>1, LimiterAssumption
      <4>3. Cost * admitted'[k] = Cost
        BY <3>1, <3>2, <4>1, <1>3
      <4> HIDE DEF r
      <4>4. QED BY <4>1, <4>2, <4>3, <1>2, <1>3
    <3>3. CASE admitted[k] > 0
      <4>1. Rate * (t - from) \in Int /\ Cost * admitted[k] \in Int
        BY <1>1, LimiterAssumption
      <4> HIDE DEF r
      <4>2. QED BY <3>1, <3>3, <4>1, <1>2, <1>3
    <3>4. QED BY <3>2, <3>3, <1>1
  <2>2. CASE ~(t >= from)
    <3>1. admitted'[k] = admitted[k]
      BY <2>2, <1>7
    <3>2. Rate * (t - from) \in Int /\ Cost * admitted[k] \in Int
      BY <1>1, LimiterAssumption
    <3> HIDE DEF r
    <3>3. QED BY <3>1, <3>2, <1>2, <1>3
  <2>3. QED BY <2>1, <2>2
<1>9. Cost * admitted'[k] <= Burst + Rate * (clock - from)
  <2>1. CASE admitted'[k] = admitted[k]
    BY <2>1, <1>1 DEF IInv, WindowBound
  <2>2. CASE admitted'[k] > 0
    <3>1. Rate * (t - from) <= Rate * (clock - from)
      <4>1. t - from \in Int /\ clock - from \in Int /\ t - from <= clock - from
        BY <1>1
      <4>2. QED BY <4>1, RefillGrows
    <3>2. /\ Rate * (t - from) \in Int /\ Rate * (clock - from) \in Int
          /\ admitted'[k] \in Nat /\ Cost * admitted'[k] \in Int
      BY <1>1, <1>7, LimiterAssumption
    <3> HIDE DEF r
    <3>3. QED BY <3>1, <3>2, <2>2, <1>2, <1>3, <1>8
  <2>3. QED BY <2>1, <2>2, <1>1, <1>7
<1>10. r - Cost \in Int /\ r - Cost <= Burst
  <2> HIDE DEF r
  <2>1. QED BY <1>2, <1>3
<1>11. QED
  <2> HIDE DEF r
  <2>1. QED BY <1>1, <1>3, <1>4, <1>5, <1>6, <1>7, <1>8, <1>9, <1>10, InvSettle

\* A refusal keeps the invariant, and its reading is close to the latest one.
LEMMA InvRefuse ==
    ASSUME IInv, NEW w \in Workers, Refuse(w)
    PROVE  /\ IInv'
           /\ Rate * (stamp[w] - latest[key[w]]) < Cost
<1> DEFINE k == key[w]
           t == stamp[w]
           r == Refilled(bucket[k], t)
<1>1. /\ k \in Keys /\ t \in 1 .. clock /\ t \in Nat /\ phase[w] = "waiting"
      /\ clock \in Nat /\ from \in Nat /\ latest[k] \in Nat /\ admitted[k] \in Nat
  BY DEF IInv, TypeOK, Stamped, Refuse
<1>2. /\ r \in Int /\ r <= Burst
      /\ r = Burst \/ r >= Rate * (t - latest[k])
      /\ admitted[k] > 0 => Cost * admitted[k] + r <= Burst + Rate * (t - from)
  BY <1>1, RefilledFacts
<1>3. /\ ~(r >= Cost) /\ Settle(w, r) /\ admitted' = admitted
      /\ Cost \in Nat /\ Burst \in Nat /\ Cost <= Burst
  BY LimiterAssumption, BurstCoversOneCall DEF Refuse, Covers
<1>4. /\ Rate * (t - latest[k]) \in Int
      /\ Rate * (t - latest[k]) < Cost
      /\ r >= Rate * (t - latest[k])
  <2>1. Rate * (t - latest[k]) \in Int
    BY <1>1, LimiterAssumption
  <2> HIDE DEF r
  <2>2. QED BY <2>1, <1>2, <1>3
<1>5. r >= Rate * (t - Greatest(latest[k], t))
  <2>1. /\ Greatest(latest[k], t) \in Nat
        /\ t - Greatest(latest[k], t) \in Int /\ t - latest[k] \in Int
        /\ t - Greatest(latest[k], t) <= t - latest[k]
    BY <1>1 DEF Greatest
  <2>2. /\ Rate * (t - Greatest(latest[k], t)) <= Rate * (t - latest[k])
        /\ Rate * (t - Greatest(latest[k], t)) \in Int
    BY <2>1, RefillGrows, LimiterAssumption
  <2> HIDE DEF r
  <2>3. QED BY <2>2, <1>2, <1>4
<1>6. phase' \in [Workers -> Phases]
  BY DEF Refuse, IInv, TypeOK, Phases
<1>7. \A v \in Workers : phase'[v] = "waiting" => phase[v] = "waiting"
  BY DEF Refuse, IInv, TypeOK
<1>8. /\ admitted' \in [Keys -> Nat]
      /\ Cost * admitted'[k] <= Burst + Rate * (clock - from)
  BY <1>1, <1>3 DEF IInv, TypeOK, WindowBound
<1>9. IInv'
  <2> HIDE DEF r
  <2>1. QED BY <1>1, <1>2, <1>3, <1>5, <1>6, <1>7, <1>8, InvSettle
<1>10. QED BY <1>4, <1>9

-----------------------------------------------------------------------------
\* Every step of the limiter keeps the invariant.
LEMMA InvStep == IInv /\ [Next]_vars => IInv'
<1> SUFFICES ASSUME IInv, [Next]_vars PROVE IInv'
  OBVIOUS
<1>1. CASE \E w \in Workers : Admit(w)
  BY <1>1, InvAdmit
<1>2. CASE \E w \in Workers : Refuse(w)
  BY <1>2, InvRefuse
<1>3. CASE \/ \E w \in Workers, k \in Keys : ReadClock(w, k)
           \/ Tick \/ StartWindow \/ UNCHANGED vars
  BY <1>3, InvOther
<1>4. QED BY <1>1, <1>2, <1>3 DEF Next


-----------------------------------------------------------------------------
\* The limiter over Redis.  The requests in before that use counter c, those of
\* them that have yet to increment it, and those that will be let through.
Calling(c) == {w \in Workers : Redis!InFlight(w) /\ counter[w] = c}
Incrementing(c) == {w \in Workers : at[w] = "incr" /\ counter[w] = c}
Passing(c) == {w \in Workers : at[w] = "expire" /\ counter[w] = c /\ ~Redis!Over(val[w])}

\* Seconds in which counter c cannot have ended.
Open(c) == now < c[2] + Life

RedisTyped ==
    /\ now \in 0 .. MaxTime
    /\ at \in [Workers -> Redis!Commands \cup {"idle", "admitted", "refused", "failed"}]
    /\ counter \in [Workers -> Redis!Counters]
    /\ val \in [Workers -> Nat]
    /\ attempt \in [Workers -> {1, 2}]
    /\ redis \in [Redis!Counters -> [count : Nat, exp : Nat]]
    /\ faults \in 0 .. MaxFaults
    /\ arrived \in [Redis!Counters -> Nat]
    /\ passed \in [Redis!Counters -> Nat]
    /\ blind \in [Redis!Counters -> Nat]
    /\ slow \in [Redis!Counters -> Nat]

\* Requests come in the second of their counter or after it; EXPIRE ends no
\* counter before Life seconds from its own.
Dated ==
    /\ \A w \in Workers : counter[w][2] <= now
    /\ \A c \in Redis!Counters : redis[c].exp # 0 => redis[c].exp >= c[2] + Life

\* Every request is counted at its arrival.
Arrived ==
    \A c \in Redis!Counters :
        /\ passed[c] + Cardinality(Calling(c)) <= arrived[c]
        /\ blind[c] + slow[c] + Cardinality(Incrementing(c)) <= arrived[c]

\* As long as a counter cannot have ended it has been incremented for each
\* request that it lets through, those without a reply and the late ones apart.
Quota ==
    \A c \in Redis!Counters :
        /\ passed[c] + Cardinality(Passing(c)) <= Rps + blind[c] + slow[c]
        /\ Open(c) =>
              passed[c] + Cardinality(Passing(c)) <= redis[c].count + blind[c] + slow[c]

\* A counter is incremented once for each request and once more for a failure.
Increments ==
    /\ \A c \in Redis!Counters :
          redis[c].count + Cardinality(Incrementing(c)) <= arrived[c] + faults
    /\ \A w \in Workers :
          /\ at[w] \in {"expire", "refused"} => val[w] <= arrived[counter[w]] + faults
          /\ at[w] = "refused" => Redis!Over(val[w])

\* Counters without an end that no request uses.
Left == {c \in Redis!Counters :
            /\ redis[c].count > 0 /\ redis[c].exp = 0
            /\ \A w \in Workers : Redis!InFlight(w) => counter[w] # c}

Ended == IsFiniteSet(Left) /\ Cardinality(Left) <= faults

RedisInv == RedisTyped /\ Dated /\ Arrived /\ Quota /\ Increments /\ Ended

-----------------------------------------------------------------------------
\* The numbers, and how sets of workers are counted.
LEMMA RedisNumbers ==
    /\ Rps \in Nat /\ Life \in Nat \ {0} /\ MaxTime \in Nat /\ MaxFaults \in Nat
    /\ IsFiniteSet(Workers)
BY RedisAssumption DEF Redis!WindowAssumption, Redis!IsFiniteSet, IsFiniteSet

LEMMA Counting ==
    ASSUME NEW S \in SUBSET Workers, NEW T \in SUBSET Workers, NEW w \in Workers
    PROVE  /\ Cardinality(S) \in Nat /\ Cardinality(T) \in Nat
           /\ T \subseteq S => Cardinality(T) <= Cardinality(S)
           /\ T \subseteq S \cup {w} => Cardinality(T) <= Cardinality(S) + 1
           /\ w \in S /\ T \subseteq S \ {w} => Cardinality(T) + 1 <= Cardinality(S)
<1>1. IsFiniteSet(S) /\ IsFiniteSet(T) /\ Cardinality(S) \in Nat /\ Cardinality(T) \in Nat
  BY RedisNumbers, FS_Subset, FS_CardinalityType
<1>2. T \subseteq S => Cardinality(T) <= Cardinality(S)
  BY <1>1, FS_Subset
<1>3. T \subseteq S \cup {w} => Cardinality(T) <= Cardinality(S) + 1
  <2>1. /\ IsFiniteSet(S \cup {w}) /\ Cardinality(S \cup {w}) \in Nat
        /\ Cardinality(S \cup {w}) <= Cardinality(S) + 1
    <3>1. IsFiniteSet(S \cup {w}) /\ Cardinality(S \cup {w}) \in Nat
      BY <1>1, FS_AddElement, FS_CardinalityType
    <3>2. Cardinality(S \cup {w}) = IF w \in S THEN Cardinality(S) ELSE Cardinality(S) + 1
      BY <1>1, FS_AddElement
    <3>3. QED BY <1>1, <3>1, <3>2
  <2>2. T \subseteq S \cup {w} => Cardinality(T) <= Cardinality(S \cup {w})
    BY <2>1, FS_Subset
  <2>3. QED BY <1>1, <2>1, <2>2
<1>4. w \in S /\ T \subseteq S \ {w} => Cardinality(T) + 1 <= Cardinality(S)
  <2> SUFFICES ASSUME w \in S, T \subseteq S \ {w} PROVE Cardinality(T) + 1 <= Cardinality(S)
    OBVIOUS
  <2>1. /\ IsFiniteSet(S \ {w}) /\ Cardinality(S \ {w}) = Cardinality(S) - 1
    BY <1>1, FS_RemoveElement
  <2>2. Cardinality(T) <= Cardinality(S \ {w})
    BY <2>1, FS_Subset
  <2>3. QED BY <1>1, <2>1, <2>2
<1>5. QED BY <1>1, <1>2, <1>3, <1>4

LEMMA RedisInit == Redis!Init => RedisInv
<1> SUFFICES ASSUME Redis!Init PROVE RedisInv
  OBVIOUS
<1>1. /\ now = 0 /\ faults = 0 /\ MaxTime \in Nat /\ MaxFaults \in Nat /\ Rps \in Nat
      /\ 0 \in 0 .. MaxTime
      /\ \A w \in Workers : at[w] = "idle" /\ counter[w] \in WindowKeys \X {0}
      /\ \A c \in Redis!Counters : /\ redis[c] = [count |-> 0, exp |-> 0]
                                   /\ arrived[c] = 0 /\ passed[c] = 0
                                   /\ blind[c] = 0 /\ slow[c] = 0
  BY RedisNumbers DEF Redis!Init, Redis!NoCounter
<1>2. RedisTyped
  <2>1. counter \in [Workers -> Redis!Counters]
    BY <1>1 DEF Redis!Init, Redis!Counters
  <2>2. QED BY <1>1, <2>1 DEF Redis!Init, RedisTyped, Redis!NoCounter
<1>3. Dated
  BY <1>1 DEF Dated
<1>4. /\ \A c : Calling(c) = {} /\ Incrementing(c) = {} /\ Passing(c) = {}
      /\ Cardinality({}) = 0 /\ IsFiniteSet({}) /\ Left = {}
  <2>1. \A c : Calling(c) = {} /\ Incrementing(c) = {} /\ Passing(c) = {}
    BY <1>1 DEF Calling, Incrementing, Passing, Redis!InFlight, Redis!Commands
  <2>2. Left = {}
    BY <1>1 DEF Left
  <2>3. QED BY <2>1, <2>2, FS_EmptySet
<1>5. Arrived /\ Quota /\ Increments /\ Ended
  BY <1>1, <1>4 DEF Arrived, Quota, Increments, Ended
<1>6. QED BY <1>2, <1>3, <1>5 DEF RedisInv

\* A step of a request that uses counter c: what it has to keep by itself.
LEMMA CallStep ==
    ASSUME RedisInv, RedisTyped', NEW w \in Workers, NEW c \in Redis!Counters,
           counter[w] = c, Redis!InFlight(w),
           now' = now, counter' = counter, arrived' = arrived,
           faults' = faults \/ faults' = faults + 1,
           \A v \in Workers \ {w} : at'[v] = at[v] /\ val'[v] = val[v],
           \A d \in Redis!Counters \ {c} :
               /\ redis'[d] = redis[d] /\ passed'[d] = passed[d]
               /\ blind'[d] = blind[d] /\ slow'[d] = slow[d],
           redis'[c].exp = redis[c].exp \/ redis'[c].exp = now + Life,
           passed'[c] + Cardinality(Calling(c)') <= arrived[c],
           blind'[c] + slow'[c] + Cardinality(Incrementing(c)') <= arrived[c],
           passed'[c] + Cardinality(Passing(c)') <= Rps + blind'[c] + slow'[c],
           Open(c) =>
               passed'[c] + Cardinality(Passing(c)') <= redis'[c].count + blind'[c] + slow'[c],
           redis'[c].count + Cardinality(Incrementing(c)') <= arrived[c] + faults',
           at'[w] \in {"expire", "refused"} => val'[w] <= arrived[c] + faults',
           at'[w] = "refused" => Redis!Over(val'[w]),
           \/ faults' = faults + 1
           \/ c \notin Left'
    PROVE  RedisInv'
<1>1. /\ RedisTyped /\ faults \in Nat /\ faults' \in Nat /\ faults <= faults'
      /\ now \in Nat /\ Life \in Nat /\ MaxFaults \in Nat
  BY RedisNumbers DEF RedisInv, RedisTyped
<1>2. \A d \in Redis!Counters \ {c} :
        /\ Calling(d)' = Calling(d) /\ Incrementing(d)' = Incrementing(d) /\ Passing(d)' = Passing(d)
        /\ Open(d)' => Open(d)
  BY DEF Calling, Incrementing, Passing, Open, Redis!InFlight, Redis!Over
<1>3. Dated'
  <2>1. c \in WindowKeys \X (0 .. MaxTime) /\ c[2] \in Nat /\ c[2] <= now
    BY RedisNumbers DEF RedisInv, Dated, Redis!Counters
  <2>2. \A d \in Redis!Counters : redis'[d].exp # 0 => redis'[d].exp >= d[2] + Life
    BY <1>1, <2>1 DEF RedisInv, Dated
  <2>3. QED BY <2>2 DEF RedisInv, Dated
<1>4. Arrived'
  BY <1>2 DEF RedisInv, Arrived
<1>5. Quota'
  BY <1>2 DEF RedisInv, Quota, Open
<1>6. Increments'
  <2>1. ASSUME NEW d \in Redis!Counters
        PROVE  redis'[d].count + Cardinality(Incrementing(d)') <= arrived[d] + faults'
    <3>1. CASE d = c
      BY <3>1
    <3>2. CASE d # c
      <4>1. Incrementing(d) \in SUBSET Workers /\ Cardinality(Incrementing(d)) \in Nat
        BY Counting DEF Incrementing
      <4>2. redis[d].count \in Nat /\ arrived[d] \in Nat
        BY <1>1 DEF RedisTyped
      <4>3. redis[d].count + Cardinality(Incrementing(d)) <= arrived[d] + faults
        BY DEF RedisInv, Increments
      <4>4. QED BY <1>1, <1>2, <3>2, <4>1, <4>2, <4>3
    <3>3. QED BY <3>1, <3>2
  <2>2. ASSUME NEW v \in Workers
        PROVE  /\ at'[v] \in {"expire", "refused"} => val'[v] <= arrived[counter[v]] + faults'
               /\ at'[v] = "refused" => Redis!Over(val'[v])
    <3>1. CASE v = w
      BY <3>1
    <3>2. CASE v # w
      <4>1. arrived[counter[v]] \in Nat /\ val[v] \in Nat
        BY <1>1 DEF RedisTyped
      <4>2. /\ at[v] \in {"expire", "refused"} => val[v] <= arrived[counter[v]] + faults
            /\ at[v] = "refused" => Redis!Over(val[v])
        BY DEF RedisInv, Increments
      <4>3. QED BY <1>1, <3>2, <4>1, <4>2
    <3>3. QED BY <3>1, <3>2
  <2>3. QED BY <2>1, <2>2 DEF Increments, Redis!Over
<1>7. Ended'
  <2>1. IsFiniteSet(Left) /\ Cardinality(Left) \in Nat /\ Cardinality(Left) <= faults
    BY FS_CardinalityType DEF RedisInv, Ended
  <2>2. Left' \subseteq Left \cup {c}
    BY DEF Left, Redis!InFlight
  <2>3. CASE c \notin Left'
    <3>1. IsFiniteSet(Left') /\ Cardinality(Left') <= Cardinality(Left) /\ Cardinality(Left') \in Nat
      BY <2>1, <2>2, <2>3, FS_Subset, FS_CardinalityType
    <3>2. QED BY <1>1, <2>1, <3>1 DEF Ended
  <2>4. CASE faults' = faults + 1
    <3>1. /\ IsFiniteSet(Left \cup {c}) /\ Cardinality(Left \cup {c}) \in Nat
          /\ Cardinality(Left \cup {c}) <= Cardinality(Left) + 1
      <4>1. IsFiniteSet(Left \cup {c}) /\ Cardinality(Left \cup {c}) \in Nat
        BY <2>1, FS_AddElement, FS_CardinalityType
      <4>2. Cardinality(Left \cup {c}) = IF c \in Left THEN Cardinality(Left) ELSE Cardinality(Left) + 1
        BY <2>1, FS_AddElement
      <4>3. QED BY <2>1, <4>1, <4>2
    <3>2. /\ IsFiniteSet(Left') /\ Cardinality(Left') \in Nat
          /\ Cardinality(Left') <= Cardinality(Left \cup {c})
      BY <2>2, <3>1, FS_Subset, FS_CardinalityType
    <3>3. QED BY <1>1, <2>1, <2>4, <3>1, <3>2 DEF Ended
  <2>5. QED BY <2>3, <2>4
<1>8. QED BY <1>3, <1>4, <1>5, <1>6, <1>7 DEF RedisInv

\* What is at hand in a step of worker w.
LEMMA CallFacts ==
    ASSUME RedisInv, NEW w \in Workers, Redis!InFlight(w)
    PROVE  \E c \in Redis!Counters :
              /\ counter[w] = c /\ w \in Calling(c) /\ at[w] \in {"incr", "expire"}
              /\ at[w] = "incr" => w \in Incrementing(c)
              /\ at[w] = "expire" /\ ~Redis!Over(val[w]) => w \in Passing(c)
              /\ c[2] \in Nat /\ c[2] <= now
<1>1. counter[w] \in Redis!Counters /\ counter[w] \in WindowKeys \X (0 .. MaxTime)
  BY DEF RedisInv, RedisTyped, Redis!Counters
<1>2. PICK c \in Redis!Counters : counter[w] = c /\ c[2] \in Nat
  BY <1>1, RedisNumbers
<1>3. c[2] <= now
  BY <1>2 DEF RedisInv, Dated
<1>4. QED
  BY <1>2, <1>3 DEF Calling, Incrementing, Passing, Redis!InFlight, Redis!Commands

\* What holds of a counter before a step, with the numbers that it counts.
LEMMA CounterFacts ==
    ASSUME RedisInv, NEW c \in Redis!Counters
    PROVE  /\ Rps \in Nat /\ faults \in Nat /\ now \in Nat /\ arrived[c] \in Nat
           /\ passed[c] \in Nat /\ blind[c] \in Nat /\ slow[c] \in Nat
           /\ redis[c].count \in Nat /\ redis[c].exp \in Nat
           /\ Calling(c) \in SUBSET Workers /\ Incrementing(c) \in SUBSET Workers
           /\ Passing(c) \in SUBSET Workers
           /\ Cardinality(Calling(c)) \in Nat /\ Cardinality(Incrementing(c)) \in Nat
           /\ Cardinality(Passing(c)) \in Nat
           /\ passed[c] + Cardinality(Calling(c)) <= arrived[c]
           /\ blind[c] + slow[c] + Cardinality(Incrementing(c)) <= arrived[c]
           /\ passed[c] + Cardinality(Passing(c)) <= Rps + blind[c] + slow[c]
           /\ Open(c) =>
                  passed[c] + Cardinality(Passing(c)) <= redis[c].count + blind[c] + slow[c]
           /\ redis[c].count + Cardinality(Incrementing(c)) <= arrived[c] + faults
<1>1. /\ Calling(c) \in SUBSET Workers /\ Incrementing(c) \in SUBSET Workers
      /\ Passing(c) \in SUBSET Workers
  BY DEF Calling, Incrementing, Passing
<1>2. /\ Cardinality(Calling(c)) \in Nat /\ Cardinality(Incrementing(c)) \in Nat
      /\ Cardinality(Passing(c)) \in Nat
  BY <1>1, RedisNumbers, FS_Subset, FS_CardinalityType
<1>3. /\ Rps \in Nat /\ faults \in Nat /\ now \in Nat /\ arrived[c] \in Nat
      /\ passed[c] \in Nat /\ blind[c] \in Nat /\ slow[c] \in Nat
      /\ redis[c].count \in Nat /\ redis[c].exp \in Nat
  BY RedisNumbers DEF RedisInv, RedisTyped
<1>4. QED BY <1>1, <1>2, <1>3 DEF RedisInv, Arrived, Quota, Increments

\* What the command of worker w does to the counters when the server executes
\* it, and when it does not.
LEMMA Executed ==
    ASSUME RedisInv, NEW w \in Workers, NEW c \in Redis!Counters, counter[w] = c,
           Redis!Execute(w) \/ redis' = redis
    PROVE  /\ redis' \in [Redis!Counters -> [count : Nat, exp : Nat]]
           /\ \A d \in Redis!Counters \ {c} : redis'[d] = redis[d]
           /\ redis'[c].exp = redis[c].exp \/ redis'[c].exp = now + Life
           /\ redis'[c].count \in {redis[c].count, redis[c].count + 1}
           /\ at[w] = "expire" => redis'[c].count = redis[c].count
           /\ Redis!Execute(w) /\ at[w] = "incr" => redis'[c].count = redis[c].count + 1
           /\ Redis!Execute(w) /\ at[w] = "expire" =>
                  redis'[c].exp = now + Life \/ redis'[c].count = 0
<1>1. /\ redis \in [Redis!Counters -> [count : Nat, exp : Nat]]
      /\ redis[c] \in [count : Nat, exp : Nat] /\ now + Life \in Nat /\ now \in Nat
  BY RedisNumbers DEF RedisInv, RedisTyped
<1>2. CASE redis' = redis /\ ~Redis!Execute(w)
  BY <1>1, <1>2
<1>3. CASE Redis!Execute(w) /\ at[w] = "incr"
  <2>1. redis' = [redis EXCEPT ![c].count = redis[c].count + 1]
    BY <1>3 DEF Redis!Execute
  <2>2. QED BY <1>1, <1>3, <2>1
<1>4. CASE Redis!Execute(w) /\ at[w] # "incr"
  <2>1. /\ at[w] = "expire"
        /\ redis' = [redis EXCEPT ![c] = IF redis[c] = Redis!NoCounter THEN redis[c]
                                         ELSE [redis[c] EXCEPT !.exp = now + Life]]
    BY <1>4 DEF Redis!Execute, Redis!Expiring
  <2>2. CASE redis[c] = Redis!NoCounter
    BY <1>1, <2>1, <2>2 DEF Redis!NoCounter
  <2>3. CASE redis[c] # Redis!NoCounter
    BY <1>1, <2>1, <2>3
  <2>4. QED BY <2>2, <2>3
<1>5. QED BY <1>2, <1>3, <1>4

\* A request comes.
LEMMA RedisArrive ==
    ASSUME RedisInv, NEW w \in Workers, NEW k \in WindowKeys, Redis!Arrive(w, k)
    PROVE  RedisInv'
<1>1. RedisTyped /\ now \in Nat /\ now \in 0 .. MaxTime
  BY RedisNumbers DEF RedisInv, RedisTyped
<1>2. PICK c \in Redis!Counters : c = <<k, now>> /\ c[2] = now
  <2>1. <<k, now>> \in Redis!Counters /\ <<k, now>>[2] = now
    BY <1>1 DEF Redis!Counters
  <2>2. QED BY <2>1
<1>3. /\ at[w] \notin {"incr", "expire"} /\ at'[w] = "incr" /\ counter'[w] = c
      /\ \A v \in Workers \ {w} : at'[v] = at[v] /\ counter'[v] = counter[v] /\ val'[v] = val[v]
      /\ arrived'[c] = arrived[c] + 1
      /\ \A d \in Redis!Counters \ {c} : arrived'[d] = arrived[d]
      /\ UNCHANGED <<now, attempt, redis, faults, passed, blind, slow>>
  BY <1>1, <1>2 DEF Redis!Arrive, Redis!InFlight, Redis!Commands, Redis!historyVars, RedisTyped
<1>4. RedisTyped'
  BY <1>1, <1>2 DEF Redis!Arrive, Redis!Commands, Redis!historyVars, RedisTyped
<1>5. Dated'
  BY <1>1, <1>2, <1>3 DEF RedisInv, Dated
<1>6. ASSUME NEW d \in Redis!Counters
      PROVE  /\ Passing(d)' = Passing(d) /\ Open(d)' = Open(d)
             /\ d # c => Calling(d)' = Calling(d) /\ Incrementing(d)' = Incrementing(d)
             /\ Calling(c)' \subseteq Calling(c) \cup {w}
             /\ Incrementing(c)' \subseteq Incrementing(c) \cup {w}
  <2>1. Passing(d)' = Passing(d)
    BY <1>3 DEF Passing, Redis!Over
  <2>2. Open(d)' = Open(d)
    BY <1>3 DEF Open
  <2>3. d # c => Calling(d)' = Calling(d) /\ Incrementing(d)' = Incrementing(d)
    BY <1>3 DEF Calling, Incrementing, Redis!InFlight, Redis!Commands
  <2>4. /\ Calling(c)' \subseteq Calling(c) \cup {w}
        /\ Incrementing(c)' \subseteq Incrementing(c) \cup {w}
    BY <1>3 DEF Calling, Incrementing, Redis!InFlight, Redis!Commands
  <2>5. QED BY <2>1, <2>2, <2>3, <2>4
<1>7. /\ Cardinality(Calling(c)') <= Cardinality(Calling(c)) + 1
      /\ Cardinality(Incrementing(c)') <= Cardinality(Incrementing(c)) + 1
      /\ Cardinality(Calling(c)') \in Nat /\ Cardinality(Incrementing(c)') \in Nat
  <2>1. Calling(c)' \in SUBSET Workers /\ Incrementing(c)' \in SUBSET Workers
    BY DEF Calling, Incrementing
  <2>2. Calling(c) \in SUBSET Workers /\ Incrementing(c) \in SUBSET Workers
    BY DEF Calling, Incrementing
  <2>3. QED BY <1>6, <2>1, <2>2, Counting
<1>8. ASSUME NEW d \in Redis!Counters
      PROVE  /\ passed'[d] + Cardinality(Calling(d)') <= arrived'[d]
             /\ blind'[d] + slow'[d] + Cardinality(Incrementing(d)') <= arrived'[d]
             /\ passed'[d] + Cardinality(Passing(d)') <= Rps + blind'[d] + slow'[d]
             /\ Open(d)' => passed'[d] + Cardinality(Passing(d)')
                               <= redis'[d].count + blind'[d] + slow'[d]
             /\ redis'[d].count + Cardinality(Incrementing(d)') <= arrived'[d] + faults'
  <2>1. CASE d = c
    <3>1. /\ passed'[c] + Cardinality(Calling(c)') <= arrived'[c]
          /\ blind'[c] + slow'[c] + Cardinality(Incrementing(c)') <= arrived'[c]
          /\ redis'[c].count + Cardinality(Incrementing(c)') <= arrived'[c] + faults'
      BY <1>3, <1>7, CounterFacts
    <3>2. QED BY <1>3, <1>6, <2>1, <3>1, CounterFacts
  <2>2. CASE d # c
    BY <1>3, <1>6, <2>2, CounterFacts
  <2>3. QED BY <2>1, <2>2
<1>9. ASSUME NEW v \in Workers
      PROVE  /\ at'[v] \in {"expire", "refused"} => val'[v] <= arrived'[counter'[v]] + faults'
             /\ at'[v] = "refused" => Redis!Over(val'[v])
  <2>1. CASE v = w
    BY <1>3, <2>1
  <2>2. CASE v # w
    <3>1. /\ counter[v] \in Redis!Counters /\ val[v] \in Nat /\ faults \in Nat
          /\ \A d \in Redis!Counters : arrived[d] \in Nat
      BY <1>1 DEF RedisTyped
    <3>2. /\ at[v] \in {"expire", "refused"} => val[v] <= arrived[counter[v]] + faults
          /\ at[v] = "refused" => Redis!Over(val[v])
      BY DEF RedisInv, Increments
    <3>3. arrived'[counter[v]] = arrived[counter[v]] \/ arrived'[counter[v]] = arrived[counter[v]] + 1
      BY <1>3, <3>1
    <3>4. QED BY <1>3, <2>2, <3>1, <3>2, <3>3
  <2>3. QED BY <2>1, <2>2
<1>10. Ended'
  <2>1. Left' \subseteq Left
    BY <1>3 DEF Left, Redis!InFlight, Redis!Commands
  <2>2. IsFiniteSet(Left) /\ Cardinality(Left) <= faults
    BY DEF RedisInv, Ended
  <2>3. /\ IsFiniteSet(Left') /\ Cardinality(Left') <= Cardinality(Left)
        /\ Cardinality(Left') \in Nat /\ Cardinality(Left) \in Nat /\ faults \in Nat
    BY <1>1, <2>1, <2>2, FS_Subset, FS_CardinalityType DEF RedisTyped
  <2>4. QED BY <1>3, <2>2, <2>3 DEF Ended
<1>11. Arrived' /\ Quota' /\ Increments'
  BY <1>8, <1>9 DEF Arrived, Quota, Increments, Redis!Over
<1>12. QED BY <1>4, <1>5, <1>10, <1>11 DEF RedisInv

\* How a step of worker w changes the numbers of requests at its counter.
LEMMA CallCounts ==
    ASSUME NEW w \in Workers, NEW c, counter[w] = c, counter' = counter,
           Redis!InFlight(w),
           \A v \in Workers \ {w} : at'[v] = at[v] /\ val'[v] = val[v]
    PROVE  /\ Cardinality(Calling(c)') \in Nat /\ Cardinality(Incrementing(c)') \in Nat
           /\ Cardinality(Passing(c)') \in Nat
           /\ Cardinality(Calling(c)') <= Cardinality(Calling(c))
           /\ at'[w] \notin {"incr", "expire"} =>
                  Cardinality(Calling(c)') + 1 <= Cardinality(Calling(c))
           /\ at'[w] # "incr" \/ at[w] = "incr" =>
                  Cardinality(Incrementing(c)') <= Cardinality(Incrementing(c))
           /\ at'[w] # "incr" /\ at[w] = "incr" =>
                  Cardinality(Incrementing(c)') + 1 <= Cardinality(Incrementing(c))
           /\ Cardinality(Passing(c)') <= Cardinality(Passing(c)) + 1
           /\ \/ at'[w] # "expire" \/ Redis!Over(val'[w])
              \/ at[w] = "expire" /\ ~Redis!Over(val[w])
              => Cardinality(Passing(c)') <= Cardinality(Passing(c))
           /\ at[w] = "expire" /\ ~Redis!Over(val[w]) /\ at'[w] # "expire" =>
                  Cardinality(Passing(c)') + 1 <= Cardinality(Passing(c))
<1>1. /\ Calling(c) \in SUBSET Workers /\ Calling(c)' \in SUBSET Workers
      /\ w \in Calling(c)
      /\ Calling(c)' \subseteq Calling(c)
      /\ at'[w] \notin {"incr", "expire"} => Calling(c)' \subseteq Calling(c) \ {w}
  BY DEF Calling, Redis!InFlight, Redis!Commands
<1>2. /\ Incrementing(c) \in SUBSET Workers /\ Incrementing(c)' \in SUBSET Workers
      /\ at[w] = "incr" => w \in Incrementing(c)
      /\ at'[w] # "incr" \/ at[w] = "incr" => Incrementing(c)' \subseteq Incrementing(c)
      /\ at'[w] # "incr" => Incrementing(c)' \subseteq Incrementing(c) \ {w}
  BY DEF Incrementing
<1>3. /\ Passing(c) \in SUBSET Workers /\ Passing(c)' \in SUBSET Workers
      /\ at[w] = "expire" /\ ~Redis!Over(val[w]) => w \in Passing(c)
      /\ Passing(c)' \subseteq Passing(c) \cup {w}
      /\ \/ at'[w] # "expire" \/ Redis!Over(val'[w])
         \/ at[w] = "expire" /\ ~Redis!Over(val[w])
         => Passing(c)' \subseteq Passing(c)
      /\ at'[w] # "expire" => Passing(c)' \subseteq Passing(c) \ {w}
  BY DEF Passing, Redis!Over
<1>4. /\ Cardinality(Calling(c)') \in Nat
      /\ Cardinality(Calling(c)') <= Cardinality(Calling(c))
      /\ at'[w] \notin {"incr", "expire"} =>
             Cardinality(Calling(c)') + 1 <= Cardinality(Calling(c))
  BY <1>1, Counting
<1>5. /\ Cardinality(Incrementing(c)') \in Nat
      /\ at'[w] # "incr" \/ at[w] = "incr" =>
             Cardinality(Incrementing(c)') <= Cardinality(Incrementing(c))
      /\ at'[w] # "incr" /\ at[w] = "incr" =>
             Cardinality(Incrementing(c)') + 1 <= Cardinality(Incrementing(c))
  BY <1>2, Counting
<1>6. /\ Cardinality(Passing(c)') \in Nat
      /\ Cardinality(Passing(c)') <= Cardinality(Passing(c)) + 1
      /\ Passing(c)' \subseteq Passing(c) =>
             Cardinality(Passing(c)') <= Cardinality(Passing(c))
      /\ w \in Passing(c) /\ Passing(c)' \subseteq Passing(c) \ {w} =>
             Cardinality(Passing(c)') + 1 <= Cardinality(Passing(c))
  BY <1>3, Counting
<1>7. QED BY <1>3, <1>4, <1>5, <1>6

\* INCR is over.
LEMMA RedisCounted ==
    ASSUME RedisInv, NEW w \in Workers, NEW v \in Nat, Redis!InFlight(w),
           Redis!Counted(w, v), Redis!Execute(w) \/ redis' = redis,
           attempt' \in [Workers -> {1, 2}],
           faults' \in 0 .. MaxFaults, blind' \in [Redis!Counters -> Nat],
           slow' \in [Redis!Counters -> Nat],
           UNCHANGED <<now, counter, arrived>>,
           \/ /\ Redis!Execute(w) /\ v = redis[counter[w]].count + 1
              /\ slow' = IF Redis!Late(w) THEN [slow EXCEPT ![counter[w]] = @ + 1] ELSE slow
              /\ UNCHANGED <<faults, blind>>
           \/ /\ v = 1 /\ faults' = faults + 1
              /\ blind' = [blind EXCEPT ![counter[w]] = @ + 1] /\ UNCHANGED slow
    PROVE  RedisInv'
<1>1. PICK c \in Redis!Counters :
         /\ counter[w] = c /\ w \in Calling(c) /\ at[w] \in {"incr", "expire"}
         /\ at[w] = "incr" => w \in Incrementing(c)
         /\ at[w] = "expire" /\ ~Redis!Over(val[w]) => w \in Passing(c)
         /\ c[2] \in Nat /\ c[2] <= now
  BY CallFacts
<1>2. /\ at[w] = "incr" /\ at'[w] = "expire" /\ val'[w] = v /\ passed' = passed
      /\ \A u \in Workers \ {w} : at'[u] = at[u] /\ val'[u] = val[u]
      /\ at' \in [Workers -> Redis!Commands \cup {"idle", "admitted", "refused", "failed"}]
      /\ val' \in [Workers -> Nat]
  BY DEF Redis!Counted, Redis!Commands, RedisInv, RedisTyped
<1>3. /\ redis' \in [Redis!Counters -> [count : Nat, exp : Nat]]
      /\ \A d \in Redis!Counters \ {c} : redis'[d] = redis[d]
      /\ redis'[c].exp = redis[c].exp \/ redis'[c].exp = now + Life
      /\ redis'[c].count \in {redis[c].count, redis[c].count + 1}
      /\ Redis!Execute(w) => redis'[c].count = redis[c].count + 1
  BY <1>1, <1>2, Executed
<1>4. /\ \A d \in Redis!Counters \ {c} : blind'[d] = blind[d] /\ slow'[d] = slow[d]
      /\ \/ /\ redis'[c].count = redis[c].count + 1 /\ v = redis[c].count + 1
            /\ faults' = faults /\ blind'[c] = blind[c]
            /\ \/ slow'[c] = slow[c] + 1 /\ ~Open(c)
               \/ slow'[c] = slow[c] /\ Open(c)
         \/ /\ v = 1 /\ faults' = faults + 1
            /\ blind'[c] = blind[c] + 1 /\ slow'[c] = slow[c]
  <2>1. blind \in [Redis!Counters -> Nat] /\ slow \in [Redis!Counters -> Nat]
    BY DEF RedisInv, RedisTyped
  <2>2. Redis!Late(w) <=> ~Open(c)
    BY <1>1, RedisNumbers DEF Redis!Late, Open, RedisInv, RedisTyped
  <2>3. QED BY <1>1, <1>3, <2>1, <2>2
<1>5. RedisTyped'
  BY <1>2, <1>3 DEF RedisInv, RedisTyped
<1>6. /\ Cardinality(Calling(c)') \in Nat /\ Cardinality(Incrementing(c)') \in Nat
      /\ Cardinality(Passing(c)') \in Nat
      /\ Cardinality(Calling(c)') <= Cardinality(Calling(c))
      /\ Cardinality(Incrementing(c)') + 1 <= Cardinality(Incrementing(c))
      /\ Cardinality(Passing(c)') <= Cardinality(Passing(c)) + 1
      /\ Redis!Over(v) => Cardinality(Passing(c)') <= Cardinality(Passing(c))
  BY <1>1, <1>2, CallCounts
<1> DEFINE p == Cardinality(Passing(c)) pp == Cardinality(Passing(c)')
           i == Cardinality(Incrementing(c)) ii == Cardinality(Incrementing(c)')
           n == redis[c].count nn == redis'[c].count
<1>7. /\ Rps \in Nat /\ faults \in Nat /\ arrived[c] \in Nat
      /\ passed[c] \in Nat /\ blind[c] \in Nat /\ slow[c] \in Nat
      /\ n \in Nat /\ p \in Nat /\ i \in Nat
      /\ passed[c] + Cardinality(Calling(c)) <= arrived[c]
      /\ blind[c] + slow[c] + i <= arrived[c]
      /\ passed[c] + p <= Rps + blind[c] + slow[c]
      /\ Open(c) => passed[c] + p <= n + blind[c] + slow[c]
      /\ n + i <= arrived[c] + faults
      /\ Cardinality(Calling(c)) \in Nat
  BY <1>1, CounterFacts
<1>8. /\ pp \in Nat /\ ii \in Nat /\ ii + 1 <= i /\ pp <= p + 1
      /\ v > Rps => pp <= p
      /\ nn \in {n, n + 1}
      /\ \/ /\ nn = n + 1 /\ v = n + 1 /\ faults' = faults /\ blind'[c] = blind[c]
            /\ \/ slow'[c] = slow[c] + 1 /\ ~Open(c)
               \/ slow'[c] = slow[c] /\ Open(c)
         \/ /\ v = 1 /\ faults' = faults + 1
            /\ blind'[c] = blind[c] + 1 /\ slow'[c] = slow[c]
  BY <1>3, <1>4, <1>6 DEF Redis!Over
<1>9. /\ passed[c] + Cardinality(Calling(c)') <= arrived[c]
      /\ blind'[c] + slow'[c] + ii <= arrived[c]
      /\ passed[c] + pp <= Rps + blind'[c] + slow'[c]
      /\ Open(c) => passed[c] + pp <= nn + blind'[c] + slow'[c]
      /\ nn + ii <= arrived[c] + faults'
      /\ v <= arrived[c] + faults'
  <2>1. passed[c] + Cardinality(Calling(c)') <= arrived[c]
    BY <1>6, <1>7
  <2> HIDE DEF p, pp, i, ii, n, nn
  <2>2. /\ blind'[c] + slow'[c] + ii <= arrived[c]
        /\ nn + ii <= arrived[c] + faults'
        /\ v <= arrived[c] + faults'
    BY <1>7, <1>8
  <2>3. passed[c] + pp <= Rps + blind'[c] + slow'[c]
    BY <1>7, <1>8
  <2>4. Open(c) => passed[c] + pp <= nn + blind'[c] + slow'[c]
    BY <1>7, <1>8
  <2>5. QED BY <2>1, <2>2, <2>3, <2>4
<1>10. c \notin Left'
  BY <1>1, <1>2 DEF Left, Redis!InFlight, Redis!Commands
<1>11. QED BY <1>1, <1>2, <1>3, <1>4, <1>5, <1>9, <1>10, CallStep

\* EXPIRE is over and the request is decided.
LEMMA RedisDecided ==
    ASSUME RedisInv, NEW w \in Workers, Redis!InFlight(w),
           Redis!Decided(w), Redis!Execute(w) \/ redis' = redis,
           attempt' \in [Workers -> {1, 2}], faults' \in 0 .. MaxFaults,
           UNCHANGED <<now, counter, arrived, blind, slow>>,
           (Redis!Execute(w) /\ faults' = faults) \/ faults' = faults + 1
    PROVE  RedisInv'
<1>1. PICK c \in Redis!Counters :
         /\ counter[w] = c /\ w \in Calling(c) /\ at[w] \in {"incr", "expire"}
         /\ at[w] = "incr" => w \in Incrementing(c)
         /\ at[w] = "expire" /\ ~Redis!Over(val[w]) => w \in Passing(c)
         /\ c[2] \in Nat /\ c[2] <= now
  BY CallFacts
<1>2. /\ at[w] = "expire" /\ val' = val /\ at'[w] \in {"refused", "admitted"}
      /\ at'[w] = "refused" => Redis!Over(val[w])
      /\ \/ passed'[c] = passed[c]
         \/ passed'[c] = passed[c] + 1 /\ ~Redis!Over(val[w])
      /\ \A d \in Redis!Counters \ {c} : passed'[d] = passed[d]
      /\ \A u \in Workers \ {w} : at'[u] = at[u]
      /\ at' \in [Workers -> Redis!Commands \cup {"idle", "admitted", "refused", "failed"}]
      /\ passed' \in [Redis!Counters -> Nat]
  <2>1. /\ at \in [Workers -> Redis!Commands \cup {"idle", "admitted", "refused", "failed"}]
        /\ passed \in [Redis!Counters -> Nat]
    BY DEF RedisInv, RedisTyped
  <2>2. CASE Redis!Over(val[w]) /\ at' = [at EXCEPT ![w] = "refused"] /\ passed' = passed
    BY <2>1, <2>2 DEF Redis!Decided
  <2>3. CASE /\ ~Redis!Over(val[w]) /\ at' = [at EXCEPT ![w] = "admitted"]
             /\ passed' = [passed EXCEPT ![c] = @ + 1]
    BY <2>1, <2>3 DEF Redis!Decided
  <2>4. QED BY <1>1, <2>2, <2>3 DEF Redis!Decided
<1>3. /\ redis' \in [Redis!Counters -> [count : Nat, exp : Nat]]
      /\ \A d \in Redis!Counters \ {c} : redis'[d] = redis[d]
      /\ redis'[c].exp = redis[c].exp \/ redis'[c].exp = now + Life
      /\ redis'[c].count = redis[c].count
      /\ Redis!Execute(w) => redis'[c].exp = now + Life \/ redis'[c].count = 0
  BY <1>1, <1>2, Executed
<1>4. RedisTyped'
  BY <1>2, <1>3 DEF RedisInv, RedisTyped
<1>5. /\ Cardinality(Calling(c)') \in Nat /\ Cardinality(Incrementing(c)') \in Nat
      /\ Cardinality(Passing(c)') \in Nat
      /\ Cardinality(Calling(c)') + 1 <= Cardinality(Calling(c))
      /\ Cardinality(Incrementing(c)') <= Cardinality(Incrementing(c))
      /\ Cardinality(Passing(c)') <= Cardinality(Passing(c))
      /\ ~Redis!Over(val[w]) => Cardinality(Passing(c)') + 1 <= Cardinality(Passing(c))
  BY <1>1, <1>2, CallCounts
<1>6. /\ passed'[c] + Cardinality(Calling(c)') <= arrived[c]
      /\ blind'[c] + slow'[c] + Cardinality(Incrementing(c)') <= arrived[c]
      /\ passed'[c] + Cardinality(Passing(c)') <= Rps + blind'[c] + slow'[c]
      /\ Open(c) =>
             passed'[c] + Cardinality(Passing(c)') <= redis'[c].count + blind'[c] + slow'[c]
      /\ redis'[c].count + Cardinality(Incrementing(c)') <= arrived[c] + faults'
  <2>1. /\ passed'[c] + Cardinality(Calling(c)') <= arrived[c]
        /\ blind'[c] + slow'[c] + Cardinality(Incrementing(c)') <= arrived[c]
    BY <1>2, <1>5, CounterFacts
  <2>2. /\ passed'[c] + Cardinality(Passing(c)') <= Rps + blind'[c] + slow'[c]
        /\ Open(c) =>
               passed'[c] + Cardinality(Passing(c)') <= redis'[c].count + blind'[c] + slow'[c]
    BY <1>1, <1>2, <1>3, <1>5, CounterFacts
  <2>3. redis'[c].count + Cardinality(Incrementing(c)') <= arrived[c] + faults'
    BY <1>3, <1>5, CounterFacts
  <2>4. QED BY <2>1, <2>2, <2>3
<1>7. val[w] <= arrived[c] + faults'
  <2>1. val[w] \in Nat /\ val[w] <= arrived[c] + faults
    BY <1>1, <1>2 DEF RedisInv, RedisTyped, Increments
  <2>2. QED BY <2>1, CounterFacts
<1>8. faults' = faults + 1 \/ c \notin Left'
  <2>1. now + Life # 0
    BY RedisNumbers DEF RedisInv, RedisTyped
  <2>2. QED BY <1>3, <2>1 DEF Left
<1>9. /\ \A u \in Workers \ {w} : at'[u] = at[u] /\ val'[u] = val[u]
      /\ \A d \in Redis!Counters \ {c} :
             /\ redis'[d] = redis[d] /\ passed'[d] = passed[d]
             /\ blind'[d] = blind[d] /\ slow'[d] = slow[d]
      /\ at'[w] \in {"expire", "refused"} => val'[w] <= arrived[c] + faults'
      /\ at'[w] = "refused" => Redis!Over(val'[w])
  BY <1>2, <1>3, <1>7 DEF Redis!Over
<1>10. QED BY <1>1, <1>3, <1>4, <1>6, <1>8, <1>9, CallStep

\* A command has no reply and will be sent again, or the call ends with an
\* exception.
LEMMA RedisFailed ==
    ASSUME RedisInv, NEW w \in Workers, Redis!NoReply(w) \/ Redis!Throws(w)
    PROVE  RedisInv'
<1>1. Redis!InFlight(w) /\ faults' = faults + 1 /\ faults' \in 0 .. MaxFaults
  <2>1. faults \in Nat /\ MaxFaults \in Nat
    BY RedisNumbers DEF RedisInv, RedisTyped
  <2>2. QED BY <2>1 DEF Redis!NoReply, Redis!Throws, Redis!Fault
<1>2. PICK c \in Redis!Counters :
         /\ counter[w] = c /\ w \in Calling(c) /\ at[w] \in {"incr", "expire"}
         /\ at[w] = "incr" => w \in Incrementing(c)
         /\ at[w] = "expire" /\ ~Redis!Over(val[w]) => w \in Passing(c)
         /\ c[2] \in Nat /\ c[2] <= now
  BY <1>1, CallFacts
<1>3. /\ UNCHANGED <<now, val, counter, arrived, passed, blind, slow>>
      /\ at'[w] = at[w] \/ (at'[w] = "failed" /\ redis' = redis)
      /\ \A u \in Workers \ {w} : at'[u] = at[u]
      /\ at' \in [Workers -> Redis!Commands \cup {"idle", "admitted", "refused", "failed"}]
      /\ attempt' \in [Workers -> {1, 2}]
      /\ Redis!Execute(w) \/ redis' = redis
  BY DEF Redis!NoReply, Redis!Throws, Redis!windowVars, Redis!historyVars, RedisInv, RedisTyped
<1>4. /\ redis' \in [Redis!Counters -> [count : Nat, exp : Nat]]
      /\ \A d \in Redis!Counters \ {c} : redis'[d] = redis[d]
      /\ redis'[c].exp = redis[c].exp \/ redis'[c].exp = now + Life
      /\ redis'[c].count \in {redis[c].count, redis[c].count + 1}
  BY <1>2, <1>3, Executed
<1>5. RedisTyped'
  BY <1>1, <1>3, <1>4 DEF RedisInv, RedisTyped
<1>6. /\ Cardinality(Calling(c)') \in Nat /\ Cardinality(Incrementing(c)') \in Nat
      /\ Cardinality(Passing(c)') \in Nat
      /\ Cardinality(Calling(c)') <= Cardinality(Calling(c))
      /\ Cardinality(Incrementing(c)') <= Cardinality(Incrementing(c))
      /\ Cardinality(Passing(c)') <= Cardinality(Passing(c))
  BY <1>1, <1>2, <1>3, CallCounts
<1>7. /\ passed[c] + Cardinality(Calling(c)') <= arrived[c]
      /\ blind[c] + slow[c] + Cardinality(Incrementing(c)') <= arrived[c]
      /\ passed[c] + Cardinality(Passing(c)') <= Rps + blind[c] + slow[c]
      /\ Open(c) =>
             passed[c] + Cardinality(Passing(c)') <= redis'[c].count + blind[c] + slow[c]
      /\ redis'[c].count + Cardinality(Incrementing(c)') <= arrived[c] + faults'
  <2>1. /\ passed[c] + Cardinality(Calling(c)') <= arrived[c]
        /\ blind[c] + slow[c] + Cardinality(Incrementing(c)') <= arrived[c]
        /\ passed[c] + Cardinality(Passing(c)') <= Rps + blind[c] + slow[c]
    BY <1>6, CounterFacts
  <2>2. Open(c) =>
             passed[c] + Cardinality(Passing(c)') <= redis'[c].count + blind[c] + slow[c]
    BY <1>2, <1>4, <1>6, CounterFacts
  <2>3. redis'[c].count + Cardinality(Incrementing(c)') <= arrived[c] + faults'
    BY <1>1, <1>4, <1>6, CounterFacts
  <2>4. QED BY <2>1, <2>2, <2>3
<1>8. at'[w] = "expire" => val'[w] <= arrived[c] + faults'
  <2>1. at[w] = "expire" => val[w] \in Nat /\ val[w] <= arrived[c] + faults
    BY <1>2 DEF RedisInv, RedisTyped, Increments
  <2>2. QED BY <1>1, <1>3, <2>1, CounterFacts
<1>9. at'[w] # "refused"
  BY <1>2, <1>3
<1>10. QED BY <1>1, <1>2, <1>3, <1>4, <1>5, <1>7, <1>8, <1>9, CallStep

\* A counter ends no earlier than Life seconds after its own.
LEMMA RedisTick ==
    ASSUME RedisInv, Redis!Tick
    PROVE  RedisInv'
<1>1. /\ RedisTyped /\ now \in Nat /\ now < MaxTime /\ now' = now + 1
      /\ UNCHANGED <<at, val, attempt, faults, counter, arrived, passed, blind, slow>>
      /\ MaxTime \in Nat /\ Life \in Nat
  BY RedisNumbers DEF Redis!Tick, Redis!windowVars, Redis!historyVars, RedisInv, RedisTyped
<1>2. \A c \in Redis!Counters :
        redis'[c] = IF redis[c].exp \in 1 .. now + 1
                      THEN [count |-> 0, exp |-> 0] ELSE redis[c]
  BY DEF Redis!Tick, Redis!NoCounter
<1>3. RedisTyped'
  <2>1. redis' \in [Redis!Counters -> [count : Nat, exp : Nat]]
    BY <1>1 DEF Redis!Tick, Redis!NoCounter, RedisTyped
  <2>2. QED BY <1>1, <2>1 DEF RedisTyped
<1>4. Dated'
  <2>1. \A w \in Workers : counter[w][2] \in Nat
    BY <1>1 DEF RedisTyped, Redis!Counters
  <2>2. QED BY <1>1, <1>2, <2>1 DEF RedisInv, Dated
<1>5. \A c : /\ Calling(c)' = Calling(c) /\ Incrementing(c)' = Incrementing(c)
             /\ Passing(c)' = Passing(c)
  BY <1>1 DEF Calling, Incrementing, Passing, Redis!InFlight, Redis!Over
<1>6. ASSUME NEW c \in Redis!Counters, Open(c)'
      PROVE  Open(c) /\ redis'[c] = redis[c]
  <2>1. c[2] \in Nat /\ redis[c].exp \in Nat /\ (redis[c].exp # 0 => redis[c].exp >= c[2] + Life)
    BY <1>1 DEF RedisInv, Dated, RedisTyped, Redis!Counters
  <2>2. now + 1 < c[2] + Life
    BY <1>1, <1>6 DEF Open
  <2>3. redis[c].exp \notin 1 .. now + 1
    BY <1>1, <2>1, <2>2
  <2>4. Open(c)
    BY <1>1, <2>1, <2>2 DEF Open
  <2>5. QED BY <1>2, <2>3, <2>4
<1>7. ASSUME NEW c \in Redis!Counters
      PROVE  /\ redis'[c].count \in Nat /\ redis'[c].count <= redis[c].count
             /\ redis'[c].count > 0 /\ redis'[c].exp = 0 => redis'[c] = redis[c]
  BY <1>1, <1>2 DEF RedisTyped
<1>8. Arrived'
  BY <1>1, <1>5 DEF RedisInv, Arrived
<1>9. Quota'
  BY <1>1, <1>5, <1>6 DEF RedisInv, Quota
<1>10. Increments'
  <2>1. ASSUME NEW c \in Redis!Counters
        PROVE  redis'[c].count + Cardinality(Incrementing(c)') <= arrived[c] + faults
    BY <1>5, <1>7, CounterFacts
  <2>2. QED BY <1>1, <2>1 DEF RedisInv, Increments, Redis!Over
<1>11. Ended'
  <2>1. Left' \subseteq Left
    BY <1>1, <1>7 DEF Left, Redis!InFlight
  <2>2. IsFiniteSet(Left) /\ Cardinality(Left) <= faults
    BY DEF RedisInv, Ended
  <2>3. /\ IsFiniteSet(Left') /\ Cardinality(Left') <= Cardinality(Left)
        /\ Cardinality(Left') \in Nat /\ Cardinality(Left) \in Nat /\ faults \in Nat
    BY <1>1, <2>1, <2>2, FS_Subset, FS_CardinalityType DEF RedisTyped
  <2>4. QED BY <1>1, <2>2, <2>3 DEF Ended
<1>12. QED BY <1>3, <1>4, <1>8, <1>9, <1>10, <1>11 DEF RedisInv

LEMMA RedisStep ==
    ASSUME RedisInv, Redis!Next \/ UNCHANGED redisVars
    PROVE  RedisInv'
<1>1. ASSUME NEW w \in Workers, NEW k \in WindowKeys, Redis!Arrive(w, k) PROVE RedisInv'
  BY <1>1, RedisArrive
<1>2. ASSUME NEW w \in Workers, Redis!Replied(w) PROVE RedisInv'
  <2>1. /\ Redis!InFlight(w) /\ Redis!Execute(w) /\ attempt' \in [Workers -> {1, 2}]
        /\ UNCHANGED <<now, faults, counter, arrived, blind>>
        /\ faults' \in 0 .. MaxFaults /\ blind' \in [Redis!Counters -> Nat]
    BY <1>2 DEF Redis!Replied, Redis!windowVars, RedisInv, RedisTyped
  <2>2. redis[counter[w]].count + 1 \in Nat
    BY DEF RedisInv, RedisTyped
  <2>3. CASE /\ Redis!Counted(w, Redis!Incremented(w))
             /\ slow' = IF Redis!Late(w) THEN [slow EXCEPT ![counter[w]] = @ + 1] ELSE slow
    <3>1. slow' \in [Redis!Counters -> Nat]
      BY <2>3 DEF RedisInv, RedisTyped
    <3>2. QED BY <2>1, <2>2, <2>3, <3>1, RedisCounted DEF Redis!Incremented
  <2>4. CASE Redis!Decided(w) /\ UNCHANGED slow
    BY <2>1, <2>4, RedisDecided
  <2>5. QED BY <1>2, <2>3, <2>4 DEF Redis!Replied
<1>3. ASSUME NEW w \in Workers, Redis!GaveUp(w) PROVE RedisInv'
  <2>1. /\ (Redis!InFlight(w) /\ Redis!Execute(w)) \/ redis' = redis
        /\ UNCHANGED <<now, attempt, counter, arrived, slow>>
        /\ attempt' \in [Workers -> {1, 2}]
        /\ faults' = faults + 1 /\ faults' \in 0 .. MaxFaults
    <3>1. faults \in Nat /\ MaxFaults \in Nat
      BY RedisNumbers DEF RedisInv, RedisTyped
    <3>2. QED
      BY <1>3, <3>1 DEF Redis!GaveUp, Redis!Fault, Redis!windowVars, RedisInv, RedisTyped
  <2>2. CASE /\ Redis!Counted(w, Redis!WithoutReply)
             /\ blind' = [blind EXCEPT ![counter[w]] = @ + 1]
    <3>1. blind' \in [Redis!Counters -> Nat] /\ slow' \in [Redis!Counters -> Nat]
      BY <2>1, <2>2 DEF RedisInv, RedisTyped
    <3>2. QED BY <1>3, <2>1, <2>2, <3>1, RedisCounted DEF Redis!WithoutReply, Redis!GaveUp
  <2>3. CASE Redis!Decided(w) /\ UNCHANGED blind
    BY <1>3, <2>1, <2>3, RedisDecided DEF Redis!GaveUp
  <2>4. QED BY <1>3, <2>2, <2>3 DEF Redis!GaveUp
<1>4. ASSUME NEW w \in Workers, Redis!NoReply(w) \/ Redis!Throws(w) PROVE RedisInv'
  BY <1>4, RedisFailed
<1>5. CASE Redis!Tick
  BY <1>5, RedisTick
<1>6. CASE Redis!Rest \/ UNCHANGED redisVars
  <2>1. UNCHANGED <<now, at, counter, val, attempt, redis, faults, arrived, blind, slow, passed>>
    BY <1>6 DEF Redis!Rest, Redis!vars, Redis!historyVars, redisVars
  <2>2. \A c : /\ Calling(c)' = Calling(c) /\ Incrementing(c)' = Incrementing(c)
               /\ Passing(c)' = Passing(c) /\ (Open(c)' <=> Open(c))
    BY <2>1 DEF Calling, Incrementing, Passing, Open, Redis!InFlight, Redis!Over
  <2>3. RedisTyped' /\ Dated' /\ Arrived' /\ Quota'
    BY <2>1, <2>2 DEF RedisInv, RedisTyped, Dated, Arrived, Quota
  <2>4. Increments' /\ Ended'
    BY <2>1, <2>2 DEF RedisInv, Increments, Ended, Left, Redis!InFlight, Redis!Over
  <2>5. QED BY <2>3, <2>4 DEF RedisInv
<1>7. QED BY <1>1, <1>2, <1>3, <1>4, <1>5, <1>6 DEF Redis!Next

-----------------------------------------------------------------------------
\* Whichever limiter main has added, the inductive invariants of both hold in
\* every reachable state.
THEOREM Invariance == LimiterSpec => [](IInv /\ RedisInv)
<1>1. LimiterInit => IInv /\ RedisInv
  BY InvInit, RedisInit DEF LimiterInit
<1>2. ASSUME IInv, RedisInv, [Limit /\ UNCHANGED limiter]_<<vars, redisVars, limiter>>
      PROVE  IInv' /\ RedisInv'
  <2>1. Next \/ UNCHANGED vars
    BY <1>2 DEF Limit
  <2>2. Redis!Next \/ UNCHANGED redisVars
    BY <1>2 DEF Limit
  <2>3. QED BY <1>2, <2>1, <2>2, InvStep, RedisStep
<1>3. QED BY <1>1, <1>2, PTL DEF LimiterSpec

\* Every value the limiters keep has its type, and no bucket overflows burst_
\* (RateLimiter::allow, RateLimitRedis::before).
THEOREM TypeCorrect == LimiterSpec => [](TypeOK /\ Redis!TypeOK)
<1>1. IInv => TypeOK
  BY DEF IInv
<1>2. ASSUME RedisInv PROVE Redis!TypeOK
  <2>1. \A c \in Redis!Counters : passed[c] <= arrived[c] /\ blind[c] + slow[c] <= arrived[c]
    BY <1>2, CounterFacts
  <2>2. QED BY <1>2, <2>1 DEF RedisInv, RedisTyped, Redis!TypeOK
<1>3. QED BY <1>1, <1>2, Invariance, PTL

\* RateLimiter::allow admits, among the calls that begin in a window, no more
\* than a full bucket and the refill of the window, for every number of workers.
THEOREM WindowBounded == LimiterSpec => []WindowBound
<1>1. IInv => WindowBound
  BY DEF IInv
<1>2. QED BY <1>1, Invariance, PTL

\* RateLimiter::allow refuses only a call that follows another one of the same
\* key within the refill time of one token.
THEOREM RefusalsRecent == LimiterSpec => RefusedOnlyWhenRecent
<1>1. ASSUME IInv, Next,
             NEW w \in Workers, phase[w] = "waiting", phase'[w] = "refused"
      PROVE  Rate * (stamp[w] - latest[key[w]]) < Cost
  <2>1. ASSUME NEW v \in Workers, Refuse(v)
        PROVE  v = w
    BY <1>1, <2>1 DEF Refuse, IInv, TypeOK
  <2>2. CASE \E v \in Workers : Refuse(v)
    BY <1>1, <2>1, <2>2, InvRefuse
  <2>3. ~ \E v \in Workers : Admit(v)
    BY <1>1 DEF Admit, IInv, TypeOK
  <2>4. ~ \E v \in Workers, k \in Keys : ReadClock(v, k)
    BY <1>1 DEF ReadClock, IInv, TypeOK
  <2>5. ~Tick /\ ~StartWindow
    BY <1>1 DEF Tick, StartWindow, limiterVars
  <2>6. QED BY <1>1, <2>2, <2>3, <2>4, <2>5 DEF Next
<1>2. IInv /\ [Limit /\ UNCHANGED limiter]_<<vars, redisVars, limiter>> =>
         [\A w \in Workers :
            phase[w] = "waiting" /\ phase'[w] = "refused"
                => Rate * (stamp[w] - latest[key[w]]) < Cost]_vars
  <2> SUFFICES ASSUME IInv, Next,
                      NEW w \in Workers, phase[w] = "waiting", phase'[w] = "refused"
               PROVE  Rate * (stamp[w] - latest[key[w]]) < Cost
    BY DEF Limit
  <2>1. QED BY <1>1
<1>3. QED BY <1>2, Invariance, PTL DEF LimiterSpec, RefusedOnlyWhenRecent

\* RateLimitRedis::before lets no more than rps_ requests of a client and
\* second through, but for those whose INCR brought no reply and those whose
\* INCR came Life seconds or more after they had read the clock: until then the
\* counter cannot have ended and holds one for each of the others let through.
THEOREM AdmissionsBounded == LimiterSpec => []AdmittedPerSecond
<1>1. ASSUME RedisInv, NEW c \in Redis!Counters PROVE passed[c] <= Rps + blind[c] + slow[c]
  BY <1>1, CounterFacts
<1>2. RedisInv => AdmittedPerSecond
  BY <1>1 DEF AdmittedPerSecond, Redis!AdmittedPerSecond
<1>3. QED BY <1>2, Invariance, PTL

\* RateLimitRedis::before refuses only a client that has sent more than rps_
\* requests in its second, each failure counting for one more: a counter holds
\* no more than that.
THEOREM RefusalsDeserved == LimiterSpec => []RefusedOverLimit
<1>1. ASSUME RedisInv, NEW w \in Workers, at[w] = "refused"
      PROVE  arrived[counter[w]] + faults > Rps
  <2>1. val[w] > Rps /\ val[w] <= arrived[counter[w]] + faults
    BY <1>1 DEF RedisInv, Increments, Redis!Over
  <2>2. val[w] \in Nat /\ Rps \in Nat /\ arrived[counter[w]] + faults \in Nat
    BY <1>1, RedisNumbers DEF RedisInv, RedisTyped
  <2>3. QED BY <2>1, <2>2
<1>2. RedisInv => RefusedOverLimit
  BY <1>1 DEF RefusedOverLimit, Redis!RefusedOverLimit
<1>3. QED BY <1>2, Invariance, PTL

\* RateLimitRedis::before leaves no counter in Redis for good, but for one per
\* failure: the last request that uses it has given it an expiry.
THEOREM NoCounterStays == LimiterSpec => []CountersEnd
<1>1. RedisInv => Cardinality(Left) <= faults
  BY DEF RedisInv, Ended
<1>2. RedisInv => CountersEnd
  BY <1>1 DEF CountersEnd, Redis!CountersEnd, Left, Redis!Cardinality, Cardinality
<1>3. QED BY <1>2, Invariance, PTL
=============================================================================
