--------------------------- MODULE SessionsProofs ---------------------------
(* Theorems about Sessions, for all values of its constants.               *)
EXTENDS Sessions, FiniteSetTheorems, TLAPS

Made == 1 .. made
IdOf(o) == session[o].id
Places == {"idle", "load", "erase", "check", "draw", "drawing", "refresh", "save", "use"}

\* Who is where in a request, and what it has there.
Placed(w) ==
    /\ at[w] # "idle" => client[w] \in Clients
    /\ at[w] \in {"load", "erase", "check", "drawing"} => id[w] \in Ids
    /\ at[w] = "drawing" => id[w] <= made + 1
    /\ (held[w] # None) <=> (at[w] \in {"check", "refresh", "save", "use"})
    /\ held[w] # None => held[w] \in Made
    /\ at[w] = "check" => IdOf(held[w]) = id[w]

\* What TypeOK leaves out; no session expires later than maxAge_ from now.
Typed ==
    /\ TypeOK
    /\ at \in [Workers -> Places] /\ client \in [Workers -> Clients \cup {None}]
    /\ id \in [Workers -> Ids \cup {None}]
    /\ lastUse \in [Clients -> Nat] /\ doubtful \subseteq Ids /\ destroyed \subseteq Ids
    /\ \A w \in Workers : Placed(w)
    /\ \A i \in Ids : sessions[i] # None => sessions[i] \in Made
    /\ \A o \in Made : IdOf(o) \in Ids
    /\ \A o \in Objects : session[o].expiry <= now + MaxAge

\* The generator has gone past every id in use, but for those that were
\* generated at once; whoever generates an id that is not one of them is alone.
Generator ==
    /\ rng <= made + 1
    /\ made + Cardinality(Drawing) <= MaxSessions
    /\ \A o \in Made : IdOf(o) \notin doubtful =>
          IdOf(o) < rng /\ \A v \in Drawing : IdOf(o) < id[v]
    /\ \A v \in Drawing : id[v] \notin doubtful => \A u \in Drawing : u = v

\* A client has to do with id i: by its cookie, by a request of it that looks
\* for the session i or has it, or by a value that it has put there.
ByCookie(i, c) == cookie[c] = i
ByRequest(i, c) ==
    \E w \in Workers :
        /\ at[w] # "idle" /\ client[w] = c
        /\ \/ at[w] \in {"load", "erase", "check"} /\ id[w] = i
           \/ held[w] # None /\ IdOf(held[w]) = i
ByData(i, c) == \E o \in Made : IdOf(o) = i /\ c \in session[o].data
Claims(i, c) == ByCookie(i, c) \/ ByRequest(i, c) \/ ByData(i, c)

Taken(i) == \E o \in Made : IdOf(o) = i

\* Only one client has to do with an id, and only with one that a session has.
Owned ==
    /\ \A i \in Ids, c \in Clients : Claims(i, c) => Taken(i)
    /\ \A i \in Ids \ doubtful, c, d \in Clients : Claims(i, c) /\ Claims(i, d) => c = d
    /\ \A i \in destroyed : i \in Ids /\ Taken(i)

\* Whoever has a destroyed session had it when it was destroyed.
Survivors ==
    \A w \in Workers :
        held[w] # None /\ IdOf(held[w]) \in destroyed \ doubtful => held[w] \in inUse

\* Two requests of one client at once have been noted.
Solo ==
    \A v, w \in Workers :
        at[v] # "idle" /\ at[w] # "idle" /\ client[v] = client[w] /\ v # w
            => client[w] \in overlapped

\* The session with id i is stored and outlives the last use of client c, unless
\* it was destroyed or generated at once with another.
Excused(i) == i \in destroyed \cup doubtful
Outlives(o, c) == session[o].expiry >= lastUse[c] + MaxAge
Kept(i, c) == Excused(i) \/ (sessions[i] # None /\ Outlives(sessions[i], c))

\* What a request finds, from its place on, of the session of a client that
\* sends one at a time,
KeptFor(w) ==
    LET c == client[w] IN
    at[w] # "idle" /\ c \notin overlapped =>
        /\ at[w] \in {"load", "erase", "check"} => cookie[c] = id[w]
        /\ at[w] = "load" => Kept(id[w], c)
        /\ at[w] = "erase" => Excused(id[w]) \/ now > lastUse[c] + MaxAge
        /\ at[w] = "check" => Excused(id[w]) \/ Outlives(held[w], c)
        /\ at[w] \in {"refresh", "save", "use"} /\ id[w] = None => cookie[c] = IdOf(held[w])
        /\ at[w] \in {"save", "use"} => Outlives(held[w], c)
        /\ at[w] = "use" => Kept(IdOf(held[w]), c)

\* and what its next request will find.
KeptBetween ==
    \A c \in Clients \ overlapped :
        /\ cookie[c] # None
        /\ \A w \in Workers : at[w] # "idle" => client[w] # c
        => Kept(cookie[c], c)

IInv ==
    /\ Typed
    /\ Generator
    /\ Owned
    /\ NotRevived /\ Survivors
    /\ Solo /\ KeptBetween /\ \A w \in Workers : KeptFor(w)

-----------------------------------------------------------------------------
\* The numbers.
LEMMA Basics ==
    ASSUME Typed
    PROVE  /\ MaxAge \in Nat /\ MaxSessions \in Nat /\ MaxTime \in Nat
           /\ now \in Nat /\ made \in Nat /\ made <= MaxSessions /\ rng \in Nat
           /\ Made \subseteq Objects /\ Ids = Objects /\ None \notin Objects
           /\ \A o \in Objects : session[o].expiry \in Nat
BY SessionAssumption DEF SessionAssumption, Typed, TypeOK, Made, Objects, Ids, None

\* A step of worker w, for client c, leaves the other workers where they are.
OnlyWorker(w) ==
    \A v \in Workers \ {w} :
        at'[v] = at[v] /\ client'[v] = client[v] /\ id'[v] = id[v] /\ held'[v] = held[v]

\* How a step of worker w for client c may change what others see: it notes
\* when c has two requests, touches only what c has to do with, and never lets
\* a session expire earlier.
Moves(w, c) ==
    /\ at[w] # "idle" => client[w] = c
    /\ at'[w] # "idle" => client'[w] = c
    /\ at[w] = "idle" => ((\E v \in Busy : client[v] = c) => c \in overlapped')
    /\ OnlyWorker(w)
    /\ now' = now /\ made \in Nat /\ made' \in Nat /\ made <= made'
    /\ \A d \in Clients \ {c} : cookie'[d] = cookie[d] /\ lastUse'[d] = lastUse[d]
    /\ cookie'[c] = cookie[c] \/ (\E i \in Ids : cookie'[c] = i /\ Claims(i, c))
    /\ \A o \in Made : /\ session'[o].id = session[o].id
                       /\ session'[o].expiry >= session[o].expiry
                       /\ \A x \in session'[o].data :
                             x \in session[o].data \/ (x = c /\ Claims(IdOf(o), c))
    /\ \A i \in Ids : sessions'[i] = sessions[i] \/ Claims(i, c)
    /\ doubtful \subseteq doubtful' /\ destroyed \subseteq destroyed'
    /\ overlapped \subseteq overlapped' /\ inUse \subseteq inUse'

\* What worker w has to do with afterwards its client had to do with before.
NothingNew(w, c) ==
    /\ made' = made
    /\ \A i \in Ids :
          \/ at'[w] \in {"load", "erase", "check"} /\ id'[w] = i
          \/ held'[w] # None /\ session'[held'[w]].id = i
          => Claims(i, c)
    /\ \A i \in destroyed' : i \in destroyed \/ (i \in Ids /\ Taken(i))

\* Then only one client has to do with an id, as before.
LEMMA OwnedStep ==
    ASSUME Typed, Typed', Owned, NEW w \in Workers, NEW c \in Clients,
           Moves(w, c), NothingNew(w, c)
    PROVE  Owned'
<1>1. Made' = Made /\ \A o \in Made : IdOf(o)' = IdOf(o)
  BY DEF NothingNew, Moves, Made, IdOf
<1>2. \A i \in Ids : Taken(i)' <=> Taken(i)
  BY <1>1 DEF Taken
<1>3. ASSUME NEW i \in Ids, NEW d \in Clients, Claims(i, d)' PROVE Claims(i, d)
  <2>1. CASE ByCookie(i, d)'
    <3>1. CASE cookie'[d] = cookie[d]
      BY <2>1, <3>1 DEF ByCookie, Claims
    <3>2. CASE cookie'[d] # cookie[d]
      BY <2>1, <3>2 DEF ByCookie, Moves
    <3>3. QED BY <3>1, <3>2
  <2>2. CASE ByRequest(i, d)'
    <3>1. PICK v \in Workers :
            /\ at'[v] # "idle" /\ client'[v] = d
            /\ \/ at'[v] \in {"load", "erase", "check"} /\ id'[v] = i
               \/ held'[v] # None /\ session'[held'[v]].id = i
      BY <2>2 DEF ByRequest, IdOf
    <3>2. CASE v = w
      BY <3>1, <3>2 DEF Moves, NothingNew
    <3>3. CASE v # w
      <4>1. at'[v] = at[v] /\ client'[v] = client[v] /\ id'[v] = id[v] /\ held'[v] = held[v]
        BY <3>3 DEF Moves, OnlyWorker
      <4>2. held[v] # None => held[v] \in Made
        BY DEF Typed, Placed
      <4>3. QED BY <1>1, <3>1, <4>1, <4>2 DEF Claims, ByRequest, IdOf
    <3>4. QED BY <3>2, <3>3
  <2>3. CASE ByData(i, d)'
    <3>1. PICK o \in Made : IdOf(o) = i /\ d \in session'[o].data
      BY <1>1, <2>3 DEF ByData
    <3>2. d \in session[o].data \/ (d = c /\ Claims(IdOf(o), c))
      BY <3>1 DEF Moves
    <3>3. QED BY <3>1, <3>2 DEF Claims, ByData
  <2>4. QED BY <1>3, <2>1, <2>2, <2>3 DEF Claims
<1>4. \A i \in Ids, d \in Clients : Claims(i, d)' => Taken(i)'
  BY <1>2, <1>3 DEF Owned
<1>5. ASSUME NEW i \in Ids \ doubtful', NEW d \in Clients, NEW e \in Clients,
             Claims(i, d)', Claims(i, e)'
      PROVE  d = e
  <2>1. i \in Ids \ doubtful
    BY DEF Moves
  <2>2. QED BY <1>3, <1>5, <2>1 DEF Owned
<1>6. \A i \in destroyed' : i \in Ids /\ Taken(i)'
  BY <1>2 DEF Owned, NothingNew
<1>7. Ids' = Ids
  BY DEF Ids
<1>8. QED BY <1>4, <1>5, <1>6 DEF Owned

\* What the clients of the other workers, and those without a request, will
\* find stays as it was.
LEMMA OthersKept ==
    ASSUME IInv, Typed', NEW w \in Workers, NEW c \in Clients, Moves(w, c)
    PROVE  /\ Solo'
           /\ \A v \in Workers \ {w} : KeptFor(v)'
           /\ \A d \in Clients \ overlapped' :
                 /\ d # c /\ cookie'[d] # None
                 /\ \A v \in Workers : at'[v] # "idle" => client'[v] # d
                 => Kept(cookie[d], d)' /\ cookie'[d] = cookie[d]
<1>1. /\ MaxAge \in Nat /\ now \in Nat /\ now' = now
      /\ \A o \in Made : /\ session[o].expiry \in Nat /\ session'[o].expiry \in Nat
                         /\ session'[o].expiry >= session[o].expiry
      /\ \A d \in Clients : lastUse[d] \in Nat /\ (d # c => lastUse'[d] = lastUse[d])
  <2>1. Typed
    BY DEF IInv
  <2>2. \A o \in Objects : session'[o].expiry \in Nat
    BY DEF Typed, TypeOK
  <2>3. QED BY <2>1, <2>2, Basics DEF Moves, Typed
<1>2. ASSUME NEW o \in Made, NEW d \in Clients \ {c}, Outlives(o, d)
      PROVE  Outlives(o, d)'
  BY <1>1, <1>2 DEF Outlives
<1>3. \A i : Excused(i) => Excused(i)'
  BY DEF Moves, Excused
<1>4. ASSUME NEW i \in Ids, NEW d \in Clients \ {c}, Claims(i, d), Kept(i, d)
      PROVE  Kept(i, d)'
  <2>1. CASE Excused(i)
    BY <1>3, <2>1 DEF Kept
  <2>2. CASE ~Excused(i)
    <3>1. ~Claims(i, c)
      BY <1>4, <2>2 DEF Excused, IInv, Owned
    <3>2. sessions'[i] = sessions[i] /\ sessions[i] # None /\ sessions[i] \in Made
      BY <1>4, <2>2, <3>1 DEF Moves, Kept, IInv, Typed
    <3>3. Outlives(sessions[i], d)
      BY <1>4, <2>2 DEF Kept
    <3>4. Outlives(sessions[i], d)'
      BY <1>1, <3>2, <3>3 DEF Outlives
    <3>5. QED BY <3>2, <3>4 DEF Kept
  <2>3. QED BY <2>1, <2>2
<1>5. \A v \in Workers \ {w} :
        at'[v] = at[v] /\ client'[v] = client[v] /\ id'[v] = id[v] /\ held'[v] = held[v]
  BY DEF Moves, OnlyWorker
<1>6. ASSUME NEW v \in Workers \ {w}, at[v] # "idle", client[v] = c PROVE c \in overlapped'
  BY <1>6 DEF IInv, Solo, Moves, Busy
<1>7. Solo'
  <2> SUFFICES ASSUME NEW v \in Workers, NEW u \in Workers, v # u,
                      at'[v] # "idle", at'[u] # "idle", client'[v] = client'[u]
               PROVE  client'[u] \in overlapped'
    BY DEF Solo
  <2>1. CASE v # w /\ u # w
    BY <1>5, <2>1 DEF IInv, Solo, Moves
  <2>2. CASE v = w \/ u = w
    BY <1>5, <1>6, <2>2 DEF Moves
  <2>3. QED BY <2>1, <2>2
<1>8. ASSUME NEW v \in Workers \ {w} PROVE KeptFor(v)'
  <2> SUFFICES ASSUME at[v] # "idle", NEW d \in Clients, d = client[v], d \notin overlapped',
                      NEW i, i = id[v], NEW o, o = held[v], NEW j, j = IdOf(o)
               PROVE  /\ at[v] \in {"load", "erase", "check"} => cookie'[d] = i
                      /\ at[v] = "load" => Kept(i, d)'
                      /\ at[v] = "erase" => Excused(i)' \/ now' > lastUse'[d] + MaxAge
                      /\ at[v] = "check" => Excused(i)' \/ Outlives(o, d)'
                      /\ at[v] \in {"refresh", "save", "use"} /\ i = None => cookie'[d] = j
                      /\ at[v] \in {"save", "use"} => Outlives(o, d)'
                      /\ at[v] = "use" => Kept(j, d)'
    <3>1. client[v] \in Clients \/ at[v] = "idle"
      BY DEF IInv, Typed, Placed
    <3>2. /\ at[v] \in {"check", "refresh", "save", "use"} => held[v] \in Made
          /\ \A o \in Made : session'[o].id = session[o].id
      BY DEF IInv, Typed, Placed, Moves
    <3>3. at[v] \in {"check", "refresh", "save", "use"} => IdOf(held[v])' = IdOf(held[v])
      BY <1>5, <3>2 DEF IdOf
    <3>4. QED BY <1>5, <3>1, <3>3 DEF KeptFor, Kept, Excused, Outlives
  <2>1. d # c /\ d \notin overlapped
    BY <1>6 DEF Moves
  <2>2. cookie'[d] = cookie[d] /\ lastUse'[d] = lastUse[d]
    BY <2>1 DEF Moves
  <2>3. /\ at[v] \in {"load", "erase", "check"} => cookie[d] = i
        /\ at[v] = "load" => Kept(i, d)
        /\ at[v] = "erase" => Excused(i) \/ now > lastUse[d] + MaxAge
        /\ at[v] = "check" => Excused(i) \/ Outlives(o, d)
        /\ at[v] \in {"refresh", "save", "use"} /\ i = None => cookie[d] = j
        /\ at[v] \in {"save", "use"} => Outlives(o, d)
        /\ at[v] = "use" => Kept(j, d)
    BY <2>1 DEF IInv, KeptFor
  <2>4. /\ at[v] \in {"check", "refresh", "save", "use"} => o # None /\ o \in Made /\ j \in Ids
        /\ at[v] = "load" => i \in Ids
    BY DEF IInv, Typed, Placed
  <2>5. at[v] = "load" => Kept(i, d)'
    BY <1>4, <2>1, <2>3, <2>4 DEF Claims, ByRequest
  <2>6. at[v] = "use" => Kept(j, d)'
    BY <1>4, <2>1, <2>3, <2>4 DEF Claims, ByRequest
  <2>7. at[v] \in {"check", "save", "use"} /\ Outlives(o, d) => Outlives(o, d)'
    BY <1>2, <2>1, <2>4
  <2>8. QED BY <1>1, <1>3, <2>2, <2>3, <2>5, <2>6, <2>7
<1>9. ASSUME NEW d \in Clients \ overlapped', d # c, cookie'[d] # None,
             \A v \in Workers : at'[v] # "idle" => client'[v] # d
      PROVE  Kept(cookie[d], d)' /\ cookie'[d] = cookie[d]
  <2>1. cookie'[d] = cookie[d] /\ d \notin overlapped
    BY <1>9 DEF Moves
  <2>2. \A v \in Workers : at[v] # "idle" => client[v] # d
    BY <1>5, <1>9 DEF Moves
  <2>3. Kept(cookie[d], d)
    BY <1>9, <2>1, <2>2 DEF IInv, KeptBetween
  <2>4. PICK i \in Ids : i = cookie[d]
    BY <1>9, <2>1 DEF IInv, Typed, TypeOK
  <2>5. Claims(i, d)
    BY <2>4 DEF Claims, ByCookie
  <2>6. Kept(i, d)'
    BY <1>4, <1>9, <2>3, <2>4, <2>5
  <2>7. QED BY <2>1, <2>4, <2>6
<1>10. QED BY <1>7, <1>8, <1>9

\* Nothing that was destroyed comes back but by those who had it then.
LEMMA RevivalStep ==
    ASSUME IInv, Typed', NEW w \in Workers, NEW c \in Clients, Moves(w, c),
           destroyed' = destroyed,
           \A i \in Ids : sessions'[i] # None =>
               \/ sessions'[i] = sessions[i]
               \/ held[w] # None /\ sessions'[i] = held[w] /\ IdOf(held[w]) = i,
           held'[w] # None =>
               held'[w] = held[w] \/ (held'[w] \in Made /\ held'[w] = sessions[IdOf(held'[w])])
    PROVE  NotRevived' /\ Survivors'
<1>1. doubtful \subseteq doubtful' /\ inUse \subseteq inUse' /\ destroyed \subseteq Ids
  BY DEF Moves, IInv, Typed
<1>2. \A o \in Made : session'[o].id = IdOf(o) /\ IdOf(o) \in Ids
  BY DEF Moves, IdOf, IInv, Typed
<1>3. ASSUME NEW i \in destroyed \ doubtful', sessions'[i] # None PROVE sessions'[i] \in inUse'
  <2>1. i \in Ids /\ i \in destroyed \ doubtful
    BY <1>1
  <2>2. CASE sessions'[i] = sessions[i]
    BY <1>1, <1>3, <2>1, <2>2 DEF IInv, NotRevived
  <2>3. CASE held[w] # None /\ sessions'[i] = held[w] /\ IdOf(held[w]) = i
    BY <1>1, <2>1, <2>3 DEF IInv, Survivors
  <2>4. QED BY <1>3, <2>1, <2>2, <2>3
<1>4. ASSUME NEW v \in Workers, held'[v] # None, session'[held'[v]].id \in destroyed \ doubtful'
      PROVE  held'[v] \in inUse'
  <2>1. CASE held'[v] = held[v]
    <3>1. held[v] \in Made /\ IdOf(held[v]) \in destroyed \ doubtful
      BY <1>1, <1>2, <1>4, <2>1 DEF IInv, Typed, Placed
    <3>2. QED BY <1>1, <1>4, <2>1, <3>1 DEF IInv, Survivors
  <2>2. CASE v = w /\ held'[w] \in Made /\ held'[w] = sessions[IdOf(held'[w])]
    <3>1. PICK o \in Made : o = held'[w]
      BY <2>2
    <3>2. IdOf(o) \in destroyed \ doubtful /\ sessions[IdOf(o)] = o /\ o # None
      BY <1>1, <1>2, <1>4, <2>2, <3>1
    <3>3. QED BY <1>1, <2>2, <3>1, <3>2 DEF IInv, NotRevived
  <2>3. QED BY <1>4, <2>1, <2>2 DEF Moves, OnlyWorker
<1>5. QED BY <1>3, <1>4 DEF NotRevived, Survivors, IdOf

\* A step that generates no id keeps what is known of the generator.
LEMMA GeneratorStays ==
    ASSUME Typed, Generator, rng' = rng, made' = made, doubtful' = doubtful,
           \A o \in Made : session'[o].id = session[o].id,
           \A v \in Workers : /\ at'[v] = "drawing" <=> at[v] = "drawing"
                              /\ at[v] = "drawing" => id'[v] = id[v]
    PROVE  Generator'
<1>1. Drawing' = Drawing /\ \A v \in Drawing : id'[v] = id[v]
  BY DEF Drawing
<1>2. Made' = Made /\ \A o \in Made : IdOf(o)' = IdOf(o)
  BY DEF Made, IdOf
<1>3. QED BY <1>1, <1>2 DEF Generator

\* What a step of worker w for client c has to keep by itself, if it generates
\* no id and destroys nothing.
LEMMA InvOrdinary ==
    ASSUME IInv, Typed', NEW w \in Workers, NEW c \in Clients,
           Moves(w, c), NothingNew(w, c),
           UNCHANGED <<rng, doubtful, destroyed>>,
           at'[w] = "drawing" <=> at[w] = "drawing",
           at[w] = "drawing" => id'[w] = id[w],
           \A i \in Ids : sessions'[i] # None =>
               \/ sessions'[i] = sessions[i]
               \/ held[w] # None /\ sessions'[i] = held[w] /\ IdOf(held[w]) = i,
           held'[w] # None =>
               held'[w] = held[w] \/ (held'[w] \in Made /\ held'[w] = sessions[IdOf(held'[w])]),
           KeptFor(w)',
           at'[w] = "idle" /\ c \notin overlapped' /\ cookie'[c] # None => Kept(cookie[c], c)'
    PROVE  IInv'
<1>1. Typed /\ Generator /\ Owned
  BY DEF IInv
<1>2. Owned'
  BY <1>1, OwnedStep
<1>3. NotRevived' /\ Survivors'
  BY RevivalStep
<1>4. Generator'
  <2>1. \A v \in Workers : /\ at'[v] = "drawing" <=> at[v] = "drawing"
                           /\ at[v] = "drawing" => id'[v] = id[v]
    BY DEF Moves, OnlyWorker
  <2>2. made' = made /\ \A o \in Made : session'[o].id = session[o].id
    BY DEF Moves, NothingNew
  <2>3. QED BY <1>1, <2>1, <2>2, GeneratorStays
<1>5. /\ Solo'
      /\ \A v \in Workers \ {w} : KeptFor(v)'
      /\ \A d \in Clients \ overlapped' :
            /\ d # c /\ cookie'[d] # None
            /\ \A v \in Workers : at'[v] # "idle" => client'[v] # d
            => Kept(cookie[d], d)'
  BY OthersKept
<1>6. KeptBetween'
  <2> SUFFICES ASSUME NEW d \in Clients \ overlapped', cookie'[d] # None,
                      \A v \in Workers : at'[v] # "idle" => client'[v] # d
               PROVE  Kept(cookie[d], d)'
    BY DEF KeptBetween
  <2>1. CASE d = c
    BY <2>1 DEF Moves
  <2>2. CASE d # c
    BY <1>5, <2>2
  <2>3. QED BY <2>1, <2>2
<1>7. \A v \in Workers : KeptFor(v)'
  BY <1>5
<1>8. QED BY <1>2, <1>3, <1>4, <1>5, <1>6, <1>7 DEF IInv

-----------------------------------------------------------------------------
\* The invariant holds initially.
LEMMA InvInit == Init => IInv
<1> SUFFICES ASSUME Init PROVE IInv
  OBVIOUS
<1>1. /\ MaxAge \in Nat /\ MaxSessions \in Nat /\ MaxTime \in Nat /\ IsFiniteSet(Workers)
      /\ made = 0 /\ now = 0 /\ rng = 1
  BY SessionAssumption DEF SessionAssumption, Init
<1>2. Made = {} /\ Drawing = {}
  BY <1>1 DEF Init, Made, Drawing
<1>3. TypeOK
  BY <1>1 DEF Init, TypeOK, Objects, Ids, None
<1>4. Typed
  BY <1>1, <1>2, <1>3 DEF Init, Typed, Placed, Places, Objects, Ids, None
<1>5. Generator
  BY <1>1, <1>2, FS_EmptySet DEF Generator
<1>6. Owned
  BY <1>2 DEF Init, Owned, Claims, ByCookie, ByRequest, ByData, Taken, Ids, None
<1>7. NotRevived /\ Survivors /\ Solo /\ KeptBetween
  BY DEF Init, NotRevived, Survivors, Solo, KeptBetween
<1>8. \A w \in Workers : KeptFor(w)
  BY DEF Init, KeptFor
<1>9. QED BY <1>4, <1>5, <1>6, <1>7, <1>8 DEF IInv

\* A request begins with the cookie of its client.
LEMMA InvRequest ==
    ASSUME IInv, NEW w \in Workers, NEW c \in Clients, Request(w, c)
    PROVE  IInv'
<1>1. Typed
  BY DEF IInv
<1>2. /\ at[w] = "idle" /\ held[w] = None /\ cookie[c] \in Ids \cup {None} /\ None \notin Ids
      /\ at'[w] = IF cookie[c] = None THEN "draw" ELSE "load"
      /\ client'[w] = c /\ id'[w] = cookie[c]
      /\ UNCHANGED <<now, rng, made, session, sessions, cookie, held,
                     doubtful, lastUse, destroyed, inUse>>
      /\ overlapped \subseteq overlapped'
      /\ (\E v \in Busy : client[v] = c) => c \in overlapped'
  <2>1. at[w] = "idle" /\ held[w] = None
    BY <1>1 DEF Request, Typed, Placed
  <2>2. cookie[c] \in Ids \cup {None} /\ None \notin Ids
    BY <1>1 DEF Typed, TypeOK, Ids, None
  <2>3. /\ at'[w] = IF cookie[c] = None THEN "draw" ELSE "load"
        /\ client'[w] = c /\ id'[w] = cookie[c]
    BY <1>1 DEF Request, Goto, Typed
  <2>4. /\ overlapped \subseteq overlapped'
        /\ (\E v \in Busy : client[v] = c) => c \in overlapped'
    BY DEF Request
  <2>5. QED BY <2>1, <2>2, <2>3, <2>4 DEF Request
<1>3. OnlyWorker(w)
  BY <1>2 DEF Request, Goto, OnlyWorker, Typed
<1>4. Typed'
  <2>1. /\ at' \in [Workers -> Places] /\ client' \in [Workers -> Clients \cup {None}]
        /\ id' \in [Workers -> Ids \cup {None}]
    BY <1>1, <1>2 DEF Request, Goto, Typed, Places
  <2>2. ASSUME NEW v \in Workers PROVE Placed(v)'
    BY <1>1, <1>2, <1>3 DEF OnlyWorker, Typed, Placed, Made, IdOf
  <2>3. TypeOK'
    BY <1>1, <1>2 DEF Typed, TypeOK
  <2>4. QED BY <1>1, <1>2, <2>1, <2>2, <2>3 DEF Typed, Made, IdOf
<1>5. Moves(w, c)
  BY <1>1, <1>2, <1>3, Basics DEF Moves, Typed
<1>6. NothingNew(w, c)
  BY <1>2 DEF NothingNew, Claims, ByCookie
<1>7. KeptFor(w)'
  <2> SUFFICES ASSUME cookie[c] # None, c \notin overlapped'
               PROVE  Kept(cookie[c], c)'
    BY <1>2 DEF KeptFor, Kept, Excused, Outlives
  <2>1. \A v \in Workers : at[v] # "idle" => client[v] # c
    BY <1>2 DEF Busy
  <2>2. Kept(cookie[c], c)
    BY <1>2, <2>1 DEF IInv, KeptBetween
  <2>3. QED BY <1>2, <2>2 DEF Kept, Excused, Outlives
<1>8. QED BY <1>1, <1>2, <1>4, <1>5, <1>6, <1>7, InvOrdinary

\* load: the session is found live, found expired, or not found.
LEMMA InvLoad ==
    ASSUME IInv, NEW w \in Workers, Load(w)
    PROVE  IInv'
<1>1. Typed
  BY DEF IInv
<1>2. PICK i \in Ids, c \in Clients, o \in Made \cup {None} :
          id[w] = i /\ client[w] = c /\ sessions[i] = o
  BY <1>1 DEF Load, Typed, TypeOK, Placed
<1>3. /\ at[w] = "load" /\ held[w] = None /\ None \notin Made /\ Made \subseteq Objects
      /\ UNCHANGED <<now, rng, made, session, sessions, cookie, requests, client, id, historyVars>>
      /\ o # None => IdOf(o) = i
  <2>1. at[w] = "load" /\ held[w] = None
    BY <1>1 DEF Load, Typed, Placed
  <2>2. None \notin Made /\ Made \subseteq Objects
    BY <1>1, Basics
  <2>3. o # None => IdOf(o) = i
    BY <1>1, <1>2 DEF Typed, TypeOK, IdOf
  <2>4. QED BY <2>1, <2>2, <2>3 DEF Load
<1>4. /\ \/ o # None /\ ~IsExpired(o) /\ at'[w] = "check" /\ held'[w] = o
         \/ o # None /\ IsExpired(o) /\ at'[w] = "erase" /\ held'[w] = None
         \/ o = None /\ at'[w] = "draw" /\ held'[w] = None
      /\ \A v \in Workers \ {w} : at'[v] = at[v] /\ held'[v] = held[v]
      /\ at' \in [Workers -> Places] /\ held' \in [Workers -> Objects \cup {None}]
  BY <1>1, <1>2, <1>3 DEF Load, Goto, Typed, TypeOK, Places
<1>5. OnlyWorker(w)
  BY <1>3, <1>4 DEF OnlyWorker
<1>6. Typed'
  <2>1. ASSUME NEW v \in Workers PROVE Placed(v)'
    BY <1>1, <1>2, <1>3, <1>4, <2>1 DEF Typed, Placed, Made, IdOf
  <2>2. TypeOK'
    BY <1>1, <1>3, <1>4 DEF historyVars, Typed, TypeOK
  <2>3. QED BY <1>1, <1>3, <1>4, <2>1, <2>2 DEF historyVars, Typed, Made, IdOf
<1>7. Moves(w, c)
  BY <1>1, <1>2, <1>3, <1>5, Basics DEF historyVars, Moves, Typed
<1>8. NothingNew(w, c)
  BY <1>2, <1>3, <1>4 DEF historyVars, NothingNew, Claims, ByRequest, IdOf
<1>9. KeptFor(w)'
  <2> SUFFICES ASSUME c \notin overlapped
               PROVE  /\ cookie[c] = i
                      /\ at'[w] = "erase" => Excused(i) \/ now > lastUse[c] + MaxAge
                      /\ at'[w] = "check" => Excused(i) \/ Outlives(o, c)
    BY <1>2, <1>3, <1>4 DEF historyVars, KeptFor, Excused, Outlives
  <2>1. cookie[c] = i /\ Kept(i, c)
    BY <1>2, <1>3 DEF IInv, KeptFor
  <2>2. Excused(i) \/ (o # None /\ session[o].expiry >= lastUse[c] + MaxAge)
    BY <1>2, <2>1 DEF Kept, Outlives
  <2>3. o # None => session[o].expiry \in Nat
    BY <1>1, <1>3, Basics
  <2>4. lastUse[c] \in Nat /\ now \in Nat /\ MaxAge \in Nat
    BY <1>1, Basics DEF Typed
  <2>5. o # None /\ IsExpired(o) => Excused(i) \/ now > lastUse[c] + MaxAge
    BY <2>2, <2>3, <2>4 DEF IsExpired
  <2>6. QED BY <1>4, <2>1, <2>2, <2>5 DEF Outlives
<1>10. /\ held'[w] # None => held'[w] \in Made /\ held'[w] = sessions[IdOf(held'[w])]
       /\ at'[w] \notin {"drawing", "idle"}
       /\ UNCHANGED <<rng, doubtful, destroyed, sessions>>
  BY <1>2, <1>3, <1>4 DEF historyVars
<1>11. QED BY <1>3, <1>6, <1>7, <1>8, <1>9, <1>10, InvOrdinary

\* An expired session is erased under the id that the cookie named.
LEMMA InvErase ==
    ASSUME IInv, NEW w \in Workers, Erase(w)
    PROVE  IInv'
<1>1. Typed
  BY DEF IInv
<1>2. PICK i \in Ids, c \in Clients : id[w] = i /\ client[w] = c
  BY <1>1 DEF Erase, Typed, Placed
<1>3. /\ at[w] = "erase" /\ held[w] = None /\ held' = held /\ client' = client /\ id' = id
      /\ UNCHANGED <<now, rng, made, session, cookie, requests, historyVars>>
      /\ sessions' = [sessions EXCEPT ![i] = None]
  BY <1>1, <1>2 DEF Erase, Typed, Placed
<1>4. /\ at'[w] = "draw" /\ \A v \in Workers \ {w} : at'[v] = at[v]
      /\ at' \in [Workers -> Places]
      /\ sessions'[i] = None /\ \A j \in Ids : j # i => sessions'[j] = sessions[j]
      /\ sessions' \in [Ids -> Objects \cup {None}]
  BY <1>1, <1>3 DEF Erase, Goto, Typed, TypeOK, Places
<1>5. OnlyWorker(w)
  BY <1>3, <1>4 DEF OnlyWorker
<1>6. Typed'
  <2>1. ASSUME NEW v \in Workers PROVE Placed(v)'
    BY <1>1, <1>3, <1>4, <2>1 DEF Typed, Placed, Made, IdOf
  <2>2. TypeOK'
    BY <1>1, <1>3, <1>4 DEF Typed, TypeOK
  <2>3. QED BY <1>1, <1>3, <1>4, <2>1, <2>2 DEF historyVars, Typed, Made, IdOf
<1>7. Claims(i, c)
  BY <1>2, <1>3 DEF Claims, ByRequest
<1>8. Moves(w, c)
  BY <1>1, <1>2, <1>3, <1>4, <1>5, <1>7, Basics DEF historyVars, Moves, Typed
<1>9. NothingNew(w, c)
  BY <1>3, <1>4 DEF historyVars, NothingNew
<1>10. KeptFor(w)'
  BY <1>4 DEF KeptFor
<1>11. /\ \A j \in Ids : sessions'[j] # None => sessions'[j] = sessions[j]
       /\ at'[w] \notin {"drawing", "idle"} /\ UNCHANGED <<rng, doubtful, destroyed, held>>
  BY <1>3, <1>4 DEF historyVars
<1>12. QED BY <1>3, <1>6, <1>8, <1>9, <1>10, <1>11, InvOrdinary

\* getSession looks at the expiry once more.
LEMMA InvCheck ==
    ASSUME IInv, NEW w \in Workers, Check(w)
    PROVE  IInv'
<1>1. Typed
  BY DEF IInv
<1>2. PICK o \in Made, c \in Clients : held[w] = o /\ client[w] = c
  BY <1>1 DEF Check, Typed, Placed
<1>3. /\ at[w] = "check" /\ o # None /\ IdOf(o) = id[w] /\ IdOf(o) \in Ids
      /\ UNCHANGED <<now, rng, made, session, sessions, cookie, requests, client, historyVars>>
  BY <1>1, <1>2 DEF Check, Typed, Placed
<1>4. /\ \/ at'[w] = "draw" /\ held'[w] = None
         \/ at'[w] = "refresh" /\ held'[w] = o
      /\ \A v \in Workers \ {w} : at'[v] = at[v] /\ held'[v] = held[v] /\ id'[v] = id[v]
      /\ at' \in [Workers -> Places] /\ held' \in [Workers -> Objects \cup {None}]
      /\ id'[w] = None /\ id' \in [Workers -> Ids \cup {None}]
  BY <1>1, <1>2, <1>3 DEF Check, Goto, Typed, TypeOK, Places
<1>5. OnlyWorker(w)
  BY <1>3, <1>4 DEF OnlyWorker
<1>6. Typed'
  <2>1. ASSUME NEW v \in Workers PROVE Placed(v)'
    BY <1>1, <1>2, <1>3, <1>4, <2>1 DEF Typed, Placed, Made, IdOf
  <2>2. TypeOK'
    BY <1>1, <1>3, <1>4 DEF historyVars, Typed, TypeOK
  <2>3. QED BY <1>1, <1>3, <1>4, <2>1, <2>2 DEF historyVars, Typed, Made, IdOf
<1>7. Moves(w, c)
  BY <1>1, <1>2, <1>3, <1>5, Basics DEF historyVars, Moves, Typed
<1>8. NothingNew(w, c)
  BY <1>2, <1>3, <1>4 DEF historyVars, NothingNew, Claims, ByRequest, IdOf
<1>9. KeptFor(w)'
  <2>1. c \notin overlapped => cookie[c] = IdOf(o)
    BY <1>2, <1>3 DEF IInv, KeptFor
  <2>2. QED BY <1>2, <1>3, <1>4, <2>1 DEF historyVars, KeptFor, IdOf
<1>10. /\ held'[w] # None => held'[w] = held[w]
       /\ at'[w] \notin {"drawing", "idle"}
       /\ UNCHANGED <<rng, doubtful, destroyed, sessions>>
  BY <1>2, <1>3, <1>4 DEF historyVars
<1>11. QED BY <1>3, <1>6, <1>7, <1>8, <1>9, <1>10, InvOrdinary

\* A refresh lets a session live longer.
LEMMA InvRefresh ==
    ASSUME IInv, NEW w \in Workers, Refresh(w)
    PROVE  IInv'
<1>1. Typed
  BY DEF IInv
<1>2. PICK o \in Made, c \in Clients : held[w] = o /\ client[w] = c
  BY <1>1 DEF Refresh, Typed, Placed
<1>3. /\ at[w] = "refresh" /\ o # None /\ o \in Objects /\ IdOf(o) \in Ids
      /\ session' = [session EXCEPT ![o].expiry = now + MaxAge]
      /\ UNCHANGED <<now, rng, made, sessions, cookie, requests, client, id, held,
                     doubtful, overlapped, destroyed, inUse>>
      /\ now \in Nat /\ MaxAge \in Nat /\ now + MaxAge \in Nat
  BY <1>1, <1>2, Basics DEF Refresh, Refreshed, Typed, Placed
<1>4. /\ at'[w] = "save" /\ \A v \in Workers \ {w} : at'[v] = at[v]
      /\ at' \in [Workers -> Places]
      /\ lastUse'[c] = now /\ \A d \in Clients \ {c} : lastUse'[d] = lastUse[d]
      /\ lastUse' \in [Clients -> Nat]
  BY <1>1, <1>2, <1>3 DEF Refresh, Goto, Typed, Places
<1>5. /\ session' \in [Objects -> [id : Ids \cup {None}, expiry : Nat, data : SUBSET Clients]]
      /\ session'[o].expiry = now + MaxAge
      /\ \A p \in Objects : /\ session'[p].id = session[p].id
                            /\ session'[p].data = session[p].data
                            /\ p # o => session'[p].expiry = session[p].expiry
  BY <1>1, <1>3 DEF Typed, TypeOK
<1>6. \A p \in Objects : /\ session'[p].expiry >= session[p].expiry
                         /\ session'[p].expiry <= now + MaxAge
  BY <1>1, <1>3, <1>5, Basics DEF Typed
<1>7. OnlyWorker(w)
  BY <1>3, <1>4 DEF OnlyWorker
<1>8. Typed'
  <2>1. ASSUME NEW v \in Workers PROVE Placed(v)'
    BY <1>1, <1>2, <1>3, <1>4, <1>5, <2>1, Basics DEF Typed, Placed, Made, IdOf
  <2>2. TypeOK'
    BY <1>1, <1>3, <1>4, <1>5 DEF Typed, TypeOK
  <2>3. QED BY <1>1, <1>3, <1>4, <1>5, <1>6, <2>1, <2>2, Basics DEF Typed, Made, IdOf
<1>9. Moves(w, c)
  BY <1>1, <1>2, <1>3, <1>4, <1>5, <1>6, <1>7, Basics DEF Moves, Typed
<1>10. NothingNew(w, c)
  BY <1>1, <1>2, <1>3, <1>4, <1>5 DEF NothingNew, Claims, ByRequest, IdOf
<1>11. KeptFor(w)'
  <2>1. c \notin overlapped /\ id[w] = None => cookie[c] = IdOf(o)
    BY <1>2, <1>3 DEF IInv, KeptFor
  <2>2. session'[o].expiry >= lastUse'[c] + MaxAge
    BY <1>3, <1>4, <1>5
  <2>3. QED BY <1>2, <1>3, <1>4, <1>5, <2>1, <2>2 DEF KeptFor, IdOf, Outlives
<1>12. QED BY <1>3, <1>4, <1>8, <1>9, <1>10, <1>11, InvOrdinary

\* What a handler's request has at hand: an object of its own that has an id.
LEMMA AtHand ==
    ASSUME Typed, NEW w \in Workers, at[w] \in {"refresh", "save", "use"}
    PROVE  \E o \in Made, c \in Clients, i \in Ids :
              /\ held[w] = o /\ client[w] = c /\ IdOf(o) = i
              /\ o # None /\ o \in Objects
              /\ Claims(i, c)
<1>1. /\ held[w] \in Made /\ client[w] \in Clients /\ IdOf(held[w]) \in Ids
      /\ held[w] # None
  BY DEF Typed, Placed
<1>2. Claims(IdOf(held[w]), client[w])
  BY <1>1 DEF Claims, ByRequest
<1>3. QED BY <1>1, <1>2, Basics

\* Saving a session puts it where its id says.
LEMMA InvSave ==
    ASSUME IInv, NEW w \in Workers, Save(w)
    PROVE  IInv'
<1>1. Typed
  BY DEF IInv
<1>2. at[w] = "save"
  BY DEF Save
<1>3. PICK o \in Made, c \in Clients, i \in Ids :
          /\ held[w] = o /\ client[w] = c /\ IdOf(o) = i
          /\ o # None /\ o \in Objects
          /\ Claims(i, c)
  BY <1>1, <1>2, AtHand
<1>4. /\ sessions' = [sessions EXCEPT ![i] = o]
      /\ UNCHANGED <<now, rng, made, session, cookie, requests, client, id, held, historyVars>>
  BY <1>3 DEF Save, Saved, SavedUnder, IdOf
<1>5. /\ at'[w] = "use" /\ \A v \in Workers \ {w} : at'[v] = at[v]
      /\ at' \in [Workers -> Places]
      /\ sessions'[i] = o /\ \A j \in Ids : j # i => sessions'[j] = sessions[j]
      /\ sessions' \in [Ids -> Objects \cup {None}]
  BY <1>1, <1>3, <1>4 DEF Save, Goto, Typed, TypeOK, Places
<1>6. OnlyWorker(w)
  BY <1>4, <1>5 DEF OnlyWorker
<1>7. Typed'
  <2>1. ASSUME NEW v \in Workers PROVE Placed(v)'
    BY <1>1, <1>2, <1>4, <1>5, <2>1 DEF Typed, Placed, Made, IdOf
  <2>2. TypeOK'
    BY <1>1, <1>3, <1>4, <1>5 DEF Typed, TypeOK, IdOf
  <2>3. QED BY <1>1, <1>3, <1>4, <1>5, <2>1, <2>2 DEF historyVars, Typed, Made, IdOf
<1>8. Moves(w, c)
  BY <1>1, <1>2, <1>3, <1>4, <1>5, <1>6, Basics DEF historyVars, Moves, Typed
<1>9. NothingNew(w, c)
  BY <1>3, <1>4, <1>5 DEF historyVars, NothingNew, IdOf
<1>10. KeptFor(w)'
  <2>1. c \notin overlapped =>
          (id[w] = None => cookie[c] = i) /\ session[o].expiry >= lastUse[c] + MaxAge
    BY <1>2, <1>3 DEF IInv, KeptFor, Outlives
  <2>2. QED BY <1>3, <1>4, <1>5, <2>1 DEF historyVars, KeptFor, Kept, Outlives, IdOf
<1>11. \A j \in Ids : sessions'[j] # None =>
          sessions'[j] = sessions[j] \/ (held[w] # None /\ sessions'[j] = held[w] /\ IdOf(held[w]) = j)
  BY <1>3, <1>5
<1>12. at'[w] \notin {"drawing", "idle"} /\ UNCHANGED <<rng, doubtful, destroyed, held>>
  BY <1>4, <1>5 DEF historyVars
<1>13. QED BY <1>2, <1>7, <1>8, <1>9, <1>10, <1>11, <1>12, InvOrdinary

\* A handler changes the data of its session only by its own client's value.
LEMMA InvHandler ==
    ASSUME IInv, NEW w \in Workers, SetValue(w) \/ Remove(w)
    PROVE  IInv'
<1>1. Typed
  BY DEF IInv
<1>2. at[w] = "use"
  BY DEF SetValue, Remove
<1>3. PICK o \in Made, c \in Clients, i \in Ids :
          /\ held[w] = o /\ client[w] = c /\ IdOf(o) = i
          /\ o # None /\ o \in Objects
          /\ Claims(i, c)
  BY <1>1, <1>2, AtHand
<1>4. /\ UNCHANGED <<now, rng, made, cookie, requests, at, client, id, held, historyVars>>
      /\ \/ sessions' = [sessions EXCEPT ![i] = o]
         \/ sessions' = sessions
  BY <1>3 DEF SetValue, Remove, Saved, SavedUnder, IdOf, requestVars
<1>5. /\ \A j \in Ids : sessions'[j] = sessions[j] \/ (j = i /\ sessions'[j] = o)
      /\ sessions' \in [Ids -> Objects \cup {None}]
  BY <1>1, <1>3, <1>4 DEF Typed, TypeOK
<1>6. PICK kept \in SUBSET Clients :
          /\ session' = [session EXCEPT ![o].data = kept]
          /\ kept \subseteq session[o].data \cup {c}
  <2>1. session[o].data \in SUBSET Clients
    BY <1>1, <1>3 DEF Typed, TypeOK
  <2>2. CASE SetValue(w)
    <3>1. session' = [session EXCEPT ![o].data = session[o].data \cup {c}]
      BY <1>3, <2>2 DEF SetValue
    <3>2. QED BY <2>1, <3>1
  <2>3. CASE Remove(w)
    BY <1>3, <2>1, <2>3 DEF Remove
  <2>4. QED BY <2>2, <2>3
<1>7. /\ session' \in [Objects -> [id : Ids \cup {None}, expiry : Nat, data : SUBSET Clients]]
      /\ session'[o].data = kept
      /\ \A p \in Objects : /\ session'[p].id = session[p].id
                            /\ session'[p].expiry = session[p].expiry
                            /\ p # o => session'[p].data = session[p].data
  BY <1>1, <1>3, <1>6 DEF Typed, TypeOK
<1>8. OnlyWorker(w)
  BY <1>4 DEF OnlyWorker
<1>9. Typed'
  <2>1. ASSUME NEW v \in Workers PROVE Placed(v)'
    BY <1>1, <1>4, <1>7, <2>1, Basics DEF Typed, Placed, Made, IdOf
  <2>2. TypeOK'
    BY <1>1, <1>3, <1>4, <1>5, <1>7 DEF Typed, TypeOK, IdOf
  <2>3. QED BY <1>1, <1>3, <1>4, <1>5, <1>7, <2>1, <2>2, Basics DEF historyVars, Typed, Made, IdOf
<1>10. Moves(w, c)
  <2>1. \A p \in Made : /\ session'[p].id = session[p].id
                        /\ session'[p].expiry >= session[p].expiry
                        /\ \A x \in session'[p].data :
                             x \in session[p].data \/ (x = c /\ Claims(IdOf(p), c))
    BY <1>1, <1>3, <1>6, <1>7, Basics
  <2>2. QED BY <1>1, <1>2, <1>3, <1>4, <1>5, <1>8, <2>1, Basics DEF historyVars, Moves, Typed
<1>11. NothingNew(w, c)
  BY <1>2, <1>3, <1>4, <1>7 DEF historyVars, NothingNew, IdOf
<1>12. KeptFor(w)'
  <2>1. c \notin overlapped =>
          /\ id[w] = None => cookie[c] = i
          /\ session[o].expiry >= lastUse[c] + MaxAge
          /\ Excused(i) \/ (sessions[i] # None /\ session[sessions[i]].expiry >= lastUse[c] + MaxAge)
    BY <1>2, <1>3 DEF IInv, KeptFor, Kept, Outlives
  <2>2. sessions[i] # None => session'[sessions[i]].expiry = session[sessions[i]].expiry
    BY <1>1, <1>7, Basics DEF Typed
  <2>3. at'[w] = "use" /\ client'[w] = c /\ held'[w] = o /\ id'[w] = id[w]
    BY <1>2, <1>3, <1>4
  <2>4. /\ cookie'[c] = cookie[c] /\ lastUse'[c] = lastUse[c] /\ overlapped' = overlapped
        /\ Excused(i)' = Excused(i) /\ session'[o].id = i
        /\ session'[o].expiry = session[o].expiry
    BY <1>3, <1>4, <1>7 DEF historyVars, Excused, IdOf
  <2>5. sessions'[i] = sessions[i] \/ sessions'[i] = o
    BY <1>5
  <2>6. c \notin overlapped' => Excused(i)' \/ (sessions'[i] # None /\ Outlives(sessions[i], c)')
    BY <1>3, <2>1, <2>2, <2>4, <2>5 DEF Outlives
  <2>7. QED BY <2>1, <2>3, <2>4, <2>6 DEF KeptFor, Kept, Outlives, IdOf
<1>13. \A j \in Ids : sessions'[j] # None =>
          sessions'[j] = sessions[j] \/ (held[w] # None /\ sessions'[j] = held[w] /\ IdOf(held[w]) = j)
  BY <1>3, <1>5
<1>14. at'[w] \notin {"drawing", "idle"} /\ UNCHANGED <<rng, doubtful, destroyed, held>>
  BY <1>2, <1>4 DEF historyVars
<1>15. QED BY <1>2, <1>9, <1>10, <1>11, <1>12, <1>13, <1>14, InvOrdinary

\* The response gives the client the id of the session that its request had.
LEMMA Responding ==
    ASSUME IInv, NEW w \in Workers, Respond(w),
           NEW o \in Made, NEW c \in Clients, NEW i \in Ids,
           held[w] = o, client[w] = c, IdOf(o) = i
    PROVE  /\ UNCHANGED <<now, rng, made, session, requests>>
           /\ at[w] = "use" /\ at'[w] = "idle" /\ held'[w] = None
           /\ OnlyWorker(w)
           /\ at' \in [Workers -> Places] /\ client' \in [Workers -> Clients \cup {None}]
           /\ id' \in [Workers -> Ids \cup {None}] /\ held' \in [Workers -> Objects \cup {None}]
           /\ cookie' \in [Clients -> Ids \cup {None}]
           /\ \A v \in Workers : Placed(v)'
           /\ cookie'[c] = cookie[c] \/ cookie'[c] = i
           /\ \A d \in Clients \ {c} : cookie'[d] = cookie[d]
           /\ c \notin overlapped => cookie'[c] = i /\ Kept(i, c)
<1>1. Typed
  BY DEF IInv
<1>2. UNCHANGED <<now, rng, made, session, requests>> /\ at[w] = "use"
  BY DEF Respond
<1>3. /\ at'[w] = "idle" /\ held'[w] = None
      /\ at' \in [Workers -> Places] /\ client' \in [Workers -> Clients \cup {None}]
      /\ id' \in [Workers -> Ids \cup {None}] /\ held' \in [Workers -> Objects \cup {None}]
  BY <1>1 DEF Respond, Goto, Typed, TypeOK, Places
<1>4. OnlyWorker(w)
  BY <1>1 DEF Respond, Goto, Typed, TypeOK, OnlyWorker
<1>5. cookie' = [cookie EXCEPT ![c] = IF id[w] = None THEN cookie[c] ELSE i]
  BY DEF Respond, IdOf
<1>6. /\ cookie' \in [Clients -> Ids \cup {None}]
      /\ cookie'[c] = IF id[w] = None THEN cookie[c] ELSE i
      /\ \A d \in Clients \ {c} : cookie'[d] = cookie[d]
  BY <1>1, <1>5 DEF Typed, TypeOK
<1>7. \A v \in Workers : Placed(v)'
  BY <1>1, <1>2, <1>3, <1>4 DEF OnlyWorker, Typed, Placed, Made, IdOf
<1>8. c \notin overlapped => (id[w] = None => cookie[c] = i) /\ Kept(i, c)
  BY <1>2 DEF IInv, KeptFor
<1>9. c \notin overlapped => cookie'[c] = i /\ Kept(i, c)
  BY <1>6, <1>8
<1>10. QED BY <1>2, <1>3, <1>4, <1>6, <1>7, <1>9

\* The response alone.
LEMMA InvAnswer ==
    ASSUME IInv, NEW w \in Workers, Answer(w)
    PROVE  IInv'
<1>1. Typed /\ Respond(w) /\ at[w] = "use"
  BY DEF IInv, Answer, Respond
<1>2. PICK o \in Made, c \in Clients, i \in Ids :
          /\ held[w] = o /\ client[w] = c /\ IdOf(o) = i
          /\ o # None /\ o \in Objects
          /\ Claims(i, c)
  BY <1>1, AtHand
<1>3. /\ UNCHANGED <<now, rng, made, session, requests>>
      /\ at[w] = "use" /\ at'[w] = "idle" /\ held'[w] = None
      /\ OnlyWorker(w)
      /\ at' \in [Workers -> Places] /\ client' \in [Workers -> Clients \cup {None}]
      /\ id' \in [Workers -> Ids \cup {None}] /\ held' \in [Workers -> Objects \cup {None}]
      /\ cookie' \in [Clients -> Ids \cup {None}]
      /\ \A v \in Workers : Placed(v)'
      /\ cookie'[c] = cookie[c] \/ cookie'[c] = i
      /\ \A d \in Clients \ {c} : cookie'[d] = cookie[d]
      /\ c \notin overlapped => cookie'[c] = i /\ Kept(i, c)
  BY <1>1, <1>2, Responding
<1>4. UNCHANGED <<sessions, historyVars>>
  BY DEF Answer
<1>5. Typed'
  <2>1. TypeOK'
    BY <1>1, <1>3, <1>4 DEF Typed, TypeOK
  <2>2. QED BY <1>1, <1>3, <1>4, <2>1 DEF historyVars, Typed, Made, IdOf
<1>6. Moves(w, c)
  BY <1>1, <1>2, <1>3, <1>4, Basics DEF historyVars, Moves, Typed
<1>7. NothingNew(w, c)
  BY <1>3, <1>4 DEF historyVars, NothingNew
<1>8. KeptFor(w)'
  BY <1>3 DEF KeptFor
<1>9. c \notin overlapped' => Kept(cookie[c], c)'
  BY <1>3, <1>4 DEF historyVars, Kept, Excused, Outlives
<1>10. UNCHANGED <<rng, doubtful, destroyed, sessions>>
  BY <1>3, <1>4 DEF historyVars
<1>11. QED BY <1>3, <1>5, <1>6, <1>7, <1>8, <1>9, <1>10, InvOrdinary

\* A session is destroyed: it is no longer stored, and it is remembered who has
\* it.
LEMMA InvDestroy ==
    ASSUME IInv, NEW w \in Workers, Destroy(w)
    PROVE  IInv'
<1>1. Typed /\ Respond(w) /\ at[w] = "use"
  BY DEF IInv, Destroy, Respond
<1>2. PICK o \in Made, c \in Clients, i \in Ids :
          /\ held[w] = o /\ client[w] = c /\ IdOf(o) = i
          /\ o # None /\ o \in Objects
          /\ Claims(i, c)
  BY <1>1, AtHand
<1>3. /\ UNCHANGED <<now, rng, made, session, requests>>
      /\ at[w] = "use" /\ at'[w] = "idle" /\ held'[w] = None
      /\ OnlyWorker(w)
      /\ at' \in [Workers -> Places] /\ client' \in [Workers -> Clients \cup {None}]
      /\ id' \in [Workers -> Ids \cup {None}] /\ held' \in [Workers -> Objects \cup {None}]
      /\ cookie' \in [Clients -> Ids \cup {None}]
      /\ \A v \in Workers : Placed(v)'
      /\ cookie'[c] = cookie[c] \/ cookie'[c] = i
      /\ \A d \in Clients \ {c} : cookie'[d] = cookie[d]
      /\ c \notin overlapped => cookie'[c] = i /\ Kept(i, c)
  BY <1>1, <1>2, Responding
<1>4. /\ sessions' = [sessions EXCEPT ![i] = None]
      /\ destroyed' = destroyed \cup {i}
      /\ inUse' = inUse \cup {p \in {held[v] : v \in Busy \ {w}} : p # None /\ IdOf(p) = i}
      /\ UNCHANGED <<doubtful, overlapped, lastUse>>
  BY <1>2 DEF Destroy, IdOf
<1>5. /\ sessions' \in [Ids -> Objects \cup {None}]
      /\ sessions'[i] = None /\ \A j \in Ids : j # i => sessions'[j] = sessions[j]
      /\ destroyed' \subseteq Ids
  BY <1>1, <1>4 DEF Typed, TypeOK
<1>6. Typed'
  <2>1. TypeOK'
    BY <1>1, <1>3, <1>4, <1>5 DEF Typed, TypeOK
  <2>2. QED BY <1>1, <1>3, <1>4, <1>5, <2>1 DEF Typed, Made, IdOf
<1>7. Moves(w, c)
  BY <1>1, <1>2, <1>3, <1>4, <1>5, Basics DEF Moves, Typed
<1>8. NothingNew(w, c)
  BY <1>2, <1>3, <1>4, <1>5 DEF NothingNew, Taken
<1>9. Owned'
  BY <1>1, <1>6, <1>7, <1>8, OwnedStep DEF IInv
<1>10. Generator'
  <2>1. \A v \in Workers : /\ at'[v] = "drawing" <=> at[v] = "drawing"
                           /\ at[v] = "drawing" => id'[v] = id[v]
    BY <1>3 DEF OnlyWorker
  <2>2. \A p \in Made : session'[p].id = session[p].id
    BY <1>3
  <2>3. QED BY <1>1, <1>3, <1>4, <2>1, <2>2, GeneratorStays DEF IInv
<1>11. NotRevived'
  BY <1>1, <1>4, <1>5 DEF IInv, NotRevived, Typed
<1>12. Survivors'
  <2> SUFFICES ASSUME NEW v \in Workers, held'[v] # None,
                      IdOf(held[v])' \in destroyed' \ doubtful'
               PROVE  held'[v] \in inUse'
    BY DEF Survivors
  <2>1. v # w /\ held'[v] = held[v] /\ at[v] # "idle"
    BY <1>1, <1>3 DEF OnlyWorker, Typed, Placed
  <2>2. IdOf(held[v]) \in (destroyed \cup {i}) \ doubtful
    BY <1>3, <1>4, <2>1 DEF IdOf
  <2>3. CASE IdOf(held[v]) = i
    <3>1. v \in Busy \ {w}
      BY <2>1 DEF Busy
    <3>2. QED BY <1>4, <2>1, <2>3, <3>1
  <2>4. CASE IdOf(held[v]) \in destroyed
    BY <1>4, <2>1, <2>2, <2>4 DEF IInv, Survivors
  <2>5. QED BY <2>2, <2>3, <2>4
<1>13. /\ Solo'
       /\ \A v \in Workers \ {w} : KeptFor(v)'
       /\ \A d \in Clients \ overlapped' :
             /\ d # c /\ cookie'[d] # None
             /\ \A v \in Workers : at'[v] # "idle" => client'[v] # d
             => Kept(cookie[d], d)'
  BY <1>6, <1>7, OthersKept
<1>14. KeptFor(w)'
  BY <1>3 DEF KeptFor
<1>15. KeptBetween'
  <2> SUFFICES ASSUME NEW d \in Clients \ overlapped', cookie'[d] # None,
                      \A v \in Workers : at'[v] # "idle" => client'[v] # d
               PROVE  Kept(cookie[d], d)'
    BY DEF KeptBetween
  <2>1. CASE d = c
    <3>1. cookie'[c] = i
      BY <1>3, <1>4, <2>1
    <3>2. QED BY <1>4, <2>1, <3>1 DEF Kept, Excused
  <2>2. CASE d # c
    BY <1>13, <2>2
  <2>3. QED BY <2>1, <2>2
<1>16. \A v \in Workers : KeptFor(v)'
  BY <1>13, <1>14
<1>17. QED BY <1>6, <1>9, <1>10, <1>11, <1>12, <1>13, <1>15, <1>16 DEF IInv

\* While another worker generates an id, the ids of both are noted.
LEMMA InvDrawBegin ==
    ASSUME IInv, NEW w \in Workers, DrawBegin(w)
    PROVE  IInv'
<1>1. Typed /\ Generator
  BY DEF IInv
<1>2. PICK c \in Clients : client[w] = c
  BY <1>1 DEF DrawBegin, Typed, Placed
<1>3. /\ at[w] = "draw" /\ held[w] = None /\ held' = held /\ w \notin Drawing
      /\ made + Cardinality(Drawing) < MaxSessions
      /\ UNCHANGED <<now, rng, made, session, sessions, cookie, requests, client, held,
                     overlapped, lastUse, destroyed, inUse>>
  BY <1>1 DEF DrawBegin, Typed, Placed, Drawing
<1>4. /\ at'[w] = "drawing" /\ id'[w] = rng
      /\ \A v \in Workers \ {w} : at'[v] = at[v] /\ id'[v] = id[v]
      /\ at' \in [Workers -> Places]
  BY <1>1 DEF DrawBegin, Goto, Typed, Places
<1>5. Drawing \subseteq Workers /\ IsFiniteSet(Drawing) /\ Cardinality(Drawing) \in Nat
  <2>1. Drawing \subseteq Workers /\ IsFiniteSet(Workers)
    BY SessionAssumption DEF SessionAssumption, Drawing
  <2>2. QED BY <2>1, FS_Subset, FS_CardinalityType
<1>6. Drawing' = Drawing \cup {w} /\ Cardinality(Drawing') = Cardinality(Drawing) + 1
  <2>1. Drawing' = Drawing \cup {w}
    BY <1>4 DEF Drawing
  <2>2. QED BY <1>3, <1>5, <2>1, FS_AddElement
<1>7. rng \in Ids /\ rng <= made + 1 /\ \A v \in Drawing : id[v] \in Ids
  <2>1. rng <= made + 1 /\ made + 1 <= MaxSessions
    BY <1>1, <1>3, <1>5, Basics DEF Generator
  <2>2. rng \in 1 .. MaxSessions
    BY <1>1, <2>1, Basics DEF Typed, TypeOK
  <2>3. \A v \in Drawing : id[v] \in Ids
    BY <1>1 DEF Typed, Placed, Drawing
  <2>4. QED BY <2>1, <2>2, <2>3 DEF Ids
<1>8. /\ doubtful \subseteq doubtful' /\ doubtful' \subseteq Ids
      /\ Drawing # {} => rng \in doubtful' /\ \A v \in Drawing : id[v] \in doubtful'
  <2>1. doubtful \subseteq Ids
    BY <1>1 DEF Typed
  <2>2. CASE Drawing = {}
    BY <2>1, <2>2 DEF DrawBegin
  <2>3. CASE Drawing # {}
    <3>1. doubtful' = doubtful \cup {rng} \cup {id[v] : v \in Drawing}
      BY <2>3 DEF DrawBegin
    <3>2. QED BY <1>7, <2>1, <3>1
  <2>4. QED BY <2>2, <2>3
<1>9. OnlyWorker(w)
  BY <1>3, <1>4 DEF OnlyWorker
<1>10. Typed'
  <2>1. id' \in [Workers -> Ids \cup {None}]
    BY <1>1, <1>7 DEF DrawBegin, Typed
  <2>2. ASSUME NEW v \in Workers PROVE Placed(v)'
    BY <1>1, <1>3, <1>4, <1>7 DEF Typed, Placed, Made, IdOf
  <2>3. TypeOK'
    BY <1>1, <1>3 DEF Typed, TypeOK
  <2>4. QED BY <1>1, <1>3, <1>4, <1>8, <2>1, <2>2, <2>3 DEF Typed, Made, IdOf
<1>11. Moves(w, c)
  BY <1>1, <1>2, <1>3, <1>4, <1>8, <1>9, Basics DEF Moves, Typed
<1>12. NothingNew(w, c)
  BY <1>3, <1>4 DEF NothingNew
<1>13. Owned'
  BY <1>1, <1>10, <1>11, <1>12, OwnedStep DEF IInv
<1>14. NotRevived' /\ Survivors'
  BY <1>3, <1>10, <1>11, RevivalStep
<1>15. Generator'
  <2>1. made' + Cardinality(Drawing)' <= MaxSessions
    <3>1. made \in Nat /\ MaxSessions \in Nat
      BY <1>1, Basics
    <3>2. QED BY <1>3, <1>5, <1>6, <3>1
  <2>2. ASSUME NEW o \in Made, IdOf(o) \notin doubtful',
               NEW v \in Drawing \cup {w}
        PROVE  IdOf(o) < rng /\ IdOf(o) < id'[v]
    <3>1. IdOf(o) < rng /\ \A u \in Drawing : IdOf(o) < id[u]
      BY <1>1, <1>8, <2>2 DEF Generator
    <3>2. v = w \/ id'[v] = id[v]
      BY <1>4, <1>5, <2>2
    <3>3. QED BY <1>4, <2>2, <3>1, <3>2
  <2>3. ASSUME NEW v \in Drawing \cup {w}, id'[v] \notin doubtful'
        PROVE  \A u \in Drawing \cup {w} : u = v
    BY <1>4, <1>5, <1>8, <2>3
  <2>4. Made' = Made /\ \A o \in Made : IdOf(o)' = IdOf(o)
    BY <1>3 DEF Made, IdOf
  <2>5. rng' <= made' + 1
    BY <1>3, <1>7
  <2>6. \A o \in Made' : IdOf(o)' \notin doubtful' =>
            IdOf(o)' < rng' /\ \A v \in Drawing' : IdOf(o)' < id'[v]
    BY <1>3, <1>6, <2>2, <2>4
  <2>7. \A v \in Drawing' : id'[v] \notin doubtful' => \A u \in Drawing' : u = v
    BY <1>6, <2>3
  <2>8. QED BY <2>1, <2>5, <2>6, <2>7 DEF Generator
<1>16. /\ Solo'
       /\ \A v \in Workers \ {w} : KeptFor(v)'
       /\ \A d \in Clients \ overlapped' :
             /\ d # c /\ cookie'[d] # None
             /\ \A v \in Workers : at'[v] # "idle" => client'[v] # d
             => Kept(cookie[d], d)'
  BY <1>10, <1>11, OthersKept
<1>17. KeptFor(w)'
  BY <1>4 DEF KeptFor
<1>18. KeptBetween'
  <2> SUFFICES ASSUME NEW d \in Clients \ overlapped', cookie'[d] # None,
                      \A v \in Workers : at'[v] # "idle" => client'[v] # d
               PROVE  Kept(cookie[d], d)'
    BY DEF KeptBetween
  <2>1. d # c
    BY <1>2, <1>3, <1>4
  <2>2. QED BY <1>16, <2>1
<1>19. \A v \in Workers : KeptFor(v)'
  BY <1>16, <1>17
<1>20. QED BY <1>10, <1>13, <1>14, <1>15, <1>16, <1>18, <1>19 DEF IInv

\* The new session has an id that no session has, unless two were generated at
\* once.
LEMMA InvDrawEnd ==
    ASSUME IInv, NEW w \in Workers, DrawEnd(w)
    PROVE  IInv'
<1>1. Typed /\ Generator /\ Owned
  BY DEF IInv
<1>2. PICK c \in Clients, i \in Ids : client[w] = c /\ id[w] = i /\ i <= made + 1
  BY <1>1 DEF DrawEnd, Typed, Placed
<1>3. /\ at[w] = "drawing" /\ held[w] = None /\ w \in Drawing
      /\ rng' = i + 1 /\ made' = made + 1
      /\ session' = [session EXCEPT ![made + 1] = [id |-> i, expiry |-> now + MaxAge, data |-> {}]]
      /\ UNCHANGED <<now, sessions, cookie, requests, client, id, historyVars>>
  BY <1>1, <1>2 DEF DrawEnd, NextState, NewId, Typed, Placed, Drawing
<1>4. /\ Drawing' = Drawing \ {w} /\ IsFiniteSet(Drawing)
      /\ Cardinality(Drawing) \in Nat /\ Cardinality(Drawing') \in Nat
      /\ Cardinality(Drawing) = Cardinality(Drawing') + 1
  <2>1. Drawing \subseteq Workers /\ IsFiniteSet(Workers)
    BY SessionAssumption DEF SessionAssumption, Drawing
  <2>2. IsFiniteSet(Drawing) /\ Cardinality(Drawing) \in Nat
    BY <2>1, FS_Subset, FS_CardinalityType
  <2>3. Drawing' = Drawing \ {w}
    BY <1>1 DEF DrawEnd, Goto, Drawing, Typed
  <2>4. IsFiniteSet(Drawing') /\ Cardinality(Drawing') = Cardinality(Drawing) - 1
    BY <1>3, <2>2, <2>3, FS_RemoveElement
  <2>5. Cardinality(Drawing') \in Nat
    BY <2>4, FS_CardinalityType
  <2>6. QED BY <2>2, <2>3, <2>4, <2>5
<1>5. PICK o \in Objects : o = made + 1 /\ o \notin Made
  <2>1. made \in Nat /\ MaxSessions \in Nat
    BY <1>1, Basics
  <2>2. made + 1 \in 1 .. MaxSessions
    BY <1>1, <1>4, <2>1 DEF Generator
  <2>3. QED BY <2>1, <2>2 DEF Objects, Made
<1>6. Made' = Made \cup {o} /\ o # None
  <2>1. made \in Nat /\ 1 .. (made + 1) = (1 .. made) \cup {made + 1}
    BY <1>1, Basics
  <2>2. QED BY <1>1, <1>3, <1>5, <2>1, Basics DEF Made
<1>7. /\ session' \in [Objects -> [id : Ids \cup {None}, expiry : Nat, data : SUBSET Clients]]
      /\ session'[o] = [id |-> i, expiry |-> now + MaxAge, data |-> {}]
      /\ \A p \in Objects : p # o => session'[p] = session[p]
  <2>1. now + MaxAge \in Nat
    BY <1>1, Basics
  <2>2. QED BY <1>1, <1>3, <1>5, <2>1 DEF Typed, TypeOK
<1>8. /\ at'[w] = "refresh" /\ held'[w] = o
      /\ \A v \in Workers \ {w} : at'[v] = at[v] /\ held'[v] = held[v]
      /\ at' \in [Workers -> Places] /\ held' \in [Workers -> Objects \cup {None}]
  BY <1>1, <1>5 DEF DrawEnd, Goto, Typed, TypeOK, Places
<1>9. OnlyWorker(w)
  BY <1>3, <1>8 DEF OnlyWorker
<1>10. Made \subseteq Objects \ {o} /\ \A p \in Made : session'[p] = session[p]
  BY <1>1, <1>5, <1>7, Basics
<1>11. Typed'
  <2>1. ASSUME NEW v \in Workers PROVE Placed(v)'
    <3>1. made \in Nat /\ made' = made + 1 /\ i <= made + 1
      BY <1>1, <1>2, <1>3, Basics
    <3>2. CASE v = w
      BY <1>2, <1>3, <1>6, <1>8, <3>2 DEF Placed
    <3>3. CASE v # w
      <4>1. /\ at'[v] = at[v] /\ client'[v] = client[v] /\ id'[v] = id[v] /\ held'[v] = held[v]
            /\ Placed(v)
        BY <1>1, <1>9, <3>3 DEF OnlyWorker, Typed
      <4>2. at[v] = "drawing" => id'[v] <= made' + 1
        <5>1. id[v] \in Ids \/ at[v] # "drawing"
          BY <4>1 DEF Placed
        <5>2. QED BY <3>1, <4>1, <5>1 DEF Placed, Ids
      <4>3. QED BY <1>6, <1>10, <4>1, <4>2 DEF Placed, IdOf
    <3>4. QED BY <3>2, <3>3
  <2>2. TypeOK'
    <3>1. /\ made' \in 0 .. MaxSessions /\ rng' \in 1 .. MaxSessions + 1 /\ now' \in 0 .. MaxTime
      BY <1>1, <1>2, <1>3, <1>5, Basics DEF Objects, Ids, Typed, TypeOK
    <3>2. \A j \in Ids : sessions'[j] # None => session'[sessions'[j]].id = j
      BY <1>1, <1>3, <1>10 DEF Typed, TypeOK
    <3>3. QED BY <1>1, <1>3, <1>7, <1>8, <3>1, <3>2 DEF Typed, TypeOK
  <2>3. \A p \in Objects : session'[p].expiry <= now' + MaxAge
    <3>1. session'[o].expiry <= now + MaxAge
      BY <1>1, <1>7, Basics
    <3>2. \A p \in Objects : p # o => session'[p].expiry <= now + MaxAge
      BY <1>1, <1>7 DEF Typed
    <3>3. QED BY <1>3, <3>1, <3>2
  <2>4. \A p \in Made' : IdOf(p)' \in Ids
    BY <1>1, <1>6, <1>7, <1>10 DEF Typed, IdOf
  <2>5. QED BY <1>1, <1>3, <1>6, <1>8, <2>1, <2>2, <2>3, <2>4 DEF historyVars, Typed
<1>12. Moves(w, c)
  <2>1. made \in Nat /\ made' \in Nat /\ made <= made'
    BY <1>1, <1>3, Basics
  <2>2. \A p \in Made : session'[p].expiry >= session[p].expiry
    BY <1>1, <1>10, Basics
  <2>3. QED BY <1>2, <1>3, <1>8, <1>9, <1>10, <2>1, <2>2 DEF historyVars, Moves
<1>13. i \notin doubtful => ~Taken(i) /\ Drawing' = {}
  <2> SUFFICES ASSUME i \notin doubtful PROVE ~Taken(i) /\ Drawing' = {}
    OBVIOUS
  <2>1. ASSUME NEW p \in Made, IdOf(p) = i PROVE FALSE
    BY <1>1, <1>2, <1>3, <2>1 DEF Generator, Ids
  <2>2. Drawing' = {}
    BY <1>1, <1>2, <1>3, <1>4 DEF Generator
  <2>3. QED BY <2>1, <2>2 DEF Taken
<1>14. Owned'
  <2>1. ASSUME NEW j \in Ids PROVE Taken(j)' <=> (Taken(j) \/ j = i)
    BY <1>6, <1>7, <1>10 DEF Taken, IdOf
  <2>2. ASSUME NEW j \in Ids, NEW d \in Clients, Claims(j, d)'
        PROVE  Claims(j, d) \/ (j = i /\ d = c)
    <3>1. CASE ByCookie(j, d)'
      BY <1>3, <3>1 DEF ByCookie, Claims
    <3>2. CASE ByRequest(j, d)'
      <4>1. PICK v \in Workers :
              /\ at'[v] # "idle" /\ client'[v] = d
              /\ \/ at'[v] \in {"load", "erase", "check"} /\ id'[v] = j
                 \/ held'[v] # None /\ session'[held'[v]].id = j
        BY <3>2 DEF ByRequest, IdOf
      <4>2. CASE v = w
        BY <1>2, <1>3, <1>7, <1>8, <4>1, <4>2
      <4>3. CASE v # w
        <5>1. at'[v] = at[v] /\ client'[v] = client[v] /\ id'[v] = id[v] /\ held'[v] = held[v]
          BY <1>9, <4>3 DEF OnlyWorker
        <5>2. held[v] # None => held[v] \in Made
          BY <1>1 DEF Typed, Placed
        <5>3. QED BY <1>10, <4>1, <5>1, <5>2 DEF Claims, ByRequest, IdOf
      <4>4. QED BY <4>2, <4>3
    <3>3. CASE ByData(j, d)'
      BY <1>6, <1>7, <1>10, <3>3 DEF ByData, IdOf, Claims
    <3>4. QED BY <2>2, <3>1, <3>2, <3>3 DEF Claims
  <2>3. ASSUME NEW j \in Ids \ doubtful', NEW d \in Clients, NEW e \in Clients,
               Claims(j, d)', Claims(j, e)'
        PROVE  d = e
    <3>1. j \in Ids \ doubtful
      BY <1>3 DEF historyVars
    <3>2. CASE j = i
      <4>1. ~Claims(j, d) /\ ~Claims(j, e)
        BY <1>1, <1>13, <3>1, <3>2 DEF Owned
      <4>2. QED BY <2>2, <2>3, <4>1
    <3>3. CASE j # i
      BY <1>1, <2>2, <2>3, <3>1, <3>3 DEF Owned
    <3>4. QED BY <3>2, <3>3
  <2>4. \A j \in Ids, d \in Clients : Claims(j, d)' => Taken(j)'
    BY <1>1, <2>1, <2>2 DEF Owned
  <2>5. \A j \in destroyed' : j \in Ids /\ Taken(j)'
    BY <1>1, <1>3, <2>1 DEF historyVars, Owned
  <2>6. Ids' = Ids
    BY DEF Ids
  <2>7. QED BY <2>3, <2>4, <2>5, <2>6 DEF Owned
<1>15. Generator'
  <2>1. rng' <= made' + 1 /\ made' + Cardinality(Drawing)' <= MaxSessions
    <3>1. made \in Nat /\ MaxSessions \in Nat /\ made + Cardinality(Drawing) <= MaxSessions
      BY <1>1, Basics DEF Generator
    <3>2. i \in Nat
      BY DEF Ids
    <3>3. made' + Cardinality(Drawing)' <= MaxSessions
      BY <1>3, <1>4, <3>1
    <3>4. QED BY <1>2, <1>3, <3>1, <3>2, <3>3
  <2>2. ASSUME NEW p \in Made', IdOf(p)' \notin doubtful'
        PROVE  IdOf(p)' < rng' /\ \A v \in Drawing' : IdOf(p)' < id'[v]
    <3>1. CASE p = o
      <4>1. IdOf(p)' = i /\ i \in Nat /\ i \notin doubtful
        BY <1>3, <1>7, <2>2, <3>1 DEF IdOf, historyVars, Ids
      <4>2. QED BY <1>3, <1>13, <4>1
    <3>2. CASE p \in Made
      <4>1. PICK j \in Ids : j = IdOf(p) /\ IdOf(p)' = j
        BY <1>1, <1>10, <3>2 DEF Typed, IdOf
      <4>2. j \notin doubtful
        BY <1>3, <2>2, <4>1 DEF historyVars
      <4>3. \A v \in Drawing : j < id[v]
        BY <1>1, <3>2, <4>1, <4>2 DEF Generator
      <4>4. j < i + 1
        BY <1>2, <1>3, <4>3 DEF Ids
      <4>5. QED BY <1>3, <1>4, <4>1, <4>3, <4>4
    <3>3. QED BY <1>6, <2>2, <3>1, <3>2
  <2>3. \A v \in Drawing' : id'[v] \notin doubtful' => \A u \in Drawing' : u = v
    BY <1>1, <1>3, <1>4 DEF historyVars, Generator
  <2>4. QED BY <2>1, <2>2, <2>3 DEF Generator
<1>16. NotRevived'
  BY <1>3 DEF historyVars, IInv, NotRevived
<1>17. Survivors'
  <2> SUFFICES ASSUME NEW v \in Workers, held'[v] # None,
                      session'[held'[v]].id \in destroyed \ doubtful
               PROVE  held'[v] \in inUse
    BY <1>3 DEF historyVars, Survivors, IdOf
  <2>1. CASE v = w
    BY <1>1, <1>7, <1>8, <1>13, <2>1 DEF Owned
  <2>2. CASE v # w
    <3>1. held'[v] = held[v] /\ held[v] \in Made
      BY <1>1, <1>8, <2>2 DEF Typed, Placed
    <3>2. QED BY <1>10, <3>1 DEF IInv, Survivors, IdOf
  <2>3. QED BY <2>1, <2>2
<1>18. /\ Solo'
       /\ \A v \in Workers \ {w} : KeptFor(v)'
       /\ \A d \in Clients \ overlapped' :
             /\ d # c /\ cookie'[d] # None
             /\ \A v \in Workers : at'[v] # "idle" => client'[v] # d
             => Kept(cookie[d], d)'
  BY <1>11, <1>12, OthersKept
<1>19. KeptFor(w)'
  BY <1>2, <1>3, <1>8, Basics, <1>1 DEF KeptFor
<1>20. KeptBetween'
  <2> SUFFICES ASSUME NEW d \in Clients \ overlapped', cookie'[d] # None,
                      \A v \in Workers : at'[v] # "idle" => client'[v] # d
               PROVE  Kept(cookie[d], d)'
    BY DEF KeptBetween
  <2>1. d # c
    BY <1>2, <1>3, <1>8
  <2>2. QED BY <1>18, <2>1
<1>21. \A v \in Workers : KeptFor(v)'
  BY <1>18, <1>19
<1>22. QED BY <1>11, <1>14, <1>15, <1>16, <1>17, <1>18, <1>20, <1>21 DEF IInv

\* As the clock goes on, more sessions have expired.
LEMMA InvTick ==
    ASSUME IInv, Tick
    PROVE  IInv'
<1>1. Typed
  BY DEF IInv
<1>2. /\ UNCHANGED <<rng, made, session, sessions, cookie, requests, requestVars, historyVars>>
      /\ now \in Nat /\ now' = now + 1 /\ now' \in 0 .. MaxTime /\ MaxAge \in Nat
  BY <1>1, Basics DEF Tick
<1>3. /\ Made' = Made /\ Drawing' = Drawing /\ \A o : IdOf(o)' = IdOf(o)
      /\ \A w \in Workers : Placed(w)' <=> Placed(w)
  BY <1>2 DEF Made, Drawing, IdOf, Placed, requestVars
<1>4. Typed'
  <2>1. TypeOK'
    BY <1>1, <1>2 DEF requestVars, historyVars, Typed, TypeOK
  <2>2. \A o \in Objects : session'[o].expiry <= now' + MaxAge
    <3>1. \A o \in Objects : session[o].expiry \in Nat /\ session[o].expiry <= now + MaxAge
      BY <1>1, Basics DEF Typed
    <3>2. QED BY <1>2, <3>1
  <2>3. QED BY <1>1, <1>2, <1>3, <2>1, <2>2 DEF requestVars, historyVars, Typed
<1>5. Generator'
  BY <1>2, <1>3 DEF requestVars, historyVars, IInv, Generator
<1>6. Owned'
  BY <1>2, <1>3 DEF requestVars, historyVars, IInv, Owned, Taken, Claims, ByCookie, ByRequest, ByData
<1>7. NotRevived' /\ Survivors' /\ Solo'
  BY <1>2, <1>3 DEF requestVars, historyVars, IInv, NotRevived, Survivors, Solo
<1>8. KeptBetween'
  BY <1>2 DEF requestVars, historyVars, IInv, KeptBetween, Kept, Excused, Outlives
<1>9. ASSUME NEW w \in Workers PROVE KeptFor(w)'
  <2> SUFFICES ASSUME at[w] # "idle", NEW c \in Clients, c = client[w], c \notin overlapped
               PROVE  /\ at[w] \in {"load", "erase", "check"} => cookie[c] = id[w]
                      /\ at[w] = "load" => Kept(id[w], c)
                      /\ at[w] = "erase" => Excused(id[w]) \/ now' > lastUse[c] + MaxAge
                      /\ at[w] = "check" => Excused(id[w]) \/ Outlives(held[w], c)
                      /\ at[w] \in {"refresh", "save", "use"} /\ id[w] = None => cookie[c] = IdOf(held[w])
                      /\ at[w] \in {"save", "use"} => Outlives(held[w], c)
                      /\ at[w] = "use" => Kept(IdOf(held[w]), c)
    <3>1. at[w] # "idle" => client[w] \in Clients
      BY <1>1 DEF Typed, Placed
    <3>2. QED BY <1>2, <3>1 DEF requestVars, historyVars, KeptFor, Kept, Excused, Outlives, IdOf
  <2>1. now > lastUse[c] + MaxAge => now' > lastUse[c] + MaxAge
    <3>1. lastUse[c] \in Nat
      BY <1>1 DEF Typed
    <3>2. QED BY <1>2, <3>1
  <2>2. QED BY <2>1 DEF IInv, KeptFor
<1>10. QED BY <1>4, <1>5, <1>6, <1>7, <1>8, <1>9 DEF IInv

\* A step that changes nothing.
LEMMA InvSame ==
    ASSUME IInv, UNCHANGED vars
    PROVE  IInv'
<1>1. UNCHANGED <<now, rng, made, session, sessions, cookie, requests, at, client, id, held,
                  doubtful, overlapped, lastUse, destroyed, inUse>>
  BY DEF vars, requestVars, historyVars
<1>2. Typed'
  BY <1>1 DEF IInv, Typed, TypeOK, Placed, Made, IdOf
<1>3. Generator'
  BY <1>1 DEF IInv, Generator, Drawing, Made, IdOf
<1>4. Owned'
  BY <1>1 DEF IInv, Owned, Taken, Claims, ByCookie, ByRequest, ByData, Made, IdOf
<1>5. NotRevived' /\ Survivors' /\ Solo'
  BY <1>1 DEF IInv, NotRevived, Survivors, Solo, IdOf
<1>6. KeptBetween'
  BY <1>1 DEF IInv, KeptBetween, Kept, Excused, Outlives
<1>7. \A w \in Workers : KeptFor(w)'
  BY <1>1 DEF IInv, KeptFor, Kept, Excused, Outlives, IdOf
<1>8. QED BY <1>2, <1>3, <1>4, <1>5, <1>6, <1>7 DEF IInv

LEMMA InvStep ==
    ASSUME IInv, [Next]_vars
    PROVE  IInv'
<1>1. ASSUME NEW w \in Workers, NEW c \in Clients, Request(w, c) PROVE IInv'
  BY <1>1, InvRequest
<1>2. ASSUME NEW w \in Workers, Load(w) PROVE IInv'
  BY <1>2, InvLoad
<1>3. ASSUME NEW w \in Workers, Erase(w) PROVE IInv'
  BY <1>3, InvErase
<1>4. ASSUME NEW w \in Workers, Check(w) PROVE IInv'
  BY <1>4, InvCheck
<1>5. ASSUME NEW w \in Workers, DrawBegin(w) PROVE IInv'
  BY <1>5, InvDrawBegin
<1>6. ASSUME NEW w \in Workers, DrawEnd(w) PROVE IInv'
  BY <1>6, InvDrawEnd
<1>7. ASSUME NEW w \in Workers, Refresh(w) PROVE IInv'
  BY <1>7, InvRefresh
<1>8. ASSUME NEW w \in Workers, Save(w) PROVE IInv'
  BY <1>8, InvSave
<1>9. ASSUME NEW w \in Workers, SetValue(w) \/ Remove(w) PROVE IInv'
  BY <1>9, InvHandler
<1>10. ASSUME NEW w \in Workers, Answer(w) PROVE IInv'
  BY <1>10, InvAnswer
<1>11. ASSUME NEW w \in Workers, Destroy(w) PROVE IInv'
  BY <1>11, InvDestroy
<1>12. CASE Tick
  BY <1>12, InvTick
<1>13. CASE Rest \/ UNCHANGED vars
  BY <1>13, InvSame DEF Rest
<1>14. QED
  BY <1>1, <1>2, <1>3, <1>4, <1>5, <1>6, <1>7, <1>8, <1>9, <1>10, <1>11, <1>12, <1>13 DEF Next

-----------------------------------------------------------------------------
\* The inductive invariant.
THEOREM Invariance == Spec => []IInv
<1>1. Init => IInv
  BY InvInit
<1>2. IInv /\ [Next]_vars => IInv'
  BY InvStep
<1>3. QED BY <1>1, <1>2, PTL DEF Spec

\* Types, for any number of workers and clients: among them that every session
\* is stored under its own id (SessionManager::getSession,
\* MemorySessionStorage::save).
THEOREM TypeCorrect == Spec => []TypeOK
<1>1. IInv => TypeOK
  BY DEF IInv, Typed
<1>2. QED BY <1>1, Invariance, PTL

\* A handler finds in its session only what its own client has put there, but
\* for ids that were generated at once: all that has to do with an id, the
\* cookies, the requests under way and the values in the data, is one client's
\* (SessionManager::getSession, generateSessionId).
THEOREM OwnDataOnly == Spec => []OwnData
<1>1. ASSUME IInv, NEW w \in Workers, held[w] # None, NEW d \in session[held[w]].data,
             IdOf(held[w]) \notin doubtful
      PROVE  d = client[w]
  <2>1. PICK o \in Made : held[w] = o
    BY <1>1 DEF IInv, Typed, Placed
  <2>2. at[w] # "idle" /\ client[w] \in Clients /\ IdOf(o) \in Ids /\ o \in Objects
    BY <1>1, <2>1, Basics DEF IInv, Typed, Placed
  <2>3. d \in Clients
    BY <1>1, <2>1, <2>2 DEF IInv, Typed, TypeOK
  <2>4. Claims(IdOf(o), client[w]) /\ Claims(IdOf(o), d)
    BY <1>1, <2>1, <2>2 DEF Claims, ByRequest, ByData
  <2>5. QED BY <1>1, <2>1, <2>2, <2>3, <2>4 DEF IInv, Owned
<1>2. IInv => OwnData
  BY <1>1 DEF OwnData, IdOf
<1>3. QED BY <1>2, Invariance, PTL

\* A destroyed session comes back only by a request that had it when it was
\* destroyed, but for ids that were generated at once
\* (SessionManager::destroySession, MemorySessionStorage::remove).
THEOREM DestroyedStaysAway == Spec => []NotRevived
<1>1. IInv => NotRevived
  BY DEF IInv
<1>2. QED BY <1>1, Invariance, PTL

\* Only a request's own look at its cookie's session can make it a new one.
LEMMA LostBy ==
    ASSUME IInv, Next, NEW w \in Workers,
           at[w] \in {"load", "erase", "check"}, at'[w] = "draw"
    PROVE  Load(w) \/ Erase(w) \/ Check(w)
<1>1. at \in [Workers -> Places]
  BY DEF IInv, Typed
<1>2. ASSUME NEW v \in Workers, NEW place, Goto(v, place), v # w PROVE FALSE
  BY <1>1, <1>2 DEF Goto
<1>3. ASSUME NEW v \in Workers, NEW c \in Clients, Request(v, c) PROVE FALSE
  BY <1>2, <1>3 DEF Request
<1>4. ASSUME NEW v \in Workers, Load(v) \/ Erase(v) \/ Check(v), v # w PROVE FALSE
  BY <1>2, <1>4 DEF Load, Erase, Check
<1>5. ASSUME NEW v \in Workers, DrawBegin(v) \/ DrawEnd(v) \/ Refresh(v) \/ Save(v)
      PROVE  FALSE
  BY <1>2, <1>5 DEF DrawBegin, DrawEnd, Refresh, Save
<1>6. ASSUME NEW v \in Workers, Answer(v) \/ Destroy(v) PROVE FALSE
  BY <1>2, <1>6 DEF Answer, Destroy, Respond
<1>7. ASSUME NEW v \in Workers, SetValue(v) \/ Remove(v) PROVE FALSE
  BY <1>7 DEF SetValue, Remove, requestVars
<1>8. CASE Tick \/ Rest
  BY <1>8 DEF Tick, Rest, vars, requestVars
<1>9. QED BY <1>3, <1>4, <1>5, <1>6, <1>7, <1>8 DEF Next

\* A client that sends one request at a time loses its session only when it was
\* destroyed, or when more than maxAge_ has passed since its last request,
\* whatever other clients do: what the request finds at each of its looks at
\* the session outlives the last use (SessionManager::getSession).
THEOREM SessionKept == Spec => KeptWhileUsed
<1>1. ASSUME IInv, Next, NEW w \in Workers,
             at[w] \in {"load", "check", "erase"} /\ at'[w] = "draw",
             client[w] \notin overlapped, id[w] \notin destroyed \cup doubtful
      PROVE  now > lastUse[client[w]] + MaxAge
  <2>1. Typed /\ KeptFor(w) /\ ~Excused(id[w]) /\ at[w] # "idle"
    BY <1>1 DEF IInv, Excused
  <2>2. PICK c \in Clients : client[w] = c /\ lastUse[c] \in Nat /\ c \notin overlapped
    BY <1>1, <2>1 DEF Typed, Placed
  <2>3. now \in Nat /\ MaxAge \in Nat
    BY <2>1, Basics
  <2>4. CASE Load(w)
    <3>1. sessions[id[w]] # None
      BY <2>1, <2>2, <2>4 DEF Load, KeptFor, Kept
    <3>2. QED BY <1>1, <2>1, <2>4, <3>1 DEF Load, Goto, Typed
  <2>5. CASE Erase(w)
    BY <2>1, <2>2, <2>5 DEF Erase, KeptFor
  <2>6. CASE Check(w)
    <3>1. PICK o \in Objects : held[w] = o /\ session[o].expiry \in Nat
      BY <2>1, <2>6, Basics DEF Check, Typed, Placed
    <3>2. session[o].expiry >= lastUse[c] + MaxAge
      BY <2>1, <2>2, <2>6, <3>1 DEF Check, KeptFor, Outlives
    <3>3. now > session[o].expiry
      BY <1>1, <2>1, <2>6, <3>1 DEF Check, Goto, IsExpired, Typed
    <3>4. QED BY <2>2, <2>3, <3>1, <3>2, <3>3
  <2>7. QED BY <1>1, <2>4, <2>5, <2>6, LostBy
<1>2. IInv /\ [Next]_vars =>
         [\A w \in Workers :
            at[w] \in {"load", "check", "erase"} /\ at'[w] = "draw" /\
            client[w] \notin overlapped /\ id[w] \notin destroyed \cup doubtful
                => now > lastUse[client[w]] + MaxAge]_vars
  BY <1>1
<1>3. QED BY <1>2, Invariance, PTL DEF Spec, KeptWhileUsed
=============================================================================
