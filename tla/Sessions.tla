------------------------------ MODULE Sessions ------------------------------
(***************************************************************************)
(* SessionManager over MemorySessionStorage, used by several workers:      *)
(* nothing in it takes a lock.  getSession looks the cookie's session up,  *)
(* erases it there when it has expired, looks at the expiry once more, and *)
(* otherwise refreshes and saves it; a handler then uses the session that  *)
(* it was given, which other workers may hold through the same pointer.    *)
(*                                                                         *)
(* Calls of the map are atomic here: what two of them at once do to its    *)
(* nodes is left out.  The random generator, which is not locked either,   *)
(* is read by one step and written by another.  No program of the          *)
(* repository installs a manager; handlers are taken to set and remove     *)
(* values and to destroy the session of their own request at its end.      *)
(***************************************************************************)
EXTENDS Integers, FiniteSets

CONSTANTS
    Workers,        \* threads of the HTTP server
    Clients,        \* browsers, each with a cookie of its own
    MaxAge,         \* maxAge_
    MaxSessions,    \* bound on the sessions made, for model checking
    MaxRequests,    \* bound on the requests, for model checking
    MaxTime         \* bound on the clock, for model checking

ASSUME SessionAssumption ==
    /\ {MaxAge, MaxSessions, MaxRequests, MaxTime} \subseteq Nat
    /\ IsFiniteSet(Workers)

Objects == 1 .. MaxSessions
Ids == 1 .. MaxSessions
None == 0

VARIABLES
    now,        \* system_clock
    rng,        \* rng_: the id that it would generate next
    made,       \* how many sessions there have been
    session,    \* the sessions: sessionId_, expiryTime_, who wrote data_
    sessions,   \* sessions_: from ids to sessions
    cookie,     \* the cookie of each client
    requests,   \* how many requests there have been
    at,         \* where each worker is in a request
    client,     \* whose request it is
    id,         \* the cookie's id, then what it read from rng_, which stays
                \* until the response if it has made a session
    held,       \* the session that it has
    \* History, which no step of the code reads:
    doubtful,   \* ids generated while another worker was generating one
    overlapped, \* clients that had two requests served at once
    lastUse,    \* when a client's session was last refreshed
    destroyed,  \* ids that were destroyed
    inUse       \* sessions that a worker held while another destroyed them

requestVars == <<at, client, id, held>>
historyVars == <<doubtful, overlapped, lastUse, destroyed, inUse>>
vars == <<now, rng, made, session, sessions, cookie, requests, requestVars, historyVars>>

Init ==
    /\ now = 0
    /\ rng = 1
    /\ made = 0
    /\ session = [o \in Objects |-> [id |-> None, expiry |-> 0, data |-> {}]]
    /\ sessions = [i \in Ids |-> None]
    /\ cookie = [c \in Clients |-> None]
    /\ requests = 0
    /\ at = [w \in Workers |-> "idle"]
    /\ client = [w \in Workers |-> None]
    /\ id = [w \in Workers |-> None]
    /\ held = [w \in Workers |-> None]
    /\ doubtful = {}
    /\ overlapped = {}
    /\ lastUse = [c \in Clients |-> 0]
    /\ destroyed = {}
    /\ inUse = {}

Busy == {w \in Workers : at[w] # "idle"}
Goto(w, place) == at' = [at EXCEPT ![w] = place]

\* A request of client c, with its cookie.
Request(w, c) ==
    /\ at[w] = "idle"
    /\ requests < MaxRequests
    /\ requests' = requests + 1
    /\ Goto(w, IF cookie[c] = None THEN "draw" ELSE "load")
    /\ client' = [client EXCEPT ![w] = c]
    /\ id' = [id EXCEPT ![w] = cookie[c]]
    /\ overlapped' = IF \E v \in Busy : client[v] = c THEN overlapped \cup {c} ELSE overlapped
    /\ UNCHANGED <<now, rng, made, session, sessions, cookie, held,
                   doubtful, lastUse, destroyed, inUse>>

-----------------------------------------------------------------------------
IsExpired(o) == now > session[o].expiry

\* load finds the cookie's session and it is live, or finds it expired, or
\* finds none.
Load(w) ==
    LET o == sessions[id[w]] IN
    /\ at[w] = "load"
    /\ \/ o # None /\ ~IsExpired(o) /\ Goto(w, "check") /\ held' = [held EXCEPT ![w] = o]
       \/ o # None /\ IsExpired(o) /\ Goto(w, "erase") /\ UNCHANGED held
       \/ o = None /\ Goto(w, "draw") /\ UNCHANGED held
    /\ UNCHANGED <<now, rng, made, session, sessions, cookie, requests, client, id, historyVars>>

\* load erases what it has found, whether or not that was refreshed meanwhile.
Erase(w) ==
    /\ at[w] = "erase"
    /\ Goto(w, "draw")
    /\ sessions' = [sessions EXCEPT ![id[w]] = None]
    /\ UNCHANGED <<now, rng, made, session, cookie, requests, client, id, held, historyVars>>

\* getSession looks at the expiry again.
Check(w) ==
    /\ at[w] = "check"
    /\ \/ IsExpired(held[w]) /\ Goto(w, "draw") /\ held' = [held EXCEPT ![w] = None]
       \/ ~IsExpired(held[w]) /\ Goto(w, "refresh") /\ UNCHANGED held
    /\ id' = [id EXCEPT ![w] = None]
    /\ UNCHANGED <<now, rng, made, session, sessions, cookie, requests, client, historyVars>>

-----------------------------------------------------------------------------
\* Variants with a fault: the generator does not move on; a client that comes
\* with a cookie gets that id again.
StandsStill(i) == i
KeepsCookie(w) == IF cookie[client[w]] # None THEN cookie[client[w]] ELSE id[w]

\* The state of the generator after it has generated id i.
NextState(i) == i + 1

\* The id of the session that worker w makes.
NewId(w) == id[w]

Drawing == {w \in Workers : at[w] = "drawing"}

\* generateSessionId reads the generator's state and later writes it back.
DrawBegin(w) ==
    /\ at[w] = "draw"
    /\ made + Cardinality(Drawing) < MaxSessions
    /\ Goto(w, "drawing")
    /\ id' = [id EXCEPT ![w] = rng]
    /\ doubtful' = IF Drawing = {} THEN doubtful
                    ELSE doubtful \cup {rng} \cup {id[v] : v \in Drawing}
    /\ UNCHANGED <<now, rng, made, session, sessions, cookie, requests, client, held,
                   overlapped, lastUse, destroyed, inUse>>

\* A session with the new id is made, not yet stored.
DrawEnd(w) ==
    /\ at[w] = "drawing"
    /\ Goto(w, "refresh")
    /\ rng' = NextState(id[w])
    /\ made' = made + 1
    /\ session' = [session EXCEPT ![made + 1] =
                       [id |-> NewId(w), expiry |-> now + MaxAge, data |-> {}]]
    /\ held' = [held EXCEPT ![w] = made + 1]
    /\ UNCHANGED <<now, sessions, cookie, requests, client, id, historyVars>>

-----------------------------------------------------------------------------
\* Variant with a fault: only making a session sets its expiry.
NotRefreshed(o) == session[o].expiry

Refreshed(o) == now + MaxAge

Refresh(w) ==
    /\ at[w] = "refresh"
    /\ Goto(w, "save")
    /\ session' = [session EXCEPT ![held[w]].expiry = Refreshed(held[w])]
    /\ lastUse' = [lastUse EXCEPT ![client[w]] = now]
    /\ UNCHANGED <<now, rng, made, sessions, cookie, requests, client, id, held,
                   doubtful, overlapped, destroyed, inUse>>

\* Variant with a fault: under the id that the cookie had.
UnderCookie(w) == IF cookie[client[w]] # None THEN cookie[client[w]] ELSE session[held[w]].id

\* The id under which a session is saved.
SavedUnder(w) == session[held[w]].id

Saved(w) == sessions' = [sessions EXCEPT ![SavedUnder(w)] = held[w]]

\* getSession saves the session, new or not.
Save(w) ==
    /\ at[w] = "save"
    /\ Goto(w, "use")
    /\ Saved(w)
    /\ UNCHANGED <<now, rng, made, session, cookie, requests, client, id, held, historyVars>>

\* The handler sets a value, and setValue saves the session.
SetValue(w) ==
    /\ at[w] = "use"
    /\ session' = [session EXCEPT ![held[w]].data = @ \cup {client[w]}]
    /\ Saved(w)
    /\ UNCHANGED <<now, rng, made, cookie, requests, requestVars, historyVars>>

\* The handler removes its value or clears the data; neither saves the session.
Remove(w) ==
    /\ at[w] = "use"
    /\ \E kept \in {session[held[w]].data \ {client[w]}, {}} :
          session' = [session EXCEPT ![held[w]].data = kept]
    /\ UNCHANGED <<now, rng, made, sessions, cookie, requests, requestVars, historyVars>>

\* The request is over; the response sets the cookie if the session is new.
Respond(w) ==
    /\ at[w] = "use"
    /\ Goto(w, "idle")
    /\ cookie' = [cookie EXCEPT ![client[w]] =
                      IF id[w] = None THEN @ ELSE session[held[w]].id]
    /\ client' = [client EXCEPT ![w] = None]
    /\ id' = [id EXCEPT ![w] = None]
    /\ held' = [held EXCEPT ![w] = None]
    /\ UNCHANGED <<now, rng, made, session, requests>>

Answer(w) == Respond(w) /\ UNCHANGED <<sessions, historyVars>>

\* destroySession with the session's id, and then the response.
Destroy(w) ==
    LET i == session[held[w]].id IN
    /\ Respond(w)
    /\ sessions' = [sessions EXCEPT ![i] = None]
    /\ destroyed' = destroyed \cup {i}
    /\ inUse' = inUse \cup {o \in {held[v] : v \in Busy \ {w}} : o # None /\ session[o].id = i}
    /\ UNCHANGED <<doubtful, overlapped, lastUse>>

Tick ==
    /\ now < MaxTime
    /\ now' = now + 1
    /\ UNCHANGED <<rng, made, session, sessions, cookie, requests, requestVars, historyVars>>

\* No request is being served that may make another session.
Rest ==
    /\ \A w \in Busy : at[w] = "draw" /\ made = MaxSessions
    /\ UNCHANGED vars

Next ==
    \/ \E w \in Workers, c \in Clients : Request(w, c)
    \/ \E w \in Workers :
          \/ Load(w) \/ Erase(w) \/ Check(w) \/ DrawBegin(w) \/ DrawEnd(w)
          \/ Refresh(w) \/ Save(w) \/ SetValue(w) \/ Remove(w)
          \/ Answer(w) \/ Destroy(w)
    \/ Tick
    \/ Rest

Spec == Init /\ [][Next]_vars

-----------------------------------------------------------------------------
\* Types; every session is stored under its own id.
TypeOK ==
    /\ now \in 0 .. MaxTime
    /\ rng \in 1 .. MaxSessions + 1
    /\ made \in 0 .. MaxSessions
    /\ session \in [Objects -> [id : Ids \cup {None}, expiry : Nat, data : SUBSET Clients]]
    /\ sessions \in [Ids -> Objects \cup {None}]
    /\ \A i \in Ids : sessions[i] # None => session[sessions[i]].id = i
    /\ cookie \in [Clients -> Ids \cup {None}]
    /\ held \in [Workers -> Objects \cup {None}]

\* A handler finds in its session only what its own client has put there: no
\* session comes to be shared when it expires, is made anew, destroyed or saved
\* again, but for ids that were generated while another was being generated
\* (SessionManager::getSession, generateSessionId).
OwnData ==
    \A w \in Workers : held[w] # None =>
        \/ session[held[w]].data \subseteq {client[w]}
        \/ session[held[w]].id \in doubtful

\* A client that sends one request at a time loses its session only when it was
\* destroyed or when more than maxAge_ has passed since its last request, not
\* since it was made, whatever other clients do (SessionManager::getSession).
KeptWhileUsed ==
    [][\A w \in Workers :
         at[w] \in {"load", "check", "erase"} /\ at'[w] = "draw" /\
         client[w] \notin overlapped /\ id[w] \notin destroyed \cup doubtful
             => now > lastUse[client[w]] + MaxAge]_vars

\* A destroyed session comes back only by a request that was using it when it
\* was destroyed and that saves it afterwards; no later request makes one with
\* its id, unless ids were generated at once (SessionManager::destroySession).
NotRevived ==
    \A i \in destroyed \ doubtful : sessions[i] # None => sessions[i] \in inUse
=============================================================================
