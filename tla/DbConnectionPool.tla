-------------------------- MODULE DbConnectionPool --------------------------
(***************************************************************************)
(* DbConnectionPool: a queue of connections to MySQL under one mutex, the  *)
(* condition variable on which getConnection waits while it is empty, and  *)
(* the detached thread that pings the queued connections.  A client is a   *)
(* thread inside MysqlUtil::executeQuery or executeUpdate: it gets a       *)
(* connection, runs one statement and gives the connection back, also when *)
(* the statement throws.                                                   *)
(*                                                                         *)
(* A critical section is one step.  The only one that lasts is that of the *)
(* checking thread, which sleeps with the mutex while the queue is empty.  *)
(***************************************************************************)
EXTENDS Naturals, Sequences, FiniteSets

CONSTANTS
    Clients,
    PoolSize,           \* poolSize of init
    MaxConnections,     \* bound: connections created, by failed calls of init too
    MaxBreaks           \* bound: links that MySQL or the network closes

ASSUME PoolAssumption ==
    /\ Clients # {} /\ IsFiniteSet(Clients)
    /\ {PoolSize, MaxConnections, MaxBreaks} \subseteq Nat
    /\ 1 <= PoolSize /\ PoolSize <= MaxConnections

VARIABLES
    connections,    \* connections_, a queue of connections 1, 2, ...
    initialized,    \* initialized_
    created,        \* how many connections there are
    alive,          \* which of them a ping would find alive
    breaks,         \* how many links have broken
    phase,          \* where each client is
    conn,           \* the connection that it has taken, 0 when none
    asleep,         \* the checking thread sleeps with the mutex
    connsToCheck    \* what the checking thread still has to ping

poolVars == <<connections, initialized, created, alive, breaks, phase, conn, asleep, connsToCheck>>
queue == <<connections, initialized, created>>
clients == <<phase, conn>>
checker == <<asleep, connsToCheck>>
links == <<alive, breaks>>

Nobody == 0
All == 1..created
Waiting(p) == {c \in Clients : p[c] = "waiting"}
MutexFree == ~asleep

PoolInit ==
    /\ connections = <<>> /\ initialized = FALSE
    /\ created = 0 /\ alive = {} /\ breaks = 0
    /\ phase = [c \in Clients |-> "idle"]
    /\ conn = [c \in Clients |-> Nobody]
    /\ asleep = FALSE /\ connsToCheck = <<>>

-----------------------------------------------------------------------------
\* init creates PoolSize connections, or throws at the one after the first n,
\* which stay in the queue of a pool that is not initialized.
InitPool(n) ==
    /\ MutexFree /\ ~initialized
    /\ created + n <= MaxConnections
    /\ connections' = connections \o [i \in 1..n |-> created + i]
    /\ created' = created + n
    /\ alive' = alive \cup (created + 1)..(created + n)
    /\ initialized' = (n = PoolSize)
    /\ UNCHANGED <<breaks, clients, checker>>

-----------------------------------------------------------------------------
\* Variant with a fault: whoever returns from the wait does not look again.
WaitsOnce(c) == connections = <<>> /\ phase[c] = "idle"

\* The condition of getConnection's loop.
HasToWait(c) == connections = <<>>

Popped(q) == SubSeq(q, 2, Len(q))

FirstOf(q) == IF q = <<>> THEN Nobody ELSE Head(q)

Contends(c) == phase[c] \in {"idle", "woken"} /\ MutexFree

Take(c) ==
    /\ Contends(c) /\ ~HasToWait(c)
    /\ conn' = [conn EXCEPT ![c] = FirstOf(connections)]
    /\ connections' = Popped(connections)
    /\ phase' = [phase EXCEPT ![c] = "pinging"]
    /\ UNCHANGED <<initialized, created, links, checker>>

\* cv_.wait gives the mutex up and blocks, in one step.
Wait(c) ==
    /\ Contends(c) /\ HasToWait(c) /\ initialized
    /\ phase' = [phase EXCEPT ![c] = "waiting"]
    /\ UNCHANGED <<queue, conn, links, checker>>

\* "Connection pool not initialized".
Refuse(c) ==
    /\ Contends(c) /\ HasToWait(c) /\ ~initialized
    /\ phase' = [phase EXCEPT ![c] = "idle"]
    /\ UNCHANGED <<queue, conn, links, checker>>

\* The standard lets a wait return without a notification.
WakeSpuriously(c) ==
    /\ phase[c] = "waiting"
    /\ phase' = [phase EXCEPT ![c] = "woken"]
    /\ UNCHANGED <<queue, conn, links, checker>>

\* Outside the mutex, a connection that does not answer is reconnected, which
\* throws when MySQL is out of reach.
Ping(c) ==
    /\ phase[c] = "pinging"
    /\ \/ conn[c] \in alive /\ phase' = [phase EXCEPT ![c] = "holding"] /\ UNCHANGED alive
       \/ conn[c] \notin alive /\ phase' = [phase EXCEPT ![c] = "holding"] /\ alive' = alive \cup {conn[c]}
       \/ conn[c] \notin alive /\ phase' = [phase EXCEPT ![c] = "failed"] /\ UNCHANGED alive
    /\ UNCHANGED <<queue, conn, breaks, checker>>

\* Variants with a fault: the connection that could not be reconnected is
\* dropped; nobody is notified.
DropsFailed(c) == IF phase[c] = "failed" THEN connections ELSE Append(connections, conn[c])
NotifiesNobody(p) == {p}

\* connections_.push and cv_.notify_one, which wakes any one of those who wait.
GivenBack(c) == Append(connections, conn[c])
Notified(p) ==
    IF Waiting(p) = {} THEN {p} ELSE {[p EXCEPT ![w] = "woken"] : w \in Waiting(p)}

PushAndNotify(c) ==
    /\ MutexFree
    /\ connections' = GivenBack(c)
    /\ conn' = [conn EXCEPT ![c] = Nobody]
    /\ phase' \in Notified([phase EXCEPT ![c] = "idle"])
    /\ UNCHANGED <<initialized, created, links, checker>>

\* The deleter of the pointer that getConnection returned, once the statement
\* has been run or has thrown; and the catch of getConnection.
Release(c) == phase[c] = "holding" /\ PushAndNotify(c)
GiveUp(c) == phase[c] = "failed" /\ PushAndNotify(c)

-----------------------------------------------------------------------------
\* checkConnections copies the queue and pings outside the mutex,
CopyQueue ==
    /\ MutexFree /\ connsToCheck = <<>> /\ connections # <<>>
    /\ connsToCheck' = connections
    /\ UNCHANGED <<queue, clients, links, asleep>>

CheckNext ==
    /\ connsToCheck # <<>>
    /\ connsToCheck' = Tail(connsToCheck)
    /\ alive' \in {alive, alive \cup {Head(connsToCheck)}}
    /\ UNCHANGED <<queue, clients, breaks, asleep>>

\* or finds it empty and sleeps for a second, inside the mutex.
FallAsleep ==
    /\ MutexFree /\ connsToCheck = <<>> /\ connections = <<>>
    /\ asleep' = TRUE
    /\ UNCHANGED <<queue, clients, links, connsToCheck>>

WakeUp ==
    /\ asleep
    /\ asleep' = FALSE
    /\ UNCHANGED <<queue, clients, links, connsToCheck>>

Break ==
    /\ breaks < MaxBreaks
    /\ breaks' = breaks + 1
    /\ \E x \in alive : alive' = alive \ {x}
    /\ UNCHANGED <<queue, clients, checker>>

Use(c) == Take(c) \/ Wait(c) \/ Refuse(c) \/ WakeSpuriously(c) \/ Ping(c) \/ Release(c) \/ GiveUp(c)

PoolNext ==
    \/ \E n \in 0..PoolSize : InitPool(n)
    \/ \E c \in Clients : Use(c)
    \/ CopyQueue \/ CheckNext \/ FallAsleep \/ WakeUp
    \/ Break

PoolSpec == PoolInit /\ [][PoolNext]_poolVars

-----------------------------------------------------------------------------
\* The type invariant: a client has a connection exactly from the moment it has
\* taken one until it has given it back, and only an initialized pool is waited for.
PoolTypeOK ==
    /\ created \in 0..MaxConnections /\ alive \subseteq All /\ breaks \in 0..MaxBreaks
    /\ connections \in Seq(All) /\ connsToCheck \in Seq(All)
    /\ {initialized, asleep} \subseteq BOOLEAN
    /\ phase \in [Clients -> {"idle", "waiting", "woken", "pinging", "holding", "failed"}]
    /\ conn \in [Clients -> All \cup {Nobody}]
    /\ \A c \in Clients : conn[c] # Nobody <=> phase[c] \in {"pinging", "holding", "failed"}
    /\ ~initialized => Waiting(phase) = {}

\* No connection is lost and none is shared: each one that init created is in
\* the queue once, or with one client, whatever threw on the way.
EachInOnePlace ==
    \A x \in All :
        Cardinality({i \in 1..Len(connections) : connections[i] = x})
          + Cardinality({c \in Clients : conn[c] = x}) = 1

\* No wake-up is lost: while connections are queued and a client waits, at
\* least as many clients as there are connections have been woken and not yet
\* run, also when others came in between and when reconnecting failed.
NoLostWakeup ==
    Waiting(phase) # {} => Len(connections) <= Cardinality({c \in Clients : phase[c] = "woken"})
=============================================================================
