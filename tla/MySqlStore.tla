----------------------------- MODULE MySqlStore -----------------------------
(***************************************************************************)
(* MySqlStore as the only store: get and setNX, one SQL statement each.  A *)
(* statement may throw, executed or not, also because all threads share    *)
(* one connection without a lock.  The ttl of a row may run out at any     *)
(* moment; the row itself stays.                                           *)
(***************************************************************************)
EXTENDS IStore

VARIABLES
    mysql,      \* the row of each key in short_url, NoRow when absent
    overdue,    \* keys whose row is older than its ttl
    failed      \* history: some command or statement has failed

Places == {"select", "insert"}
Entry(op) == IF op = "get" THEN "select" ELSE "insert"
Key(w) == call[w].key
NoRow == [url |-> NoUrl, ttl |-> 0]

MySqlInit ==
    /\ StoreInit
    /\ mysql = [k \in Keys |-> NoRow]
    /\ overdue = {}
    /\ failed = FALSE

\* A row that is overdue counts as none.
Select(w) ==
    /\ at[w] = "select"
    /\ Finish(w, IF Key(w) \in overdue THEN NoUrl ELSE mysql[Key(w)].url)
    /\ UNCHANGED <<mysql, overdue, failed>>

\* Variant with a fault: an id whose row is overdue may be used again.
FreeWhenOverdue(k) == mysql[k] = NoRow \/ k \in overdue

\* Whether INSERT meets no duplicate of the primary key.
Free(k) == mysql[k] = NoRow

Inserted(w) == mysql' = [mysql EXCEPT ![Key(w)] = [url |-> call[w].url, ttl |-> call[w].ttl]]

Insert(w) ==
    /\ at[w] = "insert"
    /\ \/ Free(Key(w)) /\ Inserted(w) /\ Finish(w, "true")
       \/ ~Free(Key(w)) /\ UNCHANGED mysql /\ Finish(w, "false")
    /\ UNCHANGED <<overdue, failed>>

\* setNX catches what a statement throws and returns false; get does not.
Throws(w) ==
    /\ at[w] \in Places
    /\ failed' = TRUE
    /\ \/ UNCHANGED mysql
       \/ at[w] = "insert" /\ Free(Key(w)) /\ Inserted(w)
    /\ Finish(w, IF at[w] = "insert" THEN "false" ELSE "threw")
    /\ UNCHANGED overdue

RunOut(k) ==
    /\ mysql[k].ttl > 0 /\ k \notin overdue
    /\ overdue' = overdue \cup {k}
    /\ UNCHANGED <<storeCallVars, mysql, failed>>

Step(w) == Select(w) \/ Insert(w) \/ Throws(w)

MySqlTypeOK ==
    /\ mysql \in [Keys -> [url : Urls \cup {NoUrl}, ttl : Ttls \cup {0}]]
    /\ overdue \subseteq Keys /\ \A k \in overdue : mysql[k].ttl > 0
    /\ failed \in BOOLEAN
=============================================================================
