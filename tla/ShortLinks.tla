----------------------------- MODULE ShortLinks -----------------------------
(***************************************************************************)
(* What the service promises of its links: a short id, once it leads       *)
(* somewhere, leads there for good, and an id is given out only for the    *)
(* url that it leads to.  Nothing is said of ids that lead somewhere and   *)
(* were never given out: a request may fail after its link was created.    *)
(***************************************************************************)
CONSTANTS Keys, Urls, NoUrl

VARIABLES
    links,      \* where each id leads, NoUrl for nowhere
    given       \* the urls that each id has been given out for

linkVars == <<links, given>>

Init ==
    /\ links = [id \in Keys |-> NoUrl]
    /\ given = [id \in Keys |-> {}]

Create(id, url) ==
    /\ links[id] = NoUrl
    /\ links' = [links EXCEPT ![id] = url]
    /\ UNCHANGED given

GiveOut(id, url) ==
    /\ links[id] = url
    /\ given' = [given EXCEPT ![id] = @ \cup {url}]
    /\ UNCHANGED links

Next == \E id \in Keys, url \in Urls : Create(id, url) \/ GiveOut(id, url)

Spec == Init /\ [][Next]_linkVars
=============================================================================
