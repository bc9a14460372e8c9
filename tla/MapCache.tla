------------------------------- MODULE MapCache -------------------------------
(***************************************************************************)
(* What lixyd's map cache promises, with no messages, no time-to-live and  *)
(* no map server: the life of one entry per prefix, and the kernel routes  *)
(* that lead into the lisp0 tunnel.  MapTable implements it.               *)
(***************************************************************************)
EXTENDS Prefixes

CONSTANTS
  Prefix,  \* the prefixes and host addresses of one address family
  Host     \* those of full length

VARIABLES
  state,   \* state[p]: the state of the entry for p, "none" without one
  routes   \* the prefixes routed to lisp0

vars == <<state, routes>>

\* maptable.h, MAPSTATE_*
EntryState == {"active", "negative", "drop", "queried", "static"}
State == EntryState \cup {"none"}

Entries == {p \in Prefix : state[p] # "none"}
Static == {p \in Prefix : state[p] = "static"}
Shielded(p) == \E s \in Static : StrictlyCovers(s, p)

Init == /\ state = [p \in Prefix |-> "none"]
        /\ routes = {}

\* An unknown destination is remembered while the map server is asked.
Query(h) ==
  /\ Covering(Entries, h) = {}
  /\ state' = [state EXCEPT ![h] = "queried"]
  /\ UNCHANGED routes

\* A mapping is learnt only where nothing is known yet, and gets a route.
Learn(p) ==
  /\ Covering(Entries, p) = {}
  /\ state' = [state EXCEPT ![p] = "active"]
  /\ routes' = routes \cup {p}

\* A negative answer replaces anything but a static entry.
Deny(p, s) ==
  /\ state[p] # "static"
  /\ state' = [state EXCEPT ![p] = s]
  /\ UNCHANGED routes

\* Entries that are neither static nor under a static one leave with age, the
\* active ones together with their routes.
Age(S) ==
  /\ \A p \in S : state[p] \notin {"none", "static"} /\ ~Shielded(p)
  /\ state' = [p \in Prefix |-> IF p \in S THEN "none" ELSE state[p]]
  /\ routes' = routes \ {p \in S : state[p] = "active"}

Install(p) ==
  /\ state[p] # "static"
  /\ state' = [state EXCEPT ![p] = "static"]
  /\ routes' = routes \cup {p}

\* (Faulty: the route goes, whatever becomes of the entry.)
UninstallRouteFirst(p) ==
  /\ Covering(Entries, p) # {}
  /\ LET q == LongestMatch(Entries, p)
     IN state' = IF state[q] \in {"active", "queried"} THEN state
                 ELSE [state EXCEPT ![q] = "none"]
  /\ routes' = routes \ {p}

\* The operator's removal takes the entry p falls under, whichever it is, and
\* the route of p.
Uninstall(p) ==
  /\ Covering(Entries, p) # {}
  /\ LET q == LongestMatch(Entries, p) IN
       /\ state[q] \notin {"active", "queried"}
       /\ state' = [state EXCEPT ![q] = "none"]
  /\ routes' = routes \ {p}

Next ==
  \/ \E h \in Host : Query(h)
  \/ \E p \in Prefix :
       \/ Learn(p)
       \/ \E s \in {"negative", "drop"} : Deny(p, s)
       \/ Install(p)
       \/ Uninstall(p)
  \/ \E S \in SUBSET Entries : Age(S)

Spec == Init /\ [][Next]_vars

===============================================================================
