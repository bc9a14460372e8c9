------------------------------- MODULE MapTable -------------------------------
(***************************************************************************)
(* lixyd's map table (maptable.c) and everything that changes it: the raw  *)
(* packet watcher (instance.c), the Map-Reply handler (map.c), the timer   *)
(* thread (maptable.c) and the operator's route commands (control.c).      *)
(*                                                                         *)
(* A step is one handler, except that a Map-Reply is handled one record at *)
(* a time, so that the other threads run between two records.  Time is     *)
(* counted in units of MAPTTL_CHECK_INTERVAL.  The kernel's tunnel routes  *)
(* and the mapping system are part of the model: requests and replies may  *)
(* be lost, delayed and duplicated.                                        *)
(***************************************************************************)
EXTENDS Prefixes

CONSTANTS
  Prefix,        \* the prefixes and host addresses of one address family
  Host,          \* those of full length
  ReplyPrefix,   \* the EID prefixes the mapping system answers with
  StaticPrefix,  \* the prefixes the operator configures as static routes
  NegativeAct,   \* the actions of the mapping system's negative replies
  DefaultTtl,    \* MAPTTL_DEFAULT
  RecordTtl,     \* the lifetimes of positive records
  GarbageTtl,    \* what the heap may hold where a queried node's ttl is
  MaxRecords     \* records in one Map-Reply

ASSUME PrefixAssumption == Prefix \subseteq Seq({0, 1})
ASSUME SubsetAssumption == /\ Host \subseteq Prefix
                           /\ ReplyPrefix \subseteq Prefix
                           /\ StaticPrefix \subseteq Prefix
ASSUME TtlAssumption == /\ DefaultTtl \in Nat \ {0}
                        /\ RecordTtl \subseteq Int
                        /\ GarbageTtl \subseteq Int
ASSUME ActAssumption ==
  NegativeAct \subseteq {"noaction", "native", "sendreq", "drop"}
ASSUME MaxRecordsAssumption == MaxRecords \in Nat \ {0}

VARIABLES
  rib,       \* lisp.rib: the entry of each prefix, NoEntry without one
  routes,    \* the prefixes the kernel routes to lisp0
  requests,  \* the prefixes of the Map-Requests on their way
  msg,       \* the records of the Map-Reply in hand not yet processed
  mapsrv     \* lisp.mapsrv_tuple is not empty

vars == <<rib, routes, requests, msg, mapsrv>>

EntryState == {"active", "negative", "drop", "queried", "static"}
NoEntry == [state |-> "none", ttl |-> 0]
Node(s, t) == [state |-> s, ttl |-> t]

\* A record with locators carries a lifetime; one without carries an action.
Record == [prefix : ReplyPrefix, act : {"locators"}, ttl : RecordTtl]
            \cup [prefix : ReplyPrefix, act : NegativeAct, ttl : {0}]

TypeOK ==
  /\ rib \in [Prefix -> [state : EntryState \cup {"none"}, ttl : Int]]
  /\ \A p \in Prefix : rib[p].state = "none" => rib[p] = NoEntry
  /\ routes \in SUBSET Prefix
  /\ requests \in SUBSET Prefix
  /\ msg \in Seq(Record)
  /\ mapsrv \in BOOLEAN

-----------------------------------------------------------------------------
(* The table.                                                              *)

Entries == {p \in Prefix : rib[p].state # "none"}

Matched(p) == Covering(Entries, p) # {}
search_mapnode(p) == LongestMatch(Entries, p)

\* Faulty: update_mapnode without its test for a static entry.
UpdatableAlways(p) == TRUE

\* A static entry is never replaced: update_mapnode returns NULL for it.
Updatable(p) == rib[p].state # "static"
update_mapnode(p, node) ==
  rib' = IF Updatable(p) THEN [rib EXCEPT ![p] = node] ELSE rib

\* Removes what search_mapnode(p) finds, not only the entry of p itself.
\* (Faulty: the node is only marked, its time-to-live stays.)
delete_mapnode_stale(p) == rib' = [rib EXCEPT ![search_mapnode(p)].state = "none"]
delete_mapnode(p) == rib' = [rib EXCEPT ![search_mapnode(p)] = NoEntry]

\* Nothing is sent while no map server is configured.
send_map_request(P) == requests' = IF mapsrv THEN requests \cup P ELSE requests

-----------------------------------------------------------------------------
(* The raw packet watcher.                                                 *)

\* The kernel answers a route lookup for h with lisp0, which has no gateway:
\* is_route_scope_link takes it for a destination on a local link.
Tunnelled(h) == Covering(routes, h) # {}

\* A packet for h leaves the host and nothing is known about h.
RawPacket(h) ==
  /\ ~Tunnelled(h)
  /\ ~Matched(h)
  /\ \E garbage \in GarbageTtl : update_mapnode(h, Node("queried", garbage))
  /\ send_map_request({h})
  /\ UNCHANGED <<routes, msg, mapsrv>>

-----------------------------------------------------------------------------
(* The Map-Reply handler.                                                  *)

\* The mapping system answers a request for q with records about prefixes
\* that overlap q.  The request may have been duplicated on its way.
ReceiveMapReply(q) ==
  /\ q \in requests
  /\ msg = <<>>
  /\ \E n \in 1..MaxRecords :
       msg' \in [1..n -> {r \in Record : Comparable(r.prefix, q)}]
  /\ requests' \in {requests, requests \ {q}}
  /\ UNCHANGED <<rib, routes, mapsrv>>

Lose(q) ==
  /\ q \in requests
  /\ requests' = requests \ {q}
  /\ UNCHANGED <<rib, routes, msg, mapsrv>>

RecordIs(A) == msg # <<>> /\ Head(msg).act \in A

\* A mapping for a prefix the table already matches refreshes the entry it
\* matched; the handler returns, and the records behind it are never read.
KnownMapping ==
  /\ RecordIs({"locators"})
  /\ Matched(Head(msg).prefix)
  /\ rib' = [rib EXCEPT ![search_mapnode(Head(msg).prefix)].ttl = DefaultTtl]
  /\ msg' = <<>>
  /\ UNCHANGED <<routes, requests, mapsrv>>

NewMapping ==
  /\ RecordIs({"locators"})
  /\ ~Matched(Head(msg).prefix)
  /\ update_mapnode(Head(msg).prefix, Node("active", Head(msg).ttl))
  /\ routes' = IF Updatable(Head(msg).prefix)
                 THEN routes \cup {Head(msg).prefix}
                 ELSE routes
  /\ msg' = Tail(msg)
  /\ UNCHANGED <<requests, mapsrv>>

\* process_lisp_map_reply_record_loc_is_zero, the actions that make an entry.
NegativeMapping ==
  /\ RecordIs({"native", "drop"})
  /\ update_mapnode(Head(msg).prefix,
                    Node(IF Head(msg).act = "native" THEN "negative"
                                                     ELSE "drop",
                         DefaultTtl))
  /\ msg' = Tail(msg)
  /\ UNCHANGED <<routes, requests, mapsrv>>

\* ... the action that only asks again, and the one that does nothing.
AskAgain ==
  /\ RecordIs({"sendreq"})
  /\ send_map_request({Head(msg).prefix})
  /\ msg' = Tail(msg)
  /\ UNCHANGED <<rib, routes, mapsrv>>

NoAction ==
  /\ RecordIs({"noaction"})
  /\ msg' = Tail(msg)
  /\ UNCHANGED <<rib, routes, requests, mapsrv>>

ProcessRecord ==
  KnownMapping \/ NewMapping \/ NegativeMapping \/ AskAgain \/ NoAction

-----------------------------------------------------------------------------
(* The timer thread.                                                       *)

Static == {p \in Prefix : rib[p].state = "static"}

\* Faulty: the walk goes on below a static entry.
ShieldedNowhere(p) == FALSE

\* PATRICIA_WALK_BREAK on a static entry skips the subtree below it.
Shielded(p) == \E s \in Static : StrictlyCovers(s, p)
\* (Faulty: an unanswered query does not grow old.)
VisitedAnswered == {p \in Entries : rib[p].state \notin {"static", "queried"} /\ ~Shielded(p)}
\* (Faulty: only entries in use or asked for grow old.)
VisitedInUse == {p \in Entries : rib[p].state \in {"active", "queried"} /\ ~Shielded(p)}
Visited == {p \in Entries \ Static : ~Shielded(p)}

Expired == {p \in Visited : rib[p].ttl - 1 <= 0}
Reasked == {p \in Visited \ Expired :
              rib[p].state \in {"active", "negative", "queried"}}

\* Faulty: the routes of expired entries stay.
ScanKeepingRoutes ==
  /\ rib' = [p \in Prefix |-> IF p \in Expired THEN NoEntry ELSE rib[p]]
  /\ send_map_request(Reasked)
  /\ UNCHANGED <<routes, msg, mapsrv>>

\* One pass of lisp_maptable_thread over the tree.
Scan ==
  /\ rib' = [p \in Prefix |-> CASE p \in Expired -> NoEntry
                                [] p \in Visited \ Expired ->
                                     [rib[p] EXCEPT !.ttl = @ - 1]
                                [] OTHER -> rib[p]]
  /\ routes' = routes \ {p \in Expired : rib[p].state = "active"}
  /\ send_map_request(Reasked)
  /\ UNCHANGED <<msg, mapsrv>>

-----------------------------------------------------------------------------
(* The operator.                                                           *)

install_mapnode_static(p) ==
  /\ update_mapnode(p, Node("static", 0))
  /\ routes' = IF Updatable(p) THEN routes \cup {p} ELSE routes
  /\ UNCHANGED <<requests, msg, mapsrv>>

Uninstallable(p) ==
  /\ Matched(p)
  /\ rib[search_mapnode(p)].state \notin {"active", "queried"}

\* Faulty: the route is withdrawn before the entry's state is looked at.
UninstallRouteFirst(p) ==
  /\ Matched(p)
  /\ IF Uninstallable(p) THEN delete_mapnode(p) ELSE rib' = rib
  /\ routes' = routes \ {p}
  /\ UNCHANGED <<requests, msg, mapsrv>>

uninstall_mapnode_static(p) ==
  /\ Uninstallable(p)
  /\ delete_mapnode(p)
  /\ routes' = routes \ {p}
  /\ UNCHANGED <<requests, msg, mapsrv>>

set_lisp_mapserver ==
  /\ mapsrv' = TRUE
  /\ UNCHANGED <<rib, routes, requests, msg>>

unset_lisp_mapserver ==
  /\ mapsrv' = FALSE
  /\ UNCHANGED <<rib, routes, requests, msg>>

-----------------------------------------------------------------------------

Init ==
  /\ rib = [p \in Prefix |-> NoEntry]
  /\ routes = {}
  /\ requests = {}
  /\ msg = <<>>
  /\ mapsrv = FALSE

Next ==
  \/ \E h \in Host : RawPacket(h)
  \/ \E q \in Prefix : ReceiveMapReply(q) \/ Lose(q)
  \/ ProcessRecord
  \/ Scan
  \/ \E p \in StaticPrefix :
       install_mapnode_static(p) \/ uninstall_mapnode_static(p)
  \/ set_lisp_mapserver
  \/ unset_lisp_mapserver

Spec == Init /\ [][Next]_vars

\* The timer thread sleeps and scans for ever, the message thread finishes the
\* reply it has in hand, and a packet does not stay in the network for ever.
Fairness == /\ WF_vars(Scan)
            /\ WF_vars(ProcessRecord)
            /\ \A q \in Prefix : WF_vars(Lose(q))

FairSpec == Spec /\ Fairness

-----------------------------------------------------------------------------
(* What holds.                                                             *)

\* Every destination the daemon encapsulates for is routed into the tunnel:
\* whatever the timer, the replies and the operator do to the table, an
\* active or static entry never stands without its kernel route
\* (add_route_to_tun in map.c and maptable.c, del_route_to_tun in maptable.c).
TunnelRouteInv ==
  \A p \in Prefix : rib[p].state \in {"active", "static"} => p \in routes

\* Only the operator takes a static entry away: no reply, no lookup and no
\* expiry changes its state (the test in update_mapnode, the walk's BREAK).
StaticStays ==
  \A p \in Static : \/ rib'[p].state = "static"
                   \/ \E q \in StaticPrefix : /\ uninstall_mapnode_static(q)
                                              /\ p = search_mapnode(q)
StaticSticky == [][StaticStays]_vars

TunnelEntries == {p \in Prefix : rib[p].state \in {"active", "static"}}

\* An entry that stops carrying packets takes its kernel route along, with two
\* exceptions in the code: a negative reply that takes an active entry's place
\* (map.c) and the operator naming a more specific prefix than the entry he
\* hits (maptable.c).  Expiry in particular never strands a route.
RoutesFollow ==
  \A p \in TunnelEntries \ TunnelEntries' : p \in routes' =>
    \/ RecordIs({"native", "drop"}) /\ Head(msg).prefix = p
    \/ \E q \in StaticPrefix : /\ StrictlyCovers(p, q)
                               /\ uninstall_mapnode_static(q)
RoutesFollowEntries == [][RoutesFollow]_vars

Cache == INSTANCE MapCache WITH
           state <- [p \in Prefix |-> rib[p].state]

\* The table implements the map cache: every handler is one of its operations
\* on the state and the routes, or leaves both alone.
ImplementsMapCache == Cache!Spec

\* A destination does not stay in the queried state: unless a static entry
\* shields it from the timer, it is answered or given up.  (Where the mapping
\* system answers with host prefixes it may be refreshed for ever.)
QueriedIsTransient ==
  \A h \in Host \ ReplyPrefix :
    rib[h].state = "queried" ~> (rib[h].state # "queried" \/ Shielded(h))

\* The cache lives off the map server: once the operator has removed the last
\* map server, what was learnt from it goes, except below static entries.
MappingNeedsMapServer ==
  (<>[](~mapsrv)) =>
    \A p \in Prefix : []<>(rib[p].state \in {"none", "static"} \/ Shielded(p))

-----------------------------------------------------------------------------
(* What the repository says and the code does not do.                      *)

\* map.c:742 "register lcoator to maptable": after a record with locators the
\* table has a locator for its prefix.
LocatorRegistered ==
  [][RecordIs({"locators"}) /\ msg' # msg
       => \E q \in Prefix : /\ Covers(q, Head(msg).prefix)
                            /\ rib'[q].state \in {"active", "static"}]_vars

===============================================================================
