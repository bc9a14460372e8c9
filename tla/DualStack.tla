------------------------------- MODULE DualStack -------------------------------
(***************************************************************************)
(* The map table with both address families in it.  lixyd keeps IPv4 and   *)
(* IPv6 prefixes in one tree (maptable.c) that compares address bits only: *)
(* prefixes of the two families meet where their first bits are the same,  *)
(* an IPv4 host prefix being no longer than an IPv6 network.  A tree node  *)
(* keeps the family it was made with; the kernel's routes are kept per     *)
(* family.  Map servers and time-to-live are left out (MapTable has them). *)
(***************************************************************************)
EXTENDS Prefixes, FiniteSets

CONSTANTS
  Prefix,   \* the prefixes in use, of both families, as bits
  Host,     \* Host[f]: those that are hosts of family f
  Mapped    \* Mapped[f]: those the mapping system answers with

Family == {"ipv4", "ipv6"}

ASSUME PrefixAssumption == Prefix \subseteq Seq({0, 1})
ASSUME HostAssumption == Host \in [Family -> SUBSET Prefix]
ASSUME MappedAssumption == Mapped \in [Family -> SUBSET Prefix]

VARIABLES
  rib,     \* lisp.rib: family and state of each entry, NoEntry without one
  routes,  \* <<f, p>> where the kernel routes p of family f to lisp0
  mixed    \* (history) a call on one family has met an entry of the other

tableVars == <<rib, routes, mixed>>

\* A negative entry stands for one that drops, too.
EntryState == {"active", "negative", "queried", "static"}
InUse == {"active", "static"}
NoEntry == [family |-> "none", state |-> "none"]

Entries == {p \in Prefix : rib[p] # NoEntry}
Matched(p) == Covering(Entries, p) # {}
search_mapnode(p) == LongestMatch(Entries, p)
Shielded(p) == \E s \in Entries : rib[s].state = "static" /\ StrictlyCovers(s, p)

Meets(f, p) == \E q \in Entries : Comparable(p, q) /\ rib[q].family # f
Call(f, p) == mixed' = (mixed \/ Meets(f, p))

Updatable(p) == rib[p].state # "static"

\* An entry that is there keeps its tree node, and with it the node's family.
update_mapnode(f, p, state) ==
  LET family == IF rib[p] = NoEntry THEN f ELSE rib[p].family
  IN rib' = IF Updatable(p) THEN [rib EXCEPT ![p] = [family |-> family, state |-> state]]
            ELSE rib

\* The raw packet watcher.  (The kernel looks the destination up first.)
Tunnelled(f, h) == \E p \in Prefix : <<f, p>> \in routes /\ Covers(p, h)
RawPacket(f, h) ==
  /\ ~Tunnelled(f, h)
  /\ ~Matched(h)
  /\ update_mapnode(f, h, "queried")
  /\ Call(f, h)
  /\ UNCHANGED routes

\* A record with locators, where it is not just a refresh.
NewMapping(f, p) ==
  /\ ~Matched(p)
  /\ update_mapnode(f, p, "active")
  /\ routes' = routes \cup {<<f, p>>}
  /\ Call(f, p)

NegativeMapping(f, p) ==
  /\ update_mapnode(f, p, "negative")
  /\ Call(f, p)
  /\ UNCHANGED routes

\* (Faulty: below a static entry the timer goes on.)
VisitedAll == {p \in Entries : rib[p].state # "static"}

\* A pass of the timer may find any of the entries it comes to expired; each
\* one's route goes by the family of its tree node.
Visited == {p \in Entries : rib[p].state # "static" /\ ~Shielded(p)}
Scan ==
  \E expired \in SUBSET Visited \ {{}} :
    /\ rib' = [p \in Prefix |-> IF p \in expired THEN NoEntry ELSE rib[p]]
    /\ routes' = routes \ {<<rib[p].family, p>> : p \in {q \in expired : rib[q].state = "active"}}
    /\ UNCHANGED mixed

\* The operator's routes.  Nothing tells him that nothing was installed.
install_mapnode_static(f, p) ==
  /\ update_mapnode(f, p, "static")
  /\ routes' = IF Updatable(p) THEN routes \cup {<<f, p>>} ELSE routes
  /\ Call(f, p)

Uninstallable(p) == Matched(p) /\ rib[search_mapnode(p)].state \notin {"active", "queried"}

\* (Faulty: the route goes first, even where the entry then stays.)
UninstallRouteFirst(f, p) ==
  /\ rib' = IF Uninstallable(p) THEN [rib EXCEPT ![search_mapnode(p)] = NoEntry] ELSE rib
  /\ routes' = routes \ {<<f, p>>}
  /\ Call(f, p)
\* (Faulty: the entry is marked and keeps the rest.)
UninstallMarking(f, p) ==
  /\ rib' = IF Uninstallable(p) THEN [rib EXCEPT ![search_mapnode(p)].state = "none"] ELSE rib
  /\ routes' = IF Uninstallable(p) THEN routes \ {<<f, p>>} ELSE routes
  /\ Call(f, p)

uninstall_mapnode_static(f, p) ==
  /\ rib' = IF Uninstallable(p) THEN [rib EXCEPT ![search_mapnode(p)] = NoEntry] ELSE rib
  /\ routes' = IF Uninstallable(p) THEN routes \ {<<f, p>>} ELSE routes
  /\ Call(f, p)

-----------------------------------------------------------------------------
(* cmd_show_route.                                                         *)

\* What filters there are: all entries, those of a state, and none at all.
Filter == {"all", "nothing"} \cup EntryState
Passes(p, filter) == filter = "all" \/ rib[p].state = filter

\* (Faulty: the walk leaves the subtree at an entry of another state, too.)
ShownBreaking(f, filter) ==
  {p \in Entries : \A q \in Covering(Entries, p) : rib[q].family = f /\ Passes(q, filter)}

\* The walk leaves the subtree at an entry of the other family that passes.
Shown(f, filter) ==
  {p \in Entries : /\ Passes(p, filter)
                   /\ \A q \in Covering(Entries, p) : Passes(q, filter) => rib[q].family = f}

-----------------------------------------------------------------------------

TableInit ==
  /\ rib = [p \in Prefix |-> NoEntry]
  /\ routes = {}
  /\ mixed = FALSE

\* The steps of the other threads.
Threads ==
  \/ \E f \in Family : \/ \E h \in Host[f] : RawPacket(f, h)
                       \/ \E p \in Mapped[f] : NewMapping(f, p) \/ NegativeMapping(f, p)
  \/ Scan

TableTypeOK ==
  /\ rib \in [Prefix -> [family : Family, state : EntryState] \cup {NoEntry}]
  /\ routes \subseteq Family \X Prefix
  /\ mixed \in BOOLEAN

-----------------------------------------------------------------------------
(* What holds.                                                             *)

\* An entry in use has a kernel route: one of its tree node's family while the
\* families have not met in the tree, one of either family ever after
\* (update_mapnode keeps the node's family, add_route_to_tun takes the call's).
InUseIsRouted ==
  \A p \in Entries : rib[p].state \in InUse =>
    \/ <<rib[p].family, p>> \in routes
    \/ mixed /\ \E f \in Family : <<f, p>> \in routes

StateOf(f) == [p \in Prefix |-> IF rib[p].family = f THEN rib[p].state ELSE "none"]
RoutesOf(f) == {p \in Prefix : <<f, p>> \in routes}
IPv4 == INSTANCE MapCache WITH
  Host <- Host["ipv4"], state <- StateOf("ipv4"), routes <- RoutesOf("ipv4")
IPv6 == INSTANCE MapCache WITH
  Host <- Host["ipv6"], state <- StateOf("ipv6"), routes <- RoutesOf("ipv6")

\* As long as the two families do not meet, the one tree is a map cache for each
\* of them: no lookup, removal, expiry or shielding reaches across (the bitwise
\* comparisons of patricia.c, the family of pn->prefix in maptable.c).
ImplementsTwoCaches ==
  /\ IPv4!Init /\ IPv6!Init
  /\ [][mixed' \/ ([IPv4!Next]_(IPv4!vars) /\ [IPv6!Next]_(IPv6!vars))]_tableVars

================================================================================
