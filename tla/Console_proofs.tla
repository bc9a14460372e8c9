---------------------------- MODULE Console_proofs ----------------------------
(***************************************************************************)
(* What the table of both address families keeps, whatever the operator's  *)
(* lines and the other threads do to it; whom the operator thread serves;  *)
(* and what it makes of a line.  For any set of prefixes, clients, lines.  *)
(***************************************************************************)
EXTENDS Console, PrefixTheorems

TableInv == TableTypeOK /\ InUseIsRouted

\* An entry in use is an entry, and a kernel route for it stays where only
\* routes of other prefixes go: TableInv of p follows from its own two facts.
Routed(p) ==
  rib[p].state \in InUse => \/ <<rib[p].family, p>> \in routes
                            \/ mixed /\ \E f \in Family : <<f, p>> \in routes

\* An entry that is there lies under its own prefix.
LEMMA EntryMatches ==
  ASSUME NEW p \in Entries
  PROVE  /\ Matched(p)
         /\ search_mapnode(p) = p
         /\ Covers(p, p)
<1>1. Entries \in SUBSET Seq(Bit) /\ p \in Seq(Bit)
  BY PrefixAssumption DEF Entries, Bit
<1>2. Covers(p, p)
  BY <1>1, CoversReflexive
<1>3. search_mapnode(p) = p
  BY <1>1, LongestMatchSelf DEF search_mapnode
<1> QED  BY <1>2, <1>3 DEF Matched, Covering

\* What has no entry is not in use, so InUseIsRouted is Routed everywhere.
LEMMA RoutedEverywhere ==
  /\ InUseIsRouted <=> \A p \in Prefix : Routed(p)
  /\ InUseIsRouted' <=> \A p \in Prefix : Routed(p)'
BY DEF InUseIsRouted, Routed, Entries, NoEntry, InUse

\* An update leaves the table typed; the entry updated has the state given, and
\* the family of the call where it is new.
LEMMA UpdateEffect ==
  ASSUME TableTypeOK, NEW f \in Family, NEW p \in Prefix, NEW s \in EntryState,
         update_mapnode(f, p, s)
  PROVE  /\ rib' \in [Prefix -> [family : Family, state : EntryState] \cup {NoEntry}]
         /\ \A q \in Prefix \ {p} : rib'[q] = rib[q]
         /\ ~Updatable(p) => rib' = rib
         /\ Updatable(p) => /\ rib'[p].state = s
                            /\ rib[p] = NoEntry => rib'[p].family = f
                            /\ rib[p] # NoEntry => rib'[p].family = rib[p].family
<1>1. rib[p] # NoEntry => rib[p].family \in Family
  BY DEF TableTypeOK
<1> DEFINE fam == IF rib[p] = NoEntry THEN f ELSE rib[p].family
<1>2. fam \in Family
  BY <1>1
<1>3. rib' = IF Updatable(p) THEN [rib EXCEPT ![p] = [family |-> fam, state |-> s]] ELSE rib
  BY DEF update_mapnode
<1> HIDE DEF fam
<1>4. /\ rib' \in [Prefix -> [family : Family, state : EntryState] \cup {NoEntry}]
      /\ \A q \in Prefix \ {p} : rib'[q] = rib[q]
      /\ ~Updatable(p) => rib' = rib
      /\ Updatable(p) => rib'[p] = [family |-> fam, state |-> s]
  BY <1>2, <1>3 DEF TableTypeOK
<1>5. Updatable(p) => rib'[p].state = s /\ rib'[p].family = fam
  BY <1>4
<1> QED  BY <1>4, <1>5 DEF fam

\* An update to a state that is not in use disturbs no route.
LEMMA UnusedKeeps ==
  ASSUME TableInv, NEW f \in Family, NEW p \in Prefix, NEW s \in EntryState \ InUse,
         update_mapnode(f, p, s), Call(f, p), UNCHANGED routes
  PROVE  TableInv'
<1>1. TableTypeOK'
  BY UpdateEffect DEF TableInv, TableTypeOK, Call, Meets
<1>2. ASSUME NEW q \in Prefix PROVE Routed(q)'
  <2>1. Routed(q)
    BY RoutedEverywhere DEF TableInv
  <2>2. rib'[q] = rib[q] \/ rib'[q].state \notin InUse
    BY UpdateEffect DEF TableInv
  <2> QED  BY <2>1, <2>2 DEF Routed, Call
<1> QED  BY <1>1, <1>2, RoutedEverywhere DEF TableInv

\* An update to a state in use that adds the route of the call: if the node is
\* of the other family, the call has met it.
LEMMA RoutedKeeps ==
  ASSUME TableInv, NEW f \in Family, NEW p \in Prefix, NEW s \in InUse,
         update_mapnode(f, p, s), Call(f, p),
         routes' = IF Updatable(p) THEN routes \cup {<<f, p>>} ELSE routes
  PROVE  TableInv'
<1>1. s \in EntryState
  BY DEF InUse, EntryState
<1>2. TableTypeOK'
  BY <1>1, UpdateEffect DEF TableInv, TableTypeOK, Call, Meets
<1>3. ASSUME NEW q \in Prefix PROVE Routed(q)'
  <2>1. Routed(q)
    BY RoutedEverywhere DEF TableInv
  <2>2. mixed => mixed'
    BY DEF Call
  <2>3. CASE q # p \/ ~Updatable(p)
    <3>1. rib'[q] = rib[q] /\ routes \subseteq routes'
      BY <1>1, <2>3, UpdateEffect DEF TableInv
    <3> QED  BY <2>1, <2>2, <3>1 DEF Routed
  <2>4. CASE q = p /\ Updatable(p)
    <3>1. <<f, p>> \in routes'
      BY <2>4
    <3>2. CASE rib[p] = NoEntry
      BY <1>1, <2>4, <3>1, <3>2, UpdateEffect DEF TableInv, Routed
    <3>3. CASE rib[p] # NoEntry
      <4>1. p \in Entries /\ rib'[p].family = rib[p].family
        BY <1>1, <2>4, <3>3, UpdateEffect DEF TableInv, Entries
      <4>2. rib[p].family # f => Meets(f, p)
        BY <4>1, EntryMatches DEF Meets, Comparable
      <4>3. rib[p].family # f => mixed'
        BY <4>2 DEF Call
      <4> QED  BY <2>4, <3>1, <4>1, <4>3 DEF Routed
    <3> QED  BY <3>2, <3>3
  <2> QED  BY <2>3, <2>4
<1> QED  BY <1>2, <1>3, RoutedEverywhere DEF TableInv

\* A pass takes the routes of what it removes, and no other.
LEMMA ScanKeeps ==
  ASSUME TableInv, Scan
  PROVE  TableInv'
<1>1. PICK expired \in SUBSET Visited \ {{}} :
        /\ rib' = [p \in Prefix |-> IF p \in expired THEN NoEntry ELSE rib[p]]
        /\ routes' = routes \ {<<rib[p].family, p>> : p \in {q \in expired : rib[q].state = "active"}}
        /\ UNCHANGED mixed
  BY DEF Scan
<1>2. TableTypeOK'
  BY <1>1 DEF TableInv, TableTypeOK
<1>3. ASSUME NEW q \in Prefix PROVE Routed(q)'
  <2>1. Routed(q)
    BY RoutedEverywhere DEF TableInv
  <2>2. CASE q \in expired
    <3>1. rib'[q] = NoEntry
      BY <1>1, <2>2
    <3> QED  BY <3>1 DEF Routed, NoEntry, InUse
  <2>3. CASE q \notin expired
    <3>1. rib'[q] = rib[q]
      BY <1>1, <2>3
    <3>2. \A f \in Family \cup {rib[q].family} : <<f, q>> \in routes => <<f, q>> \in routes'
      BY <1>1, <2>3
    <3> QED  BY <1>1, <2>1, <3>1, <3>2 DEF Routed
  <2> QED  BY <2>2, <2>3
<1> QED  BY <1>2, <1>3, RoutedEverywhere DEF TableInv

\* The route removed is of the prefix named, the entry removed its longest match:
\* an entry of that very prefix would have been the one.
LEMMA UninstallKeeps ==
  ASSUME TableInv, NEW f \in Family, NEW p \in Prefix, uninstall_mapnode_static(f, p)
  PROVE  TableInv'
<1> DEFINE q == search_mapnode(p)
<1>1. mixed => mixed'
  BY DEF uninstall_mapnode_static, Call
<1>2. TableTypeOK'
  <2>1. rib' \in [Prefix -> [family : Family, state : EntryState] \cup {NoEntry}]
    BY DEF uninstall_mapnode_static, TableInv, TableTypeOK
  <2> QED  BY <2>1 DEF uninstall_mapnode_static, TableInv, TableTypeOK, Call, Meets
<1>3. ASSUME NEW r \in Prefix PROVE Routed(r)'
  <2>1. Routed(r)
    BY RoutedEverywhere DEF TableInv
  <2>2. CASE ~Uninstallable(p)
    BY <1>1, <2>1, <2>2 DEF uninstall_mapnode_static, Routed
  <2>3. CASE Uninstallable(p)
    <3>1. rib' = [rib EXCEPT ![q] = NoEntry] /\ routes' = routes \ {<<f, p>>}
      BY <2>3 DEF uninstall_mapnode_static
    <3> HIDE DEF q
    <3>2. CASE r = q
      <4>1. rib'[r] = NoEntry
        BY <3>1, <3>2 DEF TableInv, TableTypeOK
      <4> QED  BY <4>1 DEF Routed, NoEntry, InUse
    <3>3. CASE r # q
      <4>1. rib'[r] = rib[r]
        BY <3>1, <3>3 DEF TableInv, TableTypeOK
      <4>2. r = p => rib[r] = NoEntry
        BY <3>3, EntryMatches DEF q, Entries
      <4>3. rib[r] = NoEntry => rib[r].state \notin InUse
        BY DEF NoEntry, InUse
      <4> QED  BY <1>1, <2>1, <3>1, <4>1, <4>2, <4>3 DEF Routed
    <3> QED  BY <3>2, <3>3
  <2> QED  BY <2>2, <2>3
<1> QED  BY <1>2, <1>3, RoutedEverywhere DEF TableInv

\* No step of the other threads leaves an entry in use without its route.
LEMMA ThreadsKeep ==
  ASSUME TableInv, Threads
  PROVE  TableInv'
<1> USE DEF EntryState, InUse
<1>1. ASSUME NEW f \in Family, NEW h \in Host[f], RawPacket(f, h) PROVE TableInv'
  BY <1>1, HostAssumption, UnusedKeeps DEF RawPacket
<1>2. ASSUME NEW f \in Family, NEW p \in Mapped[f], NewMapping(f, p) PROVE TableInv'
  <2>1. p \in Prefix
    BY MappedAssumption
  <2>2. rib[p] = NoEntry
    BY <1>2, <2>1, EntryMatches DEF NewMapping, Entries
  <2>3. Updatable(p)
    BY <2>2 DEF Updatable, NoEntry
  <2> QED  BY <1>2, <2>1, <2>3, RoutedKeeps DEF NewMapping
<1>3. ASSUME NEW f \in Family, NEW p \in Mapped[f], NegativeMapping(f, p) PROVE TableInv'
  BY <1>3, MappedAssumption, UnusedKeeps DEF NegativeMapping
<1>4. CASE Scan
  BY <1>4, ScanKeeps
<1> QED  BY <1>1, <1>2, <1>3, <1>4 DEF Threads

\* Nor does a command, whatever the words of its line.
LEMMA ExecKeeps ==
  ASSUME TableInv, Exec
  PROVE  TableInv'
<1> DEFINE Same == UNCHANGED tableVars
<1>1. Same => TableInv'
  BY DEF tableVars, TableInv, TableTypeOK, InUseIsRouted, Entries
<1>2. CASE cmd_install_route
  <2>1. Same \/ \E f \in Family : \E w \in DOMAIN Bits[f] : install_mapnode_static(f, Bits[f][w])
    BY <1>2 DEF cmd_install_route
  <2>2. ASSUME NEW f \in Family, NEW w \in DOMAIN Bits[f], install_mapnode_static(f, Bits[f][w])
        PROVE  TableInv'
    <3>1. Bits[f][w] \in Prefix
      BY BitsAssumption
    <3> QED  BY <2>2, <3>1, RoutedKeeps DEF install_mapnode_static, InUse
  <2> QED  BY <1>1, <2>1, <2>2
<1>3. CASE cmd_uninstall_route
  <2>1. Same \/ \E f \in Family : \E w \in DOMAIN Bits[f] : uninstall_mapnode_static(f, Bits[f][w])
    BY <1>3 DEF cmd_uninstall_route
  <2>2. ASSUME NEW f \in Family, NEW w \in DOMAIN Bits[f], uninstall_mapnode_static(f, Bits[f][w])
        PROVE  TableInv'
    BY <2>2, BitsAssumption, UninstallKeeps
  <2> QED  BY <1>1, <2>1, <2>2
<1>4. CASE cmd_show_route \/ Crash \/ OtherCommand
  BY <1>1, <1>4 DEF cmd_show_route, Crash, OtherCommand
<1> QED  BY <1>2, <1>3, <1>4 DEF Exec

\* The table is right to begin with, and after every step.
LEMMA InitHolds == Init => TableInv
BY DEF Init, TableInit, TableInv, TableTypeOK, InUseIsRouted, Entries

\* A step of the daemon is one of the other threads', a command, or none to the table.
LEMMA NextKeeps == TableInv /\ [Next]_vars => TableInv'
<1> SUFFICES ASSUME TableInv, [Next]_vars PROVE TableInv'
  OBVIOUS
<1>1. CASE UNCHANGED tableVars
  BY <1>1 DEF tableVars, TableInv, TableTypeOK, InUseIsRouted, Entries
<1>2. CASE Threads
  BY <1>2, ThreadsKeep
<1>3. CASE Exec
  BY <1>3, ExecKeeps
<1>4. Threads \/ Exec \/ UNCHANGED tableVars
  BY DEF Next, Operator, Accept, Read, Answer, vars
<1> QED  BY <1>1, <1>2, <1>3, <1>4

\* Whatever lines clients write, in whatever order, and whatever the other
\* threads do between two of them, an entry in use keeps a kernel route: one of
\* its node's family, or of either family once the two have met in the tree
\* (update_mapnode, uninstall_mapnode_static, the timer's walk).
THEOREM RoutedInBothFamilies == Spec => []InUseIsRouted
<1>1. TableInv => InUseIsRouted
  BY DEF TableInv
<1> QED  BY <1>1, InitHolds, NextKeeps, PTL DEF Spec

-----------------------------------------------------------------------------
(* Refinement.                                                             *)

\* The entries of one family, and what MapCache's operations do to them.
EntriesOf(f) == {p \in Prefix : StateOf(f)[p] # "none"}
SetState(f, p, s) == StateOf(f)' = [StateOf(f) EXCEPT ![p] = s]
AddRoute(f, p) == RoutesOf(f)' = RoutesOf(f) \cup {p}
Same(f) == StateOf(f)' = StateOf(f) /\ RoutesOf(f)' = RoutesOf(f)

Query(f, h) == /\ Covering(EntriesOf(f), h) = {}
               /\ SetState(f, h, "queried")
               /\ RoutesOf(f)' = RoutesOf(f)
Learn(f, p) == Covering(EntriesOf(f), p) = {} /\ SetState(f, p, "active") /\ AddRoute(f, p)
Deny(f, p) == /\ StateOf(f)[p] # "static"
              /\ SetState(f, p, "negative")
              /\ RoutesOf(f)' = RoutesOf(f)
Install(f, p) == StateOf(f)[p] # "static" /\ SetState(f, p, "static") /\ AddRoute(f, p)
Uninstall(f, p) ==
  LET q == LongestMatch(EntriesOf(f), p)
  IN /\ Covering(EntriesOf(f), p) # {}
     /\ StateOf(f)[q] \notin {"active", "queried"}
     /\ SetState(f, q, "none")
     /\ RoutesOf(f)' = RoutesOf(f) \ {p}
Age(f, S) ==
  /\ \A p \in S : /\ StateOf(f)[p] \notin {"none", "static"}
                  /\ \A q \in Prefix : StateOf(f)[q] = "static" => ~StrictlyCovers(q, p)
  /\ StateOf(f)' = [p \in Prefix |-> IF p \in S THEN "none" ELSE StateOf(f)[p]]
  /\ RoutesOf(f)' = RoutesOf(f) \ {p \in S : StateOf(f)[p] = "active"}

CacheStep(f) ==
  \/ \E h \in Host[f] : Query(f, h)
  \/ \E p \in Prefix : Learn(f, p) \/ Deny(f, p) \/ Install(f, p) \/ Uninstall(f, p)
  \/ \E S \in SUBSET EntriesOf(f) : Age(f, S)
  \/ Same(f)

\* So CacheStep is a step of the cache of IPv4, or a stuttering one,
LEMMA StepOfIPv4 == CacheStep("ipv4") => [IPv4!Next]_(IPv4!vars)
<1> DEFINE S == StateOf("ipv4")
           R == RoutesOf("ipv4")
<1>1. IPv4!Entries = EntriesOf("ipv4")
  BY DEF IPv4!Entries, EntriesOf
<1>2. \A p, q : IPv4!Covers(p, q) <=> Covers(p, q)
  BY DEF IPv4!Covers, Covers, IPv4!IsPrefix, IsPrefix
<1>3. \A T, p : IPv4!Covering(T, p) = Covering(T, p)
  BY <1>2 DEF IPv4!Covering, Covering
<1>4. \A T, p : IPv4!LongestMatch(T, p) = LongestMatch(T, p)
  BY <1>3 DEF IPv4!LongestMatch, LongestMatch
<1>5. \A p : IPv4!Shielded(p) <=>
              \E q \in Prefix : S[q] = "static" /\ StrictlyCovers(q, p)
  BY <1>2 DEF IPv4!Shielded, IPv4!Static, IPv4!StrictlyCovers, StrictlyCovers
<1> SUFFICES ASSUME CacheStep("ipv4") PROVE IPv4!Next \/ Same("ipv4")
  BY DEF IPv4!vars, Same
<1>6. ASSUME NEW h \in Host["ipv4"], Query("ipv4", h) PROVE IPv4!Next
  BY <1>1, <1>3, <1>6 DEF Query, SetState, IPv4!Query, IPv4!Next
<1>7. ASSUME NEW p \in Prefix, Learn("ipv4", p) PROVE IPv4!Next
  BY <1>1, <1>3, <1>7 DEF Learn, SetState, AddRoute, IPv4!Learn, IPv4!Next
<1>8. ASSUME NEW p \in Prefix, Deny("ipv4", p) PROVE IPv4!Next
  BY <1>8 DEF Deny, SetState, IPv4!Deny, IPv4!Next
<1>9. ASSUME NEW p \in Prefix, Install("ipv4", p) PROVE IPv4!Next
  BY <1>9 DEF Install, SetState, AddRoute, IPv4!Install, IPv4!Next
<1>10. ASSUME NEW p \in Prefix, Uninstall("ipv4", p) PROVE IPv4!Next
  BY <1>1, <1>3, <1>4, <1>10 DEF Uninstall, SetState, IPv4!Uninstall, IPv4!Next
<1>11. ASSUME NEW A \in SUBSET EntriesOf("ipv4"), Age("ipv4", A) PROVE IPv4!Next
  BY <1>1, <1>5, <1>11 DEF Age, IPv4!Age, IPv4!Next
<1> QED  BY <1>6, <1>7, <1>8, <1>9, <1>10, <1>11 DEF CacheStep

\* and likewise of IPv6.
LEMMA StepOfIPv6 == CacheStep("ipv6") => [IPv6!Next]_(IPv6!vars)
<1> DEFINE S == StateOf("ipv6")
           R == RoutesOf("ipv6")
<1>1. IPv6!Entries = EntriesOf("ipv6")
  BY DEF IPv6!Entries, EntriesOf
<1>2. \A p, q : IPv6!Covers(p, q) <=> Covers(p, q)
  BY DEF IPv6!Covers, Covers, IPv6!IsPrefix, IsPrefix
<1>3. \A T, p : IPv6!Covering(T, p) = Covering(T, p)
  BY <1>2 DEF IPv6!Covering, Covering
<1>4. \A T, p : IPv6!LongestMatch(T, p) = LongestMatch(T, p)
  BY <1>3 DEF IPv6!LongestMatch, LongestMatch
<1>5. \A p : IPv6!Shielded(p) <=>
              \E q \in Prefix : S[q] = "static" /\ StrictlyCovers(q, p)
  BY <1>2 DEF IPv6!Shielded, IPv6!Static, IPv6!StrictlyCovers, StrictlyCovers
<1> SUFFICES ASSUME CacheStep("ipv6") PROVE IPv6!Next \/ Same("ipv6")
  BY DEF IPv6!vars, Same
<1>6. ASSUME NEW h \in Host["ipv6"], Query("ipv6", h) PROVE IPv6!Next
  BY <1>1, <1>3, <1>6 DEF Query, SetState, IPv6!Query, IPv6!Next
<1>7. ASSUME NEW p \in Prefix, Learn("ipv6", p) PROVE IPv6!Next
  BY <1>1, <1>3, <1>7 DEF Learn, SetState, AddRoute, IPv6!Learn, IPv6!Next
<1>8. ASSUME NEW p \in Prefix, Deny("ipv6", p) PROVE IPv6!Next
  BY <1>8 DEF Deny, SetState, IPv6!Deny, IPv6!Next
<1>9. ASSUME NEW p \in Prefix, Install("ipv6", p) PROVE IPv6!Next
  BY <1>9 DEF Install, SetState, AddRoute, IPv6!Install, IPv6!Next
<1>10. ASSUME NEW p \in Prefix, Uninstall("ipv6", p) PROVE IPv6!Next
  BY <1>1, <1>3, <1>4, <1>10 DEF Uninstall, SetState, IPv6!Uninstall, IPv6!Next
<1>11. ASSUME NEW A \in SUBSET EntriesOf("ipv6"), Age("ipv6", A) PROVE IPv6!Next
  BY <1>1, <1>5, <1>11 DEF Age, IPv6!Age, IPv6!Next
<1> QED  BY <1>6, <1>7, <1>8, <1>9, <1>10, <1>11 DEF CacheStep

\* A route of one family is none of the other.
LEMMA RouteOfFamily ==
  ASSUME NEW g \in Family, NEW p \in Prefix, NEW f \in Family
  PROVE  /\ routes' = routes \cup {<<g, p>>} =>
              RoutesOf(f)' = IF f = g THEN RoutesOf(f) \cup {p} ELSE RoutesOf(f)
         /\ routes' = routes \ {<<g, p>>} =>
              RoutesOf(f)' = IF f = g THEN RoutesOf(f) \ {p} ELSE RoutesOf(f)
         /\ routes' = routes => RoutesOf(f)' = RoutesOf(f)
BY DEF RoutesOf

\* A call that does not meet the other family leaves that family alone, and is an
\* update of its own one.
LEMMA UpdateOfFamily ==
  ASSUME TableTypeOK, NEW g \in Family, NEW p \in Prefix, NEW s \in EntryState,
         update_mapnode(g, p, s), ~Meets(g, p), NEW f \in Family
  PROVE  /\ ~Updatable(p) => StateOf(f)' = StateOf(f)
         /\ Updatable(p) => /\ f = g => SetState(f, p, s) /\ StateOf(f)[p] # "static"
                            /\ f # g => StateOf(f)' = StateOf(f)
<1>1. rib[p] # NoEntry => rib[p].family = g
  BY EntryMatches DEF Meets, Comparable, Entries
<1>2. CASE ~Updatable(p)
  BY <1>2, UpdateEffect DEF StateOf
<1>3. CASE Updatable(p)
  <2>1. rib'[p].state = s /\ rib'[p].family = g
    BY <1>1, <1>3, UpdateEffect
  <2>2. \A q \in Prefix \ {p} : rib'[q] = rib[q]
    BY UpdateEffect
  <2>3. rib[p].family \in {g, "none"}
    BY <1>1 DEF NoEntry
  <2>4. g # "none" /\ f # "none"
    BY DEF Family
  <2>5. CASE f = g
    <3>1. \A q \in Prefix : StateOf(f)'[q] = IF q = p THEN s ELSE StateOf(f)[q]
      BY <2>1, <2>2, <2>5 DEF StateOf
    <3>2. SetState(f, p, s)
      BY <3>1 DEF SetState, StateOf
    <3>3. StateOf(f)[p] # "static"
      BY <1>3 DEF StateOf, Updatable
    <3> QED  BY <1>3, <2>5, <3>2, <3>3
  <2>6. CASE f # g
    <3>1. \A q \in Prefix : StateOf(f)'[q] = StateOf(f)[q]
      BY <2>1, <2>2, <2>3, <2>4, <2>6 DEF StateOf
    <3> QED  BY <1>3, <2>6, <3>1 DEF StateOf
  <2> QED  BY <2>5, <2>6
<1> QED  BY <1>2, <1>3

\* Where a call does not meet the other family, what covers its prefix is of its
\* own family.
LEMMA CoveringOfFamily ==
  ASSUME TableTypeOK, NEW f \in Family, NEW p \in Prefix, ~Meets(f, p)
  PROVE  Covering(EntriesOf(f), p) = Covering(Entries, p)
<1>1. \A q \in Entries : Covers(q, p) => rib[q].family = f
  BY DEF Meets, Comparable
<1>2. ASSUME NEW q \in EntriesOf(f) PROVE q \in Entries
  <2>1. q \in Prefix /\ rib[q].family = f
    BY DEF EntriesOf, StateOf
  <2> QED  BY <2>1 DEF Entries, NoEntry, Family
<1>3. ASSUME NEW q \in Entries, rib[q].family = f PROVE q \in EntriesOf(f)
  <2>1. q \in Prefix /\ StateOf(f)[q] = rib[q].state /\ rib[q].state # "none"
    BY <1>3 DEF Entries, StateOf, TableTypeOK, EntryState
  <2> QED  BY <2>1 DEF EntriesOf
<1>4. \A q : q \in Covering(EntriesOf(f), p) <=> q \in Covering(Entries, p)
  BY <1>1, <1>2, <1>3 DEF Covering
<1> QED  BY <1>4 DEF Covering

\* A call on one family, as long as the two have not met, is an operation on that
\* family's cache and nothing to the other one's.
LEMMA RawPacketStep ==
  ASSUME TableTypeOK, ~mixed', NEW g \in Family, NEW h \in Host[g], RawPacket(g, h),
         NEW f \in Family
  PROVE  CacheStep(f)
<1>1. h \in Prefix /\ ~Meets(g, h) /\ "queried" \in EntryState
  BY HostAssumption DEF RawPacket, Call, EntryState
<1>2. ~Matched(h) /\ routes' = routes
  BY DEF RawPacket
<1>3. Updatable(h)
  BY <1>1, <1>2, EntryMatches DEF Updatable, Entries, NoEntry
<1>4. CASE f = g
  <2>1. Covering(EntriesOf(f), h) = {}
    BY <1>1, <1>2, <1>4, CoveringOfFamily DEF Matched
  <2>2. SetState(f, h, "queried") /\ RoutesOf(f)' = RoutesOf(f)
    BY <1>1, <1>2, <1>3, <1>4, UpdateOfFamily, RouteOfFamily DEF RawPacket
  <2> QED  BY <1>4, <2>1, <2>2 DEF CacheStep, Query
<1>5. CASE f # g
  <2>1. Same(f)
    BY <1>1, <1>2, <1>3, <1>5, UpdateOfFamily, RouteOfFamily DEF RawPacket, Same
  <2> QED  BY <2>1 DEF CacheStep
<1> QED  BY <1>4, <1>5

\* A mapping is learnt where its own family has nothing.
LEMMA NewMappingStep ==
  ASSUME TableTypeOK, ~mixed', NEW g \in Family, NEW p \in Mapped[g], NewMapping(g, p),
         NEW f \in Family
  PROVE  CacheStep(f)
<1>1. p \in Prefix /\ ~Meets(g, p) /\ "active" \in EntryState
  BY MappedAssumption DEF NewMapping, Call, EntryState
<1>2. ~Matched(p) /\ routes' = routes \cup {<<g, p>>}
  BY DEF NewMapping
<1>3. Updatable(p)
  BY <1>1, <1>2, EntryMatches DEF Updatable, Entries, NoEntry
<1>4. CASE f = g
  <2>1. Covering(EntriesOf(f), p) = {}
    BY <1>1, <1>2, <1>4, CoveringOfFamily DEF Matched
  <2>2. SetState(f, p, "active") /\ AddRoute(f, p)
    BY <1>1, <1>2, <1>3, <1>4, UpdateOfFamily, RouteOfFamily DEF NewMapping, AddRoute
  <2>3. Learn(f, p)
    BY <2>1, <2>2 DEF Learn
  <2> QED  BY <1>1, <2>3 DEF CacheStep
<1>5. CASE f # g
  <2>1. Same(f)
    BY <1>1, <1>2, <1>3, <1>5, UpdateOfFamily, RouteOfFamily DEF NewMapping, Same
  <2> QED  BY <2>1 DEF CacheStep
<1> QED  BY <1>4, <1>5

\* A negative answer replaces an entry of its own family only.
LEMMA NegativeMappingStep ==
  ASSUME TableTypeOK, ~mixed', NEW g \in Family, NEW p \in Mapped[g],
         NegativeMapping(g, p), NEW f \in Family
  PROVE  CacheStep(f)
<1>1. p \in Prefix /\ ~Meets(g, p) /\ "negative" \in EntryState
  BY MappedAssumption DEF NegativeMapping, Call, EntryState
<1>2. RoutesOf(f)' = RoutesOf(f) /\ update_mapnode(g, p, "negative")
  BY <1>1, RouteOfFamily DEF NegativeMapping
<1>3. CASE f = g /\ Updatable(p)
  <2>1. Deny(f, p)
    BY <1>1, <1>2, <1>3, UpdateOfFamily DEF Deny
  <2> QED  BY <1>1, <2>1 DEF CacheStep
<1>4. CASE f # g \/ ~Updatable(p)
  <2>1. Same(f)
    BY <1>1, <1>2, <1>4, UpdateOfFamily DEF Same
  <2> QED  BY <2>1 DEF CacheStep
<1> QED  BY <1>3, <1>4

\* Installing what is there already changes nothing.
LEMMA InstallStep ==
  ASSUME TableTypeOK, ~mixed', NEW g \in Family, NEW p \in Prefix,
         install_mapnode_static(g, p), NEW f \in Family
  PROVE  CacheStep(f)
<1>1. ~Meets(g, p) /\ "static" \in EntryState
  BY DEF install_mapnode_static, Call, EntryState
<1>2. /\ update_mapnode(g, p, "static")
      /\ routes' = IF Updatable(p) THEN routes \cup {<<g, p>>} ELSE routes
  BY DEF install_mapnode_static
<1>3. CASE f = g /\ Updatable(p)
  <2>1. Install(f, p)
    BY <1>1, <1>2, <1>3, UpdateOfFamily, RouteOfFamily DEF Install, AddRoute
  <2> QED  BY <2>1 DEF CacheStep
<1>4. CASE f # g \/ ~Updatable(p)
  <2>1. Same(f)
    BY <1>1, <1>2, <1>4, UpdateOfFamily, RouteOfFamily DEF Same
  <2> QED  BY <2>1 DEF CacheStep
<1> QED  BY <1>3, <1>4

\* The entry the operator's removal takes is of the family he named.
LEMMA UninstallStep ==
  ASSUME TableTypeOK, ~mixed', NEW g \in Family, NEW p \in Prefix,
         uninstall_mapnode_static(g, p), NEW f \in Family
  PROVE  CacheStep(f)
<1> DEFINE q == search_mapnode(p)
<1>1. ~Meets(g, p)
  BY DEF uninstall_mapnode_static, Call
<1>2. CASE ~Uninstallable(p)
  <2>1. Same(f)
    BY <1>2, RouteOfFamily DEF uninstall_mapnode_static, Same, StateOf
  <2> QED  BY <2>1 DEF CacheStep
<1>3. CASE Uninstallable(p)
  <2>1. rib' = [rib EXCEPT ![q] = NoEntry] /\ routes' = routes \ {<<g, p>>}
    BY <1>3 DEF uninstall_mapnode_static
  <2>2. q \in Covering(Entries, p)
    <3>1. Entries \in SUBSET Seq(Bit) /\ p \in Seq(Bit)
      BY PrefixAssumption DEF Entries, Bit
    <3> QED  BY <1>3, <3>1, LongestMatchCovers DEF Uninstallable, Matched, search_mapnode
  <2>3. q \in Prefix /\ q \in Entries /\ rib[q].family = g
    BY <1>1, <2>2 DEF Covering, Entries, Meets, Comparable
  <2>4. rib[q].state \notin {"active", "queried"}
    BY <1>3 DEF Uninstallable
  <2>5. CASE f = g
    <3>1. Covering(EntriesOf(f), p) = Covering(Entries, p)
      BY <1>1, <2>5, CoveringOfFamily
    <3>2. q = LongestMatch(EntriesOf(f), p)
      BY <3>1 DEF search_mapnode, LongestMatch
    <3> HIDE DEF q
    <3>3. \A r \in Prefix : StateOf(f)'[r] = IF r = q THEN "none" ELSE StateOf(f)[r]
      BY <2>1, <2>3 DEF StateOf, TableTypeOK, NoEntry
    <3>4. SetState(f, q, "none")
      BY <2>3, <3>3 DEF SetState, StateOf
    <3>5. StateOf(f)[q] \notin {"active", "queried"}
      BY <2>3, <2>4, <2>5 DEF StateOf
    <3>6. RoutesOf(f)' = RoutesOf(f) \ {p}
      BY <2>1, <2>5, RouteOfFamily
    <3>7. Uninstall(f, p)
      BY <2>2, <3>1, <3>2, <3>4, <3>5, <3>6 DEF Uninstall
    <3> QED  BY <3>7 DEF CacheStep
  <2>6. CASE f # g
    <3> HIDE DEF q
    <3>1. \A r \in Prefix : StateOf(f)'[r] = StateOf(f)[r]
      BY <2>1, <2>3, <2>6 DEF StateOf, TableTypeOK, NoEntry, Family
    <3>2. StateOf(f)' = StateOf(f)
      BY <3>1 DEF StateOf
    <3>3. RoutesOf(f)' = RoutesOf(f)
      BY <2>1, <2>6, RouteOfFamily
    <3> QED  BY <3>2, <3>3 DEF CacheStep, Same
  <2> QED  BY <2>5, <2>6
<1> QED  BY <1>2, <1>3

\* A pass of the timer ages both caches at once: what is shielded in one family
\* is shielded in the tree.
LEMMA ScanStep ==
  ASSUME TableTypeOK, Scan, NEW f \in Family
  PROVE  CacheStep(f)
<1>1. PICK expired \in SUBSET Visited \ {{}} :
        /\ rib' = [p \in Prefix |-> IF p \in expired THEN NoEntry ELSE rib[p]]
        /\ routes' = routes \ {<<rib[p].family, p>> : p \in {q \in expired : rib[q].state = "active"}}
  BY DEF Scan
<1> DEFINE S == {p \in expired : rib[p].family = f}
<1>2. S \subseteq Prefix /\ expired \subseteq Prefix
  BY <1>1 DEF Visited, Entries
<1>3. \A p \in S : StateOf(f)[p] = rib[p].state /\ rib[p].state \notin {"none", "static"}
  BY <1>1, <1>2 DEF Visited, StateOf, TableTypeOK, NoEntry, EntryState, Family
<1>4. \A p \in S : \A q \in Prefix : StateOf(f)[q] = "static" => ~StrictlyCovers(q, p)
  <2>1. \A q \in Prefix : StateOf(f)[q] = "static" => q \in Entries /\ rib[q].state = "static"
    BY DEF StateOf, Entries, NoEntry
  <2> QED  BY <1>1, <2>1 DEF Visited, Shielded
<1>5. StateOf(f)' = [p \in Prefix |-> IF p \in S THEN "none" ELSE StateOf(f)[p]]
  <2>1. \A p \in Prefix : StateOf(f)'[p] = IF p \in S THEN "none" ELSE StateOf(f)[p]
    BY <1>1 DEF StateOf, NoEntry, Family
  <2> QED  BY <2>1 DEF StateOf
<1>6. RoutesOf(f)' = RoutesOf(f) \ {p \in S : StateOf(f)[p] = "active"}
  BY <1>1, <1>2, <1>3 DEF RoutesOf
<1>7. S \in SUBSET EntriesOf(f)
  BY <1>2, <1>3 DEF EntriesOf
<1> HIDE DEF S
<1>8. Age(f, S)
  BY <1>3, <1>4, <1>5, <1>6 DEF Age
<1> QED  BY <1>7, <1>8 DEF CacheStep

\* A step of the whole daemon is a step of each family's cache, or stutters there.
LEMMA NextIsCacheStep ==
  ASSUME TableTypeOK, [Next]_vars, ~mixed', NEW f \in Family
  PROVE  CacheStep(f)
<1>1. CASE UNCHANGED tableVars
  BY <1>1 DEF tableVars, CacheStep, Same, StateOf, RoutesOf
<1>2. CASE Threads
  BY <1>2, RawPacketStep, NewMappingStep, NegativeMappingStep, ScanStep DEF Threads
<1>3. CASE Exec
  <2>1. \/ UNCHANGED tableVars
        \/ \E g \in Family : \E w \in DOMAIN Bits[g] :
             install_mapnode_static(g, Bits[g][w]) \/ uninstall_mapnode_static(g, Bits[g][w])
    BY <1>3 DEF Exec, cmd_install_route, cmd_uninstall_route, cmd_show_route, Crash,
                OtherCommand
  <2>2. \A g \in Family : \A w \in DOMAIN Bits[g] : Bits[g][w] \in Prefix
    BY BitsAssumption
  <2> QED  BY <1>1, <2>1, <2>2, InstallStep, UninstallStep
<1>4. Threads \/ Exec \/ UNCHANGED tableVars
  BY DEF Next, Operator, Accept, Read, Answer, vars
<1> QED  BY <1>1, <1>2, <1>3, <1>4

\* As long as the families have not met, the one tree is a map cache for each of
\* them, under the commands of any clients.
THEOREM TwoCaches == Spec => ImplementsTwoCaches
<1>1. Init => IPv4!Init /\ IPv6!Init
  BY DEF Init, TableInit, IPv4!Init, IPv6!Init, StateOf, RoutesOf, NoEntry, Family
<1>2. TableInv /\ [Next]_vars =>
        [mixed' \/ ([IPv4!Next]_(IPv4!vars) /\ [IPv6!Next]_(IPv6!vars))]_tableVars
  <2> SUFFICES ASSUME TableTypeOK, [Next]_vars, ~mixed'
               PROVE  [IPv4!Next]_(IPv4!vars) /\ [IPv6!Next]_(IPv6!vars)
    BY DEF TableInv
  <2> QED  BY NextIsCacheStep, StepOfIPv4, StepOfIPv6 DEF Family
<1> QED  BY <1>1, <1>2, InitHolds, NextKeeps, PTL DEF Spec, ImplementsTwoCaches

-----------------------------------------------------------------------------
(* The command socket.                                                      *)

\* The words a line puts into args.
ArgsOf(line) == [i \in 0..4 |-> WordAt(line, i + 1)]

Outcome ==
  {"nothing", "invalid", "set map server", "delete map server", "create locator",
   "delete locator", "set locator", "create eid", "delete eid", "set key", "add prefix",
   "remove prefix", "show ipv4-route", "show ipv6-route", "show eid", "show mapserver",
   "show locator", "install route", "uninstall route"}
Commands ==
  [at : {"accept", "read", "exec", "answer"}, sock : Client \cup {NoSock},
   args : [0..4 -> Word \cup {Null}], did : Outcome, says : BOOLEAN, lines : SUBSET Prefix]
Clients == [Client -> [at : {"away", "connected"}, line : Line \cup {NoLine}, gone : BOOLEAN]]

\* Who waits or is served is connected, and nobody is it twice.
Waiting(q, c) == \E i \in 1..Len(q) : q[i] = c
QueueInv ==
  /\ queue \in Seq(Client) /\ Len(queue) <= Backlog + 1
  /\ \A i, j \in 1..Len(queue) : queue[i] = queue[j] => i = j
  /\ \A c \in Client : Waiting(queue, c) => cl[c].at = "connected"
ServedInv ==
  op.at # "accept" => /\ op.sock \in Client
                      /\ cl[op.sock].at = "connected"
                      /\ ~Waiting(queue, op.sock)

\* The loop comes to read without args, and to the handler with those of the line
\* its client wrote, which the client no longer changes.
ArgsInv ==
  /\ op.at \in {"accept", "read"} => op.args = NoArgs
  /\ op.at = "exec" => LET c == cl[op.sock]
                       IN /\ c.line # NoLine \/ c.gone
                          /\ Len(c.line) < MaxArgs
                          /\ op.args = ArgsOf(c.line)

SocketInv ==
  /\ cl \in Clients /\ op \in Commands /\ dead \in BOOLEAN
  /\ QueueInv /\ ServedInv /\ ArgsInv

\* What a client writes is a sequence of words.
LEMMA WordsOfLine ==
  ASSUME NEW line \in Line \cup {NoLine}
  PROVE  /\ Len(line) \in Nat
         /\ \A i \in 1..Len(line) : line[i] \in Word
         /\ ArgsOf(line) \in [0..4 -> Word \cup {Null}]
<1>1. <<>> \in Seq(Word)
  OBVIOUS
<1>2. line \in Seq(Word)
  BY <1>1, LineAssumption DEF NoLine
<1>3. Len(line) \in Nat /\ \A i \in 1..Len(line) : line[i] \in Word
  BY <1>2
<1>4. \A i \in 0..4 : WordAt(line, i + 1) \in Word \cup {Null}
  BY <1>3 DEF WordAt
<1> QED  BY <1>3, <1>4 DEF ArgsOf

\* A client that connects was not there: it neither waits nor is served.
LEMMA ConnectKeeps ==
  ASSUME SocketInv, NEW c \in Client, Connect(c)
  PROVE  SocketInv'
<1>1. /\ cl[c].at = "away" /\ Len(queue) <= 1
      /\ cl' = [cl EXCEPT ![c].at = "connected"]
      /\ queue' = Append(queue, c)
      /\ op' = op /\ dead' = dead
  BY DEF Connect, Backlog
<1>2. cl' \in Clients
  BY <1>1 DEF SocketInv, Clients
<1>3. \A b \in Client : /\ cl'[b].at = IF b = c THEN "connected" ELSE cl[b].at
                        /\ cl'[b].line = cl[b].line /\ cl'[b].gone = cl[b].gone
  BY <1>1 DEF SocketInv, Clients
<1>4. ~Waiting(queue, c) /\ (op.at # "accept" => op.sock # c)
  BY <1>1 DEF SocketInv, QueueInv, ServedInv
<1>5. /\ queue' \in Seq(Client) /\ Len(queue') = Len(queue) + 1 /\ Len(queue) \in Nat
      /\ \A i \in 1..Len(queue) : queue'[i] = queue[i]
      /\ queue'[Len(queue) + 1] = c
  BY <1>1 DEF SocketInv, QueueInv
<1>6. \A b \in Client : Waiting(queue', b) => b = c \/ Waiting(queue, b)
  BY <1>5 DEF Waiting
<1>7. QueueInv'
  <2>1. \A i, j \in 1..Len(queue') : queue'[i] = queue'[j] => i = j
    BY <1>4, <1>5 DEF SocketInv, QueueInv, Waiting
  <2> QED  BY <1>1, <1>3, <1>5, <1>6, <2>1 DEF SocketInv, QueueInv, Backlog
<1>8. ServedInv'
  BY <1>1, <1>3, <1>4, <1>6 DEF SocketInv, ServedInv
<1>9. ArgsInv'
  BY <1>1, <1>3 DEF SocketInv, ServedInv, ArgsInv
<1> QED  BY <1>1, <1>2, <1>7, <1>8, <1>9 DEF SocketInv

\* The one served writes its line before the loop has read it.
LEMMA WriteKeeps ==
  ASSUME SocketInv, NEW c \in Client, Write(c)
  PROVE  SocketInv'
<1>1. PICK line \in Line : cl' = [cl EXCEPT ![c].line = line]
  BY DEF Write
<1>2. /\ c = op.sock /\ cl[c].line = NoLine /\ ~cl[c].gone
      /\ queue' = queue /\ op' = op /\ dead' = dead
  BY DEF Write
<1>3. cl' \in Clients
  BY <1>1 DEF SocketInv, Clients
<1>4. \A b \in Client : cl'[b].at = cl[b].at
  BY <1>1 DEF SocketInv, Clients
<1>5. op.at # "exec"
  BY <1>2 DEF SocketInv, ArgsInv
<1>6. QueueInv' /\ ServedInv' /\ ArgsInv'
  BY <1>2, <1>4, <1>5 DEF SocketInv, QueueInv, ServedInv, ArgsInv
<1> QED  BY <1>2, <1>3, <1>6 DEF SocketInv

\* One that leaves stays where it is, for the loop to find.
LEMMA LeaveKeeps ==
  ASSUME SocketInv, NEW c \in Client, Leave(c)
  PROVE  SocketInv'
<1>1. cl' = [cl EXCEPT ![c].gone = TRUE] /\ queue' = queue /\ op' = op /\ dead' = dead
  BY DEF Leave
<1>2. cl' \in Clients
  BY <1>1 DEF SocketInv, Clients
<1>3. \A b \in Client : /\ cl'[b].at = cl[b].at /\ cl'[b].line = cl[b].line
                        /\ cl[b].gone => cl'[b].gone
  BY <1>1 DEF SocketInv, Clients
<1>4. QueueInv' /\ ServedInv' /\ ArgsInv'
  BY <1>1, <1>3 DEF SocketInv, QueueInv, ServedInv, ArgsInv
<1> QED  BY <1>1, <1>2, <1>4 DEF SocketInv

\* The one accepted was the first to wait, and waits no more.
LEMMA AcceptKeeps ==
  ASSUME SocketInv, Accept
  PROVE  SocketInv'
<1> DEFINE c == Head(queue)
<1>1. /\ op.at = "accept" /\ queue # <<>>
      /\ op' = [op EXCEPT !.at = "read", !.sock = c]
      /\ queue' = Tail(queue) /\ cl' = cl /\ dead' = dead
  BY DEF Accept
<1>2. /\ c \in Client /\ c = queue[1] /\ Len(queue) \in Nat /\ Len(queue) >= 1
      /\ queue' \in Seq(Client) /\ Len(queue') = Len(queue) - 1
      /\ \A i \in 1..Len(queue') : queue'[i] = queue[i + 1]
  BY <1>1 DEF SocketInv, QueueInv
<1> HIDE DEF c
<1>3. op' \in Commands /\ op'.at = "read" /\ op'.sock = c /\ op'.args = op.args
  BY <1>1, <1>2 DEF SocketInv, Commands
<1>4. \A i \in 1..Len(queue') : i + 1 \in 1..Len(queue)
  BY <1>2
<1>5. ~Waiting(queue', c)
  BY <1>2, <1>4 DEF SocketInv, QueueInv, Waiting
<1>6. \A b \in Client : Waiting(queue', b) => Waiting(queue, b)
  BY <1>2, <1>4 DEF Waiting
<1>7. QueueInv'
  <2>1. \A i, j \in 1..Len(queue') : queue'[i] = queue'[j] => i = j
    BY <1>2, <1>4 DEF SocketInv, QueueInv
  <2> QED  BY <1>1, <1>2, <1>6, <2>1 DEF SocketInv, QueueInv, Backlog
<1>8. cl[c].at = "connected"
  BY <1>2 DEF SocketInv, QueueInv, Waiting
<1>9. ServedInv' /\ ArgsInv'
  BY <1>1, <1>2, <1>3, <1>5, <1>8 DEF SocketInv, ServedInv, ArgsInv
<1> QED  BY <1>1, <1>3, <1>7, <1>9 DEF SocketInv

\* No step of op between accept and close changes who is served.
LEMMA ServingKeeps ==
  ASSUME SocketInv, op.at # "accept", op' \in Commands, op'.at # "accept",
         op'.sock = op.sock, ArgsInv', UNCHANGED <<cl, queue, dead>>
  PROVE  SocketInv'
BY DEF SocketInv, QueueInv, ServedInv

\* The handler gets the words of the line, over args that were empty.
LEMMA ReadKeeps ==
  ASSUME SocketInv, Read
  PROVE  SocketInv'
<1> DEFINE c == op.sock
           line == cl[c].line
<1>1. /\ op.at = "read" /\ (line # NoLine \/ cl[c].gone) /\ UNCHANGED <<cl, queue, dead>>
      /\ op' = IF Len(line) >= MaxArgs
               THEN [op EXCEPT !.at = "answer", !.did = "invalid", !.says = TRUE]
               ELSE [op EXCEPT !.at = "exec", !.args = Split(line)]
  BY DEF Read
<1>2. c \in Client /\ line \in Line \cup {NoLine} /\ op.args = NoArgs
  BY <1>1 DEF SocketInv, ServedInv, ArgsInv, Clients
<1>3. Split(line) = ArgsOf(line)
  <2>1. \A i \in 0..4 : (i < Len(line)) <=> (i + 1 <= Len(line))
    BY <1>2, WordsOfLine
  <2> QED  BY <1>2, <2>1 DEF Split, ArgsOf, WordAt, NoArgs
<1>4. ArgsOf(line) \in [0..4 -> Word \cup {Null}] /\ Len(line) \in Nat
  BY <1>2, WordsOfLine
<1> HIDE DEF line
<1>5. CASE Len(line) >= MaxArgs
  <2>1. op' \in Commands /\ op'.at = "answer" /\ op'.sock = op.sock
    BY <1>1, <1>5 DEF SocketInv, Commands, Outcome
  <2> QED  BY <1>1, <2>1, ServingKeeps DEF ArgsInv
<1>6. CASE Len(line) < MaxArgs
  <2>1. op' = [op EXCEPT !.at = "exec", !.args = ArgsOf(line)]
    BY <1>1, <1>3, <1>4, <1>6 DEF MaxArgs
  <2>2. op' \in Commands /\ op'.at = "exec" /\ op'.sock = op.sock /\ op'.args = ArgsOf(line)
    BY <1>4, <2>1 DEF SocketInv, Commands
  <2>3. ArgsInv'
    BY <1>1, <1>6, <2>2 DEF ArgsInv, line
  <2> QED  BY <1>1, <2>2, <2>3, ServingKeeps
<1> QED  BY <1>4, <1>5, <1>6 DEF MaxArgs

\* What a command says it did.
LEMMA DispatchOutcome ==
  ASSUME NEW a
  PROVE  Dispatch(a) \in Outcome \cup {"crash or refuse"}
<1>1. config_map_server(a) \in Outcome
  BY DEF config_map_server, Outcome
<1>2. config_locator(a) \in Outcome
  BY DEF config_locator, Outcome
<1>3. config_eid(a) \in Outcome \cup {"crash or refuse"}
  BY DEF config_eid, Outcome
<1>4. config_show(a) \in Outcome
  BY DEF config_show, ShowCommand, Outcome
<1>5. config_route(a) \in Outcome
  BY DEF config_route, Outcome
<1>6. "invalid" \in Outcome
  BY DEF Outcome
<1> QED  BY <1>1, <1>2, <1>3, <1>4, <1>5, <1>6 DEF Dispatch

\* A handler returns to the loop with the answer, or ends the daemon.
LEMMA ExecReturns ==
  ASSUME Exec
  PROVE  \/ Crash
         \/ \E did \in Outcome, says \in BOOLEAN, lines \in SUBSET Prefix :
              Return(did, says, lines)
<1>1. CASE cmd_install_route \/ cmd_uninstall_route
  <2>1. {} \in SUBSET Prefix /\ TRUE \in BOOLEAN
    OBVIOUS
  <2>2. \/ Return("install route", TRUE, {}) \/ Return("uninstall route", TRUE, {})
        \/ Return("invalid", TRUE, {})
    BY <1>1 DEF cmd_install_route, cmd_uninstall_route
  <2> QED  BY <2>1, <2>2 DEF Outcome
<1>2. CASE cmd_show_route
  <2>1. \A f \in Family : \A filter : ShowCommand(f) \in Outcome /\ Shown(f, filter) \in SUBSET Prefix
    BY DEF ShowCommand, Outcome, Shown, Entries
  <2> QED  BY <1>2, <2>1 DEF cmd_show_route
<1>3. CASE OtherCommand
  <2> DEFINE did == Dispatch(op.args)
             done == IF did = "crash or refuse" THEN "invalid" ELSE did
  <2>1. done \in Outcome
    BY DispatchOutcome DEF Outcome
  <2>2. \E says \in BOOLEAN : Return(done, says, {})
    BY <1>3 DEF OtherCommand
  <2> HIDE DEF done
  <2> QED  BY <2>1, <2>2
<1> QED  BY <1>1, <1>2, <1>3 DEF Exec

\* So the one served stays the one served,
LEMMA ExecServes ==
  ASSUME SocketInv, Exec
  PROVE  SocketInv'
<1>1. op.at = "exec"
  BY DEF Exec
<1>2. CASE Crash
  BY <1>2 DEF Crash, SocketInv, QueueInv, ServedInv, ArgsInv
<1>3. ASSUME NEW did \in Outcome, NEW says \in BOOLEAN, NEW lines \in SUBSET Prefix,
             Return(did, says, lines)
      PROVE  SocketInv'
  <2>1. /\ op' = [op EXCEPT !.at = "answer", !.did = did, !.says = says, !.lines = lines]
        /\ UNCHANGED <<cl, queue, dead>>
    BY <1>3 DEF Return
  <2>2. op' \in Commands /\ op'.at = "answer" /\ op'.sock = op.sock
    BY <2>1 DEF SocketInv, Commands
  <2> QED  BY <1>1, <2>1, <2>2, ServingKeeps DEF ArgsInv
<1> QED  BY <1>2, <1>3, ExecReturns

\* until the answer, which closes his connection.
LEMMA AnswerKeeps ==
  ASSUME SocketInv, Answer
  PROVE  SocketInv'
<1> DEFINE c == op.sock
<1>1. op.at = "answer" /\ c \in Client /\ queue' = queue
  BY DEF Answer, SocketInv, ServedInv
<1>2. CASE dead' = TRUE /\ UNCHANGED <<cl, op>>
  BY <1>1, <1>2 DEF SocketInv, QueueInv, ServedInv, ArgsInv
<1>3. CASE cl' = [cl EXCEPT ![c] = Away] /\ op' = Accepting(NoArgs) /\ dead' = dead
  <2>1. Away \in [at : {"away", "connected"}, line : Line \cup {NoLine}, gone : BOOLEAN]
    BY DEF Away
  <2>2. cl' \in Clients
    BY <1>1, <1>3, <2>1 DEF SocketInv, Clients
  <2>3. \A b \in Client \ {c} : cl'[b] = cl[b]
    BY <1>3 DEF SocketInv, Clients
  <2>4. op' \in Commands /\ op'.at = "accept" /\ op'.args = NoArgs
    BY <1>3 DEF Accepting, Commands, Outcome, NoArgs
  <2>5. ~Waiting(queue, c)
    BY <1>1 DEF SocketInv, ServedInv
  <2>6. QueueInv'
    BY <1>1, <2>3, <2>5 DEF SocketInv, QueueInv
  <2> QED  BY <1>3, <2>2, <2>4, <2>6 DEF SocketInv, ServedInv, ArgsInv
<1> QED  BY <1>2, <1>3 DEF Answer, ArgsCleared

\* Clients, the loop and the handlers keep to this.
LEMMA SocketHolds == Init => SocketInv
<1> SUFFICES ASSUME Init PROVE SocketInv
  OBVIOUS
<1>1. <<>> \in Seq(Client) /\ Len(<<>>) = 0
  OBVIOUS
<1>2. Away \in [at : {"away", "connected"}, line : Line \cup {NoLine}, gone : BOOLEAN]
  BY DEF Away
<1>3. op \in Commands /\ op.at = "accept" /\ op.args = NoArgs
  BY DEF Init, Accepting, Commands, Outcome, NoArgs
<1>4. QueueInv
  BY <1>1 DEF Init, QueueInv, Waiting, Backlog
<1> QED  BY <1>2, <1>3, <1>4 DEF Init, SocketInv, Clients, ServedInv, ArgsInv

\* So does every step of the daemon.
LEMMA SocketKept == SocketInv /\ [Next]_vars => SocketInv'
<1> SUFFICES ASSUME SocketInv, [Next]_vars PROVE SocketInv'
  OBVIOUS
<1>1. CASE UNCHANGED <<cl, queue, op, dead>>
  BY <1>1 DEF SocketInv, QueueInv, ServedInv, ArgsInv
<1>2. ASSUME NEW c \in Client, Connect(c) \/ Write(c) \/ Leave(c) PROVE SocketInv'
  BY <1>2, ConnectKeeps, WriteKeeps, LeaveKeeps
<1>3. CASE Operator
  BY <1>3, AcceptKeeps, ReadKeeps, ExecServes, AnswerKeeps DEF Operator
<1> QED  BY <1>1, <1>2, <1>3 DEF Next, vars

\* The table, the clients, the queue and the loop are well formed, and the client
\* the loop serves is connected and not in the queue (lisp_op_thread).
THEOREM TypeCorrect == Spec => []TypeOK
<1>1. TableInv /\ SocketInv => TypeOK
  <2> SUFFICES ASSUME TableTypeOK, SocketInv PROVE TypeOK
    BY DEF TableInv
  <2>1. op.at # "accept" => op.sock \notin ToSet(queue)
    BY DEF SocketInv, ServedInv, QueueInv, Waiting, ToSet
  <2> QED  BY <2>1 DEF TypeOK, SocketInv, QueueInv, ServedInv, Clients, Commands
<1> QED  BY <1>1, InitHolds, NextKeeps, SocketHolds, SocketKept, PTL DEF Spec

-----------------------------------------------------------------------------
(* The commands.                                                           *)

\* What a pattern says of a word: that word, any, or one of those named.
LEMMA SaysWhat ==
  ASSUME NEW w
  PROVE  /\ \A v \in {Null, "mapserver", "locator", "eid", "show", "route", "create",
                      "delete", "authkey", "prefix", "ipv4-route", "ipv6-route", "ipv4",
                      "ipv6"} : Says(w, {v}) => w = v
         /\ Says(w, AnyWord) => w # Null
         /\ Says(w, Parameter) => w \in Parameter
         /\ Says(w, Addr) => w \in Addr
         /\ \A f \in Family : Says(w, DOMAIN Bits[f]) => w \in DOMAIN Bits[f]
<1>1. "any word" \in AnyWord /\ \A v \in AnyWord : v = "any word" /\ v \notin Word
  BY WordAssumption DEF AnyWord
<1>2. Addr # AnyWord /\ \A f \in Family : DOMAIN Bits[f] # AnyWord
  BY <1>1, AddrAssumption, BitsAssumption
<1>3. \A v : v # "any word" => {v} # AnyWord
  BY <1>1
<1>4. "any word" \notin Parameter
  BY DEF Parameter
<1>5. Parameter # AnyWord
  BY <1>1, <1>4
<1>6. Says(w, AnyWord) => w # Null
  BY <1>1 DEF Says, Null
<1> QED  BY <1>2, <1>3, <1>5, <1>6 DEF Says, Null

\* The operator's routes are lines of their own; any other line in the usage gets
\* to the handler it means.
RouteLine(a) == /\ a[0] = "route" /\ a[1] \in Family
                /\ a[2] \in DOMAIN Bits[a[1]] /\ a[3] \in Addr \cup {"delete"}

Others == {"install route", "uninstall route", "crash or refuse"}

\* What fits in the usage is one or the other.
LEMMA FitsHandler ==
  ASSUME NEW line, NEW v \in Usage, Fits(line, v[1])
  PROVE  \/ RouteLine(ArgsOf(line))
         \/ v[2] = Dispatch(ArgsOf(line)) /\ v[2] \notin Others
<1> DEFINE a == ArgsOf(line)
<1>1. /\ a[0] = WordAt(line, 1) /\ a[1] = WordAt(line, 2) /\ a[2] = WordAt(line, 3)
      /\ a[3] = WordAt(line, 4) /\ a[4] = WordAt(line, 5)
  BY DEF ArgsOf
<1> HIDE DEF a
<1>2. ASSUME NEW A, NEW B, v[1] = <<A, B>>
      PROVE  Says(a[0], A) /\ Says(a[1], B)
  BY <1>1, <1>2 DEF Fits
<1>3. ASSUME NEW A, NEW B, NEW C, v[1] = <<A, B, C>>
      PROVE  Says(a[0], A) /\ Says(a[1], B) /\ Says(a[2], C)
  BY <1>1, <1>3 DEF Fits
<1>4. ASSUME NEW A, NEW B, NEW C, NEW D, v[1] = <<A, B, C, D>>
      PROVE  Says(a[0], A) /\ Says(a[1], B) /\ Says(a[2], C) /\ Says(a[3], D)
  BY <1>1, <1>4 DEF Fits
<1>5. ASSUME NEW A, NEW B, NEW C, NEW D, NEW E, v[1] = <<A, B, C, D, E>>
      PROVE  /\ Says(a[0], A) /\ Says(a[1], B) /\ Says(a[2], C) /\ Says(a[3], D)
             /\ Says(a[4], E)
  BY <1>1, <1>5 DEF Fits
<1> SUFFICES RouteLine(a) \/ (v[2] = Dispatch(a) /\ v[2] \notin Others)
  BY DEF a
<1>6. CASE v = <<<<{"mapserver"}, AnyWord, {Null}>>, "set map server">>
  <2>1. a[0] = "mapserver" /\ a[2] = Null
    BY <1>3, <1>6, SaysWhat
  <2> QED  BY <1>6, <2>1 DEF Others, Dispatch, config_map_server, Null
<1>7. CASE v = <<<<{"mapserver"}, AnyWord, {"delete"}>>, "delete map server">>
  <2>1. a[0] = "mapserver" /\ a[2] = "delete"
    BY <1>3, <1>7, SaysWhat
  <2> QED  BY <1>7, <2>1 DEF Others, Dispatch, config_map_server, Null
<1>8. CASE v = <<<<{"locator"}, AnyWord, {"create"}>>, "create locator">>
  <2>1. a[0] = "locator" /\ a[1] # Null /\ a[2] = "create"
    BY <1>3, <1>8, SaysWhat
  <2> QED  BY <1>8, <2>1 DEF Others, Dispatch, config_locator, Null
<1>9. CASE v = <<<<{"locator"}, AnyWord, {"delete"}>>, "delete locator">>
  <2>1. a[0] = "locator" /\ a[1] # Null /\ a[2] = "delete"
    BY <1>3, <1>9, SaysWhat
  <2> QED  BY <1>9, <2>1 DEF Others, Dispatch, config_locator, Null
<1>10. CASE v = <<<<{"locator"}, AnyWord, Parameter, AnyWord>>, "set locator">>
  <2>1. a[0] = "locator" /\ a[1] # Null /\ a[2] \in Parameter /\ a[3] # Null
    BY <1>4, <1>10, SaysWhat, ZenonT(40)
  <2> QED  BY <1>10, <2>1 DEF Others, Dispatch, config_locator, Null, Parameter
<1>11. CASE v = <<<<{"eid"}, AnyWord, {"create"}>>, "create eid">>
  <2>1. a[0] = "eid" /\ a[1] # Null /\ a[2] = "create"
    BY <1>3, <1>11, SaysWhat
  <2> QED  BY <1>11, <2>1 DEF Others, Dispatch, config_eid, Null
<1>12. CASE v = <<<<{"eid"}, AnyWord, {"delete"}>>, "delete eid">>
  <2>1. a[0] = "eid" /\ a[1] # Null /\ a[2] = "delete"
    BY <1>3, <1>12, SaysWhat
  <2> QED  BY <1>12, <2>1 DEF Others, Dispatch, config_eid, Null
<1>13. CASE v = <<<<{"eid"}, AnyWord, {"authkey"}, AnyWord>>, "set key">>
  <2>1. a[0] = "eid" /\ a[1] # Null /\ a[2] = "authkey" /\ a[3] # Null
    BY <1>4, <1>13, SaysWhat
  <2> QED  BY <1>13, <2>1 DEF Others, Dispatch, config_eid, Null
<1>14. CASE v = <<<<{"eid"}, AnyWord, {"prefix"}, AnyWord, {Null}>>, "add prefix">>
  <2>1. a[0] = "eid" /\ a[1] # Null /\ a[2] = "prefix" /\ a[3] # Null /\ a[4] = Null
    <3>1. v[1] = <<{"eid"}, AnyWord, {"prefix"}, AnyWord, {Null}>>
      BY <1>14
    <3>2. /\ Says(a[0], {"eid"}) /\ Says(a[1], AnyWord) /\ Says(a[2], {"prefix"})
          /\ Says(a[3], AnyWord) /\ Says(a[4], {Null})
      BY <1>5, <3>1
    <3> QED  BY <3>2, SaysWhat
  <2> QED  BY <1>14, <2>1 DEF Others, Dispatch, config_eid, Null
<1>15. CASE v = <<<<{"eid"}, AnyWord, {"prefix"}, AnyWord, {"delete"}>>, "remove prefix">>
  <2>1. a[0] = "eid" /\ a[1] # Null /\ a[2] = "prefix" /\ a[3] # Null /\ a[4] = "delete"
    <3>1. v[1] = <<{"eid"}, AnyWord, {"prefix"}, AnyWord, {"delete"}>>
      BY <1>15
    <3>2. /\ Says(a[0], {"eid"}) /\ Says(a[1], AnyWord) /\ Says(a[2], {"prefix"})
          /\ Says(a[3], AnyWord) /\ Says(a[4], {"delete"})
      BY <1>5, <3>1
    <3> QED  BY <3>2, SaysWhat
  <2> QED  BY <1>15, <2>1 DEF Others, Dispatch, config_eid, Null
<1>16. CASE v = <<<<{"show"}, {"ipv4-route"}>>, "show ipv4-route">>
  <2>1. a[0] = "show" /\ a[1] = "ipv4-route"
    BY <1>2, <1>16, SaysWhat
  <2> QED  BY <1>16, <2>1 DEF Others, Dispatch, config_show, ShowCommand
<1>17. CASE v = <<<<{"show"}, {"ipv6-route"}>>, "show ipv6-route">>
  <2>1. a[0] = "show" /\ a[1] = "ipv6-route"
    BY <1>2, <1>17, SaysWhat
  <2> QED  BY <1>17, <2>1 DEF Others, Dispatch, config_show, ShowCommand
<1>18. CASE v = <<<<{"show"}, {"eid"}>>, "show eid">>
  <2>1. a[0] = "show" /\ a[1] = "eid"
    BY <1>2, <1>18, SaysWhat
  <2> QED  BY <1>18, <2>1 DEF Others, Dispatch, config_show
<1>19. CASE v = <<<<{"show"}, {"mapserver"}>>, "show mapserver">>
  <2>1. a[0] = "show" /\ a[1] = "mapserver"
    BY <1>2, <1>19, SaysWhat
  <2> QED  BY <1>19, <2>1 DEF Others, Dispatch, config_show
<1>20. CASE v = <<<<{"show"}, {"locator"}>>, "show locator">>
  <2>1. a[0] = "show" /\ a[1] = "locator"
    BY <1>2, <1>20, SaysWhat
  <2> QED  BY <1>20, <2>1 DEF Others, Dispatch, config_show
<1>21. ASSUME NEW f \in Family,
              \/ v = <<<<{"route"}, {f}, DOMAIN Bits[f], Addr>>, "install route">>
              \/ v = <<<<{"route"}, {f}, DOMAIN Bits[f], {"delete"}>>, "uninstall route">>
       PROVE  RouteLine(a)
  <2>1. PICK D \in {Addr, {"delete"}} : v[1] = <<{"route"}, {f}, DOMAIN Bits[f], D>>
    <3>1. \A P, m : v = <<P, m>> => v[1] = P
      OBVIOUS
    <3> QED  BY <1>21, <3>1, Zenon
  <2>2. /\ Says(a[0], {"route"}) /\ Says(a[1], {f})
        /\ Says(a[2], DOMAIN Bits[f]) /\ Says(a[3], D)
    BY <1>4, <2>1
  <2>3. a[0] = "route" /\ a[1] = f /\ a[2] \in DOMAIN Bits[f] /\ a[3] \in Addr \cup {"delete"}
    BY <2>2, SaysWhat DEF Family
  <2> QED  BY <2>3 DEF RouteLine
<1> QED  BY <1>6, <1>7, <1>8, <1>9, <1>10, <1>11, <1>12, <1>13, <1>14, <1>15, <1>16, <1>17,
            <1>18, <1>19, <1>20, <1>21 DEF Usage

\* And a line for a route means to install or to remove it.
LEMMA RouteMeant ==
  ASSUME NEW line, ~(Len(line) >= MaxArgs), RouteLine(ArgsOf(line))
  PROVE  LET a == ArgsOf(line)
         IN /\ a[3] \in Addr => "install route" \in Meant(line)
            /\ a[3] = "delete" => "uninstall route" \in Meant(line)
            /\ Dispatch(a) = IF a[3] = "delete" THEN "uninstall route" ELSE "install route"
<1> DEFINE a == ArgsOf(line)
<1>1. /\ a[0] = WordAt(line, 1) /\ a[1] = WordAt(line, 2) /\ a[2] = WordAt(line, 3)
      /\ a[3] = WordAt(line, 4)
  BY DEF ArgsOf
<1>2. /\ a[0] = "route" /\ a[1] \in Family /\ a[2] \in DOMAIN Bits[a[1]]
      /\ a[3] \in Addr \cup {"delete"}
  BY DEF RouteLine
<1> HIDE DEF a
<1>3. ASSUME NEW D, a[3] \in D
      PROVE  Fits(line, <<{"route"}, {a[1]}, DOMAIN Bits[a[1]], D>>)
  BY <1>1, <1>2, <1>3 DEF Fits, Says
<1>4. \A v \in Usage : Fits(line, v[1]) => v[2] \in Meant(line)
  BY DEF Meant
<1>5. a[3] \in Addr => "install route" \in Meant(line)
  <2> DEFINE v == <<<<{"route"}, {a[1]}, DOMAIN Bits[a[1]], Addr>>, "install route">>
  <2>1. v \in Usage
    BY <1>2 DEF Usage
  <2>2. a[3] \in Addr => Fits(line, v[1])
    BY <1>3
  <2>3. v[2] = "install route"
    OBVIOUS
  <2> HIDE DEF v
  <2> QED  BY <1>4, <2>1, <2>2, <2>3
<1>6. a[3] = "delete" => "uninstall route" \in Meant(line)
  <2> DEFINE v == <<<<{"route"}, {a[1]}, DOMAIN Bits[a[1]], {"delete"}>>, "uninstall route">>
  <2>1. v \in Usage
    BY <1>2 DEF Usage
  <2>2. a[3] = "delete" => Fits(line, v[1])
    BY <1>3
  <2>3. v[2] = "uninstall route"
    OBVIOUS
  <2> HIDE DEF v
  <2> QED  BY <1>4, <2>1, <2>2, <2>3
<1>7. a[1] # Null /\ a[2] # Null /\ a[3] # Null
  <2>1. a[1] # Null
    BY <1>2 DEF Family, Null
  <2>2. a[2] \in Word /\ (a[3] \in Word \/ a[3] = "delete")
    BY <1>2, BitsAssumption, AddrAssumption
  <2> QED  BY <2>1, <2>2, WordAssumption DEF Null
<1>8. Dispatch(a) = IF a[3] = "delete" THEN "uninstall route" ELSE "install route"
  BY <1>2, <1>7 DEF Dispatch, config_route
<1> QED  BY <1>5, <1>6, <1>8 DEF a

\* Any other line means what it gets to, or nothing.
LEMMA OtherMeant ==
  ASSUME NEW line, NEW m \in Meant(line), ~RouteLine(ArgsOf(line))
  PROVE  m = Dispatch(ArgsOf(line)) /\ m \notin Others
<1>1. PICK v \in Usage : Fits(line, v[1]) /\ v[2] = m
  BY DEF Meant
<1> QED  BY <1>1, FitsHandler

\* The line the loop carries out, when it does, is the one its client wrote.
LEMMA LineCarriedOut ==
  ASSUME SocketInv, op.at = "exec"
  PROVE  LET line == cl[op.sock].line
         IN /\ line \in Line \cup {NoLine} /\ Len(line) < MaxArgs /\ ~(Len(line) >= MaxArgs)
            /\ op.args = ArgsOf(line)
            /\ RouteLine(op.args) => op.args[1] = line[2] /\ op.args[2] = line[3]
<1> DEFINE line == cl[op.sock].line
<1>1. line \in Line \cup {NoLine} /\ Len(line) < MaxArgs /\ op.args = ArgsOf(line)
  BY DEF SocketInv, ServedInv, ArgsInv, Clients
<1>2. Len(line) \in Nat
  BY <1>1, WordsOfLine
<1> HIDE DEF line
<1>3. ASSUME RouteLine(op.args) PROVE op.args[1] = line[2] /\ op.args[2] = line[3]
  <2>1. op.args[1] = WordAt(line, 2) /\ op.args[2] = WordAt(line, 3)
    BY <1>1 DEF ArgsOf
  <2>2. op.args[1] # Null /\ op.args[2] # Null
    BY <1>3, WordAssumption, BitsAssumption DEF RouteLine, Family, Null
  <2> QED  BY <2>1, <2>2 DEF WordAt
<1>4. ~(Len(line) >= MaxArgs)
  BY <1>1, <1>2 DEF MaxArgs
<1> QED  BY <1>1, <1>3, <1>4 DEF line

\* A route installed is there afterwards.
LEMMA InstallCarried ==
  ASSUME TableTypeOK, NEW f \in Family, NEW p \in Prefix, install_mapnode_static(f, p)
  PROVE  rib'[p].state = "static" /\ \A q \in Prefix \ {p} : rib'[q] = rib[q]
<1>1. update_mapnode(f, p, "static") /\ "static" \in EntryState
  BY DEF install_mapnode_static, EntryState
<1>2. ~Updatable(p) => rib[p].state = "static"
  BY DEF Updatable
<1> QED  BY <1>1, <1>2, UpdateEffect

\* An entry removed covered the prefix named.
LEMMA UninstallCarried ==
  ASSUME TableTypeOK, NEW f \in Family, NEW p \in Prefix, uninstall_mapnode_static(f, p)
  PROVE  \A q \in Prefix : rib'[q] # rib[q] => Covers(q, p)
<1> DEFINE r == search_mapnode(p)
<1>1. CASE ~Uninstallable(p)
  BY <1>1 DEF uninstall_mapnode_static
<1>2. CASE Uninstallable(p)
  <2>1. Entries \in SUBSET Seq(Bit) /\ p \in Seq(Bit)
    BY PrefixAssumption DEF Entries, Bit
  <2>2. Covers(r, p)
    BY <1>2, <2>1, LongestMatchCovers DEF Uninstallable, Matched, search_mapnode, Covering
  <2>3. rib' = [rib EXCEPT ![r] = NoEntry]
    BY <1>2 DEF uninstall_mapnode_static
  <2> HIDE DEF r
  <2>4. \A q \in Prefix \ {r} : rib'[q] = rib[q]
    BY <2>3 DEF TableTypeOK
  <2> QED  BY <2>2, <2>4
<1> QED  BY <1>1, <1>2

\* The loop answers only by carrying out a command.
LEMMA OnlyExecAnswers ==
  ASSUME SocketInv, [Next]_vars, op.at = "exec", op'.at = "answer"
  PROVE  cmd_install_route \/ cmd_uninstall_route \/ cmd_show_route \/ OtherCommand
<1>1. op' # op
  OBVIOUS
<1>2. Operator
  BY <1>1 DEF Next, vars, Connect, Write, Leave
<1>3. Exec
  BY <1>2 DEF Operator, Accept, Read, Answer
<1> QED  BY <1>1, <1>3 DEF Exec, Crash

\* What a handler returns is what op then has.
LEMMA ReturnSets ==
  ASSUME SocketInv, NEW did, NEW says, NEW lines, Return(did, says, lines)
  PROVE  op'.did = did /\ op'.lines = lines
BY DEF Return, SocketInv, Commands

\* One handler per line: it does what the line means, and what is no line of the
\* usage does nothing to the table.
LEMMA InstallAnswers ==
  ASSUME TableTypeOK, SocketInv, op.at = "exec", cmd_install_route
  PROVE  LET line == cl[op.sock].line
             meant == Meant(line)
         IN /\ meant # {} => op'.did \in meant
            /\ Carried(IF meant = {} THEN "invalid" ELSE op'.did, line)
<1> DEFINE line == cl[op.sock].line
           a == op.args
           valid == a[1] \in Family /\ a[3] \in Addr /\ a[2] \in DOMAIN Bits[a[1]]
<1>1. /\ a = ArgsOf(line) /\ ~(Len(line) >= MaxArgs)
      /\ RouteLine(a) => a[1] = line[2] /\ a[2] = line[3]
  BY LineCarriedOut
<1>2. Dispatch(a) = "install route"
  BY DEF cmd_install_route
<1>3. a[0] = "route" /\ a[3] # "delete"
  BY <1>2 DEF Dispatch, config_map_server, config_locator, config_eid, config_show,
              ShowCommand, config_route
<1>4. CASE valid
  <2>1. install_mapnode_static(a[1], Bits[a[1]][a[2]]) /\ Return("install route", TRUE, {})
    BY <1>4 DEF cmd_install_route
  <2>2. op'.did = "install route"
    BY <2>1, ReturnSets
  <2>3. RouteLine(a)
    BY <1>3, <1>4 DEF RouteLine
  <2>4. "install route" \in Meant(line)
    BY <1>1, <1>4, <2>3, RouteMeant
  <2>5. Bits[a[1]][a[2]] \in Prefix
    BY <1>4, BitsAssumption
  <2>6. /\ rib'[Bits[a[1]][a[2]]].state = "static"
        /\ \A q \in Prefix \ {Bits[a[1]][a[2]]} : rib'[q] = rib[q]
    BY <1>4, <2>1, <2>5, InstallCarried, ZenonT(40)
  <2>7. Carried("install route", line)
    BY <1>1, <2>3, <2>6 DEF Carried
  <2> QED  BY <2>2, <2>4, <2>7
<1>5. CASE ~valid
  <2>1. UNCHANGED tableVars
    BY <1>5 DEF cmd_install_route
  <2>2. Meant(line) = {}
    BY <1>1, <1>2, <1>3, <1>5, OtherMeant DEF RouteLine, Others
  <2> QED  BY <2>1, <2>2 DEF Carried, tableVars
<1> QED  BY <1>4, <1>5

\* Removing a route is another.
LEMMA UninstallAnswers ==
  ASSUME TableTypeOK, SocketInv, op.at = "exec", cmd_uninstall_route
  PROVE  LET line == cl[op.sock].line
             meant == Meant(line)
         IN /\ meant # {} => op'.did \in meant
            /\ Carried(IF meant = {} THEN "invalid" ELSE op'.did, line)
<1> DEFINE line == cl[op.sock].line
           a == op.args
           valid == a[1] \in Family /\ a[2] \in DOMAIN Bits[a[1]]
<1>1. /\ a = ArgsOf(line) /\ ~(Len(line) >= MaxArgs)
      /\ RouteLine(a) => a[1] = line[2] /\ a[2] = line[3]
  BY LineCarriedOut
<1>2. Dispatch(a) = "uninstall route"
  BY DEF cmd_uninstall_route
<1>3. a[0] = "route" /\ a[3] = "delete"
  BY <1>2 DEF Dispatch, config_map_server, config_locator, config_eid, config_show,
              ShowCommand, config_route
<1>4. CASE valid
  <2>1. uninstall_mapnode_static(a[1], Bits[a[1]][a[2]]) /\ Return("uninstall route", TRUE, {})
    BY <1>4 DEF cmd_uninstall_route
  <2>2. op'.did = "uninstall route"
    BY <2>1, ReturnSets
  <2>3. RouteLine(a)
    BY <1>3, <1>4 DEF RouteLine
  <2>4. "uninstall route" \in Meant(line)
    BY <1>1, <1>3, <2>3, RouteMeant
  <2>5. Bits[a[1]][a[2]] \in Prefix
    BY <1>4, BitsAssumption
  <2>6. \A q \in Prefix : rib'[q] # rib[q] => Covers(q, Bits[a[1]][a[2]])
    BY <1>4, <2>1, <2>5, UninstallCarried
  <2>7. Carried("uninstall route", line)
    BY <1>1, <2>3, <2>6 DEF Carried
  <2> QED  BY <2>2, <2>4, <2>7
<1>5. CASE ~valid
  <2>1. UNCHANGED tableVars
    BY <1>5 DEF cmd_uninstall_route
  <2>2. Meant(line) = {}
    BY <1>1, <1>2, <1>5, OtherMeant DEF RouteLine, Others
  <2> QED  BY <2>1, <2>2 DEF Carried, tableVars
<1> QED  BY <1>4, <1>5

\* A line that is neither of these leaves the table alone and is answered by the
\* command it means.
LEMMA OtherAnswers ==
  ASSUME TableTypeOK, SocketInv, op.at = "exec", cmd_show_route \/ OtherCommand
  PROVE  LET line == cl[op.sock].line
             meant == Meant(line)
         IN /\ meant # {} => op'.did \in meant
            /\ Carried(IF meant = {} THEN "invalid" ELSE op'.did, line)
<1> DEFINE line == cl[op.sock].line
           a == op.args
<1>1. a = ArgsOf(line) /\ ~(Len(line) >= MaxArgs)
  BY LineCarriedOut
<1>2. \A f \in Family : ShowCommand(f) \notin Others
  BY DEF ShowCommand, Others
<1>3. /\ UNCHANGED tableVars
      /\ Dispatch(a) \notin {"install route", "uninstall route"}
      /\ op'.did \in {Dispatch(a), "invalid"}
      /\ Dispatch(a) \notin Others => op'.did = Dispatch(a)
  <2>1. CASE cmd_show_route
    <3>1. PICK f \in Family : /\ Dispatch(a) = ShowCommand(f) /\ UNCHANGED tableVars
                              /\ \E filter : Return(ShowCommand(f), FALSE, Shown(f, filter))
      BY <2>1 DEF cmd_show_route
    <3>2. op'.did = ShowCommand(f)
      BY <3>1, ReturnSets
    <3> QED  BY <1>2, <3>1, <3>2 DEF Others
  <2>2. CASE OtherCommand
    <3>1. \E says : Return(IF Dispatch(a) = "crash or refuse" THEN "invalid" ELSE Dispatch(a), says, {})
      BY <2>2 DEF OtherCommand
    <3>2. op'.did = IF Dispatch(a) = "crash or refuse" THEN "invalid" ELSE Dispatch(a)
      BY <3>1, ReturnSets
    <3> QED  BY <2>2, <3>2 DEF OtherCommand, Others
  <2> QED  BY <2>1, <2>2
<1>4. ~RouteLine(a)
  BY <1>1, <1>3, RouteMeant
<1>5. Meant(line) # {} => op'.did \in Meant(line)
  BY <1>1, <1>3, <1>4, OtherMeant
<1>6. op'.did \notin {"install route", "uninstall route"}
  BY <1>3
<1>7. Carried(IF Meant(line) = {} THEN "invalid" ELSE op'.did, line)
  BY <1>3, <1>6 DEF Carried, tableVars
<1> QED  BY <1>5, <1>7

\* Every line is carried out as the usage says, on the prefix it names; one that
\* is not in the usage touches neither table nor routes (args and buf of
\* lisp_op_thread, the tests for missing words in the config_ functions).
THEOREM AnswersInOrder == Spec => AnswersOwnCommand
<1> DEFINE Answers ==
      op.at = "exec" /\ op'.at = "answer" =>
        LET line == cl[op.sock].line
            meant == Meant(line)
        IN /\ meant # {} => op'.did \in meant
           /\ Carried(IF meant = {} THEN "invalid" ELSE op'.did, line)
<1>1. TableInv /\ SocketInv /\ [Next]_vars => [Answers]_vars
  <2> SUFFICES ASSUME TableTypeOK, SocketInv, [Next]_vars, op.at = "exec", op'.at = "answer"
               PROVE  LET line == cl[op.sock].line
                          meant == Meant(line)
                      IN /\ meant # {} => op'.did \in meant
                         /\ Carried(IF meant = {} THEN "invalid" ELSE op'.did, line)
    BY DEF TableInv
  <2> QED  BY OnlyExecAnswers, InstallAnswers, UninstallAnswers, OtherAnswers
<1> QED  BY <1>1, InitHolds, NextKeeps, SocketHolds, SocketKept, PTL
         DEF Spec, AnswersOwnCommand

\* Where no entry of the other family is above or below, the walk leaves no entry
\* out that passes.
LEMMA ShownIsAsked ==
  ASSUME TableTypeOK, Apart, NEW f \in Family, NEW filter
  PROVE  Shown(f, filter) = {p \in Entries : rib[p].family = f /\ Passes(p, filter)}
<1>1. ASSUME NEW p \in Entries, Passes(p, filter)
      PROVE  (\A q \in Covering(Entries, p) : Passes(q, filter) => rib[q].family = f)
                <=> rib[p].family = f
  <2>1. p \in Covering(Entries, p)
    BY EntryMatches DEF Covering
  <2>2. \A q \in Covering(Entries, p) : rib[q].family = rib[p].family
    BY DEF Apart, Covering, Comparable
  <2> QED  BY <1>1, <2>1, <2>2
<1> QED  BY <1>1 DEF Shown

\* "show" lists the entries of the family, of the state asked for, all of them,
\* while no entry of the other family is above or below them (cmd_show_route).
THEOREM ShowsAll == Spec => ShowComplete
<1> DEFINE Shows ==
      \A f \in Family :
        LET line == cl[op.sock].line
        IN /\ Apart
           /\ op.at = "exec" /\ op'.at = "answer" /\ op'.did = ShowCommand(f)
           /\ Len(line) >= 3 => line[3] \in EntryState
           => op'.lines = Asked(f, line)
<1>1. TableInv /\ SocketInv /\ [Next]_vars => [Shows]_vars
  <2> DEFINE line == cl[op.sock].line
             a == op.args
  <2> SUFFICES ASSUME TableTypeOK, SocketInv, [Next]_vars, NEW f \in Family, Apart,
                      op.at = "exec", op'.at = "answer", op'.did = ShowCommand(f),
                      Len(line) >= 3 => line[3] \in EntryState
               PROVE  op'.lines = Asked(f, line)
    BY DEF TableInv
  <2>1. \A g \in Family : ShowCommand(g) = ShowCommand(f) => g = f
    BY DEF ShowCommand, Family
  <2>2. ShowCommand(f) \notin {"install route", "uninstall route", "invalid"}
    BY DEF ShowCommand
  <2>3. cmd_show_route
    <3>1. CASE cmd_install_route \/ cmd_uninstall_route
      BY <2>2, <3>1, ReturnSets DEF cmd_install_route, cmd_uninstall_route
    <3>2. CASE OtherCommand
      <4>1. PICK says : Return(IF Dispatch(a) = "crash or refuse" THEN "invalid"
                               ELSE Dispatch(a), says, {})
        BY <3>2 DEF OtherCommand
      <4>2. op'.did \in {Dispatch(a), "invalid"}
        BY <4>1, ReturnSets
      <4>3. Dispatch(a) # ShowCommand(f)
        BY <3>2 DEF OtherCommand
      <4> QED  BY <2>2, <4>2, <4>3
    <3> QED  BY <3>1, <3>2, OnlyExecAnswers
  <2>4. PICK g \in Family, filter \in Filters(a[2]) :
          Return(ShowCommand(g), FALSE, Shown(g, filter))
    BY <2>3 DEF cmd_show_route
  <2>5. g = f /\ op'.lines = Shown(f, filter)
    BY <2>1, <2>4, ReturnSets
  <2>6. /\ a[2] = IF 3 <= Len(line) THEN line[3] ELSE Null
        /\ Len(line) \in Nat
    BY LineCarriedOut, WordsOfLine DEF ArgsOf, WordAt
  <2>7. CASE Len(line) >= 3
    <3>1. a[2] = line[3] /\ line[3] \in EntryState
      BY <2>6, <2>7
    <3>2. a[2] # Null
      BY <3>1 DEF EntryState, Null
    <3>3. filter = line[3]
      BY <2>4, <3>1, <3>2 DEF Filters
    <3>4. \A p : Passes(p, filter) <=> rib[p].state = line[3]
      BY <3>1, <3>3 DEF Passes, EntryState
    <3> QED  BY <2>5, <2>7, <3>4, ShownIsAsked DEF Asked
  <2>8. CASE ~(Len(line) >= 3)
    <3>1. a[2] = Null
      BY <2>6, <2>8
    <3>2. filter = "all"
      BY <2>4, <3>1 DEF Filters, EntryState, Null
    <3> QED  BY <2>5, <2>8, <3>2, ShownIsAsked DEF Asked, Passes
  <2> QED  BY <2>7, <2>8
<1> QED  BY <1>1, InitHolds, NextKeeps, SocketHolds, SocketKept, PTL
         DEF Spec, ShowComplete

================================================================================
