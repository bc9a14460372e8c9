---------------------------- MODULE MapTable_proofs ----------------------------
(***************************************************************************)
(* Theorems about MapTable, for every set of prefixes, every lifetime and  *)
(* every mapping system.                                                   *)
(***************************************************************************)
EXTENDS MapTable, PrefixTheorems, SequenceTheorems

\* The nodes the table can hold.
NodeType == [state : EntryState \cup {"none"}, ttl : Int]

\* search_mapnode returns an entry of the table whenever one covers p.
LEMMA SearchFindsEntry ==
  ASSUME TypeOK, NEW p \in Prefix, Matched(p)
  PROVE  search_mapnode(p) \in Entries /\ Covers(search_mapnode(p), p)
<1>1. Entries \in SUBSET Seq(Bit) /\ p \in Seq(Bit)
  BY PrefixAssumption DEF Entries, Bit
<1>2. search_mapnode(p) \in Covering(Entries, p)
  BY <1>1, LongestMatchCovers DEF Matched, search_mapnode
<1> QED  BY <1>2 DEF Covering

\* update_mapnode keeps the table well formed.
LEMMA UpdateType ==
  ASSUME TypeOK, NEW p \in Prefix, NEW s \in EntryState, NEW t \in Int,
         update_mapnode(p, Node(s, t))
  PROVE  /\ rib' \in [Prefix -> NodeType]
         /\ \A q \in Prefix : rib'[q].state = "none" => rib'[q] = NoEntry
<1>1. Node(s, t) \in NodeType /\ Node(s, t).state # "none"
  BY DEF Node, NodeType, EntryState
<1>2. rib \in [Prefix -> NodeType]
  BY DEF TypeOK, NodeType
<1> QED  BY <1>1, <1>2 DEF update_mapnode, TypeOK

\* delete_mapnode keeps the table well formed.
LEMMA DeleteType ==
  ASSUME TypeOK, NEW p \in Prefix, delete_mapnode(p)
  PROVE  /\ rib' \in [Prefix -> NodeType]
         /\ \A q \in Prefix : rib'[q].state = "none" => rib'[q] = NoEntry
<1>1. NoEntry \in NodeType
  BY DEF NoEntry, NodeType
<1>2. rib \in [Prefix -> NodeType]
  BY DEF TypeOK, NodeType
<1> QED  BY <1>1, <1>2 DEF delete_mapnode, TypeOK

\* What a Map-Reply record can say.
LEMMA RecordType ==
  ASSUME NEW r \in Record
  PROVE  /\ r.prefix \in Prefix
         /\ r.ttl \in Int
<1>1. CASE r \in [prefix : ReplyPrefix, act : {"locators"}, ttl : RecordTtl]
  BY <1>1, SubsetAssumption, TtlAssumption
<1>2. CASE r \in [prefix : ReplyPrefix, act : NegativeAct, ttl : {0}]
  <2>1. r.prefix \in ReplyPrefix /\ r.ttl \in {0}
    BY <1>2
  <2>2. r.ttl = 0
    BY <2>1
  <2> QED  BY <2>1, <2>2, SubsetAssumption
<1> QED  BY <1>1, <1>2 DEF Record

-----------------------------------------------------------------------------
(* Type correctness.                                                       *)

\* The table, the kernel's routes, the requests and the reply in hand stay
\* well formed whatever the threads do, and an emptied slot is empty: nothing
\* of a deleted map node survives.
THEOREM TypeCorrect == Spec => []TypeOK
<1>1. Init => TypeOK
  <2> SUFFICES ASSUME Init PROVE TypeOK
    OBVIOUS
  <2>1. NoEntry \in NodeType
    BY DEF NoEntry, NodeType
  <2>2. msg \in Seq(Record)
    BY EmptySeq DEF Init
  <2> QED  BY <2>1, <2>2 DEF Init, TypeOK, NodeType
<1>2. TypeOK /\ [Next]_vars => TypeOK'
  <2> SUFFICES ASSUME TypeOK, [Next]_vars PROVE TypeOK'
    OBVIOUS
  <2>1. rib \in [Prefix -> NodeType]
    BY DEF TypeOK, NodeType
  <2>2. ASSUME NEW P \in SUBSET Prefix, send_map_request(P)
        PROVE  requests' \in SUBSET Prefix
    BY <2>2 DEF send_map_request, TypeOK
  <2>3. ASSUME msg # <<>>
        PROVE  Head(msg) \in Record /\ Tail(msg) \in Seq(Record)
    BY <2>3, HeadTailProperties DEF TypeOK
  <2>4. CASE UNCHANGED vars
    BY <2>4 DEF TypeOK, vars
  <2>5. ASSUME NEW h \in Host, RawPacket(h) PROVE TypeOK'
    <3>1. h \in Prefix
      BY SubsetAssumption
    <3>2. PICK g \in GarbageTtl : update_mapnode(h, Node("queried", g))
      BY <2>5 DEF RawPacket
    <3>3. g \in Int /\ "queried" \in EntryState
      BY TtlAssumption DEF EntryState
    <3>4. requests' \in SUBSET Prefix
      BY <2>2, <2>5, <3>1 DEF RawPacket
    <3> QED  BY <2>5, <3>1, <3>2, <3>3, <3>4, UpdateType DEF TypeOK, NodeType, RawPacket
  <2>6. ASSUME NEW q \in Prefix, ReceiveMapReply(q) PROVE TypeOK'
    <3>1. PICK n \in 1..MaxRecords :
            msg' \in [1..n -> {r \in Record : Comparable(r.prefix, q)}]
      BY <2>6 DEF ReceiveMapReply
    <3>2. n \in Nat
      BY MaxRecordsAssumption
    <3>3. msg' \in [1..n -> Record]
      BY <3>1
    <3>4. msg' \in Seq(Record)
      BY <3>2, <3>3, SeqDef
    <3>5. requests' \in SUBSET Prefix
      BY <2>6 DEF ReceiveMapReply, TypeOK
    <3> QED  BY <2>6, <3>4, <3>5 DEF TypeOK, ReceiveMapReply
  <2>7. ASSUME NEW q \in Prefix, Lose(q) PROVE TypeOK'
    BY <2>7 DEF TypeOK, Lose
  <2>8. CASE KnownMapping
    <3>1. Head(msg) \in Record
      BY <2>3, <2>8 DEF KnownMapping, RecordIs
    <3> DEFINE q == search_mapnode(Head(msg).prefix)
    <3>2. q \in Entries
      BY <2>8, <3>1, RecordType, SearchFindsEntry DEF KnownMapping
    <3>3. rib' = [rib EXCEPT ![q].ttl = DefaultTtl]
      BY <2>8 DEF KnownMapping
    <3>4. DefaultTtl \in Int
      BY TtlAssumption
    <3> HIDE DEF q
    <3>5. rib' \in [Prefix -> NodeType]
      BY <2>1, <3>2, <3>3, <3>4 DEF NodeType, Entries
    <3>6. \A p \in Prefix : rib'[p].state = "none" => rib'[p] = NoEntry
      BY <2>1, <3>2, <3>3 DEF NodeType, Entries, TypeOK
    <3>7. msg' \in Seq(Record)
      BY <2>8 DEF KnownMapping
    <3> QED  BY <2>8, <3>5, <3>6, <3>7 DEF TypeOK, NodeType, KnownMapping
  <2>9. CASE NewMapping
    <3>1. Head(msg) \in Record /\ Tail(msg) \in Seq(Record)
      BY <2>3, <2>9 DEF NewMapping, RecordIs
    <3>2. Head(msg).prefix \in Prefix /\ Head(msg).ttl \in Int
      BY <3>1, RecordType
    <3>3. routes' \in SUBSET Prefix
      BY <2>9, <3>2 DEF NewMapping, TypeOK
    <3>4. "active" \in EntryState
      BY DEF EntryState
    <3> QED  BY <2>9, <3>1, <3>2, <3>3, <3>4, UpdateType DEF TypeOK, NodeType, NewMapping
  <2>10. CASE NegativeMapping
    <3>1. Head(msg) \in Record /\ Tail(msg) \in Seq(Record)
      BY <2>3, <2>10 DEF NegativeMapping, RecordIs
    <3>2. Head(msg).prefix \in Prefix
      BY <3>1, RecordType
    <3>3. PICK s \in {"negative", "drop"} :
            update_mapnode(Head(msg).prefix, Node(s, DefaultTtl))
      BY <2>10 DEF NegativeMapping
    <3>4. s \in EntryState /\ DefaultTtl \in Int
      BY TtlAssumption DEF EntryState
    <3> QED  BY <2>10, <3>1, <3>2, <3>3, <3>4, UpdateType
             DEF TypeOK, NodeType, NegativeMapping
  <2>11. CASE AskAgain
    <3>1. Head(msg).prefix \in Prefix /\ Tail(msg) \in Seq(Record)
      BY <2>3, <2>11, RecordType DEF AskAgain, RecordIs
    <3>2. requests' \in SUBSET Prefix
      BY <2>2, <2>11, <3>1 DEF AskAgain
    <3> QED  BY <2>11, <3>1, <3>2 DEF TypeOK, AskAgain
  <2>12. CASE NoAction
    BY <2>3, <2>12 DEF TypeOK, NoAction, RecordIs
  <2>13. CASE Scan
    <3>1. requests' \in SUBSET Prefix
      BY <2>2, <2>13 DEF Scan, Reasked, Visited, Entries
    <3>2. ASSUME NEW p \in Prefix
          PROVE  /\ rib'[p] \in NodeType
                 /\ rib'[p].state = "none" => rib'[p] = NoEntry
      <4>1. rib'[p] = CASE p \in Expired -> NoEntry
                        [] p \in Visited \ Expired -> [rib[p] EXCEPT !.ttl = @ - 1]
                        [] OTHER -> rib[p]
        BY <2>13 DEF Scan
      <4>2. CASE p \in Expired
        BY <4>1, <4>2 DEF NoEntry, NodeType
      <4>3. CASE p \in Visited \ Expired
        <5>1. rib'[p] = [rib[p] EXCEPT !.ttl = @ - 1]
          BY <4>1, <4>3
        <5>2. rib[p].state # "none"
          BY <4>3 DEF Visited, Entries
        <5> QED  BY <2>1, <5>1, <5>2 DEF NodeType
      <4>4. CASE p \notin Expired /\ p \notin Visited
        BY <2>1, <4>1, <4>4 DEF TypeOK
      <4> QED  BY <4>2, <4>3, <4>4
    <3>3. rib' \in [Prefix -> NodeType]
      <4>1. DOMAIN rib' = Prefix /\ rib' = [p \in Prefix |-> rib'[p]]
        BY <2>13 DEF Scan
      <4> QED  BY <3>2, <4>1
    <3> QED  BY <2>13, <3>1, <3>2, <3>3 DEF TypeOK, NodeType, Scan
  <2>14. ASSUME NEW p \in StaticPrefix, install_mapnode_static(p) PROVE TypeOK'
    <3>1. p \in Prefix /\ "static" \in EntryState
      BY SubsetAssumption DEF EntryState
    <3> QED  BY <2>14, <3>1, UpdateType DEF TypeOK, NodeType, install_mapnode_static
  <2>15. ASSUME NEW p \in StaticPrefix, uninstall_mapnode_static(p) PROVE TypeOK'
    <3>1. p \in Prefix
      BY SubsetAssumption
    <3> QED  BY <2>15, <3>1, DeleteType DEF TypeOK, NodeType, uninstall_mapnode_static
  <2>16. CASE set_lisp_mapserver \/ unset_lisp_mapserver
    BY <2>16 DEF TypeOK, set_lisp_mapserver, unset_lisp_mapserver
  <2> QED  BY <2>4, <2>5, <2>6, <2>7, <2>8, <2>9, <2>10, <2>11, <2>12, <2>13,
              <2>14, <2>15, <2>16 DEF Next, ProcessRecord
<1> QED  BY <1>1, <1>2, PTL DEF Spec

-----------------------------------------------------------------------------
(* The states of the entries, and what each operation does to them.        *)

stateOf == [p \in Prefix |-> rib[p].state]

\* update_mapnode changes the state of one entry, and of no static entry.
LEMMA UpdateStates ==
  ASSUME TypeOK, NEW p \in Prefix, NEW s, NEW t,
         update_mapnode(p, Node(s, t))
  PROVE  stateOf' = IF Updatable(p) THEN [stateOf EXCEPT ![p] = s] ELSE stateOf
<1>1. CASE Updatable(p)
  <2>1. rib' = [rib EXCEPT ![p] = Node(s, t)]
    BY <1>1 DEF update_mapnode
  <2>2. \A q \in Prefix : rib'[q].state = IF q = p THEN s ELSE rib[q].state
    BY <2>1 DEF TypeOK, Node
  <2> QED  BY <1>1, <2>2 DEF stateOf
<1>2. CASE ~Updatable(p)
  BY <1>2 DEF update_mapnode, stateOf
<1> QED  BY <1>1, <1>2

\* delete_mapnode empties the entry the search finds.
LEMMA DeleteStates ==
  ASSUME TypeOK, NEW p \in Prefix, delete_mapnode(p)
  PROVE  stateOf' = [stateOf EXCEPT ![search_mapnode(p)] = "none"]
<1> DEFINE q == search_mapnode(p)
<1>1. rib' = [rib EXCEPT ![q] = NoEntry]
  BY DEF delete_mapnode
<1> HIDE DEF q
<1>2. \A r \in Prefix : rib'[r].state = IF r = q THEN "none" ELSE rib[r].state
  BY <1>1 DEF TypeOK, NoEntry
<1>3. stateOf' = [stateOf EXCEPT ![q] = "none"]
  BY <1>2 DEF stateOf
<1> QED  BY <1>3 DEF q

\* A refreshed entry keeps its state.
LEMMA KnownMappingStates ==
  ASSUME TypeOK, KnownMapping
  PROVE  stateOf' = stateOf
<1> DEFINE q == search_mapnode(Head(msg).prefix)
<1>1. rib' = [rib EXCEPT ![q].ttl = DefaultTtl]
  BY DEF KnownMapping
<1> HIDE DEF q
<1>2. \A p \in Prefix : rib'[p].state = rib[p].state
  BY <1>1 DEF TypeOK
<1> QED  BY <1>2 DEF stateOf

\* The scan empties the expired entries and changes no other state.
LEMMA ScanStates ==
  ASSUME TypeOK, Scan
  PROVE  stateOf' = [p \in Prefix |-> IF p \in Expired THEN "none" ELSE stateOf[p]]
<1>1. ASSUME NEW p \in Prefix
      PROVE  rib'[p].state = IF p \in Expired THEN "none" ELSE rib[p].state
  <2>1. rib'[p] = CASE p \in Expired -> NoEntry
                    [] p \in Visited \ Expired -> [rib[p] EXCEPT !.ttl = @ - 1]
                    [] OTHER -> rib[p]
    BY DEF Scan
  <2>2. CASE p \in Expired
    BY <2>1, <2>2 DEF NoEntry
  <2>3. CASE p \in Visited \ Expired
    BY <2>1, <2>3 DEF TypeOK
  <2>4. CASE p \notin Expired /\ p \notin Visited
    BY <2>1, <2>4
  <2> QED  BY <2>2, <2>3, <2>4
<1> QED  BY <1>1 DEF stateOf

\* The record in hand is one the mapping system sends.
LEMMA HeadOfReply ==
  ASSUME TypeOK, msg # <<>>
  PROVE  Head(msg).prefix \in Prefix
BY HeadTailProperties, RecordType DEF TypeOK

\* An entry's own prefix finds the entry: deleting by prefix deletes it.
LEMMA SearchSelf ==
  ASSUME TypeOK, NEW p \in Entries
  PROVE  search_mapnode(p) = p
<1>1. Entries \in SUBSET Seq(Bit)
  BY PrefixAssumption DEF Entries, Bit
<1> QED  BY <1>1, LongestMatchSelf DEF search_mapnode

-----------------------------------------------------------------------------
(* The tunnel routes.                                                      *)

\* No active or static entry is ever without its kernel route.  The operator's
\* removal is the delicate step: it withdraws the route of the prefix it was
\* given, and that prefix may only have had an entry if it is the one removed.
THEOREM TunnelRoutes == Spec => []TunnelRouteInv
<1> DEFINE Inv == \A p \in Prefix : stateOf[p] \in {"active", "static"} => p \in routes
<1>1. TunnelRouteInv <=> Inv
  BY DEF TunnelRouteInv, stateOf
<1>2. Init => Inv
  BY DEF Init, NoEntry, stateOf
<1>3. TypeOK /\ Inv /\ [Next]_vars => Inv'
  <2> SUFFICES ASSUME TypeOK, Inv, [Next]_vars PROVE Inv'
    OBVIOUS
  <2>1. stateOf \in [Prefix -> EntryState \cup {"none"}]
    BY DEF stateOf, TypeOK
  <2>2. CASE UNCHANGED vars
    BY <2>2 DEF vars, stateOf
  <2>3. ASSUME NEW h \in Host, RawPacket(h) PROVE Inv'
    <3>1. PICK g \in GarbageTtl : update_mapnode(h, Node("queried", g))
      BY <2>3 DEF RawPacket
    <3> QED  BY <2>1, <2>3, <3>1, SubsetAssumption, UpdateStates DEF RawPacket
  <2>4. ASSUME NEW q \in Prefix, ReceiveMapReply(q) \/ Lose(q) PROVE Inv'
    BY <2>4 DEF ReceiveMapReply, Lose, stateOf
  <2>5. CASE KnownMapping
    BY <2>5, KnownMappingStates DEF KnownMapping
  <2>6. CASE NewMapping
    <3>1. Head(msg).prefix \in Prefix
      BY <2>6, HeadOfReply DEF NewMapping, RecordIs
    <3> QED  BY <2>1, <2>6, <3>1, UpdateStates DEF NewMapping
  <2>7. CASE NegativeMapping
    <3>1. Head(msg).prefix \in Prefix
      BY <2>7, HeadOfReply DEF NegativeMapping, RecordIs
    <3>2. PICK s \in {"negative", "drop"} :
            update_mapnode(Head(msg).prefix, Node(s, DefaultTtl))
      BY <2>7 DEF NegativeMapping
    <3> QED  BY <2>1, <2>7, <3>1, <3>2, UpdateStates DEF NegativeMapping
  <2>8. CASE AskAgain \/ NoAction
    BY <2>8 DEF AskAgain, NoAction, stateOf
  <2>9. CASE Scan
    <3>1. stateOf' = [p \in Prefix |-> IF p \in Expired THEN "none" ELSE stateOf[p]]
      BY <2>9, ScanStates
    <3>2. routes' = routes \ {p \in Expired : rib[p].state = "active"}
      BY <2>9 DEF Scan
    <3> QED  BY <3>1, <3>2
  <2>10. ASSUME NEW p \in StaticPrefix, install_mapnode_static(p) PROVE Inv'
    BY <2>1, <2>10, SubsetAssumption, UpdateStates DEF install_mapnode_static
  <2>11. ASSUME NEW p \in StaticPrefix, uninstall_mapnode_static(p) PROVE Inv'
    <3>1. p \in Prefix
      BY SubsetAssumption
    <3>2. stateOf' = [stateOf EXCEPT ![search_mapnode(p)] = "none"]
      BY <2>11, <3>1, DeleteStates DEF uninstall_mapnode_static
    <3>3. routes' = routes \ {p}
      BY <2>11 DEF uninstall_mapnode_static
    <3>4. stateOf'[p] = "none"
      <4>1. CASE p \in Entries
        BY <2>1, <3>1, <3>2, <4>1, SearchSelf
      <4>2. CASE p \notin Entries
        BY <2>1, <3>1, <3>2, <4>2 DEF Entries, stateOf
      <4> QED  BY <4>1, <4>2
    <3> QED  BY <2>1, <3>2, <3>3, <3>4
  <2>12. CASE set_lisp_mapserver \/ unset_lisp_mapserver
    BY <2>12 DEF set_lisp_mapserver, unset_lisp_mapserver, stateOf
  <2> QED  BY <2>2, <2>3, <2>4, <2>5, <2>6, <2>7, <2>8, <2>9, <2>10, <2>11, <2>12
           DEF Next, ProcessRecord
<1>4. Inv' <=> TunnelRouteInv'
  BY DEF TunnelRouteInv, stateOf
<1> QED  BY <1>1, <1>2, <1>3, <1>4, TypeCorrect, PTL DEF Spec

-----------------------------------------------------------------------------
(* Static entries.                                                         *)

\* Only the operator's own command takes a static entry away.
THEOREM StaticEntriesStay == Spec => StaticSticky
<1>1. TypeOK /\ [Next]_vars => [StaticStays]_vars
  <2> SUFFICES ASSUME TypeOK, Next, NEW p \in Static,
                      \A q \in StaticPrefix :
                         uninstall_mapnode_static(q) => p # search_mapnode(q)
               PROVE  rib'[p].state = "static"
    BY DEF StaticStays
  <2>1. p \in Prefix /\ rib[p].state = "static" /\ stateOf[p] = "static"
    BY DEF Static, stateOf
  <2>2. stateOf'[p] = rib'[p].state
    BY <2>1 DEF stateOf
  <2>3. ASSUME NEW q \in Prefix, NEW s, NEW t, update_mapnode(q, Node(s, t))
        PROVE  rib'[p].state = "static"
    BY <2>1, <2>2, <2>3, UpdateStates DEF Updatable, stateOf
  <2>4. ASSUME NEW h \in Host, RawPacket(h) PROVE rib'[p].state = "static"
    BY <2>3, <2>4, SubsetAssumption DEF RawPacket
  <2>5. ASSUME NEW q \in Prefix, ReceiveMapReply(q) \/ Lose(q)
        PROVE  rib'[p].state = "static"
    BY <2>1, <2>5 DEF ReceiveMapReply, Lose
  <2>6. CASE KnownMapping
    BY <2>1, <2>2, <2>6, KnownMappingStates
  <2>7. CASE NewMapping \/ NegativeMapping
    <3>1. Head(msg).prefix \in Prefix
      BY <2>7, HeadOfReply DEF NewMapping, NegativeMapping, RecordIs
    <3> QED  BY <2>3, <2>7, <3>1 DEF NewMapping, NegativeMapping
  <2>8. CASE AskAgain \/ NoAction
    BY <2>1, <2>8 DEF AskAgain, NoAction
  <2>9. CASE Scan
    <3>1. p \notin Expired
      BY DEF Expired, Visited
    <3> QED  BY <2>1, <2>2, <2>9, <3>1, ScanStates
  <2>10. ASSUME NEW q \in StaticPrefix, install_mapnode_static(q)
         PROVE  rib'[p].state = "static"
    BY <2>3, <2>10, SubsetAssumption DEF install_mapnode_static
  <2>11. ASSUME NEW q \in StaticPrefix, uninstall_mapnode_static(q)
         PROVE  rib'[p].state = "static"
    <3>1. q \in Prefix /\ p # search_mapnode(q)
      BY <2>11, SubsetAssumption
    <3>2. stateOf' = [stateOf EXCEPT ![search_mapnode(q)] = "none"]
      BY <2>11, <3>1, DeleteStates DEF uninstall_mapnode_static
    <3> QED  BY <2>1, <2>2, <3>1, <3>2 DEF stateOf
  <2>12. CASE set_lisp_mapserver \/ unset_lisp_mapserver
    BY <2>1, <2>12 DEF set_lisp_mapserver, unset_lisp_mapserver
  <2> QED  BY <2>4, <2>5, <2>6, <2>7, <2>8, <2>9, <2>10, <2>11, <2>12
           DEF Next, ProcessRecord
<1> QED  BY <1>1, TypeCorrect, PTL DEF Spec, StaticSticky

\* An entry is found by its own prefix.
LEMMA EntryMatched ==
  ASSUME NEW p \in Entries
  PROVE  Matched(p)
<1>1. p \in Seq(Bit)
  BY PrefixAssumption DEF Entries, Bit
<1> QED  BY <1>1, CoversReflexive DEF Matched, Covering

\* An entry that stops carrying packets takes its route along, but for a denial
\* and for the operator hitting a covering entry.
THEOREM RoutesFollowTheirEntries == Spec => RoutesFollowEntries
<1>1. TypeOK /\ [Next]_vars => [RoutesFollow]_vars
  <2> SUFFICES ASSUME TypeOK, Next,
                      NEW p \in TunnelEntries, p \notin TunnelEntries', p \in routes'
               PROVE  \/ RecordIs({"native", "drop"}) /\ Head(msg).prefix = p
                      \/ \E q \in StaticPrefix : /\ StrictlyCovers(p, q)
                                                 /\ uninstall_mapnode_static(q)
    BY DEF RoutesFollow
  <2>1. /\ p \in Prefix /\ p \in Entries
        /\ stateOf[p] = rib[p].state /\ stateOf'[p] = rib'[p].state
        /\ rib[p].state \in {"active", "static"}
        /\ rib'[p].state \notin {"active", "static"}
        /\ stateOf = [q \in Prefix |-> stateOf[q]]
    BY DEF TunnelEntries, Entries, stateOf
  <2>2. ~UNCHANGED stateOf
    BY <2>1
  <2>3. ASSUME NEW h \in Host, RawPacket(h) PROVE FALSE
    <3>1. PICK g \in GarbageTtl : update_mapnode(h, Node("queried", g))
      BY <2>3 DEF RawPacket
    <3>2. h # p
      BY <2>1, <2>3, EntryMatched DEF RawPacket
    <3> QED  BY <2>1, <3>1, <3>2, SubsetAssumption, UpdateStates
  <2>4. ASSUME NEW q \in Prefix PROVE ~ReceiveMapReply(q) /\ ~Lose(q)
    BY <2>2 DEF ReceiveMapReply, Lose, stateOf
  <2>5. ~KnownMapping
    BY <2>2, KnownMappingStates
  <2>6. ASSUME NewMapping PROVE FALSE
    <3>1. Head(msg).prefix \in Prefix
      BY <2>6, HeadOfReply DEF NewMapping, RecordIs
    <3> QED  BY <2>1, <2>6, <3>1, UpdateStates DEF NewMapping
  <2>7. CASE NegativeMapping
    <3>1. Head(msg).prefix \in Prefix
      BY <2>7, HeadOfReply DEF NegativeMapping, RecordIs
    <3>2. PICK s \in {"negative", "drop"} :
            update_mapnode(Head(msg).prefix, Node(s, DefaultTtl))
      BY <2>7 DEF NegativeMapping
    <3>3. p = Head(msg).prefix
      BY <2>1, <3>1, <3>2, UpdateStates
    <3> QED  BY <2>7, <3>3 DEF NegativeMapping
  <2>8. ~AskAgain /\ ~NoAction
    BY <2>2 DEF AskAgain, NoAction, stateOf
  <2>9. ~Scan
    <3> SUFFICES ASSUME Scan PROVE FALSE
      OBVIOUS
    <3>1. p \in Expired
      BY <2>1, ScanStates
    <3>2. rib[p].state = "active"
      BY <2>1, <3>1 DEF Expired, Visited, Static
    <3> QED  BY <3>1, <3>2 DEF Scan
  <2>10. ASSUME NEW q \in StaticPrefix, install_mapnode_static(q) PROVE FALSE
    BY <2>1, <2>10, SubsetAssumption, UpdateStates DEF install_mapnode_static
  <2>11. ASSUME NEW q \in StaticPrefix, uninstall_mapnode_static(q)
         PROVE  StrictlyCovers(p, q)
    <3>1. q \in Prefix /\ Matched(q) /\ delete_mapnode(q) /\ p # q
      BY <2>11, SubsetAssumption DEF uninstall_mapnode_static, Uninstallable
    <3>2. p = search_mapnode(q)
      BY <2>1, <3>1, DeleteStates
    <3> QED  BY <3>1, <3>2, SearchFindsEntry DEF StrictlyCovers
  <2>12. ~set_lisp_mapserver /\ ~unset_lisp_mapserver
    BY <2>2 DEF set_lisp_mapserver, unset_lisp_mapserver, stateOf
  <2> QED  BY <2>3, <2>4, <2>5, <2>6, <2>7, <2>8, <2>9, <2>10, <2>11, <2>12
           DEF Next, ProcessRecord
<1> QED  BY <1>1, TypeCorrect, PTL DEF Spec, RoutesFollowEntries

-----------------------------------------------------------------------------
(* Refinement.                                                             *)

\* The map cache sees the entries the table has.
LEMMA CacheView ==
  /\ Cache!Entries = Entries
  /\ Cache!Static = Static
  /\ \A p : Cache!Shielded(p) <=> Shielded(p)
  /\ \A T, p : Cache!Covering(T, p) = Covering(T, p)
  /\ \A T, p : Cache!LongestMatch(T, p) = LongestMatch(T, p)
<1>1. \A p, q : Cache!Covers(p, q) <=> Covers(p, q)
  BY DEF Cache!Covers, Covers, Cache!IsPrefix, IsPrefix
<1>2. Cache!Entries = Entries /\ Cache!Static = Static
  BY DEF Cache!Entries, Entries, Cache!Static, Static
<1>3. \A p : Cache!Shielded(p) <=> Shielded(p)
  BY <1>1, <1>2 DEF Cache!Shielded, Shielded, Cache!StrictlyCovers, StrictlyCovers
<1>4. \A T, p : Cache!Covering(T, p) = Covering(T, p)
  BY <1>1 DEF Cache!Covering, Covering
<1>5. \A T, p : Cache!LongestMatch(T, p) = LongestMatch(T, p)
  BY <1>4 DEF Cache!LongestMatch, LongestMatch
<1> QED  BY <1>2, <1>3, <1>4, <1>5

\* Where update_mapnode does replace the entry, it was not static.
LEMMA UpdateIsCacheStep ==
  ASSUME TypeOK, NEW p \in Prefix, NEW s, NEW t,
         update_mapnode(p, Node(s, t)), Updatable(p)
  PROVE  /\ stateOf[p] # "static"
         /\ stateOf' = [stateOf EXCEPT ![p] = s]
BY UpdateStates DEF Updatable, stateOf

\* The map table implements the map cache: initial states are initial states of
\* the cache, and every handler is a cache operation or a stuttering step.
THEOREM Refinement == Spec => ImplementsMapCache
<1>1. Init => Cache!Init
  BY DEF Init, Cache!Init, NoEntry
<1>2. TypeOK /\ [Next]_vars => [Cache!Next]_(Cache!vars)
  <2> SUFFICES ASSUME TypeOK, [Next]_vars
               PROVE  Cache!Next \/ (stateOf' = stateOf /\ routes' = routes)
    BY DEF Cache!vars, stateOf
  <2>1. stateOf = [p \in Prefix |-> rib[p].state]
    BY DEF stateOf
  <2>2. \A p \in Prefix : stateOf[p] = rib[p].state
    BY DEF stateOf
  <2>3. CASE UNCHANGED vars
    BY <2>3 DEF vars, stateOf
  <2>4. ASSUME NEW h \in Host, RawPacket(h) PROVE Cache!Next
    <3>1. h \in Prefix /\ Covering(Entries, h) = {} /\ routes' = routes
      BY <2>4, SubsetAssumption DEF RawPacket, Matched
    <3>2. PICK g \in GarbageTtl : update_mapnode(h, Node("queried", g))
      BY <2>4 DEF RawPacket
    <3>3. Updatable(h)
      BY <3>1, EntryMatched DEF Matched, Updatable, Entries
    <3>4. stateOf' = [stateOf EXCEPT ![h] = "queried"]
      BY <3>1, <3>2, <3>3, UpdateIsCacheStep
    <3>5. Cache!Query(h)
      BY <3>1, <3>4, CacheView DEF Cache!Query, stateOf
    <3> QED  BY <3>5 DEF Cache!Next
  <2>5. ASSUME NEW q \in Prefix, ReceiveMapReply(q) \/ Lose(q)
        PROVE  stateOf' = stateOf /\ routes' = routes
    BY <2>5 DEF ReceiveMapReply, Lose, stateOf
  <2>6. CASE KnownMapping
    BY <2>6, KnownMappingStates DEF KnownMapping
  <2>7. CASE NewMapping
    <3>1. PICK p \in Prefix : p = Head(msg).prefix
      BY <2>7, HeadOfReply DEF NewMapping, RecordIs
    <3>2. Covering(Entries, p) = {}
      BY <2>7, <3>1 DEF NewMapping, Matched
    <3>3. Updatable(p)
      BY <3>2, EntryMatched DEF Matched, Updatable, Entries
    <3>4. update_mapnode(p, Node("active", Head(msg).ttl)) /\ routes' = routes \cup {p}
      BY <2>7, <3>1, <3>3 DEF NewMapping
    <3>5. stateOf' = [stateOf EXCEPT ![p] = "active"]
      BY <3>3, <3>4, UpdateIsCacheStep
    <3>6. Cache!Learn(p)
      BY <3>2, <3>4, <3>5, CacheView DEF Cache!Learn, stateOf
    <3> QED  BY <3>6 DEF Cache!Next
  <2>8. CASE NegativeMapping
    <3> DEFINE p == Head(msg).prefix
    <3>1. p \in Prefix
      BY <2>8, HeadOfReply DEF NegativeMapping, RecordIs
    <3>2. PICK s \in {"negative", "drop"} : update_mapnode(p, Node(s, DefaultTtl))
      BY <2>8 DEF NegativeMapping
    <3>3. routes' = routes
      BY <2>8 DEF NegativeMapping
    <3> HIDE DEF p
    <3>4. CASE Updatable(p)
      <4>1. stateOf' = [stateOf EXCEPT ![p] = s] /\ stateOf[p] # "static"
        BY <3>1, <3>2, <3>4, UpdateIsCacheStep
      <4>2. Cache!Deny(p, s)
        BY <3>3, <4>1 DEF Cache!Deny, stateOf
      <4> QED  BY <3>1, <4>2 DEF Cache!Next
    <3>5. CASE ~Updatable(p)
      BY <3>1, <3>2, <3>3, <3>5, UpdateStates
    <3> QED  BY <3>4, <3>5
  <2>9. CASE AskAgain \/ NoAction
    BY <2>9 DEF AskAgain, NoAction, stateOf
  <2>10. CASE Scan
    <3>1. stateOf' = [p \in Prefix |-> IF p \in Expired THEN "none" ELSE stateOf[p]]
      BY <2>10, ScanStates
    <3>2. routes' = routes \ {p \in Expired : stateOf[p] = "active"}
      BY <2>2, <2>10 DEF Scan, Expired, Visited, Entries
    <3>3. \A p \in Expired : stateOf[p] \notin {"none", "static"} /\ ~Shielded(p)
      BY <2>2 DEF Expired, Visited, Entries, Static
    <3>4. PICK E \in SUBSET Cache!Entries : E = Expired
      BY CacheView DEF Expired, Visited
    <3>5. Cache!Age(E)
      BY <3>1, <3>2, <3>3, <3>4, CacheView DEF Cache!Age, stateOf
    <3> QED  BY <3>5 DEF Cache!Next
  <2>11. ASSUME NEW p \in StaticPrefix, install_mapnode_static(p)
         PROVE  Cache!Next \/ (stateOf' = stateOf /\ routes' = routes)
    <3>1. p \in Prefix
      BY SubsetAssumption
    <3>2. CASE Updatable(p)
      <4>1. routes' = routes \cup {p} /\ update_mapnode(p, Node("static", 0))
        BY <2>11, <3>2 DEF install_mapnode_static
      <4>2. stateOf' = [stateOf EXCEPT ![p] = "static"] /\ stateOf[p] # "static"
        BY <3>1, <3>2, <4>1, UpdateIsCacheStep
      <4>3. Cache!Install(p)
        BY <4>1, <4>2 DEF Cache!Install, stateOf
      <4> QED  BY <3>1, <4>3 DEF Cache!Next
    <3>3. CASE ~Updatable(p)
      BY <2>11, <3>1, <3>3, UpdateStates DEF install_mapnode_static
    <3> QED  BY <3>2, <3>3
  <2>12. ASSUME NEW p \in StaticPrefix, uninstall_mapnode_static(p) PROVE Cache!Next
    <3>1. /\ p \in Prefix /\ Matched(p) /\ delete_mapnode(p)
          /\ rib[search_mapnode(p)].state \notin {"active", "queried"}
          /\ routes' = routes \ {p}
      BY <2>12, SubsetAssumption DEF uninstall_mapnode_static, Uninstallable
    <3>2. search_mapnode(p) \in Prefix
      BY <3>1, SearchFindsEntry DEF Entries
    <3>3. stateOf' = [stateOf EXCEPT ![search_mapnode(p)] = "none"]
      BY <3>1, DeleteStates
    <3>4. stateOf[search_mapnode(p)] \notin {"active", "queried"}
      BY <2>2, <3>1, <3>2
    <3>5. Cache!Uninstall(p)
      BY <3>1, <3>3, <3>4, CacheView
         DEF Cache!Uninstall, Matched, search_mapnode, stateOf
    <3> QED  BY <3>1, <3>5 DEF Cache!Next
  <2>13. CASE set_lisp_mapserver \/ unset_lisp_mapserver
    BY <2>13 DEF set_lisp_mapserver, unset_lisp_mapserver, stateOf
  <2> QED  BY <2>3, <2>4, <2>5, <2>6, <2>7, <2>8, <2>9, <2>10, <2>11, <2>12, <2>13
           DEF Next, ProcessRecord
<1> QED  BY <1>1, <1>2, TypeCorrect, PTL DEF Spec, ImplementsMapCache, Cache!Spec

===============================================================================
