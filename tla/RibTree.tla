------------------------------- MODULE RibTree -------------------------------
(***************************************************************************)
(* The rib as it is stored: map nodes hanging off a patricia tree that all *)
(* threads use without a lock (maptable.c over patricia.c).  Each call     *)
(* that changes the tree is one step; the timer thread's walk              *)
(* (PATRICIA_WALK with PATRICIA_WALK_BREAK) is one step per node, so that  *)
(* the other threads' calls fall between its nodes.                        *)
(*                                                                         *)
(* A map node's state is "static", or "timed" for the other four; a timed  *)
(* node's age is left open, the timer may find it expired or not.          *)
(***************************************************************************)
EXTENDS Patricia, Prefixes

CONSTANTS
  RibKey,      \* the prefixes and hosts the threads name
  RibState,    \* the states they give them
  WalkingRib   \* whether the timer thread runs

ASSUME RibAssumption == /\ RibKey \subseteq Key
                        /\ RibState \subseteq {"static", "timed"}
                        /\ WalkingRib \in BOOLEAN

VARIABLES
  tree,   \* lisp.rib->tree, the map nodes in its nodes' data
  walk,   \* the timer's walk: Xrn and Xstack, or wild
  owed,   \* (history) entries the walk has to visit before it ends
  seen    \* (history) entries it has visited

vars == <<tree, walk, owed, seen>>

RibPrefix == {PrefixOf(k) : k \in Key}
Node(p) == tree.heap[p]
Entries == {p \in DOMAIN tree.heap : Node(p).prefix # Null}
Table == [p \in RibPrefix |-> IF p \in Entries THEN Node(p).data ELSE "none"]

\* The walk's pointer and the pointers on its stack.
Idle == [rn |-> Null, stack |-> <<>>, wild |-> FALSE]
Held == (IF walk.rn = Null THEN {} ELSE {walk.rn}) \cup Range(walk.stack)

\* Entries the walk is meant to reach: not static, not below a static one.
Shielded(p) == \E s \in Entries : Node(s).data = "static" /\ StrictlyCovers(s, p)
Due == {p \in Entries : Node(p).data = "timed" /\ ~Shielded(p)}

-----------------------------------------------------------------------------

\* (Faulty: a static node gets the new data too.)
update_always(key, s) ==
  LET t == patricia_lookup(tree, key)
  IN /\ tree' = [t EXCEPT !.heap[PrefixOf(key)].data = s]
     /\ owed' = owed \cap Due'
     /\ UNCHANGED <<walk, seen>>

\* update_mapnode: a static node is kept, anything else gets the new data.
update_mapnode(key, s) ==
  LET t == patricia_lookup(tree, key)
      p == PrefixOf(key)
  IN /\ tree' = IF t.heap[p].data = "static" THEN t
                ELSE [t EXCEPT !.heap[p].data = s]
     /\ owed' = owed \cap Due'
     /\ UNCHANGED <<walk, seen>>

\* The operator's delete_mapnode.  A node it frees under the walk makes the
\* walk read freed memory, after which nothing is said about it.
uninstall_mapnode_static(key) ==
  LET p == patricia_search_best(tree, key)
  IN /\ p # Null
     /\ tree' = patricia_remove(tree, p)
     /\ walk' = IF Held \subseteq DOMAIN tree'.heap THEN walk
                ELSE [Idle EXCEPT !.wild = TRUE]
     /\ owed' = IF walk'.wild THEN {} ELSE owed \cap Due'
     /\ seen' = IF walk'.wild THEN {} ELSE seen \ {p}

-----------------------------------------------------------------------------

StartWalk ==
  /\ WalkingRib
  /\ walk = Idle
  /\ tree.head # Null
  /\ walk' = [Idle EXCEPT !.rn = tree.head]
  /\ owed' = Due
  /\ seen' = {}
  /\ UNCHANGED tree

\* PATRICIA_WALK_BREAK, and the end of a branch: back to the stack.
Pop == IF walk.stack = <<>> THEN Idle
       ELSE [walk EXCEPT !.rn = Head(walk.stack), !.stack = Tail(walk.stack)]

\* (Faulty: the right child is not kept when there is a left one.)
AdvanceLeft ==
  LET n == Node(walk.rn)
  IN IF n.l # Null THEN [walk EXCEPT !.rn = n.l]
     ELSE IF n.r # Null THEN [walk EXCEPT !.rn = n.r]
     ELSE Pop

\* (Faulty: the right child is pushed twice.)
AdvanceAgain ==
  LET n == Node(walk.rn)
  IN IF n.l # Null /\ n.r # Null
       THEN [walk EXCEPT !.rn = n.l, !.stack = <<n.r, n.r>> \o walk.stack]
     ELSE IF n.l # Null THEN [walk EXCEPT !.rn = n.l]
     ELSE IF n.r # Null THEN [walk EXCEPT !.rn = n.r]
     ELSE Pop

\* (Faulty: the node itself waits on the stack, not its right child.)
AdvanceParent ==
  LET n == Node(walk.rn)
  IN IF n.l # Null /\ n.r # Null
       THEN [walk EXCEPT !.rn = n.l, !.stack = <<walk.rn>> \o walk.stack]
     ELSE IF n.l # Null THEN [walk EXCEPT !.rn = n.l]
     ELSE IF n.r # Null THEN [walk EXCEPT !.rn = n.r]
     ELSE Pop

\* PATRICIA_WALK_END: left first, the right child waits on the stack.
Advance ==
  LET n == Node(walk.rn)
  IN CASE n.l # Null /\ n.r # Null ->
            [walk EXCEPT !.rn = n.l, !.stack = <<n.r>> \o walk.stack]
       [] n.l # Null /\ n.r = Null -> [walk EXCEPT !.rn = n.l]
       [] n.l = Null /\ n.r # Null -> [walk EXCEPT !.rn = n.r]
       [] OTHER -> Pop

At(s) == walk.rn # Null /\ Node(walk.rn).data = s

\* The history of a visit of the entries E.
Visit(E) == /\ owed' = owed \ E
            /\ seen' = IF walk' = Idle THEN {} ELSE seen \cup E

\* A glue node has no prefix: the walk passes it by.
VisitGlue ==
  /\ walk.rn # Null
  /\ Node(walk.rn).prefix = Null
  /\ walk' = Advance
  /\ Visit({})
  /\ UNCHANGED tree

\* (Faulty: the loop's body is left with "continue", without a pop.)
VisitStaticContinue == At("static") /\ UNCHANGED vars

VisitStatic ==
  /\ At("static")
  /\ walk' = Pop
  /\ Visit({})
  /\ UNCHANGED tree

\* A timed entry with time left: the walk goes on.
VisitAlive ==
  /\ At("timed")
  /\ walk' = Advance
  /\ Visit({walk.rn})
  /\ UNCHANGED tree

\* An expired one: delete_mapnode searches for its prefix and removes what it
\* finds; the walk then goes on from the removed node, whose child pointers are
\* still what they were (free leaves them alone).
VisitExpired ==
  /\ At("timed")
  /\ LET key == [addr |-> Node(walk.rn).prefix, len |-> Node(walk.rn).bit]
     IN tree' = patricia_remove(tree, patricia_search_best(tree, key))
  /\ walk' = Advance
  /\ Visit({walk.rn})

Init ==
  /\ tree = New_Patricia
  /\ walk = Idle
  /\ owed = {}
  /\ seen = {}

Walk == StartWalk \/ VisitGlue \/ VisitStatic \/ VisitAlive \/ VisitExpired

Next ==
  \/ \E key \in RibKey :
       \/ \E s \in RibState : update_mapnode(key, s)
       \/ uninstall_mapnode_static(key)
  \/ Walk

Spec == Init /\ [][Next]_vars

FairSpec == Spec /\ WF_vars(Walk)

-----------------------------------------------------------------------------

TypeOK ==
  /\ DOMAIN tree.heap \subseteq RibPrefix
  /\ tree.head \in DOMAIN tree.heap \cup {Null}
  /\ tree.active \in Nat
  /\ \A p \in DOMAIN tree.heap :
       /\ Node(p).data \in {"null", "static", "timed"}
       /\ Node(p).prefix = Null <=> Node(p).data = "null"
  /\ walk.wild \in BOOLEAN
  /\ owed \subseteq RibPrefix /\ seen \subseteq RibPrefix

\* The shape of the tree depends on its entries alone, not on the insertions
\* and removals that led to them: the nodes are the entries and the points where
\* two entries part, every node is linked both ways with the longest node above
\* it, and num_active_node counts them.
CanonicalTree ==
  LET parts(a, b) == Masked(a, DifferBit(a, b, Min({Len(a), Len(b)})))
      nodes == Entries \cup {parts(a, b) : a, b \in Entries}
      above(p) == {q \in nodes : StrictlyCovers(q, p)}
  IN /\ DOMAIN tree.heap = nodes
     /\ tree.active = Cardinality(nodes)
     /\ (nodes = {}) = (tree.head = Null)
     /\ \A p \in nodes :
          /\ Node(p).bit = Len(p)
          /\ p \in Entries => Masked(Node(p).prefix, Len(p)) = p
          /\ IF above(p) = {} THEN Node(p).parent = Null /\ tree.head = p
             ELSE LET q == LongestMatch(above(p), p)
                  IN /\ Node(p).parent = q
                     /\ p = IF BitTest(p, Len(q)) THEN Node(q).r ELSE Node(q).l
          /\ \A c \in {Node(p).l, Node(p).r} \ {Null} : Node(c).parent = p

\* No assertion of patricia_lookup or patricia_remove can fail, whatever is
\* asked next.
AssertsHold ==
  /\ \A key \in Key : LookupAsserts(tree, key)
  /\ \A p \in Entries : RemoveAsserts(tree, p)

\* A search returns the longest entry that covers the address, if there is one,
\* whatever the address has beyond the bitlen.
SearchIsLongestMatch ==
  \A key \in Key :
    patricia_search_best(tree, key) =
      IF Covering(Entries, PrefixOf(key)) = {} THEN Null
      ELSE LongestMatch(Entries, PrefixOf(key))

Abstract == INSTANCE PrefixTable WITH Prefix <- RibPrefix, table <- Table

\* The tree implements the prefix table.
ImplementsPrefixTable == Abstract!Spec

\* The walk ends with every entry visited that was there from its start to its
\* end and never under a static one, though others were inserted and removed.
WalkSkipsNothing == walk = Idle => owed = {}

\* The walk meets no entry twice: no time-to-live is decremented twice.
WalkVisitsOnce ==
  walk.rn # Null /\ Node(walk.rn).prefix # Null => walk.rn \notin seen

\* The removals of the walk itself never free a node it still has to visit.
WalkKeepsItsNodes == [][Walk => Held' \subseteq DOMAIN tree'.heap]_vars

\* The walk ends though others insert behind and ahead of it, and the timer
\* thread gets to its next sleep.
WalkEnds == (walk.rn # Null) ~> (walk.rn = Null)

===============================================================================
