------------------------------- MODULE Patricia -------------------------------
(***************************************************************************)
(* The patricia tree of patricia.c, as operators from trees to trees.      *)
(*                                                                         *)
(* A tree has a head and a heap of nodes linked by pointers both ways, as  *)
(* in the code.  A node's pointer is the sequence of the address bits the  *)
(* node stands for; that two nodes never claim the same one is part of     *)
(* LookupAsserts.  A key is a prefix as the code gets it: a whole address  *)
(* and a bitlen, with whatever bits the address has beyond the bitlen.     *)
(***************************************************************************)
EXTENDS Integers, Sequences, FiniteSets, FiniteSetsExt, Functions

CONSTANT MaxBits  \* maxbits of the tree, and the length of an address
ASSUME MaxBitsAssumption == MaxBits \in Nat \ {0}

Address == [1..MaxBits -> {0, 1}]
Key == [addr : Address, len : 0..MaxBits]
Null == <<2>>  \* no node: not a sequence of bits

\* BIT_TEST of the bit at a position, counted from 0 as in the code.
BitTest(a, i) == a[i + 1] = 1
Masked(a, n) == SubSeq(a, 1, n)
PrefixOf(key) == Masked(key.addr, key.len)

\* prefix is the address of the stored key (its bitlen is bit), Null in a glue.
NewNode(bit, prefix, parent) ==
  [bit |-> bit, prefix |-> prefix, l |-> Null, r |-> Null, parent |-> parent,
   data |-> "null"]

New_Patricia == [head |-> Null, heap |-> <<>>, active |-> 0]

-----------------------------------------------------------------------------

\* The child an address goes to; only positions inside the address are tested.
Child(n, a) == IF n.bit < MaxBits /\ BitTest(a, n.bit) THEN n.r ELSE n.l

\* The nodes a loop comes to that goes from p to next[p]: no way down or up a
\* tree has more than one for each bit and one at the top.
Follow(start, next) ==
  LET at[i \in 0..MaxBits] == IF i = 0 THEN start ELSE next[at[i - 1]]
  IN at

\* Those on the way down to key, Null behind the last one.
Way(t, key) ==
  Follow(t.head, [p \in DOMAIN t.heap \cup {Null} |->
                    IF p = Null \/ t.heap[p].bit >= key.len THEN Null
                    ELSE Child(t.heap[p], key.addr)])

\* (Faulty: the whole address is compared, not its first bits.)
MatchesAddress(n, key) == n.bit <= key.len /\ n.prefix = key.addr

\* comp_with_mask and the bitlen test of the pop loop.
Matches(n, key) ==
  n.bit <= key.len /\ Masked(n.prefix, n.bit) = Masked(key.addr, n.bit)

\* The nodes with a prefix are stacked on the way down; the last one that
\* matches is popped first.
patricia_search_best(t, key) ==
  LET way == Way(t, key)
      hits == {i \in DOMAIN way : /\ way[i] # Null
                                  /\ t.heap[way[i]].prefix # Null
                                  /\ Matches(t.heap[way[i]], key)}
  IN IF hits = {} THEN Null ELSE way[Max(hits)]

-----------------------------------------------------------------------------

\* The node the descent of patricia_lookup stops at.
Descend(t, key) ==
  Follow(t.head, [p \in DOMAIN t.heap |->
                    LET n == t.heap[p]
                        c == Child(n, key.addr)
                    IN IF (n.bit < key.len \/ n.prefix = Null) /\ c # Null THEN c ELSE p])
    [MaxBits]

\* The first of k bits in which two addresses differ, k if none.
DifferBit(a, b, k) == Min({k} \cup {i \in 0..k - 1 : a[i + 1] # b[i + 1]})

\* (Faulty: a node that tests the differing bit itself is not passed.)
ClimbLate(t, down, differ) ==
  Follow(down, [p \in DOMAIN t.heap |->
                  LET q == t.heap[p].parent
                  IN IF q # Null /\ t.heap[q].bit > differ THEN q ELSE p])[MaxBits]

\* From there up past every node that tests the differing bit or a later one.
Climb(t, down, differ) ==
  Follow(down, [p \in DOMAIN t.heap |->
                  LET q == t.heap[p].parent
                  IN IF q # Null /\ t.heap[q].bit >= differ THEN q ELSE p])[MaxBits]

\* The pointer to p, in the head or in its parent, made to point to new.
Relink(t, p, new) ==
  LET q == t.heap[p].parent
  IN IF q = Null THEN [t EXCEPT !.head = new]
     ELSE IF t.heap[q].r = p THEN [t EXCEPT !.heap[q].r = new]
     ELSE [t EXCEPT !.heap[q].l = new]

Allocate(t, p, n) ==
  [t EXCEPT !.heap = [x \in DOMAIN @ \cup {p} |-> IF x = p THEN n ELSE @[x]],
            !.active = @ + 1]

\* Where the lookup of key stops: the node reached, the address it compares
\* with, the differing bit, and the node it climbs to.
Place(t, key) ==
  LET down == Descend(t, key)
      test == t.heap[down].prefix
      differ == DifferBit(key.addr, test, Min({t.heap[down].bit, key.len}))
  IN [test |-> test, differ |-> differ, at |-> Climb(t, down, differ)]

\* The tree with a node for key; the node is PrefixOf(key).
patricia_lookup(t, key) ==
  LET new == PrefixOf(key)
      fresh(parent) == NewNode(key.len, key.addr, parent)
  IN IF t.head = Null
       THEN [Allocate(t, new, fresh(Null)) EXCEPT !.head = new]
     ELSE
     LET pl == Place(t, key)
         p == pl.at
         n == t.heap[p]
         glue == Masked(key.addr, pl.differ)
         right == pl.differ < MaxBits /\ BitTest(key.addr, pl.differ)
     IN CASE pl.differ = key.len /\ n.bit = key.len ->
               IF n.prefix # Null THEN t
               ELSE [t EXCEPT !.heap[p].prefix = key.addr]
          [] pl.differ = n.bit /\ n.bit # key.len ->
               LET t1 == Allocate(t, new, fresh(p))
               IN IF right THEN [t1 EXCEPT !.heap[p].r = new]
                           ELSE [t1 EXCEPT !.heap[p].l = new]
          [] pl.differ = key.len /\ n.bit # key.len ->
               LET below == key.len < MaxBits /\ BitTest(pl.test, key.len)
                   node == [fresh(n.parent) EXCEPT !.l = IF below THEN Null ELSE p,
                                                   !.r = IF below THEN p ELSE Null]
                   t1 == Relink(Allocate(t, new, node), p, new)
               IN [t1 EXCEPT !.heap[p].parent = new]
          [] OTHER ->
               LET node == [NewNode(pl.differ, Null, n.parent) EXCEPT
                              !.l = IF right THEN p ELSE new,
                              !.r = IF right THEN new ELSE p]
                   t1 == Relink(Allocate(Allocate(t, new, fresh(glue)), glue, node),
                                p, glue)
               IN [t1 EXCEPT !.heap[p].parent = glue]

\* The assertions on the way, and that an allocated node is a new one.
LookupAsserts(t, key) ==
  t.head = Null \/
    LET down == Descend(t, key)
        pl == Place(t, key)
        n == t.heap[pl.at]
        new == PrefixOf(key)
        glue == Masked(key.addr, pl.differ)
    IN /\ t.heap[down].prefix # Null
       /\ IF pl.differ = key.len /\ n.bit = key.len
            THEN n.prefix = Null => n.data = "null"
          ELSE /\ new \notin DOMAIN t.heap
               /\ IF n.bit = pl.differ THEN Child(n, key.addr) = Null
                  ELSE /\ n.parent = Null => t.head = pl.at
                       /\ pl.differ # key.len => glue \notin DOMAIN t.heap

-----------------------------------------------------------------------------

Free(t, p) == [t EXCEPT !.heap = Restrict(@, DOMAIN @ \ {p}), !.active = @ - 1]

\* A child takes the place of its parent p, which is freed.
Hoist(t, p, child) ==
  Free([Relink(t, p, child) EXCEPT !.heap[child].parent = t.heap[p].parent], p)

\* (Faulty: a glue node left with one child stays.)
RemoveLeafOnly(t, p) == Free(Relink(t, p, Null), p)

\* A leaf goes, and with it the glue node above it, which has one child left.
RemoveLeaf(t, p) ==
  LET q == t.heap[p].parent
      t1 == Free(Relink(t, p, Null), p)
      sibling == IF t.heap[q].r = p THEN t.heap[q].l ELSE t.heap[q].r
  IN IF q = Null \/ t.heap[q].prefix # Null THEN t1 ELSE Hoist(t1, q, sibling)

\* (Faulty: the data of an entry that becomes a glue node stays.)
RemoveKeepingData(t, p) ==
  LET n == t.heap[p]
  IN IF n.r # Null /\ n.l # Null THEN [t EXCEPT !.heap[p].prefix = Null]
     ELSE IF n.r = Null /\ n.l = Null THEN RemoveLeaf(t, p)
     ELSE Hoist(t, p, IF n.r # Null THEN n.r ELSE n.l)

patricia_remove(t, p) ==
  LET n == t.heap[p]
  IN IF n.r # Null /\ n.l # Null
       THEN [t EXCEPT !.heap[p].prefix = Null, !.heap[p].data = "null"]
     ELSE IF n.r = Null /\ n.l = Null THEN RemoveLeaf(t, p)
     ELSE Hoist(t, p, IF n.r # Null THEN n.r ELSE n.l)

RemoveAsserts(t, p) ==
  LET n == t.heap[p]
      linked(c) == LET q == t.heap[c].parent
                   IN IF q = Null THEN t.head = c ELSE c \in {t.heap[q].l, t.heap[q].r}
  IN /\ linked(p)
     /\ (n.l = Null /\ n.r = Null /\ n.parent # Null) => linked(n.parent)

===============================================================================
