---------------------------- MODULE PrefixTheorems ----------------------------
(***************************************************************************)
(* Lemmas the proofs share: what longest match returns, for any set of     *)
(* prefixes, and what is true after every round of a loop.                 *)
(***************************************************************************)
EXTENDS Prefixes, WellFoundedInduction, TLAPS

Bit == {0, 1}

\* A prefix covers itself: an address always matches its own entry.
LEMMA CoversReflexive ==
  ASSUME NEW p \in Seq(Bit)
  PROVE  Covers(p, p)
BY DEF Covers, IsPrefix

\* Two prefixes of one address with the same length are the same prefix: the
\* longest match is unambiguous.
LEMMA CoversSameLength ==
  ASSUME NEW p \in Seq(Bit), NEW q \in Seq(Bit),
         Covers(q, p), Len(q) = Len(p)
  PROVE  q = p
<1>1. /\ Len(q) \in Nat
      /\ SubSeq(q, 1, Len(q)) = q
      /\ SubSeq(p, 1, Len(p)) = p
  OBVIOUS
<1> QED  BY <1>1 DEF Covers, IsPrefix

\* A set of lengths not above a bound has a greatest one.
LEMMA GreatestLength ==
  ASSUME NEW L \in SUBSET Nat, NEW b \in Nat, L # {},
         \A l \in L : l <= b
  PROVE  \E m \in L : \A l \in L : l <= m
<1> DEFINE D == {b - l : l \in L}
<1>1. D \subseteq Nat /\ D # {}
  <2>1. \A l \in L : b - l \in Nat
    BY SMT
  <2>2. \E l \in L : TRUE
    OBVIOUS
  <2> QED  BY <2>1, <2>2
<1>2. PICK d \in D : \A e \in D : ~(<<e, d>> \in OpToRel(<, Nat))
  BY <1>1, NatLessThanWellFounded, WFMin
<1>3. PICK m \in L : d = b - m
  OBVIOUS
<1>4. ASSUME NEW l \in L PROVE l <= m
  <2>1. b - l \in D /\ b - l \in Nat /\ d \in Nat
    BY <1>1
  <2>2. ~(b - l < d)
    <3>1. (b - l < d) => <<b - l, d>> \in OpToRel(<, Nat)
      BY <2>1 DEF OpToRel
    <3> QED  BY <3>1, <2>1, <1>2
  <2> QED  BY <2>1, <2>2, <1>3, <1>4
<1> QED  BY <1>4

\* patricia_search_best finds an entry whenever some entry covers the address,
\* and no covering entry is longer.
THEOREM LongestMatchCovers ==
  ASSUME NEW T \in SUBSET Seq(Bit), NEW p \in Seq(Bit),
         Covering(T, p) # {}
  PROVE  /\ LongestMatch(T, p) \in Covering(T, p)
         /\ \A r \in Covering(T, p) : Len(r) <= Len(LongestMatch(T, p))
<1> DEFINE L == {Len(q) : q \in Covering(T, p)}
<1>1. L \subseteq Nat /\ L # {} /\ Len(p) \in Nat
  BY DEF Covering
<1>2. \A l \in L : l <= Len(p)
  BY DEF Covering, Covers, IsPrefix
<1>3. PICK m \in L : \A l \in L : l <= m
  BY <1>1, <1>2, GreatestLength
<1>4. \E q \in Covering(T, p) : \A r \in Covering(T, p) : Len(r) <= Len(q)
  BY <1>3
<1> QED  BY <1>4 DEF LongestMatch

\* An entry's own prefix matches the entry itself: the timer's delete_mapnode
\* of a visited node removes that node.
THEOREM LongestMatchSelf ==
  ASSUME NEW T \in SUBSET Seq(Bit), NEW p \in T
  PROVE  LongestMatch(T, p) = p
<1>1. p \in Seq(Bit)
  OBVIOUS
<1>2. p \in Covering(T, p)
  BY <1>1, CoversReflexive DEF Covering
<1> DEFINE q == LongestMatch(T, p)
<1>3. q \in Covering(T, p) /\ Len(p) <= Len(q)
  BY <1>1, <1>2, LongestMatchCovers
<1>4. q \in Seq(Bit) /\ Covers(q, p) /\ Len(q) <= Len(p)
  BY <1>3 DEF Covering, Covers, IsPrefix
<1>5. Len(q) = Len(p)
  BY <1>1, <1>3, <1>4
<1> QED  BY <1>1, <1>4, <1>5, CoversSameLength

-----------------------------------------------------------------------------
(* Loops.                                                                  *)

\* What a loop keeps from each round to the next it has after every round.
LEMMA Rounds ==
  ASSUME NEW n \in Nat, NEW Good, 0 \in Good,
         \A i \in 1..n : i - 1 \in Good => i \in Good
  PROVE  \A i \in 0..n : i \in Good
<1> DEFINE Bad == {i \in 0..n : i \notin Good}
<1> SUFFICES ASSUME Bad # {} PROVE FALSE
  OBVIOUS
<1>1. Bad \in SUBSET Nat
  OBVIOUS
<1>2. PICK x \in Bad : \A y \in Bad : ~(<<y, x>> \in OpToRel(<, Nat))
  BY <1>1, NatLessThanWellFounded, WFMin
<1>3. x \in 0..n /\ x # 0
  OBVIOUS
<1>4. x \in 1..n /\ x - 1 \in 0..n
  BY <1>3
<1>5. CASE x - 1 \in Bad
  <2>1. <<x - 1, x>> \in OpToRel(<, Nat)
    BY <1>4 DEF OpToRel
  <2> QED  BY <1>2, <1>5, <2>1
<1>6. CASE x - 1 \notin Bad
  BY <1>4, <1>6
<1> QED  BY <1>5, <1>6

\* The values in S of a loop with n rounds, before the first and after each.
Loops(n, S, base, round) ==
  {loop \in [0..n -> S] : /\ loop[0] = base
                          /\ \A i \in 1..n : loop[i] = round[i][loop[i - 1]]}

\* A loop whose rounds are given by a function has such values.
LEMMA Iterated ==
  ASSUME NEW n \in Nat, NEW S, NEW base \in S, NEW round \in [1..n -> [S -> S]]
  PROVE  Loops(n, S, base, round) # {}
<1> DEFINE Loop(k, g) == g[0] = base /\ \A i \in 1..k : g[i] = round[i][g[i - 1]]
           Good == {k \in 0..n : \E g \in [0..k -> S] : Loop(k, g)}
<1>1. 0 \in Good
  <2>1. [i \in 0..0 |-> base] \in [0..0 -> S] /\ Loop(0, [i \in 0..0 |-> base])
    OBVIOUS
  <2> HIDE DEF Loop
  <2> QED  BY <2>1
<1>2. ASSUME NEW k \in 1..n, k - 1 \in Good PROVE k \in Good
  <2>1. PICK g \in [0..k - 1 -> S] : Loop(k - 1, g)
    BY <1>2
  <2> DEFINE h == [i \in 0..k |-> IF i = k THEN round[k][g[k - 1]] ELSE g[i]]
  <2>2. h \in [0..k -> S]
    <3>1. round[k][g[k - 1]] \in S
      OBVIOUS
    <3> QED  BY <3>1
  <2>3. Loop(k, h)
    <3>1. h[k] = round[k][h[k - 1]]
      BY k - 1 \in 0..k, k - 1 # k
    <3>2. ASSUME NEW i \in 1..k - 1 PROVE h[i] = round[i][h[i - 1]]
      <4>1. h[i] = g[i] /\ h[i - 1] = g[i - 1]
        OBVIOUS
      <4> HIDE DEF h
      <4> QED  BY <2>1, <4>1
    <3>3. h[0] = base
      BY <2>1
    <3> HIDE DEF h
    <3>4. ASSUME NEW i \in 1..k PROVE h[i] = round[i][h[i - 1]]
      BY <3>1, <3>2, i = k \/ i \in 1..k - 1
    <3> QED  BY <3>3, <3>4
  <2> HIDE DEF Loop, h
  <2> QED  BY <2>2, <2>3
<1> HIDE DEF Good
<1>3. \A k \in 0..n : k \in Good
  BY <1>1, <1>2, Rounds
<1> QED  BY <1>3 DEF Good, Loops

===============================================================================
