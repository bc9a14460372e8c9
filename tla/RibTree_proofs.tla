---------------------------- MODULE RibTree_proofs ----------------------------
(***************************************************************************)
(* Theorems about the tree, for addresses of any length and any keys: its  *)
(* shape, what its search finds, and what the timer's walk meets.          *)
(***************************************************************************)
EXTENDS RibTree, PrefixTheorems, SequenceTheorems, FiniteSetTheorems

Bits == {s \in Seq(Bit) : Len(s) <= MaxBits}

\* q continues p with the bit b.
Below(p, b, q) == StrictlyCovers(p, q) /\ q[Len(p) + 1] = b

-----------------------------------------------------------------------------
(* Prefixes and the order they are in.                                     *)

\* The first n bits of a sequence.
LEMMA Cut ==
  ASSUME NEW s \in Seq(Bit), NEW n \in 0..Len(s)
  PROVE  /\ SubSeq(s, 1, n) \in Seq(Bit) /\ SubSeq(s, 1, n) \in [1..n -> Bit]
         /\ Len(SubSeq(s, 1, n)) = n
         /\ \A i \in 1..n : SubSeq(s, 1, n)[i] = s[i]
<1>1. 1 \in Int /\ n \in Int /\ n >= 0 /\ \A i \in 1..n : s[i] \in Bit
  OBVIOUS
<1> DEFINE c == SubSeq(s, 1, n)
<1>2. /\ c \in Seq(Bit) /\ Len(c) = IF 1 <= n THEN n - 1 + 1 ELSE 0
      /\ \A i \in 1..n - 1 + 1 : c[i] = s[1 + i - 1]
  BY <1>1, SubSeqProperties
<1> HIDE DEF c
<1>3. Len(c) = n
  BY <1>1, <1>2
<1>4. c \in [1..n -> Bit]
  BY <1>2, <1>3, LenProperties
<1>5. \A i \in 1..n : c[i] = s[i]
  BY <1>1, <1>2
<1> QED  BY <1>2, <1>3, <1>4, <1>5 DEF c

\* One prefix covers another if it is not longer and has the same bits.
LEMMA CoversBits ==
  ASSUME NEW p \in Seq(Bit), NEW q \in Seq(Bit)
  PROVE  Covers(p, q) <=> Len(p) <= Len(q) /\ \A i \in 1..Len(p) : p[i] = q[i]
<1>1. CASE Len(p) <= Len(q)
  <2> DEFINE n == Len(p)
             P == SubSeq(p, 1, n)
             Q == SubSeq(q, 1, n)
  <2>1. n \in 0..Len(p) /\ n \in 0..Len(q)
    BY <1>1
  <2>2. P \in [1..n -> Bit] /\ \A i \in 1..n : P[i] = p[i]
    BY <2>1, Cut
  <2>3. Q \in [1..n -> Bit] /\ \A i \in 1..n : Q[i] = q[i]
    BY <2>1, Cut
  <2> HIDE DEF P, Q
  <2>4. P = Q <=> \A i \in 1..n : P[i] = Q[i]
    BY <2>2, <2>3
  <2>5. Covers(p, q) <=> n <= Len(q) /\ P = Q
    BY DEF Covers, IsPrefix, P, Q
  <2> QED  BY <2>2, <2>3, <2>4, <2>5
<1>2. CASE ~(Len(p) <= Len(q))
  BY <1>2 DEF Covers, IsPrefix
<1> QED  BY <1>1, <1>2

\* The prefixes are ordered, ...
LEMMA CoversItself == \A p \in Seq(Bit) : Covers(p, p)
  BY CoversBits

\* What is covered by something covered is covered.
LEMMA CoversThrough ==
  \A p, q, r \in Seq(Bit) : Covers(p, q) /\ Covers(q, r) => Covers(p, r)
<1> SUFFICES ASSUME NEW p \in Seq(Bit), NEW q \in Seq(Bit), NEW r \in Seq(Bit),
                    Covers(p, q), Covers(q, r)
             PROVE  Covers(p, r)
  OBVIOUS
<1>1. /\ Len(p) <= Len(q) /\ \A i \in 1..Len(p) : p[i] = q[i]
      /\ Len(q) <= Len(r) /\ \A i \in 1..Len(q) : q[i] = r[i]
  BY CoversBits
<1>2. \A i \in 1..Len(p) : i \in 1..Len(q)
  BY <1>1
<1>3. Len(p) <= Len(r) /\ \A i \in 1..Len(p) : p[i] = r[i]
  BY <1>1, <1>2
<1> QED  BY <1>3, CoversBits

\* Two that cover each other are one.
LEMMA CoversBoth ==
  \A p, q \in Seq(Bit) : Covers(p, q) /\ Covers(q, p) => p = q
<1> SUFFICES ASSUME NEW p \in Seq(Bit), NEW q \in Seq(Bit), Covers(p, q), Covers(q, p)
             PROVE  p = q
  OBVIOUS
<1>1. Len(p) = Len(q)
  BY CoversBits
<1> QED  BY <1>1, CoversSameLength

\* ... those of one address by their lengths, ...
LEMMA CoversComparable ==
  \A p, q, r \in Seq(Bit) :
    Covers(p, r) /\ Covers(q, r) => (Covers(p, q) <=> Len(p) <= Len(q))
<1> SUFFICES ASSUME NEW p \in Seq(Bit), NEW q \in Seq(Bit), NEW r \in Seq(Bit),
                    Covers(p, r), Covers(q, r)
             PROVE  Covers(p, q) <=> Len(p) <= Len(q)
  OBVIOUS
<1>1. /\ \A i \in 1..Len(p) : p[i] = r[i]
      /\ \A i \in 1..Len(q) : q[i] = r[i]
  BY CoversBits
<1>2. ASSUME Len(p) <= Len(q) PROVE \A i \in 1..Len(p) : p[i] = q[i]
  BY <1>1, <1>2
<1> QED  BY <1>2, CoversBits

\* What covers is not longer, and shorter if it is another.
LEMMA CoversLonger ==
  \A p, q \in Seq(Bit) : /\ Covers(p, q) => Len(p) <= Len(q)
                         /\ StrictlyCovers(p, q) => Len(p) < Len(q)
<1>1. \A p, q \in Seq(Bit) : Covers(p, q) => Len(p) <= Len(q)
  BY CoversBits
<1>2. \A p, q \in Seq(Bit) : Len(p) \in Nat /\ Len(q) \in Nat
  OBVIOUS
<1> QED  BY <1>1, <1>2, CoversSameLength DEF StrictlyCovers

\* ... and what is strictly below p is on one of its two sides.
LEMMA BelowOne ==
  \A p, q \in Seq(Bit) : StrictlyCovers(p, q) =>
    \E b \in Bit : Below(p, b, q) /\ \A c : Below(p, c, q) => c = b
<1> SUFFICES ASSUME NEW p \in Seq(Bit), NEW q \in Seq(Bit), StrictlyCovers(p, q)
             PROVE  \E b \in Bit : Below(p, b, q) /\ \A c : Below(p, c, q) => c = b
  OBVIOUS
<1>1. Len(p) < Len(q)
  BY CoversLonger
<1>2. q[Len(p) + 1] \in Bit
  BY <1>1
<1> QED  BY <1>2 DEF Below

\* What is below something below p is on the same side of p, ...
LEMMA BelowDown ==
  \A p, q, r \in Seq(Bit), b \in Bit : Below(p, b, q) /\ Covers(q, r) => Below(p, b, r)
<1> SUFFICES ASSUME NEW p \in Seq(Bit), NEW q \in Seq(Bit), NEW r \in Seq(Bit), NEW b \in Bit,
                    Below(p, b, q), Covers(q, r)
             PROVE  Below(p, b, r)
  OBVIOUS
<1>1. Len(p) < Len(q) /\ Len(q) <= Len(r) /\ Covers(p, r)
  BY CoversLonger, CoversThrough DEF Below, StrictlyCovers
<1>2. p # r
  BY <1>1
<1>3. Len(p) + 1 \in 1..Len(q)
  BY <1>1
<1>4. q[Len(p) + 1] = r[Len(p) + 1]
  BY <1>3, CoversBits
<1> QED  BY <1>1, <1>2, <1>4 DEF Below, StrictlyCovers

\* ... and so is what lies between p and something below it.
LEMMA BelowUp ==
  \A p, q, r \in Seq(Bit), b \in Bit :
    StrictlyCovers(p, q) /\ Covers(q, r) /\ Below(p, b, r) => Below(p, b, q)
<1> SUFFICES ASSUME NEW p \in Seq(Bit), NEW q \in Seq(Bit), NEW r \in Seq(Bit), NEW b \in Bit,
                    StrictlyCovers(p, q), Covers(q, r), Below(p, b, r)
             PROVE  Below(p, b, q)
  OBVIOUS
<1>1. Len(p) < Len(q)
  BY CoversLonger
<1>2. Len(p) + 1 \in 1..Len(q)
  BY <1>1
<1>3. q[Len(p) + 1] = r[Len(p) + 1]
  BY <1>2, CoversBits
<1> QED  BY <1>3 DEF Below

\* The null pointer is no sequence of bits.
LEMMA NullIsNoNode == Null \notin Seq(Bit)
<1>1. Null[1] = 2 /\ Len(Null) = 1
  BY DEF Null
<1>2. \A s \in Seq(Bit) : Len(s) = 1 => s[1] \in Bit
  OBVIOUS
<1>3. 2 \notin Bit
  BY DEF Bit
<1> HIDE DEF Null
<1> QED  BY <1>1, <1>2, <1>3

-----------------------------------------------------------------------------
(* The links of a tree.                                                    *)

\* Nodes N, their head h, their children K (on either side) and parents U are
\* linked when a child is the shortest node on its side and a parent the longest
\* node above.
HeadLinked(N, h) == IF N = {} THEN h = Null ELSE h \in N /\ \A q \in N : Covers(h, q)
KidLinked(N, K, p, b) ==
  /\ K[p][b] # Null => K[p][b] \in N /\ Below(p, b, K[p][b])
  /\ \A q \in N : Below(p, b, q) => K[p][b] # Null /\ Covers(K[p][b], q)
UpLinked(N, h, U, p) ==
  /\ U[p] = Null => h = p
  /\ U[p] # Null => U[p] \in N /\ StrictlyCovers(U[p], p)
  /\ \A q \in N : StrictlyCovers(q, p) => U[p] # Null /\ Covers(q, U[p])
Linked(N, h, K, U) ==
  /\ N \subseteq Bits
  /\ HeadLinked(N, h)
  /\ \A p \in N : \A b \in Bit : KidLinked(N, K, p, b)
  /\ \A p \in N : UpLinked(N, h, U, p)

\* The links go both ways.
LEMMA BothWays ==
  ASSUME NEW N, NEW h, NEW K, NEW U, Linked(N, h, K, U), NEW p \in N
  PROVE  /\ U[p] = Null <=> h = p
         /\ U[p] # Null => \E b \in Bit : Below(U[p], b, p) /\ K[U[p]][b] = p
         /\ \A q \in N : \A b \in Bit : K[q][b] = p => q = U[p] /\ Below(q, b, p)
<1> USE DEF Linked
<1>1. N \subseteq Seq(Bit) /\ p \in Seq(Bit) /\ UpLinked(N, h, U, p) /\ HeadLinked(N, h)
  BY DEF Bits
<1>2. h = p => U[p] = Null
  <2> SUFFICES ASSUME h = p, U[p] # Null PROVE FALSE
    OBVIOUS
  <2>1. U[p] \in N /\ StrictlyCovers(U[p], p) /\ Covers(p, U[p])
    BY <1>1 DEF UpLinked, HeadLinked
  <2> QED  BY <1>1, <2>1, CoversBoth DEF StrictlyCovers
<1>3. ASSUME U[p] # Null PROVE \E b \in Bit : Below(U[p], b, p) /\ K[U[p]][b] = p
  <2> DEFINE u == U[p]
  <2>1. u \in N /\ StrictlyCovers(u, p) /\ u \in Seq(Bit)
    BY <1>1, <1>3 DEF UpLinked
  <2>2. PICK b \in Bit : Below(u, b, p)
    BY <1>1, <2>1, BelowOne
  <2> DEFINE c == K[u][b]
  <2>3. c \in N /\ Covers(c, p) /\ Below(u, b, c)
    BY <2>1, <2>2 DEF KidLinked
  <2> HIDE DEF u, c
  <2>4. c = p
    <3> SUFFICES ASSUME c # p PROVE FALSE
      OBVIOUS
    <3>1. Covers(c, u) /\ Covers(u, c) /\ u # c
      BY <1>1, <2>3 DEF UpLinked, StrictlyCovers, Below, u
    <3> QED  BY <3>1, <1>1, <2>1, <2>3, CoversBoth
  <2> QED  BY <2>2, <2>4 DEF u, c
<1>4. ASSUME NEW q \in N, NEW b \in Bit, K[q][b] = p PROVE q = U[p] /\ Below(q, b, p)
  <2>1. Below(q, b, p) /\ q \in Seq(Bit)
    BY <1>1, <1>4, NullIsNoNode DEF KidLinked
  <2> DEFINE u == U[p]
  <2>2. u \in N /\ StrictlyCovers(u, p) /\ Covers(q, u) /\ u \in Seq(Bit)
    BY <1>1, <2>1 DEF UpLinked, Below
  <2> HIDE DEF u
  <2>3. q = u
    <3> SUFFICES ASSUME q # u PROVE FALSE
      OBVIOUS
    <3>1. Below(q, b, u)
      BY <2>1, <2>2, <1>1, BelowUp DEF StrictlyCovers
    <3>2. Covers(p, u)
      BY <3>1, <2>2, <1>4 DEF KidLinked
    <3> QED  BY <3>2, <2>2, <1>1, CoversBoth DEF StrictlyCovers
  <2> QED  BY <2>1, <2>3 DEF u
<1> QED  BY <1>1, <1>2, <1>3, <1>4 DEF UpLinked

\* A new leaf k under a, where there was no child, keeps the links.
LEMMA LeafAdded ==
  ASSUME NEW N, NEW h, NEW K, NEW U, Linked(N, h, K, U),
         NEW a \in N, NEW b \in Bit, NEW k \in Bits \ N, Below(a, b, k), K[a][b] = Null,
         NEW L, \A x \in N : \A c \in Bit : L[x][c] = IF x = a /\ c = b THEN k ELSE K[x][c],
         \A c \in Bit : L[k][c] = Null,
         NEW V, \A x \in N : V[x] = U[x], V[k] = a
  PROVE  Linked(N \cup {k}, h, L, V)
<1> DEFINE M == N \cup {k}
<1>1. N \subseteq Seq(Bit) /\ k \in Seq(Bit) /\ M \subseteq Bits /\ k # Null
  BY NullIsNoNode DEF Linked, Bits
<1>2. h \in N /\ \A q \in N : Covers(h, q)
  BY DEF Linked, HeadLinked
<1>3. Covers(h, k)
  BY <1>1, <1>2, CoversThrough DEF Below, StrictlyCovers
<1>4. \A q \in N : ~StrictlyCovers(k, q)
  <2> SUFFICES ASSUME NEW q \in N, StrictlyCovers(k, q) PROVE FALSE
    OBVIOUS
  <2>1. Below(a, b, q)
    BY <1>1, BelowDown DEF StrictlyCovers
  <2> QED  BY <2>1 DEF Linked, KidLinked
<1>5. \A q \in N : StrictlyCovers(q, k) => Covers(q, a)
  <2> SUFFICES ASSUME NEW q \in N, StrictlyCovers(q, k), ~Covers(q, a) PROVE FALSE
    OBVIOUS
  <2>1. StrictlyCovers(a, q)
    <3>1. Covers(q, k) /\ Covers(a, k)
      BY DEF StrictlyCovers, Below
    <3>2. Covers(a, q) /\ a # q
      BY <1>1, <3>1, CoversComparable, CoversItself
    <3> QED  BY <3>2 DEF StrictlyCovers
  <2>2. Below(a, b, q)
    BY <1>1, <2>1, BelowUp DEF StrictlyCovers
  <2> QED  BY <2>2 DEF Linked, KidLinked
<1>6. ASSUME NEW x \in N, NEW c \in Bit PROVE KidLinked(M, L, x, c)
  <2>1. KidLinked(N, K, x, c)
    BY DEF Linked
  <2>2. CASE x = a /\ c = b
    BY <1>1, <2>1, <2>2, CoversItself DEF KidLinked
  <2>3. CASE ~(x = a /\ c = b)
    <3>1. L[x][c] = K[x][c]
      BY <2>3
    <3>2. Below(x, c, k) => K[x][c] # Null /\ Covers(K[x][c], k)
      <4> SUFFICES ASSUME Below(x, c, k) PROVE K[x][c] # Null /\ Covers(K[x][c], k)
        OBVIOUS
      <4>1. Covers(x, a)
        BY <1>5 DEF Below
      <4>2. x # a
        BY <1>1, <2>3, BelowOne DEF Below
      <4>3. Below(x, c, a)
        BY <1>1, <4>1, <4>2, BelowUp DEF StrictlyCovers, Below
      <4>4. K[x][c] # Null /\ Covers(K[x][c], a) /\ K[x][c] \in N
        BY <2>1, <4>3 DEF KidLinked
      <4>5. Covers(a, k)
        BY DEF Below, StrictlyCovers
      <4> QED  BY <1>1, <4>4, <4>5, CoversThrough
    <3> QED  BY <2>1, <3>1, <3>2 DEF KidLinked
  <2> QED  BY <2>2, <2>3
<1>7. ASSUME NEW c \in Bit PROVE KidLinked(M, L, k, c)
  BY <1>4 DEF KidLinked, Below, StrictlyCovers
<1>8. ASSUME NEW x \in N PROVE UpLinked(M, h, V, x)
  <2>1. UpLinked(N, h, U, x)
    BY DEF Linked
  <2> QED  BY <1>4, <2>1 DEF UpLinked
<1>9. UpLinked(M, h, V, k)
  BY <1>1, <1>5, NullIsNoNode DEF UpLinked, Below, StrictlyCovers
<1> QED  BY <1>1, <1>2, <1>3, <1>6, <1>7, <1>8, <1>9 DEF Linked, HeadLinked
\* A new node g between p and its parent keeps them.
PutBetween(N, h, K, U, p, b, g, L, V, j) ==
  /\ p \in N /\ b \in Bit /\ g \in Bits \ N /\ Below(g, b, p)
  /\ U[p] # Null => StrictlyCovers(U[p], g)
  /\ \A x \in N : \A c \in Bit : L[x][c] = IF K[x][c] = p THEN g ELSE K[x][c]
  /\ \A c \in Bit : L[g][c] = IF c = b THEN p ELSE Null
  /\ \A x \in N : V[x] = IF x = p THEN g ELSE U[x]
  /\ V[g] = U[p]
  /\ j = IF h = p THEN g ELSE h

\* With a node put there the links are right.
LEMMA NodeBetween ==
  ASSUME NEW N, NEW h, NEW K, NEW U, Linked(N, h, K, U),
         NEW p, NEW b, NEW g, NEW L, NEW V, NEW j,
         PutBetween(N, h, K, U, p, b, g, L, V, j)
  PROVE  Linked(N \cup {g}, j, L, V)
<1> p \in N /\ b \in Bit /\ g \in Bits \ N /\ Below(g, b, p)
  BY DEF PutBetween
<1> U[p] # Null => StrictlyCovers(U[p], g)
  BY DEF PutBetween
<1> /\ \A x \in N : \A c \in Bit : L[x][c] = IF K[x][c] = p THEN g ELSE K[x][c]
    /\ \A c \in Bit : L[g][c] = IF c = b THEN p ELSE Null
  BY DEF PutBetween
<1> (\A x \in N : V[x] = IF x = p THEN g ELSE U[x]) /\ V[g] = U[p] /\ j = IF h = p THEN g ELSE h
  BY DEF PutBetween
<1> DEFINE M == N \cup {g}
<1>1. N \subseteq Seq(Bit) /\ g \in Seq(Bit) /\ M \subseteq Bits /\ g # Null /\ p # Null
  BY NullIsNoNode DEF Linked, Bits
<1>2. h \in N /\ \A q \in N : Covers(h, q)
  BY DEF Linked, HeadLinked
<1>3. Covers(g, p) /\ g # p
  BY DEF Below, StrictlyCovers
<1>4. UpLinked(N, h, U, p)
  BY DEF Linked
<1>5. ASSUME NEW q \in N, StrictlyCovers(g, q) PROVE Covers(p, q) /\ Below(g, b, q)
  <2>1. Covers(p, q)
    <3>1. CASE U[p] = Null
      BY <1>2, <1>4, <3>1 DEF UpLinked
    <3>2. CASE U[p] # Null
      <4>1. PICK c \in Bit : Below(U[p], c, p) /\ K[U[p]][c] = p
        BY <3>2, BothWays
      <4>2. U[p] \in N /\ Below(U[p], c, g)
        BY <1>1, <1>3, <1>4, <3>2, <4>1, BelowUp DEF UpLinked
      <4>3. Below(U[p], c, q)
        BY <1>1, <1>5, <4>2, BelowDown DEF StrictlyCovers
      <4> QED  BY <4>1, <4>2, <4>3 DEF Linked, KidLinked
    <3> QED  BY <3>1, <3>2
  <2> QED  BY <1>1, <2>1, BelowDown
<1>6. ASSUME NEW q \in N PROVE StrictlyCovers(q, g) <=> StrictlyCovers(q, p)
  <2>1. StrictlyCovers(q, g) => StrictlyCovers(q, p)
    <3> SUFFICES ASSUME StrictlyCovers(q, g) PROVE Covers(q, p) /\ q # p
      BY DEF StrictlyCovers
    <3>1. Covers(q, p)
      BY <1>1, <1>3, CoversThrough DEF StrictlyCovers
    <3>2. q # p
      BY <1>1, <1>3, CoversBoth DEF StrictlyCovers
    <3> QED  BY <3>1, <3>2
  <2>2. StrictlyCovers(q, p) => StrictlyCovers(q, g)
    <3> SUFFICES ASSUME StrictlyCovers(q, p) PROVE StrictlyCovers(q, g)
      OBVIOUS
    <3>1. U[p] # Null /\ U[p] \in N /\ Covers(q, U[p])
      BY <1>4 DEF UpLinked
    <3>2. Covers(q, g)
      BY <1>1, <3>1, CoversThrough DEF StrictlyCovers
    <3> QED  BY <3>2 DEF StrictlyCovers
  <2> QED  BY <2>1, <2>2
<1>7. ASSUME NEW x \in N, NEW c \in Bit PROVE KidLinked(M, L, x, c)
  <2>1. KidLinked(N, K, x, c)
    BY DEF Linked
  <2>2. CASE K[x][c] = p
    <3>1. x = U[p] /\ Below(x, c, p)
      BY <2>2, BothWays
    <3>2. Below(x, c, g)
      BY <1>1, <1>3, <3>1, BelowUp, NullIsNoNode
    <3>3. L[x][c] = g /\ g \in M
      BY <2>2
    <3>4. \A q \in M : Below(x, c, q) => Covers(g, q)
      <4>1. \A q \in N : Below(x, c, q) => Covers(p, q)
        BY <2>1, <2>2 DEF KidLinked
      <4> QED  BY <1>1, <1>3, <4>1, CoversThrough, CoversItself
    <3> QED  BY <1>1, <3>2, <3>3, <3>4 DEF KidLinked
  <2>3. CASE K[x][c] # p
    <3>1. L[x][c] = K[x][c]
      BY <2>3
    <3>2. Below(x, c, g) => K[x][c] # Null /\ Covers(K[x][c], g)
      <4> SUFFICES ASSUME Below(x, c, g) PROVE K[x][c] # Null /\ Covers(K[x][c], g)
        OBVIOUS
      <4>1. Below(x, c, p)
        BY <1>1, <1>3, BelowDown
      <4>2. K[x][c] # Null /\ K[x][c] \in N /\ StrictlyCovers(K[x][c], p)
        BY <2>1, <2>3, <4>1 DEF KidLinked, StrictlyCovers
      <4> QED  BY <1>6, <4>2 DEF StrictlyCovers
    <3> QED  BY <2>1, <3>1, <3>2 DEF KidLinked
  <2> QED  BY <2>2, <2>3
<1>8. ASSUME NEW c \in Bit PROVE KidLinked(M, L, g, c)
  <2>1. CASE c = b
    BY <1>1, <1>5, <2>1 DEF KidLinked, Below, StrictlyCovers
  <2>2. CASE c # b
    <3>1. \A q \in M : ~Below(g, c, q)
      BY <1>1, <1>5, <2>2 DEF Below, StrictlyCovers
    <3> QED  BY <2>2, <3>1 DEF KidLinked
  <2> QED  BY <2>1, <2>2
<1>9. ASSUME NEW x \in N PROVE UpLinked(M, j, V, x)
  <2>1. UpLinked(N, h, U, x)
    BY DEF Linked
  <2>2. CASE x = p
    <3>1. V[x] = g /\ StrictlyCovers(g, p)
      BY <1>3, <2>2 DEF StrictlyCovers
    <3>2. \A q \in M : StrictlyCovers(q, p) => Covers(q, g)
      BY <1>1, <1>6, CoversItself DEF StrictlyCovers
    <3> QED  BY <1>1, <2>2, <3>1, <3>2 DEF UpLinked
  <2>3. CASE x # p
    <3>1. V[x] = U[x]
      BY <2>3
    <3>2. StrictlyCovers(g, x) => U[x] # Null /\ Covers(g, U[x])
      <4> SUFFICES ASSUME StrictlyCovers(g, x) PROVE U[x] # Null /\ Covers(g, U[x])
        OBVIOUS
      <4>1. StrictlyCovers(p, x)
        BY <1>5, <2>3 DEF StrictlyCovers
      <4>2. U[x] # Null /\ Covers(p, U[x]) /\ U[x] \in N
        BY <2>1, <4>1 DEF UpLinked
      <4> QED  BY <1>1, <1>3, <4>2, CoversThrough
    <3>3. U[x] = Null => j = x
      BY <2>1, <2>3 DEF UpLinked
    <3> QED  BY <2>1, <3>1, <3>2, <3>3 DEF UpLinked
  <2> QED  BY <2>2, <2>3
<1>10. UpLinked(M, j, V, g)
  <2>1. U[p] = Null => j = g
    BY <1>4 DEF UpLinked
  <2>2. U[p] # Null => U[p] \in N
    BY <1>4 DEF UpLinked
  <2>3. \A q \in M : StrictlyCovers(q, g) => U[p] # Null /\ Covers(q, U[p])
    BY <1>4, <1>6 DEF UpLinked, StrictlyCovers
  <2> QED  BY <2>1, <2>2, <2>3 DEF UpLinked
<1>11. HeadLinked(M, j)
  <2>1. CASE h = p
    BY <1>1, <1>2, <1>3, <2>1, CoversThrough, CoversItself DEF HeadLinked
  <2>2. CASE h # p
    <3>1. StrictlyCovers(h, g)
      BY <1>2, <1>6, <2>2 DEF StrictlyCovers
    <3> QED  BY <1>2, <2>2, <3>1 DEF HeadLinked, StrictlyCovers
  <2> QED  BY <2>1, <2>2
<1> QED  BY <1>1, <1>7, <1>8, <1>9, <1>10, <1>11 DEF Linked

\* Taking away a leaf p keeps them.
TakeLeaf(N, h, K, U, p, L, V, j) ==
  /\ p \in N /\ \A c \in Bit : K[p][c] = Null
  /\ \A x \in N \ {p} : \A c \in Bit : L[x][c] = IF K[x][c] = p THEN Null ELSE K[x][c]
  /\ \A x \in N \ {p} : V[x] = U[x]
  /\ j = IF h = p THEN Null ELSE h

\* Without it the links are right.
LEMMA LeafTaken ==
  ASSUME NEW N, NEW h, NEW K, NEW U, Linked(N, h, K, U),
         NEW p, NEW L, NEW V, NEW j, TakeLeaf(N, h, K, U, p, L, V, j)
  PROVE  Linked(N \ {p}, j, L, V)
<1> p \in N /\ \A c \in Bit : K[p][c] = Null
  BY DEF TakeLeaf
<1> \A x \in N \ {p} : \A c \in Bit : L[x][c] = IF K[x][c] = p THEN Null ELSE K[x][c]
  BY DEF TakeLeaf
<1> (\A x \in N \ {p} : V[x] = U[x]) /\ j = IF h = p THEN Null ELSE h
  BY DEF TakeLeaf
<1> DEFINE M == N \ {p}
<1>1. N \subseteq Seq(Bit) /\ M \subseteq Bits /\ p # Null /\ N # {}
  BY NullIsNoNode DEF Linked, Bits
<1>2. h \in N /\ \A q \in N : Covers(h, q)
  BY <1>1 DEF Linked, HeadLinked
<1>3. \A q \in N : ~StrictlyCovers(p, q)
  <2> SUFFICES ASSUME NEW q \in N, StrictlyCovers(p, q) PROVE FALSE
    OBVIOUS
  <2>1. PICK b \in Bit : Below(p, b, q)
    BY <1>1, BelowOne
  <2> QED  BY <2>1 DEF Linked, KidLinked
<1>4. ASSUME NEW x \in M, NEW c \in Bit PROVE KidLinked(M, L, x, c)
  <2>1. KidLinked(N, K, x, c) /\ L[x][c] = IF K[x][c] = p THEN Null ELSE K[x][c]
    BY DEF Linked
  <2>2. CASE K[x][c] = p
    <3>1. \A q \in M : ~Below(x, c, q)
      BY <1>3, <2>1, <2>2 DEF KidLinked, StrictlyCovers
    <3> QED  BY <2>1, <2>2, <3>1 DEF KidLinked
  <2>3. CASE K[x][c] # p
    BY <2>1, <2>3 DEF KidLinked
  <2> QED  BY <2>2, <2>3
<1>5. ASSUME NEW x \in M PROVE UpLinked(M, j, V, x)
  <2>1. UpLinked(N, h, U, x) /\ V[x] = U[x]
    BY DEF Linked
  <2>2. U[x] # p
    BY <1>1, <1>3, <2>1 DEF UpLinked
  <2> QED  BY <2>1, <2>2 DEF UpLinked
<1>6. HeadLinked(M, j)
  <2>1. h = p => M = {}
    BY <1>2, <1>3 DEF StrictlyCovers
  <2>2. h # p => M # {} /\ h \in M
    BY <1>2
  <2> QED  BY <1>2, <2>1, <2>2 DEF HeadLinked
<1> QED  BY <1>1, <1>4, <1>5, <1>6 DEF Linked

\* A node with one child gives way to it, and they are kept.
GiveWay(N, h, K, U, p, b, k, L, V, j) ==
  /\ p \in N /\ b \in Bit /\ k = K[p][b] /\ k # Null
  /\ \A c \in Bit : c # b => K[p][c] = Null
  /\ \A x \in N \ {p} : \A c \in Bit : L[x][c] = IF K[x][c] = p THEN k ELSE K[x][c]
  /\ \A x \in N \ {p} : V[x] = IF x = k THEN U[p] ELSE U[x]
  /\ j = IF h = p THEN k ELSE h

\* With its child in its place the links are right.
LEMMA NodeGivesWay ==
  ASSUME NEW N, NEW h, NEW K, NEW U, Linked(N, h, K, U),
         NEW p, NEW b, NEW k, NEW L, NEW V, NEW j, GiveWay(N, h, K, U, p, b, k, L, V, j)
  PROVE  Linked(N \ {p}, j, L, V)
<1> /\ p \in N /\ b \in Bit /\ k = K[p][b] /\ k # Null
    /\ \A c \in Bit : c # b => K[p][c] = Null
  BY DEF GiveWay
<1> \A x \in N \ {p} : \A c \in Bit : L[x][c] = IF K[x][c] = p THEN k ELSE K[x][c]
  BY DEF GiveWay
<1> (\A x \in N \ {p} : V[x] = IF x = k THEN U[p] ELSE U[x]) /\ j = IF h = p THEN k ELSE h
  BY DEF GiveWay
<1> DEFINE M == N \ {p}
<1>1. N \subseteq Seq(Bit) /\ M \subseteq Bits /\ p # Null
  BY NullIsNoNode DEF Linked, Bits
<1>2. h \in N /\ \A q \in N : Covers(h, q)
  BY DEF Linked, HeadLinked
<1>3. k \in M /\ Below(p, b, k) /\ Covers(p, k) /\ k # Null
  <2>1. KidLinked(N, K, p, b)
    BY DEF Linked
  <2> QED  BY <2>1 DEF KidLinked, Below, StrictlyCovers
<1>4. \A q \in N : StrictlyCovers(p, q) => Covers(k, q)
  <2> SUFFICES ASSUME NEW q \in N, StrictlyCovers(p, q) PROVE Covers(k, q)
    OBVIOUS
  <2>1. PICK c \in Bit : Below(p, c, q)
    BY <1>1, BelowOne
  <2>2. KidLinked(N, K, p, c)
    BY DEF Linked
  <2> QED  BY <2>1, <2>2 DEF KidLinked
<1>5. UpLinked(N, h, U, p)
  BY DEF Linked
<1>6. U[k] = p
  BY <1>3, BothWays
<1>7. ASSUME NEW x \in M, NEW c \in Bit PROVE KidLinked(M, L, x, c)
  <2>1. KidLinked(N, K, x, c) /\ L[x][c] = IF K[x][c] = p THEN k ELSE K[x][c]
    BY DEF Linked
  <2>2. CASE K[x][c] = p
    <3>1. Below(x, c, p)
      BY <1>1, <2>1, <2>2 DEF KidLinked
    <3>2. Below(x, c, k)
      BY <1>1, <1>3, <3>1, BelowDown
    <3>3. \A q \in M : Below(x, c, q) => Covers(k, q)
      BY <1>4, <2>1, <2>2 DEF KidLinked, StrictlyCovers
    <3> QED  BY <1>3, <2>1, <2>2, <3>2, <3>3 DEF KidLinked
  <2>3. CASE K[x][c] # p
    BY <2>1, <2>3 DEF KidLinked
  <2> QED  BY <2>2, <2>3
<1>8. ASSUME NEW x \in M PROVE UpLinked(M, j, V, x)
  <2>1. UpLinked(N, h, U, x)
    BY DEF Linked
  <2>2. CASE x = k
    <3>1. V[x] = U[p]
      BY <1>3, <2>2
    <3>2. U[p] = Null => j = k
      BY <1>5 DEF UpLinked
    <3>3. U[p] # Null => U[p] \in M /\ StrictlyCovers(U[p], k)
      <4> SUFFICES ASSUME U[p] # Null PROVE U[p] \in M /\ Covers(U[p], k) /\ U[p] # k
        BY DEF StrictlyCovers
      <4>1. U[p] \in M /\ Covers(U[p], p)
        BY <1>5 DEF UpLinked, StrictlyCovers
      <4>2. Covers(U[p], k)
        BY <1>1, <1>3, <4>1, CoversThrough
      <4>3. U[p] # k
        BY <1>1, <1>3, <4>1, CoversBoth
      <4> QED  BY <4>1, <4>2, <4>3
    <3>4. \A q \in M : StrictlyCovers(q, k) => U[p] # Null /\ Covers(q, U[p])
      <4> SUFFICES ASSUME NEW q \in M, StrictlyCovers(q, k)
                   PROVE  U[p] # Null /\ Covers(q, U[p])
        OBVIOUS
      <4>1. Covers(q, p)
        BY <1>6, <2>1, <2>2 DEF UpLinked
      <4> QED  BY <1>5, <4>1 DEF UpLinked, StrictlyCovers
    <3> QED  BY <2>2, <3>1, <3>2, <3>3, <3>4 DEF UpLinked
  <2>3. CASE x # k
    <3>1. V[x] = U[x]
      BY <2>3
    <3>2. U[x] # p
      <4> SUFFICES ASSUME U[x] = p PROVE FALSE
        OBVIOUS
      <4>1. StrictlyCovers(p, x)
        BY <1>1, <2>1 DEF UpLinked
      <4>2. StrictlyCovers(k, x)
        BY <1>4, <2>3, <4>1 DEF StrictlyCovers
      <4>3. Covers(k, p)
        BY <1>3, <2>1, <4>2 DEF UpLinked
      <4> QED  BY <1>1, <1>3, <4>3, CoversBoth DEF StrictlyCovers
    <3>3. U[x] = Null => j = x
      BY <2>1 DEF UpLinked
    <3> QED  BY <2>1, <3>1, <3>2, <3>3 DEF UpLinked
  <2> QED  BY <2>2, <2>3
<1>9. HeadLinked(M, j)
  <2>1. CASE h = p
    BY <1>2, <1>3, <1>4, <2>1 DEF HeadLinked, StrictlyCovers
  <2>2. CASE h # p
    BY <1>2, <1>3, <2>2 DEF HeadLinked
  <2> QED  BY <2>1, <2>2
<1> QED  BY <1>1, <1>7, <1>8, <1>9 DEF Linked
-----------------------------------------------------------------------------
(* Keys, and what a tree is.                                               *)

NodeRecord == [bit : Nat, prefix : Address \cup {Null}, l : Bits \cup {Null},
               r : Bits \cup {Null}, parent : Bits \cup {Null},
               data : {"null", "static", "timed"}]

\* Children and parents, as functions on the nodes.
Kids(t) == [p \in DOMAIN t.heap |-> [b \in Bit |-> IF b = 1 THEN t.heap[p].r ELSE t.heap[p].l]]
Ups(t) == [p \in DOMAIN t.heap |-> t.heap[p].parent]
Stored(t) == {p \in DOMAIN t.heap : t.heap[p].prefix # Null}

\* What a call of patricia.c gets and leaves: a heap of nodes that are linked,
\* each with the bit and the address it stands for, glue nodes with both children,
\* and the number of nodes.
Typed(t) ==
  /\ t = [head |-> t.head, heap |-> t.heap, active |-> t.active]
  /\ t.heap \in [DOMAIN t.heap -> NodeRecord]
Marked(t) ==
  \A p \in DOMAIN t.heap :
    /\ t.heap[p].bit = Len(p)
    /\ t.heap[p].prefix # Null => Masked(t.heap[p].prefix, Len(p)) = p
    /\ t.heap[p].data # "null" => t.heap[p].prefix # Null
Shaped(t) == Linked(DOMAIN t.heap, t.head, Kids(t), Ups(t))
Glued(t) == \A p \in DOMAIN t.heap \ Stored(t) : \A b \in Bit : Kids(t)[p][b] # Null
Counted(t) == IsFiniteSet(DOMAIN t.heap) /\ t.active = Cardinality(DOMAIN t.heap)
TreeOk(t) == Typed(t) /\ Marked(t) /\ Shaped(t) /\ Glued(t) /\ Counted(t)

\* The first n bits of an address.
LEMMA MaskedBits ==
  ASSUME NEW a \in Address, NEW n \in 0..MaxBits
  PROVE  /\ Masked(a, n) \in Bits /\ Len(Masked(a, n)) = n
         /\ \A i \in 1..n : Masked(a, n)[i] = a[i]
         /\ \A m \in 0..n : Covers(Masked(a, m), Masked(a, n))
         /\ \A p \in Seq(Bit) : Covers(p, Masked(a, n)) <=> Len(p) <= n /\ p = Masked(a, Len(p))
<1>1. MaxBits \in Nat /\ a \in Seq(Bit) /\ Len(a) = MaxBits
  BY MaxBitsAssumption DEF Address, Bit
<1>2. \A m \in 0..n : /\ Masked(a, m) \in Seq(Bit) /\ Len(Masked(a, m)) = m
                      /\ \A i \in 1..m : Masked(a, m)[i] = a[i]
  <2> SUFFICES ASSUME NEW m \in 0..n
               PROVE  /\ Masked(a, m) \in Seq(Bit) /\ Len(Masked(a, m)) = m
                      /\ \A i \in 1..m : Masked(a, m)[i] = a[i]
    OBVIOUS
  <2>1. m \in 0..Len(a)
    BY <1>1
  <2> QED  BY <1>1, <2>1, Cut DEF Masked
<1>3. n \in 0..n /\ n \in Nat
  BY <1>1
<1>4. ASSUME NEW m \in 0..n PROVE Covers(Masked(a, m), Masked(a, n))
  <2>1. \A i \in 1..m : i \in 1..n
    BY <1>3
  <2> HIDE DEF Masked
  <2>2. m <= n /\ \A i \in 1..m : Masked(a, m)[i] = Masked(a, n)[i]
    BY <1>2, <1>3, <2>1
  <2> QED  BY <1>2, <1>3, <2>2, CoversBits
<1>5. ASSUME NEW p \in Seq(Bit), Covers(p, Masked(a, n))
      PROVE  Len(p) <= n /\ p = Masked(a, Len(p))
  <2> DEFINE m == Len(p)
  <2> HIDE DEF Masked
  <2>1. m <= n /\ m \in Nat
    BY <1>2, <1>3, <1>5, CoversLonger
  <2>2. m \in 0..n
    BY <2>1
  <2>3. Masked(a, m) \in Seq(Bit) /\ Len(Masked(a, m)) = m /\ Covers(Masked(a, m), Masked(a, n))
    BY <1>2, <1>4, <2>2
  <2>4. Covers(p, Masked(a, m))
    BY <1>2, <1>3, <1>5, <2>3, CoversComparable
  <2> QED  BY <2>1, <2>3, <2>4, CoversSameLength
<1>6. ASSUME NEW p \in Seq(Bit), Len(p) <= n, p = Masked(a, Len(p)) PROVE Covers(p, Masked(a, n))
  <2>1. Len(p) \in 0..n
    BY <1>3, <1>6
  <2> QED  BY <1>4, <1>6, <2>1
<1>7. Masked(a, n) \in Bits
  BY <1>2, <1>3 DEF Bits
<1> HIDE DEF Masked
<1> QED  BY <1>2, <1>3, <1>4, <1>5, <1>6, <1>7

\* The side an address goes to at p, ...
Side(p, a) == IF Len(p) < MaxBits /\ a[Len(p) + 1] = 1 THEN 1 ELSE 0

\* ... which is where the nodes are that cover more of it.
LEMMA SideBelow ==
  ASSUME NEW a \in Address, NEW n \in 0..MaxBits, NEW p \in Seq(Bit), NEW q \in Seq(Bit),
         StrictlyCovers(p, q), Covers(q, Masked(a, n)) \/ (Covers(Masked(a, n), q) /\ Len(p) < n)
  PROVE  Below(p, Side(p, a), q)
<1> DEFINE i == Len(p) + 1
<1>1. Len(p) < Len(q) /\ Masked(a, n) \in Seq(Bit) /\ Len(Masked(a, n)) = n /\ MaxBits \in Nat
  BY MaskedBits, CoversLonger, MaxBitsAssumption DEF Bits
<1>2. i \in 1..Len(q) /\ i \in 1..n
  BY <1>1, CoversLonger
<1>3. q[i] = Masked(a, n)[i]
  BY <1>1, <1>2, CoversBits
<1>4. q[i] = a[i] /\ a[i] \in Bit /\ Len(p) < MaxBits
  BY <1>1, <1>2, <1>3, MaskedBits DEF Address, Bit
<1>5. Side(p, a) = a[i]
  BY <1>4 DEF Side, Bit
<1> QED  BY <1>4, <1>5 DEF Below

\* Child is the child on that side.
LEMMA ChildIs ==
  ASSUME NEW t, TreeOk(t), NEW p \in DOMAIN t.heap, NEW a \in Address
  PROVE  Child(t.heap[p], a) = Kids(t)[p][Side(p, a)] /\ Side(p, a) \in Bit
<1>1. t.heap[p].bit = Len(p)
  BY DEF TreeOk, Marked
<1>2. Side(p, a) \in Bit
  BY DEF Side, Bit
<1> QED  BY <1>1, <1>2 DEF Child, BitTest, Side, Kids, Bit

-----------------------------------------------------------------------------
(* Loops.                                                                  *)

\* Follow makes the rounds of its loop.
LEMMA Followed ==
  ASSUME NEW S, NEW start \in S, NEW next \in [S -> S]
  PROVE  LET at == Follow(start, next)
         IN /\ at \in [0..MaxBits -> S]
            /\ at[0] = start
            /\ \A i \in 1..MaxBits : at[i] = next[at[i - 1]]
<1> DEFINE n == MaxBits
           round == [i \in 1..n |-> next]
           Def(f) == f = [i \in 0..n |-> IF i = 0 THEN start ELSE next[f[i - 1]]]
<1>1. n \in Nat
  BY MaxBitsAssumption
<1> HIDE DEF n
<1>2. PICK loop \in [0..n -> S] : /\ loop[0] = start
                                  /\ \A i \in 1..n : loop[i] = round[i][loop[i - 1]]
  <2>1. round \in [1..n -> [S -> S]]
    OBVIOUS
  <2> HIDE DEF round
  <2>2. Loops(n, S, start, round) # {}
    BY <1>1, <2>1, Iterated
  <2> QED  BY <2>2 DEF Loops
<1>3. \A i \in 1..n : loop[i] = next[loop[i - 1]]
  BY <1>2
<1>4. Def(loop)
  <2>1. \A i \in 0..n : loop[i] = IF i = 0 THEN start ELSE next[loop[i - 1]]
    BY <1>1, <1>2, <1>3
  <2> QED  BY <2>1
<1>5. Follow(start, next) = CHOOSE f : Def(f)
  BY DEF Follow, n
<1> HIDE DEF Def
<1>6. Def(Follow(start, next))
  BY <1>4, <1>5
<1> DEFINE at == Follow(start, next)
<1>7. at = [i \in 0..n |-> IF i = 0 THEN start ELSE next[at[i - 1]]]
  BY <1>6 DEF Def
<1> HIDE DEF at
<1>8. DOMAIN at = 0..n /\ at[0] = start /\ \A i \in 1..n : at[i] = next[at[i - 1]]
  BY <1>7, <1>1
<1> DEFINE Good == {i \in 0..n : at[i] \in S}
<1>9. \A i \in 0..n : i \in Good
  <2>1. 0 \in Good
    BY <1>1, <1>8
  <2>2. ASSUME NEW i \in 1..n, i - 1 \in Good PROVE i \in Good
    BY <2>2, <1>1, <1>8
  <2> HIDE DEF Good
  <2> QED  BY <1>1, <2>1, <2>2, Rounds
<1>10. at \in [0..n -> S]
  <2>1. at = [i \in 0..n |-> at[i]]
    BY <1>7
  <2> QED  BY <1>9, <2>1
<1> QED  BY <1>8, <1>10 DEF at, n

-----------------------------------------------------------------------------
(* What a search finds.                                                    *)

\* The links of a tree and its nodes.
LEMMA TreeNodes ==
  ASSUME NEW t, TreeOk(t)
  PROVE  /\ DOMAIN t.heap \subseteq Bits /\ DOMAIN t.heap \subseteq Seq(Bit)
         /\ t.head \in DOMAIN t.heap \cup {Null}
         /\ Null \notin DOMAIN t.heap
         /\ \A p \in DOMAIN t.heap : Covers(t.head, p) /\ t.head # Null
         /\ \A p \in DOMAIN t.heap : \A b \in Bit :
              /\ Kids(t)[p][b] \in DOMAIN t.heap \cup {Null}
              /\ KidLinked(DOMAIN t.heap, Kids(t), p, b)
         /\ \A p \in DOMAIN t.heap : UpLinked(DOMAIN t.heap, t.head, Ups(t), p)
<1> DEFINE N == DOMAIN t.heap
<1>1. Linked(N, t.head, Kids(t), Ups(t))
  BY DEF TreeOk, Shaped
<1>2. N \subseteq Bits /\ N \subseteq Seq(Bit) /\ Null \notin N
  BY <1>1, NullIsNoNode DEF Linked, Bits
<1>3. t.head \in N \cup {Null} /\ \A p \in N : Covers(t.head, p) /\ t.head # Null
  BY <1>1, <1>2 DEF Linked, HeadLinked
<1>4. \A p \in N : \A b \in Bit : KidLinked(N, Kids(t), p, b)
  BY <1>1 DEF Linked
<1>5. \A p \in N : UpLinked(N, t.head, Ups(t), p)
  BY <1>1 DEF Linked
<1> QED  BY <1>2, <1>3, <1>4, <1>5 DEF KidLinked

\* The next node on the way down to a key.
NextDown(t, key, p) == IF Len(p) >= key.len THEN Null ELSE Kids(t)[p][Side(p, key.addr)]

\* The way starts at the head and goes down.
LEMMA WayDown ==
  ASSUME NEW t, TreeOk(t), NEW key \in Key
  PROVE  /\ Way(t, key) \in [0..MaxBits -> DOMAIN t.heap \cup {Null}]
         /\ Way(t, key)[0] = t.head
         /\ \A i \in 1..MaxBits :
              Way(t, key)[i] = IF Way(t, key)[i - 1] = Null THEN Null
                               ELSE NextDown(t, key, Way(t, key)[i - 1])
<1> DEFINE N == DOMAIN t.heap
           next == [p \in N \cup {Null} |-> IF p = Null \/ t.heap[p].bit >= key.len THEN Null
                                            ELSE Child(t.heap[p], key.addr)]
<1>1. key.addr \in Address
  BY DEF Key
<1>2. \A p \in N : next[p] = NextDown(t, key, p)
  <2> SUFFICES ASSUME NEW p \in N PROVE next[p] = NextDown(t, key, p)
    OBVIOUS
  <2>1. t.heap[p].bit = Len(p) /\ p # Null
    BY TreeNodes DEF TreeOk, Marked
  <2>2. Child(t.heap[p], key.addr) = Kids(t)[p][Side(p, key.addr)]
    BY <1>1, ChildIs
  <2> QED  BY <2>1, <2>2 DEF NextDown
<1>3. next[Null] = Null
  OBVIOUS
<1>4. next = [p \in N \cup {Null} |-> next[p]]
  OBVIOUS
<1>5. \A p \in N : next[p] \in N \cup {Null}
  BY <1>1, <1>2, ChildIs, TreeNodes DEF NextDown
<1>6. Way(t, key) = Follow(t.head, next)
  BY DEF Way
<1> HIDE DEF next
<1>7. next \in [N \cup {Null} -> N \cup {Null}]
  BY <1>3, <1>4, <1>5
<1>8. t.head \in N \cup {Null}
  BY TreeNodes
<1>9. /\ Way(t, key) \in [0..MaxBits -> N \cup {Null}]
      /\ Way(t, key)[0] = t.head
      /\ \A i \in 1..MaxBits : Way(t, key)[i] = next[Way(t, key)[i - 1]]
  BY <1>6, <1>7, <1>8, Followed
<1>10. \A i \in 1..MaxBits : i - 1 \in 0..MaxBits
  BY MaxBitsAssumption
<1> HIDE DEF N
<1>11. ASSUME NEW i \in 1..MaxBits
       PROVE  Way(t, key)[i] = IF Way(t, key)[i - 1] = Null THEN Null
                               ELSE NextDown(t, key, Way(t, key)[i - 1])
  <2> DEFINE p == Way(t, key)[i - 1]
  <2>1. p \in N \cup {Null} /\ Way(t, key)[i] = next[p]
    BY <1>9, <1>10
  <2> HIDE DEF p
  <2>2. Way(t, key)[i] = IF p = Null THEN Null ELSE NextDown(t, key, p)
    BY <2>1, <1>2, <1>3
  <2> QED  BY <2>2 DEF p
<1> QED  BY <1>9, <1>11 DEF N

\* On the way the nodes get longer, ...
LEMMA WayLonger ==
  ASSUME NEW t, TreeOk(t), NEW key \in Key
  PROVE  \A j \in 0..MaxBits : Way(t, key)[j] # Null =>
           \A i \in 0..j - 1 : /\ Way(t, key)[i] # Null
                               /\ Len(Way(t, key)[i]) < Len(Way(t, key)[j])
<1> DEFINE N == DOMAIN t.heap
           way == Way(t, key)
           Good == {j \in 0..MaxBits : way[j] # Null =>
                      \A i \in 0..j - 1 : way[i] # Null /\ Len(way[i]) < Len(way[j])}
<1>1. MaxBits \in Nat
  BY MaxBitsAssumption
<1>2. /\ way \in [0..MaxBits -> N \cup {Null}]
      /\ \A i \in 1..MaxBits : way[i] = IF way[i - 1] = Null THEN Null
                                        ELSE NextDown(t, key, way[i - 1])
  BY WayDown
<1> HIDE DEF way
<1>3. 0 \in Good
  BY <1>1
<1>4. ASSUME NEW j \in 1..MaxBits, j - 1 \in Good PROVE j \in Good
  <2> SUFFICES ASSUME way[j] # Null, NEW i \in 0..j - 1
               PROVE  way[i] # Null /\ Len(way[i]) < Len(way[j])
    BY <1>1
  <2> DEFINE p == way[j - 1]
             q == way[j]
  <2>1. p \in N /\ q \in N /\ q = NextDown(t, key, p)
    BY <1>1, <1>2
  <2>2. q = Kids(t)[p][Side(p, key.addr)] /\ Side(p, key.addr) \in Bit
    BY <2>1 DEF NextDown, Side, Bit
  <2>3. Below(p, Side(p, key.addr), q) /\ p \in Seq(Bit) /\ q \in Seq(Bit)
    BY <2>1, <2>2, TreeNodes DEF KidLinked
  <2>4. Len(p) < Len(q)
    BY <2>3, CoversLonger DEF Below
  <2>5. CASE i = j - 1
    BY <2>1, <2>4, <2>5, TreeNodes
  <2>6. CASE i # j - 1
    <3>1. i \in 0..(j - 1) - 1
      BY <2>6
    <3>2. p # Null
      BY <2>1, TreeNodes
    <3>3. way[i] # Null /\ Len(way[i]) < Len(p)
      BY <1>4, <3>1, <3>2
    <3>4. way[i] \in Seq(Bit)
      BY <1>1, <1>2, <3>1, <3>3, TreeNodes
    <3> HIDE DEF p, q
    <3>5. Len(way[i]) < Len(q)
      BY <2>3, <2>4, <3>3, <3>4
    <3> QED  BY <3>3, <3>5 DEF q
  <2> QED  BY <2>5, <2>6
<1> HIDE DEF Good
<1>5. \A j \in 0..MaxBits : j \in Good
  BY <1>1, <1>3, <1>4, Rounds
<1> QED  BY <1>5 DEF Good, way

\* ... and everything that covers the key is met.
LEMMA WayMeetsCovering ==
  ASSUME NEW t, TreeOk(t), NEW key \in Key, NEW q \in DOMAIN t.heap, Covers(q, PrefixOf(key))
  PROVE  \E i \in 0..MaxBits : Way(t, key)[i] = q
<1> DEFINE N == DOMAIN t.heap
           way == Way(t, key)
           Good == {i \in 0..MaxBits : \/ \E j \in 0..i : way[j] = q
                                       \/ /\ way[i] \in N /\ StrictlyCovers(way[i], q)
                                          /\ Len(way[i]) >= i}
<1>1. MaxBits \in Nat /\ key.addr \in Address /\ key.len \in 0..MaxBits
  BY MaxBitsAssumption DEF Key
<1>2. /\ way[0] = t.head /\ DOMAIN way = 0..MaxBits
      /\ \A i \in 1..MaxBits : way[i] = IF way[i - 1] = Null THEN Null
                                        ELSE NextDown(t, key, way[i - 1])
  BY WayDown
<1> HIDE DEF way
<1>3. q \in Seq(Bit) /\ Len(q) <= key.len /\ Len(q) <= MaxBits
  BY <1>1, TreeNodes, MaskedBits, CoversLonger DEF PrefixOf, Bits
<1>4. 0 \in Good
  <2>1. t.head \in N /\ Covers(t.head, q) /\ t.head \in Seq(Bit)
    BY TreeNodes
  <2>2. 0 \in 0..0 /\ 0 \in 0..MaxBits
    BY <1>1
  <2>3. Len(t.head) >= 0
    BY <2>1
  <2> QED  BY <1>2, <2>1, <2>2, <2>3 DEF StrictlyCovers
<1>5. ASSUME NEW i \in 1..MaxBits, i - 1 \in Good PROVE i \in Good
  <2>1. CASE \E j \in 0..i - 1 : way[j] = q
    <3>1. \A j \in 0..i - 1 : j \in 0..i
      BY <1>1
    <3> QED  BY <1>1, <2>1, <3>1
  <2>2. CASE ~\E j \in 0..i - 1 : way[j] = q
    <3> DEFINE p == way[i - 1]
               b == Side(p, key.addr)
    <3>1. p \in N /\ StrictlyCovers(p, q) /\ Len(p) >= i - 1 /\ p \in Seq(Bit) /\ p # Null
      BY <1>5, <2>2, TreeNodes
    <3>2. Below(p, b, q) /\ b \in Bit
      BY <1>1, <1>3, <3>1, SideBelow DEF PrefixOf, Side, Bit
    <3>3. Kids(t)[p][b] \in N /\ Covers(Kids(t)[p][b], q) /\ Below(p, b, Kids(t)[p][b])
      BY <3>1, <3>2, TreeNodes DEF KidLinked
    <3>4. Len(p) < Len(q)
      BY <1>3, <3>1, CoversLonger
    <3>5. NextDown(t, key, p) = Kids(t)[p][b]
      BY <1>1, <1>3, <3>1, <3>4 DEF NextDown
    <3>6. way[i] = Kids(t)[p][b]
      BY <1>2, <3>1, <3>5
    <3> DEFINE c == Kids(t)[p][b]
    <3>7. c \in Seq(Bit) /\ Len(p) < Len(c)
      BY <3>1, <3>3, TreeNodes, CoversLonger DEF Below
    <3> HIDE DEF c, p
    <3>8. Len(c) >= i
      BY <3>1, <3>7
    <3>9. i \in 0..i /\ i \in 0..MaxBits
      BY <1>1
    <3> QED  BY <3>3, <3>6, <3>8, <3>9 DEF StrictlyCovers, c, p
  <2> QED  BY <2>1, <2>2
<1> HIDE DEF Good
<1>6. \A i \in 0..MaxBits : i \in Good
  BY <1>1, <1>4, <1>5, Rounds
<1>7. MaxBits \in Good
  BY <1>1, <1>6
<1>8. ~(way[MaxBits] \in N /\ StrictlyCovers(way[MaxBits], q) /\ Len(way[MaxBits]) >= MaxBits)
  <2> SUFFICES ASSUME way[MaxBits] \in N, StrictlyCovers(way[MaxBits], q),
                      Len(way[MaxBits]) >= MaxBits
               PROVE  FALSE
    OBVIOUS
  <2>1. way[MaxBits] \in Seq(Bit) /\ Len(way[MaxBits]) < Len(q)
    BY <1>3, TreeNodes, CoversLonger
  <2> QED  BY <1>1, <1>3, <2>1
<1> QED  BY <1>7, <1>8 DEF Good, way

\* A stored node matches a key if it covers it.
LEMMA MatchIsCover ==
  ASSUME NEW t, TreeOk(t), NEW key \in Key, NEW p \in Stored(t)
  PROVE  Matches(t.heap[p], key) <=> Covers(p, PrefixOf(key))
<1>1. key.addr \in Address /\ key.len \in 0..MaxBits
  BY DEF Key
<1>2. p \in Seq(Bit) /\ t.heap[p].bit = Len(p) /\ Masked(t.heap[p].prefix, Len(p)) = p
  BY TreeNodes DEF TreeOk, Marked, Stored
<1>3. Covers(p, Masked(key.addr, key.len)) <=> Len(p) <= key.len /\ p = Masked(key.addr, Len(p))
  BY <1>1, <1>2, MaskedBits
<1> QED  BY <1>2, <1>3 DEF Matches, PrefixOf

\* The largest of some places on the way.
LEMMA MaxIs ==
  ASSUME NEW I \in SUBSET (0..MaxBits), I # {}
  PROVE  Max(I) \in I /\ \A i \in I : i <= Max(I)
<1>1. MaxBits \in Nat /\ I \in SUBSET Nat /\ \A i \in I : i <= MaxBits
  BY MaxBitsAssumption
<1>2. \E m \in I : \A i \in I : i <= m
  BY <1>1, GreatestLength
<1>3. \E m \in I : \A i \in I : m >= i
  BY <1>1, <1>2
<1>4. Max(I) \in I /\ \A i \in I : Max(I) >= i
  BY <1>3 DEF Max
<1> QED  BY <1>1, <1>4

\* A longest match is known by its length.
LEMMA LongestIs ==
  ASSUME NEW T \in SUBSET Seq(Bit), NEW k \in Seq(Bit), NEW q \in Covering(T, k),
         \A r \in Covering(T, k) : Len(r) <= Len(q)
  PROVE  LongestMatch(T, k) = q
<1> DEFINE m == LongestMatch(T, k)
<1>1. m \in Covering(T, k) /\ Len(q) <= Len(m)
  BY LongestMatchCovers
<1>2. m \in Seq(Bit) /\ q \in Seq(Bit) /\ Covers(m, k) /\ Covers(q, k)
  BY <1>1 DEF Covering
<1>3. Len(m) <= Len(q)
  BY <1>1
<1> HIDE DEF m
<1>4. Covers(m, q) /\ Covers(q, m)
  BY <1>1, <1>2, <1>3, CoversComparable
<1> QED  BY <1>2, <1>4, CoversBoth DEF m

\* What patricia_search_best returns is the longest match.
LEMMA SearchFinds ==
  ASSUME NEW t, TreeOk(t), NEW key \in Key
  PROVE  patricia_search_best(t, key) =
           IF Covering(Stored(t), PrefixOf(key)) = {} THEN Null
           ELSE LongestMatch(Stored(t), PrefixOf(key))
<1> DEFINE way == Way(t, key)
           k == PrefixOf(key)
           hits == {i \in DOMAIN way : /\ way[i] # Null
                                       /\ t.heap[way[i]].prefix # Null
                                       /\ Matches(t.heap[way[i]], key)}
<1>1. k \in Seq(Bit) /\ Stored(t) \subseteq Seq(Bit)
  BY MaskedBits, TreeNodes DEF Key, PrefixOf, Bits, Stored
<1>2. way \in [0..MaxBits -> DOMAIN t.heap \cup {Null}] /\ Null \notin DOMAIN t.heap
  BY WayDown, TreeNodes
<1>3. patricia_search_best(t, key) = IF hits = {} THEN Null ELSE way[Max(hits)]
  BY DEF patricia_search_best
<1> HIDE DEF way, k
<1>4. hits \subseteq 0..MaxBits /\ \A i \in hits : way[i] \in Covering(Stored(t), k)
  BY <1>2, MatchIsCover DEF Covering, Stored, k
<1>5. \A q \in Covering(Stored(t), k) : \E i \in hits : way[i] = q
  <2> SUFFICES ASSUME NEW q \in Covering(Stored(t), k) PROVE \E i \in hits : way[i] = q
    OBVIOUS
  <2>1. q \in Stored(t) /\ q \in DOMAIN t.heap /\ Covers(q, k)
    BY DEF Covering, Stored
  <2>2. PICK i \in 0..MaxBits : way[i] = q
    BY <2>1, WayMeetsCovering DEF way, k
  <2>3. i \in hits
    BY <1>2, <2>1, <2>2, MatchIsCover DEF Stored, k
  <2> QED  BY <2>2, <2>3
<1> HIDE DEF hits
<1>6. CASE hits = {}
  <2>1. Covering(Stored(t), k) = {}
    BY <1>5, <1>6
  <2> QED  BY <1>3, <1>6, <2>1 DEF k
<1>7. CASE hits # {}
  <2> DEFINE m == Max(hits)
  <2>1. m \in hits /\ \A i \in hits : i <= m
    BY <1>4, <1>7, MaxIs
  <2> HIDE DEF m
  <2>2. way[m] \in Covering(Stored(t), k) /\ m \in 0..MaxBits
    BY <1>4, <2>1
  <2>3. ASSUME NEW r \in Covering(Stored(t), k) PROVE Len(r) <= Len(way[m])
    <3>1. PICK i \in hits : way[i] = r
      BY <1>5
    <3>2. i \in 0..MaxBits /\ i <= m
      BY <1>4, <2>1
    <3>3. r \in Seq(Bit) /\ way[m] \in Seq(Bit) /\ way[m] # Null
      BY <1>1, <2>2, NullIsNoNode DEF Covering
    <3>4. CASE i = m
      BY <3>1, <3>3, <3>4
    <3>5. CASE i # m
      <4>1. i \in 0..m - 1
        BY <2>2, <3>2, <3>5
      <4>2. Len(way[i]) < Len(way[m])
        BY <2>2, <3>3, <4>1, WayLonger DEF way
      <4> QED  BY <3>1, <3>3, <4>2
    <3> QED  BY <3>4, <3>5
  <2>4. LongestMatch(Stored(t), k) = way[m]
    BY <1>1, <2>2, <2>3, LongestIs
  <2>5. Covering(Stored(t), k) # {}
    BY <2>2
  <2> QED  BY <1>3, <1>7, <2>4, <2>5 DEF m, k
<1> QED  BY <1>6, <1>7

-----------------------------------------------------------------------------
(* Where a lookup stops.                                                   *)

\* Whether the descent goes on at p, and to which node.
GoesOn(t, key, p) ==
  /\ Len(p) < key.len \/ p \notin Stored(t)
  /\ Kids(t)[p][Side(p, key.addr)] # Null
NextStop(t, key, p) == IF GoesOn(t, key, p) THEN Kids(t)[p][Side(p, key.addr)] ELSE p

\* Two prefixes of one are comparable.
LEMMA OneOrOther ==
  \A p, q, r \in Seq(Bit) : Covers(p, r) /\ Covers(q, r) => Covers(p, q) \/ StrictlyCovers(q, p)
<1> SUFFICES ASSUME NEW p \in Seq(Bit), NEW q \in Seq(Bit), NEW r \in Seq(Bit),
                    Covers(p, r), Covers(q, r), ~Covers(p, q)
             PROVE  StrictlyCovers(q, p)
  OBVIOUS
<1>1. ~(Len(p) <= Len(q))
  BY CoversComparable
<1>2. Len(q) <= Len(p)
  BY <1>1
<1>3. Covers(q, p)
  BY <1>2, CoversComparable
<1> QED  BY <1>3, CoversItself DEF StrictlyCovers

\* Where a prefix of the key covers q and p is above that prefix, the way goes on
\* from p towards q.
LEMMA TowardsNode ==
  ASSUME NEW t, TreeOk(t), NEW key \in Key, NEW m \in 0..key.len,
         NEW q \in DOMAIN t.heap, Covers(Masked(key.addr, m), q),
         NEW p \in DOMAIN t.heap, StrictlyCovers(p, Masked(key.addr, m))
  PROVE  GoesOn(t, key, p) /\ Covers(NextStop(t, key, p), q)
<1> DEFINE M == Masked(key.addr, m)
           b == Side(p, key.addr)
           c == Kids(t)[p][b]
<1>1. key.addr \in Address /\ key.len \in 0..MaxBits /\ m \in 0..MaxBits
  BY MaxBitsAssumption DEF Key
<1>2. M \in Seq(Bit) /\ Len(M) = m /\ p \in Seq(Bit) /\ q \in Seq(Bit)
  BY <1>1, MaskedBits, TreeNodes DEF Bits
<1> HIDE DEF M
<1>3. Len(p) < m /\ Len(p) < key.len
  BY <1>1, <1>2, CoversLonger DEF M
<1>4. StrictlyCovers(p, q)
  <2>1. Covers(p, q) /\ Len(M) <= Len(q)
    BY <1>2, CoversThrough, CoversLonger DEF StrictlyCovers, M
  <2>2. p # q
    BY <1>2, <1>3, <2>1
  <2> QED  BY <2>1, <2>2 DEF StrictlyCovers
<1>5. Below(p, b, q) /\ b \in Bit
  BY <1>1, <1>2, <1>3, <1>4, SideBelow DEF Side, Bit, M
<1>6. c # Null /\ Covers(c, q)
  BY <1>5, TreeNodes DEF KidLinked
<1> QED  BY <1>3, <1>6 DEF GoesOn, NextStop

\* The descent ends at a stored node that has as much in common with the key as
\* any node.
LEMMA Descended ==
  ASSUME NEW t, TreeOk(t), t.head # Null, NEW key \in Key
  PROVE  /\ Descend(t, key) \in Stored(t)
         /\ ~GoesOn(t, key, Descend(t, key))
         /\ \A m \in 0..key.len : \A q \in DOMAIN t.heap :
              Covers(Masked(key.addr, m), q) => Covers(Masked(key.addr, m), Descend(t, key))
<1> DEFINE N == DOMAIN t.heap
           next == [p \in N |-> LET n == t.heap[p]
                                    c == Child(n, key.addr)
                                IN IF (n.bit < key.len \/ n.prefix = Null) /\ c # Null
                                     THEN c ELSE p]
           at == Follow(t.head, next)
           d == at[MaxBits]
<1>1. key.addr \in Address /\ key.len \in 0..MaxBits /\ MaxBits \in Nat /\ t.head \in N
  BY MaxBitsAssumption, TreeNodes DEF Key
<1>2. \A p \in N : next[p] = NextStop(t, key, p)
  <2> SUFFICES ASSUME NEW p \in N PROVE next[p] = NextStop(t, key, p)
    OBVIOUS
  <2>1. t.heap[p].bit = Len(p)
    BY DEF TreeOk, Marked
  <2>2. Child(t.heap[p], key.addr) = Kids(t)[p][Side(p, key.addr)]
    BY <1>1, ChildIs
  <2> QED  BY <2>1, <2>2 DEF NextStop, GoesOn, Stored
<1>3. next = [p \in N |-> next[p]]
  OBVIOUS
<1>4. Descend(t, key) = d
  BY DEF Descend
<1> HIDE DEF next
<1>5. \A p \in N : GoesOn(t, key, p) => /\ NextStop(t, key, p) \in N
                                        /\ Below(p, Side(p, key.addr), NextStop(t, key, p))
                                        /\ Len(p) < Len(NextStop(t, key, p))
  <2> SUFFICES ASSUME NEW p \in N, GoesOn(t, key, p)
               PROVE  /\ NextStop(t, key, p) \in N
                      /\ Below(p, Side(p, key.addr), NextStop(t, key, p))
                      /\ Len(p) < Len(NextStop(t, key, p))
    OBVIOUS
  <2> DEFINE c == Kids(t)[p][Side(p, key.addr)]
  <2>1. c # Null /\ NextStop(t, key, p) = c /\ Side(p, key.addr) \in Bit
    BY DEF GoesOn, NextStop, Side, Bit
  <2>2. c \in N /\ Below(p, Side(p, key.addr), c)
    BY <2>1, TreeNodes DEF KidLinked
  <2> QED  BY <2>1, <2>2, TreeNodes, CoversLonger DEF Below
<1>6. next \in [N -> N]
  BY <1>2, <1>3, <1>5 DEF NextStop
<1>7. /\ at \in [0..MaxBits -> N] /\ at[0] = t.head
      /\ \A i \in 1..MaxBits : at[i] = next[at[i - 1]]
  BY <1>1, <1>6, Followed
<1> HIDE DEF at
<1>8. \A i \in 1..MaxBits : at[i - 1] \in N /\ at[i] = NextStop(t, key, at[i - 1])
  <2>1. \A i \in 1..MaxBits : i - 1 \in 0..MaxBits
    BY <1>1
  <2> QED  BY <1>2, <1>7, <2>1
<1>9. ~GoesOn(t, key, d)
  <2> DEFINE Good == {i \in 0..MaxBits : ~GoesOn(t, key, at[i]) \/ Len(at[i]) >= i}
  <2>1. 0 \in Good
    BY <1>1, <1>7, TreeNodes
  <2>2. ASSUME NEW i \in 1..MaxBits, i - 1 \in Good PROVE i \in Good
    <3> DEFINE p == at[i - 1]
               c == at[i]
    <3>1. p \in N /\ c = NextStop(t, key, p) /\ i \in 0..MaxBits
      BY <1>1, <1>8
    <3>2. CASE ~GoesOn(t, key, p)
      BY <3>1, <3>2 DEF NextStop
    <3>3. CASE GoesOn(t, key, p)
      <4>1. Len(p) >= i - 1
        BY <2>2, <3>3
      <4>2. Len(p) < Len(c) /\ p \in Seq(Bit) /\ c \in Seq(Bit)
        BY <1>5, <3>1, <3>3, TreeNodes
      <4> HIDE DEF p, c
      <4>3. Len(c) >= i
        BY <4>1, <4>2
      <4> QED  BY <3>1, <4>3 DEF c
    <3> QED  BY <3>2, <3>3
  <2> HIDE DEF Good
  <2>3. \A i \in 0..MaxBits : i \in Good
    BY <1>1, <2>1, <2>2, Rounds
  <2> SUFFICES ASSUME GoesOn(t, key, d) PROVE FALSE
    OBVIOUS
  <2>4. Len(d) >= MaxBits /\ d \in N
    BY <1>1, <1>7, <2>3 DEF Good
  <2>5. NextStop(t, key, d) \in Bits /\ d \in Seq(Bit) /\ Len(d) < Len(NextStop(t, key, d))
    BY <1>5, <2>4, TreeNodes
  <2> QED  BY <1>1, <2>4, <2>5 DEF Bits
<1>10. d \in N
  BY <1>1, <1>7
<1>11. d \in Stored(t)
  <2> SUFFICES ASSUME d \notin Stored(t) PROVE FALSE
    OBVIOUS
  <2>1. Kids(t)[d][Side(d, key.addr)] # Null
    BY <1>1, <1>10, ChildIs DEF TreeOk, Glued
  <2> QED  BY <1>9, <2>1 DEF GoesOn
<1>12. ASSUME NEW m \in 0..key.len, NEW q \in N, Covers(Masked(key.addr, m), q)
       PROVE  Covers(Masked(key.addr, m), d)
  <2> DEFINE M == Masked(key.addr, m)
             Good == {i \in 0..MaxBits : Covers(M, at[i]) \/ StrictlyCovers(at[i], M)}
  <2>1. M \in Seq(Bit) /\ q \in Seq(Bit) /\ Covers(M, q)
    <3>1. m \in 0..MaxBits
      BY <1>1
    <3> QED  BY <1>1, <1>12, <3>1, MaskedBits, TreeNodes DEF Bits
  <2>2. \A p \in N : StrictlyCovers(p, M) => GoesOn(t, key, p) /\ Covers(NextStop(t, key, p), q)
    BY <1>12, TowardsNode
  <2> HIDE DEF M
  <2>3. 0 \in Good
    BY <1>1, <1>7, <2>1, TreeNodes, OneOrOther
  <2>4. ASSUME NEW i \in 1..MaxBits, i - 1 \in Good PROVE i \in Good
    <3> DEFINE p == at[i - 1]
               c == at[i]
    <3>1. p \in N /\ c = NextStop(t, key, p) /\ i \in 0..MaxBits /\ c \in N
      BY <1>1, <1>7, <1>8
    <3>2. p \in Seq(Bit) /\ c \in Seq(Bit)
      BY <3>1, TreeNodes
    <3>3. CASE StrictlyCovers(p, M)
      <4>1. Covers(c, q)
        BY <2>2, <3>1, <3>3
      <4> QED  BY <2>1, <3>1, <3>2, <4>1, OneOrOther
    <3>4. CASE Covers(M, p)
      <4>1. Covers(p, c)
        BY <1>5, <3>1, <3>2, CoversItself DEF NextStop, Below, StrictlyCovers
      <4>2. Covers(M, c)
        BY <2>1, <3>2, <3>4, <4>1, CoversThrough
      <4> QED  BY <3>1, <4>2
    <3> QED  BY <2>4, <3>3, <3>4
  <2> HIDE DEF Good
  <2>5. \A i \in 0..MaxBits : i \in Good
    BY <1>1, <2>3, <2>4, Rounds
  <2>6. Covers(M, d) \/ StrictlyCovers(d, M)
    BY <1>1, <2>5 DEF Good
  <2> QED  BY <1>9, <1>10, <2>2, <2>6 DEF M
<1> QED  BY <1>4, <1>9, <1>11, <1>12

\* The climb goes up from a node to a parent that tests the differing bit or a
\* later one.
GoesUp(t, differ, p) == Ups(t)[p] # Null /\ Len(Ups(t)[p]) >= differ

\* It stops at a node it can go to whose parent it cannot go to.
LEMMA Climbed ==
  ASSUME NEW t, TreeOk(t), NEW d \in DOMAIN t.heap, NEW differ \in 0..MaxBits
  PROVE  /\ Climb(t, d, differ) \in DOMAIN t.heap
         /\ Covers(Climb(t, d, differ), d)
         /\ Climb(t, d, differ) = d \/ Len(Climb(t, d, differ)) >= differ
         /\ ~GoesUp(t, differ, Climb(t, d, differ))
<1> DEFINE N == DOMAIN t.heap
           next == [p \in N |-> LET q == t.heap[p].parent
                                IN IF q # Null /\ t.heap[q].bit >= differ THEN q ELSE p]
           at == Follow(d, next)
           c == at[MaxBits]
<1>1. MaxBits \in Nat /\ N \subseteq Seq(Bit) /\ N \subseteq Bits
  BY MaxBitsAssumption, TreeNodes
<1>2. \A p \in N : /\ Ups(t)[p] = t.heap[p].parent
                   /\ Ups(t)[p] # Null => /\ Ups(t)[p] \in N
                                          /\ StrictlyCovers(Ups(t)[p], p)
                                          /\ t.heap[Ups(t)[p]].bit = Len(Ups(t)[p])
  BY TreeNodes DEF TreeOk, Marked, UpLinked, Ups
<1>3. \A p \in N : next[p] = IF GoesUp(t, differ, p) THEN Ups(t)[p] ELSE p
  BY <1>2 DEF GoesUp
<1>4. Climb(t, d, differ) = c
  BY DEF Climb
<1>5. next = [p \in N |-> next[p]]
  OBVIOUS
<1> HIDE DEF next
<1>6. next \in [N -> N]
  BY <1>2, <1>3, <1>5 DEF GoesUp
<1>7. /\ at \in [0..MaxBits -> N] /\ at[0] = d
      /\ \A i \in 1..MaxBits : at[i] = next[at[i - 1]]
  BY <1>6, Followed
<1> HIDE DEF at
<1> DEFINE Reached(p) == Covers(p, d) /\ (p = d \/ Len(p) >= differ)
           Good == {i \in 0..MaxBits : /\ Reached(at[i])
                                       /\ ~GoesUp(t, differ, at[i]) \/ Len(at[i]) <= MaxBits - i}
<1>8. 0 \in Good
  BY <1>1, <1>7, CoversItself DEF Bits
<1>9. ASSUME NEW i \in 1..MaxBits, i - 1 \in Good PROVE i \in Good
  <2> DEFINE p == at[i - 1]
             q == at[i]
  <2>1. p \in N /\ q = IF GoesUp(t, differ, p) THEN Ups(t)[p] ELSE p
    BY <1>1, <1>3, <1>7, i - 1 \in 0..MaxBits
  <2>2. Reached(p) /\ (~GoesUp(t, differ, p) \/ Len(p) <= MaxBits - (i - 1))
    BY <1>9
  <2>3. i \in 0..MaxBits
    OBVIOUS
  <2> HIDE DEF p
  <2>4. CASE ~GoesUp(t, differ, p)
    BY <2>1, <2>2, <2>3, <2>4
  <2>5. CASE GoesUp(t, differ, p)
    <3>1. q = Ups(t)[p] /\ Len(q) >= differ /\ q \in N /\ StrictlyCovers(q, p)
      BY <1>2, <2>1, <2>5 DEF GoesUp
    <3>2. p \in Seq(Bit) /\ q \in Seq(Bit) /\ d \in Seq(Bit)
      BY <1>1, <2>1, <3>1
    <3>3. Len(q) < Len(p)
      BY <3>1, <3>2, CoversLonger
    <3>4. Covers(q, d)
      BY <2>2, <3>1, <3>2, CoversThrough DEF StrictlyCovers
    <3> HIDE DEF q
    <3>5. Len(q) \in Nat /\ Len(p) \in Nat
      BY <3>2
    <3>6. Len(q) <= MaxBits - i
      BY <1>1, <2>2, <2>5, <3>3, <3>5
    <3> QED  BY <2>3, <3>1, <3>4, <3>6 DEF q
  <2> QED  BY <2>4, <2>5
<1> HIDE DEF Good
<1>10. \A i \in 0..MaxBits : i \in Good
  BY <1>1, <1>8, <1>9, Rounds
<1>11. Reached(c) /\ (~GoesUp(t, differ, c) \/ Len(c) <= 0) /\ c \in N
  BY <1>1, <1>7, <1>10 DEF Good
<1>12. ~GoesUp(t, differ, c)
  <2> SUFFICES ASSUME GoesUp(t, differ, c) PROVE FALSE
    OBVIOUS
  <2> DEFINE q == Ups(t)[c]
  <2>1. q \in Seq(Bit) /\ c \in Seq(Bit) /\ StrictlyCovers(q, c) /\ Len(c) <= 0
    BY <1>1, <1>2, <1>11 DEF GoesUp
  <2>2. Len(q) < Len(c) /\ Len(q) \in Nat
    BY <2>1, CoversLonger
  <2> QED  BY <2>1, <2>2
<1> QED  BY <1>4, <1>11, <1>12

-----------------------------------------------------------------------------
(* The place of a key.                                                     *)

\* The smallest of some positions.
LEMMA MinIs ==
  ASSUME NEW I \in SUBSET Nat, I # {}
  PROVE  Min(I) \in I /\ \A i \in I : Min(I) <= i
<1>1. PICK x \in I : \A y \in I : ~(<<y, x>> \in OpToRel(<, Nat))
  BY NatLessThanWellFounded, WFMin
<1>2. \A y \in I : x <= y
  <2> SUFFICES ASSUME NEW y \in I, ~(x <= y) PROVE FALSE
    OBVIOUS
  <2>1. y \in Nat /\ x \in Nat /\ y < x
    OBVIOUS
  <2>2. <<y, x>> \in OpToRel(<, Nat)
    BY <2>1 DEF OpToRel
  <2> QED  BY <1>1, <2>2
<1> QED  BY <1>2 DEF Min

\* The differing bit of two addresses: they are equal before it.
LEMMA Differs ==
  ASSUME NEW a \in Address, NEW b \in Address, NEW k \in 0..MaxBits
  PROVE  /\ DifferBit(a, b, k) \in 0..k
         /\ Masked(a, DifferBit(a, b, k)) = Masked(b, DifferBit(a, b, k))
         /\ \A i \in 1..DifferBit(a, b, k) : a[i] = b[i]
         /\ DifferBit(a, b, k) < k =>
              a[DifferBit(a, b, k) + 1] # b[DifferBit(a, b, k) + 1]
<1> DEFINE I == {k} \cup {i \in 0..k - 1 : a[i + 1] # b[i + 1]}
           d == Min(I)
<1>1. DifferBit(a, b, k) = d
  BY DEF DifferBit
<1>2. MaxBits \in Nat /\ k \in Nat /\ I \in SUBSET Nat /\ k \in I
  BY MaxBitsAssumption
<1>3. d \in I /\ \A i \in I : d <= i
  BY <1>2, MinIs
<1>4. d \in 0..k /\ (d < k => a[d + 1] # b[d + 1])
  BY <1>2, <1>3
<1>5. ASSUME NEW i \in 1..d PROVE a[i] = b[i]
  <2>1. i - 1 \in 0..k - 1 /\ i - 1 < d /\ (i - 1) + 1 = i
    BY <1>2, <1>4
  <2>2. i - 1 \notin I
    BY <1>2, <1>3, <1>4, <2>1
  <2> QED  BY <2>1, <2>2
<1> HIDE DEF d
<1>6. d \in 0..MaxBits
  BY <1>2, <1>4
<1>7. Masked(a, d) = Masked(b, d)
  <2>1. Covers(Masked(a, d), Masked(b, d))
    <3>1. /\ Masked(a, d) \in Seq(Bit) /\ Len(Masked(a, d)) = d
          /\ Masked(b, d) \in Seq(Bit) /\ Len(Masked(b, d)) = d
          /\ \A i \in 1..d : Masked(a, d)[i] = a[i] /\ Masked(b, d)[i] = b[i]
      BY <1>6, MaskedBits DEF Bits
    <3> QED  BY <1>5, <3>1, CoversBits
  <2>2. Masked(a, d) = Masked(b, Len(Masked(a, d)))
    BY <1>6, <2>1, MaskedBits DEF Bits
  <2> QED  BY <1>6, <2>2, MaskedBits
<1> QED  BY <1>1, <1>4, <1>5, <1>7

\* The node the descent stops at starts like the address it is stored with.
LEMMA StoredBits ==
  ASSUME NEW t, TreeOk(t), NEW d \in Stored(t)
  PROVE  /\ t.heap[d].prefix \in Address /\ d \in DOMAIN t.heap
         /\ t.heap[d].bit = Len(d) /\ Len(d) \in 0..MaxBits
         /\ d = Masked(t.heap[d].prefix, Len(d))
         /\ \A i \in 1..Len(d) : d[i] = t.heap[d].prefix[i]
<1>1. /\ t.heap[d].prefix \in Address /\ d \in DOMAIN t.heap
      /\ t.heap[d].bit = Len(d) /\ d = Masked(t.heap[d].prefix, Len(d))
  BY DEF TreeOk, Typed, Marked, Stored, NodeRecord
<1>2. Len(d) \in 0..MaxBits
  BY <1>1, TreeNodes DEF Bits
<1>3. \A i \in 1..Len(d) : Masked(t.heap[d].prefix, Len(d))[i] = t.heap[d].prefix[i]
  BY <1>1, <1>2, MaskedBits
<1> QED  BY <1>1, <1>2, <1>3

\* What the place of a key says about the nodes: the bits before the differing one
\* cover the node climbed to but not its parent, and no node has more in common
\* with the key.
Fits(t, key, test, differ, p) ==
  /\ test \in Address /\ differ \in 0..key.len
  /\ p \in DOMAIN t.heap
  /\ Covers(Masked(key.addr, differ), p)
  /\ Ups(t)[p] # Null => StrictlyCovers(Ups(t)[p], Masked(key.addr, differ))
  /\ \A i \in 1..Len(p) : p[i] = test[i]
  /\ differ < key.len /\ differ < Len(p) => p[differ + 1] # key.addr[differ + 1]
  /\ \A m \in 0..key.len : \A q \in DOMAIN t.heap :
       Covers(Masked(key.addr, m), q) => m <= differ

\* The place that patricia_lookup finds fits the key.
LEMMA Placed ==
  ASSUME NEW t, TreeOk(t), t.head # Null, NEW key \in Key
  PROVE  Fits(t, key, Place(t, key).test, Place(t, key).differ, Place(t, key).at)
<1> DEFINE N == DOMAIN t.heap
           a == key.addr
           d == Descend(t, key)
           test == t.heap[d].prefix
           k == Min({t.heap[d].bit, key.len})
           n == DifferBit(a, test, k)
           p == Climb(t, d, n)
           M == Masked(a, n)
<1>1. Place(t, key).test = test /\ Place(t, key).differ = n /\ Place(t, key).at = p
  BY DEF Place
<1>2. a \in Address /\ key.len \in 0..MaxBits /\ MaxBits \in Nat
  BY MaxBitsAssumption DEF Key
<1>3. d \in Stored(t)
  BY Descended
<1>4. /\ test \in Address /\ d \in N /\ t.heap[d].bit = Len(d) /\ Len(d) \in 0..MaxBits
      /\ d = Masked(test, Len(d)) /\ d \in Seq(Bit) /\ \A i \in 1..Len(d) : d[i] = test[i]
  BY <1>3, StoredBits, TreeNodes
<1>5. \A m \in 0..key.len : \A q \in N : Covers(Masked(a, m), q) => Covers(Masked(a, m), d)
  BY Descended
<1> HIDE DEF d, test
<1>6. k \in 0..MaxBits /\ k <= key.len /\ k <= Len(d) /\ (k = key.len \/ k = Len(d))
  <2>1. {t.heap[d].bit, key.len} \in SUBSET Nat
    BY <1>2, <1>4
  <2>2. k \in {t.heap[d].bit, key.len} /\ \A i \in {t.heap[d].bit, key.len} : k <= i
    BY <2>1, MinIs
  <2> QED  BY <1>2, <1>4, <2>2
<1> HIDE DEF k
<1>7. /\ n \in 0..k /\ M = Masked(test, n) /\ \A i \in 1..n : a[i] = test[i]
      /\ n < k => a[n + 1] # test[n + 1]
  BY <1>2, <1>4, <1>6, Differs
<1> HIDE DEF n
<1>8. n \in 0..MaxBits /\ n <= Len(d) /\ n <= key.len
  BY <1>2, <1>4, <1>6, <1>7
<1>9. M \in Seq(Bit) /\ Len(M) = n
  BY <1>2, <1>8, MaskedBits DEF Bits
<1>10. Covers(M, d)
  <2>1. \A m \in 0..Len(d) : Covers(Masked(test, m), Masked(test, Len(d)))
    BY <1>4, MaskedBits
  <2> QED  BY <1>4, <1>7, <1>8, <2>1
<1>11. p \in N /\ Covers(p, d) /\ (p = d \/ Len(p) >= n) /\ ~GoesUp(t, n, p)
  BY <1>4, <1>8, Climbed
<1> HIDE DEF p, M
<1>12. p \in Seq(Bit) /\ Len(p) \in 0..Len(d) /\ \A i \in 1..Len(p) : p[i] = test[i]
  <2>1. p \in Seq(Bit) /\ Len(p) <= Len(d) /\ \A i \in 1..Len(p) : p[i] = d[i]
    BY <1>4, <1>11, TreeNodes, CoversBits
  <2> QED  BY <1>4, <2>1
<1>13. Covers(M, p)
  <2>1. Len(p) >= n
    BY <1>8, <1>11
  <2> QED  BY <1>4, <1>9, <1>10, <1>11, <1>12, <2>1, CoversComparable
<1>14. ASSUME Ups(t)[p] # Null PROVE StrictlyCovers(Ups(t)[p], M)
  <2> DEFINE q == Ups(t)[p]
  <2>1. q \in N /\ StrictlyCovers(q, p) /\ q \in Seq(Bit) /\ ~(Len(q) >= n)
    BY <1>11, <1>14, TreeNodes DEF UpLinked, GoesUp
  <2> HIDE DEF q
  <2>2. Covers(q, M)
    BY <1>8, <1>9, <1>12, <1>13, <2>1, CoversComparable DEF StrictlyCovers
  <2>3. q # M
    BY <1>8, <1>9, <2>1
  <2> QED  BY <2>2, <2>3 DEF StrictlyCovers, q
<1>15. ASSUME n < key.len, n < Len(p) PROVE p[n + 1] # a[n + 1]
  <2>1. n < k /\ n + 1 \in 1..Len(p)
    BY <1>6, <1>8, <1>12, <1>15
  <2> QED  BY <1>7, <1>12, <2>1
<1>16. ASSUME NEW m \in 0..key.len, NEW q \in N, Covers(Masked(a, m), q) PROVE m <= n
  <2>1. m \in 0..MaxBits /\ Covers(Masked(a, m), d)
    BY <1>2, <1>5, <1>16
  <2>2. /\ Masked(a, m) \in Seq(Bit) /\ Len(Masked(a, m)) = m
        /\ \A i \in 1..m : Masked(a, m)[i] = a[i]
    BY <1>2, <2>1, MaskedBits DEF Bits
  <2>3. m <= Len(d) /\ \A i \in 1..m : Masked(a, m)[i] = d[i]
    BY <1>4, <2>1, <2>2, CoversBits
  <2> SUFFICES ASSUME n < m PROVE FALSE
    BY <1>8
  <2>4. n < k /\ n + 1 \in 1..m /\ n + 1 \in 1..Len(d)
    BY <1>4, <1>6, <1>8, <2>3
  <2>5. a[n + 1] = d[n + 1]
    BY <2>2, <2>3, <2>4
  <2>6. d[n + 1] = test[n + 1]
    BY <1>4, <2>4
  <2> QED  BY <1>7, <2>4, <2>5, <2>6
<1>17. n \in 0..key.len
  BY <1>2, <1>8
<1> QED  BY <1>1, <1>4, <1>11, <1>12, <1>13, <1>14, <1>15, <1>16, <1>17 DEF Fits, M

\* No assertion of a lookup can fail.
LEMMA LookupSafe ==
  ASSUME NEW t, TreeOk(t), NEW key \in Key
  PROVE  LookupAsserts(t, key)
<1> SUFFICES ASSUME t.head # Null PROVE LookupAsserts(t, key)
  BY DEF LookupAsserts
<1> DEFINE N == DOMAIN t.heap
           pl == Place(t, key)
           n == t.heap[pl.at]
           new == PrefixOf(key)
           glue == Masked(key.addr, pl.differ)
<1>1. Fits(t, key, pl.test, pl.differ, pl.at)
  BY Placed
<1>2. key.addr \in Address /\ key.len \in 0..MaxBits /\ MaxBits \in Nat
  BY MaxBitsAssumption DEF Key
<1> HIDE DEF pl
<1>3. pl.differ \in 0..key.len /\ pl.at \in N /\ Covers(glue, pl.at)
  BY <1>1 DEF Fits
<1>4. /\ glue \in Seq(Bit) /\ Len(glue) = pl.differ /\ new \in Seq(Bit) /\ Len(new) = key.len
      /\ pl.at \in Seq(Bit) /\ n.bit = Len(pl.at) /\ Len(pl.at) >= pl.differ
  <2>1. pl.differ \in 0..MaxBits
    BY <1>2, <1>3
  <2>2. /\ glue \in Seq(Bit) /\ Len(glue) = pl.differ /\ new \in Seq(Bit) /\ Len(new) = key.len
    BY <1>2, <2>1, MaskedBits DEF PrefixOf, Bits
  <2>3. pl.at \in Seq(Bit) /\ n.bit = Len(pl.at)
    BY <1>3, TreeNodes DEF TreeOk, Marked
  <2> QED  BY <1>3, <2>2, <2>3, CoversLonger
<1>5. ASSUME pl.differ # key.len PROVE new \notin N
  <2> SUFFICES ASSUME new \in N PROVE FALSE
    OBVIOUS
  <2>1. key.len \in 0..key.len /\ Covers(new, new)
    BY <1>2, <1>4, CoversItself
  <2>2. key.len <= pl.differ
    BY <1>1, <2>1 DEF Fits, PrefixOf
  <2> QED  BY <1>2, <1>3, <1>5, <2>2
<1>6. ASSUME Len(pl.at) # pl.differ PROVE glue \notin N
  <2> SUFFICES ASSUME glue \in N PROVE FALSE
    OBVIOUS
  <2>1. StrictlyCovers(glue, pl.at)
    BY <1>3, <1>4, <1>6 DEF StrictlyCovers
  <2>2. Ups(t)[pl.at] # Null /\ Covers(glue, Ups(t)[pl.at]) /\ Ups(t)[pl.at] \in N
    BY <1>3, <2>1, TreeNodes DEF UpLinked
  <2>3. StrictlyCovers(Ups(t)[pl.at], glue)
    BY <1>1, <2>2 DEF Fits
  <2> QED  BY <1>4, <2>2, <2>3, TreeNodes, CoversBoth DEF StrictlyCovers
<1>7. ASSUME Len(pl.at) = pl.differ, pl.differ # key.len PROVE Child(n, key.addr) = Null
  <2> DEFINE b == Side(pl.at, key.addr)
             c == Kids(t)[pl.at][b]
             M == Masked(key.addr, pl.differ + 1)
  <2>1. Child(n, key.addr) = c /\ b \in Bit
    BY <1>2, <1>3, ChildIs
  <2> SUFFICES ASSUME c # Null PROVE FALSE
    BY <2>1
  <2>2. c \in N /\ c \in Seq(Bit) /\ Below(pl.at, b, c)
    BY <1>3, <2>1, TreeNodes DEF KidLinked
  <2>3. pl.differ + 1 \in 0..key.len /\ pl.differ + 1 \in 0..MaxBits
    BY <1>2, <1>3, <1>7
  <2>4. /\ M \in Seq(Bit) /\ Len(M) = pl.differ + 1
        /\ \A i \in 1..pl.differ + 1 : M[i] = key.addr[i]
        /\ \A i \in 1..pl.differ : glue[i] = key.addr[i]
    BY <1>2, <1>3, <2>3, MaskedBits, pl.differ \in 0..MaxBits DEF Bits
  <2>5. pl.at = glue
    <3>1. Covers(pl.at, glue)
      BY <1>3, <1>4, <1>7, CoversItself, CoversComparable
    <3> QED  BY <1>3, <1>4, <3>1, CoversBoth
  <2>6. c[pl.differ + 1] = key.addr[pl.differ + 1] /\ Len(c) >= pl.differ + 1
    <3>1. c[pl.differ + 1] = b /\ Len(c) > pl.differ
      BY <1>4, <1>7, <2>2, CoversLonger DEF Below
    <3>2. b = key.addr[pl.differ + 1]
      BY <1>2, <1>7, <2>3 DEF Side, Address
    <3> QED  BY <1>2, <1>3, <2>2, <3>1, <3>2
  <2>7. \A i \in 1..pl.differ : c[i] = key.addr[i]
    <3>1. \A i \in 1..Len(pl.at) : pl.at[i] = c[i]
      BY <1>4, <2>2, CoversBits DEF Below, StrictlyCovers
    <3> QED  BY <1>7, <2>4, <2>5, <3>1
  <2> HIDE DEF c
  <2>8. Covers(M, c)
    <3>1. \A i \in 1..pl.differ + 1 : M[i] = c[i]
      BY <1>2, <1>3, <2>4, <2>6, <2>7
    <3> QED  BY <2>2, <2>4, <2>6, <3>1, CoversBits
  <2>9. pl.differ + 1 <= pl.differ
    BY <1>1, <2>2, <2>3, <2>8 DEF Fits
  <2> QED  BY <1>2, <1>3, <2>9
<1>8. t.heap[Descend(t, key)].prefix # Null
  BY Descended DEF Stored
<1>9. n.prefix = Null => n.data = "null"
  BY <1>3 DEF TreeOk, Marked
<1>10. n.parent = Null => t.head = pl.at
  BY <1>3, TreeNodes DEF UpLinked, Ups
<1>11. pl.differ = key.len => glue = new
  BY DEF PrefixOf
<1>12. ~(pl.differ = key.len /\ n.bit = key.len) => new \notin N
  BY <1>4, <1>5, <1>6, <1>11
<1> QED  BY <1>4, <1>5, <1>6, <1>7, <1>8, <1>9, <1>10, <1>12 DEF LookupAsserts, pl

-----------------------------------------------------------------------------
(* Steps of a call.                                                        *)

\* The child of a node record on a side.
Kid(n, b) == IF b = 1 THEN n.r ELSE n.l

\* Two node records for the same prefix.
SameEntry(n, m) == n.bit = m.bit /\ n.prefix = m.prefix /\ n.data = m.data

\* One node is changed, and becomes n.
Edited(t, u, p, n) ==
  /\ Typed(u)
  /\ DOMAIN u.heap = DOMAIN t.heap /\ u.head = t.head /\ u.active = t.active
  /\ u.heap[p] = n
  /\ \A x \in DOMAIN t.heap \ {p} : u.heap[x] = t.heap[x]

\* A node record is replaced.
LEMMA Edit ==
  ASSUME NEW t, Typed(t), NEW p \in DOMAIN t.heap, NEW n \in NodeRecord
  PROVE  Edited(t, [t EXCEPT !.heap[p] = n], p, n)
<1> DEFINE u == [t EXCEPT !.heap[p] = n]
           H == [t.heap EXCEPT ![p] = n]
<1>1. u = [head |-> t.head, heap |-> H, active |-> t.active]
  BY DEF Typed
<1>2. H \in [DOMAIN t.heap -> NodeRecord]
  BY DEF Typed
<1> HIDE DEF u
<1>3. u.heap = H /\ u.head = t.head /\ u.active = t.active
  BY <1>1
<1>4. Typed(u)
  BY <1>1, <1>2, <1>3 DEF Typed
<1> QED  BY <1>2, <1>3, <1>4 DEF Edited, u

\* The changes of one field.
LEMMA EditParent ==
  ASSUME NEW t, Typed(t), NEW p \in DOMAIN t.heap, NEW v \in Bits \cup {Null}
  PROVE  \E n \in NodeRecord : /\ Edited(t, [t EXCEPT !.heap[p].parent = v], p, n)
                               /\ SameEntry(n, t.heap[p]) /\ n.parent = v
                               /\ \A b \in Bit : Kid(n, b) = Kid(t.heap[p], b)
<1> DEFINE m == t.heap[p]
           n == [m EXCEPT !.parent = v]
<1>1. m \in NodeRecord
  BY DEF Typed
<1>2. [t EXCEPT !.heap[p].parent = v] = [t EXCEPT !.heap[p] = n]
  BY DEF Typed
<1> HIDE DEF m
<1>3. /\ n \in NodeRecord /\ n.bit = m.bit /\ n.prefix = m.prefix /\ n.data = m.data
      /\ n.parent = v /\ n.l = m.l /\ n.r = m.r
  BY <1>1 DEF NodeRecord
<1> HIDE DEF n
<1>4. Edited(t, [t EXCEPT !.heap[p] = n], p, n)
  BY <1>3, Edit
<1> QED  BY <1>2, <1>3, <1>4 DEF SameEntry, Kid, m

\* A right child is set.
LEMMA EditRight ==
  ASSUME NEW t, Typed(t), NEW p \in DOMAIN t.heap, NEW v \in Bits \cup {Null}
  PROVE  \E n \in NodeRecord : /\ Edited(t, [t EXCEPT !.heap[p].r = v], p, n)
                               /\ SameEntry(n, t.heap[p]) /\ n.parent = t.heap[p].parent
                               /\ n.r = v /\ n.l = t.heap[p].l
<1> DEFINE m == t.heap[p]
           n == [m EXCEPT !.r = v]
<1>1. m \in NodeRecord
  BY DEF Typed
<1>2. [t EXCEPT !.heap[p].r = v] = [t EXCEPT !.heap[p] = n]
  BY DEF Typed
<1> HIDE DEF m
<1>3. /\ n \in NodeRecord /\ n.bit = m.bit /\ n.prefix = m.prefix /\ n.data = m.data
      /\ n.parent = m.parent /\ n.l = m.l /\ n.r = v
  BY <1>1 DEF NodeRecord
<1> HIDE DEF n
<1>4. Edited(t, [t EXCEPT !.heap[p] = n], p, n)
  BY <1>3, Edit
<1> QED  BY <1>2, <1>3, <1>4 DEF SameEntry, m

\* A left child is set.
LEMMA EditLeft ==
  ASSUME NEW t, Typed(t), NEW p \in DOMAIN t.heap, NEW v \in Bits \cup {Null}
  PROVE  \E n \in NodeRecord : /\ Edited(t, [t EXCEPT !.heap[p].l = v], p, n)
                               /\ SameEntry(n, t.heap[p]) /\ n.parent = t.heap[p].parent
                               /\ n.l = v /\ n.r = t.heap[p].r
<1> DEFINE m == t.heap[p]
           n == [m EXCEPT !.l = v]
<1>1. m \in NodeRecord
  BY DEF Typed
<1>2. [t EXCEPT !.heap[p].l = v] = [t EXCEPT !.heap[p] = n]
  BY DEF Typed
<1> HIDE DEF m
<1>3. /\ n \in NodeRecord /\ n.bit = m.bit /\ n.prefix = m.prefix /\ n.data = m.data
      /\ n.parent = m.parent /\ n.l = v /\ n.r = m.r
  BY <1>1 DEF NodeRecord
<1> HIDE DEF n
<1>4. Edited(t, [t EXCEPT !.heap[p] = n], p, n)
  BY <1>3, Edit
<1> QED  BY <1>2, <1>3, <1>4 DEF SameEntry, m

\* The head is set.
LEMMA EditHead ==
  ASSUME NEW t, Typed(t), NEW v
  PROVE  /\ Typed([t EXCEPT !.head = v])
         /\ [t EXCEPT !.head = v].head = v
         /\ [t EXCEPT !.head = v].heap = t.heap
         /\ [t EXCEPT !.head = v].active = t.active
<1> DEFINE u == [t EXCEPT !.head = v]
<1>1. u = [head |-> v, heap |-> t.heap, active |-> t.active]
  BY DEF Typed
<1> HIDE DEF u
<1>2. u.head = v /\ u.heap = t.heap /\ u.active = t.active
  BY <1>1
<1>3. Typed(u)
  BY <1>1, <1>2 DEF Typed
<1> QED  BY <1>2, <1>3 DEF u

\* A record with two fields replaced.
LEMMA EditHeap ==
  ASSUME NEW t, Typed(t), NEW H, NEW a
  PROVE  [t EXCEPT !.heap = H, !.active = a] = [head |-> t.head, heap |-> H, active |-> a]
<1>1. t = [head |-> t.head, heap |-> t.heap, active |-> t.active]
  BY DEF Typed
<1>2. [t EXCEPT !.heap = H, !.active = a] = [[t EXCEPT !.heap = H] EXCEPT !.active = a]
  BY <1>1
<1>3. \A h, b, r : r = [head |-> h, heap |-> H, active |-> b]
                  => [r EXCEPT !.active = a] = [head |-> h, heap |-> H, active |-> a]
  OBVIOUS
<1>4. [t EXCEPT !.heap = H] = [head |-> t.head, heap |-> H, active |-> t.active]
  BY <1>1
<1> QED  BY <1>2, <1>3, <1>4

\* A node comes, or goes.
LEMMA Allocated ==
  ASSUME NEW t, Typed(t), NEW p, NEW n \in NodeRecord
  PROVE  LET u == Allocate(t, p, n)
         IN /\ Typed(u)
            /\ DOMAIN u.heap = DOMAIN t.heap \cup {p}
            /\ u.head = t.head /\ u.active = t.active + 1
            /\ u.heap[p] = n
            /\ \A x \in DOMAIN t.heap \ {p} : u.heap[x] = t.heap[x]
<1> DEFINE u == Allocate(t, p, n)
           H == [x \in DOMAIN t.heap \cup {p} |-> IF x = p THEN n ELSE t.heap[x]]
<1>1. u = [head |-> t.head, heap |-> H, active |-> t.active + 1]
  <2>1. u = [t EXCEPT !.heap = H, !.active = t.active + 1]
    BY DEF Allocate
  <2> QED  BY <2>1, EditHeap
<1>2. H \in [DOMAIN t.heap \cup {p} -> NodeRecord]
  BY DEF Typed
<1> HIDE DEF u
<1>3. u.heap = H /\ u.head = t.head /\ u.active = t.active + 1
  BY <1>1
<1>4. Typed(u)
  BY <1>1, <1>2, <1>3 DEF Typed
<1> QED  BY <1>2, <1>3, <1>4 DEF u

\* A node is freed.
LEMMA Freed ==
  ASSUME NEW t, Typed(t), NEW p
  PROVE  LET u == Free(t, p)
         IN /\ Typed(u)
            /\ DOMAIN u.heap = DOMAIN t.heap \ {p}
            /\ u.head = t.head /\ u.active = t.active - 1
            /\ \A x \in DOMAIN t.heap \ {p} : u.heap[x] = t.heap[x]
<1> DEFINE u == Free(t, p)
           H == [x \in DOMAIN t.heap \ {p} |-> t.heap[x]]
<1>1. u = [head |-> t.head, heap |-> H, active |-> t.active - 1]
  <2>1. u = [t EXCEPT !.heap = H, !.active = t.active - 1]
    BY DEF Free, Restrict
  <2> QED  BY <2>1, EditHeap
<1>2. H \in [DOMAIN t.heap \ {p} -> NodeRecord]
  BY DEF Typed
<1> HIDE DEF u
<1>3. u.heap = H /\ u.head = t.head /\ u.active = t.active - 1
  BY <1>1
<1>4. Typed(u)
  BY <1>1, <1>2, <1>3 DEF Typed
<1> QED  BY <1>2, <1>3, <1>4 DEF u

\* What a new node's record is, ...
LEMMA NewNodeIs ==
  ASSUME NEW bit \in Nat, NEW prefix, prefix \in Address \/ prefix = Null,
         NEW parent \in Bits \cup {Null}
  PROVE  LET n == NewNode(bit, prefix, parent)
         IN /\ n \in NodeRecord /\ n.bit = bit /\ n.prefix = prefix /\ n.data = "null"
            /\ n.parent = parent /\ n.l = Null /\ n.r = Null
  BY DEF NewNode, NodeRecord

Inner(n, l, r) == [n EXCEPT !.l = l, !.r = r]

\* ... and that of one with children.
LEMMA NewInner ==
  ASSUME NEW n \in NodeRecord, NEW l \in Bits \cup {Null}, NEW r \in Bits \cup {Null}
  PROVE  LET m == Inner(n, l, r)
         IN m \in NodeRecord /\ SameEntry(n, m) /\ m.parent = n.parent /\ m.l = l /\ m.r = r
<1> DEFINE m == Inner(n, l, r)
<1>1. /\ m \in NodeRecord /\ m.bit = n.bit /\ m.prefix = n.prefix /\ m.data = n.data
      /\ m.parent = n.parent /\ m.l = l /\ m.r = r
  BY DEF NodeRecord, Inner
<1> HIDE DEF m
<1> QED  BY <1>1 DEF SameEntry, m

\* What pointed to p in a linked tree, and to nothing else, points to v.
LEMMA Relinked ==
  ASSUME NEW t, Typed(t), Shaped(t), NEW p \in DOMAIN t.heap,
         NEW s, Typed(s), DOMAIN t.heap \subseteq DOMAIN s.heap, s.head = t.head,
         \A x \in DOMAIN t.heap : s.heap[x] = t.heap[x],
         NEW v \in Bits \cup {Null}
  PROVE  LET u == Relink(s, p, v)
         IN /\ Typed(u)
            /\ DOMAIN u.heap = DOMAIN s.heap /\ u.active = s.active
            /\ u.head = IF t.head = p THEN v ELSE t.head
            /\ \A x \in DOMAIN t.heap :
                 /\ SameEntry(u.heap[x], t.heap[x]) /\ u.heap[x].parent = t.heap[x].parent
                 /\ \A b \in Bit : Kid(u.heap[x], b) =
                      IF Kid(t.heap[x], b) = p THEN v ELSE Kid(t.heap[x], b)
            /\ \A x \in DOMAIN s.heap \ DOMAIN t.heap : u.heap[x] = s.heap[x]
<1> DEFINE N == DOMAIN t.heap
           K == Kids(t)
           U == Ups(t)
           u == Relink(s, p, v)
           q == t.heap[p].parent
<1>1. Linked(N, t.head, K, U)
  BY DEF Shaped
<1>2. /\ q = Null <=> t.head = p
      /\ q # Null => \E b \in Bit : Below(q, b, p) /\ K[q][b] = p
      /\ \A x \in N : \A b \in Bit : K[x][b] = p => x = q /\ Below(x, b, p)
  <2>1. U[p] = q
    BY DEF Ups
  <2> HIDE DEF K, U, q
  <2>2. /\ U[p] = Null <=> t.head = p
        /\ U[p] # Null => \E b \in Bit : Below(U[p], b, p) /\ K[U[p]][b] = p
        /\ \A x \in N : \A b \in Bit : K[x][b] = p => x = U[p] /\ Below(x, b, p)
    BY <1>1, BothWays
  <2> QED  BY <2>1, <2>2
<1>3. /\ \A x \in N : \A b \in Bit : K[x][b] = Kid(t.heap[x], b)
      /\ q # Null => q \in N
  <2>1. q = U[p]
    BY DEF Ups
  <2> QED  BY <1>1, <2>1 DEF Linked, UpLinked, Kids, Kid
<1>4. s.heap[p].parent = q
  OBVIOUS
<1> HIDE DEF K, U, q
<1>5. CASE q = Null
  <2>1. u = [s EXCEPT !.head = v]
    BY <1>4, <1>5 DEF Relink
  <2>2. /\ Typed(u) /\ u.head = v /\ u.heap = s.heap /\ u.active = s.active
    BY <2>1, EditHead
  <2>3. t.head = p
    BY <1>2, <1>5
  <2>4. \A x \in N : \A b \in Bit : Kid(t.heap[x], b) # p
    <3> SUFFICES ASSUME NEW x \in N, NEW b \in Bit, Kid(t.heap[x], b) = p PROVE FALSE
      OBVIOUS
    <3>1. x = Null
      BY <1>2, <1>3, <1>5
    <3> QED  BY <1>1, <3>1, NullIsNoNode DEF Linked, Bits
  <2> HIDE DEF u
  <2> QED  BY <2>2, <2>3, <2>4 DEF SameEntry, u
<1>6. CASE q # Null
  <2>1. q \in N /\ s.heap[q] = t.heap[q] /\ q \in DOMAIN s.heap /\ t.head # p
    BY <1>2, <1>3, <1>6
  <2>2. PICK b \in Bit : Below(q, b, p) /\ K[q][b] = p
    BY <1>2, <1>6
  <2>3. \A x \in N : \A c \in Bit : Kid(t.heap[x], c) = p <=> x = q /\ c = b
    BY <1>2, <1>3, <2>1, <2>2 DEF Below
  <2> DEFINE C(n) == /\ SameEntry(n, t.heap[q]) /\ n.parent = t.heap[q].parent
                     /\ \A c \in Bit : Kid(n, c) = IF c = b THEN v ELSE Kid(t.heap[q], c)
  <2>4. \E n \in NodeRecord : Edited(s, u, q, n) /\ C(n)
    <3>1. CASE b = 1
      <4>1. t.heap[q].r = p
        BY <2>1, <2>3, <3>1 DEF Kid, Bit
      <4>2. u = [s EXCEPT !.heap[q].r = v]
        BY <1>4, <1>6, <2>1, <4>1 DEF Relink
      <4>3. PICK n \in NodeRecord : /\ Edited(s, [s EXCEPT !.heap[q].r = v], q, n)
                                    /\ SameEntry(n, s.heap[q]) /\ n.parent = s.heap[q].parent
                                    /\ n.r = v /\ n.l = s.heap[q].l
        BY <2>1, EditRight
      <4>4. C(n)
        BY <2>1, <3>1, <4>3 DEF Kid, Bit
      <4> QED  BY <4>2, <4>3, <4>4
    <3>2. CASE b = 0
      <4>1. t.heap[q].r # p
        BY <2>1, <2>3, <3>2 DEF Kid, Bit
      <4>2. u = [s EXCEPT !.heap[q].l = v]
        BY <1>4, <1>6, <2>1, <4>1 DEF Relink
      <4>3. PICK n \in NodeRecord : /\ Edited(s, [s EXCEPT !.heap[q].l = v], q, n)
                                    /\ SameEntry(n, s.heap[q]) /\ n.parent = s.heap[q].parent
                                    /\ n.l = v /\ n.r = s.heap[q].r
        BY <2>1, EditLeft
      <4>4. C(n)
        BY <2>1, <3>2, <4>3 DEF Kid, Bit
      <4> QED  BY <4>2, <4>3, <4>4
    <3> QED  BY <3>1, <3>2 DEF Bit
  <2>5. PICK n \in NodeRecord : Edited(s, u, q, n) /\ C(n)
    BY <2>4
  <2> HIDE DEF u
  <2>6. /\ Typed(u) /\ DOMAIN u.heap = DOMAIN s.heap /\ u.head = t.head /\ u.active = s.active
        /\ u.heap[q] = n /\ \A x \in DOMAIN s.heap \ {q} : u.heap[x] = s.heap[x]
    BY <2>5 DEF Edited
  <2>7. ASSUME NEW x \in N
        PROVE  /\ SameEntry(u.heap[x], t.heap[x]) /\ u.heap[x].parent = t.heap[x].parent
               /\ \A c \in Bit : Kid(u.heap[x], c) =
                    IF Kid(t.heap[x], c) = p THEN v ELSE Kid(t.heap[x], c)
    <3>1. CASE x = q
      <4>1. C(u.heap[x])
        BY <2>5, <2>6, <3>1
      <4> QED  BY <2>3, <3>1, <4>1
    <3>2. CASE x # q
      <4>1. u.heap[x] = t.heap[x]
        BY <2>6, <3>2
      <4> QED  BY <2>3, <3>2, <4>1 DEF SameEntry
    <3> QED  BY <3>1, <3>2
  <2> QED  BY <2>1, <2>6, <2>7 DEF u
<1> QED  BY <1>5, <1>6

\* A new node v takes the place of p, and p goes below it.
Above(s, p, v) == [Relink(s, p, v) EXCEPT !.heap[p].parent = v]

\* What points to what after that.
LEMMA PutAbove ==
  ASSUME NEW t, Typed(t), Shaped(t), NEW p \in DOMAIN t.heap,
         NEW s, Typed(s), DOMAIN t.heap \subseteq DOMAIN s.heap, s.head = t.head,
         \A x \in DOMAIN t.heap : s.heap[x] = t.heap[x],
         NEW v \in Bits
  PROVE  LET u == Above(s, p, v)
         IN /\ Typed(u)
            /\ DOMAIN u.heap = DOMAIN s.heap /\ u.active = s.active
            /\ u.head = IF t.head = p THEN v ELSE t.head
            /\ \A x \in DOMAIN t.heap :
                 /\ SameEntry(u.heap[x], t.heap[x])
                 /\ u.heap[x].parent = IF x = p THEN v ELSE t.heap[x].parent
                 /\ \A b \in Bit : Kid(u.heap[x], b) =
                      IF Kid(t.heap[x], b) = p THEN v ELSE Kid(t.heap[x], b)
            /\ \A x \in DOMAIN s.heap \ DOMAIN t.heap : u.heap[x] = s.heap[x]
<1> DEFINE r == Relink(s, p, v)
           u == Above(s, p, v)
<1>1. /\ Typed(r)
      /\ DOMAIN r.heap = DOMAIN s.heap /\ r.active = s.active
      /\ r.head = IF t.head = p THEN v ELSE t.head
      /\ \A x \in DOMAIN t.heap :
           /\ SameEntry(r.heap[x], t.heap[x]) /\ r.heap[x].parent = t.heap[x].parent
           /\ \A b \in Bit : Kid(r.heap[x], b) =
                IF Kid(t.heap[x], b) = p THEN v ELSE Kid(t.heap[x], b)
      /\ \A x \in DOMAIN s.heap \ DOMAIN t.heap : r.heap[x] = s.heap[x]
  BY Relinked
<1> HIDE DEF r
<1>2. Typed(r) /\ p \in DOMAIN r.heap /\ v \in Bits \cup {Null}
  BY <1>1
<1>3. PICK n \in NodeRecord : /\ Edited(r, [r EXCEPT !.heap[p].parent = v], p, n)
                              /\ SameEntry(n, r.heap[p]) /\ n.parent = v
                              /\ \A b \in Bit : Kid(n, b) = Kid(r.heap[p], b)
  BY <1>2, EditParent
<1>4. /\ Typed(u)
      /\ DOMAIN u.heap = DOMAIN r.heap /\ u.head = r.head /\ u.active = r.active
      /\ u.heap[p] = n
      /\ \A x \in DOMAIN r.heap \ {p} : u.heap[x] = r.heap[x]
  <2>1. u = [r EXCEPT !.heap[p].parent = v]
    BY DEF Above, r
  <2> QED  BY <1>3, <2>1 DEF Edited
<1> HIDE DEF u
<1>5. ASSUME NEW x \in DOMAIN t.heap
      PROVE  /\ SameEntry(u.heap[x], t.heap[x])
             /\ u.heap[x].parent = IF x = p THEN v ELSE t.heap[x].parent
             /\ \A b \in Bit : Kid(u.heap[x], b) =
                  IF Kid(t.heap[x], b) = p THEN v ELSE Kid(t.heap[x], b)
  <2>1. CASE x = p
    BY <1>1, <1>3, <1>4, <2>1 DEF SameEntry
  <2>2. CASE x # p
    BY <1>1, <1>4, <2>2
  <2> QED  BY <2>1, <2>2
<1>6. \A x \in DOMAIN s.heap \ DOMAIN t.heap : u.heap[x] = s.heap[x]
  BY <1>1, <1>4
<1> QED  BY <1>1, <1>4, <1>5, <1>6 DEF u, r

\* The links of a tree are those of its node records.
LEMMA LinksAre ==
  ASSUME NEW t
  PROVE  \A x \in DOMAIN t.heap : /\ Ups(t)[x] = t.heap[x].parent
                                  /\ \A b \in Bit : Kids(t)[x][b] = Kid(t.heap[x], b)
  BY DEF Kids, Ups, Kid

\* A tree with the links of another is linked.
LEMMA SameLinks ==
  ASSUME NEW t, Shaped(t), NEW u, DOMAIN u.heap = DOMAIN t.heap, u.head = t.head,
         \A x \in DOMAIN t.heap : /\ u.heap[x].parent = t.heap[x].parent
                                  /\ u.heap[x].l = t.heap[x].l /\ u.heap[x].r = t.heap[x].r
  PROVE  Shaped(u) /\ Kids(u) = Kids(t)
<1>1. Kids(u) = Kids(t)
  BY DEF Kids
<1>2. Ups(u) = Ups(t)
  BY DEF Ups
<1> QED  BY <1>1, <1>2 DEF Shaped

\* The count of the nodes.
LEMMA OneMore ==
  ASSUME NEW t, Counted(t), NEW p, p \notin DOMAIN t.heap, NEW u,
         DOMAIN u.heap = DOMAIN t.heap \cup {p}, u.active = t.active + 1
  PROVE  Counted(u)
<1>1. IsFiniteSet(DOMAIN t.heap) /\ t.active = Cardinality(DOMAIN t.heap)
  BY DEF Counted
<1>2. /\ IsFiniteSet(DOMAIN t.heap \cup {p})
      /\ Cardinality(DOMAIN t.heap \cup {p}) = Cardinality(DOMAIN t.heap) + 1
  BY <1>1, FS_AddElement
<1> QED  BY <1>1, <1>2 DEF Counted

\* One node less, one less counted.
LEMMA OneLess ==
  ASSUME NEW t, Counted(t), NEW p \in DOMAIN t.heap, NEW u,
         DOMAIN u.heap = DOMAIN t.heap \ {p}, u.active = t.active - 1
  PROVE  Counted(u)
<1>1. IsFiniteSet(DOMAIN t.heap) /\ t.active = Cardinality(DOMAIN t.heap)
  BY DEF Counted
<1>2. /\ IsFiniteSet(DOMAIN t.heap \ {p})
      /\ Cardinality(DOMAIN t.heap \ {p}) = Cardinality(DOMAIN t.heap) - 1
  BY <1>1, FS_RemoveElement
<1> QED  BY <1>1, <1>2 DEF Counted

-----------------------------------------------------------------------------
(* patricia_lookup.                                                        *)

\* What patricia_lookup leaves: a tree with a node stored for the key, and what
\* was there.
Grown(t, u, key) ==
  /\ TreeOk(u)
  /\ DOMAIN t.heap \subseteq DOMAIN u.heap
  /\ DOMAIN u.heap \subseteq DOMAIN t.heap \cup {Masked(key.addr, m) : m \in 0..key.len}
  /\ Stored(u) = Stored(t) \cup {PrefixOf(key)}
  /\ \A x \in DOMAIN u.heap :
       u.heap[x].data = IF x \in DOMAIN t.heap THEN t.heap[x].data ELSE "null"

\* The first node.
LEMMA FirstNode ==
  ASSUME NEW t, TreeOk(t), t.head = Null, NEW key \in Key
  PROVE  Grown(t, patricia_lookup(t, key), key)
<1> DEFINE k == PrefixOf(key)
           n == NewNode(key.len, key.addr, Null)
           s == Allocate(t, k, n)
           u == [s EXCEPT !.head = k]
<1>1. patricia_lookup(t, key) = u
  BY DEF patricia_lookup
<1>2. key.addr \in Address /\ key.len \in 0..MaxBits /\ key.len \in Nat /\ MaxBits \in Nat
  BY MaxBitsAssumption DEF Key
<1>3. k \in Bits /\ Len(k) = key.len /\ k = Masked(key.addr, key.len) /\ k # Null
  BY <1>2, MaskedBits, NullIsNoNode DEF PrefixOf, Bits
<1> HIDE DEF k
<1>4. DOMAIN t.heap = {}
  BY TreeNodes
<1>5. /\ n \in NodeRecord /\ n.bit = key.len /\ n.prefix = key.addr /\ n.data = "null"
      /\ n.parent = Null /\ n.l = Null /\ n.r = Null
  BY <1>2, NewNodeIs, Null \in Bits \cup {Null}
<1> HIDE DEF n
<1>6. Typed(t) /\ Counted(t)
  BY DEF TreeOk
<1>7. /\ Typed(s) /\ DOMAIN s.heap = {k} /\ s.active = t.active + 1 /\ s.heap[k] = n
  BY <1>4, <1>5, <1>6, Allocated
<1> HIDE DEF s
<1>8. /\ Typed(u) /\ u.head = k /\ u.heap = s.heap /\ u.active = s.active
  BY <1>7, EditHead
<1> HIDE DEF u
<1>9. DOMAIN u.heap = {k} /\ u.heap[k] = n /\ u.active = t.active + 1
  BY <1>7, <1>8
<1>10. key.addr # Null
  BY <1>2, MaxBitsAssumption DEF Address, Null
<1>11. Marked(u)
  BY <1>3, <1>5, <1>9 DEF Marked
<1>12. Shaped(u)
  <2>1. /\ \A b \in Bit : Kids(u)[k][b] = Null
        /\ Ups(u)[k] = Null
    BY <1>5, <1>9, LinksAre DEF Kid
  <2> DEFINE K == Kids(u)
             U == Ups(u)
  <2> HIDE DEF K, U
  <2>2. /\ \A b \in Bit : \A q \in {k} : ~Below(k, b, q)
        /\ \A q \in {k} : ~StrictlyCovers(q, k)
    BY DEF Below, StrictlyCovers
  <2>3. HeadLinked({k}, k)
    BY <1>3, CoversItself DEF HeadLinked, Bits
  <2>4. \A b \in Bit : KidLinked({k}, K, k, b)
    BY <2>1, <2>2 DEF KidLinked, K
  <2>5. UpLinked({k}, k, U, k)
    BY <2>1, <2>2 DEF UpLinked, U
  <2>6. Linked({k}, k, K, U)
    BY <1>3, <2>3, <2>4, <2>5 DEF Linked
  <2> QED  BY <1>8, <1>9, <2>6 DEF Shaped, K, U
<1>13. Stored(u) = {k} /\ Stored(t) = {}
  BY <1>4, <1>5, <1>9, <1>10 DEF Stored
<1>14. Glued(u)
  BY <1>9, <1>13 DEF Glued
<1>15. Counted(u)
  BY <1>4, <1>6, <1>9, OneMore
<1>16. TreeOk(u)
  BY <1>8, <1>11, <1>12, <1>14, <1>15 DEF TreeOk
<1>17. k \in {Masked(key.addr, m) : m \in 0..key.len}
  BY <1>2, <1>3
<1> QED  BY <1>1, <1>4, <1>5, <1>9, <1>13, <1>16, <1>17 DEF Grown, k

\* What the lemmas below use of a key and its place.
LEMMA PlaceBits ==
  ASSUME NEW t, TreeOk(t), NEW key \in Key, NEW test, NEW n, NEW p, Fits(t, key, test, n, p)
  PROVE  LET M == Masked(key.addr, n)
             k == PrefixOf(key)
         IN /\ key.addr \in Address /\ key.len \in 0..MaxBits /\ key.len \in Nat /\ MaxBits \in Nat
            /\ n \in 0..key.len /\ n \in Nat
            /\ p \in DOMAIN t.heap /\ p \in Bits /\ p \in Seq(Bit) /\ p # Null
            /\ t.heap[p].bit = Len(p) /\ Len(p) \in n..MaxBits
            /\ M \in Bits /\ M \in Seq(Bit) /\ M # Null /\ Len(M) = n /\ Covers(M, p)
            /\ k \in Bits /\ k \in Seq(Bit) /\ k # Null /\ Len(k) = key.len /\ Covers(M, k)
            /\ \A i \in 1..key.len : k[i] = key.addr[i]
            /\ Ups(t)[p] # Null => StrictlyCovers(Ups(t)[p], M)
            /\ k \in {Masked(key.addr, m) : m \in 0..key.len}
            /\ M \in {Masked(key.addr, m) : m \in 0..key.len}
            /\ key.addr # Null
            /\ Typed(t) /\ Marked(t) /\ Shaped(t) /\ Glued(t) /\ Counted(t)
<1> DEFINE M == Masked(key.addr, n)
           k == PrefixOf(key)
<1>1. key.addr \in Address /\ key.len \in 0..MaxBits /\ key.len \in Nat /\ MaxBits \in Nat
  BY MaxBitsAssumption DEF Key
<1>2. /\ n \in 0..key.len /\ p \in DOMAIN t.heap /\ Covers(M, p)
      /\ Ups(t)[p] # Null => StrictlyCovers(Ups(t)[p], M)
  BY DEF Fits
<1>3. n \in 0..MaxBits /\ n \in Nat
  BY <1>1, <1>2
<1>4. M \in Bits /\ Len(M) = n
  BY <1>1, <1>3, MaskedBits
<1>5. k \in Bits /\ Len(k) = key.len /\ Covers(M, k) /\ \A i \in 1..key.len : k[i] = key.addr[i]
  BY <1>1, <1>2, MaskedBits DEF PrefixOf
<1>6. p \in Bits /\ t.heap[p].bit = Len(p)
  BY <1>2, TreeNodes DEF TreeOk, Marked
<1> HIDE DEF M, k
<1>7. /\ p \in Seq(Bit) /\ p # Null /\ M \in Seq(Bit) /\ M # Null /\ k \in Seq(Bit) /\ k # Null
  BY <1>4, <1>5, <1>6, NullIsNoNode DEF Bits
<1>8. Len(p) \in n..MaxBits
  <2>1. n <= Len(p) /\ Len(p) <= MaxBits
    BY <1>2, <1>4, <1>6, <1>7, CoversLonger DEF Bits
  <2> QED  BY <1>1, <1>3, <1>7, <2>1
<1>9. k \in {Masked(key.addr, m) : m \in 0..key.len} /\ M \in {Masked(key.addr, m) : m \in 0..key.len}
  BY <1>1, <1>2 DEF M, k, PrefixOf
<1>10. key.addr # Null
  BY <1>1, MaxBitsAssumption DEF Address, Null
<1> QED  BY <1>1, <1>2, <1>3, <1>4, <1>5, <1>6, <1>7, <1>8, <1>9, <1>10 DEF TreeOk, M, k

\* A node stands for the key: it is the one, or becomes it.
FoundTree(t, key, p) ==
  IF t.heap[p].prefix # Null THEN t ELSE [t EXCEPT !.heap[p].prefix = key.addr]

\* The tree is right then.
LEMMA NodeFound ==
  ASSUME NEW t, TreeOk(t), NEW key \in Key, NEW test, NEW n, NEW p, Fits(t, key, test, n, p),
         n = key.len, Len(p) = key.len
  PROVE  Grown(t, FoundTree(t, key, p), key)
<1> DEFINE k == PrefixOf(key)
           a == key.addr
<1>1. /\ a \in Address /\ a # Null /\ p \in DOMAIN t.heap /\ p \in Seq(Bit)
      /\ k \in Seq(Bit) /\ Covers(k, p) /\ Len(k) = key.len /\ key.len \in Nat
      /\ Typed(t) /\ Marked(t) /\ Shaped(t) /\ Glued(t) /\ Counted(t)
  BY PlaceBits DEF PrefixOf
<1>2. p = k
  <2>1. Covers(p, k)
    BY <1>1, CoversComparable, CoversItself
  <2> QED  BY <1>1, <2>1, CoversBoth
<1>3. CASE t.heap[p].prefix # Null
  BY <1>1, <1>2, <1>3 DEF Grown, Stored, FoundTree
<1>4. CASE t.heap[p].prefix = Null
  <2> DEFINE u == [t EXCEPT !.heap[p].prefix = a]
             m == t.heap[p]
             r == [m EXCEPT !.prefix = a]
  <2>1. m \in NodeRecord
    BY <1>1 DEF Typed
  <2>2. u = [t EXCEPT !.heap[p] = r]
    BY <1>1 DEF Typed
  <2> HIDE DEF m
  <2>3. /\ r \in NodeRecord /\ r.bit = m.bit /\ r.prefix = a /\ r.data = m.data
        /\ r.parent = m.parent /\ r.l = m.l /\ r.r = m.r
    BY <1>1, <2>1 DEF NodeRecord
  <2> HIDE DEF r
  <2>4. Edited(t, [t EXCEPT !.heap[p] = r], p, r)
    BY <1>1, <2>3, Edit
  <2>5. Edited(t, u, p, r)
    BY <2>2, <2>4
  <2> HIDE DEF u
  <2>6. /\ Typed(u) /\ DOMAIN u.heap = DOMAIN t.heap /\ u.head = t.head /\ u.active = t.active
        /\ u.heap[p] = r /\ \A x \in DOMAIN t.heap \ {p} : u.heap[x] = t.heap[x]
    BY <2>5 DEF Edited
  <2>7. \A x \in DOMAIN t.heap : /\ u.heap[x].bit = t.heap[x].bit
                                 /\ u.heap[x].data = t.heap[x].data
                                 /\ u.heap[x].parent = t.heap[x].parent
                                 /\ u.heap[x].l = t.heap[x].l /\ u.heap[x].r = t.heap[x].r
    BY <2>3, <2>6 DEF m
  <2>8. Shaped(u) /\ Kids(u) = Kids(t)
    BY <1>1, <2>6, <2>7, SameLinks
  <2>9. Marked(u)
    <3>1. Masked(a, Len(p)) = p
      BY <1>2 DEF PrefixOf
    <3>2. \A x \in DOMAIN t.heap : u.heap[x].prefix = IF x = p THEN a ELSE t.heap[x].prefix
      BY <2>3, <2>6
    <3> QED  BY <1>1, <2>6, <2>7, <3>1, <3>2 DEF Marked
  <2>10. Stored(u) = Stored(t) \cup {k}
    BY <1>1, <1>2, <2>3, <2>6 DEF Stored
  <2>11. Glued(u)
    BY <1>1, <2>6, <2>8, <2>10 DEF Glued
  <2>12. Counted(u)
    BY <1>1, <2>6 DEF Counted
  <2>13. TreeOk(u)
    BY <2>6, <2>8, <2>9, <2>11, <2>12 DEF TreeOk
  <2>14. Grown(t, u, key)
    BY <2>6, <2>7, <2>10, <2>13 DEF Grown
  <2> QED  BY <1>4, <2>14 DEF u, FoundTree
<1> QED  BY <1>3, <1>4

\* A leaf for the key.
LeafTree(t, key, n, p) ==
  LET k == PrefixOf(key)
      s == Allocate(t, k, NewNode(key.len, key.addr, p))
  IN IF n < MaxBits /\ BitTest(key.addr, n) THEN [s EXCEPT !.heap[p].r = k]
     ELSE [s EXCEPT !.heap[p].l = k]

\* The tree is right with it.
LEMMA LeafGrown ==
  ASSUME NEW t, TreeOk(t), NEW key \in Key, NEW test, NEW n, NEW p, Fits(t, key, test, n, p),
         n # key.len, Len(p) = n, Child(t.heap[p], key.addr) = Null,
         PrefixOf(key) \notin DOMAIN t.heap
  PROVE  Grown(t, LeafTree(t, key, n, p), key)
<1> DEFINE N == DOMAIN t.heap
           k == PrefixOf(key)
           m == NewNode(key.len, key.addr, p)
           s == Allocate(t, k, m)
           b == Side(p, key.addr)
           u == IF n < MaxBits /\ BitTest(key.addr, n) THEN [s EXCEPT !.heap[p].r = k]
                ELSE [s EXCEPT !.heap[p].l = k]
<1>1. /\ key.addr \in Address /\ key.len \in 0..MaxBits /\ key.len \in Nat /\ MaxBits \in Nat
      /\ n \in 0..key.len /\ p \in N /\ p \in Bits /\ p \in Seq(Bit) /\ p # Null
      /\ k \in Bits /\ k \in Seq(Bit) /\ k # Null /\ Len(k) = key.len
      /\ k \in {Masked(key.addr, i) : i \in 0..key.len} /\ key.addr # Null
      /\ Typed(t) /\ Marked(t) /\ Shaped(t) /\ Glued(t) /\ Counted(t)
  BY PlaceBits
<1>2. Masked(key.addr, n) \in Seq(Bit) /\ Len(Masked(key.addr, n)) = n
      /\ Covers(Masked(key.addr, n), p) /\ Covers(Masked(key.addr, n), k)
  BY PlaceBits
<1>3. Below(p, b, k)
  <2>1. p = Masked(key.addr, n)
    BY <1>1, <1>2, CoversComparable, CoversItself, CoversBoth
  <2>2. StrictlyCovers(p, k)
    BY <1>1, <1>2, <2>1 DEF StrictlyCovers
  <2>3. Covers(k, Masked(key.addr, key.len))
    BY <1>1, CoversItself DEF PrefixOf
  <2> QED  BY <1>1, <2>2, <2>3, SideBelow
<1>4. b \in Bit /\ Kids(t)[p][b] = Null /\ k \notin N
  BY <1>1, ChildIs
<1>5. b = IF n < MaxBits /\ BitTest(key.addr, n) THEN 1 ELSE 0
  BY DEF Side, BitTest
<1>6. /\ m \in NodeRecord /\ m.bit = key.len /\ m.prefix = key.addr /\ m.data = "null"
      /\ m.parent = p /\ m.l = Null /\ m.r = Null
  BY <1>1, NewNodeIs
<1> HIDE DEF m, k, b
<1>7. /\ Typed(s) /\ DOMAIN s.heap = N \cup {k} /\ s.head = t.head /\ s.active = t.active + 1
      /\ s.heap[k] = m /\ \A x \in N : s.heap[x] = t.heap[x]
  <2>1. /\ Typed(s) /\ DOMAIN s.heap = N \cup {k} /\ s.head = t.head /\ s.active = t.active + 1
        /\ s.heap[k] = m /\ \A x \in N \ {k} : s.heap[x] = t.heap[x]
    BY <1>1, <1>6, Allocated
  <2> QED  BY <1>4, <2>1
<1> HIDE DEF s
<1>8. p \in DOMAIN s.heap /\ k \in Bits \cup {Null}
  BY <1>1, <1>7
<1>9. \E r \in NodeRecord : /\ Edited(s, u, p, r) /\ SameEntry(r, t.heap[p])
                            /\ r.parent = t.heap[p].parent
                            /\ \A c \in Bit : Kid(r, c) = IF c = b THEN k ELSE Kid(t.heap[p], c)
  <2>1. CASE b = 1
    <3>1. u = [s EXCEPT !.heap[p].r = k]
      BY <1>5, <2>1
    <3>2. PICK r \in NodeRecord : /\ Edited(s, [s EXCEPT !.heap[p].r = k], p, r)
                                  /\ SameEntry(r, s.heap[p]) /\ r.parent = s.heap[p].parent
                                  /\ r.r = k /\ r.l = s.heap[p].l
      BY <1>7, <1>8, EditRight
    <3>3. \A c \in Bit : Kid(r, c) = IF c = b THEN k ELSE Kid(t.heap[p], c)
      BY <1>1, <1>7, <2>1, <3>2 DEF Kid, Bit
    <3> QED  BY <1>1, <1>7, <3>1, <3>2, <3>3
  <2>2. CASE b = 0
    <3>1. u = [s EXCEPT !.heap[p].l = k]
      BY <1>5, <2>2
    <3>2. PICK r \in NodeRecord : /\ Edited(s, [s EXCEPT !.heap[p].l = k], p, r)
                                  /\ SameEntry(r, s.heap[p]) /\ r.parent = s.heap[p].parent
                                  /\ r.l = k /\ r.r = s.heap[p].r
      BY <1>7, <1>8, EditLeft
    <3>3. \A c \in Bit : Kid(r, c) = IF c = b THEN k ELSE Kid(t.heap[p], c)
      BY <1>1, <1>7, <2>2, <3>2 DEF Kid, Bit
    <3> QED  BY <1>1, <1>7, <3>1, <3>2, <3>3
  <2> QED  BY <1>4, <2>1, <2>2 DEF Bit
<1>10. PICK r \in NodeRecord :
         /\ Edited(s, u, p, r) /\ SameEntry(r, t.heap[p])
         /\ r.parent = t.heap[p].parent
         /\ \A c \in Bit : Kid(r, c) = IF c = b THEN k ELSE Kid(t.heap[p], c)
  BY <1>9
<1> HIDE DEF u
<1>11. /\ Typed(u) /\ DOMAIN u.heap = N \cup {k} /\ u.head = t.head /\ u.active = t.active + 1
       /\ u.heap[p] = r /\ u.heap[k] = m /\ \A x \in N \ {p} : u.heap[x] = t.heap[x]
  <2>1. /\ Typed(u) /\ DOMAIN u.heap = DOMAIN s.heap /\ u.head = s.head /\ u.active = s.active
        /\ u.heap[p] = r /\ \A x \in DOMAIN s.heap \ {p} : u.heap[x] = s.heap[x]
    BY <1>10 DEF Edited
  <2> QED  BY <1>1, <1>4, <1>7, <2>1
<1>12. \A x \in N : /\ SameEntry(u.heap[x], t.heap[x])
                    /\ u.heap[x].parent = t.heap[x].parent
                    /\ \A c \in Bit : Kid(u.heap[x], c) =
                         IF x = p /\ c = b THEN k ELSE Kid(t.heap[x], c)
  <2>1. SameEntry(r, t.heap[p]) /\ \A x \in N : SameEntry(t.heap[x], t.heap[x])
    BY <1>10 DEF SameEntry
  <2> QED  BY <1>10, <1>11, <2>1
<1>13. Shaped(u)
  <2> DEFINE K == Kids(t)
             U == Ups(t)
             L == Kids(u)
             V == Ups(u)
  <2>1. \A x \in N : \A c \in Bit : K[x][c] = Kid(t.heap[x], c)
    BY LinksAre
  <2>2. \A x \in N \cup {k} : \A c \in Bit : L[x][c] = Kid(u.heap[x], c)
    BY <1>11, LinksAre
  <2>3. (\A x \in N : U[x] = t.heap[x].parent) /\ (\A x \in N \cup {k} : V[x] = u.heap[x].parent)
    BY <1>11, LinksAre
  <2>4. K[p][b] = Null /\ Linked(N, t.head, K, U)
    BY <1>1, <1>4 DEF Shaped
  <2> HIDE DEF K, U, L, V
  <2>5. \A x \in N : \A c \in Bit : L[x][c] = IF x = p /\ c = b THEN k ELSE K[x][c]
    BY <1>12, <2>1, <2>2
  <2>6. \A c \in Bit : L[k][c] = Null
    BY <1>6, <1>11, <2>2 DEF Kid
  <2>7. (\A x \in N : V[x] = U[x]) /\ V[k] = p
    BY <1>6, <1>11, <1>12, <2>3
  <2>8. k \in Bits \ N
    BY <1>1, <1>4
  <2>9. p \in N /\ b \in Bit /\ Below(p, b, k)
    BY <1>1, <1>3, <1>4
  <2> DEFINE M == N
             h == t.head
  <2> HIDE DEF M, h
  <2>10. Linked(M \cup {k}, h, L, V)
    <3>1. /\ Linked(M, h, K, U) /\ p \in M /\ b \in Bit /\ k \in Bits \ M /\ Below(p, b, k)
          /\ K[p][b] = Null
      BY <2>4, <2>8, <2>9 DEF M, h
    <3>2. /\ \A x \in M : \A c \in Bit : L[x][c] = IF x = p /\ c = b THEN k ELSE K[x][c]
          /\ \A x \in M : V[x] = U[x]
      BY <2>5, <2>7 DEF M
    <3> QED  BY <2>6, <2>7, <3>1, <3>2, LeafAdded
  <2> QED  BY <1>11, <2>10 DEF Shaped, L, V, M, h
<1>14. Marked(u)
  <2>1. Masked(key.addr, Len(k)) = k
    BY <1>1 DEF k, PrefixOf
  <2>2. ASSUME NEW x \in DOMAIN u.heap
        PROVE  /\ u.heap[x].bit = Len(x)
               /\ u.heap[x].prefix # Null => Masked(u.heap[x].prefix, Len(x)) = x
               /\ u.heap[x].data # "null" => u.heap[x].prefix # Null
    <3>1. CASE x = k
      BY <1>1, <1>6, <1>11, <2>1, <3>1
    <3>2. CASE x \in N
      BY <1>1, <1>12, <3>2 DEF SameEntry, Marked
    <3> QED  BY <1>11, <3>1, <3>2
  <2> QED  BY <2>2 DEF Marked
<1>15. Stored(u) = Stored(t) \cup {k}
  BY <1>1, <1>6, <1>11, <1>12 DEF Stored, SameEntry
<1>16. Glued(u)
  <2>1. ASSUME NEW x \in DOMAIN u.heap \ Stored(u), NEW c \in Bit PROVE Kids(u)[x][c] # Null
    <3>1. x \in N /\ x \notin Stored(t)
      BY <1>11, <1>15, <2>1
    <3>2. Kid(t.heap[x], c) # Null
      BY <1>1, <3>1, LinksAre DEF Glued
    <3>3. Kid(u.heap[x], c) # Null
      BY <1>1, <1>12, <3>1, <3>2
    <3> QED  BY <3>3, LinksAre
  <2> QED  BY <2>1 DEF Glued
<1>17. Counted(u)
  BY <1>1, <1>4, <1>11, OneMore
<1>18. TreeOk(u)
  BY <1>11, <1>13, <1>14, <1>16, <1>17 DEF TreeOk
<1>19. \A x \in DOMAIN u.heap :
         u.heap[x].data = IF x \in DOMAIN t.heap THEN t.heap[x].data ELSE "null"
  BY <1>4, <1>6, <1>11, <1>12 DEF SameEntry
<1>20. Grown(t, u, key)
  BY <1>1, <1>11, <1>15, <1>18, <1>19 DEF Grown, k
<1> QED  BY <1>20 DEF u, s, m, k, LeafTree

\* A node for the key above the one climbed to.
KeyTree(t, key, test, p) ==
  LET k == PrefixOf(key)
      below == key.len < MaxBits /\ BitTest(test, key.len)
      m == Inner(NewNode(key.len, key.addr, t.heap[p].parent),
                 IF below THEN Null ELSE p, IF below THEN p ELSE Null)
  IN Above(Allocate(t, k, m), p, k)

\* The tree is right with it.
LEMMA KeyBetween ==
  ASSUME NEW t, TreeOk(t), NEW key \in Key, NEW test, NEW n, NEW p, Fits(t, key, test, n, p),
         n = key.len, Len(p) # n, PrefixOf(key) \notin DOMAIN t.heap
  PROVE  Grown(t, KeyTree(t, key, test, p), key)
<1> DEFINE N == DOMAIN t.heap
           k == PrefixOf(key)
           below == key.len < MaxBits /\ BitTest(test, key.len)
           f == NewNode(key.len, key.addr, t.heap[p].parent)
           l == IF below THEN Null ELSE p
           r == IF below THEN p ELSE Null
           m == Inner(f, l, r)
           s == Allocate(t, k, m)
           u == Above(s, p, k)
           b == p[key.len + 1]
<1>1. /\ key.addr \in Address /\ key.len \in 0..MaxBits /\ key.len \in Nat /\ MaxBits \in Nat
      /\ p \in N /\ p \in Bits /\ p \in Seq(Bit) /\ p # Null /\ Len(p) \in n..MaxBits
      /\ k \in Bits /\ k \in Seq(Bit) /\ k # Null /\ Len(k) = key.len /\ Covers(k, p)
      /\ k \in {Masked(key.addr, i) : i \in 0..key.len} /\ key.addr # Null
      /\ Ups(t)[p] # Null => StrictlyCovers(Ups(t)[p], k)
  BY PlaceBits DEF PrefixOf
<1>2. Typed(t) /\ Marked(t) /\ Shaped(t) /\ Glued(t) /\ Counted(t)
  BY PlaceBits
<1>3. b \in Bit /\ Below(k, b, p) /\ (below <=> b = 1)
  <2>1. key.len + 1 \in 1..Len(p) /\ key.len < MaxBits
    BY <1>1
  <2>2. b \in Bit
    BY <1>1, <2>1
  <2>3. b = test[key.len + 1]
    BY <2>1 DEF Fits
  <2>4. k # p
    BY <1>1
  <2> QED  BY <1>1, <2>1, <2>2, <2>3, <2>4 DEF Below, StrictlyCovers, BitTest
<1>4. k \notin N
  OBVIOUS
<1>5. t.heap[p].parent \in Bits \cup {Null}
  BY <1>1, <1>2 DEF Typed, NodeRecord
<1> HIDE DEF k, b, below
<1>6. /\ f \in NodeRecord /\ f.bit = key.len /\ f.prefix = key.addr /\ f.data = "null"
      /\ f.parent = t.heap[p].parent
  BY <1>1, <1>5, NewNodeIs
<1>7. l \in Bits \cup {Null} /\ r \in Bits \cup {Null}
  BY <1>1
<1> HIDE DEF f, l, r
<1>8. m \in NodeRecord /\ SameEntry(f, m) /\ m.parent = f.parent /\ m.l = l /\ m.r = r
  BY <1>6, <1>7, NewInner
<1> HIDE DEF m
<1>9. /\ m \in NodeRecord /\ m.bit = key.len /\ m.prefix = key.addr /\ m.data = "null"
      /\ m.parent = t.heap[p].parent
      /\ \A c \in Bit : Kid(m, c) = IF c = b THEN p ELSE Null
  BY <1>3, <1>6, <1>8 DEF SameEntry, Kid, Bit, l, r
<1>10. /\ Typed(s) /\ DOMAIN s.heap = N \cup {k} /\ s.head = t.head /\ s.active = t.active + 1
       /\ s.heap[k] = m /\ \A x \in N : s.heap[x] = t.heap[x]
  <2>1. /\ Typed(s) /\ DOMAIN s.heap = N \cup {k} /\ s.head = t.head /\ s.active = t.active + 1
        /\ s.heap[k] = m /\ \A x \in N \ {k} : s.heap[x] = t.heap[x]
    BY <1>2, <1>9, Allocated
  <2> QED  BY <1>4, <2>1
<1> HIDE DEF s
<1>11. /\ Typed(u)
       /\ DOMAIN u.heap = DOMAIN s.heap /\ u.active = s.active
       /\ u.head = IF t.head = p THEN k ELSE t.head
       /\ \A x \in DOMAIN t.heap :
            /\ SameEntry(u.heap[x], t.heap[x])
            /\ u.heap[x].parent = IF x = p THEN k ELSE t.heap[x].parent
            /\ \A c \in Bit : Kid(u.heap[x], c) =
                 IF Kid(t.heap[x], c) = p THEN k ELSE Kid(t.heap[x], c)
       /\ \A x \in DOMAIN s.heap \ DOMAIN t.heap : u.heap[x] = s.heap[x]
  <2>1. /\ Typed(t) /\ Shaped(t) /\ p \in DOMAIN t.heap /\ k \in Bits
        /\ Typed(s) /\ DOMAIN t.heap \subseteq DOMAIN s.heap /\ s.head = t.head
        /\ \A x \in DOMAIN t.heap : s.heap[x] = t.heap[x]
    BY <1>1, <1>2, <1>10
  <2> QED  BY <2>1, PutAbove
<1> HIDE DEF u
<1>12. DOMAIN u.heap = N \cup {k} /\ u.active = t.active + 1 /\ u.heap[k] = m
  BY <1>4, <1>10, <1>11
<1>13. Shaped(u)
  <2> DEFINE K == Kids(t)
             U == Ups(t)
             L == Kids(u)
             V == Ups(u)
             h == t.head
             M == N
  <2>1. \A x \in M : \A c \in Bit : K[x][c] = Kid(t.heap[x], c)
    BY LinksAre
  <2>2. \A x \in M \cup {k} : \A c \in Bit : L[x][c] = Kid(u.heap[x], c)
    BY <1>12, LinksAre
  <2>3. (\A x \in M : U[x] = t.heap[x].parent) /\ (\A x \in M \cup {k} : V[x] = u.heap[x].parent)
    BY <1>12, LinksAre
  <2>4. Linked(M, h, K, U) /\ p \in M /\ k \in Bits \ M /\ (U[p] # Null => StrictlyCovers(U[p], k))
    BY <1>1, <1>2, <1>4 DEF Shaped
  <2>5. \A x \in M : /\ u.heap[x].parent = IF x = p THEN k ELSE t.heap[x].parent
                     /\ \A c \in Bit : Kid(u.heap[x], c) =
                          IF Kid(t.heap[x], c) = p THEN k ELSE Kid(t.heap[x], c)
    BY <1>11
  <2> HIDE DEF K, U, L, V, M
  <2>6. \A x \in M : \A c \in Bit : L[x][c] = IF K[x][c] = p THEN k ELSE K[x][c]
    BY <2>1, <2>2, <2>5
  <2>7. \A c \in Bit : L[k][c] = IF c = b THEN p ELSE Null
    BY <1>9, <1>12, <2>2
  <2>8. (\A x \in M : V[x] = IF x = p THEN k ELSE U[x]) /\ V[k] = U[p]
    BY <1>9, <1>12, <2>3, <2>4, <2>5
  <2> HIDE DEF h
  <2>9. Linked(M \cup {k}, IF h = p THEN k ELSE h, L, V)
    <3>1. b \in Bit /\ Below(k, b, p)
      BY <1>3
    <3> DEFINE j == IF h = p THEN k ELSE h
    <3> HIDE DEF j
    <3>2. j = IF h = p THEN k ELSE h
      BY DEF j
    <3>3. Linked(M \cup {k}, j, L, V)
      <4>1. PutBetween(M, h, K, U, p, b, k, L, V, j)
        BY <2>4, <2>6, <2>7, <2>8, <3>1, <3>2 DEF PutBetween
      <4> QED  BY <2>4, <4>1, NodeBetween
    <3> QED  BY <3>2, <3>3
  <2> QED  BY <1>11, <1>12, <2>9 DEF Shaped, L, V, M, h
<1>14. Marked(u)
  <2>1. Masked(key.addr, Len(k)) = k
    BY <1>1 DEF k, PrefixOf
  <2>2. ASSUME NEW x \in DOMAIN u.heap
        PROVE  /\ u.heap[x].bit = Len(x)
               /\ u.heap[x].prefix # Null => Masked(u.heap[x].prefix, Len(x)) = x
               /\ u.heap[x].data # "null" => u.heap[x].prefix # Null
    <3>1. CASE x = k
      BY <1>1, <1>9, <1>12, <2>1, <3>1
    <3>2. CASE x \in N
      BY <1>2, <1>11, <3>2 DEF SameEntry, Marked
    <3> QED  BY <1>12, <3>1, <3>2
  <2> QED  BY <2>2 DEF Marked
<1>15. Stored(u) = Stored(t) \cup {k}
  BY <1>1, <1>9, <1>11, <1>12 DEF Stored, SameEntry
<1>16. Glued(u)
  <2>1. ASSUME NEW x \in DOMAIN u.heap \ Stored(u), NEW c \in Bit PROVE Kids(u)[x][c] # Null
    <3>1. x \in N /\ x \notin Stored(t)
      BY <1>12, <1>15, <2>1
    <3>2. Kid(t.heap[x], c) # Null
      BY <1>2, <3>1, LinksAre DEF Glued
    <3>3. Kid(u.heap[x], c) # Null
      BY <1>1, <1>11, <3>1, <3>2
    <3> QED  BY <3>3, LinksAre
  <2> QED  BY <2>1 DEF Glued
<1>17. Counted(u)
  BY <1>2, <1>4, <1>12, OneMore
<1>18. TreeOk(u)
  BY <1>11, <1>13, <1>14, <1>16, <1>17 DEF TreeOk
<1>19. \A x \in DOMAIN u.heap :
         u.heap[x].data = IF x \in DOMAIN t.heap THEN t.heap[x].data ELSE "null"
  BY <1>4, <1>9, <1>11, <1>12 DEF SameEntry
<1>20. Grown(t, u, key)
  BY <1>1, <1>12, <1>15, <1>18, <1>19 DEF Grown, k
<1> QED  BY <1>20 DEF u, s, m, f, k, below, l, r, KeyTree

\* A glue node above the one climbed to, and a leaf for the key beside that one.
GlueTree(t, key, n, p) ==
  LET k == PrefixOf(key)
      g == Masked(key.addr, n)
      right == n < MaxBits /\ BitTest(key.addr, n)
      m == Inner(NewNode(n, Null, t.heap[p].parent),
                 IF right THEN p ELSE k, IF right THEN k ELSE p)
      s == Allocate(Allocate(t, k, NewNode(key.len, key.addr, g)), g, m)
  IN Above(s, p, g)

\* The tree is right with both.
LEMMA GlueBetween ==
  ASSUME NEW t, TreeOk(t), NEW key \in Key, NEW test, NEW n, NEW p, Fits(t, key, test, n, p),
         n # key.len, Len(p) # n, PrefixOf(key) \notin DOMAIN t.heap,
         Masked(key.addr, n) \notin DOMAIN t.heap
  PROVE  Grown(t, GlueTree(t, key, n, p), key)
<1> DEFINE N == DOMAIN t.heap
           k == PrefixOf(key)
           g == Masked(key.addr, n)
           right == n < MaxBits /\ BitTest(key.addr, n)
           f == NewNode(n, Null, t.heap[p].parent)
           l == IF right THEN p ELSE k
           r == IF right THEN k ELSE p
           m == Inner(f, l, r)
           e == NewNode(key.len, key.addr, g)
           q == Allocate(t, k, e)
           s == Allocate(q, g, m)
           u == Above(s, p, g)
           b == p[n + 1]
           d == key.addr[n + 1]
<1>1. /\ key.addr \in Address /\ key.len \in 0..MaxBits /\ key.len \in Nat /\ MaxBits \in Nat
      /\ n \in 0..key.len /\ n \in Nat
      /\ p \in N /\ p \in Bits /\ p \in Seq(Bit) /\ p # Null /\ Len(p) \in n..MaxBits
      /\ k \in Bits /\ k \in Seq(Bit) /\ k # Null /\ Len(k) = key.len
      /\ k \in {Masked(key.addr, i) : i \in 0..key.len} /\ key.addr # Null
  BY PlaceBits
<1>2. /\ g \in Bits /\ g \in Seq(Bit) /\ g # Null /\ Len(g) = n /\ Covers(g, p) /\ Covers(g, k)
      /\ g \in {Masked(key.addr, i) : i \in 0..key.len}
      /\ Ups(t)[p] # Null => StrictlyCovers(Ups(t)[p], g)
      /\ Typed(t) /\ Marked(t) /\ Shaped(t) /\ Glued(t) /\ Counted(t)
      /\ \A i \in 1..key.len : k[i] = key.addr[i]
  BY PlaceBits
<1>3. /\ b \in Bit /\ d \in Bit /\ b # d /\ Below(g, b, p) /\ Below(g, d, k)
      /\ right <=> d = 1
  <2>1. n + 1 \in 1..Len(p) /\ n < MaxBits /\ n + 1 \in 1..key.len /\ n + 1 \in 1..MaxBits
        /\ n < key.len /\ n < Len(p)
    BY <1>1
  <2>2. b \in Bit /\ d \in Bit
    BY <1>1, <2>1 DEF Address, Bit
  <2>3. b # d
    BY <2>1 DEF Fits
  <2>4. k # p /\ g # k /\ g # p
    BY <1>1, <1>2, <2>1
  <2>5. k[n + 1] = d
    BY <1>2, <2>1
  <2> QED  BY <1>2, <2>1, <2>2, <2>3, <2>4, <2>5 DEF Below, StrictlyCovers, BitTest
<1>4. k \notin N /\ g \notin N /\ g # k
  BY <1>1, <1>2
<1>5. t.heap[p].parent \in Bits \cup {Null}
  BY <1>1, <1>2 DEF Typed, NodeRecord
<1> HIDE DEF k, g, b, d, right
<1>6. /\ f \in NodeRecord /\ f.bit = n /\ f.prefix = Null /\ f.data = "null"
      /\ f.parent = t.heap[p].parent
  <2>1. n \in Nat
    BY <1>1
  <2> QED  BY <1>5, <2>1, NewNodeIs
<1>7. /\ e \in NodeRecord /\ e.bit = key.len /\ e.prefix = key.addr /\ e.data = "null"
      /\ e.parent = g /\ e.l = Null /\ e.r = Null
  BY <1>1, <1>2, NewNodeIs
<1>8. l \in Bits \cup {Null} /\ r \in Bits \cup {Null}
  BY <1>1
<1> HIDE DEF f, e, l, r
<1>9. m \in NodeRecord /\ SameEntry(f, m) /\ m.parent = f.parent /\ m.l = l /\ m.r = r
  BY <1>6, <1>8, NewInner
<1> HIDE DEF m
<1>10. /\ m \in NodeRecord /\ m.bit = n /\ m.prefix = Null /\ m.data = "null"
       /\ m.parent = t.heap[p].parent
       /\ \A c \in Bit : Kid(m, c) = IF c = b THEN p ELSE k
  BY <1>3, <1>6, <1>9 DEF SameEntry, Kid, Bit, l, r
<1>11. /\ Typed(q) /\ DOMAIN q.heap = N \cup {k} /\ q.head = t.head /\ q.active = t.active + 1
       /\ q.heap[k] = e /\ \A x \in N : q.heap[x] = t.heap[x]
  <2>1. /\ Typed(q) /\ DOMAIN q.heap = N \cup {k} /\ q.head = t.head /\ q.active = t.active + 1
        /\ q.heap[k] = e /\ \A x \in N \ {k} : q.heap[x] = t.heap[x]
    BY <1>2, <1>7, Allocated
  <2> QED  BY <1>4, <2>1
<1> HIDE DEF q
<1>12. /\ Typed(s) /\ DOMAIN s.heap = N \cup {k, g} /\ s.head = t.head
       /\ s.active = (t.active + 1) + 1
       /\ s.heap[k] = e /\ s.heap[g] = m /\ \A x \in N : s.heap[x] = t.heap[x]
  <2>1. /\ Typed(s) /\ DOMAIN s.heap = DOMAIN q.heap \cup {g} /\ s.head = q.head
        /\ s.active = q.active + 1
        /\ s.heap[g] = m /\ \A x \in DOMAIN q.heap \ {g} : s.heap[x] = q.heap[x]
    BY <1>10, <1>11, Allocated
  <2> QED  BY <1>4, <1>11, <2>1
<1> HIDE DEF s
<1>13. /\ Typed(u)
       /\ DOMAIN u.heap = DOMAIN s.heap /\ u.active = s.active
       /\ u.head = IF t.head = p THEN g ELSE t.head
       /\ \A x \in DOMAIN t.heap :
            /\ SameEntry(u.heap[x], t.heap[x])
            /\ u.heap[x].parent = IF x = p THEN g ELSE t.heap[x].parent
            /\ \A c \in Bit : Kid(u.heap[x], c) =
                 IF Kid(t.heap[x], c) = p THEN g ELSE Kid(t.heap[x], c)
       /\ \A x \in DOMAIN s.heap \ DOMAIN t.heap : u.heap[x] = s.heap[x]
  <2>1. /\ Typed(t) /\ Shaped(t) /\ p \in DOMAIN t.heap /\ g \in Bits
        /\ Typed(s) /\ DOMAIN t.heap \subseteq DOMAIN s.heap /\ s.head = t.head
        /\ \A x \in DOMAIN t.heap : s.heap[x] = t.heap[x]
    BY <1>1, <1>2, <1>12
  <2> QED  BY <2>1, PutAbove
<1> HIDE DEF u
<1>14. /\ DOMAIN u.heap = (N \cup {g}) \cup {k} /\ u.active = (t.active + 1) + 1
       /\ u.heap[k] = e /\ u.heap[g] = m
  BY <1>4, <1>12, <1>13
<1>15. Shaped(u)
  <2> DEFINE K == Kids(t)
             U == Ups(t)
             L == Kids(u)
             V == Ups(u)
             h == t.head
             M == N
             j == IF h = p THEN g ELSE h
             W == [x \in M \cup {g} |->
                     [c \in Bit |-> IF x = g THEN IF c = b THEN p ELSE Null
                                    ELSE IF K[x][c] = p THEN g ELSE K[x][c]]]
             X == [x \in M \cup {g} |-> IF x = g THEN U[p] ELSE IF x = p THEN g ELSE U[x]]
  <2>1. \A x \in M : \A c \in Bit : K[x][c] = Kid(t.heap[x], c)
    BY LinksAre
  <2>2. \A x \in (M \cup {g}) \cup {k} : \A c \in Bit : L[x][c] = Kid(u.heap[x], c)
    BY <1>14, LinksAre
  <2>3. /\ \A x \in M : U[x] = t.heap[x].parent
        /\ \A x \in (M \cup {g}) \cup {k} : V[x] = u.heap[x].parent
    BY <1>14, LinksAre
  <2>4. Linked(M, h, K, U) /\ p \in M /\ g \in Bits \ M /\ (U[p] # Null => StrictlyCovers(U[p], g))
    BY <1>1, <1>2, <1>4 DEF Shaped
  <2>5. \A x \in M : /\ u.heap[x].parent = IF x = p THEN g ELSE t.heap[x].parent
                     /\ \A c \in Bit : Kid(u.heap[x], c) =
                          IF Kid(t.heap[x], c) = p THEN g ELSE Kid(t.heap[x], c)
    BY <1>13
  <2>6. k \in Bits \ (M \cup {g})
    BY <1>1, <1>4
  <2>7. u.head = j
    BY <1>13
  <2> HIDE DEF K, U, L, V, M, h
  <2>8. /\ \A x \in M : \A c \in Bit : W[x][c] = IF K[x][c] = p THEN g ELSE K[x][c]
        /\ \A c \in Bit : W[g][c] = IF c = b THEN p ELSE Null
    BY <2>4
  <2>9. (\A x \in M : X[x] = IF x = p THEN g ELSE U[x]) /\ X[g] = U[p]
    BY <2>4
  <2> HIDE DEF W, X
  <2>10. Linked(M \cup {g}, j, W, X)
    <3>1. b \in Bit /\ Below(g, b, p)
      BY <1>3
    <3>2. j = IF h = p THEN g ELSE h
      OBVIOUS
    <3> HIDE DEF j
    <3>3. PutBetween(M, h, K, U, p, b, g, W, X, j)
      BY <2>4, <2>8, <2>9, <3>1, <3>2 DEF PutBetween
    <3> QED  BY <2>4, <3>3, NodeBetween
  <2>11. ASSUME NEW x \in M \cup {g}, NEW c \in Bit
         PROVE  L[x][c] = IF x = g /\ c = d THEN k ELSE W[x][c]
    <3>1. CASE x = g
      <4>1. L[g][c] = IF c = b THEN p ELSE k
        BY <1>10, <1>14, <2>2
      <4> QED  BY <1>3, <2>8, <3>1, <4>1 DEF Bit
    <3>2. CASE x \in M
      <4>1. x # g /\ L[x][c] = IF K[x][c] = p THEN g ELSE K[x][c]
        BY <2>1, <2>2, <2>4, <2>5, <3>2
      <4> QED  BY <2>8, <3>2, <4>1
    <3> QED  BY <3>1, <3>2
  <2>12. \A c \in Bit : L[k][c] = Null
    BY <1>7, <1>14, <2>2 DEF Kid
  <2>13. ASSUME NEW x \in M \cup {g} PROVE V[x] = X[x]
    <3>1. CASE x = g
      BY <1>10, <1>14, <2>3, <2>4, <2>9, <3>1
    <3>2. CASE x \in M
      BY <2>3, <2>5, <2>9, <3>2
    <3> QED  BY <3>1, <3>2
  <2>14. V[k] = g /\ W[g][d] = Null
    BY <1>3, <1>7, <1>14, <2>3, <2>8
  <2> HIDE DEF j
  <2>15. Linked((M \cup {g}) \cup {k}, j, L, V)
    <3> DEFINE Z == M \cup {g}
    <3>1. g \in Z /\ Linked(Z, j, W, X) /\ k \in Bits \ Z
      BY <2>6, <2>10
    <3>2. /\ \A x \in Z : \A c \in Bit : L[x][c] = IF x = g /\ c = d THEN k ELSE W[x][c]
          /\ \A x \in Z : V[x] = X[x]
      BY <2>11, <2>13
    <3> HIDE DEF Z
    <3>3. Linked(Z \cup {k}, j, L, V)
      BY <1>3, <2>12, <2>14, <3>1, <3>2, LeafAdded
    <3> QED  BY <3>3 DEF Z
  <2> QED  BY <1>14, <2>7, <2>15 DEF Shaped, L, V, M
<1>16. Marked(u)
  <2>1. Masked(key.addr, Len(k)) = k
    BY <1>1 DEF k, PrefixOf
  <2>2. ASSUME NEW x \in DOMAIN u.heap
        PROVE  /\ u.heap[x].bit = Len(x)
               /\ u.heap[x].prefix # Null => Masked(u.heap[x].prefix, Len(x)) = x
               /\ u.heap[x].data # "null" => u.heap[x].prefix # Null
    <3>1. CASE x = k
      BY <1>1, <1>7, <1>14, <2>1, <3>1
    <3>2. CASE x = g
      BY <1>2, <1>10, <1>14, <3>2
    <3>3. CASE x \in N
      BY <1>2, <1>13, <3>3 DEF SameEntry, Marked
    <3> QED  BY <1>14, <3>1, <3>2, <3>3
  <2> QED  BY <2>2 DEF Marked
<1>17. Stored(u) = Stored(t) \cup {k}
  BY <1>1, <1>4, <1>7, <1>10, <1>13, <1>14 DEF Stored, SameEntry
<1>18. Glued(u)
  <2>1. ASSUME NEW x \in DOMAIN u.heap \ Stored(u), NEW c \in Bit PROVE Kids(u)[x][c] # Null
    <3>1. CASE x = g
      BY <1>1, <1>10, <1>14, <3>1, LinksAre
    <3>2. CASE x # g
      <4>1. x \in N /\ x \notin Stored(t)
        BY <1>14, <1>17, <2>1, <3>2
      <4>2. Kid(t.heap[x], c) # Null
        BY <1>2, <4>1, LinksAre DEF Glued
      <4>3. Kid(u.heap[x], c) # Null
        BY <1>2, <1>13, <4>1, <4>2
      <4> QED  BY <4>3, LinksAre
    <3> QED  BY <3>1, <3>2
  <2> QED  BY <2>1 DEF Glued
<1>19. Counted(u)
  <2>1. Counted(q)
    BY <1>2, <1>4, <1>11, OneMore
  <2>2. g \notin DOMAIN q.heap /\ DOMAIN u.heap = DOMAIN q.heap \cup {g} /\ u.active = q.active + 1
    BY <1>4, <1>11, <1>14
  <2> QED  BY <2>1, <2>2, OneMore
<1>20. TreeOk(u)
  BY <1>13, <1>15, <1>16, <1>18, <1>19 DEF TreeOk
<1>21. \A x \in DOMAIN u.heap :
         u.heap[x].data = IF x \in DOMAIN t.heap THEN t.heap[x].data ELSE "null"
  BY <1>4, <1>7, <1>10, <1>13, <1>14 DEF SameEntry
<1>22. Grown(t, u, key)
  BY <1>1, <1>2, <1>14, <1>17, <1>20, <1>21 DEF Grown, k, g
<1> QED  BY <1>22 DEF u, s, q, m, e, f, k, g, right, l, r, GlueTree

\* patricia_lookup does it.
LEMMA LookupGrows ==
  ASSUME NEW t, TreeOk(t), NEW key \in Key
  PROVE  Grown(t, patricia_lookup(t, key), key)
<1>1. CASE t.head = Null
  BY <1>1, FirstNode
<1>2. CASE t.head # Null
  <2> DEFINE pl == Place(t, key)
             test == pl.test
             n == pl.differ
             p == pl.at
             k == PrefixOf(key)
             u == patricia_lookup(t, key)
  <2>1. Fits(t, key, test, n, p)
    BY <1>2, Placed
  <2>2. t.heap[p].bit = Len(p)
    BY <2>1, PlaceBits
  <2>3. LookupAsserts(t, key)
    BY LookupSafe
  <2>4. IF n = key.len /\ t.heap[p].bit = key.len THEN TRUE
        ELSE /\ k \notin DOMAIN t.heap
             /\ IF t.heap[p].bit = n THEN Child(t.heap[p], key.addr) = Null
                ELSE n # key.len => Masked(key.addr, n) \notin DOMAIN t.heap
    BY <1>2, <2>3 DEF LookupAsserts
  <2>5. CASE n = key.len /\ Len(p) = key.len
    <3>1. u = FoundTree(t, key, p)
      BY <1>2, <2>2, <2>5 DEF patricia_lookup, FoundTree
    <3> QED  BY <2>1, <2>5, <3>1, NodeFound
  <2>6. CASE n # key.len /\ Len(p) = n
    <3>1. u = LeafTree(t, key, n, p)
      BY <1>2, <2>2, <2>6 DEF patricia_lookup, LeafTree
    <3> QED  BY <2>1, <2>2, <2>4, <2>6, <3>1, LeafGrown
  <2>7. CASE n = key.len /\ Len(p) # key.len
    <3>1. u = KeyTree(t, key, test, p)
      BY <1>2, <2>2, <2>7 DEF patricia_lookup, KeyTree, Above, Inner
    <3> QED  BY <2>1, <2>2, <2>4, <2>7, <3>1, KeyBetween
  <2>8. CASE n # key.len /\ Len(p) # n
    <3>1. u = GlueTree(t, key, n, p)
      BY <1>2, <2>2, <2>8 DEF patricia_lookup, GlueTree, Above, Inner
    <3> QED  BY <2>1, <2>2, <2>4, <2>8, <3>1, GlueBetween, SMTT(30)
  <2> QED  BY <2>5, <2>6, <2>7, <2>8
<1> QED  BY <1>1, <1>2

-----------------------------------------------------------------------------
(* patricia_remove.                                                        *)

\* A leaf is cut off.
CutLeaf(t, p) == Free(Relink(t, p, Null), p)

\* What is left is linked.
LEMMA LeafCut ==
  ASSUME NEW t, Typed(t), Shaped(t), NEW p \in DOMAIN t.heap,
         \A c \in Bit : Kid(t.heap[p], c) = Null
  PROVE  LET u == CutLeaf(t, p)
         IN /\ Typed(u) /\ Shaped(u)
            /\ DOMAIN u.heap = DOMAIN t.heap \ {p} /\ u.active = t.active - 1
            /\ \A x \in DOMAIN t.heap \ {p} :
                 /\ SameEntry(u.heap[x], t.heap[x])
                 /\ u.heap[x].parent = t.heap[x].parent
                 /\ \A c \in Bit : Kid(u.heap[x], c) =
                      IF Kid(t.heap[x], c) = p THEN Null ELSE Kid(t.heap[x], c)
<1> DEFINE N == DOMAIN t.heap
           r == Relink(t, p, Null)
           u == CutLeaf(t, p)
<1>1. /\ Typed(r)
      /\ DOMAIN r.heap = N /\ r.active = t.active
      /\ r.head = IF t.head = p THEN Null ELSE t.head
      /\ \A x \in N :
           /\ SameEntry(r.heap[x], t.heap[x]) /\ r.heap[x].parent = t.heap[x].parent
           /\ \A b \in Bit : Kid(r.heap[x], b) =
                IF Kid(t.heap[x], b) = p THEN Null ELSE Kid(t.heap[x], b)
  BY Relinked, Null \in Bits \cup {Null}
<1>2. u = Free(r, p)
  BY DEF CutLeaf
<1> HIDE DEF r
<1>3. /\ Typed(u)
      /\ DOMAIN u.heap = DOMAIN r.heap \ {p}
      /\ u.head = r.head /\ u.active = r.active - 1
      /\ \A x \in DOMAIN r.heap \ {p} : u.heap[x] = r.heap[x]
  BY <1>1, <1>2, Freed
<1> HIDE DEF u
<1>4. \A x \in N \ {p} :
        /\ SameEntry(u.heap[x], t.heap[x])
        /\ u.heap[x].parent = t.heap[x].parent
        /\ \A c \in Bit : Kid(u.heap[x], c) =
             IF Kid(t.heap[x], c) = p THEN Null ELSE Kid(t.heap[x], c)
  BY <1>1, <1>3
<1>5. Shaped(u)
  <2> DEFINE K == Kids(t)
             U == Ups(t)
             L == Kids(u)
             V == Ups(u)
             h == t.head
             j == u.head
             M == N
  <2>1. /\ \A x \in M : \A c \in Bit : K[x][c] = Kid(t.heap[x], c)
        /\ \A x \in M \ {p} : \A c \in Bit : L[x][c] = Kid(u.heap[x], c)
        /\ \A x \in M : U[x] = t.heap[x].parent
        /\ \A x \in M \ {p} : V[x] = u.heap[x].parent
    BY <1>1, <1>3, LinksAre
  <2>2. Linked(M, h, K, U) /\ p \in M /\ j = IF h = p THEN Null ELSE h
    BY <1>1, <1>3 DEF Shaped
  <2>3. \A x \in M \ {p} :
          /\ u.heap[x].parent = t.heap[x].parent
          /\ \A c \in Bit : Kid(u.heap[x], c) =
               IF Kid(t.heap[x], c) = p THEN Null ELSE Kid(t.heap[x], c)
    BY <1>4
  <2> HIDE DEF K, U, L, V, h, j, M
  <2>4. TakeLeaf(M, h, K, U, p, L, V, j)
    <3>1. \A c \in Bit : K[p][c] = Null
      BY <2>1, <2>2
    <3>2. \A x \in M \ {p} : \A c \in Bit : L[x][c] = IF K[x][c] = p THEN Null ELSE K[x][c]
      BY <2>1, <2>3
    <3>3. \A x \in M \ {p} : V[x] = U[x]
      BY <2>1, <2>3
    <3> QED  BY <2>2, <3>1, <3>2, <3>3 DEF TakeLeaf
  <2>5. Linked(M \ {p}, j, L, V)
    BY <2>2, <2>4, LeafTaken
  <2> QED  BY <1>1, <1>3, <2>5 DEF Shaped, L, V, M, j
<1> QED  BY <1>1, <1>3, <1>4, <1>5 DEF u

\* An only child takes the place of its parent.
LEMMA Hoisted ==
  ASSUME NEW t, Typed(t), Shaped(t), NEW p \in DOMAIN t.heap, NEW b \in Bit,
         NEW k, k = Kid(t.heap[p], b), k # Null,
         \A c \in Bit : c # b => Kid(t.heap[p], c) = Null
  PROVE  LET u == Hoist(t, p, k)
         IN /\ Typed(u) /\ Shaped(u)
            /\ DOMAIN u.heap = DOMAIN t.heap \ {p} /\ u.active = t.active - 1
            /\ \A x \in DOMAIN t.heap \ {p} :
                 /\ SameEntry(u.heap[x], t.heap[x])
                 /\ \A c \in Bit : Kid(u.heap[x], c) =
                      IF Kid(t.heap[x], c) = p THEN k ELSE Kid(t.heap[x], c)
<1> DEFINE N == DOMAIN t.heap
           q == t.heap[p].parent
           r == Relink(t, p, k)
           s == [r EXCEPT !.heap[k].parent = q]
           u == Hoist(t, p, k)
<1>1. k \in N /\ k \in Bits /\ k # p /\ q \in Bits \cup {Null}
  <2>1. Kids(t)[p][b] = k /\ Linked(N, t.head, Kids(t), Ups(t))
    BY LinksAre DEF Shaped
  <2>2. k \in N /\ Below(p, b, k) /\ k \in Bits
    BY <2>1 DEF Linked, KidLinked
  <2>3. t.heap[p] \in NodeRecord
    BY DEF Typed
  <2> QED  BY <2>2, <2>3 DEF Below, StrictlyCovers, NodeRecord
<1>2. /\ Typed(r)
      /\ DOMAIN r.heap = N /\ r.active = t.active
      /\ r.head = IF t.head = p THEN k ELSE t.head
      /\ \A x \in N :
           /\ SameEntry(r.heap[x], t.heap[x]) /\ r.heap[x].parent = t.heap[x].parent
           /\ \A c \in Bit : Kid(r.heap[x], c) =
                IF Kid(t.heap[x], c) = p THEN k ELSE Kid(t.heap[x], c)
  <2>1. k \in Bits \cup {Null}
    BY <1>1
  <2> QED  BY <2>1, Relinked
<1>3. u = Free(s, p)
  BY DEF Hoist
<1> HIDE DEF r, q
<1>4. Typed(r) /\ k \in DOMAIN r.heap /\ q \in Bits \cup {Null}
  BY <1>1, <1>2
<1>5. PICK n \in NodeRecord : /\ Edited(r, [r EXCEPT !.heap[k].parent = q], k, n)
                              /\ SameEntry(n, r.heap[k]) /\ n.parent = q
                              /\ \A c \in Bit : Kid(n, c) = Kid(r.heap[k], c)
  BY <1>4, EditParent
<1>6. /\ Typed(s) /\ DOMAIN s.heap = DOMAIN r.heap /\ s.head = r.head /\ s.active = r.active
      /\ s.heap[k] = n /\ \A x \in DOMAIN r.heap \ {k} : s.heap[x] = r.heap[x]
  BY <1>5 DEF Edited
<1> HIDE DEF s
<1>7. /\ Typed(u)
      /\ DOMAIN u.heap = DOMAIN s.heap \ {p}
      /\ u.head = s.head /\ u.active = s.active - 1
      /\ \A x \in DOMAIN s.heap \ {p} : u.heap[x] = s.heap[x]
  BY <1>3, <1>6, Freed
<1> HIDE DEF u
<1>8. ASSUME NEW x \in N \ {p}
      PROVE  /\ SameEntry(u.heap[x], t.heap[x])
             /\ u.heap[x].parent = IF x = k THEN q ELSE t.heap[x].parent
             /\ \A c \in Bit : Kid(u.heap[x], c) =
                  IF Kid(t.heap[x], c) = p THEN k ELSE Kid(t.heap[x], c)
  <2>1. u.heap[x] = IF x = k THEN n ELSE r.heap[x]
    BY <1>2, <1>6, <1>7
  <2>2. SameEntry(r.heap[x], t.heap[x]) /\ r.heap[x].parent = t.heap[x].parent
    BY <1>2
  <2>3. \A c \in Bit : Kid(r.heap[x], c) =
          IF Kid(t.heap[x], c) = p THEN k ELSE Kid(t.heap[x], c)
    BY <1>2
  <2>4. CASE x = k
    <3>1. u.heap[x] = n
      BY <2>1, <2>4
    <3> QED  BY <1>5, <2>2, <2>3, <2>4, <3>1 DEF SameEntry
  <2>5. CASE x # k
    BY <2>1, <2>2, <2>3, <2>5
  <2> QED  BY <2>4, <2>5
<1>9. Shaped(u)
  <2> DEFINE K == Kids(t)
             U == Ups(t)
             L == Kids(u)
             V == Ups(u)
             h == t.head
             j == u.head
             M == N
  <2>1. /\ \A x \in M : \A c \in Bit : K[x][c] = Kid(t.heap[x], c)
        /\ \A x \in M \ {p} : \A c \in Bit : L[x][c] = Kid(u.heap[x], c)
        /\ \A x \in M : U[x] = t.heap[x].parent
        /\ \A x \in M \ {p} : V[x] = u.heap[x].parent
    BY <1>2, <1>6, <1>7, LinksAre
  <2>2. Linked(M, h, K, U) /\ p \in M /\ j = (IF h = p THEN k ELSE h) /\ U[p] = q
    BY <1>2, <1>6, <1>7, LinksAre DEF Shaped, q
  <2>3. \A x \in M \ {p} :
          /\ u.heap[x].parent = IF x = k THEN q ELSE t.heap[x].parent
          /\ \A c \in Bit : Kid(u.heap[x], c) =
               IF Kid(t.heap[x], c) = p THEN k ELSE Kid(t.heap[x], c)
    BY <1>8
  <2> HIDE DEF K, U, L, V, h, j, M
  <2>4. GiveWay(M, h, K, U, p, b, k, L, V, j)
    <3>1. k = K[p][b] /\ \A c \in Bit : c # b => K[p][c] = Null
      BY <2>1, <2>2
    <3>2. \A x \in M \ {p} : \A c \in Bit : L[x][c] = IF K[x][c] = p THEN k ELSE K[x][c]
      BY <2>1, <2>3
    <3>3. \A x \in M \ {p} : V[x] = IF x = k THEN U[p] ELSE U[x]
      BY <2>1, <2>2, <2>3
    <3> QED  BY <2>2, <3>1, <3>2, <3>3 DEF GiveWay
  <2>5. Linked(M \ {p}, j, L, V)
    BY <2>2, <2>4, NodeGivesWay
  <2> QED  BY <1>2, <1>6, <1>7, <2>5 DEF Shaped, L, V, M, j
<1> QED  BY <1>2, <1>6, <1>7, <1>8, <1>9 DEF u

\* What points to p in a linked tree.
LEMMA PointsTo ==
  ASSUME NEW t, Typed(t), Shaped(t), NEW p \in DOMAIN t.heap
  PROVE  LET q == t.heap[p].parent
         IN /\ q = Null <=> t.head = p
            /\ q # Null => /\ q \in DOMAIN t.heap /\ StrictlyCovers(q, p) /\ q # p
                           /\ \E b \in Bit : Kid(t.heap[q], b) = p
                                             /\ \A c \in Bit : Kid(t.heap[q], c) = p => c = b
            /\ \A x \in DOMAIN t.heap : \A b \in Bit : Kid(t.heap[x], b) = p => x = q
<1> DEFINE N == DOMAIN t.heap
           K == Kids(t)
           U == Ups(t)
           q == t.heap[p].parent
<1>1. Linked(N, t.head, K, U) /\ U[p] = q
  BY LinksAre DEF Shaped
<1>2. \A x \in N : \A b \in Bit : K[x][b] = Kid(t.heap[x], b)
  BY LinksAre
<1>3. q # Null => q \in N /\ StrictlyCovers(q, p)
  BY <1>1 DEF Linked, UpLinked
<1> HIDE DEF K, U, q
<1>4. /\ U[p] = Null <=> t.head = p
      /\ U[p] # Null => \E b \in Bit : Below(U[p], b, p) /\ K[U[p]][b] = p
      /\ \A x \in N : \A b \in Bit : K[x][b] = p => x = U[p] /\ Below(x, b, p)
  BY <1>1, BothWays
<1>5. ASSUME q # Null
      PROVE  \E b \in Bit : Kid(t.heap[q], b) = p /\ \A c \in Bit : Kid(t.heap[q], c) = p => c = b
  <2>1. PICK b \in Bit : Below(q, b, p) /\ K[q][b] = p
    BY <1>1, <1>4, <1>5
  <2>2. \A c \in Bit : Kid(t.heap[q], c) = p => c = b
    BY <1>2, <1>3, <1>4, <1>5, <2>1 DEF Below
  <2> QED  BY <1>2, <1>3, <1>5, <2>1, <2>2
<1>6. \A x \in N : \A b \in Bit : Kid(t.heap[x], b) = p => x = q
  BY <1>1, <1>2, <1>4
<1>7. q = Null <=> t.head = p
  BY <1>1, <1>4
<1>8. q # Null => q # p
  BY <1>3 DEF StrictlyCovers
<1> QED  BY <1>3, <1>5, <1>6, <1>7, <1>8 DEF q

\* What patricia_remove leaves: a tree without the entry, and what was there but
\* for its node and the glue node above it.
Shrunk(t, u, p) ==
  /\ TreeOk(u)
  /\ DOMAIN u.heap \subseteq DOMAIN t.heap
  /\ \A x \in DOMAIN t.heap \ DOMAIN u.heap : x = p \/ (x \notin Stored(t) /\ StrictlyCovers(x, p))
  /\ Stored(u) = Stored(t) \ {p}
  /\ \A x \in DOMAIN u.heap : u.heap[x].data = IF x = p THEN "null" ELSE t.heap[x].data

\* The entries and the marks of the nodes that are left.
LEMMA EntriesLeft ==
  ASSUME NEW t, TreeOk(t), NEW u, DOMAIN u.heap \subseteq DOMAIN t.heap,
         \A x \in DOMAIN u.heap : SameEntry(u.heap[x], t.heap[x])
  PROVE  Marked(u) /\ Stored(u) = Stored(t) \cap DOMAIN u.heap
<1>1. Marked(t)
  BY DEF TreeOk
<1> QED  BY <1>1 DEF Marked, Stored, SameEntry

\* An entry with both children becomes a glue node.
BecomesGlue(t, p) == [t EXCEPT !.heap[p].prefix = Null, !.heap[p].data = "null"]

\* The tree is right, without the entry.
LEMMA EntryToGlue ==
  ASSUME NEW t, TreeOk(t), NEW p \in Stored(t), \A b \in Bit : Kid(t.heap[p], b) # Null
  PROVE  Shrunk(t, BecomesGlue(t, p), p)
<1> DEFINE u == BecomesGlue(t, p)
           m == t.heap[p]
           r == [m EXCEPT !.prefix = Null, !.data = "null"]
<1>1. p \in DOMAIN t.heap /\ Typed(t) /\ Marked(t) /\ Shaped(t) /\ Glued(t) /\ Counted(t)
  BY DEF TreeOk, Stored
<1>2. m \in NodeRecord
  BY <1>1 DEF Typed
<1>3. u = [t EXCEPT !.heap[p] = r]
  BY <1>1 DEF Typed, BecomesGlue
<1> HIDE DEF m, u
<1>4. /\ r \in NodeRecord /\ r.bit = m.bit /\ r.prefix = Null /\ r.data = "null"
      /\ r.parent = m.parent /\ r.l = m.l /\ r.r = m.r
  BY <1>2 DEF NodeRecord
<1> HIDE DEF r
<1>5. Edited(t, [t EXCEPT !.heap[p] = r], p, r)
  BY <1>1, <1>4, Edit
<1>6. /\ Typed(u) /\ DOMAIN u.heap = DOMAIN t.heap /\ u.head = t.head /\ u.active = t.active
      /\ u.heap[p] = r /\ \A x \in DOMAIN t.heap \ {p} : u.heap[x] = t.heap[x]
  BY <1>3, <1>5 DEF Edited
<1>7. \A x \in DOMAIN t.heap : /\ u.heap[x].bit = t.heap[x].bit
                               /\ u.heap[x].data = IF x = p THEN "null" ELSE t.heap[x].data
                               /\ u.heap[x].prefix = IF x = p THEN Null ELSE t.heap[x].prefix
                               /\ u.heap[x].parent = t.heap[x].parent
                               /\ u.heap[x].l = t.heap[x].l /\ u.heap[x].r = t.heap[x].r
  BY <1>4, <1>6 DEF m
<1>8. Shaped(u) /\ Kids(u) = Kids(t)
  BY <1>1, <1>6, <1>7, SameLinks
<1>9. Marked(u)
  BY <1>1, <1>6, <1>7 DEF Marked
<1>10. Stored(u) = Stored(t) \ {p}
  BY <1>6, <1>7 DEF Stored
<1>11. Glued(u)
  <2>1. \A b \in Bit : Kids(t)[p][b] # Null
    BY <1>1, LinksAre
  <2> QED  BY <1>1, <1>6, <1>8, <1>10, <2>1 DEF Glued
<1>12. Counted(u)
  BY <1>1, <1>6 DEF Counted
<1>13. TreeOk(u)
  BY <1>6, <1>8, <1>9, <1>11, <1>12 DEF TreeOk
<1> QED  BY <1>6, <1>7, <1>10, <1>13 DEF Shrunk, u

\* An entry with one child gives way to it.
LEMMA EntryGivesWay ==
  ASSUME NEW t, TreeOk(t), NEW p \in Stored(t), NEW b \in Bit,
         NEW k, k = Kid(t.heap[p], b), k # Null,
         \A c \in Bit : c # b => Kid(t.heap[p], c) = Null
  PROVE  Shrunk(t, Hoist(t, p, k), p)
<1> DEFINE u == Hoist(t, p, k)
<1>1. p \in DOMAIN t.heap /\ Typed(t) /\ Marked(t) /\ Shaped(t) /\ Glued(t) /\ Counted(t)
  BY DEF TreeOk, Stored
<1>2. /\ Typed(u) /\ Shaped(u)
      /\ DOMAIN u.heap = DOMAIN t.heap \ {p} /\ u.active = t.active - 1
      /\ \A x \in DOMAIN t.heap \ {p} :
           /\ SameEntry(u.heap[x], t.heap[x])
           /\ \A c \in Bit : Kid(u.heap[x], c) =
                IF Kid(t.heap[x], c) = p THEN k ELSE Kid(t.heap[x], c)
  BY <1>1, Hoisted
<1> HIDE DEF u
<1>3. Marked(u) /\ Stored(u) = Stored(t) \cap DOMAIN u.heap
  BY <1>2, EntriesLeft
<1>4. Glued(u)
  <2>1. ASSUME NEW x \in DOMAIN u.heap \ Stored(u), NEW c \in Bit PROVE Kids(u)[x][c] # Null
    <3>1. x \in DOMAIN t.heap \ {p} /\ x \notin Stored(t)
      BY <1>2, <1>3, <2>1
    <3>2. Kid(t.heap[x], c) # Null
      BY <1>1, <3>1, LinksAre DEF Glued
    <3>3. Kid(u.heap[x], c) # Null
      BY <1>2, <3>1, <3>2
    <3> QED  BY <3>3, LinksAre
  <2> QED  BY <2>1 DEF Glued
<1>5. Counted(u)
  BY <1>1, <1>2, OneLess
<1>6. TreeOk(u)
  BY <1>2, <1>3, <1>4, <1>5 DEF TreeOk
<1>7. Stored(u) = Stored(t) \ {p}
  BY <1>2, <1>3 DEF Stored
<1>8. \A x \in DOMAIN u.heap : u.heap[x].data = IF x = p THEN "null" ELSE t.heap[x].data
  BY <1>2 DEF SameEntry
<1> QED  BY <1>2, <1>6, <1>7, <1>8 DEF Shrunk, u

\* A leaf goes, with the glue node above it if it has one.
LEMMA LeafGoes ==
  ASSUME NEW t, TreeOk(t), NEW p \in Stored(t), \A c \in Bit : Kid(t.heap[p], c) = Null
  PROVE  Shrunk(t, RemoveLeaf(t, p), p)
<1> DEFINE N == DOMAIN t.heap
           q == t.heap[p].parent
           s == CutLeaf(t, p)
           sibling == IF t.heap[q].r = p THEN t.heap[q].l ELSE t.heap[q].r
           u == RemoveLeaf(t, p)
<1>1. p \in N /\ Typed(t) /\ Marked(t) /\ Shaped(t) /\ Glued(t) /\ Counted(t)
  BY DEF TreeOk, Stored
<1>2. /\ Typed(s) /\ Shaped(s)
      /\ DOMAIN s.heap = N \ {p} /\ s.active = t.active - 1
      /\ \A x \in N \ {p} :
           /\ SameEntry(s.heap[x], t.heap[x])
           /\ s.heap[x].parent = t.heap[x].parent
           /\ \A c \in Bit : Kid(s.heap[x], c) =
                IF Kid(t.heap[x], c) = p THEN Null ELSE Kid(t.heap[x], c)
  BY <1>1, LeafCut
<1>3. u = IF q = Null \/ t.heap[q].prefix # Null THEN s ELSE Hoist(s, q, sibling)
  BY DEF RemoveLeaf, CutLeaf
<1>4. /\ q # Null => /\ q \in N /\ StrictlyCovers(q, p) /\ q # p
                     /\ \E b \in Bit : Kid(t.heap[q], b) = p
                                       /\ \A c \in Bit : Kid(t.heap[q], c) = p => c = b
      /\ \A x \in N : \A b \in Bit : Kid(t.heap[x], b) = p => x = q
  BY <1>1, PointsTo
<1> HIDE DEF s, u, q
<1>5. Marked(s) /\ Stored(s) = Stored(t) \cap DOMAIN s.heap
  BY <1>2, EntriesLeft
<1>6. Counted(s)
  BY <1>1, <1>2, OneLess
<1>7. \A x \in N \ {p} : x \notin Stored(t) => \A c \in Bit : Kid(t.heap[x], c) # Null
  BY <1>1, LinksAre DEF Glued
<1>8. Stored(s) = Stored(t) \ {p}
  BY <1>2, <1>5 DEF Stored
<1>9. CASE q = Null \/ t.heap[q].prefix # Null
  <2>1. u = s
    BY <1>3, <1>9
  <2>2. Glued(s)
    <3>1. ASSUME NEW x \in DOMAIN s.heap \ Stored(s), NEW c \in Bit PROVE Kids(s)[x][c] # Null
      <4>1. x \in N \ {p} /\ x \notin Stored(t)
        BY <1>2, <1>5, <3>1
      <4>2. Kid(t.heap[x], c) # Null /\ x # q
        <5>1. Kid(t.heap[x], c) # Null
          BY <1>7, <4>1
        <5>2. x # Null /\ t.heap[x].prefix = Null
          BY <4>1, TreeNodes DEF Stored
        <5> QED  BY <1>9, <5>1, <5>2
      <4>3. Kid(t.heap[x], c) # p
        BY <1>4, <4>1, <4>2
      <4>4. Kid(s.heap[x], c) # Null
        BY <1>2, <4>1, <4>2, <4>3
      <4> QED  BY <4>4, LinksAre
    <3> QED  BY <3>1 DEF Glued
  <2>3. TreeOk(s)
    BY <1>2, <1>5, <1>6, <2>2 DEF TreeOk
  <2>4. \A x \in DOMAIN s.heap : s.heap[x].data = IF x = p THEN "null" ELSE t.heap[x].data
    BY <1>2 DEF SameEntry
  <2> QED  BY <1>2, <1>8, <2>1, <2>3, <2>4 DEF Shrunk, u
<1>10. CASE q # Null /\ t.heap[q].prefix = Null
  <2>1. u = Hoist(s, q, sibling)
    BY <1>3, <1>10
  <2>2. q \in N /\ q # p /\ q \notin Stored(t) /\ StrictlyCovers(q, p) /\ q \in DOMAIN s.heap
    BY <1>2, <1>4, <1>10 DEF Stored
  <2>3. PICK b \in Bit : Kid(t.heap[q], b) = p /\ \A c \in Bit : Kid(t.heap[q], c) = p => c = b
    BY <1>4, <1>10
  <2>4. PICK c \in Bit : c # b /\ \A d \in Bit : d = b \/ d = c
    BY DEF Bit
  <2>5. sibling = Kid(t.heap[q], c)
    <3>1. CASE b = 1
      BY <2>3, <2>4, <3>1 DEF Kid, Bit
    <3>2. CASE b = 0
      BY <2>3, <2>4, <3>2 DEF Kid, Bit
    <3> QED  BY <3>1, <3>2 DEF Bit
  <2> HIDE DEF sibling
  <2>6. sibling # Null /\ sibling # p
    BY <1>7, <2>2, <2>3, <2>4, <2>5
  <2>7. Kid(s.heap[q], c) = sibling /\ Kid(s.heap[q], b) = Null
    BY <1>2, <2>2, <2>3, <2>5, <2>6
  <2>8. \A d \in Bit : d # c => Kid(s.heap[q], d) = Null
    BY <2>4, <2>7
  <2>9. /\ Typed(u) /\ Shaped(u)
        /\ DOMAIN u.heap = DOMAIN s.heap \ {q} /\ u.active = s.active - 1
        /\ \A x \in DOMAIN s.heap \ {q} :
             /\ SameEntry(u.heap[x], s.heap[x])
             /\ \A d \in Bit : Kid(u.heap[x], d) =
                  IF Kid(s.heap[x], d) = q THEN sibling ELSE Kid(s.heap[x], d)
    BY <1>2, <2>1, <2>2, <2>6, <2>7, <2>8, Hoisted
  <2>10. DOMAIN u.heap \subseteq DOMAIN t.heap /\ \A x \in DOMAIN u.heap : SameEntry(u.heap[x], t.heap[x])
    BY <1>2, <2>9 DEF SameEntry
  <2>11. Marked(u) /\ Stored(u) = Stored(t) \cap DOMAIN u.heap
    BY <2>10, EntriesLeft
  <2>12. Stored(u) = Stored(t) \ {p}
    BY <1>2, <2>2, <2>9, <2>11 DEF Stored
  <2>13. Glued(u)
    <3>1. ASSUME NEW x \in DOMAIN u.heap \ Stored(u), NEW d \in Bit PROVE Kids(u)[x][d] # Null
      <4>1. x \in N \ {p} /\ x \notin Stored(t) /\ x # q /\ x \in DOMAIN s.heap
        BY <1>2, <2>9, <2>12, <3>1
      <4>2. Kid(t.heap[x], d) # Null /\ Kid(t.heap[x], d) # p
        BY <1>4, <1>7, <4>1
      <4>3. Kid(s.heap[x], d) # Null
        BY <1>2, <4>1, <4>2
      <4>4. Kid(u.heap[x], d) # Null
        BY <2>6, <2>9, <4>1, <4>3
      <4> QED  BY <4>4, LinksAre
    <3> QED  BY <3>1 DEF Glued
  <2>14. Counted(u)
    BY <1>6, <2>2, <2>9, OneLess
  <2>15. TreeOk(u)
    BY <2>9, <2>11, <2>13, <2>14 DEF TreeOk
  <2>16. \A x \in DOMAIN u.heap : u.heap[x].data = IF x = p THEN "null" ELSE t.heap[x].data
    BY <1>2, <2>9, <2>10 DEF SameEntry
  <2>17. \A x \in N \ DOMAIN u.heap : x = p \/ (x \notin Stored(t) /\ StrictlyCovers(x, p))
    BY <1>2, <2>2, <2>9
  <2> QED  BY <2>10, <2>12, <2>15, <2>16, <2>17 DEF Shrunk, u
<1> QED  BY <1>9, <1>10

\* patricia_remove does it, and none of its assertions can fail.
LEMMA RemoveShrinks ==
  ASSUME NEW t, TreeOk(t), NEW p \in Stored(t)
  PROVE  Shrunk(t, patricia_remove(t, p), p) /\ RemoveAsserts(t, p)
<1> DEFINE n == t.heap[p]
           u == patricia_remove(t, p)
<1>1. p \in DOMAIN t.heap /\ Typed(t) /\ Shaped(t)
  BY DEF TreeOk, Stored
<1>2. Shrunk(t, u, p)
  <2>1. CASE n.r # Null /\ n.l # Null
    <3>1. u = BecomesGlue(t, p)
      BY <2>1 DEF patricia_remove, BecomesGlue
    <3> HIDE DEF u
    <3> QED  BY <2>1, <3>1, EntryToGlue DEF Kid
  <2>2. CASE n.r = Null /\ n.l = Null
    <3>1. u = RemoveLeaf(t, p)
      BY <2>2 DEF patricia_remove
    <3> HIDE DEF u
    <3> QED  BY <2>2, <3>1, LeafGoes DEF Kid
  <2>3. CASE n.r # Null /\ n.l = Null
    <3>1. u = Hoist(t, p, n.r)
      BY <2>3 DEF patricia_remove
    <3>2. 1 \in Bit /\ n.r = Kid(n, 1) /\ \A c \in Bit : c # 1 => Kid(n, c) = Null
      BY <2>3 DEF Kid, Bit
    <3> HIDE DEF u
    <3> QED  BY <2>3, <3>1, <3>2, EntryGivesWay
  <2>4. CASE n.r = Null /\ n.l # Null
    <3>1. u = Hoist(t, p, n.l)
      BY <2>4 DEF patricia_remove
    <3>2. 0 \in Bit /\ n.l = Kid(n, 0) /\ \A c \in Bit : c # 0 => Kid(n, c) = Null
      BY <2>4 DEF Kid, Bit
    <3> HIDE DEF u
    <3> QED  BY <2>4, <3>1, <3>2, EntryGivesWay
  <2> QED  BY <2>1, <2>2, <2>3, <2>4
<1>3. RemoveAsserts(t, p)
  <2> DEFINE linked(c) == LET q == t.heap[c].parent
                          IN IF q = Null THEN t.head = c ELSE c \in {t.heap[q].l, t.heap[q].r}
  <2>1. ASSUME NEW c \in DOMAIN t.heap
        PROVE  linked(c) /\ (t.heap[c].parent # Null => t.heap[c].parent \in DOMAIN t.heap)
    BY <1>1, PointsTo DEF Kid
  <2>2. RemoveAsserts(t, p) = (linked(p) /\ ((n.l = Null /\ n.r = Null /\ n.parent # Null)
                                             => linked(n.parent)))
    BY DEF RemoveAsserts
  <2> HIDE DEF linked
  <2> QED  BY <1>1, <2>1, <2>2
<1> QED  BY <1>2, <1>3

-----------------------------------------------------------------------------
(* What a call does to the rib.                                            *)

\* Every entry has a map node; only a call in progress leaves one without.
Filled(t) == \A p \in Stored(t) : t.heap[p].data # "null"
TableOf(t) == [p \in RibPrefix |-> IF p \in Stored(t) THEN t.heap[p].data ELSE "none"]

\* Every sequence of at most MaxBits bits is a prefix.
LEMMA PrefixesAre == RibPrefix = Bits
<1>1. ASSUME NEW k \in Key PROVE PrefixOf(k) \in Bits
  BY MaskedBits DEF Key, PrefixOf
<1>2. ASSUME NEW s \in Bits PROVE s \in RibPrefix
  <2> DEFINE a == [i \in 1..MaxBits |-> IF i <= Len(s) THEN s[i] ELSE 0]
             k == [addr |-> a, len |-> Len(s)]
             m == Masked(a, Len(s))
  <2>1. s \in Seq(Bit) /\ Len(s) \in 0..MaxBits /\ MaxBits \in Nat
    BY MaxBitsAssumption DEF Bits
  <2>2. \A i \in 1..Len(s) : i \in 1..MaxBits /\ s[i] \in Bit
    BY <2>1
  <2>3. a \in Address
    <3>1. \A i \in 1..MaxBits : a[i] \in {0, 1}
      BY <2>1, <2>2 DEF Bit
    <3> QED  BY <3>1 DEF Address
  <2>4. \A i \in 1..Len(s) : a[i] = s[i]
    BY <2>2
  <2>5. k \in Key
    BY <2>1, <2>3 DEF Key
  <2> HIDE DEF a
  <2>6. m \in Seq(Bit) /\ Len(m) = Len(s) /\ \A i \in 1..Len(s) : m[i] = a[i]
    BY <2>1, <2>3, MaskedBits DEF Bits
  <2> HIDE DEF m
  <2>7. Covers(m, s) /\ Covers(s, m)
    BY <2>1, <2>4, <2>6, CoversBits
  <2>8. m = s
    BY <2>1, <2>6, <2>7, CoversBoth
  <2>9. PrefixOf(k) = m
    BY DEF PrefixOf, m
  <2> QED  BY <2>5, <2>8, <2>9 DEF RibPrefix
<1> QED  BY <1>1, <1>2 DEF RibPrefix

\* An entry's data is set.
SetData(t, p, s) == [t EXCEPT !.heap[p].data = s]

\* Nothing else changes by that.
LEMMA DataSet ==
  ASSUME NEW t, TreeOk(t), NEW p \in Stored(t), NEW s \in {"static", "timed"}
  PROVE  LET u == SetData(t, p, s)
         IN /\ TreeOk(u) /\ DOMAIN u.heap = DOMAIN t.heap /\ Stored(u) = Stored(t)
            /\ \A x \in DOMAIN t.heap :
                 u.heap[x].data = IF x = p THEN s ELSE t.heap[x].data
<1> DEFINE u == SetData(t, p, s)
           m == t.heap[p]
           r == [m EXCEPT !.data = s]
<1>1. /\ p \in DOMAIN t.heap /\ m.prefix # Null
      /\ Typed(t) /\ Marked(t) /\ Shaped(t) /\ Glued(t) /\ Counted(t)
  BY DEF TreeOk, Stored
<1>2. m \in NodeRecord
  BY <1>1 DEF Typed
<1>3. u = [t EXCEPT !.heap[p] = r]
  BY <1>1 DEF Typed, SetData
<1> HIDE DEF m, u
<1>4. /\ r \in NodeRecord /\ r.bit = m.bit /\ r.prefix = m.prefix /\ r.data = s
      /\ r.parent = m.parent /\ r.l = m.l /\ r.r = m.r
  BY <1>2 DEF NodeRecord
<1> HIDE DEF r
<1>5. Edited(t, [t EXCEPT !.heap[p] = r], p, r)
  BY <1>1, <1>4, Edit
<1>6. /\ Typed(u) /\ DOMAIN u.heap = DOMAIN t.heap /\ u.head = t.head /\ u.active = t.active
      /\ u.heap[p] = r /\ \A x \in DOMAIN t.heap \ {p} : u.heap[x] = t.heap[x]
  BY <1>3, <1>5 DEF Edited
<1>7. \A x \in DOMAIN t.heap : /\ u.heap[x].bit = t.heap[x].bit
                               /\ u.heap[x].data = IF x = p THEN s ELSE t.heap[x].data
                               /\ u.heap[x].prefix = t.heap[x].prefix
                               /\ u.heap[x].parent = t.heap[x].parent
                               /\ u.heap[x].l = t.heap[x].l /\ u.heap[x].r = t.heap[x].r
  BY <1>4, <1>6 DEF m
<1>8. Shaped(u) /\ Kids(u) = Kids(t)
  BY <1>1, <1>6, <1>7, SameLinks
<1>9. Marked(u)
  BY <1>1, <1>6, <1>7 DEF Marked, m
<1>10. Stored(u) = Stored(t)
  BY <1>6, <1>7 DEF Stored
<1>11. Glued(u)
  BY <1>1, <1>6, <1>8, <1>10 DEF Glued
<1>12. Counted(u)
  BY <1>1, <1>6 DEF Counted
<1>13. TreeOk(u)
  BY <1>6, <1>8, <1>9, <1>11, <1>12 DEF TreeOk
<1> QED  BY <1>6, <1>7, <1>10, <1>13 DEF u

\* The tree after update_mapnode.
UpdatedTree(t, key, s) ==
  LET u == patricia_lookup(t, key)
  IN IF u.heap[PrefixOf(key)].data = "static" THEN u ELSE SetData(u, PrefixOf(key), s)

\* It is a tree, and its table has at most one value changed, not a static one.
LEMMA UpdateKeeps ==
  ASSUME NEW t, TreeOk(t), Filled(t), NEW key \in Key, NEW s \in {"static", "timed"}
  PROVE  LET w == UpdatedTree(t, key, s)
             p == PrefixOf(key)
         IN /\ TreeOk(w) /\ Filled(w) /\ DOMAIN t.heap \subseteq DOMAIN w.heap
            /\ p \in RibPrefix
            /\ \/ TableOf(w) = TableOf(t)
               \/ /\ TableOf(t)[p] # "static"
                  /\ TableOf(w) = [TableOf(t) EXCEPT ![p] = s]
<1> DEFINE p == PrefixOf(key)
           u == patricia_lookup(t, key)
           w == UpdatedTree(t, key, s)
<1>1. /\ TreeOk(u)
      /\ DOMAIN t.heap \subseteq DOMAIN u.heap
      /\ Stored(u) = Stored(t) \cup {p}
      /\ \A x \in DOMAIN u.heap :
           u.heap[x].data = IF x \in DOMAIN t.heap THEN t.heap[x].data ELSE "null"
  BY LookupGrows DEF Grown
<1>2. w = IF u.heap[p].data = "static" THEN u ELSE SetData(u, p, s)
  BY DEF UpdatedTree
<1>3. p \in RibPrefix
  BY DEF RibPrefix
<1>4. /\ \A x \in Stored(t) : x \in DOMAIN t.heap
      /\ \A x \in Stored(u) : x \in DOMAIN u.heap
      /\ \A x \in DOMAIN t.heap \ Stored(t) : t.heap[x].data = "null"
  BY DEF Stored, TreeOk, Marked
<1> HIDE DEF p, u, w
<1>5. CASE u.heap[p].data = "static"
  <2>1. w = u
    BY <1>2, <1>5
  <2>2. p \in Stored(t)
    BY <1>1, <1>4, <1>5
  <2>3. Stored(u) = Stored(t) /\ \A x \in Stored(t) : u.heap[x].data = t.heap[x].data
    BY <1>1, <1>4, <2>2
  <2>4. Filled(u) /\ TableOf(u) = TableOf(t)
    BY <2>3 DEF Filled, TableOf
  <2> QED  BY <1>1, <1>3, <2>1, <2>4 DEF p, w
<1>6. CASE u.heap[p].data # "static"
  <2>1. w = SetData(u, p, s) /\ p \in Stored(u)
    BY <1>1, <1>2, <1>6
  <2>2. /\ TreeOk(w) /\ DOMAIN w.heap = DOMAIN u.heap /\ Stored(w) = Stored(u)
        /\ \A x \in DOMAIN u.heap :
             w.heap[x].data = IF x = p THEN s ELSE u.heap[x].data
    BY <1>1, <2>1, DataSet
  <2>3. \A x \in Stored(w) : w.heap[x].data = IF x = p THEN s ELSE t.heap[x].data
    BY <1>1, <1>4, <2>2
  <2>4. Stored(w) = Stored(t) \cup {p}
    BY <1>1, <2>2
  <2>5. Filled(w)
    BY <2>3, <2>4 DEF Filled
  <2>6. TableOf(t)[p] # "static"
    BY <1>1, <1>3, <1>4, <1>6, <2>1 DEF TableOf
  <2>7. TableOf(w) = [TableOf(t) EXCEPT ![p] = s]
    BY <1>3, <2>3, <2>4 DEF TableOf
  <2> QED  BY <1>1, <1>3, <2>2, <2>5, <2>6, <2>7 DEF p, w
<1> QED  BY <1>5, <1>6

\* The tree after patricia_remove.
LEMMA RemoveKeeps ==
  ASSUME NEW t, TreeOk(t), Filled(t), NEW p \in Stored(t)
  PROVE  LET u == patricia_remove(t, p)
         IN /\ TreeOk(u) /\ Filled(u)
            /\ p \in RibPrefix /\ TableOf(t)[p] # "none"
            /\ TableOf(u) = [TableOf(t) EXCEPT ![p] = "none"]
<1> DEFINE u == patricia_remove(t, p)
<1>1. Shrunk(t, u, p)
  BY RemoveShrinks
<1> HIDE DEF u
<1>2. /\ TreeOk(u) /\ Stored(u) = Stored(t) \ {p}
      /\ \A x \in DOMAIN u.heap : u.heap[x].data = IF x = p THEN "null" ELSE t.heap[x].data
  BY <1>1 DEF Shrunk
<1>3. \A x \in Stored(u) : x \in DOMAIN u.heap
  BY DEF Stored
<1>4. Filled(u)
  BY <1>2, <1>3 DEF Filled
<1>5. p \in RibPrefix
  BY TreeNodes, PrefixesAre DEF Stored
<1>6. TableOf(t)[p] # "none"
  <2>1. t.heap[p].data \in {"null", "static", "timed"}
    BY DEF TreeOk, Typed, Stored, NodeRecord
  <2> QED  BY <1>5, <2>1 DEF TableOf
<1>7. TableOf(u) = [TableOf(t) EXCEPT ![p] = "none"]
  BY <1>2, <1>3, <1>5 DEF TableOf
<1> QED  BY <1>2, <1>4, <1>5, <1>6, <1>7 DEF u

\* What a search finds is an entry, an entry's own prefix finds it.
LEMMA SearchStored ==
  ASSUME NEW t, TreeOk(t), NEW key \in Key, patricia_search_best(t, key) # Null
  PROVE  patricia_search_best(t, key) \in Stored(t)
<1>1. Stored(t) \in SUBSET Seq(Bit) /\ PrefixOf(key) \in Seq(Bit)
  BY TreeNodes, MaskedBits DEF Stored, Key, PrefixOf, Bits
<1>2. /\ Covering(Stored(t), PrefixOf(key)) # {}
      /\ patricia_search_best(t, key) = LongestMatch(Stored(t), PrefixOf(key))
  BY SearchFinds
<1> QED  BY <1>1, <1>2, LongestMatchCovers DEF Covering

\* What delete_mapnode finds for a visited node is that node.
LEMMA SearchItself ==
  ASSUME NEW t, TreeOk(t), NEW p \in Stored(t)
  PROVE  patricia_search_best(t, [addr |-> t.heap[p].prefix, len |-> t.heap[p].bit]) = p
<1> DEFINE key == [addr |-> t.heap[p].prefix, len |-> t.heap[p].bit]
<1>1. key \in Key /\ PrefixOf(key) = p
  BY StoredBits DEF Key, PrefixOf
<1> HIDE DEF key
<1>2. Stored(t) \in SUBSET Seq(Bit)
  BY TreeNodes DEF Stored
<1>3. p \in Covering(Stored(t), p)
  BY <1>2, CoversItself DEF Covering
<1>4. patricia_search_best(t, key) = LongestMatch(Stored(t), p)
  BY <1>1, <1>3, SearchFinds
<1> QED  BY <1>2, <1>4, LongestMatchSelf DEF key

-----------------------------------------------------------------------------
(* The walk.                                                               *)

\* The pointers a walk w holds: into the nodes N, none without rn, and none of
\* them at or below another.
Pointers(w) == (IF w.rn = Null THEN {} ELSE {w.rn}) \cup Range(w.stack)
Standing(w, N) ==
  /\ w = [rn |-> w.rn, stack |-> w.stack, wild |-> w.wild]
  /\ w.wild \in BOOLEAN /\ w.rn \in N \cup {Null} /\ w.stack \in Seq(N)
  /\ w.rn = Null => w.stack = <<>>
  /\ w.wild => w.rn = Null
Apart(w) ==
  \A i \in 1..Len(w.stack) : /\ ~Comparable(w.rn, w.stack[i])
                             /\ \A j \in 1..Len(w.stack) : i # j => ~Comparable(w.stack[i], w.stack[j])

\* Every entry owed is reached from one of the pointers, none seen is.
Reaches(w, E) == \A o \in E : \E h \in Pointers(w) : Covers(h, o)
Leaves(w, E) == \A x \in E : \A h \in Pointers(w) : ~Covers(h, x)

TreeInv == TreeOk(tree) /\ Filled(tree)
WalkInv ==
  /\ Standing(walk, DOMAIN tree.heap) /\ Apart(walk)
  /\ owed \subseteq Due /\ Reaches(walk, owed)
  /\ seen \subseteq Bits /\ Leaves(walk, seen)
Inv == TreeInv /\ WalkInv

\* The members of a stack, of what is left of it, and with one more.
LEMMA RangeIs ==
  ASSUME NEW N, NEW s \in Seq(N)
  PROVE  /\ Range(s) = {s[i] : i \in 1..Len(s)} /\ Range(s) \subseteq N
         /\ \A x \in Range(s) : \E i \in 1..Len(s) : x = s[i]
         /\ \A i \in 1..Len(s) : s[i] \in Range(s)
  BY DEF Range

\* What is popped, and what stays.
LEMMA StackTop ==
  ASSUME NEW N, NEW s \in Seq(N), s # <<>>
  PROVE  /\ Head(s) = s[1] /\ 1 \in 1..Len(s) /\ Head(s) \in N
         /\ Tail(s) \in Seq(N) /\ Len(Tail(s)) = Len(s) - 1
         /\ \A i \in 1..Len(Tail(s)) : i + 1 \in 1..Len(s) /\ Tail(s)[i] = s[i + 1]
<1>1. Len(s) \in Nat /\ Len(s) # 0
  OBVIOUS
<1>2. Head(s) = s[1] /\ Tail(s) \in Seq(N) /\ Len(Tail(s)) = Len(s) - 1
  BY <1>1
<1>3. \A i \in 1..Len(s) - 1 : Tail(s)[i] = s[i + 1]
  BY <1>1
<1> QED  BY <1>1, <1>2, <1>3

\* What is on top of a stack with one more.
LEMMA StackPush ==
  ASSUME NEW N, NEW s \in Seq(N), NEW c \in N
  PROVE  LET t == <<c>> \o s
         IN /\ t \in Seq(N) /\ Len(t) = Len(s) + 1 /\ t[1] = c
            /\ \A i \in 1..Len(s) : t[i + 1] = s[i]
            /\ \A i \in 1..Len(t) : i = 1 \/ (i - 1 \in 1..Len(s) /\ t[i] = s[i - 1])
<1> DEFINE t == <<c>> \o s
<1>1. <<c>> \in Seq(N) /\ Len(<<c>>) = 1 /\ <<c>>[1] = c /\ Len(s) \in Nat
  OBVIOUS
<1>2. t \in Seq(N) /\ Len(t) = 1 + Len(s)
  BY <1>1, ConcatProperties
<1>3. \A i \in 1..Len(s) + 1 : t[i] = IF i <= 1 THEN <<c>>[i] ELSE s[i - 1]
  BY <1>1, <1>2, ConcatProperties
<1> HIDE DEF t
<1>4. t[1] = c
  BY <1>1, <1>3
<1>5. \A i \in 1..Len(s) : t[i + 1] = s[i]
  <2> SUFFICES ASSUME NEW i \in 1..Len(s) PROVE t[i + 1] = s[i]
    OBVIOUS
  <2>1. i + 1 \in 1..Len(s) + 1 /\ ~(i + 1 <= 1) /\ (i + 1) - 1 = i
    BY <1>1
  <2> QED  BY <1>3, <2>1
<1>6. \A i \in 1..Len(s) + 1 : i = 1 \/ (i - 1 \in 1..Len(s) /\ t[i] = s[i - 1])
  BY <1>1, <1>3
<1> QED  BY <1>1, <1>2, <1>4, <1>5, <1>6 DEF t

\* The record of a walk that moves.
LEMMA Moved ==
  ASSUME NEW w, w = [rn |-> w.rn, stack |-> w.stack, wild |-> w.wild], NEW a, NEW s
  PROVE  /\ [w EXCEPT !.rn = a] = [rn |-> a, stack |-> w.stack, wild |-> w.wild]
         /\ [w EXCEPT !.rn = a, !.stack = s] = [rn |-> a, stack |-> s, wild |-> w.wild]
<1> DEFINE r == [w EXCEPT !.rn = a]
<1>1. [w EXCEPT !.rn = a, !.stack = s] = [r EXCEPT !.stack = s]
  OBVIOUS
<1>2. r = [rn |-> a, stack |-> w.stack, wild |-> w.wild]
  OBVIOUS
<1> HIDE DEF r
<1>3. [r EXCEPT !.stack = s] = [rn |-> a, stack |-> s, wild |-> w.wild]
  BY <1>2
<1> QED  BY <1>1, <1>2, <1>3 DEF r

\* Back to the stack.
LEMMA Popped ==
  ASSUME NEW N, Standing(walk, N), Apart(walk), walk.rn # Null, Null \notin N
  PROVE  /\ Standing(Pop, N) /\ Apart(Pop)
         /\ Pointers(Pop) = Range(walk.stack)
<1> DEFINE s == walk.stack
<1>1. /\ walk = [rn |-> walk.rn, stack |-> s, wild |-> FALSE]
      /\ s \in Seq(N)
  BY DEF Standing
<1>2. CASE s = <<>>
  <2>1. Pop = [rn |-> Null, stack |-> <<>>, wild |-> FALSE]
    BY <1>2 DEF Pop, Idle
  <2> DEFINE w == Pop
  <2> HIDE DEF w
  <2>2. w = [rn |-> Null, stack |-> <<>>, wild |-> FALSE]
    BY <2>1 DEF w
  <2>3. w.rn = Null /\ w.stack = <<>> /\ w.wild = FALSE /\ Len(<<>>) = 0 /\ <<>> \in Seq(N)
    BY <2>2
  <2>4. Range(<<>>) = {}
    BY DEF Range
  <2>5. Standing(w, N)
    BY <2>2, <2>3 DEF Standing
  <2>6. Apart(w)
    BY <2>3 DEF Apart
  <2>7. Pointers(w) = Range(s)
    BY <1>2, <2>3, <2>4 DEF Pointers
  <2> QED  BY <2>5, <2>6, <2>7 DEF w
<1>3. CASE s # <<>>
  <2> DEFINE w == Pop
  <2>1. w = [walk EXCEPT !.rn = Head(s), !.stack = Tail(s)]
    BY <1>3 DEF Pop
  <2>2. w = [rn |-> Head(s), stack |-> Tail(s), wild |-> FALSE]
    <3>1. walk = [rn |-> walk.rn, stack |-> walk.stack, wild |-> walk.wild] /\ walk.wild = FALSE
      BY DEF Standing
    <3> QED  BY <2>1, <3>1, Moved
  <2>3. /\ Head(s) = s[1] /\ 1 \in 1..Len(s) /\ Head(s) \in N
        /\ Tail(s) \in Seq(N) /\ Len(Tail(s)) = Len(s) - 1
        /\ \A i \in 1..Len(Tail(s)) : i + 1 \in 1..Len(s) /\ Tail(s)[i] = s[i + 1]
    BY <1>1, <1>3, StackTop
  <2>4. \A i, j \in 1..Len(s) : i # j => ~Comparable(s[i], s[j])
    BY DEF Apart
  <2> HIDE DEF w, s
  <2>5. w.rn = Head(s) /\ w.stack = Tail(s) /\ w.wild = FALSE
    BY <2>2
  <2>6. Standing(w, N)
    BY <2>2, <2>3, <2>5 DEF Standing
  <2>7. Apart(w)
    <3>1. ASSUME NEW i \in 1..Len(Tail(s))
          PROVE  /\ ~Comparable(Head(s), Tail(s)[i])
                 /\ \A j \in 1..Len(Tail(s)) : i # j => ~Comparable(Tail(s)[i], Tail(s)[j])
      <4>1. i + 1 \in 1..Len(s) /\ Tail(s)[i] = s[i + 1] /\ i + 1 # 1
        BY <2>3
      <4>2. ~Comparable(Head(s), Tail(s)[i])
        BY <2>3, <2>4, <4>1
      <4>3. ASSUME NEW j \in 1..Len(Tail(s)), i # j PROVE ~Comparable(Tail(s)[i], Tail(s)[j])
        <5>1. j + 1 \in 1..Len(s) /\ Tail(s)[j] = s[j + 1] /\ i + 1 # j + 1
          BY <2>3, <4>3
        <5> QED  BY <2>4, <4>1, <5>1
      <4> QED  BY <4>2, <4>3
    <3> QED  BY <2>5, <3>1 DEF Apart
  <2>8. Pointers(w) = Range(s)
    <3>1. Pointers(w) = {s[1]} \cup Range(Tail(s))
      BY <2>3, <2>5 DEF Pointers
    <3>2. \A i \in 1..Len(s) : i = 1 \/ (i - 1 \in 1..Len(Tail(s)) /\ s[i] = Tail(s)[i - 1])
      <4> SUFFICES ASSUME NEW i \in 1..Len(s), i # 1
                   PROVE  i - 1 \in 1..Len(Tail(s)) /\ s[i] = Tail(s)[i - 1]
        OBVIOUS
      <4>1. i - 1 \in 1..Len(Tail(s)) /\ (i - 1) + 1 = i
        BY <1>1, <2>3 DEF s
      <4> QED  BY <2>3, <4>1
    <3>3. Range(Tail(s)) \subseteq Range(s)
      <4>1. ASSUME NEW x \in Range(Tail(s)) PROVE x \in Range(s)
        <5>1. PICK i \in 1..Len(Tail(s)) : x = Tail(s)[i]
          <6> DEFINE r == Tail(s)
          <6>1. r \in Seq(N) /\ x \in Range(r)
            BY <2>3
          <6> HIDE DEF r
          <6>2. \E i \in 1..Len(r) : x = r[i]
            BY <6>1, RangeIs
          <6> QED  BY <6>2 DEF r
        <5> QED  BY <1>1, <2>3, <5>1, RangeIs DEF s
      <4> QED  BY <4>1
    <3>4. Range(s) \subseteq {s[1]} \cup Range(Tail(s))
      <4>1. ASSUME NEW x \in Range(s) PROVE x = s[1] \/ x \in Range(Tail(s))
        <5>1. PICK i \in 1..Len(s) : x = s[i]
          BY <1>1, RangeIs DEF s
        <5> QED  BY <2>3, <3>2, <5>1, RangeIs
      <4> QED  BY <4>1
    <3>5. s[1] \in Range(s)
      BY <1>1, <2>3, RangeIs DEF s
    <3> QED  BY <3>1, <3>3, <3>4, <3>5
  <2> QED  BY <2>6, <2>7, <2>8 DEF w, s
<1> QED  BY <1>2, <1>3


\* What is not comparable with p is not with anything below p, and the nodes on
\* the two sides of p are not comparable.
LEMMA StillApart ==
  \A p, q, r \in Seq(Bit) : Covers(p, q) /\ ~Comparable(p, r) => ~Comparable(q, r)
<1> SUFFICES ASSUME NEW p \in Seq(Bit), NEW q \in Seq(Bit), NEW r \in Seq(Bit),
                    Covers(p, q), Covers(q, r) \/ Covers(r, q)
             PROVE  Covers(p, r) \/ Covers(r, p)
  BY DEF Comparable
<1>1. CASE Covers(q, r)
  BY <1>1, CoversThrough
<1>2. CASE Covers(r, q)
  BY <1>2, OneOrOther DEF StrictlyCovers
<1> QED  BY <1>1, <1>2

\* Nodes on the two sides of one are not comparable.
LEMMA SidesApart ==
  \A p, q, r \in Seq(Bit) : Below(p, 0, q) /\ Below(p, 1, r) => ~Comparable(q, r)
<1> SUFFICES ASSUME NEW p \in Seq(Bit), NEW q \in Seq(Bit), NEW r \in Seq(Bit),
                    Below(p, 0, q), Below(p, 1, r), Covers(q, r) \/ Covers(r, q)
             PROVE  FALSE
  BY DEF Comparable
<1>1. 0 \in Bit /\ 1 \in Bit
  BY DEF Bit
<1>2. CASE Covers(q, r)
  <2>1. Below(p, 0, r)
    BY <1>1, <1>2, BelowDown
  <2>2. StrictlyCovers(p, r)
    BY DEF Below
  <2>3. PICK b \in Bit : \A c : Below(p, c, r) => c = b
    BY <2>2, BelowOne
  <2> QED  BY <2>1, <2>3
<1>3. CASE Covers(r, q)
  <2>1. Below(p, 1, q)
    BY <1>1, <1>3, BelowDown
  <2>2. StrictlyCovers(p, q)
    BY DEF Below
  <2>3. PICK b \in Bit : \A c : Below(p, c, q) => c = b
    BY <2>2, BelowOne
  <2> QED  BY <2>1, <2>3
<1> QED  BY <1>2, <1>3

\* One more waits on the stack.
LEMMA StackApart ==
  ASSUME NEW N, NEW s \in Seq(N), NEW c \in N,
         \A x \in Range(s) : ~Comparable(c, x),
         \A i, j \in 1..Len(s) : i # j => ~Comparable(s[i], s[j])
  PROVE  LET t == <<c>> \o s
         IN /\ t \in Seq(N) /\ Range(t) = {c} \cup Range(s)
            /\ \A i, j \in 1..Len(t) : i # j => ~Comparable(t[i], t[j])
<1> DEFINE t == <<c>> \o s
<1>1. /\ t \in Seq(N) /\ Len(t) = Len(s) + 1 /\ t[1] = c
      /\ \A i \in 1..Len(s) : t[i + 1] = s[i]
      /\ \A i \in 1..Len(t) : i = 1 \/ (i - 1 \in 1..Len(s) /\ t[i] = s[i - 1])
  BY StackPush
<1>2. Len(s) \in Nat /\ \A i \in 1..Len(s) : s[i] \in Range(s) /\ s[i] \in N
  BY RangeIs
<1> HIDE DEF t
<1>3. Range(t) = {c} \cup Range(s)
  <2>1. ASSUME NEW x \in Range(t) PROVE x = c \/ x \in Range(s)
    <3>1. PICK i \in 1..Len(t) : x = t[i]
      BY <1>1, <2>1, RangeIs
    <3> QED  BY <1>1, <1>2, <3>1
  <2>2. c \in Range(t)
    <3>1. 1 \in 1..Len(t)
      BY <1>1, <1>2
    <3> QED  BY <1>1, <3>1, RangeIs
  <2>3. ASSUME NEW x \in Range(s) PROVE x \in Range(t)
    <3>1. PICK i \in 1..Len(s) : x = s[i]
      BY <2>3, RangeIs
    <3>2. i + 1 \in 1..Len(t) /\ t[i + 1] = x
      BY <1>1, <1>2, <3>1
    <3>3. t[i + 1] \in Range(t)
      BY <1>1, <3>2, RangeIs
    <3> QED  BY <3>2, <3>3
  <2> QED  BY <2>1, <2>2, <2>3
<1>4. ASSUME NEW i \in 1..Len(t), NEW j \in 1..Len(t), i # j PROVE ~Comparable(t[i], t[j])
  <2>1. i - 1 # j - 1
    BY <1>4, <1>1, <1>2
  <2>2. CASE i = 1
    <3>1. j - 1 \in 1..Len(s) /\ t[j] = s[j - 1]
      BY <1>1, <1>4, <2>2
    <3> QED  BY <1>1, <1>2, <2>2, <3>1
  <2>3. CASE j = 1
    <3>1. i - 1 \in 1..Len(s) /\ t[i] = s[i - 1]
      BY <1>1, <1>4, <2>3
    <3> QED  BY <1>1, <1>2, <2>3, <3>1 DEF Comparable
  <2>4. CASE i # 1 /\ j # 1
    <3>1. i - 1 \in 1..Len(s) /\ t[i] = s[i - 1] /\ j - 1 \in 1..Len(s) /\ t[j] = s[j - 1]
      BY <1>1, <2>4
    <3> QED  BY <2>1, <3>1
  <2> QED  BY <2>2, <2>3, <2>4
<1> QED  BY <1>1, <1>3, <1>4 DEF t

\* What a walk is that stands at c, with the stack s.
WalkAt(c, s) == [rn |-> c, stack |-> s, wild |-> FALSE]

\* It stands if c is apart from its stack.
LEMMA WalkStands ==
  ASSUME NEW N, Null \notin N, NEW c \in N, NEW s \in Seq(N),
         \A x \in Range(s) : ~Comparable(c, x),
         \A i, j \in 1..Len(s) : i # j => ~Comparable(s[i], s[j])
  PROVE  /\ Standing(WalkAt(c, s), N) /\ Apart(WalkAt(c, s))
         /\ Pointers(WalkAt(c, s)) = {c} \cup Range(s)
<1> DEFINE w == WalkAt(c, s)
<1>1. w.rn = c /\ w.stack = s /\ w.wild = FALSE /\ w = [rn |-> c, stack |-> s, wild |-> FALSE]
  BY DEF WalkAt
<1>2. \A i \in 1..Len(s) : s[i] \in Range(s)
  BY RangeIs
<1> HIDE DEF w
<1>3. Standing(w, N)
  BY <1>1 DEF Standing
<1>4. Apart(w)
  BY <1>1, <1>2 DEF Apart
<1>5. Pointers(w) = {c} \cup Range(s)
  BY <1>1 DEF Pointers
<1> QED  BY <1>3, <1>4, <1>5 DEF w

\* PATRICIA_WALK_END: the walk goes on to what is below rn, and keeps its stack.
LEMMA Advanced ==
  ASSUME TreeOk(tree), Standing(walk, DOMAIN tree.heap), Apart(walk), walk.rn # Null
  PROVE  /\ Standing(Advance, DOMAIN tree.heap) /\ Apart(Advance)
         /\ Range(walk.stack) \subseteq Pointers(Advance)
         /\ \A h \in Pointers(Advance) : h \in Range(walk.stack) \/ StrictlyCovers(walk.rn, h)
         /\ \A o \in DOMAIN tree.heap : StrictlyCovers(walk.rn, o) =>
              \E h \in Pointers(Advance) : Covers(h, o)
<1> DEFINE N == DOMAIN tree.heap
           rn == walk.rn
           s == walk.stack
           l == tree.heap[rn].l
           r == tree.heap[rn].r
<1>1. /\ walk = [rn |-> rn, stack |-> s, wild |-> FALSE]
      /\ s \in Seq(N) /\ rn \in N
  BY DEF Standing
<1>2. /\ N \subseteq Seq(Bit) /\ Null \notin N
      /\ \A b \in Bit : /\ Kids(tree)[rn][b] \in N \cup {Null}
                        /\ KidLinked(N, Kids(tree), rn, b)
  BY <1>1, TreeNodes
<1>3. 0 \in Bit /\ 1 \in Bit /\ Kids(tree)[rn][0] = l /\ Kids(tree)[rn][1] = r
  BY <1>1 DEF Kids, Bit
<1>4. /\ l # Null => l \in N /\ Below(rn, 0, l)
      /\ \A q \in N : Below(rn, 0, q) => l # Null /\ Covers(l, q)
  BY <1>2, <1>3 DEF KidLinked
<1>5. /\ r # Null => r \in N /\ Below(rn, 1, r)
      /\ \A q \in N : Below(rn, 1, q) => r # Null /\ Covers(r, q)
  BY <1>2, <1>3 DEF KidLinked
<1>6. Range(s) \subseteq N /\ \A x \in Range(s) : ~Comparable(rn, x)
  <2>1. Range(s) \subseteq N /\ \A x \in Range(s) : \E i \in 1..Len(s) : x = s[i]
    BY <1>1, RangeIs
  <2> QED  BY <2>1 DEF Apart
<1>7. \A i, j \in 1..Len(s) : i # j => ~Comparable(s[i], s[j])
  BY DEF Apart
<1>8. \A c \in N : StrictlyCovers(rn, c) => \A x \in Range(s) : ~Comparable(c, x)
  BY <1>1, <1>2, <1>6, StillApart DEF StrictlyCovers
<1>9. \A o \in N : StrictlyCovers(rn, o) => Below(rn, 0, o) \/ Below(rn, 1, o)
  BY <1>1, <1>2, BelowOne DEF Bit
<1>10. CASE l # Null /\ r # Null
  <2> DEFINE t == <<r>> \o s
  <2>1. Advance = [walk EXCEPT !.rn = l, !.stack = t]
    BY <1>10 DEF Advance, Node
  <2>2. Advance = WalkAt(l, t)
    <3>1. walk = [rn |-> walk.rn, stack |-> walk.stack, wild |-> walk.wild] /\ walk.wild = FALSE
      BY <1>1
    <3> QED  BY <2>1, <3>1, Moved DEF WalkAt
  <2>3. l \in N /\ r \in N /\ StrictlyCovers(rn, l) /\ StrictlyCovers(rn, r)
    BY <1>4, <1>5, <1>10 DEF Below
  <2>4. ~Comparable(l, r)
    BY <1>1, <1>2, <1>4, <1>5, <1>10, SidesApart
  <2>5. /\ s \in Seq(N) /\ r \in N /\ \A x \in Range(s) : ~Comparable(r, x)
        /\ \A i, j \in 1..Len(s) : i # j => ~Comparable(s[i], s[j])
    BY <1>1, <1>7, <1>8, <2>3
  <2>6. /\ t \in Seq(N) /\ Range(t) = {r} \cup Range(s)
        /\ \A i, j \in 1..Len(t) : i # j => ~Comparable(t[i], t[j])
    BY <2>5, StackApart
  <2> HIDE DEF t
  <2>7. \A x \in Range(t) : ~Comparable(l, x)
    BY <1>8, <2>3, <2>4, <2>6
  <2> HIDE DEF l, r, s, rn, N
  <2>8. /\ Standing(WalkAt(l, t), N) /\ Apart(WalkAt(l, t))
        /\ Pointers(WalkAt(l, t)) = {l} \cup Range(t)
    BY <1>2, <2>3, <2>6, <2>7, WalkStands
  <2>9. ASSUME NEW o \in N, StrictlyCovers(rn, o)
        PROVE  \E h \in {l} \cup Range(t) : Covers(h, o)
    <3>1. Covers(l, o) \/ Covers(r, o)
      BY <1>4, <1>5, <1>9, <2>9
    <3> QED  BY <2>6, <3>1
  <2> QED  BY <2>2, <2>3, <2>6, <2>8, <2>9 DEF N, rn, s
<1>11. ASSUME NEW c \in {l, r}, c # Null, Advance = [walk EXCEPT !.rn = c],
              \A o \in N : StrictlyCovers(rn, o) => Covers(c, o)
       PROVE  /\ Standing(Advance, N) /\ Apart(Advance)
              /\ Range(s) \subseteq Pointers(Advance)
              /\ \A h \in Pointers(Advance) : h \in Range(s) \/ StrictlyCovers(rn, h)
              /\ \A o \in N : StrictlyCovers(rn, o) =>
                   \E h \in Pointers(Advance) : Covers(h, o)
  <2>1. Advance = WalkAt(c, s)
    <3>1. walk = [rn |-> walk.rn, stack |-> walk.stack, wild |-> walk.wild] /\ walk.wild = FALSE
      BY <1>1
    <3> QED  BY <1>11, <3>1, Moved DEF WalkAt
  <2>2. c \in N /\ StrictlyCovers(rn, c)
    BY <1>4, <1>5, <1>11 DEF Below
  <2>3. \A x \in Range(s) : ~Comparable(c, x)
    BY <1>8, <2>2
  <2> HIDE DEF l, r, s, rn, N
  <2>4. /\ Standing(WalkAt(c, s), N) /\ Apart(WalkAt(c, s))
        /\ Pointers(WalkAt(c, s)) = {c} \cup Range(s)
    BY <1>1, <1>2, <1>7, <2>2, <2>3, WalkStands
  <2> QED  BY <1>11, <2>1, <2>2, <2>4
<1>12. CASE l # Null /\ r = Null
  <2>1. Advance = [walk EXCEPT !.rn = l]
    BY <1>12 DEF Advance, Node
  <2>2. \A o \in N : StrictlyCovers(rn, o) => Covers(l, o)
    BY <1>4, <1>5, <1>9, <1>12
  <2> QED  BY <1>11, <1>12, <2>1, <2>2
<1>13. CASE l = Null /\ r # Null
  <2>1. Advance = [walk EXCEPT !.rn = r]
    BY <1>13 DEF Advance, Node
  <2>2. \A o \in N : StrictlyCovers(rn, o) => Covers(r, o)
    BY <1>4, <1>5, <1>9, <1>13
  <2> QED  BY <1>11, <1>13, <2>1, <2>2
<1>14. CASE l = Null /\ r = Null
  <2>1. Advance = Pop
    BY <1>14 DEF Advance, Node
  <2>2. /\ Standing(Pop, N) /\ Apart(Pop) /\ Pointers(Pop) = Range(s)
    BY <1>2, Popped
  <2>3. \A o \in N : ~StrictlyCovers(rn, o)
    BY <1>4, <1>5, <1>9, <1>14
  <2> QED  BY <2>1, <2>2, <2>3
<1> QED  BY <1>10, <1>12, <1>13, <1>14


-----------------------------------------------------------------------------
(* What every step keeps.                                                  *)

\* The entries a walk is meant to reach, in any tree.
DueOf(t) ==
  {p \in Stored(t) : /\ t.heap[p].data = "timed"
                     /\ ~\E s \in Stored(t) : t.heap[s].data = "static" /\ StrictlyCovers(s, p)}

\* Entries and Due are those of the tree, before a step and after it.
LEMMA DueIs == Entries = Stored(tree) /\ Due = DueOf(tree) /\ Entries' = Stored(tree') /\ Due' = DueOf(tree')
BY DEF Entries, Due, DueOf, Shielded, Stored, Node

\* What the walk holds are its pointers.
LEMMA HeldIs == Held = Pointers(walk) /\ Held' = Pointers(walk')
BY DEF Held, Pointers

\* The state of the walk and its history, in a tree t.
WalkOk(t, w, O, S) ==
  /\ Standing(w, DOMAIN t.heap) /\ Apart(w)
  /\ O \subseteq DueOf(t) /\ Reaches(w, O)
  /\ S \subseteq Bits /\ Leaves(w, S)

\* The invariant, before a step and after it.
LEMMA InvIs ==
  /\ Inv <=> TreeOk(tree) /\ Filled(tree) /\ WalkOk(tree, walk, owed, seen)
  /\ Inv' <=> TreeOk(tree') /\ Filled(tree') /\ WalkOk(tree', walk', owed', seen')
BY DueIs DEF Inv, TreeInv, WalkInv, WalkOk

\* A walk stands on the nodes its pointers are in.
LEMMA StandsOn ==
  ASSUME NEW N, NEW w, Standing(w, N), NEW M, Pointers(w) \subseteq M
  PROVE  Standing(w, M)
<1>1. w.stack \in Seq(N)
  BY DEF Standing
<1>2. w.stack \in Seq(M)
  <2>1. \A i \in 1..Len(w.stack) : w.stack[i] \in M
    BY <1>1, RangeIs DEF Pointers
  <2> QED  BY <1>1, <2>1
<1>3. w.rn \in M \cup {Null}
  BY DEF Pointers
<1> QED  BY <1>2, <1>3 DEF Standing

\* The pointers of a walk are nodes.
LEMMA StandsIn ==
  ASSUME NEW N, NEW w, Standing(w, N)
  PROVE  Pointers(w) \subseteq N
BY RangeIs DEF Standing, Pointers

\* A walk that stands nowhere.
LEMMA StandsNowhere ==
  ASSUME NEW N, NEW b \in BOOLEAN
  PROVE  LET w == [rn |-> Null, stack |-> <<>>, wild |-> b]
         IN Standing(w, N) /\ Apart(w) /\ Pointers(w) = {}
<1> DEFINE w == [rn |-> Null, stack |-> <<>>, wild |-> b]
<1>1. w.rn = Null /\ w.stack = <<>> /\ w.wild = b /\ w = [rn |-> w.rn, stack |-> w.stack, wild |-> w.wild]
  OBVIOUS
<1>2. Len(<<>>) = 0 /\ Range(<<>>) = {} /\ <<>> \in Seq(N)
  BY DEF Range
<1> HIDE DEF w
<1>3. Standing(w, N)
  BY <1>1, <1>2 DEF Standing
<1>4. Apart(w)
  BY <1>1, <1>2 DEF Apart
<1>5. Pointers(w) = {}
  BY <1>1, <1>2 DEF Pointers
<1> QED  BY <1>3, <1>4, <1>5 DEF w

\* Fewer entries are reached, and left behind, as well.
LEMMA ReachesLess ==
  \A w, E, F : /\ F \subseteq E /\ Reaches(w, E) => Reaches(w, F)
               /\ F \subseteq E /\ Leaves(w, E) => Leaves(w, F)
BY DEF Reaches, Leaves

\* The empty tree.
LEMMA EmptyTree == TreeOk(New_Patricia) /\ Filled(New_Patricia) /\ DOMAIN New_Patricia.heap = {}
<1> DEFINE t == New_Patricia
<1>1. t = [head |-> Null, heap |-> <<>>, active |-> 0]
  BY DEF New_Patricia
<1>2. DOMAIN <<>> = {}
  OBVIOUS
<1>3. t.head = Null /\ t.heap = <<>> /\ t.active = 0 /\ DOMAIN t.heap = {}
  BY <1>1, <1>2
<1> HIDE DEF t
<1>4. Typed(t)
  <2>1. t.heap \in [DOMAIN t.heap -> NodeRecord]
    BY <1>3
  <2> QED  BY <1>1, <1>3, <2>1 DEF Typed
<1>5. Marked(t) /\ Glued(t) /\ Filled(t)
  BY <1>3 DEF Marked, Glued, Filled, Stored
<1>6. Shaped(t)
  BY <1>3 DEF Shaped, Linked, HeadLinked
<1>7. Counted(t)
  BY <1>3, FS_EmptySet DEF Counted
<1> QED  BY <1>3, <1>4, <1>5, <1>6, <1>7 DEF TreeOk, t

\* The rib starts empty, with no walk.
LEMMA InitInv == Init => Inv
<1> SUFFICES ASSUME Init PROVE Inv
  OBVIOUS
<1>1. TreeOk(tree) /\ Filled(tree) /\ DOMAIN tree.heap = {}
  BY EmptyTree DEF Init
<1>2. walk = [rn |-> Null, stack |-> <<>>, wild |-> FALSE] /\ owed = {} /\ seen = {}
  BY DEF Init, Idle
<1>3. Standing(walk, DOMAIN tree.heap) /\ Apart(walk)
  BY <1>2, StandsNowhere
<1>4. WalkOk(tree, walk, owed, seen)
  BY <1>2, <1>3 DEF WalkOk, Reaches, Leaves
<1> QED  BY <1>1, <1>4, InvIs

\* update_mapnode.
LEMMA UpdateStep ==
  ASSUME Inv, NEW key \in RibKey, NEW s \in RibState, update_mapnode(key, s)
  PROVE  Inv' /\ tree' = UpdatedTree(tree, key, s)
<1>1. key \in Key /\ s \in {"static", "timed"}
  BY RibAssumption
<1>2. tree' = UpdatedTree(tree, key, s)
  BY DEF update_mapnode, UpdatedTree, SetData
<1>3. TreeOk(tree) /\ Filled(tree) /\ WalkOk(tree, walk, owed, seen)
  BY InvIs
<1> DEFINE t == tree
           w == UpdatedTree(t, key, s)
<1>4. TreeOk(w) /\ Filled(w) /\ DOMAIN t.heap \subseteq DOMAIN w.heap
  BY <1>1, <1>3, UpdateKeeps
<1>5. TreeOk(tree') /\ Filled(tree') /\ DOMAIN tree.heap \subseteq DOMAIN tree'.heap
  BY <1>2, <1>4
<1> HIDE DEF w
<1>6. walk' = walk /\ seen' = seen /\ owed' \subseteq owed /\ owed' \subseteq DueOf(tree')
  BY DueIs DEF update_mapnode
<1>7. Standing(walk, DOMAIN tree.heap) /\ Apart(walk)
  BY <1>3 DEF WalkOk
<1>8. Standing(walk, DOMAIN tree'.heap)
  BY <1>5, <1>7, StandsIn, StandsOn
<1>9. WalkOk(tree', walk', owed', seen')
  BY <1>3, <1>6, <1>8, ReachesLess DEF WalkOk
<1> QED  BY <1>2, <1>5, <1>9, InvIs

\* uninstall_mapnode_static, which may free what the walk holds.
LEMMA UninstallStep ==
  ASSUME Inv, NEW key \in RibKey, uninstall_mapnode_static(key)
  PROVE  /\ Inv'
         /\ \E p \in Stored(tree) : tree' = patricia_remove(tree, p)
<1>1. key \in Key
  BY RibAssumption
<1>2. TreeOk(tree) /\ Filled(tree) /\ WalkOk(tree, walk, owed, seen)
  BY InvIs
<1> DEFINE p == patricia_search_best(tree, key)
<1>3. p # Null /\ tree' = patricia_remove(tree, p)
  BY DEF uninstall_mapnode_static
<1>4. p \in Stored(tree)
  BY <1>1, <1>2, <1>3, SearchStored
<1>5. /\ walk' = IF Held \subseteq DOMAIN tree'.heap THEN walk ELSE [Idle EXCEPT !.wild = TRUE]
      /\ owed' = IF walk'.wild THEN {} ELSE owed \cap Due'
      /\ seen' = IF walk'.wild THEN {} ELSE seen \ {p}
  BY DEF uninstall_mapnode_static
<1> HIDE DEF p
<1>6. TreeOk(tree') /\ Filled(tree')
  BY <1>2, <1>3, <1>4, RemoveKeeps
<1>7. /\ Standing(walk, DOMAIN tree.heap) /\ Apart(walk)
      /\ Reaches(walk, owed) /\ Leaves(walk, seen) /\ seen \subseteq Bits
  BY <1>2 DEF WalkOk
<1>8. owed' \subseteq owed /\ owed' \subseteq DueOf(tree') /\ seen' \subseteq seen
  BY <1>5, DueIs
<1>9. CASE Held \subseteq DOMAIN tree'.heap
  <2>1. walk' = walk
    BY <1>5, <1>9
  <2>2. Standing(walk, DOMAIN tree'.heap)
    BY <1>7, <1>9, HeldIs, StandsOn
  <2>3. WalkOk(tree', walk', owed', seen')
    BY <1>7, <1>8, <2>1, <2>2, ReachesLess DEF WalkOk
  <2> QED  BY <1>3, <1>4, <1>6, <2>3, InvIs
<1>10. CASE ~(Held \subseteq DOMAIN tree'.heap)
  <2>1. walk' = [rn |-> Null, stack |-> <<>>, wild |-> TRUE]
    BY <1>5, <1>10 DEF Idle
  <2>2. owed' = {} /\ seen' = {}
    BY <1>5, <2>1
  <2>3. Standing(walk', DOMAIN tree'.heap) /\ Apart(walk')
    BY <2>1, StandsNowhere
  <2>4. WalkOk(tree', walk', owed', seen')
    BY <2>2, <2>3 DEF WalkOk, Reaches, Leaves
  <2> QED  BY <1>3, <1>4, <1>6, <2>4, InvIs
<1> QED  BY <1>9, <1>10


\* A walk starts with everything below its pointer.
LEMMA StartStep ==
  ASSUME Inv, StartWalk
  PROVE  Inv' /\ tree' = tree
<1>1. /\ walk = Idle /\ tree.head # Null /\ walk' = [Idle EXCEPT !.rn = tree.head]
      /\ owed' = Due /\ seen' = {} /\ tree' = tree
  BY DEF StartWalk
<1>2. TreeOk(tree) /\ Filled(tree)
  BY InvIs
<1> DEFINE N == DOMAIN tree.heap
           h == tree.head
<1>3. /\ h \in N \cup {Null} /\ Null \notin N
      /\ \A p \in N : Covers(h, p)
  BY <1>2, TreeNodes
<1>4. walk' = WalkAt(h, <<>>)
  BY <1>1 DEF Idle, WalkAt
<1>5. <<>> \in Seq(N) /\ Range(<<>>) = {} /\ Len(<<>>) = 0
  BY DEF Range
<1>6. h \in N
  BY <1>1, <1>3
<1> HIDE DEF N, h
<1>7. /\ Standing(WalkAt(h, <<>>), N) /\ Apart(WalkAt(h, <<>>))
      /\ Pointers(WalkAt(h, <<>>)) = {h}
  <2>1. \A x \in Range(<<>>) : ~Comparable(h, x)
    BY <1>5
  <2>2. \A i, j \in 1..Len(<<>>) : i # j => ~Comparable(<<>>[i], <<>>[j])
    BY <1>5
  <2>3. /\ Standing(WalkAt(h, <<>>), N) /\ Apart(WalkAt(h, <<>>))
        /\ Pointers(WalkAt(h, <<>>)) = {h} \cup Range(<<>>)
    BY <1>3, <1>5, <1>6, <2>1, <2>2, WalkStands
  <2> QED  BY <1>5, <2>3
<1>8. owed' = DueOf(tree') /\ owed' \subseteq N
  <2>1. owed' = DueOf(tree)
    BY <1>1, DueIs
  <2> QED  BY <1>1, <2>1 DEF DueOf, Stored, N
<1>9. Reaches(walk', owed') /\ Leaves(walk', seen') /\ seen' \subseteq Bits
  BY <1>1, <1>3, <1>4, <1>7, <1>8 DEF Reaches, Leaves
<1>10. WalkOk(tree', walk', owed', seen')
  BY <1>1, <1>4, <1>7, <1>8, <1>9 DEF WalkOk, N
<1> QED  BY <1>1, <1>2, <1>10, InvIs

\* What is owed is reached from where the walk goes on to, once the node it leaves
\* is visited, and what is seen is not.
LEMMA WentOn ==
  ASSUME TreeOk(tree), WalkOk(tree, walk, owed, seen), walk.rn # Null,
         NEW E \in SUBSET {walk.rn}, walk.rn \in owed => walk.rn \in E
  PROVE  /\ Standing(Advance, DOMAIN tree.heap) /\ Apart(Advance)
         /\ Reaches(Advance, owed \ E)
         /\ seen \cup E \subseteq Bits /\ Leaves(Advance, seen \cup E)
<1> DEFINE N == DOMAIN tree.heap
           rn == walk.rn
           s == walk.stack
<1>1. /\ Standing(walk, N) /\ Apart(walk) /\ Reaches(walk, owed) /\ Leaves(walk, seen)
      /\ owed \subseteq N /\ seen \subseteq Bits
  BY DEF WalkOk, DueOf, Stored
<1>2. N \subseteq Seq(Bit) /\ N \subseteq Bits
  BY TreeNodes
<1>3. rn \in N /\ s \in Seq(N) /\ Pointers(walk) = {rn} \cup Range(s)
  BY <1>1 DEF Standing, Pointers
<1>4. /\ Standing(Advance, N) /\ Apart(Advance)
      /\ Range(s) \subseteq Pointers(Advance)
      /\ \A h \in Pointers(Advance) : h \in Range(s) \/ StrictlyCovers(rn, h)
      /\ \A o \in N : StrictlyCovers(rn, o) => \E h \in Pointers(Advance) : Covers(h, o)
  BY <1>1, Advanced
<1>5. Pointers(Advance) \subseteq N
  BY <1>4, StandsIn
<1>6. Range(s) \subseteq N /\ \A x \in Range(s) : ~Comparable(rn, x)
  <2>1. Range(s) \subseteq N /\ \A x \in Range(s) : \E i \in 1..Len(s) : x = s[i]
    BY <1>3, RangeIs
  <2> QED  BY <1>1, <2>1 DEF Apart
<1>7. ASSUME NEW o \in owed \ E PROVE \E h \in Pointers(Advance) : Covers(h, o)
  <2>1. PICK h \in Pointers(walk) : Covers(h, o)
    BY <1>1, <1>7 DEF Reaches
  <2>2. CASE h \in Range(s)
    BY <1>4, <2>1, <2>2
  <2>3. CASE h = rn
    <3>1. o # rn
      BY <1>7
    <3> QED  BY <1>1, <1>4, <2>1, <2>3, <3>1 DEF StrictlyCovers
  <2> QED  BY <1>3, <2>1, <2>2, <2>3
<1>8. ASSUME NEW x \in seen \cup E, NEW h \in Pointers(Advance), Covers(h, x) PROVE FALSE
  <2>1. h \in Seq(Bit) /\ rn \in Seq(Bit) /\ x \in Seq(Bit)
    BY <1>1, <1>2, <1>3, <1>5 DEF Bits
  <2>2. CASE x \in seen
    <3>1. ~Covers(rn, x) /\ \A g \in Range(s) : ~Covers(g, x)
      BY <1>1, <1>3, <2>2 DEF Leaves
    <3>2. StrictlyCovers(rn, h)
      BY <1>4, <1>8, <3>1
    <3> QED  BY <1>8, <2>1, <3>1, <3>2, CoversThrough DEF StrictlyCovers
  <2>3. CASE x = rn
    <3>1. CASE h \in Range(s)
      BY <1>6, <1>8, <2>3, <3>1 DEF Comparable
    <3>2. CASE StrictlyCovers(rn, h)
      BY <1>8, <2>1, <2>3, <3>2, CoversBoth DEF StrictlyCovers
    <3> QED  BY <1>4, <3>1, <3>2
  <2> QED  BY <2>2, <2>3
<1>9. seen \cup E \subseteq Bits
  BY <1>1, <1>2, <1>3
<1> QED  BY <1>4, <1>7, <1>8, <1>9 DEF Reaches, Leaves

\* A step of the walk that leaves the tree alone.
LEMMA WalkedOn ==
  ASSUME Inv, tree' = tree, NEW E,
         Standing(walk', DOMAIN tree.heap), Apart(walk'),
         Reaches(walk', owed \ E), seen \cup E \subseteq Bits, Leaves(walk', seen \cup E),
         Visit(E)
  PROVE  Inv'
<1>1. TreeOk(tree) /\ Filled(tree) /\ WalkOk(tree, walk, owed, seen)
  BY InvIs
<1>2. owed' = owed \ E /\ seen' \subseteq seen \cup E
  BY DEF Visit
<1>3. owed' \subseteq DueOf(tree)
  BY <1>1, <1>2 DEF WalkOk
<1>4. WalkOk(tree', walk', owed', seen')
  BY <1>2, <1>3, ReachesLess DEF WalkOk
<1> QED  BY <1>1, <1>4, InvIs

\* The walk passes a glue node by.
LEMMA GlueStep ==
  ASSUME Inv, VisitGlue
  PROVE  Inv' /\ tree' = tree
<1>1. /\ walk.rn # Null /\ tree.heap[walk.rn].prefix = Null /\ walk' = Advance
      /\ Visit({}) /\ tree' = tree
  BY DEF VisitGlue, Node
<1>2. TreeOk(tree) /\ Filled(tree) /\ WalkOk(tree, walk, owed, seen)
  BY InvIs
<1>3. walk.rn \notin owed
  BY <1>1, <1>2 DEF WalkOk, DueOf, Stored
<1>4. /\ Standing(Advance, DOMAIN tree.heap) /\ Apart(Advance)
      /\ Reaches(Advance, owed \ {})
      /\ seen \cup {} \subseteq Bits /\ Leaves(Advance, seen \cup {})
  BY <1>1, <1>2, <1>3, WentOn
<1> QED  BY <1>1, <1>4, WalkedOn

\* The walk visits an entry with time left.
LEMMA AliveStep ==
  ASSUME Inv, VisitAlive
  PROVE  Inv' /\ tree' = tree
<1>1. /\ walk.rn # Null /\ walk' = Advance /\ Visit({walk.rn}) /\ tree' = tree
  BY DEF VisitAlive, At
<1>2. TreeOk(tree) /\ Filled(tree) /\ WalkOk(tree, walk, owed, seen)
  BY InvIs
<1>3. /\ Standing(Advance, DOMAIN tree.heap) /\ Apart(Advance)
      /\ Reaches(Advance, owed \ {walk.rn})
      /\ seen \cup {walk.rn} \subseteq Bits /\ Leaves(Advance, seen \cup {walk.rn})
  BY <1>1, <1>2, WentOn
<1> QED  BY <1>1, <1>3, WalkedOn

\* Below a static entry nothing is owed.
LEMMA StaticStep ==
  ASSUME Inv, VisitStatic
  PROVE  Inv' /\ tree' = tree
<1>1. /\ walk.rn # Null /\ tree.heap[walk.rn].data = "static" /\ walk' = Pop
      /\ Visit({}) /\ tree' = tree
  BY DEF VisitStatic, At, Node
<1>2. TreeOk(tree) /\ Filled(tree) /\ WalkOk(tree, walk, owed, seen)
  BY InvIs
<1>3. /\ Standing(walk, DOMAIN tree.heap) /\ Apart(walk) /\ Reaches(walk, owed)
      /\ owed \subseteq DueOf(tree) /\ seen \subseteq Bits /\ Leaves(walk, seen)
  BY <1>2 DEF WalkOk
<1>4. Null \notin DOMAIN tree.heap
  BY <1>2, TreeNodes
<1>5. Standing(Pop, DOMAIN tree.heap) /\ Apart(Pop) /\ Pointers(Pop) = Range(walk.stack)
  BY <1>1, <1>3, <1>4, Popped
<1>6. walk.rn \in Stored(tree)
  <2>1. walk.rn \in DOMAIN tree.heap
    BY <1>1, <1>3 DEF Standing
  <2> QED  BY <1>1, <1>2, <2>1 DEF TreeOk, Marked, Stored
<1>7. ASSUME NEW o \in owed PROVE ~Covers(walk.rn, o)
  <2>1. /\ tree.heap[o].data = "timed"
        /\ ~\E s \in Stored(tree) : tree.heap[s].data = "static" /\ StrictlyCovers(s, o)
    BY <1>3 DEF DueOf
  <2> QED  BY <1>1, <1>6, <2>1 DEF StrictlyCovers
<1>8. Reaches(Pop, owed) /\ Leaves(Pop, seen)
  BY <1>1, <1>3, <1>5, <1>7 DEF Reaches, Leaves, Pointers
<1>9. Reaches(Pop, owed \ {}) /\ seen \cup {} \subseteq Bits /\ Leaves(Pop, seen \cup {})
  BY <1>3, <1>8 DEF Reaches, Leaves
<1> QED  BY <1>1, <1>5, <1>9, WalkedOn

\* The timer removes the node it stands on, and none it still has to come to.
LEMMA ExpiredStep ==
  ASSUME Inv, VisitExpired
  PROVE  /\ Inv'
         /\ walk.rn \in Stored(tree) /\ tree' = patricia_remove(tree, walk.rn)
         /\ Pointers(walk') \subseteq DOMAIN tree'.heap
<1> DEFINE rn == walk.rn
<1>1. /\ rn # Null /\ tree.heap[rn].data = "timed" /\ walk' = Advance /\ Visit({rn})
      /\ tree' = patricia_remove(tree,
                   patricia_search_best(tree, [addr |-> tree.heap[rn].prefix,
                                               len |-> tree.heap[rn].bit]))
  BY DEF VisitExpired, At, Node
<1>2. TreeOk(tree) /\ Filled(tree) /\ WalkOk(tree, walk, owed, seen)
  BY InvIs
<1>3. /\ Standing(walk, DOMAIN tree.heap) /\ Apart(walk)
      /\ owed \subseteq DueOf(tree) /\ seen \subseteq Bits
  BY <1>2 DEF WalkOk
<1>4. rn \in DOMAIN tree.heap /\ walk.stack \in Seq(DOMAIN tree.heap)
  BY <1>1, <1>3 DEF Standing
<1>5. rn \in Stored(tree)
  BY <1>1, <1>2, <1>4 DEF TreeOk, Marked, Stored
<1>6. tree' = patricia_remove(tree, rn)
  BY <1>1, <1>2, <1>5, SearchItself
<1>7. /\ Standing(Advance, DOMAIN tree.heap) /\ Apart(Advance)
      /\ Reaches(Advance, owed \ {rn})
      /\ seen \cup {rn} \subseteq Bits /\ Leaves(Advance, seen \cup {rn})
  BY <1>1, <1>2, WentOn
<1>8. \A h \in Pointers(Advance) : h \in Range(walk.stack) \/ StrictlyCovers(rn, h)
  BY <1>1, <1>2, <1>3, Advanced
<1>9. TreeOk(tree') /\ Filled(tree')
  BY <1>2, <1>5, <1>6, RemoveKeeps
<1>10. Shrunk(tree, tree', rn)
  BY <1>2, <1>5, <1>6, RemoveShrinks
<1>11. Pointers(Advance) \subseteq DOMAIN tree'.heap
  <2>1. SUFFICES ASSUME NEW h \in Pointers(Advance), h \notin DOMAIN tree'.heap PROVE FALSE
    OBVIOUS
  <2>2. h \in DOMAIN tree.heap
    BY <1>7, StandsIn
  <2>3. h = rn \/ StrictlyCovers(h, rn)
    BY <1>10, <2>1, <2>2 DEF Shrunk
  <2>4. h \in Seq(Bit) /\ rn \in Seq(Bit)
    BY <1>2, <1>4, <2>2, TreeNodes
  <2>5. CASE h \in Range(walk.stack)
    <3>1. PICK i \in 1..Len(walk.stack) : h = walk.stack[i]
      BY <1>4, <2>5, RangeIs
    <3>2. ~Comparable(rn, h)
      BY <1>3, <3>1 DEF Apart
    <3> QED  BY <2>3, <2>4, <3>2, CoversItself DEF Comparable, StrictlyCovers
  <2>6. CASE StrictlyCovers(rn, h)
    BY <2>3, <2>4, <2>6, CoversBoth DEF StrictlyCovers
  <2> QED  BY <1>8, <2>5, <2>6
<1>12. Standing(walk', DOMAIN tree'.heap)
  BY <1>1, <1>7, <1>11, StandsOn
<1>13. owed' = owed \ {rn} /\ seen' \subseteq seen \cup {rn}
  BY <1>1 DEF Visit
<1>14. owed' \subseteq DueOf(tree')
  <2>1. ASSUME NEW o \in owed, o # rn PROVE o \in DueOf(tree')
    <3>1. /\ o \in Stored(tree) /\ tree.heap[o].data = "timed"
          /\ ~\E s \in Stored(tree) : tree.heap[s].data = "static" /\ StrictlyCovers(s, o)
      BY <1>3, <2>1 DEF DueOf
    <3>2. \A x \in Stored(tree') : /\ x \in Stored(tree) /\ x # rn
                                   /\ tree'.heap[x].data = tree.heap[x].data
      <4>1. /\ Stored(tree') = Stored(tree) \ {rn}
            /\ \A x \in DOMAIN tree'.heap :
                 tree'.heap[x].data = IF x = rn THEN "null" ELSE tree.heap[x].data
        BY <1>10 DEF Shrunk
      <4>2. Stored(tree') \subseteq DOMAIN tree'.heap
        BY DEF Stored
      <4> QED  BY <4>1, <4>2
    <3>3. o \in Stored(tree')
      BY <1>10, <2>1, <3>1 DEF Shrunk
    <3> QED  BY <3>1, <3>2, <3>3 DEF DueOf
  <2> QED  BY <1>13, <2>1
<1>14a. Reaches(walk', owed') /\ Leaves(walk', seen') /\ seen' \subseteq Bits /\ Apart(walk')
  BY <1>1, <1>7, <1>13, ReachesLess
<1>15. WalkOk(tree', walk', owed', seen')
  BY <1>12, <1>14, <1>14a DEF WalkOk
<1> QED  BY <1>1, <1>5, <1>6, <1>9, <1>11, <1>15, InvIs


-----------------------------------------------------------------------------
(* The theorems.                                                           *)

\* Every step keeps the invariant.
LEMMA NextInv == Inv /\ [Next]_vars => Inv'
<1> SUFFICES ASSUME Inv, [Next]_vars PROVE Inv'
  OBVIOUS
<1>1. CASE UNCHANGED vars
  <2>1. tree' = tree /\ walk' = walk /\ owed' = owed /\ seen' = seen
    BY <1>1 DEF vars
  <2> QED  BY <2>1, InvIs
<1>2. ASSUME NEW key \in RibKey, NEW s \in RibState, update_mapnode(key, s) PROVE Inv'
  BY <1>2, UpdateStep
<1>3. ASSUME NEW key \in RibKey, uninstall_mapnode_static(key) PROVE Inv'
  BY <1>3, UninstallStep
<1>4. CASE StartWalk
  BY <1>4, StartStep
<1>5. CASE VisitGlue
  BY <1>5, GlueStep
<1>6. CASE VisitStatic
  BY <1>6, StaticStep
<1>7. CASE VisitAlive
  BY <1>7, AliveStep
<1>8. CASE VisitExpired
  BY <1>8, ExpiredStep
<1> QED  BY <1>1, <1>2, <1>3, <1>4, <1>5, <1>6, <1>7, <1>8 DEF Next, Walk

\* After any steps of any threads the rib is a tree whose nodes are linked both
\* ways, and the timer's walk holds pointers to its nodes.
THEOREM RibInvariant == Spec => []Inv
<1>1. Init => Inv
  BY InitInv
<1>2. Inv /\ [Next]_vars => Inv'
  BY NextInv
<1> QED  BY <1>1, <1>2, PTL DEF Spec

\* The nodes, their data and the history are what they are said to be.
THEOREM TypeCorrect == Spec => []TypeOK
<1>1. Inv => TypeOK
  <2> SUFFICES ASSUME Inv PROVE TypeOK
    OBVIOUS
  <2>1. TreeOk(tree) /\ Filled(tree) /\ WalkOk(tree, walk, owed, seen)
    BY InvIs
  <2>2. DOMAIN tree.heap \subseteq RibPrefix /\ tree.head \in DOMAIN tree.heap \cup {Null}
    BY <2>1, TreeNodes, PrefixesAre
  <2>3. tree.active \in Nat
    BY <2>1, FS_CardinalityType DEF TreeOk, Counted
  <2>4. ASSUME NEW p \in DOMAIN tree.heap
        PROVE  /\ Node(p).data \in {"null", "static", "timed"}
               /\ Node(p).prefix = Null <=> Node(p).data = "null"
    <3>1. tree.heap[p].data \in {"null", "static", "timed"}
      BY <2>1 DEF TreeOk, Typed, NodeRecord
    <3>2. tree.heap[p].prefix = Null <=> tree.heap[p].data = "null"
      BY <2>1 DEF TreeOk, Marked, Filled, Stored
    <3> QED  BY <3>1, <3>2 DEF Node
  <2>5. walk.wild \in BOOLEAN
    BY <2>1 DEF WalkOk, Standing
  <2>6. owed \subseteq RibPrefix /\ seen \subseteq RibPrefix
    BY <2>1, <2>2, PrefixesAre DEF WalkOk, DueOf, Stored
  <2> QED  BY <2>2, <2>3, <2>4, <2>5, <2>6 DEF TypeOK
<1> QED  BY <1>1, RibInvariant, PTL

\* No assertion of patricia_lookup or patricia_remove can fail.
THEOREM AssertionsHold == Spec => []AssertsHold
<1>1. Inv => AssertsHold
  <2> SUFFICES ASSUME Inv PROVE AssertsHold
    OBVIOUS
  <2>1. TreeOk(tree)
    BY InvIs
  <2>2. \A key \in Key : LookupAsserts(tree, key)
    BY <2>1, LookupSafe
  <2>3. \A p \in Entries : RemoveAsserts(tree, p)
    BY <2>1, RemoveShrinks, DueIs
  <2> QED  BY <2>2, <2>3 DEF AssertsHold
<1> QED  BY <1>1, RibInvariant, PTL

\* Every search is a longest match over the entries.
THEOREM SearchFindsLongest == Spec => []SearchIsLongestMatch
<1>1. Inv => SearchIsLongestMatch
  <2> SUFFICES ASSUME Inv PROVE SearchIsLongestMatch
    OBVIOUS
  <2>1. TreeOk(tree) /\ Entries = Stored(tree)
    BY InvIs, DueIs
  <2> QED  BY <2>1, SearchFinds DEF SearchIsLongestMatch
<1> QED  BY <1>1, RibInvariant, PTL

\* A walk that has ended owes no visit, though nodes came and went under it.
THEOREM WalkVisitsAll == Spec => []WalkSkipsNothing
<1>1. Inv => WalkSkipsNothing
  <2> SUFFICES ASSUME Inv, walk = Idle PROVE owed = {}
    BY DEF WalkSkipsNothing
  <2>1. Reaches(walk, owed)
    BY InvIs DEF WalkOk
  <2>2. Pointers([rn |-> Null, stack |-> <<>>, wild |-> FALSE]) = {}
    BY StandsNowhere
  <2>3. Pointers(walk) = {}
    BY <2>2 DEF Idle
  <2> QED  BY <2>1, <2>3 DEF Reaches
<1> QED  BY <1>1, RibInvariant, PTL

\* The walk stands on no entry it has visited before.
THEOREM WalkVisitsEachOnce == Spec => []WalkVisitsOnce
<1>1. Inv => WalkVisitsOnce
  <2> SUFFICES ASSUME Inv, walk.rn # Null PROVE walk.rn \notin seen
    BY DEF WalkVisitsOnce
  <2>1. /\ Leaves(walk, seen) /\ Standing(walk, DOMAIN tree.heap)
        /\ TreeOk(tree)
    BY InvIs DEF WalkOk
  <2>2. walk.rn \in Pointers(walk) /\ walk.rn \in DOMAIN tree.heap
    BY <2>1 DEF Pointers, Standing
  <2>3. Covers(walk.rn, walk.rn)
    BY <2>1, <2>2, TreeNodes, CoversItself
  <2> QED  BY <2>1, <2>2, <2>3 DEF Leaves
<1> QED  BY <1>1, RibInvariant, PTL

\* The walk frees no node it still holds a pointer to.
THEOREM WalkFreesNoneAhead == Spec => WalkKeepsItsNodes
<1>1. ASSUME Inv, Inv', Walk PROVE Held' \subseteq DOMAIN tree'.heap
  <2>1. WalkOk(tree', walk', owed', seen')
    BY <1>1, InvIs
  <2>2. Standing(walk', DOMAIN tree'.heap)
    BY <2>1 DEF WalkOk
  <2> QED  BY <2>2, StandsIn, HeldIs
<1>2. Inv /\ Inv' /\ [Next]_vars => [Walk => Held' \subseteq DOMAIN tree'.heap]_vars
  BY <1>1
<1> QED  BY <1>2, RibInvariant, PTL DEF Spec, WalkKeepsItsNodes

\* The table the tree stands for.
LEMMA TableIs == Table = TableOf(tree) /\ Table' = TableOf(tree')
BY DEF Table, TableOf, Entries, Stored, Node

\* The tree implements the prefix table: every step changes one entry or none.
THEOREM RibRefinesTable == Spec => ImplementsPrefixTable
<1>1. Init => Abstract!Init
  <2> SUFFICES ASSUME Init PROVE Abstract!Init
    OBVIOUS
  <2>1. Stored(tree) = {}
    BY EmptyTree DEF Init, Stored
  <2> QED  BY <2>1, TableIs DEF TableOf, Abstract!Init
<1>2. ASSUME Inv, [Next]_vars PROVE [Abstract!Next]_Table
  <2>0. TreeOk(tree) /\ Filled(tree)
    BY <1>2, InvIs
  <2>1. ASSUME tree' = tree PROVE Table' = Table
    BY <2>1, TableIs
  <2>2. ASSUME NEW p \in Stored(tree), tree' = patricia_remove(tree, p) PROVE Abstract!Next
    <3>1. /\ p \in RibPrefix /\ TableOf(tree)[p] # "none"
          /\ TableOf(tree') = [TableOf(tree) EXCEPT ![p] = "none"]
      BY <2>0, <2>2, RemoveKeeps
    <3> QED  BY <3>1, TableIs DEF Abstract!Next, Abstract!Take
  <2>3. ASSUME NEW key \in RibKey, NEW s \in RibState, update_mapnode(key, s)
        PROVE  Abstract!Next \/ Table' = Table
    <3>1. tree' = UpdatedTree(tree, key, s)
      BY <1>2, <2>3, UpdateStep
    <3>2. key \in Key /\ s \in {"static", "timed"}
      BY RibAssumption
    <3> DEFINE p == PrefixOf(key)
    <3>3. /\ p \in RibPrefix
          /\ \/ TableOf(tree') = TableOf(tree)
             \/ /\ TableOf(tree)[p] # "static"
                /\ TableOf(tree') = [TableOf(tree) EXCEPT ![p] = s]
      <4> DEFINE u == UpdatedTree(tree, key, s)
      <4>1. /\ p \in RibPrefix
            /\ \/ TableOf(u) = TableOf(tree)
               \/ /\ TableOf(tree)[p] # "static"
                  /\ TableOf(u) = [TableOf(tree) EXCEPT ![p] = s]
        BY <2>0, <3>2, UpdateKeeps
      <4> QED  BY <3>1, <4>1
    <3> HIDE DEF p
    <3> QED  BY <3>2, <3>3, TableIs DEF Abstract!Next, Abstract!Put
  <2>4. ASSUME NEW key \in RibKey, uninstall_mapnode_static(key) PROVE Abstract!Next
    <3>1. \E p \in Stored(tree) : tree' = patricia_remove(tree, p)
      BY <1>2, <2>4, UninstallStep
    <3> QED  BY <2>2, <3>1
  <2>5. CASE VisitExpired
    <3>1. walk.rn \in Stored(tree) /\ tree' = patricia_remove(tree, walk.rn)
      BY <1>2, <2>5, ExpiredStep
    <3> QED  BY <2>2, <3>1
  <2>6. CASE StartWalk \/ VisitGlue \/ VisitStatic \/ VisitAlive
    BY <1>2, <2>1, <2>6, StartStep, GlueStep, StaticStep, AliveStep
  <2>7. CASE UNCHANGED vars
    BY <2>1, <2>7 DEF vars
  <2> QED  BY <1>2, <2>3, <2>4, <2>5, <2>6, <2>7 DEF Next, Walk
<1>3. Inv /\ [Next]_vars => [Abstract!Next]_Table
  BY <1>2
<1> QED  BY <1>1, <1>3, RibInvariant, PTL DEF Spec, ImplementsPrefixTable, Abstract!Spec


-----------------------------------------------------------------------------
(* The shape of the tree.                                                  *)

\* Where two prefixes part.
Parts(a, b) == Masked(a, DifferBit(a, b, Min({Len(a), Len(b)})))

\* It covers both, and is covered by all that cover both.
LEMMA PartsIs ==
  ASSUME NEW a \in Seq(Bit), NEW b \in Seq(Bit)
  PROVE  /\ Parts(a, b) \in Seq(Bit) /\ Covers(Parts(a, b), a) /\ Covers(Parts(a, b), b)
         /\ \A m \in Seq(Bit) : Covers(m, a) /\ Covers(m, b) => Covers(m, Parts(a, b))
<1> DEFINE k == Min({Len(a), Len(b)})
           I == {k} \cup {i \in 0..k - 1 : a[i + 1] # b[i + 1]}
           d == Min(I)
           P == SubSeq(a, 1, d)
<1>1. Len(a) \in Nat /\ Len(b) \in Nat
  OBVIOUS
<1>2. k \in {Len(a), Len(b)} /\ k <= Len(a) /\ k <= Len(b)
  <2> DEFINE J == {Len(a), Len(b)}
  <2>1. J \in SUBSET Nat /\ J # {}
    BY <1>1
  <2> HIDE DEF J
  <2>2. Min(J) \in J /\ \A i \in J : Min(J) <= i
    BY <2>1, MinIs
  <2> QED  BY <2>2 DEF J
<1> HIDE DEF k
<1>3. k \in Nat
  BY <1>1, <1>2
<1>4. I \in SUBSET Nat /\ I # {} /\ k \in I
  BY <1>3
<1>5. d \in I /\ \A i \in I : d <= i
  <2> HIDE DEF I
  <2> QED  BY <1>4, MinIs
<1> HIDE DEF d
<1>6. /\ d \in Nat /\ d <= k
      /\ \A i \in 0..k - 1 : a[i + 1] # b[i + 1] => d <= i
      /\ d < k => a[d + 1] # b[d + 1]
  BY <1>3, <1>4, <1>5
<1>7. \A i \in 1..d : a[i] = b[i]
  <2> SUFFICES ASSUME NEW i \in 1..d, a[i] # b[i] PROVE FALSE
    OBVIOUS
  <2>1. i - 1 \in 0..k - 1 /\ (i - 1) + 1 = i
    BY <1>3, <1>6
  <2>2. d <= i - 1
    BY <1>6, <2>1
  <2> QED  BY <1>6, <2>2
<1>8. d \in 0..Len(a) /\ d \in 0..Len(b)
  BY <1>1, <1>2, <1>3, <1>6
<1>9. Parts(a, b) = P
  BY DEF Parts, DifferBit, Masked, d, k
<1>10. P \in Seq(Bit) /\ Len(P) = d /\ \A i \in 1..d : P[i] = a[i]
  BY <1>8, Cut
<1> HIDE DEF P
<1>11. Covers(P, a) /\ Covers(P, b)
  BY <1>7, <1>8, <1>10, CoversBits
<1>12. ASSUME NEW m \in Seq(Bit), Covers(m, a), Covers(m, b) PROVE Covers(m, P)
  <2>1. /\ Len(m) <= Len(a) /\ Len(m) <= Len(b) /\ Len(m) \in Nat
        /\ \A i \in 1..Len(m) : m[i] = a[i] /\ m[i] = b[i]
    BY <1>12, CoversBits
  <2>2. Len(m) <= d
    <3> SUFFICES ASSUME d < Len(m) PROVE FALSE
      BY <1>6, <2>1
    <3>1. d < k /\ d + 1 \in 1..Len(m)
      BY <1>1, <1>2, <1>3, <1>6, <2>1
    <3> QED  BY <1>6, <2>1, <3>1
  <2>3. \A i \in 1..Len(m) : m[i] = P[i]
    BY <1>6, <1>10, <2>1, <2>2
  <2> QED  BY <1>10, <2>2, <2>3, CoversBits
<1> QED  BY <1>9, <1>10, <1>11, <1>12

\* The nodes on the two sides of p part at p.
LEMMA PartsAt ==
  ASSUME NEW p \in Seq(Bit), NEW a \in Seq(Bit), NEW b \in Seq(Bit), Below(p, 0, a), Below(p, 1, b)
  PROVE  Parts(a, b) = p
<1> DEFINE P == Parts(a, b)
<1>1. /\ P \in Seq(Bit) /\ Covers(P, a) /\ Covers(P, b)
      /\ \A m \in Seq(Bit) : Covers(m, a) /\ Covers(m, b) => Covers(m, P)
  BY PartsIs
<1> HIDE DEF P
<1>2. Covers(p, P)
  BY <1>1 DEF Below, StrictlyCovers
<1>3. SUFFICES ASSUME P # p PROVE FALSE
  BY DEF P
<1>4. StrictlyCovers(p, P)
  BY <1>2, <1>3 DEF StrictlyCovers
<1>5. 0 \in Bit /\ 1 \in Bit
  BY DEF Bit
<1>6. Below(p, 0, P) /\ Below(p, 1, P)
  BY <1>1, <1>4, <1>5, BelowUp
<1>7. PICK c \in Bit : \A e : Below(p, e, P) => e = c
  BY <1>1, <1>4, BelowOne
<1> QED  BY <1>6, <1>7

\* The longest of some nodes.
LEMMA LongestNode ==
  ASSUME NEW S \in SUBSET Bits, S # {}
  PROVE  \E q \in S : \A r \in S : Len(r) <= Len(q)
<1> DEFINE L == {Len(q) : q \in S}
<1>1. \A q \in S : Len(q) \in Nat /\ Len(q) <= MaxBits
  BY DEF Bits
<1>2. L \in SUBSET Nat /\ L # {} /\ \A l \in L : l <= MaxBits
  BY <1>1
<1>3. MaxBits \in Nat
  BY MaxBitsAssumption
<1> HIDE DEF L
<1>4. PICK m \in L : \A l \in L : l <= m
  BY <1>2, <1>3, GreatestLength
<1> QED  BY <1>4 DEF L

\* At or below every node an entry is stored.
LEMMA EntryBelow ==
  ASSUME NEW t, TreeOk(t), NEW p \in DOMAIN t.heap
  PROVE  \E e \in Stored(t) : Covers(p, e)
<1> DEFINE N == DOMAIN t.heap
           S == {q \in N : Covers(p, q)}
<1>1. N \subseteq Bits /\ N \subseteq Seq(Bit) /\ Null \notin N
  BY TreeNodes
<1>2. p \in S
  BY <1>1, CoversItself
<1>3. PICK q \in S : \A r \in S : Len(r) <= Len(q)
  <2>1. S \in SUBSET Bits /\ S # {}
    BY <1>1, <1>2
  <2> HIDE DEF S
  <2> QED  BY <2>1, LongestNode
<1>4. SUFFICES ASSUME q \notin Stored(t) PROVE FALSE
  BY <1>3
<1>5. 0 \in Bit
  BY DEF Bit
<1>6. Kids(t)[q][0] # Null
  BY <1>3, <1>4, <1>5 DEF TreeOk, Glued
<1>7. Kids(t)[q][0] \in N /\ Below(q, 0, Kids(t)[q][0])
  BY <1>3, <1>5, <1>6, TreeNodes DEF KidLinked
<1> DEFINE r == Kids(t)[q][0]
<1> HIDE DEF r
<1>8. r \in N /\ StrictlyCovers(q, r)
  BY <1>7 DEF Below, r
<1>9. r \in S
  BY <1>1, <1>3, <1>8, CoversThrough DEF StrictlyCovers
<1>10. Len(q) < Len(r) /\ Len(q) \in Nat /\ Len(r) \in Nat
  BY <1>1, <1>3, <1>8, CoversLonger
<1> QED  BY <1>3, <1>9, <1>10

\* The nodes are the entries and the points where two of them part.
PartNodes(E) == E \cup {Parts(a, b) : a, b \in E}

\* So they are in every tree.
LEMMA NodesAre ==
  ASSUME NEW t, TreeOk(t)
  PROVE  DOMAIN t.heap = PartNodes(Stored(t))
<1> DEFINE N == DOMAIN t.heap
<1>1. N \subseteq Bits /\ N \subseteq Seq(Bit) /\ Null \notin N /\ Stored(t) \subseteq N
  BY TreeNodes DEF Stored
<1>2. 0 \in Bit /\ 1 \in Bit
  BY DEF Bit
<1>3. ASSUME NEW p \in N, p \notin Stored(t)
      PROVE  \E a, b \in Stored(t) : p = Parts(a, b)
  <2>1. ASSUME NEW c \in Bit PROVE \E e \in Stored(t) : Below(p, c, e)
    <3> DEFINE k == Kids(t)[p][c]
    <3>1. k # Null
      BY <1>3 DEF TreeOk, Glued
    <3>2. k \in N /\ Below(p, c, k)
      BY <3>1, TreeNodes DEF KidLinked
    <3> HIDE DEF k
    <3>3. PICK e \in Stored(t) : Covers(k, e)
      BY <3>2, EntryBelow
    <3> QED  BY <1>1, <3>2, <3>3, BelowDown
  <2>2. PICK a \in Stored(t) : Below(p, 0, a)
    BY <1>2, <2>1
  <2>3. PICK b \in Stored(t) : Below(p, 1, b)
    BY <1>2, <2>1
  <2> QED  BY <1>1, <2>2, <2>3, PartsAt
<1>4. ASSUME NEW a \in Stored(t), NEW b \in Stored(t)
      PROVE  Parts(a, b) \in N
  <2> DEFINE P == Parts(a, b)
             S == {q \in N : Covers(q, a) /\ Covers(q, b)}
  <2>0. a \in N /\ b \in N /\ a \in Seq(Bit) /\ b \in Seq(Bit)
    BY <1>1
  <2>1. /\ P \in Seq(Bit) /\ Covers(P, a) /\ Covers(P, b)
        /\ \A m \in Seq(Bit) : Covers(m, a) /\ Covers(m, b) => Covers(m, P)
    BY <2>0, PartsIs
  <2>2. t.head \in S
    <3>1. t.head \in N \cup {Null} /\ t.head # Null /\ Covers(t.head, a) /\ Covers(t.head, b)
      BY <2>0, TreeNodes
    <3> QED  BY <3>1
  <2>3. PICK q \in S : \A r \in S : Len(r) <= Len(q)
    <3>1. S \in SUBSET Bits /\ S # {}
      BY <1>1, <2>2
    <3> HIDE DEF S
    <3> QED  BY <3>1, LongestNode
  <2> HIDE DEF P
  <2>4. q \in N /\ q \in Seq(Bit) /\ Covers(q, P)
    BY <1>1, <2>1, <2>3
  <2>5. SUFFICES ASSUME q # P PROVE FALSE
    BY <2>4 DEF P
  <2>6. StrictlyCovers(q, P)
    BY <2>4, <2>5 DEF StrictlyCovers
  <2>7. PICK c \in Bit : Below(q, c, P)
    BY <2>1, <2>4, <2>6, BelowOne
  <2>8. Below(q, c, a) /\ Below(q, c, b)
    BY <2>0, <2>1, <2>4, <2>7, BelowDown
  <2> DEFINE k == Kids(t)[q][c]
  <2>9. /\ k # Null /\ Covers(k, a) /\ Covers(k, b)
        /\ k \in N /\ Below(q, c, k)
    BY <2>0, <2>4, <2>8, TreeNodes DEF KidLinked
  <2> HIDE DEF k
  <2>10. k \in S /\ StrictlyCovers(q, k)
    BY <2>9 DEF Below
  <2>11. Len(q) < Len(k) /\ Len(q) \in Nat /\ Len(k) \in Nat
    BY <1>1, <2>4, <2>9, <2>10, CoversLonger
  <2> QED  BY <2>3, <2>10, <2>11
<1> QED  BY <1>1, <1>3, <1>4 DEF PartNodes

\* A node's parent is the longest node above it, and points to it on its side.
LEMMA ParentIs ==
  ASSUME NEW t, TreeOk(t), NEW p \in DOMAIN t.heap
  PROVE  LET above == {q \in DOMAIN t.heap : StrictlyCovers(q, p)}
             q == LongestMatch(above, p)
         IN IF above = {} THEN t.heap[p].parent = Null /\ t.head = p
            ELSE /\ t.heap[p].parent = q
                 /\ p = IF BitTest(p, Len(q)) THEN t.heap[q].r ELSE t.heap[q].l
<1> DEFINE N == DOMAIN t.heap
           above == {q \in N : StrictlyCovers(q, p)}
           u == t.heap[p].parent
<1>1. N \subseteq Seq(Bit) /\ Null \notin N /\ UpLinked(N, t.head, Ups(t), p)
  BY TreeNodes
<1>2. Ups(t)[p] = u
  BY DEF Ups
<1>3. /\ u = Null => t.head = p
      /\ u # Null => u \in N /\ StrictlyCovers(u, p)
      /\ \A q \in N : StrictlyCovers(q, p) => u # Null /\ Covers(q, u)
  BY <1>1, <1>2 DEF UpLinked
<1>4. CASE above = {}
  BY <1>3, <1>4
<1>5. CASE above # {}
  <2>1. u # Null /\ u \in N /\ StrictlyCovers(u, p)
    BY <1>3, <1>5
  <2>2. LongestMatch(above, p) = u
    <3>1. above \in SUBSET Seq(Bit) /\ p \in Seq(Bit)
      BY <1>1
    <3>2. u \in Covering(above, p)
      BY <2>1 DEF Covering, StrictlyCovers
    <3>3. \A r \in Covering(above, p) : Len(r) <= Len(u)
      BY <1>1, <1>3, <2>1, CoversLonger DEF Covering
    <3> HIDE DEF above, u
    <3> QED  BY <3>1, <3>2, <3>3, LongestIs
  <2>3. PICK b \in Bit : Below(u, b, p) /\ Kids(t)[u][b] = p
    BY <1>2, <2>1, BothWays DEF TreeOk, Shaped
  <2>4. p[Len(u) + 1] = b
    BY <2>3 DEF Below
  <2>5. Kids(t)[u][b] = IF b = 1 THEN t.heap[u].r ELSE t.heap[u].l
    BY <2>1, SMTT(30) DEF Kids
  <2>6. p = IF BitTest(p, Len(u)) THEN t.heap[u].r ELSE t.heap[u].l
    BY <2>3, <2>4, <2>5 DEF BitTest
  <2> QED  BY <1>5, <2>2, <2>6
<1> QED  BY <1>4, <1>5

\* A node's child has it as its parent.
LEMMA KidsPointBack ==
  ASSUME NEW t, TreeOk(t), NEW p \in DOMAIN t.heap,
         NEW c \in {t.heap[p].l, t.heap[p].r} \ {Null}
  PROVE  t.heap[c].parent = p
<1>1. PICK b \in Bit : Kids(t)[p][b] = c
  <2>1. 0 \in Bit /\ 1 \in Bit /\ Kids(t)[p][0] = t.heap[p].l /\ Kids(t)[p][1] = t.heap[p].r
    BY DEF Kids, Bit
  <2> QED  BY <2>1
<1>2. c \in DOMAIN t.heap
  BY <1>1, TreeNodes
<1>3. p = Ups(t)[c]
  BY <1>1, <1>2, BothWays DEF TreeOk, Shaped
<1> QED  BY <1>2, <1>3 DEF Ups

\* The entries alone say what the tree is: they and the points where two of them
\* part are its nodes, linked with the longest node above each, and counted.
THEOREM TreeIsCanonical == Spec => []CanonicalTree
<1>1. Inv => CanonicalTree
  <2> SUFFICES ASSUME Inv PROVE CanonicalTree
    OBVIOUS
  <2> DEFINE parts(a, b) == Masked(a, DifferBit(a, b, Min({Len(a), Len(b)})))
             nodes == Entries \cup {parts(a, b) : a, b \in Entries}
             above(p) == {q \in nodes : StrictlyCovers(q, p)}
  <2>1. TreeOk(tree) /\ Entries = Stored(tree)
    BY InvIs, DueIs
  <2>2. DOMAIN tree.heap = nodes
    <3>1. nodes = PartNodes(Stored(tree))
      BY <2>1 DEF PartNodes, Parts
    <3> HIDE DEF nodes
    <3> QED  BY <2>1, <3>1, NodesAre
  <2> HIDE DEF nodes
  <2>3. tree.active = Cardinality(nodes)
    BY <2>1, <2>2 DEF TreeOk, Counted
  <2>4. (nodes = {}) = (tree.head = Null)
    <3>1. HeadLinked(nodes, tree.head) /\ Null \notin nodes
      BY <2>1, <2>2, TreeNodes DEF TreeOk, Shaped, Linked
    <3> QED  BY <3>1 DEF HeadLinked
  <2>5. ASSUME NEW p \in nodes
        PROVE  /\ Node(p).bit = Len(p)
               /\ p \in Entries => Masked(Node(p).prefix, Len(p)) = p
    BY <2>1, <2>2 DEF TreeOk, Marked, Node, Entries
  <2>6. ASSUME NEW p \in nodes
        PROVE  IF above(p) = {} THEN Node(p).parent = Null /\ tree.head = p
               ELSE LET q == LongestMatch(above(p), p)
                    IN /\ Node(p).parent = q
                       /\ p = IF BitTest(p, Len(q)) THEN Node(q).r ELSE Node(q).l
    BY <2>1, <2>2, ParentIs DEF Node
  <2>7. ASSUME NEW p \in nodes
        PROVE  \A c \in {Node(p).l, Node(p).r} \ {Null} : Node(c).parent = p
    BY <2>1, <2>2, KidsPointBack DEF Node
  <2>8. \A p \in nodes :
          /\ Node(p).bit = Len(p)
          /\ p \in Entries => Masked(Node(p).prefix, Len(p)) = p
          /\ IF above(p) = {} THEN Node(p).parent = Null /\ tree.head = p
             ELSE LET q == LongestMatch(above(p), p)
                  IN /\ Node(p).parent = q
                     /\ p = IF BitTest(p, Len(q)) THEN Node(q).r ELSE Node(q).l
          /\ \A c \in {Node(p).l, Node(p).r} \ {Null} : Node(c).parent = p
    <3> HIDE DEF above
    <3> QED  BY <2>5, <2>6, <2>7
  <2>9. CanonicalTree <=>
          /\ DOMAIN tree.heap = nodes
          /\ tree.active = Cardinality(nodes)
          /\ (nodes = {}) = (tree.head = Null)
          /\ \A p \in nodes :
               /\ Node(p).bit = Len(p)
               /\ p \in Entries => Masked(Node(p).prefix, Len(p)) = p
               /\ IF above(p) = {} THEN Node(p).parent = Null /\ tree.head = p
                  ELSE LET q == LongestMatch(above(p), p)
                       IN /\ Node(p).parent = q
                          /\ p = IF BitTest(p, Len(q)) THEN Node(q).r ELSE Node(q).l
               /\ \A c \in {Node(p).l, Node(p).r} \ {Null} : Node(c).parent = p
    BY DEF CanonicalTree, nodes
  <2> QED  BY <2>2, <2>3, <2>4, <2>8, <2>9
<1> QED  BY <1>1, RibInvariant, PTL

===============================================================================
