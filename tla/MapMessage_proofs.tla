--------------------------- MODULE MapMessage_proofs ---------------------------
(***************************************************************************)
(* Proofs about the messages: what is written field by field is read back  *)
(* by the offsets the readers' loops come to, for any number of locators   *)
(* and records of either family.                                           *)
(***************************************************************************)
EXTENDS MapMessage, PrefixTheorems, SequenceTheorems

-----------------------------------------------------------------------------
(* Where the fields are.                                                   *)

\* A field with its size, as Field makes them.
Sized(part) == part.size \in Nat \ {0}

\* The offsets are those of the recursive definition.
LEMMA OffsetsDef ==
  ASSUME NEW Part, \A part \in Part : Sized(part), NEW F \in Seq(Part)
  PROVE  /\ Offsets(F) \in [0..Len(F) -> Nat]
         /\ Offsets(F)[0] = 0
         /\ \A i \in 1..Len(F) : Offsets(F)[i] = Offsets(F)[i - 1] + F[i].size
<1> DEFINE n == Len(F)
           round == [i \in 1..n |-> [x \in Nat |-> x + F[i].size]]
           Def(at) == at = [i \in 0..n |-> IF i = 0 THEN 0 ELSE at[i - 1] + F[i].size]
<1>1. n \in Nat /\ \A i \in 1..n : F[i].size \in Nat
  BY DEF Sized
<1> HIDE DEF n
<1>2. round \in [1..n -> [Nat -> Nat]]
  BY <1>1
<1>3. \A i \in 1..n, x \in Nat : round[i][x] = x + F[i].size
  OBVIOUS
<1> HIDE DEF round
<1>4. PICK loop \in [0..n -> Nat] : /\ loop[0] = 0
                                    /\ \A i \in 1..n : loop[i] = round[i][loop[i - 1]]
  <2>1. n \in Nat /\ 0 \in Nat
    BY <1>1
  <2> HIDE DEF Def
  <2>2. Loops(n, Nat, 0, round) # {}
    BY <1>2, <2>1, Iterated
  <2> QED  BY <2>2 DEF Loops
<1>5. ASSUME NEW i \in 1..n PROVE loop[i] = loop[i - 1] + F[i].size
  <2>1. loop[i - 1] \in Nat
    BY <1>1
  <2> QED  BY <1>3, <1>4, <2>1
<1>6. Def(loop)
  <2>1. \A i \in 0..n : loop[i] = IF i = 0 THEN 0 ELSE loop[i - 1] + F[i].size
    BY <1>4, <1>5
  <2> QED  BY <2>1
<1>7. Offsets(F) = CHOOSE at : Def(at)
  BY DEF Offsets, n
<1> HIDE DEF Def
<1>8. Def(Offsets(F))
  BY <1>6, <1>7
<1> DEFINE at == Offsets(F)
<1>9. at = [i \in 0..n |-> IF i = 0 THEN 0 ELSE at[i - 1] + F[i].size]
  BY <1>8 DEF Def
<1> HIDE DEF at
<1>10. DOMAIN at = 0..n /\ at[0] = 0 /\ \A i \in 1..n : at[i] = at[i - 1] + F[i].size
  BY <1>9, <1>1
<1> DEFINE Good == {i \in 0..n : at[i] \in Nat}
<1>11. \A i \in 0..n : i \in Good
  <2>1. 0 \in Good
    BY <1>1, <1>10
  <2>2. ASSUME NEW i \in 1..n, i - 1 \in Good PROVE i \in Good
    <3>1. at[i - 1] \in Nat /\ at[i] = at[i - 1] + F[i].size /\ F[i].size \in Nat
      BY <2>2, <1>1, <1>10
    <3> QED  BY <3>1, <1>1, SMTT(30)
  <2> HIDE DEF Good
  <2> QED  BY <1>1, <2>1, <2>2, Rounds
<1>12. at \in [0..n -> Nat]
  <2>1. at = [i \in 0..n |-> at[i]]
    BY <1>9
  <2> QED  BY <1>11, <2>1
<1> QED  BY <1>10, <1>12 DEF at, n

\* Every field starts behind those before it.
LEMMA Increasing ==
  ASSUME NEW Part, \A part \in Part : Sized(part), NEW F \in Seq(Part),
         NEW i \in 0..Len(F), NEW j \in 0..Len(F), i < j
  PROVE  Offsets(F)[i] < Offsets(F)[j]
<1> DEFINE n == Len(F)
           at == Offsets(F)
           Good == {k \in 0..n : i < k => at[i] < at[k]}
<1>1. n \in Nat /\ \A k \in 1..n : F[k].size \in Nat \ {0}
  BY DEF Sized
<1>2. at \in [0..n -> Nat] /\ \A k \in 1..n : at[k] = at[k - 1] + F[k].size
  BY OffsetsDef
<1> HIDE DEF n, at
<1>3. i \in 0..n /\ j \in 0..n
  BY DEF n
<1>4. 0 \in Good
  BY <1>1, <1>3
<1>5. ASSUME NEW k \in 1..n, k - 1 \in Good PROVE k \in Good
  <2>1. at[k] = at[k - 1] + F[k].size /\ F[k].size \in Nat \ {0}
    BY <1>1, <1>2
  <2>2. k - 1 \in 0..n /\ at[k - 1] \in Nat /\ at[k] \in Nat /\ at[i] \in Nat
    BY <1>1, <1>2, <1>3
  <2>3. at[k - 1] < at[k]
    BY <2>1, <2>2
  <2>4. i < k => at[i] < at[k]
    <3>1. CASE i = k - 1
      BY <2>3, <3>1
    <3>2. CASE i < k - 1
      BY <1>5, <2>2, <2>3, <3>2
    <3> QED  BY <1>1, <1>3, <3>1, <3>2
  <2> QED  BY <1>1, <2>4
<1> HIDE DEF Good
<1>6. \A k \in 0..n : k \in Good
  BY <1>1, <1>4, <1>5, Rounds
<1> QED  BY <1>3, <1>6 DEF Good, at

\* What comes behind moves nothing.
LEMMA OffsetsOfPrefix ==
  ASSUME NEW Part, \A part \in Part : Sized(part), NEW P \in Seq(Part), NEW G \in Seq(Part)
  PROVE  Offsets(P \o G)[Len(P)] = Length(P)
<1> DEFINE F == P \o G
           n == Len(P)
           a == Offsets(P)
           b == Offsets(F)
           Good == {k \in 0..n : a[k] = b[k]}
<1>1. /\ F \in Seq(Part) /\ n \in Nat /\ Len(F) \in Nat /\ n <= Len(F)
      /\ \A k \in 1..n : F[k] = P[k]
  BY ConcatProperties
<1> HIDE DEF F
<1>2. a[0] = 0 /\ \A k \in 1..n : a[k] = a[k - 1] + P[k].size
  BY OffsetsDef
<1>3. b[0] = 0 /\ \A k \in 1..Len(F) : b[k] = b[k - 1] + F[k].size
  BY <1>1, OffsetsDef
<1> HIDE DEF n, a, b
<1>4. 0 \in Good
  BY <1>1, <1>2, <1>3
<1>5. ASSUME NEW k \in 1..n, k - 1 \in Good PROVE k \in Good
  <2>1. a[k - 1] = b[k - 1]
    BY <1>5
  <2>2. k \in 1..Len(F) /\ F[k] = P[k]
    BY <1>1
  <2> QED  BY <1>1, <1>2, <1>3, <2>1, <2>2
<1> HIDE DEF Good
<1>6. \A k \in 0..n : k \in Good
  BY <1>1, <1>4, <1>5, Rounds
<1>7. n \in Good
  BY <1>1, <1>6
<1> QED  BY <1>7 DEF Good, n, a, b, F, Length

\* The length of a message is that of its parts.
LEMMA LengthOfNone == Length(<<>>) = 0
<1>1. <<>> \in Seq({}) /\ Len(<<>>) = 0
  BY EmptySeq
<1>2. \A part \in {} : Sized(part)
  OBVIOUS
<1> QED  BY <1>1, <1>2, OffsetsDef DEF Length

\* A length is a number.
LEMMA LengthNat ==
  ASSUME NEW Part, \A part \in Part : Sized(part), NEW F \in Seq(Part)
  PROVE  Length(F) \in Nat
<1>1. Len(F) \in Nat
  OBVIOUS
<1> QED  BY <1>1, OffsetsDef DEF Length

\* One more field adds its size.
LEMMA LengthOfAppend ==
  ASSUME NEW Part, \A part \in Part : Sized(part), NEW F \in Seq(Part), NEW part \in Part
  PROVE  Length(F \o <<part>>) = Length(F) + part.size
<1> DEFINE G == F \o <<part>>
<1>1. <<part>> \in Seq(Part) /\ G \in Seq(Part) /\ Len(G) = Len(F) + 1 /\ G[Len(F) + 1] = part
  OBVIOUS
<1>2. Offsets(G)[Len(F)] = Length(F)
  BY <1>1, OffsetsOfPrefix
<1> HIDE DEF G
<1>3. Len(F) \in Nat
  OBVIOUS
<1>4. Offsets(G)[Len(F) + 1] = Offsets(G)[Len(F)] + part.size
  BY <1>1, <1>3, OffsetsDef
<1> QED  BY <1>1, <1>2, <1>4 DEF Length, G

\* A field is read where the fields before it end.
LEMMA ReadAt ==
  ASSUME NEW Part, \A part \in Part : Sized(part),
         NEW P \in Seq(Part), NEW part \in Part, NEW G \in Seq(Part)
  PROVE  Read(Lay(P \o <<part>> \o G), Length(P), part.field.kind) = part.field
<1> DEFINE Q == P \o <<part>>
           F == Q \o G
           at == Offsets(F)
           m == Lay(F)
           k == Len(P) + 1
<1>1. <<part>> \in Seq(Part) /\ Q \in Seq(Part) /\ Len(Q) = Len(P) + 1 /\ Q[Len(P) + 1] = part
  OBVIOUS
<1>2. F \in Seq(Part) /\ Len(F) \in Nat /\ k \in 1..Len(F) /\ F[k] = part
  BY <1>1, ConcatProperties
<1>3. at[k - 1] = Length(P)
  <2>1. F = P \o (<<part>> \o G) /\ <<part>> \o G \in Seq(Part)
    BY <1>1, ConcatAssociative
  <2>2. Offsets(P \o (<<part>> \o G))[Len(P)] = Length(P)
    BY <2>1, OffsetsOfPrefix
  <2>3. Len(P) = k - 1
    OBVIOUS
  <2> QED  BY <2>1, <2>2, <2>3
<1> HIDE DEF Q, F
<1>4. DOMAIN F = 1..Len(F)
  BY <1>2
<1>5. \A i \in DOMAIN F : at[i - 1] = Length(P) => i = k
  <2>1. ASSUME NEW a \in 0..Len(F), NEW b \in 0..Len(F), a < b
        PROVE  at[a] < at[b]
    BY <1>2, <2>1, Increasing DEF at
  <2>2. ASSUME NEW a \in 0..Len(F) PROVE at[a] \in Nat
    BY <1>2, OffsetsDef DEF at
  <2> HIDE DEF at, k
  <2>3. ASSUME NEW a \in 0..Len(F), NEW b \in 0..Len(F), a # b
        PROVE  at[a] # at[b]
    <3>1. at[a] \in Nat /\ at[b] \in Nat
      BY <2>2
    <3>2. a < b \/ b < a
      BY <1>2, <2>3
    <3>3. at[a] < at[b] \/ at[b] < at[a]
      BY <2>1, <3>2
    <3> QED  BY <3>1, <3>3
  <2>4. ASSUME NEW i \in 1..Len(F), i # k PROVE at[i - 1] # at[k - 1]
    <3>1. i - 1 \in 0..Len(F) /\ k - 1 \in 0..Len(F) /\ i - 1 # k - 1
      BY <1>2, <2>4
    <3> QED  BY <2>3, <3>1
  <2> QED  BY <1>3, <1>4, <2>4
<1> HIDE DEF at, k
<1>6. (CHOOSE i \in DOMAIN F : at[i - 1] = Length(P)) = k
  BY <1>2, <1>3, <1>4, <1>5
<1>7. m.wrote[Length(P)] = part.field /\ Length(P) \in DOMAIN m.wrote
  <2>1. m.wrote = [off \in {at[i - 1] : i \in DOMAIN F} |->
                     F[CHOOSE i \in DOMAIN F : at[i - 1] = off].field]
    BY DEF Lay, at
  <2>2. Length(P) \in {at[i - 1] : i \in DOMAIN F}
    BY <1>2, <1>3, <1>4
  <2> HIDE DEF m
  <2> QED  BY <1>2, <1>6, <2>1, <2>2
<1> HIDE DEF m
<1>8. Read(m, Length(P), part.field.kind) = part.field
  BY <1>7 DEF Read
<1> QED  BY <1>8 DEF m, F, Q

\* Its length says where the last of them ends.
LEMMA LayLength == ASSUME NEW F PROVE Lay(F).len = Length(F)
  BY DEF Lay, Length

\* The length of what is put together is that of its parts.
LEMMA LengthOfConcat ==
  ASSUME NEW Part, \A part \in Part : Sized(part), NEW P \in Seq(Part), NEW Q \in Seq(Part)
  PROVE  Length(P \o Q) = Length(P) + Length(Q)
<1> DEFINE F == P \o Q
           p == Len(P)
           n == Len(Q)
           a == Offsets(Q)
           b == Offsets(F)
           Good == {k \in 0..n : b[p + k] = Length(P) + a[k]}
<1>1. /\ F \in Seq(Part) /\ n \in Nat /\ p \in Nat /\ Len(F) = p + n
      /\ \A k \in 1..n : F[p + k] = Q[k]
  BY ConcatProperties
<1>2. b[p] = Length(P) /\ Length(P) \in Nat
  BY OffsetsOfPrefix, LengthNat
<1> HIDE DEF F
<1>3. \A k \in 1..n : Q[k].size \in Nat
  BY DEF Sized
<1>4. a \in [0..n -> Nat] /\ a[0] = 0 /\ \A k \in 1..n : a[k] = a[k - 1] + Q[k].size
  BY OffsetsDef
<1>5. \A k \in 1..Len(F) : b[k] = b[k - 1] + F[k].size
  BY <1>1, OffsetsDef
<1> HIDE DEF n, p, a, b
<1>6. 0 \in Good
  BY <1>1, <1>2, <1>4
<1>7. ASSUME NEW k \in 1..n, k - 1 \in Good PROVE k \in Good
  <2>1. b[p + (k - 1)] = Length(P) + a[k - 1]
    BY <1>7
  <2>2. p + k \in 1..Len(F) /\ F[p + k] = Q[k] /\ p + (k - 1) = (p + k) - 1
    BY <1>1
  <2>3. b[p + k] = b[p + (k - 1)] + Q[k].size
    BY <1>5, <2>2
  <2>4. a[k] = a[k - 1] + Q[k].size /\ a[k - 1] \in Nat /\ Q[k].size \in Nat
    <3>1. k - 1 \in 0..n /\ k \in 1..n
      BY <1>1
    <3>2. a[k - 1] \in Nat
      BY <1>4, <3>1
    <3> QED  BY <1>3, <1>4, <3>1, <3>2
  <2> QED  BY <1>1, <1>2, <2>1, <2>3, <2>4, SMTT(30)
<1> HIDE DEF Good
<1>8. \A k \in 0..n : k \in Good
  BY <1>1, <1>6, <1>7, Rounds
<1>9. n \in Good
  BY <1>1, <1>8
<1>10. b[p + n] = Length(P) + a[n]
  BY <1>9 DEF Good
<1>11. b[Len(F)] = Length(P) + a[n]
  BY <1>1, <1>10
<1> QED  BY <1>11 DEF n, a, b, F, Length

\* What there is of joined sequences before the first of them and after each.
Joints(X, S) ==
  {V \in [0..Len(S) -> Seq(X)] :
     /\ V[0] = <<>>
     /\ V[Len(S)] = FlattenSeq(S)
     /\ \A i \in 1..Len(S) : V[i] = V[i - 1] \o S[i]
     /\ \A i \in 0..Len(S) : \E R \in Seq(X) : FlattenSeq(S) = V[i] \o R}

\* Joined sequences have such joints.
LEMMA Joined ==
  ASSUME NEW X, NEW S \in Seq(Seq(X))
  PROVE  Joints(X, S) # {}
<1> DEFINE n == Len(S)
           round == [i \in 1..n |-> [x \in Seq(X) |-> x \o S[i]]]
<1>1. n \in Nat /\ (\A i \in 1..n : S[i] \in Seq(X)) /\ <<>> \in Seq(X)
  OBVIOUS
<1>2. n = 0 => S = <<>>
  BY EmptySeq
<1> HIDE DEF n
<1>3. round \in [1..n -> [Seq(X) -> Seq(X)]]
  BY <1>1, ConcatProperties
<1>4. \A i \in 1..n, x \in Seq(X) : round[i][x] = x \o S[i]
  OBVIOUS
<1> HIDE DEF round
<1>5. PICK V \in [0..n -> Seq(X)] : /\ V[0] = <<>>
                                    /\ \A i \in 1..n : V[i] = round[i][V[i - 1]]
  <2>1. Loops(n, Seq(X), <<>>, round) # {}
    BY <1>1, <1>3, Iterated
  <2> QED  BY <2>1 DEF Loops
<1>6. ASSUME NEW i \in 1..n PROVE V[i] = V[i - 1] \o S[i]
  <2>1. V[i - 1] \in Seq(X)
    BY <1>1, <1>5
  <2> QED  BY <1>4, <1>5, <2>1
<1>7. V[n] = FlattenSeq(S)
  <2>1. CASE n = 0
    BY <1>2, <1>5, <2>1 DEF FlattenSeq, n
  <2>2. CASE n # 0
    <3> DEFINE Def(f) == f = [i \in 1..n |-> IF i = 1 THEN S[i] ELSE f[i - 1] \o S[i]]
               W == [i \in 1..n |-> V[i]]
               flat == CHOOSE f : Def(f)
               Good == {i \in 0..n : i > 0 => flat[i] = V[i]}
    <3>1. V[1] = S[1]
      <4>1. 1 \in 1..n /\ 1 - 1 = 0
        BY <1>1, <2>2
      <4>2. V[1] = V[0] \o S[1]
        BY <1>6, <4>1
      <4>3. S[1] \in Seq(X) /\ V[0] = <<>>
        BY <1>1, <1>5, <4>1
      <4> QED  BY <4>2, <4>3, ConcatEmptySeq
    <3>2. Def(W)
      <4>1. ASSUME NEW i \in 1..n
            PROVE  W[i] = IF i = 1 THEN S[i] ELSE W[i - 1] \o S[i]
        <5>1. CASE i = 1
          BY <3>1, <5>1
        <5>2. CASE i # 1
          <6>1. i - 1 \in 1..n
            BY <1>1, <5>2
          <6> QED  BY <1>6, <5>2, <6>1
        <5> QED  BY <5>1, <5>2
      <4> HIDE DEF flat, Good
      <4> QED  BY <4>1
    <3>3. Def(flat)
      <4> HIDE DEF Def
      <4> QED  BY <3>2
    <3> HIDE DEF flat
    <3>4. \A i \in 1..n : flat[i] = IF i = 1 THEN S[i] ELSE flat[i - 1] \o S[i]
      BY <3>3
    <3> HIDE DEF Def
    <3>5. 0 \in Good
      BY <1>1
    <3>6. ASSUME NEW i \in 1..n, i - 1 \in Good PROVE i \in Good
      <4>1. CASE i = 1
        BY <1>1, <3>1, <3>4, <4>1
      <4>2. CASE i # 1
        <5>1. i - 1 \in 1..n /\ i - 1 > 0
          BY <1>1, <4>2
        <5>2. flat[i - 1] = V[i - 1]
          BY <3>6, <5>1
        <5>3. flat[i] = flat[i - 1] \o S[i] /\ V[i] = V[i - 1] \o S[i]
          BY <1>6, <3>4, <4>2
        <5>4. flat[i] = V[i]
          BY <5>2, <5>3, Zenon
        <5>5. i \in 0..n
          BY <1>1
        <5> QED  BY <5>4, <5>5
      <4> QED  BY <4>1, <4>2
    <3> HIDE DEF Good
    <3>7. \A i \in 0..n : i \in Good
      BY <1>1, <3>5, <3>6, Rounds
    <3>8. flat[n] = V[n]
      BY <1>1, <2>2, <3>7 DEF Good
    <3>9. FlattenSeq(S) = flat[n]
      BY <2>2 DEF FlattenSeq, flat, Def, n
    <3> QED  BY <3>8, <3>9
  <2> QED  BY <2>1, <2>2
<1>8. \A i \in 0..n : \E R \in Seq(X) : FlattenSeq(S) = V[i] \o R
  <2> DEFINE Rest(i) == \E R \in Seq(X) : FlattenSeq(S) = V[i] \o R
             Good == {i \in 0..n : Rest(n - i)}
  <2>1. 0 \in Good
    <3>1. V[n] = V[n] \o <<>> /\ n - 0 = n
      BY <1>1, <1>5, ConcatEmptySeq
    <3>2. Rest(n)
      BY <1>1, <1>7, <3>1
    <3> HIDE DEF Rest
    <3> QED  BY <1>1, <3>1, <3>2
  <2>2. ASSUME NEW i \in 1..n, i - 1 \in Good PROVE i \in Good
    <3> DEFINE k == n - i
    <3>1. k \in 0..n /\ k + 1 \in 1..n /\ n - (i - 1) = k + 1
      BY <1>1
    <3> HIDE DEF k
    <3>2. PICK R \in Seq(X) : FlattenSeq(S) = V[k + 1] \o R
      BY <2>2, <3>1
    <3>3. V[k + 1] = V[k] \o S[k + 1] /\ V[k] \in Seq(X) /\ S[k + 1] \in Seq(X)
      BY <1>1, <1>5, <1>6, <3>1, (k + 1) - 1 = k
    <3> DEFINE v == V[k]
               t == S[k + 1]
    <3>4. FlattenSeq(S) = v \o (t \o R) /\ t \o R \in Seq(X)
      <4>1. v \in Seq(X) /\ t \in Seq(X) /\ FlattenSeq(S) = (v \o t) \o R
        BY <3>2, <3>3
      <4> HIDE DEF v, t
      <4>2. (v \o t) \o R = v \o (t \o R)
        BY <4>1, ConcatAssociative, SMTT(30)
      <4>3. t \o R \in Seq(X)
        BY <4>1, ConcatProperties
      <4> QED  BY <4>1, <4>2, <4>3
    <3>5. Rest(k)
      BY <3>4
    <3> HIDE DEF Rest
    <3> QED  BY <3>5 DEF k
  <2> HIDE DEF Good
  <2>3. \A i \in 0..n : i \in Good
    BY <1>1, <2>1, <2>2, Rounds
  <2>4. ASSUME NEW i \in 0..n PROVE Rest(i)
    <3>1. n - i \in 0..n /\ n - (n - i) = i
      BY <1>1
    <3> HIDE DEF Rest
    <3>2. Rest(n - (n - i))
      BY <2>3, <3>1 DEF Good
    <3> QED  BY <3>1, <3>2
  <2> QED  BY <2>4
<1> QED  BY <1>5, <1>6, <1>7, <1>8 DEF n, Joints

\* One sequence alone, joined, is itself.
LEMMA OneJoined ==
  ASSUME NEW X, NEW S, S = [i \in 1..1 |-> S[i]], S[1] \in Seq(X)
  PROVE  FlattenSeq(S) = S[1]
<1>1. S \in [1..1 -> Seq(X)]
  <2>1. \A i \in 1..1 : S[i] \in Seq(X)
    OBVIOUS
  <2> QED  BY <2>1
<1>2. S \in Seq(Seq(X))
  BY <1>1
<1>3. Len(S) = 1
  BY <1>1, <1>2, LenProperties
<1>4. PICK V \in [0..1 -> Seq(X)] : V[0] = <<>> /\ V[1] = FlattenSeq(S)
                                    /\ \A i \in 1..1 : V[i] = V[i - 1] \o S[i]
  <2>1. Joints(X, S) # {}
    BY <1>2, Joined
  <2> QED  BY <1>3, <2>1 DEF Joints
<1>5. V[1] = V[0] \o S[1]
  <2>1. 1 \in 1..1 /\ 1 - 1 = 0
    OBVIOUS
  <2>2. V[1] = V[1 - 1] \o S[1]
    BY <1>4, <2>1, Zenon
  <2> QED  BY <2>1, <2>2
<1>6. <<>> \o S[1] = S[1]
  BY ConcatEmptySeq
<1> QED  BY <1>4, <1>5, <1>6

-----------------------------------------------------------------------------
(* The messages of the protocol.                                           *)

\* The fields there are, and the parts messages are made of.
Fields ==
  [kind : {"header"}, type : {"ecap", "register", "request", "reply"}, P_flag : BOOLEAN,
   irc : Nat, record_count : Nat]
    \cup [kind : {"ip"}, ip_v : Family]
    \cup [kind : {"udp", "unwritten"}]
    \cup [kind : {"afi"}, afi : {0} \cup Family]
    \cup [kind : {"addr"}, addr : {x.addr : x \in Prefix \cup Locator}]
    \cup [kind : {"record"}, afi : Family, locator_count : Nat]
    \cup [kind : {"locator"}, afi : Family, priority : 0..255]
    \cup [kind : {"reqrec"}, afi : Family]
Part == [field : Fields, size : Nat \ {0}]

\* A message with all of P in front.
Starts(P, F) == \E G \in Seq(Part) : F = P \o G

\* Every part has a size.
LEMMA PartSized == \A part \in Part : Sized(part)
  BY DEF Part, Sized

\* Fields one behind the other are fields, ...
LEMMA Together == \A A, B \in Seq(Part) : A \o B \in Seq(Part)
<1>1. ASSUME NEW A \in Seq(Part), NEW B \in Seq(Part) PROVE A \o B \in Seq(Part)
  BY ConcatProperties
<1> QED  BY Zenon, <1>1

\* ... and may be grouped in any way.
Grouped(A, B, C) == A \o (B \o C) = (A \o B) \o C
LEMMA Regroup == \A A, B, C \in Seq(Part) : Grouped(A, B, C)
<1>1. ASSUME NEW A \in Seq(Part), NEW B \in Seq(Part), NEW C \in Seq(Part)
      PROVE  Grouped(A, B, C)
  BY ConcatAssociative DEF Grouped
<1> QED  BY Zenon, <1>1

\* What starts with P and Q starts with P.
LEMMA StartsShorter ==
  ASSUME NEW P \in Seq(Part), NEW Q \in Seq(Part), NEW F, Starts(P \o Q, F)
  PROVE  Starts(P, F)
<1>1. PICK G \in Seq(Part) : F = (P \o Q) \o G
  BY DEF Starts
<1>2. F = P \o (Q \o G) /\ Q \o G \in Seq(Part)
  BY <1>1, ConcatAssociative, ConcatProperties
<1> QED  BY <1>2 DEF Starts

\* A message starts with itself.
LEMMA StartsItself ==
  ASSUME NEW F \in Seq(Part)
  PROVE  Starts(F, F)
<1>1. <<>> \in Seq(Part) /\ F = F \o <<>>
  BY ConcatEmptySeq
<1> QED  BY <1>1 DEF Starts

\* A field behind P is read where P ends, and moves the end by its size.
LEMMA FieldRead ==
  ASSUME NEW P \in Seq(Part), NEW f \in Fields, NEW s \in Nat \ {0}
  PROVE  /\ P \o Field(f, s) \in Seq(Part)
         /\ Field(f, s) \in Seq(Part)
         /\ Length(P \o Field(f, s)) = Length(P) + s
         /\ \A F : Starts(P \o Field(f, s), F) =>
              Starts(P, F) /\ Read(Lay(F), Length(P), f.kind) = f
<1> DEFINE part == [field |-> f, size |-> s]
<1>1. Field(f, s) = <<part>>
  BY DEF Field
<1>2. part \in Part /\ part.field = f /\ part.size = s
  BY DEF Part
<1> HIDE DEF part
<1>3. <<part>> \in Seq(Part) /\ P \o <<part>> \in Seq(Part)
  BY <1>2
<1>4. Length(P \o <<part>>) = Length(P) + part.size
  BY <1>2, PartSized, LengthOfAppend
<1>5. ASSUME NEW F, Starts(P \o <<part>>, F)
      PROVE  Starts(P, F) /\ Read(Lay(F), Length(P), part.field.kind) = part.field
  <2>1. Starts(P, F)
    BY <1>3, <1>5, StartsShorter
  <2>2. PICK G \in Seq(Part) : F = P \o <<part>> \o G
    BY <1>5 DEF Starts
  <2>3. Read(Lay(P \o <<part>> \o G), Length(P), part.field.kind) = part.field
    BY <1>2, PartSized, ReadAt
  <2> QED  BY <2>1, <2>2, <2>3
<1> QED  BY <1>1, <1>2, <1>3, <1>4, <1>5

\* An address has 4 or 16 bytes.
LEMMA AddrSizes == \A af : AddrSize(af) \in Nat \ {0}
  BY DEF AddrSize

\* The fields of prefixes and locators are fields.
LEMMA AddressFields ==
  ASSUME NEW x \in Prefix \cup Locator
  PROVE  /\ x.af \in Family
         /\ [kind |-> "addr", addr |-> x.addr] \in Fields
         /\ [kind |-> "afi", afi |-> x.af] \in Fields
<1>1. x.af \in Family
  BY FamilyAssumption
<1> QED  BY <1>1 DEF Fields

\* A locator's own field, and the locator from what is in it.
LEMMA LocatorField ==
  ASSUME NEW l \in Locator
  PROVE  /\ [kind |-> "locator", afi |-> l.af, priority |-> l.priority] \in Fields
         /\ l = [af |-> l.af, addr |-> l.addr, priority |-> l.priority]
  BY FamilyAssumption DEF Fields

\* A locator behind P is found where P ends, and the next one where it ends.
LEMMA LocatorRead ==
  ASSUME NEW P \in Seq(Part), NEW l \in Locator
  PROVE  /\ P \o LocatorFields(l) \in Seq(Part)
         /\ LocatorFields(l) \in Seq(Part)
         /\ \A F : Starts(P \o LocatorFields(l), F) =>
              /\ Starts(P, F)
              /\ LocatorAt(Lay(F), Length(P)) = l
              /\ Read(Lay(F), Length(P), "locator").priority = l.priority
              /\ \A c : NextLocator(Lay(F), c, Length(P)) = Length(P \o LocatorFields(l))
<1> DEFINE f == [kind |-> "locator", afi |-> l.af, priority |-> l.priority]
           a == [kind |-> "addr", addr |-> l.addr]
           s == AddrSize(l.af)
           A == Field(f, LocatorSize)
           B == Field(a, s)
           Q == P \o A
           R == Q \o B
<1>1. /\ f \in Fields /\ a \in Fields /\ LocatorSize \in Nat \ {0} /\ s \in Nat \ {0}
      /\ f.kind = "locator" /\ a.kind = "addr" /\ a.addr = l.addr
      /\ f.afi = l.af /\ f.priority = l.priority
  <2>1. f \in Fields
    BY LocatorField
  <2>2. a \in Fields
    BY AddressFields
  <2>3. LocatorSize \in Nat \ {0} /\ s \in Nat \ {0}
    BY AddrSizes DEF LocatorSize
  <2> QED  BY <2>1, <2>2, <2>3
<1>2. LocatorFields(l) = A \o B
  BY DEF LocatorFields, Address
<1> HIDE DEF f, a, A, B, s
<1>3. /\ Q \in Seq(Part) /\ A \in Seq(Part) /\ Length(Q) = Length(P) + LocatorSize
      /\ \A F : Starts(Q, F) => Starts(P, F) /\ Read(Lay(F), Length(P), f.kind) = f
  BY <1>1, FieldRead DEF A
<1> HIDE DEF Q
<1>4. /\ R \in Seq(Part) /\ B \in Seq(Part) /\ Length(R) = Length(Q) + s
      /\ \A F : Starts(R, F) => Starts(Q, F) /\ Read(Lay(F), Length(Q), a.kind) = a
  BY <1>1, <1>3, FieldRead DEF B
<1> HIDE DEF R
<1>5. P \o LocatorFields(l) = R /\ LocatorFields(l) \in Seq(Part)
  BY <1>2, <1>3, <1>4, ConcatAssociative, ConcatProperties, SMTT(30) DEF Q, R
<1>6. ASSUME NEW F, Starts(R, F)
      PROVE  /\ Starts(P, F)
             /\ LocatorAt(Lay(F), Length(P)) = l
             /\ Read(Lay(F), Length(P), "locator").priority = l.priority
             /\ \A c : NextLocator(Lay(F), c, Length(P)) = Length(R)
  <2> DEFINE m == Lay(F)
  <2>1. Starts(P, F) /\ Read(m, Length(P), "locator") = f
    BY <1>1, <1>3, <1>4, <1>6
  <2>2. Read(m, Length(P) + LocatorSize, "addr") = a
    BY <1>1, <1>3, <1>4, <1>6
  <2> HIDE DEF m
  <2>3. LocatorAt(m, Length(P)) = [af |-> l.af, addr |-> l.addr, priority |-> l.priority]
    BY <1>1, <2>1, <2>2 DEF LocatorAt, AddrAt
  <2>4. \A c : NextLocator(m, c, Length(P)) = Length(P) + LocatorSize + s
    BY <1>1, <2>1 DEF NextLocator, s
  <2> QED  BY <1>1, <1>3, <1>4, <2>1, <2>3, <2>4, LocatorField DEF m
<1> QED  BY <1>4, <1>5, <1>6

\* Locators behind Q are found one behind the other, where Q ends and where each
\* of them ends.
LEMMA LocatorsLie ==
  ASSUME NEW Q \in Seq(Part), NEW L \in Seq(Locator)
  PROVE  LET all == FlattenSeq([i \in DOMAIN L |-> LocatorFields(L[i])]) IN
         /\ all \in Seq(Part) /\ Q \o all \in Seq(Part)
         /\ \E off \in [0..Len(L) -> Nat] :
              /\ off[0] = Length(Q) /\ off[Len(L)] = Length(Q \o all)
              /\ \A F : Starts(Q \o all, F) => \A i \in 1..Len(L) :
                   /\ LocatorAt(Lay(F), off[i - 1]) = L[i]
                   /\ Read(Lay(F), off[i - 1], "locator").priority = L[i].priority
                   /\ \A c : NextLocator(Lay(F), c, off[i - 1]) = off[i]
<1> DEFINE n == Len(L)
           S == [i \in DOMAIN L |-> LocatorFields(L[i])]
           all == FlattenSeq(S)
<1>1. n \in Nat /\ DOMAIN L = 1..n /\ \A i \in 1..n : L[i] \in Locator
  OBVIOUS
<1>2. S \in Seq(Seq(Part)) /\ Len(S) = n /\ \A i \in 1..n : S[i] = LocatorFields(L[i])
  <2>1. \A i \in 1..n : LocatorFields(L[i]) \in Seq(Part)
    BY <1>1, LocatorRead
  <2>2. S \in [1..n -> Seq(Part)] /\ \A i \in 1..n : S[i] = LocatorFields(L[i])
    BY <1>1, <2>1
  <2> HIDE DEF S, n
  <2> QED  BY <1>1, <2>2
<1> HIDE DEF S, n
<1>3. PICK V \in [0..n -> Seq(Part)] :
        /\ V[0] = <<>> /\ V[n] = all
        /\ \A i \in 1..n : V[i] = V[i - 1] \o S[i]
        /\ \A i \in 0..n : \E R \in Seq(Part) : all = V[i] \o R
  <2>1. Joints(Part, S) # {}
    BY <1>2, Joined
  <2> QED  BY <1>2, <2>1 DEF Joints
<1> HIDE DEF all
<1>4. all \in Seq(Part) /\ Q \o all \in Seq(Part)
  BY <1>1, <1>3, ConcatProperties
<1> DEFINE off == [i \in 0..n |-> Length(Q \o V[i])]
<1>5. \A i \in 0..n : V[i] \in Seq(Part) /\ Q \o V[i] \in Seq(Part)
  BY <1>3, ConcatProperties
<1>6. off \in [0..n -> Nat] /\ off[0] = Length(Q) /\ off[n] = Length(Q \o all)
  <2>1. \A i \in 0..n : Length(Q \o V[i]) \in Nat
    BY <1>5, PartSized, LengthNat
  <2>2. Q \o V[0] = Q
    BY <1>3, ConcatEmptySeq
  <2>3. 0 \in 0..n /\ n \in 0..n
    BY <1>1
  <2> QED  BY <1>3, <2>1, <2>2, <2>3
<1>7. \A i \in 0..n : off[i] = Length(Q \o V[i])
  OBVIOUS
<1> HIDE DEF off
<1>8. ASSUME NEW F, Starts(Q \o all, F), NEW i \in 1..n
      PROVE  /\ LocatorAt(Lay(F), off[i - 1]) = L[i]
             /\ Read(Lay(F), off[i - 1], "locator").priority = L[i].priority
             /\ \A c : NextLocator(Lay(F), c, off[i - 1]) = off[i]
  <2> DEFINE v == V[i - 1]
             w == V[i]
             t == LocatorFields(L[i])
  <2>1. i - 1 \in 0..n /\ i \in 0..n
    BY <1>1
  <2>2. v \in Seq(Part) /\ w \in Seq(Part) /\ w = v \o t
    BY <1>2, <1>3, <1>5, <2>1
  <2>3. PICK R \in Seq(Part) : all = w \o R
    BY <1>3, <2>1
  <2>4. off[i - 1] = Length(Q \o v) /\ off[i] = Length(Q \o w)
    BY <1>7, <2>1
  <2> HIDE DEF v, w
  <2>5. L[i] \in Locator /\ t \in Seq(Part)
    BY <1>1, <2>2, LocatorRead
  <2> HIDE DEF t
  <2>6. Q \o all = (Q \o w) \o R /\ Q \o w = (Q \o v) \o t /\ Q \o v \in Seq(Part)
        /\ Q \o w \in Seq(Part)
    <3>1. Q \o v \in Seq(Part) /\ Q \o w \in Seq(Part)
      BY <2>2, Together, Zenon
    <3>2. Q \o (w \o R) = (Q \o w) \o R
      <4>1. Grouped(Q, w, R)
        BY <2>2, Regroup, Zenon
      <4> QED  BY <4>1, Zenon DEF Grouped
    <3>3. Q \o (v \o t) = (Q \o v) \o t
      <4>1. Grouped(Q, v, t)
        BY <2>2, <2>5, Regroup, Zenon
      <4> QED  BY <4>1, Zenon DEF Grouped
    <3> QED  BY <2>2, <2>3, <3>1, <3>2, <3>3, Zenon
  <2>7. Starts((Q \o v) \o t, F)
    BY <1>8, <2>3, <2>6, StartsShorter
  <2> DEFINE q == Q \o v
             l == L[i]
  <2>8. q \in Seq(Part) /\ l \in Locator /\ Starts(q \o LocatorFields(l), F)
    BY <2>5, <2>6, <2>7 DEF t
  <2>9. Q \o w = q \o LocatorFields(l)
    BY <2>6 DEF t
  <2>10. off[i - 1] = Length(q) /\ off[i] = Length(q \o LocatorFields(l))
    BY <2>4, <2>9
  <2> HIDE DEF q, l
  <2>11. /\ LocatorAt(Lay(F), Length(q)) = l
         /\ Read(Lay(F), Length(q), "locator").priority = l.priority
         /\ \A c : NextLocator(Lay(F), c, Length(q)) = Length(q \o LocatorFields(l))
    BY <2>8, LocatorRead
  <2> QED  BY <2>10, <2>11 DEF l
<1>9. \E x \in [0..n -> Nat] :
        /\ x[0] = Length(Q) /\ x[n] = Length(Q \o all)
        /\ \A F : Starts(Q \o all, F) => \A i \in 1..n :
             /\ LocatorAt(Lay(F), x[i - 1]) = L[i]
             /\ Read(Lay(F), x[i - 1], "locator").priority = L[i].priority
             /\ \A c : NextLocator(Lay(F), c, x[i - 1]) = x[i]
  BY <1>6, <1>8
<1> QED  BY <1>4, <1>9 DEF n, all, S

\* A record behind P: where its fields are, and where its locators begin.
LEMMA RecordLies ==
  ASSUME NEW P \in Seq(Part), NEW p \in Prefix, NEW L \in Seq(Locator), Len(L) <= 255
  PROVE  /\ RecordFields(p, L) \in Seq(Part) /\ P \o RecordFields(p, L) \in Seq(Part)
         /\ \E off \in [0..Len(L) -> Nat] :
              /\ off[0] = Length(P) + RecordSize + AddrSize(p.af)
              /\ off[Len(L)] = Length(P \o RecordFields(p, L))
              /\ \A F : Starts(P \o RecordFields(p, L), F) =>
                   /\ Starts(P, F)
                   /\ Read(Lay(F), Length(P), "record").afi = p.af
                   /\ Read(Lay(F), Length(P), "record").locator_count = Len(L)
                   /\ AddrAt(Lay(F), Length(P) + RecordSize) = p.addr
                   /\ \A i \in 1..Len(L) :
                        /\ LocatorAt(Lay(F), off[i - 1]) = L[i]
                        /\ Read(Lay(F), off[i - 1], "locator").priority = L[i].priority
                        /\ \A c : NextLocator(Lay(F), c, off[i - 1]) = off[i]
<1> DEFINE n == Len(L)
           f == [kind |-> "record", afi |-> p.af, locator_count |-> n]
           a == [kind |-> "addr", addr |-> p.addr]
           s == AddrSize(p.af)
           A == Field(f, RecordSize)
           B == Field(a, s)
           all == FlattenSeq([i \in DOMAIN L |-> LocatorFields(L[i])])
           Q == P \o A
           R == Q \o B
<1>1. n \in Nat /\ n % 256 = n
  <2>1. n \in Nat /\ n <= 255
    BY LenProperties
  <2> HIDE DEF n
  <2> QED  BY <2>1
<1>2. RecordFields(p, L) = A \o B \o all
  BY <1>1 DEF RecordFields, Address
<1>3. f \in Fields /\ f.kind = "record" /\ f.afi = p.af /\ f.locator_count = n
  <2> HIDE DEF n
  <2> QED  BY <1>1, FamilyAssumption DEF Fields
<1>4. a \in Fields /\ a.kind = "addr" /\ a.addr = p.addr
  BY AddressFields
<1>5. RecordSize \in Nat \ {0} /\ s \in Nat \ {0}
  BY AddrSizes DEF RecordSize
<1> HIDE DEF f, a, A, B, s
<1>6. /\ Q \in Seq(Part) /\ A \in Seq(Part) /\ Length(Q) = Length(P) + RecordSize
      /\ \A F : Starts(Q, F) => Starts(P, F) /\ Read(Lay(F), Length(P), f.kind) = f
  BY <1>3, <1>5, FieldRead DEF A
<1> HIDE DEF Q
<1>7. /\ R \in Seq(Part) /\ B \in Seq(Part) /\ Length(R) = Length(Q) + s
      /\ \A F : Starts(R, F) => Starts(Q, F) /\ Read(Lay(F), Length(Q), a.kind) = a
  BY <1>4, <1>5, <1>6, FieldRead DEF B
<1> HIDE DEF R
<1>8. PICK off \in [0..n -> Nat] :
        /\ off[0] = Length(R) /\ off[n] = Length(R \o all)
        /\ \A F : Starts(R \o all, F) => \A i \in 1..n :
             /\ LocatorAt(Lay(F), off[i - 1]) = L[i]
             /\ Read(Lay(F), off[i - 1], "locator").priority = L[i].priority
             /\ \A c : NextLocator(Lay(F), c, off[i - 1]) = off[i]
  BY <1>7, LocatorsLie
<1>9. all \in Seq(Part) /\ R \o all \in Seq(Part)
  BY <1>7, LocatorsLie
<1> HIDE DEF all, n
<1>10. P \o RecordFields(p, L) = R \o all /\ RecordFields(p, L) \in Seq(Part)
  <2>1. A \o B \in Seq(Part) /\ A \o B \o all \in Seq(Part)
    BY <1>6, <1>7, <1>9, Together, Zenon
  <2>2. P \o ((A \o B) \o all) = (P \o (A \o B)) \o all
    <3>1. Grouped(P, A \o B, all)
      BY <1>9, <2>1, Regroup, Zenon
    <3> QED  BY <3>1, Zenon DEF Grouped
  <2>3. P \o (A \o B) = R
    <3>1. Grouped(P, A, B)
      BY <1>6, <1>7, Regroup, Zenon
    <3> QED  BY <3>1, Zenon DEF Grouped, Q, R
  <2> QED  BY <1>2, <2>1, <2>2, <2>3
<1>11. off[0] = Length(P) + RecordSize + AddrSize(p.af)
  BY <1>6, <1>7, <1>8 DEF s
<1>12. ASSUME NEW F, Starts(R \o all, F)
       PROVE  /\ Starts(P, F)
              /\ Read(Lay(F), Length(P), "record").afi = p.af
              /\ Read(Lay(F), Length(P), "record").locator_count = n
              /\ AddrAt(Lay(F), Length(P) + RecordSize) = p.addr
  <2>1. Starts(R, F)
    BY <1>7, <1>9, <1>12, StartsShorter
  <2>2. Starts(P, F) /\ Read(Lay(F), Length(P), "record") = f
        /\ Read(Lay(F), Length(Q), "addr") = a
    BY <1>3, <1>4, <1>6, <1>7, <2>1
  <2> QED  BY <1>3, <1>4, <1>6, <2>2 DEF AddrAt
<1>13. \E x \in [0..n -> Nat] :
         /\ x[0] = Length(P) + RecordSize + AddrSize(p.af)
         /\ x[n] = Length(R \o all)
         /\ \A F : Starts(R \o all, F) =>
              /\ Starts(P, F)
              /\ Read(Lay(F), Length(P), "record").afi = p.af
              /\ Read(Lay(F), Length(P), "record").locator_count = n
              /\ AddrAt(Lay(F), Length(P) + RecordSize) = p.addr
              /\ \A i \in 1..n :
                   /\ LocatorAt(Lay(F), x[i - 1]) = L[i]
                   /\ Read(Lay(F), x[i - 1], "locator").priority = L[i].priority
                   /\ \A c : NextLocator(Lay(F), c, x[i - 1]) = x[i]
  BY <1>8, <1>11, <1>12
<1> QED  BY <1>9, <1>10, <1>13 DEF n

-----------------------------------------------------------------------------
(* Reading a record.                                                       *)

\* The record for p with the locators L lies at o, its locators at the offsets
\* off, and its end.
Lies(m, o, p, L, off, end) ==
  /\ off \in [0..Len(L) -> Nat]
  /\ off[0] = o + RecordSize + AddrSize(p.af)
  /\ off[Len(L)] = end
  /\ Read(m, o, "record").afi = p.af
  /\ Read(m, o, "record").locator_count = Len(L)
  /\ AddrAt(m, o + RecordSize) = p.addr
  /\ \A i \in 1..Len(L) : /\ LocatorAt(m, off[i - 1]) = L[i]
                          /\ Read(m, off[i - 1], "locator").priority = L[i].priority
                          /\ \A c : NextLocator(m, c, off[i - 1]) = off[i]

\* Where a record is written it lies.
LEMMA RecordWritten ==
  ASSUME NEW P \in Seq(Part), NEW p \in Prefix, NEW L \in Seq(Locator), Len(L) <= 255,
         NEW F, Starts(P \o RecordFields(p, L), F)
  PROVE  \E off : Lies(Lay(F), Length(P), p, L, off, Length(P \o RecordFields(p, L)))
<1>1. PICK off \in [0..Len(L) -> Nat] :
        /\ off[0] = Length(P) + RecordSize + AddrSize(p.af)
        /\ off[Len(L)] = Length(P \o RecordFields(p, L))
        /\ \A G : Starts(P \o RecordFields(p, L), G) =>
             /\ Starts(P, G)
             /\ Read(Lay(G), Length(P), "record").afi = p.af
             /\ Read(Lay(G), Length(P), "record").locator_count = Len(L)
             /\ AddrAt(Lay(G), Length(P) + RecordSize) = p.addr
             /\ \A i \in 1..Len(L) :
                  /\ LocatorAt(Lay(G), off[i - 1]) = L[i]
                  /\ Read(Lay(G), off[i - 1], "locator").priority = L[i].priority
                  /\ \A c : NextLocator(Lay(G), c, off[i - 1]) = off[i]
  BY RecordLies
<1> QED  BY <1>1 DEF Lies

\* Loops that begin alike and go on alike come to the same.
GoOnAlike(n, f, g) == /\ f[0] = g[0]
                      /\ \A i \in 1..n : f[i - 1] = g[i - 1] => f[i] = g[i]
Alike(n, f, g) == \A i \in 0..n : f[i] = g[i]

\* Then they have the same values.
LEMMA SameRounds ==
  ASSUME NEW n \in Nat, NEW f, NEW g, GoOnAlike(n, f, g)
  PROVE  Alike(n, f, g)
<1> DEFINE Good == {i \in 0..n : f[i] = g[i]}
<1>1. 0 \in Good
  BY DEF GoOnAlike
<1>2. ASSUME NEW i \in 1..n, i - 1 \in Good PROVE i \in Good
  BY <1>2 DEF GoOnAlike
<1> HIDE DEF Good
<1>3. \A i \in 0..n : i \in Good
  BY <1>1, <1>2, Rounds
<1> QED  BY <1>3 DEF Good, Alike

\* The map server reads the record written.
LEMMA RecordFound ==
  ASSUME NEW P \in Seq(Part), NEW p \in Prefix, NEW L \in Seq(Locator), Len(L) <= 255,
         NEW F, Starts(P \o RecordFields(p, L), F)
  PROVE  RecordAt(Lay(F), Length(P)) =
           [prefix |-> p, locators |-> L,
            ends |-> Length(P \o RecordFields(p, L)) = Lay(F).len]
<1> DEFINE m == Lay(F)
           o == Length(P)
           rec == Read(m, o, "record")
           n == rec.locator_count
           first == o + RecordSize + AddrSize(rec.afi)
           Def(x) == x = [i \in 0..n |-> IF i = 0 THEN first ELSE NextLocator(m, 0, x[i - 1])]
           loc == CHOOSE x : Def(x)
           end == Length(P \o RecordFields(p, L))
<1>1. PICK off : Lies(m, o, p, L, off, end)
  BY RecordWritten
<1>2. RecordAt(m, o) =
        [prefix |-> [af |-> rec.afi, addr |-> AddrAt(m, o + RecordSize)],
         locators |-> [i \in 1..n |-> LocatorAt(m, loc[i - 1])],
         ends |-> loc[n] = m.len]
  BY DEF RecordAt
<1>3. n = Len(L) /\ n \in Nat /\ first = off[0] /\ off \in [0..n -> Nat]
  BY <1>1 DEF Lies
<1>4. L = [i \in 1..n |-> L[i]]
  BY <1>3
<1> HIDE DEF m, o, end, rec, n, first
<1>5. Def(off)
  <2>1. ASSUME NEW i \in 0..n
        PROVE  off[i] = IF i = 0 THEN first ELSE NextLocator(m, 0, off[i - 1])
    BY <1>1, <1>3 DEF Lies
  <2>2. off = [i \in 0..n |-> off[i]]
    BY <1>3
  <2> QED  BY <2>1, <2>2
<1>6. Def(loc)
  <2> HIDE DEF Def
  <2> QED  BY <1>5
<1> HIDE DEF loc
<1>7. loc[0] = first /\ \A i \in 1..n : loc[i] = NextLocator(m, 0, loc[i - 1])
  BY <1>3, <1>6, SMTT(30)
<1> HIDE DEF Def
<1>8. ASSUME NEW i \in 1..n, loc[i - 1] = off[i - 1] PROVE loc[i] = off[i]
  <2>1. loc[i] = NextLocator(m, 0, loc[i - 1])
    BY <1>7
  <2>2. off[i] = NextLocator(m, 0, off[i - 1])
    BY <1>1, <1>3 DEF Lies
  <2> QED  BY <1>8, <2>1, <2>2
<1>9. loc[0] = off[0]
  BY <1>3, <1>7
<1>10. \A i \in 0..n : loc[i] = off[i]
  <2>1. \A i \in 1..n : loc[i - 1] = off[i - 1] => loc[i] = off[i]
    BY <1>8
  <2>2. n \in Nat
    BY <1>3
  <2>3. GoOnAlike(n, loc, off)
    BY <1>9, <2>1 DEF GoOnAlike
  <2>4. Alike(n, loc, off)
    BY <2>2, <2>3, SameRounds
  <2> QED  BY <2>4 DEF Alike
<1>11. \A i \in 1..n : LocatorAt(m, loc[i - 1]) = L[i]
  <2>1. \A i \in 1..n : i - 1 \in 0..n
    BY <1>3
  <2> QED  BY <1>1, <1>3, <1>10, <2>1 DEF Lies
<1>12. [i \in 1..n |-> LocatorAt(m, loc[i - 1])] = L
  BY <1>4, <1>11
<1>13. loc[n] = end
  BY <1>1, <1>3, <1>10 DEF Lies
<1>14. [af |-> rec.afi, addr |-> AddrAt(m, o + RecordSize)] = p
  <2>1. rec.afi = p.af /\ AddrAt(m, o + RecordSize) = p.addr
    BY <1>1 DEF Lies, rec
  <2> QED  BY <2>1, FamilyAssumption
<1> QED  BY <1>2, <1>12, <1>13, <1>14 DEF m, o, end

\* Among the first i locators, the j-th is the first of the largest priority.
Best(L, j, i) == /\ \A k \in 1..i : L[k].priority <= L[j].priority
                 /\ \A k \in 1..j - 1 : L[k].priority < L[j].priority

\* Priorities are numbers.
LEMMA Priorities ==
  ASSUME NEW L \in Seq(Locator)
  PROVE  \A i \in 1..Len(L) : L[i].priority \in Nat
<1>1. \A l \in Locator : l.priority \in 0..255
  BY FamilyAssumption, Zenon
<1>2. ASSUME NEW i \in 1..Len(L) PROVE L[i].priority \in Nat
  <2>1. L[i] \in Locator
    OBVIOUS
  <2>2. L[i].priority \in 0..255
    BY <1>1, <2>1, Zenon
  <2>3. \A x \in 0..255 : x \in Nat
    OBVIOUS
  <2> QED  BY <2>2, <2>3, Zenon
<1> QED  BY <1>2

\* The best locator of all is the preferred one.
LEMMA PreferredIsBest ==
  ASSUME NEW L \in Seq(Locator), NEW j \in 1..Len(L), Best(L, j, Len(L))
  PROVE  Preferred(L) = {L[j]}
<1> DEFINE n == Len(L)
<1>1. n \in Nat /\ DOMAIN L = 1..n /\ \A i \in 1..n : L[i].priority \in Nat
  BY Priorities
<1> HIDE DEF n
<1>2. j \in 1..n /\ \A k \in 1..n : L[k].priority <= L[j].priority
  BY DEF Best, n
<1>3. ASSUME NEW i \in 1..n, Best(L, i, n) PROVE i = j
  <2>1. /\ \A k \in 1..n : L[k].priority <= L[i].priority
        /\ \A k \in 1..i - 1 : L[k].priority < L[i].priority
        /\ \A k \in 1..j - 1 : L[k].priority < L[j].priority
    BY <1>3 DEF Best
  <2>2. CASE i < j
    <3>1. L[i].priority < L[j].priority /\ L[j].priority <= L[i].priority
      BY <1>1, <1>2, <2>1, <2>2
    <3> QED  BY <1>1, <1>2, <3>1
  <2>3. CASE j < i
    <3>1. L[j].priority < L[i].priority /\ L[i].priority <= L[j].priority
      BY <1>1, <1>2, <2>1, <2>3
    <3> QED  BY <1>1, <1>2, <3>1
  <2> QED  BY <1>1, <1>2, <2>2, <2>3
<1>4. {i \in 1..n : Best(L, i, n)} = {j}
  BY <1>2, <1>3 DEF n
<1>5. Preferred(L) = {L[i] : i \in {i \in 1..n : Best(L, i, n)}}
  BY <1>1 DEF Preferred, Best
<1> QED  BY <1>4, <1>5

\* What the loop over the locators keeps: where the one chosen is and where the
\* next one begins.
Chooses(m, n, first, loop) ==
  /\ loop[0].chosen = first /\ loop[0].at = first
  /\ \A i \in 1..n :
       /\ loop[i].chosen = (IF Prefers(m, loop[i - 1].chosen, loop[i - 1].at)
                            THEN loop[i - 1].at ELSE loop[i - 1].chosen)
       /\ loop[i].at = NextLocator(m, loop[i - 1].chosen, loop[i - 1].at)

\* In the end the loop is behind the last locator and has chosen the best.
LEMMA Chosen ==
  ASSUME NEW m, NEW o, NEW p, NEW L \in Seq(Locator), NEW off, NEW end, NEW loop,
         Lies(m, o, p, L, off, end), Chooses(m, Len(L), off[0], loop)
  PROVE  /\ loop[Len(L)].at = off[Len(L)]
         /\ Len(L) # 0 =>
              \E j \in 1..Len(L) : Best(L, j, Len(L)) /\ loop[Len(L)].chosen = off[j - 1]
<1> DEFINE n == Len(L)
           Far(i) == /\ loop[i].at = off[i]
                     /\ i # 0 => \E j \in 1..i : Best(L, j, i) /\ loop[i].chosen = off[j - 1]
           Good == {i \in 0..n : Far(i)}
<1>1. n \in Nat /\ \A i \in 1..n : L[i].priority \in Nat
  BY Priorities
<1>2. \A i \in 1..n : /\ Read(m, off[i - 1], "locator").priority = L[i].priority
                      /\ \A c : NextLocator(m, c, off[i - 1]) = off[i]
  BY DEF Lies
<1>3. /\ loop[0].chosen = off[0] /\ loop[0].at = off[0]
      /\ \A i \in 1..n :
           /\ loop[i].chosen = (IF Prefers(m, loop[i - 1].chosen, loop[i - 1].at)
                                THEN loop[i - 1].at ELSE loop[i - 1].chosen)
           /\ loop[i].at = NextLocator(m, loop[i - 1].chosen, loop[i - 1].at)
  BY DEF Chooses
<1> HIDE DEF n
<1>4. 0 \in Good
  BY <1>1, <1>3
<1>5. ASSUME NEW i \in 1..n, i - 1 \in Good PROVE i \in Good
  <2>1. i - 1 \in 0..n /\ i \in 0..n /\ i # 0
    BY <1>1
  <2>2. loop[i - 1].at = off[i - 1] /\ Read(m, off[i - 1], "locator").priority = L[i].priority
    BY <1>2, <1>5
  <2>3. loop[i].at = off[i]
    BY <1>2, <1>3, <2>2
  <2>4. \E j \in 1..i : Best(L, j, i) /\ loop[i].chosen = off[j - 1]
    <3>1. CASE i = 1
      <4>1. loop[i - 1].chosen = off[0] /\ loop[i - 1].at = off[0]
        BY <1>3, <3>1
      <4>2. loop[i].chosen = off[0]
        BY <1>3, <4>1
      <4>3. Best(L, 1, 1) /\ 1 \in 1..1 /\ 1 - 1 = 0
        BY <1>1, <3>1 DEF Best
      <4> QED  BY <3>1, <4>2, <4>3
    <3>2. CASE i # 1
      <4>1. i - 1 \in 1..n
        BY <1>1, <3>2
      <4>2. PICK j \in 1..i - 1 : Best(L, j, i - 1) /\ loop[i - 1].chosen = off[j - 1]
        BY <1>5, <4>1
      <4>3. j \in 1..n /\ j \in 1..i /\ i \in 1..i
        BY <1>1
      <4>4. Read(m, off[j - 1], "locator").priority = L[j].priority
        BY <1>2, <4>3
      <4>5. Prefers(m, loop[i - 1].chosen, loop[i - 1].at) <=> L[j].priority < L[i].priority
        BY <2>2, <4>2, <4>4 DEF Prefers
      <4>6. /\ \A k \in 1..i - 1 : L[k].priority <= L[j].priority
            /\ \A k \in 1..j - 1 : L[k].priority < L[j].priority
        BY <4>2 DEF Best
      <4>7. CASE L[j].priority < L[i].priority
        <5>1. loop[i].chosen = off[i - 1]
          BY <1>3, <2>2, <4>5, <4>7
        <5>2. \A k \in 1..i - 1 : k \in 1..n /\ L[k].priority < L[i].priority
          BY <1>1, <4>3, <4>6, <4>7
        <5>3. Best(L, i, i)
          BY <1>1, <5>2 DEF Best
        <5> QED  BY <4>3, <5>1, <5>3
      <4>8. CASE ~(L[j].priority < L[i].priority)
        <5>1. loop[i].chosen = off[j - 1]
          BY <1>3, <4>2, <4>5, <4>8
        <5>2. Best(L, j, i)
          BY <1>1, <4>3, <4>6, <4>8 DEF Best
        <5> QED  BY <4>3, <5>1, <5>2
      <4> QED  BY <4>7, <4>8
    <3> QED  BY <3>1, <3>2
  <2> QED  BY <2>1, <2>3, <2>4
<1> HIDE DEF Good
<1>6. \A i \in 0..n : i \in Good
  BY <1>1, <1>4, <1>5, Rounds
<1>7. Far(n)
  BY <1>1, <1>6 DEF Good
<1> QED  BY <1>7 DEF n

\* The daemon reads the record written: its prefix, the first of its locators of
\* the largest priority, and where it ends.
LEMMA RecordReadFound ==
  ASSUME NEW P \in Seq(Part), NEW p \in Prefix, NEW L \in Seq(Locator), Len(L) <= 255,
         NEW F, Starts(P \o RecordFields(p, L), F)
  PROVE  /\ RecordRead(Lay(F), Length(P)).prefix = p
         /\ ToSet(RecordRead(Lay(F), Length(P)).locator) = Preferred(L)
         /\ RecordRead(Lay(F), Length(P)).end = Length(P \o RecordFields(p, L))
<1> DEFINE m == Lay(F)
           o == Length(P)
           rec == Read(m, o, "record")
           n == rec.locator_count
           first == o + RecordSize + AddrSize(rec.afi)
           R == [chosen : Nat, at : Nat]
           Def(x) == x = [i \in 0..n |->
             IF i = 0 THEN [chosen |-> first, at |-> first]
             ELSE [chosen |-> IF Prefers(m, x[i - 1].chosen, x[i - 1].at)
                              THEN x[i - 1].at ELSE x[i - 1].chosen,
                   at |-> NextLocator(m, x[i - 1].chosen, x[i - 1].at)]]
           loop == CHOOSE x : Def(x)
           end == Length(P \o RecordFields(p, L))
           pick(c) == IF Prefers(m, c.chosen, c.at) THEN c.at ELSE c.chosen
           next(c) == NextLocator(m, c.chosen, c.at)
           round == [i \in 1..n |-> [c \in R |-> [chosen |-> pick(c), at |-> next(c)]]]
<1>1. PICK off : Lies(m, o, p, L, off, end)
  BY RecordWritten
<1>2. /\ RecordRead(m, o).prefix = [af |-> rec.afi, addr |-> AddrAt(m, o + RecordSize)]
      /\ RecordRead(m, o).locator = IF n = 0 THEN <<>> ELSE <<LocatorAt(m, loop[n].chosen)>>
      /\ RecordRead(m, o).end = loop[n].at
  BY DEF RecordRead
<1>3. n = Len(L) /\ n \in Nat /\ first = off[0] /\ first \in Nat
  BY <1>1 DEF Lies
<1> HIDE DEF m, o, end, rec, n, first
<1>4. \A c \in R : pick(c) \in Nat /\ next(c) \in Nat
  <2>1. ASSUME NEW c \in R PROVE NextLocator(m, c.chosen, c.at) \in Nat
    BY AddrSizes DEF NextLocator, LocatorSize
  <2> QED  BY <2>1
<1> HIDE DEF pick, next
<1>5. round \in [1..n -> [R -> R]] /\ [chosen |-> first, at |-> first] \in R
  BY <1>3, <1>4
<1>6. \A i \in 1..n : \A c \in R : round[i][c] = [chosen |-> pick(c), at |-> next(c)]
  OBVIOUS
<1> HIDE DEF round, R
<1>7. PICK g \in [0..n -> R] : /\ g[0] = [chosen |-> first, at |-> first]
                               /\ \A i \in 1..n : g[i] = round[i][g[i - 1]]
  <2> HIDE DEF Def
  <2>1. Loops(n, R, [chosen |-> first, at |-> first], round) # {}
    BY <1>3, <1>5, Iterated
  <2> QED  BY <2>1 DEF Loops
<1>8. ASSUME NEW i \in 1..n PROVE g[i] = [chosen |-> pick(g[i - 1]), at |-> next(g[i - 1])]
  <2>1. i - 1 \in 0..n
    BY <1>3
  <2>2. g[i - 1] \in R
    BY <2>1
  <2> QED  BY <1>6, <1>7, <2>2
<1>9. Def(g)
  <2>1. ASSUME NEW i \in 0..n
        PROVE  g[i] = IF i = 0 THEN [chosen |-> first, at |-> first]
                      ELSE [chosen |-> pick(g[i - 1]), at |-> next(g[i - 1])]
    BY <1>3, <1>7, <1>8, i = 0 \/ i \in 1..n
  <2>2. g = [i \in 0..n |-> g[i]]
    OBVIOUS
  <2> QED  BY <2>1, <2>2 DEF pick, next
<1>10. Def(loop)
  <2> HIDE DEF Def
  <2> QED  BY <1>9
<1> HIDE DEF loop
<1>11. /\ loop[0] = [chosen |-> first, at |-> first]
       /\ \A i \in 1..n : loop[i] = [chosen |-> pick(loop[i - 1]), at |-> next(loop[i - 1])]
       /\ loop = [i \in 0..n |-> loop[i]]
  BY <1>3, <1>10 DEF pick, next
<1> HIDE DEF Def
<1>12. Alike(n, loop, g)
  <2>1. GoOnAlike(n, loop, g)
    BY <1>7, <1>8, <1>11 DEF GoOnAlike
  <2> QED  BY <1>3, <2>1, SameRounds
<1>13. loop \in [0..n -> R]
  <2>1. \A i \in 0..n : loop[i] \in R
    BY <1>12 DEF Alike
  <2> QED  BY <1>11, <2>1
<1>14. /\ loop[n].at = off[n]
       /\ n # 0 => \E j \in 1..n : Best(L, j, n) /\ loop[n].chosen = off[j - 1]
  <2>1. loop[0].chosen = off[0] /\ loop[0].at = off[0]
    BY <1>3, <1>11
  <2>2. ASSUME NEW i \in 1..n
        PROVE  loop[i].chosen = pick(loop[i - 1]) /\ loop[i].at = next(loop[i - 1])
    <3>1. loop[i] = [chosen |-> pick(loop[i - 1]), at |-> next(loop[i - 1])]
      BY <1>11, Zenon
    <3>2. PICK a, b : a = pick(loop[i - 1]) /\ b = next(loop[i - 1])
      OBVIOUS
    <3>3. loop[i] = [chosen |-> a, at |-> b]
      BY <3>1, <3>2, Zenon
    <3>4. loop[i].chosen = a /\ loop[i].at = b
      BY <3>3
    <3> QED  BY <3>2, <3>4, Zenon
  <2>3. Chooses(m, n, off[0], loop)
    BY <2>1, <2>2 DEF Chooses, pick, next
  <2>4. off[n] = off[Len(L)]
    BY <1>3
  <2> QED  BY <1>1, <1>3, <2>3, Chosen
<1>15. ToSet(RecordRead(m, o).locator) = Preferred(L)
  <2>1. CASE n = 0
    <3>1. L = <<>> /\ RecordRead(m, o).locator = <<>>
      BY <1>2, <1>3, <2>1, EmptySeq
    <3>2. DOMAIN L = {} /\ DOMAIN <<>> = {}
      BY <3>1
    <3> QED  BY <3>1, <3>2 DEF ToSet, Preferred
  <2>2. CASE n # 0
    <3>1. PICK j \in 1..n : Best(L, j, n) /\ loop[n].chosen = off[j - 1]
      BY <1>14, <2>2
    <3>2. RecordRead(m, o).locator = <<L[j]>>
      <4>1. LocatorAt(m, off[j - 1]) = L[j]
        BY <1>1, <1>3, <3>1 DEF Lies
      <4> QED  BY <1>2, <2>2, <3>1, <4>1
    <3>3. ToSet(<<L[j]>>) = {L[j]}
      BY DEF ToSet
    <3> QED  BY <1>3, <3>1, <3>2, <3>3, PreferredIsBest
  <2> QED  BY <2>1, <2>2
<1>16. RecordRead(m, o).end = end
  BY <1>1, <1>2, <1>3, <1>14 DEF Lies
<1>17. RecordRead(m, o).prefix = p
  <2>1. rec.afi = p.af /\ AddrAt(m, o + RecordSize) = p.addr
    BY <1>1 DEF Lies, rec
  <2> QED  BY <1>2, <2>1, FamilyAssumption
<1> QED  BY <1>15, <1>16, <1>17 DEF m, o, end

-----------------------------------------------------------------------------
(* Reading messages.                                                       *)

\* A field in front is read at 0.
LEMMA FieldInFront ==
  ASSUME NEW f \in Fields, NEW s \in Nat \ {0}
  PROVE  /\ Field(f, s) \in Seq(Part)
         /\ Length(Field(f, s)) = s
         /\ \A F : Starts(Field(f, s), F) => Read(Lay(F), 0, f.kind) = f
<1>1. <<>> \in Seq(Part)
  OBVIOUS
<1>2. Field(f, s) \in Seq(Part) /\ Length(<<>> \o Field(f, s)) = Length(<<>>) + s
      /\ \A F : Starts(<<>> \o Field(f, s), F) => Read(Lay(F), Length(<<>>), f.kind) = f
  BY <1>1, FieldRead
<1>3. <<>> \o Field(f, s) = Field(f, s)
  BY <1>2, ConcatEmptySeq
<1> QED  BY <1>2, <1>3, LengthOfNone

\* The headers of messages, with any count of records and of ITR-RLOCs.
LEMMA HeaderFields ==
  ASSUME NEW type \in {"ecap", "register", "request", "reply"},
         NEW irc \in Nat, NEW records \in Nat, NEW probe \in BOOLEAN
  PROVE  [kind |-> "header", type |-> type, P_flag |-> probe, irc |-> irc,
          record_count |-> records] \in Fields
  BY DEF Fields

\* A header with one record behind it.
LEMMA OneRecord ==
  ASSUME NEW type \in {"register", "reply"}, NEW size \in Nat \ {0},
         NEW p \in Prefix, NEW L \in Seq(Locator), Len(L) <= 255
  PROVE  RecordAt(Lay(Field(Header(type), size) \o RecordFields(p, L)), size) =
           [prefix |-> p, locators |-> L, ends |-> TRUE]
<1> DEFINE P == Field(Header(type), size)
           F == P \o RecordFields(p, L)
<1>1. Header(type) \in Fields
  BY HeaderFields DEF Header
<1>2. P \in Seq(Part) /\ Length(P) = size
  BY <1>1, FieldInFront
<1> HIDE DEF P
<1>3. F \in Seq(Part)
  BY <1>2, RecordLies
<1>4. Starts(F, F)
  BY <1>3, StartsItself
<1>5. RecordAt(Lay(F), Length(P)) =
        [prefix |-> p, locators |-> L, ends |-> Length(F) = Lay(F).len]
  BY <1>2, <1>4, RecordFound
<1>6. (Length(F) = Lay(F).len) = TRUE
  BY LayLength
<1> HIDE DEF F
<1>7. RecordAt(Lay(F), size) = [prefix |-> p, locators |-> L, ends |-> TRUE]
  BY <1>2, <1>5, <1>6
<1> QED  BY <1>7 DEF F, P

\* Records behind Q, one behind the other: where each begins and what the daemon
\* reads there.
LEMMA RecordsLie ==
  ASSUME NEW Q \in Seq(Part), NEW R \in Seq([prefix : Prefix, locators : Seq(Locator)]),
         \A i \in 1..Len(R) : Len(R[i].locators) <= 255
  PROVE  LET all == FlattenSeq([i \in DOMAIN R |-> RecordFields(R[i].prefix, R[i].locators)])
             m == Lay(Q \o all)
         IN /\ all \in Seq(Part)
            /\ \E off \in [0..Len(R) -> Nat] :
                 /\ off[0] = Length(Q)
                 /\ \A i \in 1..Len(R) :
                      /\ RecordRead(m, off[i - 1]).prefix = R[i].prefix
                      /\ ToSet(RecordRead(m, off[i - 1]).locator) = Preferred(R[i].locators)
                      /\ RecordRead(m, off[i - 1]).end = off[i]
<1> DEFINE n == Len(R)
           S == [i \in DOMAIN R |-> RecordFields(R[i].prefix, R[i].locators)]
           all == FlattenSeq(S)
           m == Lay(Q \o all)
<1>1. /\ n \in Nat /\ DOMAIN R = 1..n
      /\ \A i \in 1..n : /\ R[i].prefix \in Prefix /\ R[i].locators \in Seq(Locator)
                         /\ Len(R[i].locators) <= 255
  <2>1. ASSUME NEW i \in 1..n
        PROVE  R[i].prefix \in Prefix /\ R[i].locators \in Seq(Locator)
    <3>1. R[i] \in [prefix : Prefix, locators : Seq(Locator)]
      BY ElementOfSeq, Zenon
    <3> QED  BY <3>1
  <2> QED  BY <2>1
<1>2. S \in Seq(Seq(Part)) /\ Len(S) = n
      /\ \A i \in 1..n : S[i] = RecordFields(R[i].prefix, R[i].locators)
  <2>1. \A i \in 1..n : RecordFields(R[i].prefix, R[i].locators) \in Seq(Part)
    <3>1. ASSUME NEW i \in 1..n PROVE RecordFields(R[i].prefix, R[i].locators) \in Seq(Part)
      BY <1>1, RecordLies
    <3> QED  BY <3>1
  <2>2. S \in [1..n -> Seq(Part)]
        /\ \A i \in 1..n : S[i] = RecordFields(R[i].prefix, R[i].locators)
    BY <1>1, <2>1
  <2> HIDE DEF S, n
  <2> QED  BY <1>1, <2>2
<1> HIDE DEF S, n
<1>3. PICK V \in [0..n -> Seq(Part)] :
        /\ V[0] = <<>> /\ V[n] = all
        /\ \A i \in 1..n : V[i] = V[i - 1] \o S[i]
        /\ \A i \in 0..n : \E T \in Seq(Part) : all = V[i] \o T
  <2>1. Joints(Part, S) # {}
    BY <1>2, Joined
  <2> QED  BY <1>2, <2>1 DEF Joints
<1> HIDE DEF all
<1>4. all \in Seq(Part) /\ Q \o all \in Seq(Part)
  BY <1>1, <1>3, ConcatProperties
<1> DEFINE off == [i \in 0..n |-> Length(Q \o V[i])]
<1>5. \A i \in 0..n : V[i] \in Seq(Part) /\ Q \o V[i] \in Seq(Part)
  BY <1>3, ConcatProperties
<1>6. off \in [0..n -> Nat] /\ off[0] = Length(Q)
  <2>1. \A i \in 0..n : Length(Q \o V[i]) \in Nat
    BY <1>5, PartSized, LengthNat
  <2>2. Q \o V[0] = Q
    BY <1>3, ConcatEmptySeq
  <2>3. 0 \in 0..n
    BY <1>1
  <2> QED  BY <2>1, <2>2, <2>3
<1>7. \A i \in 0..n : off[i] = Length(Q \o V[i])
  OBVIOUS
<1> HIDE DEF off, m
<1>8. ASSUME NEW i \in 1..n
      PROVE  /\ RecordRead(m, off[i - 1]).prefix = R[i].prefix
             /\ ToSet(RecordRead(m, off[i - 1]).locator) = Preferred(R[i].locators)
             /\ RecordRead(m, off[i - 1]).end = off[i]
  <2> DEFINE v == V[i - 1]
             w == V[i]
             p == R[i].prefix
             L == R[i].locators
             t == RecordFields(p, L)
             q == Q \o v
  <2>1. i - 1 \in 0..n /\ i \in 0..n
    BY <1>1
  <2>2. v \in Seq(Part) /\ w \in Seq(Part) /\ w = v \o t
    BY <1>2, <1>3, <1>5, <2>1
  <2>3. PICK T \in Seq(Part) : all = w \o T
    BY <1>3, <2>1
  <2>4. off[i - 1] = Length(q) /\ off[i] = Length(Q \o w)
    BY <1>7, <2>1
  <2>5. p \in Prefix /\ L \in Seq(Locator) /\ Len(L) <= 255
    BY <1>1
  <2> HIDE DEF v, w, p, L
  <2>6. t \in Seq(Part)
    BY <2>5, RecordLies
  <2> HIDE DEF t
  <2>7. q \in Seq(Part) /\ Q \o w \in Seq(Part)
    BY <2>2, Together, Zenon
  <2>8. Q \o (w \o T) = (Q \o w) \o T
    <3>1. Grouped(Q, w, T)
      BY <2>2, Regroup, Zenon
    <3> QED  BY <3>1, Zenon DEF Grouped
  <2>9. Q \o (v \o t) = (Q \o v) \o t
    <3>1. v \in Seq(Part)
      BY <2>2
    <3> HIDE DEF q
    <3>2. Grouped(Q, v, t)
      BY <2>6, <3>1, Regroup, Zenon
    <3> QED  BY <3>2, Zenon DEF Grouped
  <2>10. Q \o w = q \o t
    BY <2>2, <2>9, Zenon
  <2>11. Starts(q \o t, Q \o all)
    BY <2>3, <2>8, <2>10 DEF Starts
  <2> HIDE DEF q
  <2>12. /\ RecordRead(m, Length(q)).prefix = p
         /\ ToSet(RecordRead(m, Length(q)).locator) = Preferred(L)
         /\ RecordRead(m, Length(q)).end = Length(q \o t)
    BY <2>5, <2>7, <2>11, RecordReadFound DEF t, m
  <2> QED  BY <2>4, <2>10, <2>12 DEF p, L
<1>9. \E x \in [0..n -> Nat] :
        /\ x[0] = Length(Q)
        /\ \A i \in 1..n :
             /\ RecordRead(m, x[i - 1]).prefix = R[i].prefix
             /\ ToSet(RecordRead(m, x[i - 1]).locator) = Preferred(R[i].locators)
             /\ RecordRead(m, x[i - 1]).end = x[i]
  BY <1>6, <1>8
<1> QED  BY <1>4, <1>9 DEF n, all, S, m

\* A function on 1..n has that length.
LEMMA LenOfFunction ==
  ASSUME NEW n \in Nat, NEW f, f = [i \in 1..n |-> f[i]]
  PROVE  Len(f) = n /\ DOMAIN f = 1..n
<1> DEFINE X == {f[k] : k \in 1..n}
<1>1. \A i \in 1..n : f[i] \in X
  OBVIOUS
<1> HIDE DEF X
<1>2. f \in [1..n -> X]
  BY <1>1
<1>3. f \in Seq(X)
  BY <1>2
<1> QED  BY <1>2, <1>3, LenProperties

\* From a Map-Reply that is not encapsulated the daemon gets every record, each
\* with the first of its locators of the largest priority.
LEMMA ReplyRead ==
  ASSUME NEW R \in Seq([prefix : Prefix, locators : Seq(Locator)]),
         \A i \in 1..Len(R) : Len(R[i].locators) <= 255,
         NEW got, got = process_lisp_map_message(Reply(<<>>, R))
  PROVE  /\ Len(got) = Len(R) /\ DOMAIN got = 1..Len(R)
         /\ \A i \in 1..Len(R) : /\ got[i].prefix = R[i].prefix
                                 /\ ToSet(got[i].locator) = Preferred(R[i].locators)
<1> DEFINE h == [Header("reply") EXCEPT !.record_count = Len(R)]
           Q == Field(h, ReplySize)
           all == FlattenSeq([i \in DOMAIN R |-> RecordFields(R[i].prefix, R[i].locators)])
           F == Q \o all
           m == Lay(F)
           n == Read(m, 0, "header").record_count
           Def(x) == x = [i \in 0..n |-> IF i = 0 THEN ReplySize ELSE RecordRead(m, x[i - 1]).end]
           end == CHOOSE x : Def(x)
<1>1. h \in Fields /\ h.kind = "header" /\ h.type = "reply" /\ h.record_count = Len(R)
  <2>1. Len(R) \in Nat
    OBVIOUS
  <2>2. ASSUME NEW r \in Nat
        PROVE  LET x == [Header("reply") EXCEPT !.record_count = r] IN
               /\ x \in [kind : {"header"}, type : {"reply"}, P_flag : BOOLEAN,
                         irc : Nat, record_count : Nat]
               /\ x.kind = "header" /\ x.type = "reply" /\ x.record_count = r
    BY DEF Header
  <2>3. \A x \in [kind : {"header"}, type : {"reply"}, P_flag : BOOLEAN,
                  irc : Nat, record_count : Nat] : x \in Fields
    BY DEF Fields
  <2> QED  BY <2>1, <2>2, <2>3, Zenon
<1> HIDE DEF h
<1>2. /\ Q \in Seq(Part) /\ Length(Q) = ReplySize
      /\ \A G : Starts(Q, G) => Read(Lay(G), 0, "header") = h
  <2>1. ReplySize \in Nat \ {0}
    BY DEF ReplySize
  <2> QED  BY <1>1, <2>1, FieldInFront
<1>3. Reply(<<>>, R) = m
  <2>1. <<>> \o Q = Q
    BY <1>2, ConcatEmptySeq
  <2>2. Reply(<<>>, R) = Lay(<<>> \o Q \o all)
    BY DEF Reply, h
  <2> HIDE DEF Q, all
  <2> QED  BY <2>1, <2>2
<1> HIDE DEF Q
<1>4. all \in Seq(Part)
      /\ \E off \in [0..Len(R) -> Nat] :
           /\ off[0] = Length(Q)
           /\ \A i \in 1..Len(R) :
                /\ RecordRead(m, off[i - 1]).prefix = R[i].prefix
                /\ ToSet(RecordRead(m, off[i - 1]).locator) = Preferred(R[i].locators)
                /\ RecordRead(m, off[i - 1]).end = off[i]
  BY <1>2, RecordsLie
<1> HIDE DEF all
<1>5. Starts(Q, F)
  BY <1>2, <1>4 DEF Starts
<1> HIDE DEF F
<1>6. Read(m, 0, "header") = h
  BY <1>2, <1>5
<1> HIDE DEF m
<1>7. n = Len(R) /\ n \in Nat
  BY <1>1, <1>6
<1>8. got = process_lisp_map_reply(m)
  BY <1>1, <1>3, <1>6 DEF process_lisp_map_message
<1>9. process_lisp_map_reply(m) = [i \in 1..n |-> RecordRead(m, end[i - 1])]
  BY DEF process_lisp_map_reply
<1> HIDE DEF n
<1>10. PICK off \in [0..n -> Nat] :
         /\ off[0] = ReplySize
         /\ \A i \in 1..n :
              /\ RecordRead(m, off[i - 1]).prefix = R[i].prefix
              /\ ToSet(RecordRead(m, off[i - 1]).locator) = Preferred(R[i].locators)
              /\ RecordRead(m, off[i - 1]).end = off[i]
  BY <1>2, <1>4, <1>7
<1>11. Def(off)
  <2>1. ASSUME NEW i \in 0..n
        PROVE  off[i] = IF i = 0 THEN ReplySize ELSE RecordRead(m, off[i - 1]).end
    BY <1>7, <1>10, i = 0 \/ i \in 1..n
  <2>2. off = [i \in 0..n |-> off[i]]
    OBVIOUS
  <2> QED  BY <2>1, <2>2
<1>12. Def(end)
  <2> HIDE DEF Def
  <2> QED  BY <1>11
<1> HIDE DEF end
<1>13. end[0] = ReplySize /\ \A i \in 1..n : end[i] = RecordRead(m, end[i - 1]).end
  <2>1. \A i \in 0..n : end[i] = IF i = 0 THEN ReplySize ELSE RecordRead(m, end[i - 1]).end
    BY <1>12
  <2>2. 0 \in 0..n /\ \A i \in 1..n : i \in 0..n /\ i # 0
    BY <1>7
  <2> HIDE DEF Def
  <2> QED  BY <2>1, <2>2, Zenon
<1> HIDE DEF Def
<1>14. Alike(n, end, off)
  <2>1. GoOnAlike(n, end, off)
    BY <1>10, <1>13 DEF GoOnAlike
  <2> QED  BY <1>7, <2>1, SameRounds
<1>15. ASSUME NEW i \in 1..n
       PROVE  /\ got[i].prefix = R[i].prefix
              /\ ToSet(got[i].locator) = Preferred(R[i].locators)
  <2>1. i - 1 \in 0..n
    BY <1>7
  <2>2. got[i] = RecordRead(m, off[i - 1])
    BY <1>8, <1>9, <1>14, <2>1 DEF Alike
  <2> QED  BY <1>10, <2>2
<1>16. Len(got) = n /\ DOMAIN got = 1..n
  <2>1. got = [i \in 1..n |-> got[i]]
    BY <1>8, <1>9
  <2> QED  BY <1>7, <2>1, LenOfFunction
<1> QED  BY <1>7, <1>15, <1>16

\* A family with its address behind P.
LEMMA AfiAddressRead ==
  ASSUME NEW P \in Seq(Part), NEW x \in Prefix \cup Locator
  PROVE  LET both == Afi(x.af) \o Address(x) IN
         /\ both \in Seq(Part) /\ P \o both \in Seq(Part)
         /\ Length(P \o both) = Length(P) + AfiSize + AddrSize(x.af)
         /\ \A F : Starts(P \o both, F) =>
              /\ Starts(P, F)
              /\ Read(Lay(F), Length(P), "afi").afi = x.af
              /\ AddrAt(Lay(F), Length(P) + AfiSize) = x.addr
<1> DEFINE f == [kind |-> "afi", afi |-> x.af]
           a == [kind |-> "addr", addr |-> x.addr]
           s == AddrSize(x.af)
           A == Field(f, AfiSize)
           B == Field(a, s)
           Q == P \o A
           R == Q \o B
<1>1. f \in Fields /\ a \in Fields
  BY AddressFields
<1>2. AfiSize \in Nat \ {0} /\ s \in Nat \ {0}
  BY AddrSizes DEF AfiSize
<1>3. f.kind = "afi" /\ f.afi = x.af /\ a.kind = "addr" /\ a.addr = x.addr
  OBVIOUS
<1>4. Afi(x.af) = A /\ Address(x) = B
  BY DEF Afi, Address
<1> HIDE DEF f, a, A, B, s
<1>5. /\ Q \in Seq(Part) /\ A \in Seq(Part) /\ Length(Q) = Length(P) + AfiSize
      /\ \A F : Starts(Q, F) => Starts(P, F) /\ Read(Lay(F), Length(P), f.kind) = f
  BY <1>1, <1>2, FieldRead DEF A
<1> HIDE DEF Q
<1>6. /\ R \in Seq(Part) /\ B \in Seq(Part) /\ Length(R) = Length(Q) + s
      /\ \A F : Starts(R, F) => Starts(Q, F) /\ Read(Lay(F), Length(Q), a.kind) = a
  BY <1>1, <1>2, <1>5, FieldRead DEF B
<1> HIDE DEF R
<1>7. A \o B \in Seq(Part)
  BY <1>5, <1>6, Together, Zenon
<1>8. P \o (A \o B) = R
  <2>1. Grouped(P, A, B)
    BY <1>5, <1>6, Regroup, Zenon
  <2> QED  BY <2>1, Zenon DEF Grouped, Q, R
<1>9. ASSUME NEW F, Starts(R, F)
      PROVE  /\ Starts(P, F)
             /\ Read(Lay(F), Length(P), "afi").afi = x.af
             /\ AddrAt(Lay(F), Length(P) + AfiSize) = x.addr
  <2>1. /\ Starts(P, F) /\ Read(Lay(F), Length(P), "afi") = f
        /\ Read(Lay(F), Length(P) + AfiSize, "addr") = a
    BY <1>3, <1>5, <1>6, <1>9
  <2> QED  BY <1>3, <2>1 DEF AddrAt
<1>10. Length(R) = Length(P) + AfiSize + s
  BY <1>5, <1>6
<1> QED  BY <1>4, <1>6, <1>7, <1>8, <1>9, <1>10 DEF s

\* The prefix a request ends with, behind P.
LEMMA RequestEndRead ==
  ASSUME NEW P \in Seq(Part), NEW p \in Prefix
  PROVE  LET all == P \o Field([kind |-> "reqrec", afi |-> p.af], RequestRecordSize)
                      \o Address(p) IN
         /\ all \in Seq(Part)
         /\ Length(all) = Length(P) + RequestRecordSize + AddrSize(p.af)
         /\ \A F : Starts(all, F) =>
              /\ Starts(P, F)
              /\ Read(Lay(F), Length(P), "reqrec").afi = p.af
              /\ AddrAt(Lay(F), Length(P) + RequestRecordSize) = p.addr
<1> DEFINE f == [kind |-> "reqrec", afi |-> p.af]
           a == [kind |-> "addr", addr |-> p.addr]
           s == AddrSize(p.af)
           A == Field(f, RequestRecordSize)
           B == Field(a, s)
           Q == P \o A
           R == Q \o B
<1>1. f \in Fields /\ a \in Fields
  <2>1. p.af \in Family
    BY FamilyAssumption
  <2>2. f \in Fields
    BY <2>1 DEF Fields
  <2> QED  BY <2>2, AddressFields
<1>2. RequestRecordSize \in Nat \ {0} /\ s \in Nat \ {0}
  BY AddrSizes DEF RequestRecordSize
<1>3. f.kind = "reqrec" /\ f.afi = p.af /\ a.kind = "addr" /\ a.addr = p.addr
  OBVIOUS
<1>4. Address(p) = B
  BY DEF Address
<1> HIDE DEF a, B, s
<1>5. /\ Q \in Seq(Part) /\ Length(Q) = Length(P) + RequestRecordSize
      /\ \A F : Starts(Q, F) => Starts(P, F) /\ Read(Lay(F), Length(P), f.kind) = f
  <2> HIDE DEF f
  <2> QED  BY <1>1, <1>2, FieldRead
<1> HIDE DEF Q
<1>6. /\ R \in Seq(Part) /\ Length(R) = Length(Q) + s
      /\ \A F : Starts(R, F) => Starts(Q, F) /\ Read(Lay(F), Length(Q), a.kind) = a
  BY <1>1, <1>2, <1>5, FieldRead DEF B
<1> HIDE DEF R
<1>7. ASSUME NEW F, Starts(R, F)
      PROVE  /\ Starts(P, F)
             /\ Read(Lay(F), Length(P), "reqrec").afi = p.af
             /\ AddrAt(Lay(F), Length(P) + RequestRecordSize) = p.addr
  <2> HIDE DEF f
  <2>1. /\ Starts(P, F) /\ Read(Lay(F), Length(P), "reqrec") = f
        /\ Read(Lay(F), Length(P) + RequestRecordSize, "addr") = a
    BY <1>3, <1>5, <1>6, <1>7
  <2> QED  BY <1>3, <2>1 DEF AddrAt
<1>8. Length(R) = Length(P) + RequestRecordSize + s
  BY <1>5, <1>6
<1>9. R = P \o Field([kind |-> "reqrec", afi |-> p.af], RequestRecordSize) \o Address(p)
  BY <1>4 DEF R, Q, f
<1> QED  BY <1>6, <1>7, <1>8, <1>9 DEF s

\* ITR-RLOCs behind Q, one behind the other.
LEMMA RlocsLie ==
  ASSUME NEW Q \in Seq(Part), NEW L \in Seq(Prefix)
  PROVE  LET all == FlattenSeq([i \in DOMAIN L |-> Afi(L[i].af) \o Address(L[i])]) IN
         /\ all \in Seq(Part) /\ Q \o all \in Seq(Part)
         /\ \E off \in [0..Len(L) -> Nat] :
              /\ off[0] = Length(Q) /\ off[Len(L)] = Length(Q \o all)
              /\ \A F : Starts(Q \o all, F) => \A i \in 1..Len(L) :
                   /\ Read(Lay(F), off[i - 1], "afi").afi = L[i].af
                   /\ off[i] = off[i - 1] + AfiSize + AddrSize(L[i].af)
<1> DEFINE n == Len(L)
           S == [i \in DOMAIN L |-> Afi(L[i].af) \o Address(L[i])]
           all == FlattenSeq(S)
<1>1. n \in Nat /\ DOMAIN L = 1..n /\ \A i \in 1..n : L[i] \in Prefix
  OBVIOUS
<1>2. S \in Seq(Seq(Part)) /\ Len(S) = n
      /\ \A i \in 1..n : S[i] = Afi(L[i].af) \o Address(L[i])
  <2>1. ASSUME NEW i \in 1..n PROVE Afi(L[i].af) \o Address(L[i]) \in Seq(Part)
    <3>1. L[i] \in Prefix \cup Locator /\ <<>> \in Seq(Part)
      BY <1>1
    <3> QED  BY <3>1, AfiAddressRead
  <2>2. \A i \in 1..n : S[i] = Afi(L[i].af) \o Address(L[i])
    BY <1>1
  <2>3. S \in [1..n -> Seq(Part)]
    <3>1. DOMAIN S = 1..n /\ S = [i \in DOMAIN S |-> S[i]]
      BY <1>1
    <3> HIDE DEF S
    <3> QED  BY <2>1, <2>2, <3>1
  <2> HIDE DEF S, n
  <2> QED  BY <1>1, <2>2, <2>3
<1> HIDE DEF S, n
<1>3. PICK V \in [0..n -> Seq(Part)] :
        /\ V[0] = <<>> /\ V[n] = all
        /\ \A i \in 1..n : V[i] = V[i - 1] \o S[i]
        /\ \A i \in 0..n : \E R \in Seq(Part) : all = V[i] \o R
  <2>1. Joints(Part, S) # {}
    BY <1>2, Joined
  <2> QED  BY <1>2, <2>1 DEF Joints
<1> HIDE DEF all
<1>4. all \in Seq(Part) /\ Q \o all \in Seq(Part)
  BY <1>1, <1>3, ConcatProperties
<1> DEFINE off == [i \in 0..n |-> Length(Q \o V[i])]
<1>5. \A i \in 0..n : V[i] \in Seq(Part) /\ Q \o V[i] \in Seq(Part)
  BY <1>3, ConcatProperties
<1>6. off \in [0..n -> Nat] /\ off[0] = Length(Q) /\ off[n] = Length(Q \o all)
  <2>1. \A i \in 0..n : Length(Q \o V[i]) \in Nat
    BY <1>5, PartSized, LengthNat
  <2>2. Q \o V[0] = Q
    BY <1>3, ConcatEmptySeq
  <2>3. 0 \in 0..n /\ n \in 0..n
    BY <1>1
  <2> QED  BY <1>3, <2>1, <2>2, <2>3
<1>7. \A i \in 0..n : off[i] = Length(Q \o V[i])
  OBVIOUS
<1> HIDE DEF off
<1>8. ASSUME NEW F, Starts(Q \o all, F), NEW i \in 1..n
      PROVE  /\ Read(Lay(F), off[i - 1], "afi").afi = L[i].af
             /\ off[i] = off[i - 1] + AfiSize + AddrSize(L[i].af)
  <2> DEFINE v == V[i - 1]
             w == V[i]
             x == L[i]
             t == Afi(x.af) \o Address(x)
  <2>1. i - 1 \in 0..n /\ i \in 0..n
    BY <1>1
  <2>2. v \in Seq(Part) /\ w \in Seq(Part)
    BY <1>5, <2>1
  <2>3. PICK R \in Seq(Part) : all = w \o R
    BY <1>3, <2>1
  <2>4. off[i - 1] = Length(Q \o v) /\ off[i] = Length(Q \o w)
    BY <1>7, <2>1
  <2>5. x \in Prefix \cup Locator /\ w = v \o t
    BY <1>1, <1>2, <1>3
  <2> HIDE DEF v, w, x
  <2>6. t \in Seq(Part)
    BY <2>2, <2>5, AfiAddressRead
  <2> HIDE DEF t
  <2>7. Q \o v \in Seq(Part) /\ Q \o w \in Seq(Part)
    BY <2>2, Together, Zenon
  <2>8. Q \o (w \o R) = (Q \o w) \o R
    <3>1. Grouped(Q, w, R)
      BY <2>2, Regroup, Zenon
    <3> QED  BY <3>1, Zenon DEF Grouped
  <2>9. Q \o (v \o t) = (Q \o v) \o t
    <3>1. Grouped(Q, v, t)
      BY <2>2, <2>6, Regroup, Zenon
    <3> QED  BY <3>1, Zenon DEF Grouped
  <2> DEFINE q == Q \o v
  <2>10. Q \o w = q \o t /\ q \in Seq(Part)
    BY <2>5, <2>7, <2>9, Zenon
  <2>11. Starts((Q \o w) \o R, F)
    BY <1>8, <2>3, <2>8, Zenon
  <2>12. Starts(q \o t, F)
    BY <2>7, <2>10, <2>11, StartsShorter
  <2>13. off[i - 1] = Length(q) /\ off[i] = Length(q \o t)
    BY <2>4, <2>10
  <2> HIDE DEF q
  <2>14. /\ Length(q \o t) = Length(q) + AfiSize + AddrSize(x.af)
         /\ Read(Lay(F), Length(q), "afi").afi = x.af
    BY <2>5, <2>10, <2>12, AfiAddressRead DEF t
  <2> QED  BY <2>13, <2>14 DEF x
<1>9. \E y \in [0..n -> Nat] :
        /\ y[0] = Length(Q) /\ y[n] = Length(Q \o all)
        /\ \A F : Starts(Q \o all, F) => \A i \in 1..n :
             /\ Read(Lay(F), y[i - 1], "afi").afi = L[i].af
             /\ y[i] = y[i - 1] + AfiSize + AddrSize(L[i].af)
  BY <1>6, <1>8
<1> QED  BY <1>4, <1>9 DEF n, all, S

\* The header of a request.
LEMMA RequestHeader ==
  \A irc \in Nat : \A probe \in BOOLEAN :
    LET h == [Header("request") EXCEPT !.P_flag = probe, !.irc = irc] IN
    /\ h \in Fields /\ h.kind = "header" /\ h.type = "request"
    /\ h.P_flag = probe /\ h.irc = irc
<1> TAKE irc \in Nat
<1> TAKE probe \in BOOLEAN
<1> DEFINE h == [Header("request") EXCEPT !.P_flag = probe, !.irc = irc]
<1>1. h \in [kind : {"header"}, type : {"request"}, P_flag : BOOLEAN,
             irc : Nat, record_count : Nat]
  BY DEF Header
<1>2. \A x \in [kind : {"header"}, type : {"request"}, P_flag : BOOLEAN,
                irc : Nat, record_count : Nat] : x \in Fields
  BY DEF Fields
<1>3. h \in Fields
  BY <1>1, <1>2, Zenon
<1>4. h.kind = "header" /\ h.type = "request" /\ h.P_flag = probe /\ h.irc = irc
  BY DEF Header
<1> QED  BY <1>3, <1>4

\* From a probe that is not encapsulated the daemon gets the prefix probed and
\* the address the answer goes to.
LEMMA ProbeRead ==
  ASSUME NEW p \in Prefix, NEW src \in Prefix, NEW L \in Seq(Prefix), Len(L) > 0
  PROVE  process_lisp_map_message(Probe(<<>>, p, src, L)) = [prefix |-> p, to |-> src.addr]
<1> DEFINE h == [Header("request") EXCEPT !.P_flag = TRUE, !.irc = Len(L) - 1]
           H == Field(h, RequestSize)
           both == Afi(src.af) \o Address(src)
           all == FlattenSeq([i \in DOMAIN L |-> Afi(L[i].af) \o Address(L[i])])
           A == H \o both
           B == A \o all
           F == B \o Field([kind |-> "reqrec", afi |-> p.af], RequestRecordSize) \o Address(p)
           m == Lay(F)
           req == Read(m, 0, "header")
           source == Read(m, RequestSize, "afi")
           n == Rlocs(req)
           first == RequestSize + AfiSize + AddrSize(source.afi)
           skip(at) == IF Read(m, at, "afi").afi = 0 THEN 0 ELSE AddrSize(Read(m, at, "afi").afi)
           Def(x) == x = [i \in 0..n |-> IF i = 0 THEN first
                                         ELSE x[i - 1] + AfiSize + skip(x[i - 1])]
           rlocs == CHOOSE x : Def(x)
<1>1. /\ h \in Fields /\ h.kind = "header" /\ h.type = "request"
      /\ h.P_flag = TRUE /\ h.irc = Len(L) - 1
  <2>1. Len(L) - 1 \in Nat
    OBVIOUS
  <2>2. TRUE \in BOOLEAN
    OBVIOUS
  <2> QED  BY <2>1, <2>2, RequestHeader, Zenon
<1> HIDE DEF h
<1>2. /\ H \in Seq(Part) /\ Length(H) = RequestSize
      /\ \A G : Starts(H, G) => Read(Lay(G), 0, "header") = h
  <2>1. RequestSize \in Nat \ {0}
    BY DEF RequestSize
  <2> QED  BY <1>1, <2>1, FieldInFront
<1>3. Probe(<<>>, p, src, L) = m
  <2>1. <<>> \o H = H
    BY <1>2, ConcatEmptySeq
  <2>2. Probe(<<>>, p, src, L) =
          Lay(<<>> \o H \o both \o all
                \o Field([kind |-> "reqrec", afi |-> p.af], RequestRecordSize) \o Address(p))
    BY DEF Probe, h
  <2> HIDE DEF H, both, all
  <2> QED  BY <2>1, <2>2
<1> HIDE DEF H
<1>4. /\ A \in Seq(Part)
      /\ Length(A) = RequestSize + AfiSize + AddrSize(src.af)
      /\ \A G : Starts(A, G) => /\ Starts(H, G)
                                /\ Read(Lay(G), RequestSize, "afi").afi = src.af
                                /\ AddrAt(Lay(G), RequestSize + AfiSize) = src.addr
  <2>1. src \in Prefix \cup Locator
    OBVIOUS
  <2> QED  BY <1>2, <2>1, AfiAddressRead
<1> HIDE DEF A, both
<1>5. PICK off \in [0..Len(L) -> Nat] :
        /\ off[0] = Length(A) /\ off[Len(L)] = Length(B)
        /\ \A G : Starts(B, G) => \A i \in 1..Len(L) :
             /\ Read(Lay(G), off[i - 1], "afi").afi = L[i].af
             /\ off[i] = off[i - 1] + AfiSize + AddrSize(L[i].af)
  BY <1>4, RlocsLie
<1>6. all \in Seq(Part) /\ B \in Seq(Part)
  BY <1>4, RlocsLie
<1>7. \A G : Starts(B, G) => Starts(A, G)
  <2> HIDE DEF all
  <2> QED  BY <1>4, <1>6, StartsShorter
<1> HIDE DEF all, B
<1>8. /\ F \in Seq(Part)
      /\ \A G : Starts(F, G) =>
           /\ Starts(B, G)
           /\ Read(Lay(G), Length(B), "reqrec").afi = p.af
           /\ AddrAt(Lay(G), Length(B) + RequestRecordSize) = p.addr
  BY <1>6, RequestEndRead
<1> HIDE DEF F
<1>9. Starts(F, F)
  BY <1>8, StartsItself
<1>10. /\ req = h
       /\ source.afi = src.af
       /\ AddrAt(m, RequestSize + AfiSize) = src.addr
       /\ Read(m, Length(B), "reqrec").afi = p.af
       /\ AddrAt(m, Length(B) + RequestRecordSize) = p.addr
       /\ \A i \in 1..Len(L) : /\ Read(m, off[i - 1], "afi").afi = L[i].af
                               /\ off[i] = off[i - 1] + AfiSize + AddrSize(L[i].af)
  BY <1>2, <1>4, <1>5, <1>7, <1>8, <1>9
<1> HIDE DEF m
<1>11. n = Len(L) /\ n \in Nat
  BY <1>1, <1>10 DEF Rlocs
<1>12. process_lisp_map_message(m) = process_lisp_map_request(m)
  BY <1>1, <1>10 DEF process_lisp_map_message
<1>13. process_lisp_map_request(m) =
         IF ~req.P_flag THEN Nothing
         ELSE [prefix |-> [af |-> Read(m, rlocs[n], "reqrec").afi,
                           addr |-> AddrAt(m, rlocs[n] + RequestRecordSize)],
               to |-> AddrAt(m, RequestSize + AfiSize)]
  BY DEF process_lisp_map_request
<1>14. first = off[0]
  BY <1>4, <1>5, <1>10
<1> HIDE DEF req, source, n, first
<1>15. ASSUME NEW i \in 1..n PROVE off[i] = off[i - 1] + AfiSize + skip(off[i - 1])
  <2>1. L[i] \in Prefix /\ i \in 1..Len(L)
    BY <1>11
  <2>2. L[i].af # 0
    BY <2>1, FamilyAssumption DEF Family
  <2> QED  BY <1>10, <2>1, <2>2
<1> HIDE DEF skip
<1>16. Def(off)
  <2>1. ASSUME NEW i \in 0..n
        PROVE  off[i] = IF i = 0 THEN first ELSE off[i - 1] + AfiSize + skip(off[i - 1])
    BY <1>11, <1>14, <1>15, i = 0 \/ i \in 1..n
  <2>2. off = [i \in 0..n |-> off[i]]
    BY <1>11
  <2> QED  BY <2>1, <2>2
<1>17. Def(rlocs)
  <2> HIDE DEF Def
  <2> QED  BY <1>16
<1> HIDE DEF rlocs
<1>18. rlocs[0] = first /\ \A i \in 1..n : rlocs[i] = rlocs[i - 1] + AfiSize + skip(rlocs[i - 1])
  <2>1. \A i \in 0..n : rlocs[i] = IF i = 0 THEN first
                                   ELSE rlocs[i - 1] + AfiSize + skip(rlocs[i - 1])
    BY <1>17
  <2>2. 0 \in 0..n /\ \A i \in 1..n : i \in 0..n /\ i # 0
    BY <1>11
  <2> HIDE DEF Def
  <2> QED  BY <2>1, <2>2, Zenon
<1> HIDE DEF Def
<1>19. Alike(n, rlocs, off)
  <2>1. GoOnAlike(n, rlocs, off)
    BY <1>14, <1>15, <1>18 DEF GoOnAlike
  <2> QED  BY <1>11, <2>1, SameRounds
<1>20. rlocs[n] = Length(B)
  BY <1>5, <1>11, <1>19 DEF Alike
<1>21. [af |-> Read(m, rlocs[n], "reqrec").afi,
        addr |-> AddrAt(m, rlocs[n] + RequestRecordSize)] = p
  BY <1>10, <1>20, FamilyAssumption
<1>22. req.P_flag
  BY <1>1, <1>10
<1> QED  BY <1>3, <1>10, <1>12, <1>13, <1>21, <1>22

\* The headers in front of a message: the type there, and the IP version.
LEMMA EncapsulationRead ==
  ASSUME NEW af \in Family
  PROVE  /\ Encapsulation(af) \in Seq(Part)
         /\ Length(Encapsulation(af)) = ControlSize + IpSize(af) + UdpSize
         /\ \A F : Starts(Encapsulation(af), F) =>
              /\ Read(Lay(F), 0, "header").type = "ecap"
              /\ Read(Lay(F), 0, "header").P_flag = FALSE
              /\ Read(Lay(F), ControlSize, "ip").ip_v = af
<1> DEFINE A == Field(Control, ControlSize)
           ip == [kind |-> "ip", ip_v |-> af]
           udp == [kind |-> "udp"]
           B == A \o Field(ip, IpSize(af))
           C == B \o Field(udp, UdpSize)
<1>1. /\ Control \in Fields /\ Control.kind = "header" /\ Control.type = "ecap"
      /\ Control.P_flag = FALSE
  <2>1. Control \in [kind : {"header"}, type : {"ecap"}, P_flag : BOOLEAN,
                     irc : Nat, record_count : Nat]
    BY DEF Control, Header
  <2>2. \A x \in [kind : {"header"}, type : {"ecap"}, P_flag : BOOLEAN,
                  irc : Nat, record_count : Nat] : x \in Fields
    BY DEF Fields
  <2>3. Control \in Fields
    BY <2>1, <2>2, Zenon
  <2>4. Control.kind = "header" /\ Control.type = "ecap" /\ Control.P_flag = FALSE
    BY DEF Control, Header
  <2> QED  BY <2>3, <2>4
<1>2. ip \in Fields /\ ip.kind = "ip" /\ ip.ip_v = af /\ udp \in Fields
  BY DEF Fields
<1>3. ControlSize \in Nat \ {0} /\ IpSize(af) \in Nat \ {0} /\ UdpSize \in Nat \ {0}
  BY DEF ControlSize, IpSize, UdpSize
<1> HIDE DEF ip, udp
<1>4. /\ A \in Seq(Part) /\ Length(A) = ControlSize
      /\ \A F : Starts(A, F) => Read(Lay(F), 0, "header") = Control
  BY <1>1, <1>3, FieldInFront
<1> HIDE DEF A
<1>5. /\ B \in Seq(Part) /\ Length(B) = ControlSize + IpSize(af)
      /\ \A F : Starts(B, F) => Starts(A, F) /\ Read(Lay(F), ControlSize, ip.kind) = ip
  BY <1>2, <1>3, <1>4, FieldRead
<1> HIDE DEF B
<1>6. /\ C \in Seq(Part) /\ Length(C) = ControlSize + IpSize(af) + UdpSize
      /\ \A F : Starts(C, F) => Starts(B, F)
  BY <1>2, <1>3, <1>5, FieldRead
<1>7. Encapsulation(af) = C
  BY DEF Encapsulation, A, B, ip, udp
<1> HIDE DEF C
<1> QED  BY <1>1, <1>2, <1>4, <1>5, <1>6, <1>7

\* Of an encapsulated probe the daemon takes the outer header for its own, and
\* finds no probe.
LEMMA EncapsulatedProbe ==
  ASSUME NEW af \in Family, NEW p \in Prefix, NEW src \in Prefix, NEW L \in Seq(Prefix),
         Len(L) > 0
  PROVE  process_lisp_map_message(Probe(Encapsulation(af), p, src, L)) = Nothing
<1> DEFINE h == [Header("request") EXCEPT !.P_flag = TRUE, !.irc = Len(L) - 1]
           E == Encapsulation(af)
           H == E \o Field(h, RequestSize)
           both == Afi(src.af) \o Address(src)
           all == FlattenSeq([i \in DOMAIN L |-> Afi(L[i].af) \o Address(L[i])])
           A == H \o both
           B == A \o all
           F == B \o Field([kind |-> "reqrec", afi |-> p.af], RequestRecordSize) \o Address(p)
           m == Lay(F)
<1>1. h \in Fields /\ h.kind = "header" /\ h.type = "request"
  <2>1. Len(L) - 1 \in Nat
    OBVIOUS
  <2>2. TRUE \in BOOLEAN
    OBVIOUS
  <2> QED  BY <2>1, <2>2, RequestHeader, Zenon
<1>2. Probe(E, p, src, L) = m
  BY DEF Probe
<1> HIDE DEF h
<1>3. RequestSize \in Nat \ {0}
  BY DEF RequestSize
<1>4. /\ H \in Seq(Part)
      /\ \A G : Starts(H, G) =>
           /\ Starts(E, G)
           /\ Read(Lay(G), ControlSize + IpSize(af) + UdpSize, "header") = h
  <2> HIDE DEF E
  <2>1. E \in Seq(Part) /\ Length(E) = ControlSize + IpSize(af) + UdpSize
    BY EncapsulationRead DEF E
  <2> QED  BY <1>1, <1>3, <2>1, FieldRead
<1> HIDE DEF H
<1>5. A \in Seq(Part) /\ \A G : Starts(A, G) => Starts(H, G)
  <2>1. src \in Prefix \cup Locator
    OBVIOUS
  <2> QED  BY <1>4, <2>1, AfiAddressRead
<1> HIDE DEF A, both
<1>6. all \in Seq(Part) /\ B \in Seq(Part)
  BY <1>5, RlocsLie
<1>7. \A G : Starts(B, G) => Starts(A, G)
  <2> HIDE DEF all
  <2> QED  BY <1>5, <1>6, StartsShorter
<1> HIDE DEF all, B
<1>8. F \in Seq(Part) /\ \A G : Starts(F, G) => Starts(B, G)
  BY <1>6, RequestEndRead
<1> HIDE DEF F
<1>9. Starts(F, F)
  BY <1>8, StartsItself
<1>10. Starts(E, F) /\ Read(m, ControlSize + IpSize(af) + UdpSize, "header") = h
  BY <1>4, <1>5, <1>7, <1>8, <1>9
<1>11. /\ Read(m, 0, "header").type = "ecap"
       /\ Read(m, 0, "header").P_flag = FALSE
       /\ Read(m, ControlSize, "ip").ip_v = af
  BY <1>10, EncapsulationRead
<1> HIDE DEF m, E
<1>12. process_lisp_map_message(m) = process_lisp_map_request(m)
  BY <1>1, <1>10, <1>11 DEF process_lisp_map_message
<1>13. process_lisp_map_request(m) = Nothing
  BY <1>11 DEF process_lisp_map_request
<1> QED  BY <1>2, <1>12, <1>13 DEF E

\* With one locator, the Map-Request says where its sender is and what it asks.
LEMMA RequestRead ==
  ASSUME NEW p \in Prefix, NEW l \in Locator, locs = <<l>>
  PROVE  RequestAt(set_lisp_map_request(p), Length(Encapsulation(p.af))) =
           [prefix |-> p, ends |-> TRUE,
            rlocs |-> [i \in DOMAIN locs |-> [af |-> locs[i].af, addr |-> locs[i].addr]]]
<1> DEFINE h == [Header("request") EXCEPT !.irc = Irc]
           E == Encapsulation(p.af)
           o == Length(E)
           H == E \o Field(h, RequestSize)
           A == H \o Afi(0)
           both == Afi(l.af) \o Address(l)
           B == A \o both
           F == B \o Field([kind |-> "reqrec", afi |-> p.af], RequestRecordSize) \o Address(p)
           m == Lay(F)
           n == Read(m, o, "header").irc + 1
           afi(at) == Read(m, at, "afi").afi
           Def(x) == x = [i \in 0..n |-> IF i = 0 THEN o + RequestSize + AfiSize
                                         ELSE x[i - 1] + AfiSize + AddrSize(afi(x[i - 1]))]
           rloc == CHOOSE x : Def(x)
<1>1. h \in Fields /\ h.kind = "header" /\ h.irc = 0
  <2>1. Irc = 0
    BY DEF Irc
  <2>2. LET x == [Header("request") EXCEPT !.irc = 0] IN
        /\ x \in [kind : {"header"}, type : {"request"}, P_flag : BOOLEAN,
                  irc : Nat, record_count : Nat]
        /\ x.kind = "header" /\ x.irc = 0
    BY DEF Header
  <2>3. \A x \in [kind : {"header"}, type : {"request"}, P_flag : BOOLEAN,
                  irc : Nat, record_count : Nat] : x \in Fields
    BY DEF Fields
  <2> QED  BY <2>1, <2>2, <2>3, Zenon
<1>2. ItrRlocs = both
  <2> DEFINE S == [i \in DOMAIN locs |->
                     (IF i = 1 THEN Afi(Last(locs).af) ELSE Unwritten(AfiSize))
                       \o Address(locs[i])]
  <2>1. DOMAIN locs = 1..1 /\ locs[1] = l /\ Last(locs) = l
    BY DEF Last
  <2>2. S[1] = both /\ DOMAIN S = 1..1
    BY <2>1
  <2>3. both \in Seq(Part)
    <3>1. l \in Prefix \cup Locator /\ <<>> \in Seq(Part)
      OBVIOUS
    <3> QED  BY <3>1, AfiAddressRead
  <2>4. ItrRlocs = FlattenSeq(S)
    BY DEF ItrRlocs
  <2>5. S = [i \in 1..1 |-> S[i]]
    BY <2>2
  <2> HIDE DEF S, both
  <2>6. FlattenSeq(S) = S[1]
    BY <2>2, <2>3, <2>5, OneJoined
  <2> QED  BY <2>2, <2>4, <2>6
<1>3. set_lisp_map_request(p) = m
  <2> HIDE DEF both
  <2> QED  BY <1>2 DEF set_lisp_map_request
<1>4. RequestSize \in Nat \ {0} /\ AfiSize \in Nat \ {0} /\ RequestRecordSize \in Nat \ {0}
  BY DEF RequestSize, AfiSize, RequestRecordSize
<1> HIDE DEF h
<1>5. E \in Seq(Part) /\ o \in Nat
  <2>1. p.af \in Family
    BY FamilyAssumption
  <2> QED  BY <2>1, EncapsulationRead, PartSized, LengthNat
<1> HIDE DEF E, o
<1>6. /\ H \in Seq(Part) /\ Length(H) = o + RequestSize
      /\ \A G : Starts(H, G) => Read(Lay(G), o, "header") = h
  BY <1>1, <1>4, <1>5, FieldRead DEF o
<1> HIDE DEF H
<1>7. /\ A \in Seq(Part) /\ Length(A) = o + RequestSize + AfiSize
      /\ \A G : Starts(A, G) => Starts(H, G)
  <2>1. [kind |-> "afi", afi |-> 0] \in Fields
    BY DEF Fields
  <2> QED  BY <1>4, <1>6, <2>1, FieldRead DEF Afi
<1> HIDE DEF A
<1>8. /\ B \in Seq(Part) /\ Length(B) = Length(A) + AfiSize + AddrSize(l.af)
      /\ \A G : Starts(B, G) => /\ Starts(A, G)
                                /\ Read(Lay(G), Length(A), "afi").afi = l.af
                                /\ AddrAt(Lay(G), Length(A) + AfiSize) = l.addr
  <2>1. l \in Prefix \cup Locator
    OBVIOUS
  <2> QED  BY <1>7, <2>1, AfiAddressRead
<1> HIDE DEF B, both
<1>9. /\ F \in Seq(Part)
      /\ Length(F) = Length(B) + RequestRecordSize + AddrSize(p.af)
      /\ \A G : Starts(F, G) =>
           /\ Starts(B, G)
           /\ Read(Lay(G), Length(B), "reqrec").afi = p.af
           /\ AddrAt(Lay(G), Length(B) + RequestRecordSize) = p.addr
  BY <1>8, RequestEndRead
<1> HIDE DEF F
<1>10. Starts(F, F) /\ m.len = Length(F)
  BY <1>9, StartsItself, LayLength
<1>11. /\ Read(m, o, "header") = h
       /\ afi(Length(A)) = l.af
       /\ AddrAt(m, Length(A) + AfiSize) = l.addr
       /\ Read(m, Length(B), "reqrec").afi = p.af
       /\ AddrAt(m, Length(B) + RequestRecordSize) = p.addr
  BY <1>6, <1>7, <1>8, <1>9, <1>10
<1> HIDE DEF m
<1>12. n = 1
  BY <1>1, <1>11
<1>13. RequestAt(m, o) =
         [prefix |-> [af |-> Read(m, rloc[n], "reqrec").afi,
                      addr |-> AddrAt(m, rloc[n] + RequestRecordSize)],
          rlocs |-> [i \in 1..n |-> [af |-> afi(rloc[i - 1]),
                                     addr |-> AddrAt(m, rloc[i - 1] + AfiSize)]],
          ends |-> rloc[n] + RequestRecordSize
                     + AddrSize([af |-> Read(m, rloc[n], "reqrec").afi,
                                 addr |-> AddrAt(m, rloc[n] + RequestRecordSize)].af) = m.len]
  BY DEF RequestAt
<1> HIDE DEF n, afi
<1>14. Def([i \in 0..1 |-> IF i = 0 THEN Length(A) ELSE Length(B)])
  <2> DEFINE g == [i \in 0..1 |-> IF i = 0 THEN Length(A) ELSE Length(B)]
  <2>1. g[0] = Length(A) /\ g[1] = Length(B)
    OBVIOUS
  <2>2. ASSUME NEW i \in 0..n
        PROVE  g[i] = IF i = 0 THEN o + RequestSize + AfiSize
                      ELSE g[i - 1] + AfiSize + AddrSize(afi(g[i - 1]))
    <3> HIDE DEF g
    <3>1. CASE i = 0
      BY <1>7, <2>1, <3>1
    <3>2. CASE i = 1
      BY <1>8, <1>11, <2>1, <3>2
    <3> QED  BY <1>12, <3>1, <3>2
  <2>3. g = [i \in 0..n |-> g[i]]
    BY <1>12
  <2> HIDE DEF g
  <2>4. Def(g)
    BY <2>2, <2>3
  <2> QED  BY <2>4 DEF g
<1>15. Def(rloc)
  <2> HIDE DEF Def
  <2> QED  BY <1>14
<1> HIDE DEF rloc
<1>16. rloc[0] = Length(A) /\ rloc[1] = Length(B)
  <2>1. \A i \in 0..1 : rloc[i] = IF i = 0 THEN o + RequestSize + AfiSize
                                  ELSE rloc[i - 1] + AfiSize + AddrSize(afi(rloc[i - 1]))
    BY <1>12, <1>15
  <2> HIDE DEF Def
  <2>2. rloc[0] = Length(A)
    BY <1>7, <2>1
  <2>3. rloc[1] = rloc[0] + AfiSize + AddrSize(afi(rloc[0]))
    BY <2>1
  <2> QED  BY <1>8, <1>11, <2>2, <2>3
<1> HIDE DEF Def
<1>17. [af |-> Read(m, rloc[n], "reqrec").afi,
        addr |-> AddrAt(m, rloc[n] + RequestRecordSize)] = p
  BY <1>11, <1>12, <1>16, FamilyAssumption
<1>18. [i \in 1..n |-> [af |-> afi(rloc[i - 1]), addr |-> AddrAt(m, rloc[i - 1] + AfiSize)]]
         = [i \in DOMAIN locs |-> [af |-> locs[i].af, addr |-> locs[i].addr]]
  <2>1. DOMAIN locs = 1..1 /\ locs[1] = l
    OBVIOUS
  <2>2. \A i \in 1..1 : i - 1 = 0 /\ i = 1
    OBVIOUS
  <2>3. \A i \in 1..1 : /\ afi(rloc[i - 1]) = locs[i].af
                        /\ AddrAt(m, rloc[i - 1] + AfiSize) = locs[i].addr
    BY <1>11, <1>16, <2>1, <2>2
  <2> QED  BY <1>12, <2>1, <2>3
<1>19. (rloc[n] + RequestRecordSize + AddrSize(p.af) = m.len) = TRUE
  BY <1>9, <1>10, <1>12, <1>16
<1>20. RequestAt(m, o) =
         [prefix |-> p,
          rlocs |-> [i \in DOMAIN locs |-> [af |-> locs[i].af, addr |-> locs[i].addr]],
          ends |-> TRUE]
  BY <1>13, <1>17, <1>18, <1>19
<1> QED  BY <1>3, <1>20 DEF o, E

-----------------------------------------------------------------------------
(* The state: what is under way is what one of the two sides writes, with    *)
(* the locators there are now, and what was found in it is what the daemon   *)
(* reads there.                                                              *)

LocsInv == locs \in Seq(Locator) /\ Len(locs) <= MaxLocators

\* What the daemon means by its messages.
OwnMeaning ==
  /\ last.read \in {"register", "answer"} =>
       /\ last.meant.prefix \in Prefix
       /\ last.meant = [prefix |-> last.meant.prefix, locators |-> locs, ends |-> TRUE]
  /\ last.read = "request" =>
       /\ last.meant.prefix \in Prefix
       /\ last.meant = [prefix |-> last.meant.prefix, ends |-> TRUE,
                        rlocs |-> [i \in DOMAIN locs |->
                                     [af |-> locs[i].af, addr |-> locs[i].addr]]]

\* What it writes for that.
OwnMessage ==
  /\ last.read = "register" => last.msg = set_lisp_map_register(last.meant.prefix)
  /\ last.read = "answer" => last.msg = set_lisp_map_reply(last.meant.prefix)
  /\ last.read = "request" => last.msg = set_lisp_map_request(last.meant.prefix)

\* What it is sent, and what is meant by that.
Sent ==
  /\ last.read = "reply" => /\ last.meant.records \in Seq(Records)
                            /\ last.meant.bare => last.msg = Reply(<<>>, last.meant.records)
  /\ last.read = "probe" =>
       \E p, src \in Prefix : \E L \in SeqUpTo(Prefix, MaxReceived) \ {<<>>} :
         \E hdr \in Headers :
           /\ last.meant = [prefix |-> p, to |-> src.addr, bare |-> hdr = <<>>]
           /\ last.msg = Probe(hdr, p, src, L)

Heard ==
  heard = Nothing \/ /\ last.read \in {"reply", "probe"}
                     /\ heard = [read |-> last.read, got |-> process_lisp_map_message(last.msg)]

Inv ==
  /\ LocsInv
  /\ last.read \in {"nothing", "register", "answer", "request", "reply", "probe"}
  /\ OwnMeaning /\ OwnMessage /\ Sent /\ Heard

\* Bounded sequences are sequences.
LEMMA SeqUpToSeq ==
  ASSUME NEW S, NEW n \in Nat, NEW L \in SeqUpTo(S, n)
  PROVE  L \in Seq(S) /\ Len(L) \in 0..n
<1>1. PICK k \in 0..n : L \in [1..k -> S]
  BY DEF SeqUpTo
<1>2. L \in Seq(S) /\ Len(L) = k
  BY <1>1
<1> QED  BY <1>2

\* The bounds fit into a byte.
LEMMA Bounds == /\ MaxLocators \in Nat /\ MaxLocators <= 255
                /\ MaxReceived \in Nat /\ MaxReceived <= 255
                /\ MaxRecords \in Nat
  BY BoundAssumption

\* The records sent are such as the readers expect.
LEMMA RecordsSent ==
  ASSUME NEW R \in Seq(Records)
  PROVE  /\ R \in Seq([prefix : Prefix, locators : Seq(Locator)])
         /\ \A i \in 1..Len(R) : Len(R[i].locators) <= 255
<1> DEFINE X == [prefix : Prefix, locators : Seq(Locator)]
<1>1. ASSUME NEW r \in Records PROVE r \in X /\ Len(r.locators) <= 255
  <2>1. r \in [prefix : Prefix, locators : SeqUpTo(Locator, MaxReceived)]
    BY DEF Records
  <2>2. r.locators \in Seq(Locator) /\ Len(r.locators) \in 0..MaxReceived
    BY <2>1, Bounds, SeqUpToSeq
  <2> QED  BY <2>1, <2>2, Bounds
<1> HIDE DEF X
<1>2. Records \subseteq X
  BY <1>1
<1>3. R \in Seq(X)
  BY <1>2, SeqMonotonic
<1>4. ASSUME NEW i \in 1..Len(R) PROVE Len(R[i].locators) <= 255
  <2>1. R[i] \in Records
    BY ElementOfSeq
  <2> QED  BY <1>1, <2>1
<1> QED  BY <1>3, <1>4 DEF X

\* Headers are none, or those of one of the families.
LEMMA HeaderCases == \A hdr \in Headers : hdr = <<>> \/ \E af \in Family : hdr = Encapsulation(af)
  BY FamilyAssumption DEF Headers

-----------------------------------------------------------------------------
(* What follows.                                                           *)

\* A Map-Register, and the answer to a probe.
LEMMA ReadBack == Inv => RecordsReadBack
<1> SUFFICES ASSUME Inv PROVE RecordsReadBack
  OBVIOUS
<1>1. locs \in Seq(Locator) /\ Len(locs) <= 255
  BY Bounds DEF Inv, LocsInv
<1> DEFINE p == last.meant.prefix
<1>2. last.read \in {"register", "answer"} =>
        p \in Prefix /\ last.meant = [prefix |-> p, locators |-> locs, ends |-> TRUE]
  BY DEF Inv, OwnMeaning
<1>3. RegisterSize \in Nat \ {0} /\ ReplySize \in Nat \ {0}
  BY DEF RegisterSize, ReplySize
<1>4. CASE last.read = "register"
  <2>1. last.msg = Lay(Field(Header("register"), RegisterSize) \o RecordFields(p, locs))
    BY <1>4 DEF Inv, OwnMessage, set_lisp_map_register
  <2> HIDE DEF p
  <2>2. RecordAt(last.msg, RegisterSize) = [prefix |-> p, locators |-> locs, ends |-> TRUE]
    BY <1>1, <1>2, <1>3, <1>4, <2>1, OneRecord
  <2> QED  BY <1>2, <1>4, <2>2 DEF RecordsReadBack
<1>5. CASE last.read = "answer"
  <2>1. last.msg = Lay(Field(Header("reply"), ReplySize) \o RecordFields(p, locs))
    BY <1>5 DEF Inv, OwnMessage, set_lisp_map_reply
  <2> HIDE DEF p
  <2>2. RecordAt(last.msg, ReplySize) = [prefix |-> p, locators |-> locs, ends |-> TRUE]
    BY <1>1, <1>2, <1>3, <1>5, <2>1, OneRecord
  <2> QED  BY <1>2, <1>5, <2>2 DEF RecordsReadBack
<1> QED  BY <1>4, <1>5 DEF RecordsReadBack

\* A sequence of one element.
LEMMA Single ==
  ASSUME NEW S, NEW s \in Seq(S), Len(s) = 1
  PROVE  s = <<s[1]>> /\ s[1] \in S
<1>1. s[1] \in S
  OBVIOUS
<1>2. PICK x : x = s[1]
  OBVIOUS
<1>3. <<x>> \in Seq(S) /\ Len(<<x>>) = 1 /\ <<x>>[1] = x
  BY <1>1, <1>2
<1>4. \A i \in 1..Len(s) : s[i] = <<x>>[i]
  BY <1>2, <1>3
<1>5. s = <<x>>
  BY <1>3, <1>4, SeqEqual
<1> QED  BY <1>1, <1>2, <1>5

\* A Map-Request with one locator.
LEMMA OneRlocReadBack == Inv => RequestReadsBack
<1> SUFFICES ASSUME Inv, last.read = "request", Len(last.meant.rlocs) = 1
             PROVE  RequestAt(last.msg, Length(Encapsulation(last.meant.prefix.af))) = last.meant
  BY DEF RequestReadsBack
<1> DEFINE p == last.meant.prefix
           rlocs == [i \in DOMAIN locs |-> [af |-> locs[i].af, addr |-> locs[i].addr]]
<1>1. p \in Prefix /\ last.meant = [prefix |-> p, ends |-> TRUE, rlocs |-> rlocs]
  BY DEF Inv, OwnMeaning
<1>2. last.msg = set_lisp_map_request(p)
  BY DEF Inv, OwnMessage
<1> HIDE DEF p
<1>3. locs \in Seq(Locator) /\ Len(locs) \in Nat /\ DOMAIN locs = 1..Len(locs)
  BY DEF Inv, LocsInv
<1>4. Len(locs) = 1
  <2>1. last.meant.rlocs = rlocs
    BY <1>1
  <2>2. DOMAIN rlocs = 1..Len(locs)
    BY <1>3
  <2>3. rlocs = [i \in 1..Len(locs) |-> rlocs[i]]
    BY <1>3
  <2> HIDE DEF rlocs
  <2>4. Len(rlocs) = Len(locs)
    BY <1>3, <2>3, LenOfFunction
  <2> QED  BY <2>1, <2>4
<1>5. locs = <<locs[1]>> /\ locs[1] \in Locator
  BY <1>3, <1>4, Single
<1>6. RequestAt(set_lisp_map_request(p), Length(Encapsulation(p.af))) =
        [prefix |-> p, ends |-> TRUE, rlocs |-> rlocs]
  BY <1>1, <1>5, RequestRead
<1> QED  BY <1>1, <1>2, <1>6 DEF p

\* A Map-Reply.
LEMMA ReplyUnderstood == Inv => RepliesUnderstood
<1> SUFFICES ASSUME Inv, heard.read = "reply", last.meant.bare
             PROVE  /\ Len(heard.got) = Len(last.meant.records)
                    /\ \A i \in DOMAIN heard.got :
                         /\ heard.got[i].prefix = last.meant.records[i].prefix
                         /\ ToSet(heard.got[i].locator) = Preferred(last.meant.records[i].locators)
  BY DEF RepliesUnderstood
<1> DEFINE R == last.meant.records
           got == heard.got
<1>1. heard # Nothing
  BY DEF Nothing
<1>2. last.read = "reply" /\ heard.got = process_lisp_map_message(last.msg)
  BY <1>1 DEF Inv, Heard
<1>3. R \in Seq(Records) /\ last.msg = Reply(<<>>, R)
  BY <1>2 DEF Inv, Sent
<1>4. got = process_lisp_map_message(Reply(<<>>, R))
  BY <1>2, <1>3
<1> HIDE DEF R, got
<1>5. /\ Len(got) = Len(R) /\ DOMAIN got = 1..Len(R)
      /\ \A i \in 1..Len(R) : /\ got[i].prefix = R[i].prefix
                              /\ ToSet(got[i].locator) = Preferred(R[i].locators)
  BY <1>3, <1>4, RecordsSent, ReplyRead
<1> QED  BY <1>5 DEF R, got

\* A probe heard is understood, or is encapsulated and no probe.
LEMMA ProbeHeard ==
  ASSUME Inv, heard.read = "probe"
  PROVE  /\ last.meant.prefix \in Prefix
         /\ \/ heard.got = [prefix |-> last.meant.prefix, to |-> last.meant.to]
            \/ ~last.meant.bare /\ heard.got = Nothing
<1>1. heard # Nothing
  BY DEF Nothing
<1>2. last.read = "probe" /\ heard.got = process_lisp_map_message(last.msg)
  BY <1>1 DEF Inv, Heard
<1>3. PICK p \in Prefix, src \in Prefix, L \in SeqUpTo(Prefix, MaxReceived) \ {<<>>},
           hdr \in Headers :
        /\ last.meant = [prefix |-> p, to |-> src.addr, bare |-> hdr = <<>>]
        /\ last.msg = Probe(hdr, p, src, L)
  BY <1>2 DEF Inv, Sent
<1>4. L \in Seq(Prefix) /\ Len(L) > 0
  <2>1. L \in Seq(Prefix) /\ Len(L) \in 0..MaxReceived /\ L # <<>>
    BY Bounds, SeqUpToSeq
  <2> QED  BY <2>1, EmptySeq
<1>5. /\ last.meant.prefix = p /\ last.meant.to = src.addr
      /\ last.meant.bare = (hdr = <<>>)
  BY <1>3
<1>6. CASE hdr = <<>>
  <2>1. heard.got = [prefix |-> p, to |-> src.addr]
    BY <1>2, <1>3, <1>4, <1>6, ProbeRead
  <2> QED  BY <1>5, <2>1
<1>7. CASE hdr # <<>>
  <2>1. PICK af \in Family : hdr = Encapsulation(af)
    BY <1>7, HeaderCases
  <2>2. heard.got = Nothing
    BY <1>2, <1>3, <1>4, <2>1, EncapsulatedProbe
  <2> QED  BY <1>5, <1>7, <2>2
<1> QED  BY <1>6, <1>7

\* A probe.
LEMMA ProbeUnderstood == Inv => ProbesUnderstood
  BY ProbeHeard DEF ProbesUnderstood

-----------------------------------------------------------------------------
(* Every step keeps it.                                                    *)

\* It holds at first, with nothing configured and nothing sent.
LEMMA InitInv == Init => Inv
<1> SUFFICES ASSUME Init PROVE Inv
  OBVIOUS
<1>1. locs = <<>> /\ last.read = "nothing" /\ heard = Nothing
  BY DEF Init, Nothing
<1>2. <<>> \in Seq(Locator) /\ Len(<<>>) = 0
  BY EmptySeq
<1>3. LocsInv
  BY <1>1, <1>2, Bounds DEF LocsInv
<1> QED  BY <1>1, <1>3 DEF Inv, OwnMeaning, OwnMessage, Sent, Heard

\* What is written depends on the locators alone.
LEMMA SameLocators ==
  ASSUME locs' = locs
  PROVE  /\ LocsInv => LocsInv'
         /\ \A p : /\ set_lisp_map_register(p)' = set_lisp_map_register(p)
                   /\ set_lisp_map_reply(p)' = set_lisp_map_reply(p)
                   /\ set_lisp_map_request(p)' = set_lisp_map_request(p)
<1>1. LocsInv => LocsInv'
  BY DEF LocsInv
<1>2. \A p : /\ set_lisp_map_register(p)' = set_lisp_map_register(p)
             /\ set_lisp_map_reply(p)' = set_lisp_map_reply(p)
  BY DEF set_lisp_map_register, set_lisp_map_reply
<1>3. Irc' = Irc /\ ItrRlocs' = ItrRlocs
  BY DEF Irc, ItrRlocs
<1>4. \A p : set_lisp_map_request(p)' = set_lisp_map_request(p)
  BY <1>3 DEF set_lisp_map_request
<1> QED  BY <1>1, <1>2, <1>4

\* Where the message is the same, so is what is known of it.
LEMMA SameMessage ==
  ASSUME Inv, locs' = locs, last' = last
  PROVE  /\ LocsInv'
         /\ last'.read \in {"nothing", "register", "answer", "request", "reply", "probe"}
         /\ OwnMeaning' /\ OwnMessage' /\ Sent'
<1>1. LocsInv'
  BY SameLocators DEF Inv
<1>2. OwnMeaning' /\ Sent'
  BY DEF Inv, OwnMeaning, Sent
<1>3. OwnMessage'
  BY SameLocators DEF Inv, OwnMessage
<1> QED  BY <1>1, <1>2, <1>3 DEF Inv

\* With no message, nothing is to be known.
LEMMA NoMessage ==
  ASSUME LocsInv', last' = Nothing, heard' = Nothing
  PROVE  Inv'
<1>1. last'.read = "nothing"
  BY DEF Nothing
<1> QED  BY <1>1 DEF Inv, OwnMeaning, OwnMessage, Sent, Heard

\* A message of the daemon's is what is known of it.
LEMMA OwnWritten ==
  ASSUME Inv, locs' = locs, heard' = Nothing, NEW p \in Prefix,
         \/ last' = [read |-> "register", meant |-> [prefix |-> p, locators |-> locs, ends |-> TRUE],
                     msg |-> set_lisp_map_register(p)]
         \/ last' = [read |-> "answer", meant |-> [prefix |-> p, locators |-> locs, ends |-> TRUE],
                     msg |-> set_lisp_map_reply(p)]
         \/ last' = [read |-> "request",
                     meant |-> [prefix |-> p, ends |-> TRUE,
                                rlocs |-> [i \in DOMAIN locs |->
                                             [af |-> locs[i].af, addr |-> locs[i].addr]]],
                     msg |-> set_lisp_map_request(p)]
  PROVE  Inv'
<1>1. LocsInv' /\ Heard'
  BY SameLocators DEF Inv, Heard
<1>2. CASE last' = [read |-> "register",
                    meant |-> [prefix |-> p, locators |-> locs, ends |-> TRUE],
                    msg |-> set_lisp_map_register(p)]
  <2>1. /\ last'.read = "register" /\ last'.meant.prefix = p
        /\ last'.meant = [prefix |-> p, locators |-> locs, ends |-> TRUE]
        /\ last'.msg = set_lisp_map_register(p)
    BY <1>2
  <2>2. last'.msg = set_lisp_map_register(p)'
    BY <2>1, SameLocators
  <2> QED  BY <1>1, <2>1, <2>2 DEF Inv, OwnMeaning, OwnMessage, Sent
<1>3. CASE last' = [read |-> "answer",
                    meant |-> [prefix |-> p, locators |-> locs, ends |-> TRUE],
                    msg |-> set_lisp_map_reply(p)]
  <2>1. /\ last'.read = "answer" /\ last'.meant.prefix = p
        /\ last'.meant = [prefix |-> p, locators |-> locs, ends |-> TRUE]
        /\ last'.msg = set_lisp_map_reply(p)
    BY <1>3
  <2>2. last'.msg = set_lisp_map_reply(p)'
    BY <2>1, SameLocators
  <2> QED  BY <1>1, <2>1, <2>2 DEF Inv, OwnMeaning, OwnMessage, Sent
<1>4. CASE last' = [read |-> "request",
                    meant |-> [prefix |-> p, ends |-> TRUE,
                               rlocs |-> [i \in DOMAIN locs |->
                                            [af |-> locs[i].af, addr |-> locs[i].addr]]],
                    msg |-> set_lisp_map_request(p)]
  <2>1. /\ last'.read = "request" /\ last'.meant.prefix = p
        /\ last'.meant = [prefix |-> p, ends |-> TRUE,
                          rlocs |-> [i \in DOMAIN locs |->
                                       [af |-> locs[i].af, addr |-> locs[i].addr]]]
        /\ last'.msg = set_lisp_map_request(p)
    BY <1>4
  <2>2. last'.msg = set_lisp_map_request(p)'
    BY <2>1, SameLocators
  <2> QED  BY <1>1, <2>1, <2>2 DEF Inv, OwnMeaning, OwnMessage, Sent
<1> QED  BY <1>2, <1>3, <1>4

\* The operator changes the locators only while nothing is under way.
LEMMA ConfigureKeeps == Inv /\ Configure => Inv'
<1> SUFFICES ASSUME Inv, Configure PROVE Inv'
  OBVIOUS
<1>1. locs \in Seq(Locator) /\ Len(locs) <= MaxLocators /\ Len(locs) \in Nat
  BY DEF Inv, LocsInv
<1>2. locs' \in Seq(Locator) /\ Len(locs') <= MaxLocators
  <2>1. ASSUME NEW l \in Locator, Len(locs) < MaxLocators, locs' = Append(locs, l)
        PROVE  locs' \in Seq(Locator) /\ Len(locs') <= MaxLocators
    BY <1>1, <2>1, Bounds
  <2>2. ASSUME NEW i \in DOMAIN locs, locs' = RemoveAt(locs, i)
        PROVE  locs' \in Seq(Locator) /\ Len(locs') <= MaxLocators
    <3> DEFINE a == SubSeq(locs, 1, i - 1)
               b == SubSeq(locs, i + 1, Len(locs))
    <3>1. i \in 1..Len(locs)
      BY <1>1
    <3>2. a \in Seq(Locator) /\ Len(a) = i - 1
      BY <1>1, <3>1
    <3>3. b \in Seq(Locator) /\ Len(b) = Len(locs) - i
      BY <1>1, <3>1
    <3>4. locs' = a \o b
      BY <2>2 DEF RemoveAt
    <3> HIDE DEF a, b
    <3>5. a \o b \in Seq(Locator) /\ Len(a \o b) = Len(a) + Len(b)
      BY <3>2, <3>3, ConcatProperties
    <3> QED  BY <1>1, <3>1, <3>2, <3>3, <3>4, <3>5, Bounds
  <2> QED  BY <2>1, <2>2 DEF Configure
<1>3. LocsInv'
  BY <1>2 DEF LocsInv
<1>4. last' = Nothing /\ heard' = Nothing
  <2>1. last = Nothing /\ last' = last /\ heard' = heard
    BY DEF Configure
  <2>2. last.read = "nothing"
    BY <2>1 DEF Nothing
  <2>3. heard = Nothing
    BY <2>2 DEF Inv, Heard
  <2> QED  BY <2>1, <2>3
<1> QED  BY <1>3, <1>4, NoMessage

\* The mapping system sends what it means.
LEMMA RepliesKeep == Inv /\ MappingSystemReplies => Inv'
<1> SUFFICES ASSUME Inv, MappingSystemReplies PROVE Inv'
  OBVIOUS
<1>0. PICK n \in 1..MaxRecords : \E R \in [1..n -> Records] : \E hdr \in Headers :
        Write("reply", [records |-> R, bare |-> hdr = <<>>], Reply(hdr, R))
  BY DEF MappingSystemReplies
<1>1. PICK R \in [1..n -> Records], hdr \in Headers :
        Write("reply", [records |-> R, bare |-> hdr = <<>>], Reply(hdr, R))
  BY <1>0
<1>2. /\ locs' = locs /\ heard' = Nothing
      /\ last' = [read |-> "reply", meant |-> [records |-> R, bare |-> hdr = <<>>],
                  msg |-> Reply(hdr, R)]
  BY <1>1 DEF Write
<1>3. /\ last'.read = "reply" /\ last'.meant.records = R
      /\ last'.meant.bare = (hdr = <<>>) /\ last'.msg = Reply(hdr, R)
  BY <1>2
<1>4. R \in Seq(Records)
  <2>1. n \in Nat
    BY Bounds
  <2> QED  BY <2>1
<1>5. last'.meant.bare => last'.msg = Reply(<<>>, R)
  BY <1>3
<1>6. LocsInv'
  BY <1>2, SameLocators DEF Inv
<1> QED  BY <1>2, <1>3, <1>4, <1>5, <1>6 DEF Inv, OwnMeaning, OwnMessage, Sent, Heard

\* So does a probing router.
LEMMA ProbesKeep == Inv /\ RouterProbes => Inv'
<1> SUFFICES ASSUME Inv, RouterProbes PROVE Inv'
  OBVIOUS
<1>1. PICK p \in Prefix, src \in Prefix, L \in SeqUpTo(Prefix, MaxReceived) \ {<<>>},
           hdr \in Headers :
        Write("probe", [prefix |-> p, to |-> src.addr, bare |-> hdr = <<>>],
              Probe(hdr, p, src, L))
  BY DEF RouterProbes
<1>2. /\ locs' = locs /\ heard' = Nothing
      /\ last' = [read |-> "probe",
                  meant |-> [prefix |-> p, to |-> src.addr, bare |-> hdr = <<>>],
                  msg |-> Probe(hdr, p, src, L)]
  BY <1>1 DEF Write
<1>3. /\ last'.read = "probe"
      /\ last'.meant = [prefix |-> p, to |-> src.addr, bare |-> hdr = <<>>]
      /\ last'.msg = Probe(hdr, p, src, L)
  BY <1>2
<1>4. Sent'
  BY <1>3 DEF Sent
<1>5. LocsInv'
  BY <1>2, SameLocators DEF Inv
<1> QED  BY <1>2, <1>3, <1>4, <1>5 DEF Inv, OwnMeaning, OwnMessage, Heard

\* Receiving keeps the message.
LEMMA ReceiveKeeps == Inv /\ Receive => Inv'
<1> SUFFICES ASSUME Inv, Receive PROVE Inv'
  OBVIOUS
<1>1. /\ locs' = locs /\ last' = last /\ last.read \in {"reply", "probe"}
      /\ heard' = [read |-> last.read, got |-> process_lisp_map_message(last.msg)]
  BY DEF Receive
<1>2. Heard'
  BY <1>1 DEF Heard
<1> QED  BY <1>1, <1>2, SameMessage DEF Inv

\* What is answered is a probe that was understood.
LEMMA AnswerKeeps == Inv /\ BuildAnswer => Inv'
<1> SUFFICES ASSUME Inv, BuildAnswer PROVE Inv'
  OBVIOUS
<1> DEFINE p == heard.got.prefix
<1>1. /\ heard.read = "probe" /\ heard.got # Nothing /\ locs' = locs /\ heard' = Nothing
      /\ last' = [read |-> "answer", msg |-> set_lisp_map_reply(p),
                  meant |-> [prefix |-> p, locators |-> locs, ends |-> TRUE]]
  BY DEF BuildAnswer
<1>2. p \in Prefix
  <2>1. /\ last.meant.prefix \in Prefix
        /\ heard.got = [prefix |-> last.meant.prefix, to |-> last.meant.to]
    BY <1>1, ProbeHeard
  <2> QED  BY <2>1
<1> HIDE DEF p
<1> QED  BY <1>1, <1>2, OwnWritten

\* Every step of the system.
LEMMA NextInv == Inv /\ [Next]_vars => Inv'
<1> SUFFICES ASSUME Inv, [Next]_vars PROVE Inv'
  OBVIOUS
<1>1. CASE Configure
  BY <1>1, ConfigureKeeps
<1>2. ASSUME NEW p \in Prefix, SendRegister(p) PROVE Inv'
  BY <1>2, OwnWritten DEF SendRegister, Write
<1>3. ASSUME NEW p \in Prefix, SendRequest(p) PROVE Inv'
  BY <1>3, OwnWritten DEF SendRequest, Write
<1>4. CASE MappingSystemReplies
  BY <1>4, RepliesKeep
<1>5. CASE RouterProbes
  BY <1>5, ProbesKeep
<1>6. CASE Receive
  BY <1>6, ReceiveKeeps
<1>7. CASE BuildAnswer
  BY <1>7, AnswerKeeps
<1>8. CASE Gone
  <2>1. LocsInv' /\ last' = Nothing /\ heard' = Nothing
    BY <1>8, SameLocators DEF Gone, Inv
  <2> QED  BY <2>1, NoMessage
<1>9. CASE UNCHANGED vars
  <2>1. locs' = locs /\ last' = last /\ heard' = heard
    BY <1>9 DEF vars
  <2>2. Heard'
    BY <2>1 DEF Inv, Heard
  <2> QED  BY <2>1, <2>2, SameMessage DEF Inv
<1> QED  BY <1>1, <1>2, <1>3, <1>4, <1>5, <1>6, <1>7, <1>8, <1>9 DEF Next

\* So it always holds.
LEMMA Invariance == Spec => []Inv
  BY InitInv, NextInv, PTL DEF Spec

-----------------------------------------------------------------------------
(* The theorems.                                                           *)

\* Whatever locators the operator has configured, in any order and of any mix of
\* families, a map server finds all of them in the Map-Register and a probing
\* router in the answer, and the message ends where its length says
\* (set_lisp_map_register and set_lisp_map_reply in map.c).
THEOREM ConfigurationArrives == Spec => []RecordsReadBack
  BY Invariance, ReadBack, PTL

\* With one locator, a map server finds it and the prefix asked for in every
\* Map-Request (set_lisp_map_request in map.c).
THEOREM OneLocatorArrives == Spec => []RequestReadsBack
  BY Invariance, OneRlocReadBack, PTL

\* From every Map-Reply without an encapsulation the daemon gets all records in
\* their order, each with the first of its locators of the largest priority
\* (process_lisp_map_reply in map.c).
THEOREM MappingsArrive == Spec => []RepliesUnderstood
  BY Invariance, ReplyUnderstood, PTL

\* From every probe without an encapsulation the daemon gets the prefix probed
\* and the address to answer to (process_lisp_map_request in map.c).
THEOREM ProbesArrive == Spec => []ProbesUnderstood
  BY Invariance, ProbeUnderstood, PTL

=============================================================================
