--------------------------- MODULE SiteConfig_proofs ---------------------------
(***************************************************************************)
(* Proofs about the site configuration: the lists and the loops over them  *)
(* stay well formed under the operator's commands, the EID commands        *)
(* implement a table of sites, what is registered was configured in the    *)
(* pass, and a pass of the register thread misses nothing that stays       *)
(* configured.                                                             *)
(***************************************************************************)
EXTENDS SiteConfig, FiniteSetTheorems, WellFoundedInduction, TLAPS

-----------------------------------------------------------------------------
(* Lists.                                                                  *)

\* The least member of a set of numbers is one of them.
LEMMA LeastMember ==
  ASSUME NEW S \in SUBSET Nat, S # {}
  PROVE  Min(S) \in S /\ \A y \in S : Min(S) <= y
<1>1. PICK x \in S : \A y \in S : ~(<<y, x>> \in OpToRel(<, Nat))
  BY NatLessThanWellFounded, WFMin
<1>2. ASSUME NEW y \in S PROVE x <= y
  <2>1. (y < x) => <<y, x>> \in OpToRel(<, Nat)
    BY DEF OpToRel
  <2>2. x \in Nat /\ y \in Nat
    OBVIOUS
  <2>3. ~(y < x)
    BY <1>1, <2>1
  <2> QED  BY <2>2, <2>3
<1>3. \E z \in S : \A y \in S : z <= y
  BY <1>2
<1> QED  BY <1>3 DEF Min

\* A list of nodes without the k-th.
LEMMA RemovedAt ==
  ASSUME NEW T, NEW list \in Seq(T), NEW k \in 1..Len(list)
  PROVE  /\ RemoveAt(list, k) \in Seq(T)
         /\ Len(RemoveAt(list, k)) = Len(list) - 1
         /\ \A i \in 1..Len(list) - 1 :
              RemoveAt(list, k)[i] = IF i < k THEN list[i] ELSE list[i + 1]
<1> DEFINE front == SubSeq(list, 1, k - 1)
           back == SubSeq(list, k + 1, Len(list))
<1>1. front \in Seq(T) /\ Len(front) = k - 1 /\ \A i \in 1..k - 1 : front[i] = list[i]
  OBVIOUS
<1>2. /\ back \in Seq(T) /\ Len(back) = Len(list) - k
      /\ \A i \in 1..Len(list) - k : back[i] = list[k + i]
  OBVIOUS
<1> HIDE DEF front, back
<1>3. RemoveAt(list, k) = front \o back
  BY DEF RemoveAt, front, back
<1>4. /\ front \o back \in Seq(T)
      /\ Len(front \o back) = Len(list) - 1
  BY <1>1, <1>2
<1>5. ASSUME NEW i \in 1..Len(list) - 1
      PROVE  (front \o back)[i] = IF i < k THEN list[i] ELSE list[i + 1]
  <2>1. CASE i < k
    BY <1>1, <1>2, <2>1
  <2>2. CASE i >= k
    <3>1. (front \o back)[i] = back[i - (k - 1)]
      BY <1>1, <1>2, <2>2
    <3>2. i - (k - 1) \in 1..Len(list) - k /\ k + (i - (k - 1)) = i + 1
      BY <2>2
    <3> QED  BY <1>2, <2>2, <3>1, <3>2
  <2>3. i < k \/ i >= k
    OBVIOUS
  <2> QED  BY <2>1, <2>2, <2>3
<1> QED  BY <1>3, <1>4, <1>5

\* No element comes twice.
Distinct(list) == \A i, j \in 1..Len(list) : list[i] = list[j] => i = j

\* The elements of a list.
LEMMA Members ==
  ASSUME NEW T, NEW list \in Seq(T)
  PROVE  /\ ToSet(list) \subseteq T
         /\ \A x : x \in ToSet(list) <=> \E i \in 1..Len(list) : list[i] = x
BY DEF ToSet

\* An entry is found where one is looked for.
LEMMA EntryFound ==
  ASSUME NEW T, NEW list \in Seq(T), NEW hits \in SUBSET DOMAIN list, hits # {}
  PROVE  Min(hits) \in 1..Len(list) /\ Min(hits) \in hits
<1>1. DOMAIN list = 1..Len(list) /\ hits \in SUBSET Nat
  OBVIOUS
<1> QED  BY <1>1, LeastMember

\* Taking out an element that comes once.
LEMMA WithoutElement ==
  ASSUME NEW T, NEW list \in Seq(T), Distinct(list), NEW k \in 1..Len(list)
  PROVE  /\ Distinct(RemoveAt(list, k))
         /\ ToSet(RemoveAt(list, k)) = ToSet(list) \ {list[k]}
<1> DEFINE rest == RemoveAt(list, k)
           x == list[k]
<1>1. DOMAIN list = 1..Len(list) /\ Len(list) \in Nat
  OBVIOUS
<1>3. /\ rest \in Seq(T) /\ Len(rest) = Len(list) - 1
      /\ \A i \in 1..Len(list) - 1 : rest[i] = IF i < k THEN list[i] ELSE list[i + 1]
  BY RemovedAt
<1> HIDE DEF rest
<1>4. Distinct(rest)
  <2>1. SUFFICES ASSUME NEW i \in 1..Len(list) - 1, NEW j \in 1..Len(list) - 1,
                        rest[i] = rest[j]
                 PROVE  i = j
    BY <1>3 DEF Distinct
  <2> DEFINE old(m) == IF m < k THEN m ELSE m + 1
  <2>2. \A m \in 1..Len(list) - 1 : old(m) \in 1..Len(list) /\ rest[m] = list[old(m)]
    BY <1>1, <1>3
  <2>3. old(i) = old(j)
    BY <2>1, <2>2 DEF Distinct
  <2> QED  BY <1>1, <2>3
<1>5. ASSUME NEW y PROVE y \in ToSet(rest) <=> y \in ToSet(list) \ {x}
  <2>1. DOMAIN rest = 1..Len(list) - 1
    BY <1>3
  <2>2. ASSUME y \in ToSet(rest) PROVE y \in ToSet(list) \ {x}
    <3>1. PICK i \in 1..Len(list) - 1 : y = rest[i]
      BY <2>1, <2>2 DEF ToSet
    <3>2. PICK j \in 1..Len(list) : y = list[j] /\ j # k
      BY <1>1, <1>3, <3>1
    <3>3. y # x
      BY <3>2 DEF Distinct
    <3> QED  BY <1>1, <3>2, <3>3 DEF ToSet
  <2>3. ASSUME y \in ToSet(list), y # x PROVE y \in ToSet(rest)
    <3>1. PICK j \in 1..Len(list) : y = list[j]
      BY <1>1, <2>3 DEF ToSet
    <3>2. j # k
      BY <2>3, <3>1
    <3>3. \E i \in 1..Len(list) - 1 : rest[i] = y
      <4>1. CASE j < k
        BY <1>1, <1>3, <3>1, <4>1
      <4>2. CASE j > k
        <5>1. j - 1 \in 1..Len(list) - 1 /\ ~(j - 1 < k) /\ (j - 1) + 1 = j
          BY <1>1, <4>2
        <5>2. rest[j - 1] = list[j]
          BY <1>3, <5>1
        <5> QED  BY <3>1, <5>1, <5>2
      <4> QED  BY <3>2, <4>1, <4>2
    <3> QED  BY <2>1, <3>3 DEF ToSet
  <2> QED  BY <2>2, <2>3
<1> QED  BY <1>4, <1>5 DEF rest

\* append_listnode adds an element at the end.
LEMMA AppendedElement ==
  ASSUME NEW T, NEW list \in Seq(T), NEW x \in T
  PROVE  /\ Append(list, x) \in Seq(T)
         /\ Len(Append(list, x)) = Len(list) + 1
         /\ \A i \in 1..Len(list) : Append(list, x)[i] = list[i]
         /\ Append(list, x)[Len(list) + 1] = x
         /\ ToSet(Append(list, x)) = ToSet(list) \cup {x}
         /\ Distinct(list) /\ x \notin ToSet(list) => Distinct(Append(list, x))
<1> DEFINE longer == Append(list, x)
<1>1. /\ longer \in Seq(T) /\ Len(longer) = Len(list) + 1 /\ Len(list) \in Nat
      /\ \A i \in 1..Len(list) : longer[i] = list[i]
      /\ longer[Len(list) + 1] = x
      /\ DOMAIN list = 1..Len(list) /\ DOMAIN longer = 1..Len(list) + 1
  OBVIOUS
<1> HIDE DEF longer
<1>2. ASSUME NEW y PROVE y \in ToSet(longer) <=> y \in ToSet(list) \cup {x}
  BY <1>1 DEF ToSet
<1>3. ASSUME Distinct(list), x \notin ToSet(list) PROVE Distinct(longer)
  <2>1. \A i \in 1..Len(list) : list[i] # x
    BY <1>1, <1>3 DEF ToSet
  <2> QED  BY <1>1, <1>3, <2>1 DEF Distinct
<1> QED  BY <1>1, <1>2, <1>3 DEF longer

-----------------------------------------------------------------------------
(* Loops.                                                                  *)

\* The loop stands at the i-th node, or has it and those behind it still to come.
IsAt(loop, i) == loop.gone = <<>> /\ loop.at = i
Coming(loop, i) == loop.at # 0 /\ loop.at <= i

\* A loop that begins has the whole list to come.
LEMMA LoopBegins ==
  ASSUME NEW T, NEW list \in Seq(T)
  PROVE  /\ LoopOver(Begin(list), list, T)
         /\ \A i \in 1..Len(list) : Coming(Begin(list), i)
         /\ Begin(list).gone = <<>>
BY DEF LoopOver, Begin, Coming

\* Nothing comes in a loop that is over.
LEMMA NothingComes == \A i : ~Coming(Over, i)
BY DEF Over, Coming

LEMMA OverIsLoop ==
  ASSUME NEW T, NEW list \in Seq(T)
  PROVE  LoopOver(Over, list, T)
BY DEF LoopOver, Over

\* What a loop stands at is an element, of the list or of before.
LEMMA StandsAtElement ==
  ASSUME NEW T, NEW list \in Seq(T), NEW loop, LoopOver(loop, list, T), loop # Over
  PROVE  /\ Standing(loop, list) \in T
         /\ loop.gone = <<>> => /\ loop.at \in 1..Len(list) /\ IsAt(loop, loop.at)
                                /\ Standing(loop, list) = list[loop.at]
         /\ loop.gone # <<>> => Standing(loop, list) \in ToSet(loop.gone)
<1>1. /\ loop.gone \in Seq(T) /\ loop.at \in 0..Len(list)
      /\ loop = [gone |-> loop.gone, at |-> loop.at]
  BY DEF LoopOver
<1>2. loop.gone = <<>> => loop.at # 0
  BY <1>1 DEF Over
<1>3. CASE loop.gone = <<>>
  BY <1>1, <1>2, <1>3 DEF Standing, IsAt
<1>4. CASE loop.gone # <<>>
  <2>1. Head(loop.gone) \in T /\ Head(loop.gone) \in ToSet(loop.gone)
    BY <1>1, <1>4 DEF ToSet
  <2> QED  BY <1>4, <2>1 DEF Standing
<1> QED  BY <1>3, <1>4

\* The loop goes on: what came and is not what it stood at still comes.
LEMMA LoopMoves ==
  ASSUME NEW T, NEW list \in Seq(T), NEW loop, LoopOver(loop, list, T), loop # Over
  PROVE  /\ LoopOver(Moved(loop, list), list, T)
         /\ \A i \in 1..Len(list) : Coming(loop, i) /\ ~IsAt(loop, i) => Coming(Moved(loop, list), i)
         /\ ToSet(Moved(loop, list).gone) \subseteq ToSet(loop.gone)
<1>1. /\ loop.gone \in Seq(T) /\ loop.at \in 0..Len(list)
      /\ loop = [gone |-> loop.gone, at |-> loop.at]
  BY DEF LoopOver
<1>2. CASE loop.gone = <<>>
  <2>1. loop.at \in 1..Len(list)
    BY <1>2, StandsAtElement
  <2>2. Moved(loop, list) = [gone |-> <<>>, at |-> After(list, loop.at)]
    BY <1>1, <1>2 DEF Moved
  <2>3. After(list, loop.at) \in 0..Len(list)
    BY <2>1 DEF After
  <2>4. \A i \in 1..Len(list) : Coming(loop, i) /\ ~IsAt(loop, i) => Coming(Moved(loop, list), i)
    BY <1>2, <2>1, <2>2 DEF Coming, IsAt, After
  <2>5. Moved(loop, list).gone = <<>>
    BY <2>2
  <2> QED  BY <1>2, <2>2, <2>3, <2>4, <2>5 DEF LoopOver
<1>3. CASE loop.gone # <<>>
  <2>1. Moved(loop, list) = [gone |-> Tail(loop.gone), at |-> loop.at]
    BY <1>1, <1>3 DEF Moved
  <2>2. Tail(loop.gone) \in Seq(T)
    BY <1>1, <1>3
  <2>3. ToSet(Tail(loop.gone)) \subseteq ToSet(loop.gone)
    <3>1. \A i \in 1..Len(loop.gone) - 1 : Tail(loop.gone)[i] = loop.gone[i + 1]
      BY <1>1, <1>3
    <3>2. DOMAIN Tail(loop.gone) = 1..Len(loop.gone) - 1 /\ DOMAIN loop.gone = 1..Len(loop.gone)
      BY <1>1, <1>3
    <3> QED  BY <1>1, <3>1, <3>2 DEF ToSet
  <2> QED  BY <1>1, <2>1, <2>2, <2>3 DEF LoopOver, Coming
<1> QED  BY <1>2, <1>3

\* A node that is unlinked under a loop: it stands where it stood, and what came
\* and is still in the list comes.
LEMMA LoopUnlinked ==
  ASSUME NEW T, NEW list \in Seq(T), NEW loop, LoopOver(loop, list, T), NEW k \in 1..Len(list)
  PROVE  /\ LoopOver(Unlinked(loop, list, k), RemoveAt(list, k), T)
         /\ loop # Over =>
              /\ Unlinked(loop, list, k) # Over
              /\ Standing(Unlinked(loop, list, k), RemoveAt(list, k)) = Standing(loop, list)
         /\ loop = Over => Unlinked(loop, list, k) = Over
         /\ \A i \in 1..Len(list) - 1 :
              LET was == IF i < k THEN i ELSE i + 1
              IN /\ Coming(loop, was) => Coming(Unlinked(loop, list, k), i)
                 /\ IsAt(Unlinked(loop, list, k), i) => IsAt(loop, was)
         /\ \A x \in ToSet(Unlinked(loop, list, k).gone) : x \in ToSet(loop.gone) \/ x = list[k]
         /\ Unlinked(loop, list, k).gone = <<>> => loop.gone = <<>>
<1> DEFINE new == Unlinked(loop, list, k)
           rest == RemoveAt(list, k)
<1>1. /\ loop.gone \in Seq(T) /\ loop.at \in 0..Len(list) /\ Len(list) \in Nat
      /\ loop = [gone |-> loop.gone, at |-> loop.at]
  BY DEF LoopOver
<1>2. /\ rest \in Seq(T) /\ Len(rest) = Len(list) - 1
      /\ \A i \in 1..Len(list) - 1 : rest[i] = IF i < k THEN list[i] ELSE list[i + 1]
  BY RemovedAt
<1> HIDE DEF rest
<1>3. CASE k < loop.at
  <2>1. new = [gone |-> loop.gone, at |-> loop.at - 1]
    BY <1>1, <1>3 DEF Unlinked
  <2> HIDE DEF new
  <2>2. loop.at - 1 \in 1..Len(list) - 1
    BY <1>1, <1>3
  <2>3. rest[loop.at - 1] = list[loop.at]
    <3>1. ~(loop.at - 1 < k) /\ (loop.at - 1) + 1 = loop.at
      BY <1>1, <1>3
    <3> QED  BY <1>2, <2>2, <3>1
  <2>4. LoopOver(new, rest, T)
    BY <1>1, <1>2, <2>1, <2>2 DEF LoopOver
  <2>5. new # Over /\ Standing(new, rest) = Standing(loop, list)
    BY <1>1, <2>1, <2>2, <2>3 DEF Over, Standing
  <2>6. loop # Over
    BY <1>1, <1>3 DEF Over
  <2>7. ASSUME NEW i \in 1..Len(list) - 1
        PROVE  LET was == IF i < k THEN i ELSE i + 1
               IN /\ Coming(loop, was) => Coming(new, i)
                  /\ IsAt(new, i) => IsAt(loop, was)
    BY <1>1, <1>3, <2>1, <2>2 DEF Coming, IsAt
  <2>8. new.gone = loop.gone
    BY <2>1
  <2> QED  BY <2>4, <2>5, <2>6, <2>7, <2>8 DEF new, rest
<1>4. CASE k = loop.at
  <2>1. new = [gone |-> Append(loop.gone, list[k]), at |-> IF k = Len(list) THEN 0 ELSE k]
    BY <1>1, <1>4 DEF Unlinked
  <2> HIDE DEF new
  <2>2. /\ Append(loop.gone, list[k]) \in Seq(T) /\ Append(loop.gone, list[k]) # <<>>
        /\ Head(Append(loop.gone, list[k])) = Standing(loop, list)
    BY <1>1, <1>4 DEF Standing
  <2>3. (IF k = Len(list) THEN 0 ELSE k) \in 0..Len(list) - 1
    BY <1>1
  <2>4. LoopOver(new, rest, T)
    BY <1>2, <2>1, <2>2, <2>3 DEF LoopOver
  <2>5. new # Over /\ Standing(new, rest) = Standing(loop, list)
    BY <2>1, <2>2 DEF Over, Standing
  <2>6. loop # Over
    BY <1>1, <1>4 DEF Over
  <2>7. ASSUME NEW i \in 1..Len(list) - 1
        PROVE  LET was == IF i < k THEN i ELSE i + 1
               IN /\ Coming(loop, was) => Coming(new, i)
                  /\ IsAt(new, i) => IsAt(loop, was)
    BY <1>1, <1>4, <2>1, <2>2 DEF Coming, IsAt
  <2>8. \A x \in ToSet(new.gone) : x \in ToSet(loop.gone) \/ x = list[k]
    <3>1. ToSet(Append(loop.gone, list[k])) = ToSet(loop.gone) \cup {list[k]}
      BY <1>1, AppendedElement
    <3> QED  BY <2>1, <3>1
  <2>9. new.gone # <<>>
    BY <2>1, <2>2
  <2> QED  BY <2>4, <2>5, <2>6, <2>7, <2>8, <2>9 DEF new, rest
<1>5. CASE k > loop.at
  <2>1. new = loop
    BY <1>1, <1>5 DEF Unlinked
  <2> HIDE DEF new
  <2>2. loop.at \in 0..Len(list) - 1
    BY <1>1, <1>5
  <2>3. LoopOver(loop, rest, T)
    BY <1>1, <1>2, <2>2 DEF LoopOver
  <2>4. loop # Over => Standing(loop, rest) = Standing(loop, list)
    <3>1. loop # Over /\ loop.gone = <<>> => loop.at \in 1..Len(list) - 1
      BY <1>1, <2>2 DEF Over
    <3> QED  BY <1>2, <1>5, <3>1 DEF Standing
  <2>5. ASSUME NEW i \in 1..Len(list) - 1
        PROVE  LET was == IF i < k THEN i ELSE i + 1
               IN /\ Coming(loop, was) => Coming(loop, i)
                  /\ IsAt(loop, i) => IsAt(loop, was)
    BY <1>1, <1>5 DEF Coming, IsAt
  <2> QED  BY <2>1, <2>3, <2>4, <2>5 DEF new, rest
<1> QED  BY <1>1, <1>3, <1>4, <1>5

\* A node that is appended under a loop.
LEMMA LoopAppended ==
  ASSUME NEW T, NEW list \in Seq(T), NEW loop, LoopOver(loop, list, T), NEW x \in T
  PROVE  /\ LoopOver(loop, Append(list, x), T)
         /\ loop # Over => Standing(loop, Append(list, x)) = Standing(loop, list)
         /\ \A i \in 1..Len(list) :
              Coming(loop, i) => Coming(loop, Len(list) + 1) /\ ~IsAt(loop, Len(list) + 1)
<1>1. /\ loop.gone \in Seq(T) /\ loop.at \in 0..Len(list) /\ Len(list) \in Nat
      /\ loop = [gone |-> loop.gone, at |-> loop.at]
  BY DEF LoopOver
<1>2. /\ Len(Append(list, x)) = Len(list) + 1
      /\ \A i \in 1..Len(list) : Append(list, x)[i] = list[i]
  BY AppendedElement
<1>3. LoopOver(loop, Append(list, x), T)
  BY <1>1, <1>2 DEF LoopOver
<1>4. loop # Over => Standing(loop, Append(list, x)) = Standing(loop, list)
  <2>1. loop # Over /\ loop.gone = <<>> => loop.at \in 1..Len(list)
    BY <1>1 DEF Over
  <2> QED  BY <1>2, <2>1 DEF Standing
<1>5. \A i \in 1..Len(list) :
        Coming(loop, i) => Coming(loop, Len(list) + 1) /\ ~IsAt(loop, Len(list) + 1)
  BY <1>1 DEF Coming, IsAt
<1> QED  BY <1>3, <1>4, <1>5

-----------------------------------------------------------------------------
(* The list of EIDs, and the table of sites it stands for.                 *)

\* No two EIDs of a list have one name, no EID a prefix twice.
EidList(list) ==
  /\ list \in Seq(Eid)
  /\ \A i \in 1..Len(list) : Distinct(list[i].prefixes)
  /\ \A i, j \in 1..Len(list) : list[i].name = list[j].name => i = j

NoSite == [site |-> "none"]
SiteOf(eid) == [key |-> eid.key, prefixes |-> ToSet(eid.prefixes)]

\* The site a list has for a name.
Site(list, s) ==
  LET at == {i \in DOMAIN list : list[i].name = s}
  IN IF at = {} THEN NoSite ELSE SiteOf(list[Min(at)])
View == [s \in SiteName |-> Site(eids, s)]
Answered == IF reply.to = "eid" THEN reply.code ELSE "none"

\* A site is its EID, and there is none where no EID has the name.
LEMMA SiteByName ==
  ASSUME NEW list, EidList(list), NEW s
  PROVE  /\ \A i \in 1..Len(list) : list[i].name = s => Site(list, s) = SiteOf(list[i])
         /\ (\A i \in 1..Len(list) : list[i].name # s) => Site(list, s) = NoSite
<1> DEFINE at == {i \in DOMAIN list : list[i].name = s}
<1>1. DOMAIN list = 1..Len(list) /\ at \in SUBSET Nat
  BY DEF EidList
<1>2. Site(list, s) = IF at = {} THEN NoSite ELSE SiteOf(list[Min(at)])
  BY DEF Site
<1>3. ASSUME NEW i \in 1..Len(list), list[i].name = s
      PROVE  Site(list, s) = SiteOf(list[i])
  <2>1. i \in at
    BY <1>1, <1>3
  <2>2. Min(at) \in at
    BY <1>1, <2>1, LeastMember
  <2>3. Min(at) = i
    BY <1>1, <1>3, <2>2 DEF EidList
  <2> QED  BY <1>2, <2>1, <2>3
<1>4. ASSUME \A i \in 1..Len(list) : list[i].name # s
      PROVE  Site(list, s) = NoSite
  <2>1. at = {}
    BY <1>1, <1>4
  <2> QED  BY <1>2, <2>1
<1> QED  BY <1>3, <1>4

\* A name has the same site in two lists where the same EID has it in both.
LEMMA SiteStays ==
  ASSUME NEW list, EidList(list), NEW other, EidList(other), NEW s,
         \A i \in 1..Len(list) : list[i].name = s => \E j \in 1..Len(other) : other[j] = list[i],
         \A j \in 1..Len(other) : other[j].name = s => \E i \in 1..Len(list) : list[i] = other[j]
  PROVE  Site(other, s) = Site(list, s)
<1>1. CASE \E i \in 1..Len(list) : list[i].name = s
  <2>1. PICK i \in 1..Len(list) : list[i].name = s
    BY <1>1
  <2>2. PICK j \in 1..Len(other) : other[j] = list[i]
    BY <2>1
  <2>3. Site(list, s) = SiteOf(list[i]) /\ Site(other, s) = SiteOf(other[j])
    BY <2>1, <2>2, SiteByName
  <2> QED  BY <2>2, <2>3
<1>2. CASE \A i \in 1..Len(list) : list[i].name # s
  <2>1. \A j \in 1..Len(other) : other[j].name # s
    BY <1>2
  <2>2. Site(list, s) = NoSite /\ Site(other, s) = NoSite
    BY <1>2, <2>1, SiteByName
  <2> QED  BY <2>2
<1> QED  BY <1>1, <1>2

\* An EID is appended, under a name of its own.
LEMMA ListAppended ==
  ASSUME NEW list, EidList(list), NEW eid \in Eid, Distinct(eid.prefixes),
         \A i \in 1..Len(list) : list[i].name # eid.name
  PROVE  /\ EidList(Append(list, eid))
         /\ Site(Append(list, eid), eid.name) = SiteOf(eid)
         /\ \A s : s # eid.name => Site(Append(list, eid), s) = Site(list, s)
<1> DEFINE longer == Append(list, eid)
<1>1. /\ longer \in Seq(Eid) /\ Len(longer) = Len(list) + 1 /\ Len(list) \in Nat
      /\ \A i \in 1..Len(list) : longer[i] = list[i]
      /\ longer[Len(list) + 1] = eid
  BY AppendedElement DEF EidList
<1> HIDE DEF longer
<1>2. EidList(longer)
  BY <1>1 DEF EidList
<1>3. Site(longer, eid.name) = SiteOf(eid)
  BY <1>1, <1>2, SiteByName
<1>4. ASSUME NEW s, s # eid.name PROVE Site(longer, s) = Site(list, s)
  <2>1. \A i \in 1..Len(list) : list[i].name = s => \E j \in 1..Len(longer) : longer[j] = list[i]
    BY <1>1
  <2>2. \A j \in 1..Len(longer) : longer[j].name = s => \E i \in 1..Len(list) : list[i] = longer[j]
    BY <1>1, <1>4
  <2> QED  BY <1>2, <2>1, <2>2, SiteStays
<1> QED  BY <1>2, <1>3, <1>4 DEF longer

\* An EID is taken out.
LEMMA ListRemoved ==
  ASSUME NEW list, EidList(list), NEW k \in 1..Len(list)
  PROVE  /\ EidList(RemoveAt(list, k))
         /\ Site(RemoveAt(list, k), list[k].name) = NoSite
         /\ \A s : s # list[k].name => Site(RemoveAt(list, k), s) = Site(list, s)
<1> DEFINE rest == RemoveAt(list, k)
<1>1. /\ rest \in Seq(Eid) /\ Len(rest) = Len(list) - 1 /\ Len(list) \in Nat
      /\ \A i \in 1..Len(list) - 1 : rest[i] = IF i < k THEN list[i] ELSE list[i + 1]
  BY RemovedAt DEF EidList
<1> HIDE DEF rest
<1>2. \A i \in 1..Len(rest) : \E j \in 1..Len(list) :
        j # k /\ rest[i] = list[j] /\ j = IF i < k THEN i ELSE i + 1
  BY <1>1
<1>3. EidList(rest)
  <2>1. \A i \in 1..Len(rest) : Distinct(rest[i].prefixes)
    BY <1>2 DEF EidList
  <2>2. ASSUME NEW i \in 1..Len(rest), NEW j \in 1..Len(rest), rest[i].name = rest[j].name
        PROVE  i = j
    <3>1. PICK m \in 1..Len(list) : rest[i] = list[m] /\ m = IF i < k THEN i ELSE i + 1
      BY <1>2
    <3>2. PICK n \in 1..Len(list) : rest[j] = list[n] /\ n = IF j < k THEN j ELSE j + 1
      BY <1>2
    <3>3. m = n
      BY <2>2, <3>1, <3>2 DEF EidList
    <3> QED  BY <3>1, <3>2, <3>3
  <2> QED  BY <1>1, <2>1, <2>2 DEF EidList
<1>4. Site(rest, list[k].name) = NoSite
  <2>1. \A i \in 1..Len(rest) : rest[i].name # list[k].name
    BY <1>2 DEF EidList
  <2> QED  BY <1>3, <2>1, SiteByName
<1>5. ASSUME NEW s, s # list[k].name PROVE Site(rest, s) = Site(list, s)
  <2>1. ASSUME NEW i \in 1..Len(list), list[i].name = s
        PROVE  \E j \in 1..Len(rest) : rest[j] = list[i]
    <3>1. i # k
      BY <1>5, <2>1
    <3>2. CASE i < k
      BY <1>1, <3>2
    <3>3. CASE i > k
      <4>1. i - 1 \in 1..Len(rest) /\ ~(i - 1 < k) /\ (i - 1) + 1 = i
        BY <1>1, <3>3
      <4>2. rest[i - 1] = list[i]
        BY <1>1, <4>1
      <4> QED  BY <4>1, <4>2
    <3> QED  BY <3>1, <3>2, <3>3
  <2>2. \A j \in 1..Len(rest) : rest[j].name = s => \E i \in 1..Len(list) : list[i] = rest[j]
    BY <1>2
  <2> QED  BY <1>3, <2>1, <2>2, SiteStays
<1> QED  BY <1>3, <1>4, <1>5 DEF rest

\* An EID is changed in place, but for its name.
LEMMA ListChanged ==
  ASSUME NEW list, EidList(list), NEW k \in 1..Len(list), NEW eid \in Eid,
         Distinct(eid.prefixes), eid.name = list[k].name
  PROVE  /\ EidList([list EXCEPT ![k] = eid])
         /\ Site([list EXCEPT ![k] = eid], eid.name) = SiteOf(eid)
         /\ \A s : s # eid.name => Site([list EXCEPT ![k] = eid], s) = Site(list, s)
<1> DEFINE new == [list EXCEPT ![k] = eid]
<1>1. /\ new \in Seq(Eid) /\ Len(new) = Len(list)
      /\ \A i \in 1..Len(list) : new[i] = IF i = k THEN eid ELSE list[i]
  BY DEF EidList
<1> HIDE DEF new
<1>2. EidList(new)
  <2>1. \A i \in 1..Len(new) : new[i].name = list[i].name /\ Distinct(new[i].prefixes)
    BY <1>1 DEF EidList
  <2> QED  BY <1>1, <2>1 DEF EidList
<1>3. Site(new, eid.name) = SiteOf(eid)
  BY <1>1, <1>2, SiteByName
<1>4. ASSUME NEW s, s # eid.name PROVE Site(new, s) = Site(list, s)
  <2>1. \A i \in 1..Len(list) : list[i].name = s => \E j \in 1..Len(new) : new[j] = list[i]
    BY <1>1, <1>4
  <2>2. \A j \in 1..Len(new) : new[j].name = s => \E i \in 1..Len(list) : list[i] = new[j]
    BY <1>1, <1>4
  <2> QED  BY <1>2, <2>1, <2>2, SiteStays
<1> QED  BY <1>2, <1>3, <1>4 DEF new

\* The table of sites after a change of one of them.
LEMMA ViewChanged ==
  ASSUME NEW s \in SiteName, NEW site, Site(eids', s) = site,
         \A x \in SiteName \ {s} : Site(eids', x) = Site(eids, x)
  PROVE  View' = [View EXCEPT ![s] = site]
<1>1. View' = [x \in SiteName |-> Site(eids', x)]
  BY DEF View
<1>2. \A x \in SiteName : View[x] = Site(eids, x)
  BY DEF View
<1>3. View = [x \in SiteName |-> View[x]]
  BY DEF View
<1> QED  BY <1>1, <1>2, <1>3

\* An EID is a site.
LEMMA NoSiteOf == \A eid : SiteOf(eid) # NoSite
<1>1. ASSUME NEW eid PROVE SiteOf(eid) # NoSite
  <2>1. DOMAIN SiteOf(eid) = {"key", "prefixes"} /\ DOMAIN NoSite = {"site"}
    BY DEF SiteOf, NoSite
  <2> QED  BY <2>1
<1> QED  BY <1>1

\* What an EID command may do in the table of sites: it refuses with a code.
LEMMA RefusedSites ==
  ASSUME NEW code, Answered' = code, View' = View
  PROVE  Promised!Refuse(code)
BY DEF Promised!Refuse, View, Site, SiteOf, NoSite, Answered

\* It puts a site in place of another.
LEMMA AcceptedSites ==
  ASSUME NEW s \in SiteName, NEW site, Answered' = "SUCCESS", View' = [View EXCEPT ![s] = site]
  PROVE  Promised!Accept(s, site)
BY DEF Promised!Accept, View, Site, SiteOf, NoSite, Answered

\* A site is known where the list has one.
LEMMA KnownSites ==
  ASSUME NEW s \in SiteName
  PROVE  s \in Promised!Known <=> View[s] # NoSite
BY DEF Promised!Known, Promised!NoSite, View, Site, SiteOf, NoSite

\* The abstract actions on a site that is known.
LEMMA SiteInTable ==
  ASSUME NEW s \in SiteName, NEW site, View[s] = site
  PROVE  [x \in SiteName |->
            LET at == {i \in DOMAIN eids : eids[i].name = x}
            IN IF at = {} THEN [site |-> "none"]
               ELSE [key |-> eids[Min(at)].key, prefixes |-> ToSet(eids[Min(at)].prefixes)]][s]
         = site
BY DEF View, Site, SiteOf, NoSite

\* A key that is set.
LEMMA KeyOfSite ==
  ASSUME NEW s \in SiteName, NEW k, NEW site, View[s] = site, s \in Promised!Known,
         Promised!Accept(s, [site EXCEPT !.key = k])
  PROVE  Promised!SetKey(s, k)
BY SiteInTable DEF Promised!SetKey, Promised!Accept

\* A prefix that is added, or is there already.
LEMMA PrefixAdded ==
  ASSUME NEW s \in SiteName, NEW p, NEW site, View[s] = site, s \in Promised!Known,
         \/ p \notin site.prefixes
              /\ Promised!Accept(s, [site EXCEPT !.prefixes = @ \cup {p}])
         \/ p \in site.prefixes /\ Promised!Refuse("ADDRESS_EXISTS")
  PROVE  Promised!AddPrefix(s, p)
BY SiteInTable DEF Promised!AddPrefix, Promised!Accept

\* A prefix that is removed, or is not there.
LEMMA PrefixRemoved ==
  ASSUME NEW s \in SiteName, NEW p, NEW site, View[s] = site, s \in Promised!Known,
         \/ p \in site.prefixes
              /\ Promised!Accept(s, [site EXCEPT !.prefixes = @ \ {p}])
         \/ p \notin site.prefixes /\ Promised!Refuse("ADDRESS_DOES_NOT_EXISTS")
  PROVE  Promised!RemovePrefix(s, p)
BY SiteInTable DEF Promised!RemovePrefix, Promised!Accept

-----------------------------------------------------------------------------
(* The EID commands.                                                       *)

EidInv == EidList(eids)

\* What a command does to the list of EIDs and the loops over it: nothing, or it
\* appends an EID, takes one out, or changes one.
AppendsEid(eid) ==
  /\ eids' = Append(eids, eid)
  /\ eid \in Eid /\ eid.prefixes = <<>>
  /\ \A i \in 1..Len(eids) : eids[i].name # eid.name
  /\ UNCHANGED <<eidLoop, prefixLoop>>
RemovesEid(k) ==
  /\ eids' = RemoveAt(eids, k)
  /\ eidLoop' = Unlinked(eidLoop, eids, k)
  /\ UNCHANGED prefixLoop

\* A changed EID has its old prefixes, one more, or one less.
KeepsPrefixes(k, eid) == eid.prefixes = eids[k].prefixes /\ UNCHANGED prefixLoop
AddsPrefix(k, eid, p) ==
  /\ p \notin ToSet(eids[k].prefixes)
  /\ eid.prefixes = Append(eids[k].prefixes, p)
  /\ UNCHANGED prefixLoop
DropsPrefix(k, eid, j) ==
  /\ eid.prefixes = RemoveAt(eids[k].prefixes, j)
  /\ prefixLoop' = IF StandsAt(k) THEN Unlinked(prefixLoop, eids[k].prefixes, j) ELSE prefixLoop
ChangesEid(k, eid) ==
  /\ eids' = [eids EXCEPT ![k] = eid]
  /\ eid.name = eids[k].name
  /\ UNCHANGED eidLoop
  /\ \/ KeepsPrefixes(k, eid)
     \/ \E p \in EidPrefix : AddsPrefix(k, eid, p)
     \/ \E j \in 1..Len(eids[k].prefixes) : DropsPrefix(k, eid, j)

EidChange ==
  \/ UNCHANGED <<eids, eidLoop, prefixLoop>>
  \/ \E eid \in Eid : AppendsEid(eid)
  \/ \E k \in 1..Len(eids) : RemovesEid(k)
  \/ \E k \in 1..Len(eids), eid \in Eid : ChangesEid(k, eid)

EidStep == EidInv' /\ Promised!Next /\ EidChange

\* An EID of the list has its parts.
LEMMA EidParts ==
  ASSUME EidInv, NEW k \in 1..Len(eids)
  PROVE  /\ eids[k] \in Eid /\ eids[k].name \in SiteName
         /\ eids[k].key \in Key \cup {NoKey}
         /\ eids[k].prefixes \in Seq(EidPrefix) /\ Distinct(eids[k].prefixes)
         /\ View[eids[k].name] = SiteOf(eids[k])
         /\ eids[k].name \in Promised!Known
<1>1. eids[k] \in Eid /\ Distinct(eids[k].prefixes)
  BY DEF EidInv, EidList
<1>2. /\ eids[k].name \in SiteName /\ eids[k].key \in Key \cup {NoKey}
      /\ eids[k].prefixes \in Seq(EidPrefix)
  BY <1>1 DEF Eid
<1>3. View[eids[k].name] = SiteOf(eids[k])
  BY <1>2, SiteByName DEF View, EidInv
<1>4. eids[k].name \in Promised!Known
  BY <1>2, <1>3, KnownSites, NoSiteOf
<1> QED  BY <1>1, <1>2, <1>3, <1>4

\* search_eid finds the EID of a name, or says that there is none.
LEMMA SearchFinds ==
  ASSUME EidInv, NEW name \in Name
  PROVE  /\ search_eid(name) # 0 =>
              /\ search_eid(name) \in 1..Len(eids)
              /\ eids[search_eid(name)].name = Truncated[name]
         /\ search_eid(name) = 0 =>
              \A i \in 1..Len(eids) : eids[i].name # Truncated[name]
<1> DEFINE hits == {i \in DOMAIN eids : eids[i].name = Truncated[name]}
<1>1. DOMAIN eids = 1..Len(eids) /\ hits \in SUBSET Nat
  BY DEF EidInv, EidList
<1>2. search_eid(name) = IF hits = {} THEN 0 ELSE Min(hits)
  BY DEF search_eid
<1>3. hits = {} => \A i \in 1..Len(eids) : eids[i].name # Truncated[name]
  BY <1>1
<1>4. hits # {} => Min(hits) \in hits
  BY <1>1, LeastMember
<1>5. hits # {} => Min(hits) \in 1..Len(eids) /\ eids[Min(hits)].name = Truncated[name]
  BY <1>1, <1>4
<1> QED  BY <1>2, <1>3, <1>5

\* A command that is refused.
LEMMA RefusedCommand ==
  ASSUME EidInv, NEW code, Refuse("eid", code)
  PROVE  EidInv' /\ Promised!Refuse(code) /\ EidChange
<1>1. /\ UNCHANGED <<eids, eidLoop, prefixLoop>>
      /\ reply' = [to |-> "eid", code |-> code]
  BY DEF Refuse, Answer, config, loops
<1>2. EidInv' /\ View' = View
  BY <1>1 DEF EidInv, View
<1>3. Answered' = code
  BY <1>1 DEF Answered
<1> QED  BY <1>1, <1>2, <1>3, RefusedSites DEF EidChange

\* A name no EID has is not known, and a command on it is refused.
LEMMA UnknownSite ==
  ASSUME EidInv, NEW name \in Name, search_eid(name) = 0
  PROVE  /\ Truncated[name] \in SiteName
         /\ Truncated[name] \notin Promised!Known
         /\ \A i \in 1..Len(eids) : eids[i].name # Truncated[name]
<1>1. Truncated[name] \in SiteName
  BY NameAssumption
<1>2. \A i \in 1..Len(eids) : eids[i].name # Truncated[name]
  BY SearchFinds
<1>3. View[Truncated[name]] = NoSite
  BY <1>1, <1>2, SiteByName DEF View, EidInv
<1> QED  BY <1>1, <1>2, <1>3, KnownSites

LEMMA RefusedUnknown ==
  ASSUME EidInv, NEW name \in Name, search_eid(name) = 0,
         Refuse("eid", "EID_DOES_NOT_EXISTS")
  PROVE  EidStep
<1>1. EidInv' /\ Promised!Refuse("EID_DOES_NOT_EXISTS") /\ EidChange
  BY RefusedCommand
<1>2. \E s \in SiteName : Promised!Unknown(s)
  BY <1>1, UnknownSite DEF Promised!Unknown
<1> QED  BY <1>1, <1>2 DEF EidStep, Promised!Next

\* The EID a command finds.
LEMMA FoundSite ==
  ASSUME EidInv, NEW name \in Name, search_eid(name) # 0
  PROVE  \E k \in 1..Len(eids) :
           /\ k = search_eid(name)
           /\ eids[k].name = Truncated[name] /\ Truncated[name] \in SiteName
           /\ Truncated[name] \in Promised!Known
           /\ View[Truncated[name]] = SiteOf(eids[k])
<1>1. /\ search_eid(name) \in 1..Len(eids)
      /\ eids[search_eid(name)].name = Truncated[name]
  BY SearchFinds
<1> QED  BY <1>1, EidParts

\* An EID changed in place is a site changed.
LEMMA ChangedSite ==
  ASSUME EidInv, NEW k \in 1..Len(eids), NEW eid \in Eid, Distinct(eid.prefixes),
         ChangesEid(k, eid), Answered' = "SUCCESS"
  PROVE  EidInv' /\ EidChange /\ Promised!Accept(eid.name, SiteOf(eid))
<1>1. eids' = [eids EXCEPT ![k] = eid] /\ eid.name = eids[k].name
  BY DEF ChangesEid
<1>2. eid.name \in SiteName
  BY <1>1, EidParts
<1>3. /\ EidList(eids') /\ Site(eids', eid.name) = SiteOf(eid)
      /\ \A s : s # eid.name => Site(eids', s) = Site(eids, s)
  BY <1>1, ListChanged DEF EidInv
<1>4. View' = [View EXCEPT ![eid.name] = SiteOf(eid)]
  BY <1>2, <1>3, ViewChanged
<1>5. Promised!Accept(eid.name, SiteOf(eid))
  BY <1>2, <1>4, AcceptedSites
<1>6. EidChange
  BY DEF EidChange
<1> QED  BY <1>3, <1>5, <1>6 DEF EidInv

\* Another set of prefixes makes another site.
LEMMA SitePrefixes ==
  ASSUME NEW old, NEW eid, NEW S, eid.key = old.key, ToSet(eid.prefixes) = S
  PROVE  SiteOf(eid) = [SiteOf(old) EXCEPT !.prefixes = S]
<1>1. SiteOf(eid) = [key |-> old.key, prefixes |-> S]
  BY DEF SiteOf
<1>2. PICK P : P = ToSet(old.prefixes)
  OBVIOUS
<1>3. SiteOf(old) = [key |-> old.key, prefixes |-> P]
  BY <1>2 DEF SiteOf
<1> QED  BY <1>1, <1>3

\* A command that succeeds says so.
LEMMA Succeeded ==
  ASSUME Success("eid")
  PROVE  Answered' = "SUCCESS"
BY DEF Success, Answer, Answered

\* cmd_set_eid_authentication_key changes the key of the site.
LEMMA KeyCommand ==
  ASSUME EidInv, NEW name \in Name, NEW key \in Key,
         cmd_set_eid_authentication_key(name, key)
  PROVE  EidStep
<1>1. \/ search_eid(name) = 0 /\ Refuse("eid", "EID_DOES_NOT_EXISTS")
      \/ key \in LongKey /\ Refuse("eid", "AUTHKEY_TOO_LONG")
      \/ /\ search_eid(name) # 0 /\ key \notin LongKey
         /\ eids' = [eids EXCEPT ![search_eid(name)].key = key]
         /\ UNCHANGED <<eidLoop, prefixLoop>>
         /\ Success("eid")
  BY DEF cmd_set_eid_authentication_key, WithEid, loops
<1>2. CASE key \in LongKey /\ Refuse("eid", "AUTHKEY_TOO_LONG")
  BY <1>2, RefusedCommand DEF EidStep, Promised!Next, Promised!Other
<1>3. CASE /\ search_eid(name) # 0 /\ key \notin LongKey
           /\ eids' = [eids EXCEPT ![search_eid(name)].key = key]
           /\ UNCHANGED <<eidLoop, prefixLoop>>
           /\ Success("eid")
  <2>1. PICK s : s = Truncated[name]
    OBVIOUS
  <2>2. PICK k \in 1..Len(eids) :
          /\ k = search_eid(name) /\ eids[k].name = s /\ s \in SiteName
          /\ s \in Promised!Known /\ View[s] = SiteOf(eids[k])
    BY <1>3, <2>1, FoundSite
  <2>3. PICK old : old = eids[k]
    OBVIOUS
  <2>4. old \in Eid /\ Distinct(old.prefixes)
    BY <2>3, EidParts
  <2> DEFINE eid == [old EXCEPT !.key = key]
             site == SiteOf(old)
  <2>5. eid \in Eid /\ eid.name = old.name /\ eid.prefixes = old.prefixes
    BY <2>4 DEF Eid
  <2>6. eids' = [eids EXCEPT ![k] = eid]
    BY <1>3, <2>2, <2>3 DEF EidInv, EidList
  <2>7. SiteOf(eid) = [site EXCEPT !.key = key]
    BY <2>4 DEF SiteOf, Eid
  <2> HIDE DEF eid, site
  <2>8. ChangesEid(k, eid)
    BY <1>3, <2>3, <2>5, <2>6 DEF ChangesEid, KeepsPrefixes
  <2>9. Answered' = "SUCCESS"
    BY <1>3, Succeeded
  <2>10. Distinct(eid.prefixes)
    BY <2>4, <2>5
  <2>11. EidInv' /\ EidChange /\ Promised!Accept(eid.name, SiteOf(eid))
    BY <2>5, <2>8, <2>9, <2>10, ChangedSite
  <2>12. Promised!SetKey(s, key)
    <3>1. Promised!Accept(s, [site EXCEPT !.key = key])
      BY <2>2, <2>3, <2>5, <2>7, <2>11
    <3>2. View[s] = site
      BY <2>2, <2>3 DEF site
    <3> QED  BY <2>2, <3>1, <3>2, KeyOfSite
  <2> QED  BY <1>3, <2>2, <2>11, <2>12 DEF EidStep, Promised!Next
<1> QED  BY <1>1, <1>2, <1>3, RefusedUnknown

\* cmd_set_eid_prefix adds a prefix to the site.
LEMMA SetPrefixCommand ==
  ASSUME EidInv, NEW name \in Name, NEW p \in EidPrefix \cup {"delete"},
         cmd_set_eid_prefix(name, p)
  PROVE  EidStep
<1>1. \/ search_eid(name) = 0 /\ Refuse("eid", "EID_DOES_NOT_EXISTS")
      \/ search_eid(name) # 0
  BY DEF cmd_set_eid_prefix, WithEid
<1>2. CASE search_eid(name) # 0
  <2>1. PICK s : s = Truncated[name]
    OBVIOUS
  <2>2. PICK k \in 1..Len(eids) :
          /\ k = search_eid(name) /\ eids[k].name = s /\ s \in SiteName
          /\ s \in Promised!Known /\ View[s] = SiteOf(eids[k])
    BY <1>2, <2>1, FoundSite
  <2>3. PICK old : old = eids[k]
    OBVIOUS
  <2>4. old \in Eid /\ Distinct(old.prefixes) /\ old.prefixes \in Seq(EidPrefix)
    BY <2>3, EidParts
  <2>5. IF p \notin EidPrefix THEN Refuse("eid", "INVALID_ADDRESS")
        ELSE IF p \in ToSet(old.prefixes) THEN Refuse("eid", "ADDRESS_EXISTS")
        ELSE /\ eids' = [eids EXCEPT ![k].prefixes = Append(@, p)]
             /\ UNCHANGED <<eidLoop, prefixLoop>>
             /\ Success("eid")
    BY <1>2, <2>2, <2>3 DEF cmd_set_eid_prefix, WithEid, PrefixList, loops
  <2>6. CASE p \notin EidPrefix
    BY <2>5, <2>6, RefusedCommand DEF EidStep, Promised!Next, Promised!Other
  <2>7. CASE p \in EidPrefix /\ p \in ToSet(old.prefixes)
    <3>1. EidInv' /\ Promised!Refuse("ADDRESS_EXISTS") /\ EidChange
      BY <2>5, <2>7, RefusedCommand
    <3>2. p \in SiteOf(old).prefixes
      BY <2>7 DEF SiteOf
    <3>3. Promised!AddPrefix(s, p)
      BY <2>2, <2>3, <3>1, <3>2, PrefixAdded
    <3> QED  BY <2>2, <2>7, <3>1, <3>3 DEF EidStep, Promised!Next
  <2>8. CASE p \in EidPrefix /\ p \notin ToSet(old.prefixes)
    <3> DEFINE eid == [old EXCEPT !.prefixes = Append(old.prefixes, p)]
               site == SiteOf(old)
    <3>1. /\ Append(old.prefixes, p) \in Seq(EidPrefix)
          /\ ToSet(Append(old.prefixes, p)) = ToSet(old.prefixes) \cup {p}
          /\ Distinct(Append(old.prefixes, p))
      BY <2>4, <2>8, AppendedElement
    <3>2. /\ eid \in Eid /\ eid.name = old.name /\ eid.key = old.key
          /\ eid.prefixes = Append(old.prefixes, p)
      BY <2>4, <3>1 DEF Eid
    <3>3. eids' = [eids EXCEPT ![k] = eid]
      BY <2>2, <2>3, <2>5, <2>8 DEF EidInv, EidList
    <3> HIDE DEF eid
    <3>4. SiteOf(eid) = [site EXCEPT !.prefixes = @ \cup {p}]
      <4>1. ToSet(eid.prefixes) = site.prefixes \cup {p}
        BY <3>1, <3>2 DEF SiteOf
      <4> QED  BY <3>2, <4>1, SitePrefixes
    <3> HIDE DEF site
    <3>5. ChangesEid(k, eid)
      BY <2>3, <2>5, <2>8, <3>2, <3>3 DEF ChangesEid, AddsPrefix
    <3>6. Answered' = "SUCCESS"
      BY <2>5, <2>8, Succeeded
    <3>7. Distinct(eid.prefixes)
      BY <3>1, <3>2
    <3>8. EidInv' /\ EidChange /\ Promised!Accept(eid.name, SiteOf(eid))
      BY <3>2, <3>5, <3>6, <3>7, ChangedSite
    <3>9. Promised!AddPrefix(s, p)
      <4>1. Promised!Accept(s, [site EXCEPT !.prefixes = @ \cup {p}])
        BY <2>2, <2>3, <3>2, <3>4, <3>8
      <4>2. View[s] = site
        BY <2>2, <2>3 DEF site
      <4>3. p \notin site.prefixes
        BY <2>8 DEF site, SiteOf
      <4> QED  BY <2>2, <4>1, <4>2, <4>3, PrefixAdded
    <3> QED  BY <2>2, <2>8, <3>8, <3>9 DEF EidStep, Promised!Next
  <2> QED  BY <2>6, <2>7, <2>8
<1> QED  BY <1>1, <1>2, RefusedUnknown

\* cmd_unset_eid_prefix takes one out.
LEMMA UnsetPrefixCommand ==
  ASSUME EidInv, NEW name \in Name, NEW p \in EidPrefix, cmd_unset_eid_prefix(name, p)
  PROVE  EidStep
<1>1. \/ search_eid(name) = 0 /\ Refuse("eid", "EID_DOES_NOT_EXISTS")
      \/ search_eid(name) # 0
  BY DEF cmd_unset_eid_prefix, WithEid
<1>2. CASE search_eid(name) # 0
  <2>1. PICK s : s = Truncated[name]
    OBVIOUS
  <2>2. PICK k \in 1..Len(eids) :
          /\ k = search_eid(name) /\ eids[k].name = s /\ s \in SiteName
          /\ s \in Promised!Known /\ View[s] = SiteOf(eids[k])
    BY <1>2, <2>1, FoundSite
  <2>3. PICK old : old = eids[k]
    OBVIOUS
  <2>4. old \in Eid /\ Distinct(old.prefixes) /\ old.prefixes \in Seq(EidPrefix)
    BY <2>3, EidParts
  <2>5. IF p \notin ToSet(old.prefixes) THEN Refuse("eid", "ADDRESS_DOES_NOT_EXISTS")
        ELSE /\ eids' = [eids EXCEPT ![k].prefixes = RemoveAt(@, PlaceOf(p, k))]
             /\ prefixLoop' = IF StandsAt(k) THEN Unlinked(prefixLoop, old.prefixes, PlaceOf(p, k))
                              ELSE prefixLoop
             /\ UNCHANGED eidLoop
             /\ Success("eid")
    BY <1>2, <2>2, <2>3 DEF cmd_unset_eid_prefix, WithEid, PrefixList
  <2>6. CASE p \notin ToSet(old.prefixes)
    <3>1. EidInv' /\ Promised!Refuse("ADDRESS_DOES_NOT_EXISTS") /\ EidChange
      BY <2>5, <2>6, RefusedCommand
    <3>2. p \notin SiteOf(old).prefixes
      BY <2>6 DEF SiteOf
    <3>3. Promised!RemovePrefix(s, p)
      BY <2>2, <2>3, <3>1, <3>2, PrefixRemoved
    <3> QED  BY <2>2, <3>1, <3>3 DEF EidStep, Promised!Next
  <2>7. CASE p \in ToSet(old.prefixes)
    <3> DEFINE hits == {j \in DOMAIN old.prefixes : old.prefixes[j] = p}
    <3>1. hits # {} /\ hits \in SUBSET DOMAIN old.prefixes
      BY <2>7 DEF ToSet
    <3>2. PICK j \in 1..Len(old.prefixes) : j = PlaceOf(p, k) /\ old.prefixes[j] = p
      <4>1. PlaceOf(p, k) = Min(hits)
        BY <2>3 DEF PlaceOf, PrefixList
      <4>2. Min(hits) \in 1..Len(old.prefixes) /\ Min(hits) \in hits
        BY <2>4, <3>1, EntryFound
      <4> QED  BY <4>1, <4>2
    <3> DEFINE rest == RemoveAt(old.prefixes, j)
               eid == [old EXCEPT !.prefixes = rest]
               site == SiteOf(old)
    <3>3. /\ rest \in Seq(EidPrefix)
          /\ ToSet(rest) = ToSet(old.prefixes) \ {p}
          /\ Distinct(rest)
      BY <2>4, <3>2, RemovedAt, WithoutElement
    <3>4. rest = RemoveAt(old.prefixes, j)
      OBVIOUS
    <3> HIDE DEF rest
    <3>5. /\ eid \in Eid /\ eid.name = old.name /\ eid.key = old.key
          /\ eid.prefixes = rest
      BY <2>4, <3>3 DEF Eid
    <3>6. eids' = [eids EXCEPT ![k] = eid]
      BY <2>2, <2>3, <2>5, <2>7, <3>2, <3>4 DEF EidInv, EidList
    <3> HIDE DEF eid
    <3>7. SiteOf(eid) = [site EXCEPT !.prefixes = @ \ {p}]
      <4>1. ToSet(eid.prefixes) = site.prefixes \ {p}
        BY <3>3, <3>5 DEF SiteOf
      <4> QED  BY <3>5, <4>1, SitePrefixes
    <3> HIDE DEF site
    <3>8. DropsPrefix(k, eid, j)
      BY <2>3, <2>5, <2>7, <3>2, <3>4, <3>5 DEF DropsPrefix
    <3>9. ChangesEid(k, eid)
      BY <2>3, <2>5, <2>7, <3>2, <3>5, <3>6, <3>8 DEF ChangesEid
    <3>10. Answered' = "SUCCESS"
      BY <2>5, <2>7, Succeeded
    <3>11. Distinct(eid.prefixes)
      BY <3>3, <3>5
    <3>12. EidInv' /\ EidChange /\ Promised!Accept(eid.name, SiteOf(eid))
      BY <3>5, <3>9, <3>10, <3>11, ChangedSite
    <3>13. Promised!RemovePrefix(s, p)
      <4>1. Promised!Accept(s, [site EXCEPT !.prefixes = @ \ {p}])
        BY <2>2, <2>3, <3>5, <3>7, <3>12
      <4>2. View[s] = site
        BY <2>2, <2>3 DEF site
      <4>3. p \in site.prefixes
        BY <2>7 DEF site, SiteOf
      <4> QED  BY <2>2, <4>1, <4>2, <4>3, PrefixRemoved
    <3> QED  BY <2>2, <3>12, <3>13 DEF EidStep, Promised!Next
  <2> QED  BY <2>6, <2>7
<1> QED  BY <1>1, <1>2, RefusedUnknown

\* cmd_create_eid adds a site without a key or a prefix.
LEMMA CreateCommand ==
  ASSUME EidInv, NEW name \in Name, cmd_create_eid(name)
  PROVE  EidStep
<1>1. PICK s : s = Truncated[name]
  OBVIOUS
<1>2. CASE search_eid(name) # 0 /\ Refuse("eid", "EID_EXISTS")
  <2>1. EidInv' /\ Promised!Refuse("EID_EXISTS") /\ EidChange
    BY <1>2, RefusedCommand
  <2>2. s \in SiteName /\ s \in Promised!Known
    BY <1>1, <1>2, FoundSite
  <2>3. Promised!Create(s)
    BY <2>1, <2>2 DEF Promised!Create
  <2> QED  BY <2>1, <2>2, <2>3 DEF EidStep, Promised!Next
<1>3. CASE search_eid(name) = 0
  <2> DEFINE eid == [name |-> s, key |-> NoKey, prefixes |-> <<>>]
  <2>1. /\ eids' = Append(eids, eid) /\ UNCHANGED <<eidLoop, prefixLoop>>
        /\ Success("eid")
    BY <1>1, <1>3 DEF cmd_create_eid, loops
  <2>2. /\ s \in SiteName /\ s \notin Promised!Known
        /\ \A i \in 1..Len(eids) : eids[i].name # s
    BY <1>1, <1>3, UnknownSite
  <2>3. /\ eid \in Eid /\ eid.name = s /\ eid.prefixes = <<>> /\ Distinct(eid.prefixes)
        /\ SiteOf(eid) = [key |-> NoKey, prefixes |-> {}]
    <3>1. ToSet(<<>>) = {} /\ Distinct(<<>>)
      BY DEF ToSet, Distinct
    <3>2. <<>> \in Seq(EidPrefix)
      OBVIOUS
    <3> QED  BY <2>2, <3>1, <3>2 DEF Eid, SiteOf
  <2> HIDE DEF eid
  <2>4. AppendsEid(eid)
    BY <2>1, <2>2, <2>3 DEF AppendsEid
  <2>5. /\ EidList(eids') /\ Site(eids', s) = SiteOf(eid)
        /\ \A x : x # s => Site(eids', x) = Site(eids, x)
    BY <2>1, <2>2, <2>3, ListAppended DEF EidInv
  <2>6. View' = [View EXCEPT ![s] = SiteOf(eid)]
    BY <2>2, <2>5, ViewChanged
  <2>7. Promised!Accept(s, SiteOf(eid))
    BY <2>1, <2>2, <2>6, Succeeded, AcceptedSites
  <2>8. Promised!Create(s)
    BY <2>2, <2>3, <2>7 DEF Promised!Create
  <2>9. EidChange
    BY <2>3, <2>4 DEF EidChange
  <2> QED  BY <2>2, <2>5, <2>8, <2>9 DEF EidStep, Promised!Next, EidInv
<1> QED  BY <1>2, <1>3 DEF cmd_create_eid

\* cmd_delete_eid takes the site out of the table.
LEMMA DeleteCommand ==
  ASSUME EidInv, NEW name \in Name, cmd_delete_eid(name)
  PROVE  EidStep
<1>1. \/ search_eid(name) = 0 /\ Refuse("eid", "EID_DOES_NOT_EXISTS")
      \/ search_eid(name) # 0
  BY DEF cmd_delete_eid, WithEid
<1>2. CASE search_eid(name) # 0
  <2>1. PICK s : s = Truncated[name]
    OBVIOUS
  <2>2. PICK k \in 1..Len(eids) :
          /\ k = search_eid(name) /\ eids[k].name = s /\ s \in SiteName
          /\ s \in Promised!Known
    BY <1>2, <2>1, FoundSite
  <2>3. RemovesEid(k) /\ Success("eid")
    BY <1>2, <2>2 DEF cmd_delete_eid, WithEid, RemovesEid
  <2>4. eids' = RemoveAt(eids, k)
    BY <2>3 DEF RemovesEid
  <2>5. /\ EidList(eids') /\ Site(eids', s) = NoSite
        /\ \A x : x # s => Site(eids', x) = Site(eids, x)
    BY <2>2, <2>4, ListRemoved DEF EidInv
  <2>6. View' = [View EXCEPT ![s] = NoSite]
    BY <2>2, <2>5, ViewChanged
  <2>7. Promised!Accept(s, NoSite)
    BY <2>2, <2>3, <2>6, Succeeded, AcceptedSites
  <2>8. Promised!Delete(s)
    BY <2>2, <2>7 DEF Promised!Delete, Promised!NoSite, NoSite
  <2>9. EidChange
    BY <2>3 DEF EidChange
  <2> QED  BY <2>2, <2>5, <2>8, <2>9 DEF EidStep, Promised!Next, EidInv
<1> QED  BY <1>1, <1>2, RefusedUnknown

-----------------------------------------------------------------------------
(* The other lists, and the loops of the register thread.                  *)

ServerEntry == [addr : Server, tail : Padding]

ListsInv ==
  /\ locs \in Seq([addr : LocatorAddr, priority : 0..255])
  /\ mapsrvs \in Seq(ServerEntry)
  /\ unreachable \subseteq Unstable
  /\ wild \in BOOLEAN

\* Each loop is over its list, and only the loops the thread is in are begun; what it
\* is done with it stands at; the message is for the prefix it stands at.
LoopInv ==
  /\ level \in {"asleep", "eid", "prefix", "server"} /\ done \in BOOLEAN
  /\ LoopOver(eidLoop, eids, Eid)
  /\ LoopOver(serverLoop, mapsrvs, ServerEntry)
  /\ level = "asleep" => eidLoop = Over
  /\ level \notin {"prefix", "server"} => prefixLoop = Over
  /\ level # "server" => serverLoop = Over
  /\ level \in {"prefix", "server"} =>
       eidLoop # Over /\ LoopOver(prefixLoop, ThisEid.prefixes, EidPrefix)
  /\ level = "server" => prefixLoop # Over /\ buf.prefix = ThisPrefix
  /\ done => /\ level = "eid" => eidLoop # Over
             /\ level = "prefix" => prefixLoop # Over
             /\ level = "server" => serverLoop # Over
BufInv == buf \in [prefix : EidPrefix, key : Key \cup {NoKey}] \cup {Empty}
OwedInv == owed \subseteq SiteName \X EidPrefix \X Server

\* What a command does to the list of map servers and the loop over it.
AppendsServer(x) == mapsrvs' = Append(mapsrvs, x) /\ UNCHANGED serverLoop
RemovesServer(k) == /\ mapsrvs' = RemoveAt(mapsrvs, k)
                    /\ serverLoop' = Unlinked(serverLoop, mapsrvs, k)
ServerChange ==
  \/ UNCHANGED <<mapsrvs, serverLoop>>
  \/ \E x \in ServerEntry : AppendsServer(x)
  \/ \E k \in 1..Len(mapsrvs) : RemovesServer(k)

\* What a command on another list does: the EIDs and the loops over them stay.
Elsewhere == UNCHANGED <<eids, eidLoop, prefixLoop>> /\ Answered' = "none"
NoServer == UNCHANGED <<mapsrvs, serverLoop>>

\* A command that is refused, or changes one of the other lists.
LEMMA RefusedElsewhere ==
  ASSUME NEW command, NEW code, command # "eid", Refuse(command, code)
  PROVE  Elsewhere /\ NoServer
BY DEF Refuse, Answer, config, loops, Elsewhere, NoServer, Answered

\* The commands on locators.
LEMMA LocatorCommand ==
  ASSUME ListsInv, NEW a \in LocatorAddr,
         \/ cmd_create_locator(a)
         \/ cmd_delete_locator(a)
         \/ \E v \in Parameter : cmd_set_locator_paramater(a, v)
  PROVE  Elsewhere /\ NoServer /\ ListsInv'
<1> DEFINE Entry == [addr : LocatorAddr, priority : 0..255]
<1>1. locs \in Seq(Entry) /\ LocatorAt(a) \in SUBSET DOMAIN locs
  BY DEF ListsInv, LocatorAt
<1>2. ASSUME NEW code, Refuse("locator", code) PROVE Elsewhere /\ NoServer /\ ListsInv'
  BY <1>2, RefusedElsewhere DEF Refuse, Answer, config, ListsInv
<1>3. ASSUME locs' \in Seq(Entry), Success("locator"),
             UNCHANGED <<eids, mapsrvs, loops, wild>>
      PROVE  Elsewhere /\ NoServer /\ ListsInv'
  BY <1>3 DEF Success, Answer, Elsewhere, NoServer, Answered, ListsInv, loops
<1>4. CASE cmd_create_locator(a)
  <2>1. [addr |-> a, priority |-> 0] \in Entry
    OBVIOUS
  <2>2. Append(locs, [addr |-> a, priority |-> 0]) \in Seq(Entry)
    BY <1>1, <2>1
  <2> QED  BY <1>2, <1>3, <1>4, <2>2 DEF cmd_create_locator
<1>5. CASE cmd_delete_locator(a)
  <2>1. ASSUME LocatorAt(a) # {} PROVE RemoveAt(locs, Min(LocatorAt(a))) \in Seq(Entry)
    <3>1. PICK i \in 1..Len(locs) : i = Min(LocatorAt(a))
      BY <1>1, <2>1, EntryFound
    <3> HIDE DEF Entry
    <3> QED  BY <1>1, <3>1, RemovedAt
  <2> QED  BY <1>2, <1>3, <1>5, <2>1 DEF cmd_delete_locator
<1>6. ASSUME NEW v \in Parameter, cmd_set_locator_paramater(a, v)
      PROVE  Elsewhere /\ NoServer /\ ListsInv'
  <2>1. v % 256 \in 0..255
    BY ParameterAssumption
  <2>2. ASSUME LocatorAt(a) # {}
        PROVE  [locs EXCEPT ![Min(LocatorAt(a))].priority = v % 256] \in Seq(Entry)
    <3>1. PICK i \in 1..Len(locs) : i = Min(LocatorAt(a))
      BY <1>1, <2>2, EntryFound
    <3>2. PICK w \in 0..255 : w = v % 256
      BY <2>1
    <3>3. locs[i] \in Entry
      <4> HIDE DEF Entry
      <4> QED  BY <1>1
    <3>4. [locs[i] EXCEPT !.priority = w] \in Entry
      BY <3>2, <3>3
    <3>5. [locs EXCEPT ![i].priority = w] \in Seq(Entry)
      BY <1>1, <3>1, <3>4
    <3> QED  BY <3>1, <3>2, <3>5
  <2> QED  BY <1>2, <1>3, <1>6, <2>2 DEF cmd_set_locator_paramater
<1> QED  BY <1>4, <1>5, <1>6

\* The commands on map servers.
LEMMA ServerCommand ==
  ASSUME ListsInv, NEW a \in Server, cmd_set_map_server(a) \/ cmd_delete_map_server(a)
  PROVE  Elsewhere /\ ServerChange /\ ListsInv'
<1>1. ASSUME NEW code, Refuse("mapserver", code) PROVE Elsewhere /\ ServerChange /\ ListsInv'
  BY <1>1, RefusedElsewhere DEF Refuse, Answer, config, ListsInv, NoServer, ServerChange
<1>2. ASSUME mapsrvs' \in Seq(ServerEntry), Success("mapserver"),
             UNCHANGED <<eids, locs, eidLoop, prefixLoop, wild>>
      PROVE  Elsewhere /\ ListsInv'
  BY <1>2 DEF Success, Answer, Elsewhere, Answered, ListsInv
<1>3. CASE cmd_set_map_server(a)
  <2>1. PICK tail \in Padding : mapsrvs' = Append(mapsrvs, [addr |-> a, tail |-> tail])
    BY <1>3 DEF cmd_set_map_server
  <2>2. [addr |-> a, tail |-> tail] \in ServerEntry
    BY DEF ServerEntry
  <2>3. mapsrvs' \in Seq(ServerEntry)
    BY <2>1, <2>2 DEF ListsInv
  <2>4. UNCHANGED <<eids, locs, eidLoop, prefixLoop, serverLoop, wild>> /\ Success("mapserver")
    BY <1>3 DEF cmd_set_map_server, loops
  <2>5. ServerChange
    BY <2>1, <2>2, <2>4 DEF ServerChange, AppendsServer
  <2> QED  BY <1>2, <2>3, <2>4, <2>5
<1>4. CASE cmd_delete_map_server(a)
  <2>1. PICK tail \in Padding :
          LET hits == {i \in DOMAIN mapsrvs : mapsrvs[i] = [addr |-> a, tail |-> tail]}
          IN IF hits = {} THEN Refuse("mapserver", "INVALID_ADDRESS")
             ELSE /\ mapsrvs' = RemoveAt(mapsrvs, Min(hits))
                  /\ serverLoop' = Unlinked(serverLoop, mapsrvs, Min(hits))
                  /\ UNCHANGED <<eids, locs, eidLoop, prefixLoop, wild>>
                  /\ Success("mapserver")
    BY <1>4 DEF cmd_delete_map_server
  <2> DEFINE hits == {i \in DOMAIN mapsrvs : mapsrvs[i] = [addr |-> a, tail |-> tail]}
  <2>2. CASE hits = {}
    BY <1>1, <2>1, <2>2
  <2>3. CASE hits # {}
    <3>1. PICK k \in 1..Len(mapsrvs) : k = Min(hits)
      BY <2>3, EntryFound DEF ListsInv
    <3>2. /\ RemovesServer(k)
          /\ UNCHANGED <<eids, locs, eidLoop, prefixLoop, wild>>
          /\ Success("mapserver")
      BY <2>1, <2>3, <3>1 DEF RemovesServer
    <3>3. mapsrvs' \in Seq(ServerEntry)
      BY <3>2, RemovedAt DEF RemovesServer, ListsInv
    <3> QED  BY <1>2, <3>2, <3>3 DEF ServerChange
  <2> QED  BY <2>2, <2>3
<1> QED  BY <1>3, <1>4

\* The commands on EIDs leave the other lists.
LEMMA EidCommand ==
  ASSUME EidInv, ListsInv, NEW name \in Name,
         \/ cmd_create_eid(name)
         \/ cmd_delete_eid(name)
         \/ \E k \in Key : cmd_set_eid_authentication_key(name, k)
         \/ \E p \in EidPrefix \cup {"delete"} : cmd_set_eid_prefix(name, p)
         \/ \E p \in EidPrefix : cmd_unset_eid_prefix(name, p)
  PROVE  EidStep /\ NoServer /\ ListsInv'
<1>1. EidStep
  BY CreateCommand, DeleteCommand, KeyCommand, SetPrefixCommand, UnsetPrefixCommand
<1>2. UNCHANGED <<locs, mapsrvs, serverLoop, unreachable>>
  BY DEF cmd_create_eid, cmd_delete_eid, cmd_set_eid_authentication_key,
         cmd_set_eid_prefix, cmd_unset_eid_prefix, WithEid, Refuse, Success, Answer, config, loops
<1>3. wild' \in BOOLEAN
  BY DEF cmd_create_eid, cmd_delete_eid, cmd_set_eid_authentication_key,
         cmd_set_eid_prefix, cmd_unset_eid_prefix, WithEid, Refuse, Success, Answer, config,
         ListsInv
<1> QED  BY <1>1, <1>2, <1>3 DEF ListsInv, NoServer

\* A command answers, and the register thread stays where it is.
Answers ==
  /\ UNCHANGED <<level, done, buf>> /\ sent' = {} /\ owed' = owed \cap Due'
  /\ keyed' = (IF level = "asleep" THEN {} ELSE keyed \cup Keyed')
  /\ listed' = (IF level = "server" THEN listed \cup Listed' ELSE {})
LEMMA CommandAnswers ==
  ASSUME Command
  PROVE  Answers
BY DEF Command, cmd_create_eid, cmd_delete_eid, cmd_set_eid_authentication_key,
       cmd_set_eid_prefix, cmd_unset_eid_prefix, WithEid, cmd_create_locator,
       cmd_delete_locator, cmd_set_locator_paramater, cmd_set_map_server,
       cmd_delete_map_server, Refuse, Success, Answer, Answers

\* The sites are those of before where the list of EIDs is.
LEMMA OtherStep ==
  ASSUME EidInv, UNCHANGED eids, Answered' = "none"
  PROVE  EidInv' /\ Promised!Next
<1>1. EidInv' /\ View' = View
  BY DEF EidInv, View
<1>2. Promised!Refuse("none")
  BY <1>1, RefusedSites
<1> QED  BY <1>1, <1>2 DEF Promised!Next, Promised!Other

\* A command keeps the lists, changes one of them, and does with the EIDs what the
\* table of sites allows.
LEMMA CommandStep ==
  ASSUME EidInv, ListsInv, Command
  PROVE  /\ EidStep /\ ListsInv' /\ Answers
         /\ \/ NoServer
            \/ UNCHANGED <<eids, eidLoop, prefixLoop>> /\ ServerChange
<1> DEFINE OnEid(n) == \/ cmd_create_eid(n)
                       \/ cmd_delete_eid(n)
                       \/ \E k \in Key : cmd_set_eid_authentication_key(n, k)
                       \/ \E p \in EidPrefix \cup {"delete"} : cmd_set_eid_prefix(n, p)
                       \/ \E p \in EidPrefix : cmd_unset_eid_prefix(n, p)
           OnLocator(a) == \/ cmd_create_locator(a)
                           \/ cmd_delete_locator(a)
                           \/ \E v \in Parameter : cmd_set_locator_paramater(a, v)
           OnServer(a) == cmd_set_map_server(a) \/ cmd_delete_map_server(a)
<1>1. ASSUME NEW n \in Name, OnEid(n) PROVE EidStep /\ NoServer /\ ListsInv'
  BY <1>1, EidCommand
<1>2. ASSUME NEW a \in LocatorAddr, OnLocator(a) PROVE Elsewhere /\ NoServer /\ ListsInv'
  BY <1>2, LocatorCommand
<1>3. ASSUME NEW a \in Server, OnServer(a) PROVE Elsewhere /\ ServerChange /\ ListsInv'
  BY <1>3, ServerCommand
<1>4. ASSUME Elsewhere PROVE EidStep /\ UNCHANGED <<eids, eidLoop, prefixLoop>>
  <2>1. UNCHANGED <<eids, eidLoop, prefixLoop>> /\ UNCHANGED eids /\ Answered' = "none"
    BY <1>4 DEF Elsewhere
  <2>2. EidInv' /\ Promised!Next
    BY <2>1, OtherStep
  <2> QED  BY <2>1, <2>2 DEF EidStep, EidChange
<1>5. Answers
  BY CommandAnswers
<1>6. \/ \E n \in Name : OnEid(n)
      \/ \E a \in LocatorAddr : OnLocator(a)
      \/ \E a \in Server : OnServer(a)
  BY DEF Command
<1> HIDE DEF OnEid, OnLocator, OnServer
<1> QED  BY <1>1, <1>2, <1>3, <1>4, <1>5, <1>6

-----------------------------------------------------------------------------
(* The loops under the commands.                                           *)

\* A change of EIDs leaves the loop at the EID it stands at, and that EID as it was
\* or with the change.
LEMMA EidLoopStands ==
  ASSUME EidInv, LoopInv, EidInv', EidChange
  PROVE  /\ LoopOver(eidLoop', eids', Eid)
         /\ eidLoop' = Over <=> eidLoop = Over
         /\ eidLoop # Over =>
              \/ ThisEid' = ThisEid /\ UNCHANGED prefixLoop
              \/ \E k \in 1..Len(eids), eid \in Eid :
                   /\ ChangesEid(k, eid)
                   /\ ThisEid = eids[k] /\ ThisEid' = eid /\ StandsAt(k)
              \/ /\ \E k \in 1..Len(eids), eid \in Eid : ChangesEid(k, eid) /\ ~StandsAt(k)
                 /\ ThisEid' = ThisEid /\ UNCHANGED prefixLoop
<1>1. /\ eids \in Seq(Eid) /\ eids' \in Seq(Eid)
      /\ LoopOver(eidLoop, eids, Eid)
  BY DEF EidInv, EidList, LoopInv
<1>2. ThisEid = Standing(eidLoop, eids) /\ ThisEid' = Standing(eidLoop', eids')
  BY DEF ThisEid
<1>3. CASE UNCHANGED <<eids, eidLoop, prefixLoop>>
  BY <1>1, <1>2, <1>3
<1>4. ASSUME NEW eid \in Eid, AppendsEid(eid)
      PROVE  /\ LoopOver(eidLoop', eids', Eid)
             /\ eidLoop' = Over <=> eidLoop = Over
             /\ eidLoop # Over => ThisEid' = ThisEid /\ UNCHANGED prefixLoop
  <2>1. eids' = Append(eids, eid) /\ UNCHANGED <<eidLoop, prefixLoop>>
    BY <1>4 DEF AppendsEid
  <2>2. /\ LoopOver(eidLoop, Append(eids, eid), Eid)
        /\ eidLoop # Over => Standing(eidLoop, Append(eids, eid)) = Standing(eidLoop, eids)
    BY <1>1, LoopAppended
  <2> QED  BY <1>2, <2>1, <2>2
<1>5. ASSUME NEW k \in 1..Len(eids), RemovesEid(k)
      PROVE  /\ LoopOver(eidLoop', eids', Eid)
             /\ eidLoop' = Over <=> eidLoop = Over
             /\ eidLoop # Over => ThisEid' = ThisEid /\ UNCHANGED prefixLoop
  <2>1. /\ eids' = RemoveAt(eids, k) /\ eidLoop' = Unlinked(eidLoop, eids, k)
        /\ UNCHANGED prefixLoop
    BY <1>5 DEF RemovesEid
  <2>2. /\ LoopOver(Unlinked(eidLoop, eids, k), RemoveAt(eids, k), Eid)
        /\ eidLoop # Over =>
             /\ Unlinked(eidLoop, eids, k) # Over
             /\ Standing(Unlinked(eidLoop, eids, k), RemoveAt(eids, k)) = Standing(eidLoop, eids)
        /\ eidLoop = Over => Unlinked(eidLoop, eids, k) = Over
    BY <1>1, LoopUnlinked
  <2> QED  BY <1>2, <2>1, <2>2
<1>6. ASSUME NEW k \in 1..Len(eids), NEW eid \in Eid, ChangesEid(k, eid)
      PROVE  /\ LoopOver(eidLoop', eids', Eid)
             /\ eidLoop' = Over <=> eidLoop = Over
             /\ eidLoop # Over =>
                  \/ ThisEid = eids[k] /\ ThisEid' = eid /\ StandsAt(k)
                  \/ ~StandsAt(k) /\ ThisEid' = ThisEid /\ UNCHANGED prefixLoop
  <2>1. eids' = [eids EXCEPT ![k] = eid] /\ UNCHANGED eidLoop
    BY <1>6 DEF ChangesEid
  <2>2. /\ Len(eids') = Len(eids)
        /\ \A i \in 1..Len(eids) : eids'[i] = IF i = k THEN eid ELSE eids[i]
    BY <1>1, <2>1
  <2>3. LoopOver(eidLoop', eids', Eid)
    BY <1>1, <2>1, <2>2 DEF LoopOver
  <2>4. eidLoop # Over /\ eidLoop.gone = <<>> => eidLoop.at \in 1..Len(eids)
    BY <1>1, StandsAtElement
  <2>5. ASSUME eidLoop # Over, StandsAt(k)
        PROVE  ThisEid = eids[k] /\ ThisEid' = eid
    BY <1>2, <2>1, <2>2, <2>5 DEF Standing, StandsAt
  <2>6. ASSUME eidLoop # Over, ~StandsAt(k)
        PROVE  ThisEid' = ThisEid /\ UNCHANGED prefixLoop
    <3>1. UNCHANGED prefixLoop
      BY <1>6, <2>6 DEF ChangesEid, KeepsPrefixes, AddsPrefix, DropsPrefix
    <3>2. CASE eidLoop.gone = <<>>
      <4>1. eids'[eidLoop.at] = eids[eidLoop.at]
        BY <2>2, <2>4, <2>6, <3>2 DEF StandsAt
      <4> QED  BY <1>2, <2>1, <3>1, <3>2, <4>1 DEF Standing
    <3>3. CASE eidLoop.gone # <<>>
      BY <1>2, <2>1, <3>1, <3>3 DEF Standing
    <3> QED  BY <3>2, <3>3
  <2> QED  BY <2>1, <2>3, <2>5, <2>6
<1> QED  BY <1>3, <1>4, <1>5, <1>6 DEF EidChange

\* The loop over the prefixes is over the list of the EID that stands there now, and
\* stands at the prefix it stood at.
LEMMA PrefixLoopStands ==
  ASSUME EidInv, LoopInv, EidInv', EidChange
  PROVE  /\ prefixLoop' = Over <=> prefixLoop = Over
         /\ level \in {"prefix", "server"} =>
              /\ LoopOver(prefixLoop', ThisEid'.prefixes, EidPrefix)
              /\ prefixLoop # Over => ThisPrefix' = ThisPrefix
<1>1. /\ ThisPrefix = Standing(prefixLoop, ThisEid.prefixes)
      /\ ThisPrefix' = Standing(prefixLoop', ThisEid'.prefixes)
  BY DEF ThisPrefix
<1>2. \A k \in 1..Len(eids) : eids[k].prefixes \in Seq(EidPrefix)
  BY EidParts
<1>3. level \in {"prefix", "server"} =>
        eidLoop # Over /\ LoopOver(prefixLoop, ThisEid.prefixes, EidPrefix)
  BY DEF LoopInv
<1>4. level \notin {"prefix", "server"} => prefixLoop = Over
  BY DEF LoopInv
<1>5. CASE UNCHANGED prefixLoop /\ ThisEid' = ThisEid
  BY <1>1, <1>3, <1>5
<1>6. ASSUME NEW k \in 1..Len(eids), NEW eid \in Eid, ChangesEid(k, eid), StandsAt(k),
             level \in {"prefix", "server"}, ThisEid = eids[k], ThisEid' = eid
      PROVE  /\ prefixLoop' = Over <=> prefixLoop = Over
             /\ LoopOver(prefixLoop', ThisEid'.prefixes, EidPrefix)
             /\ prefixLoop # Over => ThisPrefix' = ThisPrefix
  <2> DEFINE list == eids[k].prefixes
  <2>1. list \in Seq(EidPrefix) /\ LoopOver(prefixLoop, list, EidPrefix)
    BY <1>2, <1>3, <1>6
  <2>2. /\ ThisPrefix = Standing(prefixLoop, list)
        /\ ThisPrefix' = Standing(prefixLoop', eid.prefixes)
        /\ ThisEid'.prefixes = eid.prefixes
    BY <1>1, <1>6
  <2>3. CASE KeepsPrefixes(k, eid)
    BY <2>1, <2>2, <2>3 DEF KeepsPrefixes
  <2>4. ASSUME NEW p \in EidPrefix, AddsPrefix(k, eid, p)
        PROVE  /\ prefixLoop' = Over <=> prefixLoop = Over
               /\ LoopOver(prefixLoop', ThisEid'.prefixes, EidPrefix)
               /\ prefixLoop # Over => ThisPrefix' = ThisPrefix
    <3>1. eid.prefixes = Append(list, p) /\ UNCHANGED prefixLoop
      BY <2>4 DEF AddsPrefix
    <3> HIDE DEF list
    <3>2. /\ LoopOver(prefixLoop, Append(list, p), EidPrefix)
          /\ prefixLoop # Over => Standing(prefixLoop, Append(list, p)) = Standing(prefixLoop, list)
      BY <2>1, LoopAppended
    <3> QED  BY <2>2, <3>1, <3>2
  <2>5. ASSUME NEW j \in 1..Len(list), DropsPrefix(k, eid, j)
        PROVE  /\ prefixLoop' = Over <=> prefixLoop = Over
               /\ LoopOver(prefixLoop', ThisEid'.prefixes, EidPrefix)
               /\ prefixLoop # Over => ThisPrefix' = ThisPrefix
    <3>1. /\ eid.prefixes = RemoveAt(list, j)
          /\ prefixLoop' = Unlinked(prefixLoop, list, j)
      BY <1>6, <2>5 DEF DropsPrefix
    <3> HIDE DEF list
    <3>2. /\ LoopOver(Unlinked(prefixLoop, list, j), RemoveAt(list, j), EidPrefix)
          /\ prefixLoop # Over =>
               /\ Unlinked(prefixLoop, list, j) # Over
               /\ Standing(Unlinked(prefixLoop, list, j), RemoveAt(list, j))
                    = Standing(prefixLoop, list)
          /\ prefixLoop = Over => Unlinked(prefixLoop, list, j) = Over
      BY <2>1, LoopUnlinked
    <3> QED  BY <2>2, <3>1, <3>2
  <2> QED  BY <1>6, <2>3, <2>4, <2>5 DEF ChangesEid
<1>7. CASE level \in {"prefix", "server"}
  BY <1>3, <1>5, <1>6, <1>7, EidLoopStands
<1>8. CASE level \notin {"prefix", "server"}
  <2>1. prefixLoop = Over
    BY <1>4, <1>8
  <2>2. ASSUME NEW k \in 1..Len(eids), NEW j \in 1..Len(eids[k].prefixes)
        PROVE  Unlinked(prefixLoop, eids[k].prefixes, j) = Over
    BY <1>2, <2>1, OverIsLoop, LoopUnlinked
  <2>3. prefixLoop' = Over
    BY <2>1, <2>2 DEF EidChange, AppendsEid, RemovesEid, ChangesEid, KeepsPrefixes,
                      AddsPrefix, DropsPrefix
  <2> QED  BY <1>8, <2>1, <2>3
<1> QED  BY <1>7, <1>8

\* The loop over the map servers.
LEMMA ServerLoopStands ==
  ASSUME ListsInv, LoopInv, ServerChange
  PROVE  /\ LoopOver(serverLoop', mapsrvs', ServerEntry)
         /\ serverLoop' = Over <=> serverLoop = Over
         /\ serverLoop # Over => ThisServer' = ThisServer
<1>1. mapsrvs \in Seq(ServerEntry) /\ LoopOver(serverLoop, mapsrvs, ServerEntry)
  BY DEF ListsInv, LoopInv
<1>2. /\ ThisServer = Standing(serverLoop, mapsrvs).addr
      /\ ThisServer' = Standing(serverLoop', mapsrvs').addr
  BY DEF ThisServer
<1>3. CASE UNCHANGED <<mapsrvs, serverLoop>>
  BY <1>1, <1>2, <1>3
<1>4. ASSUME NEW x \in ServerEntry, AppendsServer(x)
      PROVE  /\ LoopOver(serverLoop', mapsrvs', ServerEntry)
             /\ serverLoop' = Over <=> serverLoop = Over
             /\ serverLoop # Over => ThisServer' = ThisServer
  <2>1. mapsrvs' = Append(mapsrvs, x) /\ serverLoop' = serverLoop
    BY <1>4 DEF AppendsServer
  <2>2. /\ LoopOver(serverLoop, Append(mapsrvs, x), ServerEntry)
        /\ serverLoop # Over =>
             Standing(serverLoop, Append(mapsrvs, x)) = Standing(serverLoop, mapsrvs)
    BY <1>1, LoopAppended
  <2> QED  BY <1>2, <2>1, <2>2
<1>5. ASSUME NEW k \in 1..Len(mapsrvs), RemovesServer(k)
      PROVE  /\ LoopOver(serverLoop', mapsrvs', ServerEntry)
             /\ serverLoop' = Over <=> serverLoop = Over
             /\ serverLoop # Over => ThisServer' = ThisServer
  <2>1. /\ mapsrvs' = RemoveAt(mapsrvs, k) /\ serverLoop' = Unlinked(serverLoop, mapsrvs, k)
    BY <1>5 DEF RemovesServer
  <2>2. /\ LoopOver(Unlinked(serverLoop, mapsrvs, k), RemoveAt(mapsrvs, k), ServerEntry)
        /\ serverLoop # Over =>
             /\ Unlinked(serverLoop, mapsrvs, k) # Over
             /\ Standing(Unlinked(serverLoop, mapsrvs, k), RemoveAt(mapsrvs, k))
                  = Standing(serverLoop, mapsrvs)
        /\ serverLoop = Over => Unlinked(serverLoop, mapsrvs, k) = Over
    BY <1>1, LoopUnlinked
  <2> QED  BY <1>2, <2>1, <2>2
<1> QED  BY <1>3, <1>4, <1>5 DEF ServerChange

-----------------------------------------------------------------------------
(* Type correctness, and the table of sites.                               *)

ConfigInv == EidInv /\ ListsInv /\ LoopInv /\ BufInv /\ OwedInv

\* What is due is of known EIDs, prefixes and map servers.
LEMMA DueTypes ==
  ASSUME ListsInv
  PROVE  Listed \subseteq Server /\ Due \subseteq SiteName \X EidPrefix \X Server
<1>1. mapsrvs \in Seq(ServerEntry)
  BY DEF ListsInv
<1>2. \A i \in DOMAIN mapsrvs : mapsrvs[i] \in ServerEntry
  BY <1>1
<1>3. Listed \subseteq Server
  BY <1>2 DEF Listed, ServerEntry
<1> QED  BY <1>3 DEF Due

\* What the loops stand at.
LEMMA ThisTypes ==
  ASSUME EidInv, ListsInv, LoopInv
  PROVE  /\ eidLoop # Over => ThisEid \in Eid /\ ThisEid.prefixes \in Seq(EidPrefix)
                              /\ ThisEid.name \in SiteName /\ ThisEid.key \in Key \cup {NoKey}
         /\ level \in {"prefix", "server"} /\ prefixLoop # Over => ThisPrefix \in EidPrefix
         /\ serverLoop # Over => ThisServer \in Server
<1>1. /\ eids \in Seq(Eid) /\ LoopOver(eidLoop, eids, Eid)
      /\ mapsrvs \in Seq(ServerEntry) /\ LoopOver(serverLoop, mapsrvs, ServerEntry)
  BY DEF EidInv, EidList, ListsInv, LoopInv
<1>2. ASSUME eidLoop # Over
      PROVE  ThisEid \in Eid /\ ThisEid.prefixes \in Seq(EidPrefix)
             /\ ThisEid.name \in SiteName /\ ThisEid.key \in Key \cup {NoKey}
  <2>1. ThisEid \in Eid
    BY <1>1, <1>2, StandsAtElement DEF ThisEid
  <2> QED  BY <2>1 DEF Eid
<1>3. ASSUME level \in {"prefix", "server"}, prefixLoop # Over
      PROVE  ThisPrefix \in EidPrefix
  <2>1. eidLoop # Over /\ LoopOver(prefixLoop, ThisEid.prefixes, EidPrefix)
    BY <1>3 DEF LoopInv
  <2>2. ThisEid.prefixes \in Seq(EidPrefix)
    BY <1>2, <2>1
  <2> QED  BY <1>3, <2>1, <2>2, StandsAtElement DEF ThisPrefix
<1>4. ASSUME serverLoop # Over PROVE ThisServer \in Server
  <2>1. Standing(serverLoop, mapsrvs) \in ServerEntry
    BY <1>1, <1>4, StandsAtElement
  <2> QED  BY <2>1 DEF ThisServer, ServerEntry
<1> QED  BY <1>2, <1>3, <1>4

\* The commands keep the loops.
LEMMA CommandLoops ==
  ASSUME ConfigInv, Command
  PROVE  ConfigInv' /\ Promised!Next
<1>1. EidInv /\ ListsInv /\ LoopInv /\ BufInv /\ OwedInv
  BY DEF ConfigInv
<1>2. /\ EidStep /\ ListsInv' /\ Answers
      /\ \/ NoServer
         \/ UNCHANGED <<eids, eidLoop, prefixLoop>> /\ ServerChange
  BY <1>1, CommandStep
<1>3. EidInv' /\ Promised!Next /\ EidChange /\ ServerChange
  BY <1>2 DEF EidStep, NoServer, ServerChange
<1>4. /\ LoopOver(eidLoop', eids', Eid)
      /\ eidLoop' = Over <=> eidLoop = Over
  BY <1>1, <1>3, EidLoopStands
<1>5. /\ prefixLoop' = Over <=> prefixLoop = Over
      /\ level \in {"prefix", "server"} =>
           /\ LoopOver(prefixLoop', ThisEid'.prefixes, EidPrefix)
           /\ prefixLoop # Over => ThisPrefix' = ThisPrefix
  BY <1>1, <1>3, PrefixLoopStands
<1>6. /\ LoopOver(serverLoop', mapsrvs', ServerEntry)
      /\ serverLoop' = Over <=> serverLoop = Over
  BY <1>1, <1>3, ServerLoopStands
<1>7. UNCHANGED <<level, done, buf>> /\ owed' \subseteq owed
  BY <1>2 DEF Answers
<1>8. LoopInv'
  BY <1>1, <1>4, <1>5, <1>6, <1>7 DEF LoopInv
<1>9. BufInv' /\ OwedInv'
  BY <1>1, <1>7 DEF BufInv, OwedInv
<1> QED  BY <1>2, <1>3, <1>8, <1>9 DEF ConfigInv

\* The register thread keeps the lists, and the parts of what is there.
LEMMA RegisterLists ==
  ASSUME ConfigInv, Register
  PROVE  /\ UNCHANGED <<config, unreachable>> /\ reply' = NoReply
         /\ EidInv' /\ ListsInv'
         /\ ThisEid' = Standing(eidLoop', eids)
         /\ ThisPrefix' = Standing(prefixLoop', Standing(eidLoop', eids).prefixes)
<1>1. UNCHANGED <<config, unreachable>> /\ reply' = NoReply
  BY DEF Register, WakeUp, RegisterEid, BuildRegister, SendRegister, SendFails, NextServer,
         LastServer, NextPrefix, LastPrefix, NextEid, LastEid, Goes
<1>2. ListsInv /\ EidInv
  BY DEF ConfigInv
<1>3. wild' \in BOOLEAN
  BY <1>2 DEF Register, WakeUp, RegisterEid, BuildRegister, SendRegister, SendFails,
              NextServer, LastServer, NextPrefix, LastPrefix, NextEid, LastEid, Garbled,
              ListsInv
<1>4. EidInv' /\ ListsInv'
  BY <1>1, <1>2, <1>3 DEF EidInv, ListsInv, config
<1>5. UNCHANGED eids
  BY <1>1 DEF config
<1>6. ThisEid' = Standing(eidLoop', eids)
  BY <1>5 DEF ThisEid
<1>7. ThisPrefix' = Standing(prefixLoop', Standing(eidLoop', eids).prefixes)
  BY <1>6 DEF ThisPrefix
<1> QED  BY <1>1, <1>4, <1>6, <1>7

\* It keeps its loops.
LEMMA RegisterLoops ==
  ASSUME ConfigInv, Register
  PROVE  ConfigInv'
<1>1. EidInv /\ ListsInv /\ LoopInv /\ BufInv /\ OwedInv
  BY DEF ConfigInv
<1>2. /\ UNCHANGED <<config, unreachable>> /\ EidInv' /\ ListsInv'
      /\ ThisEid' = Standing(eidLoop', eids)
      /\ ThisPrefix' = Standing(prefixLoop', Standing(eidLoop', eids).prefixes)
  BY RegisterLists
<1>3. /\ eids \in Seq(Eid) /\ mapsrvs \in Seq(ServerEntry)
      /\ eids' = eids /\ mapsrvs' = mapsrvs
      /\ LoopOver(eidLoop, eids, Eid) /\ LoopOver(serverLoop, mapsrvs, ServerEntry)
  BY <1>1, <1>2 DEF EidInv, EidList, ListsInv, LoopInv, config
<1>4. /\ eidLoop # Over => ThisEid \in Eid /\ ThisEid.prefixes \in Seq(EidPrefix)
                           /\ ThisEid.name \in SiteName /\ ThisEid.key \in Key \cup {NoKey}
      /\ level \in {"prefix", "server"} /\ prefixLoop # Over => ThisPrefix \in EidPrefix
      /\ serverLoop # Over => ThisServer \in Server
  BY <1>1, ThisTypes
<1>5. /\ ThisEid = Standing(eidLoop, eids)
      /\ ThisPrefix = Standing(prefixLoop, ThisEid.prefixes)
  BY DEF ThisEid, ThisPrefix
<1>6. LoopOver(Over, eids, Eid) /\ LoopOver(Over, mapsrvs, ServerEntry)
  BY <1>3, OverIsLoop
<1>7. CASE WakeUp
  <2>1. /\ level = "asleep" /\ level' = "eid" /\ done' = FALSE /\ eids # <<>>
        /\ eidLoop' = Begin(eids) /\ UNCHANGED <<prefixLoop, serverLoop, buf>> /\ owed' = Due
    BY <1>7 DEF WakeUp, Goes
  <2>2. LoopOver(Begin(eids), eids, Eid)
    BY <1>3, LoopBegins
  <2>3. LoopInv'
    BY <1>1, <1>3, <2>1, <2>2 DEF LoopInv
  <2>4. BufInv' /\ OwedInv'
    BY <1>1, <2>1, DueTypes DEF BufInv, OwedInv
  <2> QED  BY <1>2, <2>3, <2>4 DEF ConfigInv
<1>8. CASE RegisterEid
  <2>1. /\ level = "eid" /\ eidLoop # Over /\ UNCHANGED <<eidLoop, serverLoop, buf, owed>>
        /\ \/ level' = "eid" /\ done' = TRUE /\ UNCHANGED prefixLoop
           \/ level' = "prefix" /\ done' = FALSE /\ prefixLoop' = Begin(ThisEid.prefixes)
    BY <1>8 DEF RegisterEid, Goes
  <2>2. LoopOver(Begin(ThisEid.prefixes), ThisEid.prefixes, EidPrefix)
    BY <1>4, <2>1, LoopBegins
  <2>3. ThisEid' = ThisEid
    BY <1>2, <1>5, <2>1
  <2>4. LoopInv'
    BY <1>1, <1>3, <2>1, <2>2, <2>3 DEF LoopInv
  <2>5. BufInv' /\ OwedInv'
    BY <1>1, <2>1 DEF BufInv, OwedInv
  <2> QED  BY <1>2, <2>4, <2>5 DEF ConfigInv
<1>9. CASE BuildRegister
  <2>1. /\ level = "prefix" /\ prefixLoop # Over /\ UNCHANGED <<eidLoop, prefixLoop, owed>>
        /\ level' = "server" /\ done' = FALSE /\ serverLoop' = Begin(mapsrvs)
        /\ buf' = [prefix |-> ThisPrefix, key |-> ThisEid.key]
    BY <1>9 DEF BuildRegister, Goes
  <2>2. LoopOver(Begin(mapsrvs), mapsrvs, ServerEntry)
    BY <1>3, LoopBegins
  <2>3. ThisEid' = ThisEid /\ ThisPrefix' = ThisPrefix
    BY <1>2, <1>5, <2>1
  <2>4. eidLoop # Over
    BY <1>1, <2>1 DEF LoopInv
  <2>5. LoopInv'
    BY <1>1, <1>3, <2>1, <2>2, <2>3 DEF LoopInv
  <2>6. BufInv' /\ OwedInv'
    BY <1>1, <1>4, <2>1, <2>4 DEF BufInv, OwedInv
  <2> QED  BY <1>2, <2>5, <2>6 DEF ConfigInv
<1>10. CASE SendRegister
  <2>1. /\ level = "server" /\ level' = "server" /\ done' = TRUE /\ serverLoop # Over
        /\ UNCHANGED <<loops, buf>> /\ owed' \subseteq owed
    BY <1>10 DEF SendRegister, Goes
  <2>2. UNCHANGED <<eidLoop, prefixLoop, serverLoop>> /\ ThisEid' = ThisEid /\ ThisPrefix' = ThisPrefix
    BY <1>2, <1>5, <2>1 DEF loops
  <2>3. LoopInv'
    BY <1>1, <1>3, <2>1, <2>2 DEF LoopInv
  <2>4. BufInv' /\ OwedInv'
    BY <1>1, <2>1 DEF BufInv, OwedInv
  <2> QED  BY <1>2, <2>3, <2>4 DEF ConfigInv
<1>11. CASE SendFails
  <2>1. /\ level = "server" /\ level' = "eid" /\ done' = TRUE /\ prefixLoop' = Over
        /\ serverLoop' = Over /\ buf' = Empty /\ owed' \subseteq owed /\ UNCHANGED eidLoop
    BY <1>11 DEF SendFails, Goes
  <2>2. LoopInv'
    BY <1>1, <1>3, <1>6, <2>1 DEF LoopInv
  <2>3. BufInv' /\ OwedInv'
    BY <1>1, <2>1 DEF BufInv, OwedInv
  <2> QED  BY <1>2, <2>2, <2>3 DEF ConfigInv
<1>12. CASE NextServer
  <2>1. /\ level = "server" /\ done /\ level' = "server" /\ done' = FALSE
        /\ serverLoop' = Moved(serverLoop, mapsrvs)
        /\ UNCHANGED <<eidLoop, prefixLoop, buf, owed>>
    BY <1>12 DEF NextServer, Goes
  <2>2. serverLoop # Over
    BY <1>1, <2>1 DEF LoopInv
  <2>3. LoopOver(Moved(serverLoop, mapsrvs), mapsrvs, ServerEntry)
    BY <1>3, <2>2, LoopMoves
  <2>4. ThisEid' = ThisEid /\ ThisPrefix' = ThisPrefix
    BY <1>2, <1>5, <2>1
  <2>5. LoopInv'
    BY <1>1, <1>3, <2>1, <2>3, <2>4 DEF LoopInv
  <2>6. BufInv' /\ OwedInv'
    BY <1>1, <2>1 DEF BufInv, OwedInv
  <2> QED  BY <1>2, <2>5, <2>6 DEF ConfigInv
<1>13. CASE LastServer
  <2>1. /\ level = "server" /\ level' = "prefix" /\ done' = TRUE /\ serverLoop = Over
        /\ UNCHANGED <<loops, buf, owed>>
    BY <1>13 DEF LastServer, Goes
  <2>2. UNCHANGED <<eidLoop, prefixLoop, serverLoop>> /\ ThisEid' = ThisEid
    BY <1>2, <1>5, <2>1 DEF loops
  <2>3. LoopInv'
    BY <1>1, <1>3, <2>1, <2>2 DEF LoopInv
  <2>4. BufInv' /\ OwedInv'
    BY <1>1, <2>1 DEF BufInv, OwedInv
  <2> QED  BY <1>2, <2>3, <2>4 DEF ConfigInv
<1>14. CASE NextPrefix
  <2>1. /\ level = "prefix" /\ done /\ level' = "prefix" /\ done' = FALSE
        /\ prefixLoop' = Moved(prefixLoop, ThisEid.prefixes)
        /\ UNCHANGED <<eidLoop, serverLoop, buf, owed>>
    BY <1>14 DEF NextPrefix, Goes
  <2>2. prefixLoop # Over /\ eidLoop # Over /\ LoopOver(prefixLoop, ThisEid.prefixes, EidPrefix)
    BY <1>1, <2>1 DEF LoopInv
  <2>3. LoopOver(Moved(prefixLoop, ThisEid.prefixes), ThisEid.prefixes, EidPrefix)
    BY <1>4, <2>2, LoopMoves
  <2>4. ThisEid' = ThisEid
    BY <1>2, <1>5, <2>1
  <2>5. LoopInv'
    BY <1>1, <1>3, <2>1, <2>3, <2>4 DEF LoopInv
  <2>6. BufInv' /\ OwedInv'
    BY <1>1, <2>1 DEF BufInv, OwedInv
  <2> QED  BY <1>2, <2>5, <2>6 DEF ConfigInv
<1>15. CASE LastPrefix
  <2>1. /\ level = "prefix" /\ level' = "eid" /\ done' = TRUE /\ prefixLoop = Over
        /\ UNCHANGED <<loops, owed>> /\ buf' = Empty
    BY <1>15 DEF LastPrefix, Goes
  <2>2. UNCHANGED <<eidLoop, prefixLoop, serverLoop>>
    BY <2>1 DEF loops
  <2>3. LoopInv'
    BY <1>1, <1>3, <2>1, <2>2 DEF LoopInv
  <2>4. BufInv' /\ OwedInv'
    BY <1>1, <2>1 DEF BufInv, OwedInv
  <2> QED  BY <1>2, <2>3, <2>4 DEF ConfigInv
<1>16. CASE NextEid
  <2>1. /\ level = "eid" /\ done /\ level' = "eid" /\ done' = FALSE
        /\ eidLoop' = Moved(eidLoop, eids)
        /\ UNCHANGED <<prefixLoop, serverLoop, buf, owed>>
    BY <1>16 DEF NextEid, Goes
  <2>2. eidLoop # Over
    BY <1>1, <2>1 DEF LoopInv
  <2>3. LoopOver(Moved(eidLoop, eids), eids, Eid)
    BY <1>3, <2>2, LoopMoves
  <2>4. LoopInv'
    BY <1>1, <1>3, <2>1, <2>3 DEF LoopInv
  <2>5. BufInv' /\ OwedInv'
    BY <1>1, <2>1 DEF BufInv, OwedInv
  <2> QED  BY <1>2, <2>4, <2>5 DEF ConfigInv
<1>17. CASE LastEid
  <2>1. /\ level = "eid" /\ level' = "asleep" /\ done' = FALSE /\ eidLoop = Over
        /\ UNCHANGED <<loops, buf, owed>>
    BY <1>17 DEF LastEid, Goes
  <2>2. UNCHANGED <<eidLoop, prefixLoop, serverLoop>>
    BY <2>1 DEF loops
  <2>3. LoopInv'
    BY <1>1, <1>3, <2>1, <2>2 DEF LoopInv
  <2>4. BufInv' /\ OwedInv'
    BY <1>1, <2>1 DEF BufInv, OwedInv
  <2> QED  BY <1>2, <2>3, <2>4 DEF ConfigInv
<1> QED  BY <1>7, <1>8, <1>9, <1>10, <1>11, <1>12, <1>13, <1>14, <1>15, <1>16, <1>17
         DEF Register

\* In the beginning there is nothing.
LEMMA InitConfig ==
  ASSUME Init
  PROVE  ConfigInv /\ Promised!Init
<1>1. eids = <<>> /\ Len(eids) = 0 /\ DOMAIN eids = {}
  BY DEF Init
<1>2. <<>> \in Seq(Eid) /\ <<>> \in Seq(ServerEntry)
  OBVIOUS
<1>3. EidInv
  BY <1>1, <1>2 DEF EidInv, EidList
<1>4. ListsInv
  <2>1. <<>> \in Seq([addr : LocatorAddr, priority : 0..255])
    OBVIOUS
  <2> QED  BY <1>2, <2>1 DEF Init, ListsInv
<1>5. LoopInv
  BY <1>2, OverIsLoop DEF Init, LoopInv
<1>6. BufInv /\ OwedInv
  BY DEF Init, BufInv, OwedInv
<1>7. Promised!Init
  <2>1. \A s \in SiteName : {i \in DOMAIN eids : eids[i].name = s} = {}
    BY <1>1
  <2>2. reply.to # "eid"
    BY DEF Init, NoReply
  <2> QED  BY <2>1, <2>2 DEF Promised!Init, Promised!NoSite
<1> QED  BY <1>3, <1>4, <1>5, <1>6, <1>7 DEF ConfigInv

\* Where nothing but the routes to the map servers changes, all is as it was.
LEMMA ConfigStays ==
  ASSUME ConfigInv, UNCHANGED <<config, level, done, loops, buf, owed, wild>>,
         unreachable' \subseteq Unstable
  PROVE  ConfigInv'
<1>1. UNCHANGED <<eids, locs, mapsrvs, eidLoop, prefixLoop, serverLoop, level, done, buf, owed, wild>>
  BY DEF config, loops
<1>2. ThisEid' = ThisEid
  BY <1>1 DEF ThisEid
<1>3. ThisPrefix' = ThisPrefix
  BY <1>1, <1>2 DEF ThisPrefix
<1>4. EidInv' /\ ListsInv' /\ BufInv' /\ OwedInv'
  BY <1>1 DEF ConfigInv, EidInv, ListsInv, BufInv, OwedInv
<1>5. LoopInv'
  BY <1>1, <1>2, <1>3 DEF ConfigInv, LoopInv
<1> QED  BY <1>4, <1>5 DEF ConfigInv

\* Each step keeps the lists and the loops well formed, and is a step of the table of
\* sites.
LEMMA ConfigStep ==
  ASSUME ConfigInv, [Next]_vars
  PROVE  ConfigInv' /\ [Promised!Next]_Promised!vars
<1>1. CASE Command
  BY <1>1, CommandLoops
<1>2. CASE Register
  <2>1. UNCHANGED <<config, unreachable>> /\ reply' = NoReply
    BY <1>2, RegisterLists
  <2>2. UNCHANGED eids /\ Answered' = "none"
    BY <2>1 DEF config, Answered, NoReply
  <2>3. Promised!Next
    BY <2>2, OtherStep DEF ConfigInv
  <2> QED  BY <1>2, <2>3, RegisterLoops
<1>3. CASE Network
  <2>1. /\ UNCHANGED <<config, level, done, loops, buf, owed, wild>>
        /\ reply' = NoReply
    BY <1>3 DEF Network
  <2>2. unreachable' \subseteq Unstable
    BY <1>3 DEF Network, ConfigInv, ListsInv
  <2>3. UNCHANGED eids /\ Answered' = "none"
    BY <2>1 DEF config, Answered, NoReply
  <2>4. Promised!Next
    BY <2>3, OtherStep DEF ConfigInv
  <2> QED  BY <2>1, <2>2, <2>4, ConfigStays
<1>4. CASE UNCHANGED vars
  <2>1. /\ UNCHANGED <<config, level, done, loops, buf, owed, wild>>
        /\ UNCHANGED <<eids, reply, unreachable>>
    BY <1>4 DEF vars, config, loops
  <2>2. unreachable' \subseteq Unstable
    BY <2>1 DEF ConfigInv, ListsInv
  <2>3. UNCHANGED Promised!vars
    BY <2>1 DEF Promised!vars
  <2> QED  BY <2>1, <2>2, <2>3, ConfigStays
<1> QED  BY <1>1, <1>2, <1>3, <1>4 DEF Next, Undefined

\* The lists and the loops are always well formed.
LEMMA ConfigHolds == Spec => []ConfigInv
<1>1. Init => ConfigInv
  BY InitConfig
<1>2. ConfigInv /\ [Next]_vars => ConfigInv'
  BY ConfigStep
<1> QED  BY <1>1, <1>2, PTL DEF Spec

\* The operator's commands keep the three lists well formed, and the three loops of
\* the register thread on nodes of them or on what was unlinked under them, whatever
\* is deleted between two steps of the thread (instance.c, control.c, list.c).
THEOREM TypeCorrect == Spec => []TypeOK
<1>1. ConfigInv => TypeOK
  BY DEF ConfigInv, EidInv, EidList, ListsInv, LoopInv, BufInv, OwedInv, TypeOK, ServerEntry
<1> QED  BY <1>1, ConfigHolds, PTL

\* The EID commands of control.c, on the list the register thread holds pointers
\* into, implement a table of sites that answers every command.
THEOREM SitesImplemented == Spec => ImplementsSites
<1>1. Init => Promised!Init
  BY InitConfig
<1>2. ConfigInv /\ [Next]_vars => [Promised!Next]_Promised!vars
  BY ConfigStep
<1> QED  BY <1>1, <1>2, ConfigHolds, PTL DEF Spec, ImplementsSites, Promised!Spec

-----------------------------------------------------------------------------
(* What is sent was configured.  An EID that is freed had its prefixes and *)
(* its key together when it was taken out, and the loop over the EIDs      *)
(* began before that.                                                      *)

KeyedEid(eid) == \A p \in ToSet(eid.prefixes) : <<p, eid.key>> \in keyed

KeyedInv ==
  ~wild =>
    /\ level # "asleep" => /\ Keyed \subseteq keyed
                           /\ \A g \in ToSet(eidLoop.gone) : KeyedEid(g)
    /\ level = "server" => /\ <<buf.prefix, buf.key>> \in keyed
                           /\ Listed \subseteq listed
                           /\ \A g \in ToSet(serverLoop.gone) : g.addr \in listed

\* The prefixes of an EID of the list have its key.
LEMMA KeyedList ==
  ASSUME EidInv, NEW i \in 1..Len(eids), NEW p \in ToSet(eids[i].prefixes)
  PROVE  <<p, eids[i].key>> \in Keyed
<1>1. eids[i].prefixes \in Seq(EidPrefix) /\ eids[i].key \in Key \cup {NoKey}
  BY EidParts
<1>2. p \in EidPrefix
  BY <1>1, Members
<1>3. i \in DOMAIN eids
  BY DEF EidInv, EidList
<1> QED  BY <1>1, <1>2, <1>3 DEF Keyed

\* What a command makes the loops come by was in the lists.
LEMMA GoneWasListed ==
  ASSUME EidInv, ListsInv, LoopInv, EidChange, ServerChange
  PROVE  /\ \A g \in ToSet(eidLoop'.gone) :
              g \in ToSet(eidLoop.gone) \/ \E k \in 1..Len(eids) : g = eids[k]
         /\ \A g \in ToSet(serverLoop'.gone) :
              g \in ToSet(serverLoop.gone) \/ \E k \in 1..Len(mapsrvs) : g = mapsrvs[k]
<1>1. /\ eids \in Seq(Eid) /\ LoopOver(eidLoop, eids, Eid)
      /\ mapsrvs \in Seq(ServerEntry) /\ LoopOver(serverLoop, mapsrvs, ServerEntry)
  BY DEF EidInv, EidList, ListsInv, LoopInv
<1>2. \/ UNCHANGED eidLoop
      \/ \E k \in 1..Len(eids) : eidLoop' = Unlinked(eidLoop, eids, k)
  BY DEF EidChange, AppendsEid, RemovesEid, ChangesEid
<1>3. \/ UNCHANGED serverLoop
      \/ \E k \in 1..Len(mapsrvs) : serverLoop' = Unlinked(serverLoop, mapsrvs, k)
  BY DEF ServerChange, AppendsServer, RemovesServer
<1>4. ASSUME NEW k \in 1..Len(eids)
      PROVE  \A g \in ToSet(Unlinked(eidLoop, eids, k).gone) :
               g \in ToSet(eidLoop.gone) \/ g = eids[k]
  BY <1>1, LoopUnlinked
<1>5. ASSUME NEW k \in 1..Len(mapsrvs)
      PROVE  \A g \in ToSet(Unlinked(serverLoop, mapsrvs, k).gone) :
               g \in ToSet(serverLoop.gone) \/ g = mapsrvs[k]
  BY <1>1, LoopUnlinked
<1>6. \A g \in ToSet(eidLoop'.gone) :
        g \in ToSet(eidLoop.gone) \/ \E k \in 1..Len(eids) : g = eids[k]
  BY <1>2, <1>4
<1>7. \A g \in ToSet(serverLoop'.gone) :
        g \in ToSet(serverLoop.gone) \/ \E k \in 1..Len(mapsrvs) : g = mapsrvs[k]
  BY <1>3, <1>5
<1> QED  BY <1>6, <1>7

\* A command under the loops.
LEMMA KeyedCommand ==
  ASSUME ConfigInv, KeyedInv, ~wild, Command
  PROVE  KeyedInv'
<1>1. EidInv /\ ListsInv /\ LoopInv
  BY DEF ConfigInv
<1>2. Answers /\ EidChange /\ ServerChange
  BY <1>1, CommandStep DEF EidStep, NoServer, ServerChange
<1>3. /\ UNCHANGED <<level, buf>>
      /\ keyed' = (IF level = "asleep" THEN {} ELSE keyed \cup Keyed')
      /\ listed' = (IF level = "server" THEN listed \cup Listed' ELSE {})
  BY <1>2 DEF Answers
<1>4. /\ \A g \in ToSet(eidLoop'.gone) :
           g \in ToSet(eidLoop.gone) \/ \E k \in 1..Len(eids) : g = eids[k]
      /\ \A g \in ToSet(serverLoop'.gone) :
           g \in ToSet(serverLoop.gone) \/ \E k \in 1..Len(mapsrvs) : g = mapsrvs[k]
  BY <1>1, <1>2, GoneWasListed
<1>5. ASSUME level # "asleep", NEW g \in ToSet(eidLoop'.gone), NEW p \in ToSet(g.prefixes)
      PROVE  <<p, g.key>> \in keyed'
  <2>1. Keyed \subseteq keyed /\ keyed \subseteq keyed'
    BY <1>3, <1>5 DEF KeyedInv
  <2>2. CASE g \in ToSet(eidLoop.gone)
    BY <1>5, <2>1, <2>2 DEF KeyedInv, KeyedEid
  <2>3. ASSUME NEW k \in 1..Len(eids), g = eids[k] PROVE <<p, g.key>> \in keyed'
    <3>1. <<p, eids[k].key>> \in Keyed
      BY <1>1, <2>3, KeyedList
    <3> QED  BY <2>1, <2>3, <3>1
  <2> QED  BY <1>4, <2>2, <2>3
<1>6. ASSUME level = "server", NEW g \in ToSet(serverLoop'.gone)
      PROVE  g.addr \in listed'
  <2>1. Listed \subseteq listed /\ listed \subseteq listed'
    BY <1>3, <1>6 DEF KeyedInv
  <2>2. DOMAIN mapsrvs = 1..Len(mapsrvs)
    BY <1>1 DEF ListsInv
  <2> QED  BY <1>4, <1>6, <2>1, <2>2 DEF KeyedInv, Listed
<1>7. level # "asleep" => Keyed' \subseteq keyed'
  BY <1>3
<1>8. level = "server" => <<buf.prefix, buf.key>>' \in keyed' /\ Listed' \subseteq listed'
  BY <1>3 DEF KeyedInv
<1>9. ASSUME level # "asleep", NEW g \in ToSet(eidLoop'.gone)
      PROVE  KeyedEid(g)'
  BY <1>5, <1>9 DEF KeyedEid
<1> QED  BY <1>3, <1>6, <1>7, <1>8, <1>9 DEF KeyedInv

\* A step of the thread that builds no message.
LEMMA KeyedKept ==
  ASSUME KeyedInv, ~wild, UNCHANGED <<config, keyed>>,
         level' # "asleep" => level # "asleep" /\ ToSet(eidLoop'.gone) \subseteq ToSet(eidLoop.gone),
         level' = "server" => /\ level = "server" /\ UNCHANGED <<buf, listed>>
                              /\ ToSet(serverLoop'.gone) \subseteq ToSet(serverLoop.gone)
  PROVE  KeyedInv'
<1>1. UNCHANGED <<eids, mapsrvs, keyed>>
  BY DEF config
<1>2. Keyed' = Keyed /\ Listed' = Listed
  BY <1>1 DEF Keyed, Listed
<1>3. \A g : KeyedEid(g)' <=> KeyedEid(g)
  BY <1>1 DEF KeyedEid
<1> QED  BY <1>1, <1>2, <1>3 DEF KeyedInv

\* The message that is built says what the loops stand at.
LEMMA KeyedBuild ==
  ASSUME ConfigInv, KeyedInv, ~wild, BuildRegister
  PROVE  KeyedInv'
<1>1. EidInv /\ ListsInv /\ LoopInv
  BY DEF ConfigInv
<1>2. /\ level = "prefix" /\ prefixLoop # Over /\ level' = "server"
      /\ UNCHANGED <<config, eidLoop, keyed>>
      /\ buf' = [prefix |-> ThisPrefix, key |-> ThisEid.key]
      /\ serverLoop' = Begin(mapsrvs) /\ listed' = Listed
      /\ wild' \in Garbled
  BY DEF BuildRegister, Goes
<1>3. eidLoop # Over /\ LoopOver(prefixLoop, ThisEid.prefixes, EidPrefix)
  BY <1>1, <1>2 DEF LoopInv
<1>4. ASSUME ~wild' PROVE <<ThisPrefix, ThisEid.key>> \in keyed
  <2>1. prefixLoop.gone = <<>>
    BY <1>2, <1>4 DEF Garbled
  <2>2. ThisEid.prefixes \in Seq(EidPrefix)
    BY <1>1, <1>3, ThisTypes
  <2>3. ThisPrefix \in ToSet(ThisEid.prefixes)
    <3>1. /\ prefixLoop.at \in 1..Len(ThisEid.prefixes)
          /\ ThisPrefix = ThisEid.prefixes[prefixLoop.at]
      BY <1>2, <1>3, <2>1, <2>2, StandsAtElement DEF ThisPrefix
    <3> QED  BY <2>2, <3>1, Members
  <2>4. eids \in Seq(Eid) /\ LoopOver(eidLoop, eids, Eid)
    BY <1>1 DEF EidInv, EidList, LoopInv
  <2>5. CASE eidLoop.gone = <<>>
    <3>1. PICK i \in 1..Len(eids) : ThisEid = eids[i]
      BY <1>3, <2>4, <2>5, StandsAtElement DEF ThisEid
    <3>2. ThisPrefix \in ToSet(eids[i].prefixes)
      BY <2>3, <3>1
    <3>3. <<ThisPrefix, eids[i].key>> \in Keyed
      BY <1>1, <3>2, KeyedList
    <3> QED  BY <1>2, <3>1, <3>3 DEF KeyedInv
  <2>6. CASE eidLoop.gone # <<>>
    <3>1. ThisEid \in ToSet(eidLoop.gone)
      BY <1>3, <2>4, <2>6, StandsAtElement DEF ThisEid
    <3> QED  BY <1>2, <2>3, <3>1 DEF KeyedInv, KeyedEid
  <2> QED  BY <2>5, <2>6
<1>5. UNCHANGED <<eids, mapsrvs>>
  BY <1>2 DEF config
<1>6. Keyed' = Keyed /\ Listed' = Listed
  BY <1>5 DEF Keyed, Listed
<1>7. ToSet(serverLoop'.gone) = {}
  BY <1>2 DEF Begin, ToSet
<1>8. \A g : KeyedEid(g)' <=> KeyedEid(g)
  BY <1>2 DEF KeyedEid
<1>9. ~wild' => <<buf'.prefix, buf'.key>> \in keyed'
  BY <1>2, <1>4
<1> QED  BY <1>2, <1>6, <1>7, <1>8, <1>9 DEF KeyedInv

\* The other steps of the thread.
LEMMA KeyedRegister ==
  ASSUME ConfigInv, KeyedInv, ~wild, Register
  PROVE  KeyedInv'
<1>1. EidInv /\ ListsInv /\ LoopInv
  BY DEF ConfigInv
<1>2. /\ eids \in Seq(Eid) /\ LoopOver(eidLoop, eids, Eid)
      /\ mapsrvs \in Seq(ServerEntry) /\ LoopOver(serverLoop, mapsrvs, ServerEntry)
  BY <1>1 DEF EidInv, EidList, ListsInv, LoopInv
<1>3. CASE WakeUp
  <2>1. /\ level' = "eid" /\ eidLoop' = Begin(eids) /\ keyed' = Keyed /\ UNCHANGED eids
    BY <1>3 DEF WakeUp, Goes, config
  <2>2. Keyed' = Keyed
    BY <2>1 DEF Keyed
  <2>3. ToSet(eidLoop'.gone) = {}
    BY <2>1 DEF Begin, ToSet
  <2> QED  BY <2>1, <2>2, <2>3 DEF KeyedInv
<1>4. CASE RegisterEid \/ SendFails \/ LastServer \/ NextPrefix \/ LastPrefix
  <2>1. /\ level # "asleep" /\ level' # "server" /\ UNCHANGED <<config, eidLoop, keyed>>
    BY <1>4 DEF RegisterEid, SendFails, LastServer, NextPrefix, LastPrefix, Goes, loops
  <2>2. UNCHANGED <<config, keyed>>
    BY <2>1
  <2>3. level' # "asleep" => level # "asleep" /\ ToSet(eidLoop'.gone) \subseteq ToSet(eidLoop.gone)
    BY <2>1
  <2> QED  BY <2>1, <2>2, <2>3, KeyedKept
<1>5. CASE SendRegister
  <2>1. /\ level = "server" /\ UNCHANGED <<config, eidLoop, serverLoop, keyed, buf, listed>>
    BY <1>5 DEF SendRegister, Goes, loops
  <2>2. UNCHANGED <<config, keyed>> /\ UNCHANGED <<buf, listed>>
    BY <2>1
  <2> QED  BY <2>1, <2>2, KeyedKept
<1>6. CASE NextServer
  <2>1. /\ level = "server" /\ done /\ serverLoop' = Moved(serverLoop, mapsrvs)
        /\ UNCHANGED <<config, eidLoop, keyed, buf, listed>>
    BY <1>6 DEF NextServer, Goes
  <2>2. serverLoop # Over
    BY <1>1, <2>1 DEF LoopInv
  <2>3. ToSet(serverLoop'.gone) \subseteq ToSet(serverLoop.gone)
    BY <1>2, <2>1, <2>2, LoopMoves
  <2>4. UNCHANGED <<config, keyed>> /\ UNCHANGED <<buf, listed>>
    BY <2>1
  <2> QED  BY <2>1, <2>3, <2>4, KeyedKept
<1>7. CASE NextEid
  <2>1. /\ level = "eid" /\ done /\ level' = "eid" /\ eidLoop' = Moved(eidLoop, eids)
        /\ UNCHANGED <<config, keyed>>
    BY <1>7 DEF NextEid, Goes
  <2>2. eidLoop # Over
    BY <1>1, <2>1 DEF LoopInv
  <2>3. ToSet(eidLoop'.gone) \subseteq ToSet(eidLoop.gone)
    BY <1>2, <2>1, <2>2, LoopMoves
  <2> QED  BY <2>1, <2>3, KeyedKept
<1>8. CASE LastEid
  BY <1>8 DEF LastEid, Goes, KeyedInv
<1> QED  BY <1>3, <1>4, <1>5, <1>6, <1>7, <1>8, KeyedBuild DEF Register

\* Each step keeps it.
LEMMA KeyedStep ==
  ASSUME ConfigInv, KeyedInv, [Next]_vars
  PROVE  KeyedInv'
<1>1. CASE ~wild /\ Command
  BY <1>1, KeyedCommand
<1>2. CASE ~wild /\ Register
  BY <1>2, KeyedRegister
<1>3. CASE ~wild /\ Network
  <2>1. UNCHANGED <<config, level, loops, buf, keyed, listed>>
    BY <1>3 DEF Network
  <2>2. UNCHANGED <<config, keyed>> /\ UNCHANGED <<buf, listed>>
        /\ UNCHANGED <<level, eidLoop, serverLoop>>
    BY <2>1 DEF loops
  <2> QED  BY <1>3, <2>2, KeyedKept
<1>4. CASE UNCHANGED vars
  <2>1. /\ UNCHANGED <<config, keyed>> /\ UNCHANGED <<buf, listed>>
        /\ UNCHANGED <<level, eidLoop, serverLoop, wild>>
    BY <1>4 DEF vars, config
  <2>2. CASE ~wild
    BY <2>1, <2>2, KeyedKept
  <2>3. CASE wild
    BY <2>1, <2>3 DEF KeyedInv
  <2> QED  BY <2>2, <2>3
<1> QED  BY <1>1, <1>2, <1>3, <1>4 DEF Next, Undefined

\* A message that is sent names a prefix and a key that were in one EID together since
\* the pass began, and goes to a map server there was when it was built or since
\* (send_map_register in map.c, lisp_map_register_thread in instance.c).
THEOREM SentConfigured == Spec => SentWasConfigured
<1>1. Init => KeyedInv
  BY DEF Init, KeyedInv
<1>2. ConfigInv /\ KeyedInv /\ [Next]_vars => KeyedInv'
  BY KeyedStep
<1>3. ASSUME ConfigInv, KeyedInv, Next, ~(UNCHANGED vars), NEW m \in sent'
      PROVE  <<m.prefix, m.key>> \in keyed /\ m.server \in listed
  <2>1. SendRegister /\ ~wild
    <3>1. ~wild /\ (Command \/ Register \/ Network)
      BY <1>3 DEF Next, Undefined
    <3>2. Command => sent' = {}
      BY CommandAnswers DEF Answers
    <3>3. Network => sent' = {}
      BY DEF Network
    <3>4. Register => SendRegister \/ sent' = {}
      BY DEF Register, WakeUp, RegisterEid, BuildRegister, SendFails, NextServer, LastServer,
             NextPrefix, LastPrefix, NextEid, LastEid, Goes
    <3> QED  BY <1>3, <3>1, <3>2, <3>3, <3>4
  <2>2. level = "server" /\ serverLoop # Over /\ m = Message
    BY <1>3, <2>1 DEF SendRegister, Goes
  <2>3. m.prefix = buf.prefix /\ m.key = buf.key /\ m.server = ThisServer
    BY <2>2 DEF Message
  <2>4. ThisServer \in listed
    <3>1. mapsrvs \in Seq(ServerEntry) /\ LoopOver(serverLoop, mapsrvs, ServerEntry)
      BY <1>3 DEF ConfigInv, ListsInv, LoopInv
    <3>2. DOMAIN mapsrvs = 1..Len(mapsrvs)
      BY <3>1
    <3>3. CASE serverLoop.gone = <<>>
      <4>1. PICK i \in 1..Len(mapsrvs) : Standing(serverLoop, mapsrvs) = mapsrvs[i]
        BY <2>2, <3>1, <3>3, StandsAtElement
      <4> QED  BY <1>3, <2>1, <2>2, <3>2, <4>1 DEF ThisServer, KeyedInv, Listed
    <3>4. CASE serverLoop.gone # <<>>
      <4>1. Standing(serverLoop, mapsrvs) \in ToSet(serverLoop.gone)
        BY <2>2, <3>1, <3>4, StandsAtElement
      <4> QED  BY <1>3, <2>1, <2>2, <4>1 DEF ThisServer, KeyedInv
    <3> QED  BY <3>3, <3>4
  <2> QED  BY <1>3, <2>1, <2>2, <2>3, <2>4 DEF KeyedInv
<1>4. ConfigInv /\ KeyedInv /\ [Next]_vars
        => [\A m \in sent' : <<m.prefix, m.key>> \in keyed /\ m.server \in listed]_vars
  BY <1>3
<1> QED  BY <1>1, <1>2, <1>4, ConfigHolds, PTL DEF Spec, SentWasConfigured

-----------------------------------------------------------------------------
(* A pass registers all it owes.  What it owes is due, and the loops have  *)
(* still to come to the EID, to its prefix and to the map server.          *)

ServerAhead(s) ==
  \A k \in 1..Len(mapsrvs) :
    mapsrvs[k].addr = s => Coming(serverLoop, k) /\ (IsAt(serverLoop, k) => ~done)
PrefixAhead(i, p, s) ==
  \A j \in 1..Len(eids[i].prefixes) :
    eids[i].prefixes[j] = p =>
      /\ Coming(prefixLoop, j)
      /\ IsAt(prefixLoop, j) => /\ ~(level = "prefix" /\ done)
                                /\ level = "server" => ServerAhead(s)
EidAhead(i, p, s) ==
  /\ Coming(eidLoop, i)
  /\ IsAt(eidLoop, i) => /\ ~(level = "eid" /\ done)
                         /\ level \in {"prefix", "server"} => PrefixAhead(i, p, s)

Ahead(o) == \A i \in 1..Len(eids) : eids[i].name = o[1] => EidAhead(i, o[2], o[3])
SweepInv == \A o \in owed : o \in Due /\ Ahead(o)

\* What is due has its EID, its prefix there, and its map server.
LEMMA DueParts ==
  ASSUME EidInv, ListsInv, NEW o \in Due
  PROVE  /\ \E i \in 1..Len(eids) :
              eids[i].name = o[1] /\ \E j \in 1..Len(eids[i].prefixes) : eids[i].prefixes[j] = o[2]
         /\ \E k \in 1..Len(mapsrvs) : mapsrvs[k].addr = o[3]
         /\ o = <<o[1], o[2], o[3]>>
<1>1. DOMAIN eids = 1..Len(eids) /\ DOMAIN mapsrvs = 1..Len(mapsrvs)
  BY DEF EidInv, EidList, ListsInv
<1>2. PICK i \in 1..Len(eids) : o[1] = eids[i].name /\ o[2] \in ToSet(eids[i].prefixes)
  BY <1>1 DEF Due
<1>3. eids[i].prefixes \in Seq(EidPrefix)
  BY EidParts
<1>4. \E j \in 1..Len(eids[i].prefixes) : eids[i].prefixes[j] = o[2]
  BY <1>2, <1>3, Members
<1>5. o[3] \in Listed /\ o = <<o[1], o[2], o[3]>>
  BY DEF Due
<1>6. \E k \in 1..Len(mapsrvs) : mapsrvs[k].addr = o[3]
  BY <1>1, <1>5 DEF Listed
<1> QED  BY <1>2, <1>4, <1>5, <1>6

\* Under a change of the map servers one that stays is still to come.
LEMMA ServerAheadStays ==
  ASSUME ListsInv, LoopInv, ServerChange, UNCHANGED done,
         NEW s, ServerAhead(s), \E k \in 1..Len(mapsrvs) : mapsrvs[k].addr = s
  PROVE  ServerAhead(s)'
<1>1. mapsrvs \in Seq(ServerEntry) /\ LoopOver(serverLoop, mapsrvs, ServerEntry)
  BY DEF ListsInv, LoopInv
<1>2. CASE UNCHANGED <<mapsrvs, serverLoop>>
  BY <1>2 DEF ServerAhead
<1>3. ASSUME NEW x \in ServerEntry, AppendsServer(x) PROVE ServerAhead(s)'
  <2>1. mapsrvs' = Append(mapsrvs, x) /\ serverLoop' = serverLoop
    BY <1>3 DEF AppendsServer
  <2>2. /\ Len(mapsrvs') = Len(mapsrvs) + 1
        /\ \A i \in 1..Len(mapsrvs) : mapsrvs'[i] = mapsrvs[i]
    BY <1>1, <2>1, AppendedElement
  <2>3. \A i \in 1..Len(mapsrvs) : Coming(serverLoop, i) =>
          Coming(serverLoop, Len(mapsrvs) + 1) /\ ~IsAt(serverLoop, Len(mapsrvs) + 1)
    BY <1>1, LoopAppended
  <2>4. Coming(serverLoop, Len(mapsrvs) + 1) /\ ~IsAt(serverLoop, Len(mapsrvs) + 1)
    BY <2>3 DEF ServerAhead
  <2>5. Len(mapsrvs) \in Nat
    BY <1>1
  <2>6. ASSUME NEW k \in 1..Len(mapsrvs'), mapsrvs'[k].addr = s
        PROVE  Coming(serverLoop', k) /\ (IsAt(serverLoop', k) => ~done')
    <3>1. CASE k = Len(mapsrvs) + 1
      BY <2>1, <2>4, <3>1
    <3>2. CASE k \in 1..Len(mapsrvs)
      BY <2>1, <2>2, <2>6, <3>2 DEF ServerAhead
    <3> QED  BY <2>2, <2>5, <3>1, <3>2
  <2> QED  BY <2>6 DEF ServerAhead
<1>4. ASSUME NEW m \in 1..Len(mapsrvs), RemovesServer(m) PROVE ServerAhead(s)'
  <2>1. mapsrvs' = RemoveAt(mapsrvs, m) /\ serverLoop' = Unlinked(serverLoop, mapsrvs, m)
    BY <1>4 DEF RemovesServer
  <2>2. /\ Len(mapsrvs') = Len(mapsrvs) - 1
        /\ \A i \in 1..Len(mapsrvs) - 1 :
             mapsrvs'[i] = IF i < m THEN mapsrvs[i] ELSE mapsrvs[i + 1]
    BY <1>1, <2>1, RemovedAt
  <2>3. \A i \in 1..Len(mapsrvs) - 1 :
          LET was == IF i < m THEN i ELSE i + 1
          IN /\ Coming(serverLoop, was) => Coming(Unlinked(serverLoop, mapsrvs, m), i)
             /\ IsAt(Unlinked(serverLoop, mapsrvs, m), i) => IsAt(serverLoop, was)
    BY <1>1, LoopUnlinked
  <2>4. Len(mapsrvs) \in Nat
    BY <1>1
  <2>5. ASSUME NEW k \in 1..Len(mapsrvs) - 1, mapsrvs'[k].addr = s
        PROVE  Coming(serverLoop', k) /\ (IsAt(serverLoop', k) => ~done')
    <3>1. PICK was \in 1..Len(mapsrvs) : was = IF k < m THEN k ELSE k + 1
      BY <2>4
    <3>2. mapsrvs[was].addr = s
      BY <2>2, <2>5, <3>1
    <3>3. Coming(serverLoop, was) /\ (IsAt(serverLoop, was) => ~done)
      BY <3>2 DEF ServerAhead
    <3> QED  BY <2>1, <2>3, <3>1, <3>3
  <2> QED  BY <2>2, <2>5 DEF ServerAhead
<1> QED  BY <1>2, <1>3, <1>4 DEF ServerChange

\* Where an EID has the prefixes it had, and the loop over them is where it was.
LEMMA PrefixAheadStays ==
  ASSUME NEW i, NEW m, NEW p, NEW s, PrefixAhead(m, p, s),
         eids'[i].prefixes = eids[m].prefixes,
         UNCHANGED prefixLoop, UNCHANGED level, UNCHANGED done, ServerAhead(s) => ServerAhead(s)'
  PROVE  PrefixAhead(i, p, s)'
BY DEF PrefixAhead

\* Where the prefixes of the EID the thread registers are changed.
LEMMA PrefixAheadChanged ==
  ASSUME EidInv, LoopInv, UNCHANGED level, UNCHANGED done, level \in {"prefix", "server"},
         NEW k \in 1..Len(eids), NEW eid \in Eid, ChangesEid(k, eid), IsAt(eidLoop, k),
         NEW p \in ToSet(eids[k].prefixes), NEW s, PrefixAhead(k, p, s),
         ServerAhead(s) => ServerAhead(s)'
  PROVE  PrefixAhead(k, p, s)'
<1> DEFINE list == eids[k].prefixes
<1>1. eids \in Seq(Eid) /\ LoopOver(eidLoop, eids, Eid) /\ list \in Seq(EidPrefix)
  BY EidParts DEF EidInv, EidList, LoopInv
<1>2. StandsAt(k) /\ ThisEid = eids[k]
  BY DEF IsAt, StandsAt, ThisEid, Standing
<1>3. LoopOver(prefixLoop, list, EidPrefix)
  BY <1>2 DEF LoopInv
<1>4. eids'[k] = eid
  BY <1>1 DEF ChangesEid
<1>5. ASSUME KeepsPrefixes(k, eid) PROVE PrefixAhead(k, p, s)'
  <2>1. eids'[k].prefixes = eids[k].prefixes /\ UNCHANGED prefixLoop
    BY <1>4, <1>5 DEF KeepsPrefixes
  <2> QED  BY <2>1, PrefixAheadStays
<1> HIDE DEF list
<1>6. \A j \in 1..Len(list) : list[j] = p =>
        /\ Coming(prefixLoop, j)
        /\ IsAt(prefixLoop, j) => /\ ~(level = "prefix" /\ done)
                                  /\ level = "server" => ServerAhead(s)
  BY DEF PrefixAhead, list
<1>7. ASSUME NEW q \in EidPrefix, AddsPrefix(k, eid, q) PROVE PrefixAhead(k, p, s)'
  <2>1. eids'[k].prefixes = Append(list, q) /\ UNCHANGED prefixLoop /\ p # q
    BY <1>4, <1>7 DEF AddsPrefix, list
  <2>2. /\ Len(Append(list, q)) = Len(list) + 1 /\ Len(list) \in Nat
        /\ \A i \in 1..Len(list) : Append(list, q)[i] = list[i]
        /\ Append(list, q)[Len(list) + 1] = q
    BY <1>1, AppendedElement
  <2>3. ASSUME NEW j \in 1..Len(Append(list, q)), Append(list, q)[j] = p
        PROVE  j \in 1..Len(list) /\ list[j] = p
    BY <2>1, <2>2, <2>3
  <2> QED  BY <1>6, <2>1, <2>3 DEF PrefixAhead
<1>8. ASSUME NEW m \in 1..Len(list), DropsPrefix(k, eid, m) PROVE PrefixAhead(k, p, s)'
  <2>1. /\ eids'[k].prefixes = RemoveAt(list, m)
        /\ prefixLoop' = Unlinked(prefixLoop, list, m)
    BY <1>2, <1>4, <1>8 DEF DropsPrefix, list
  <2>2. /\ Len(RemoveAt(list, m)) = Len(list) - 1 /\ Len(list) \in Nat
        /\ \A i \in 1..Len(list) - 1 :
             RemoveAt(list, m)[i] = IF i < m THEN list[i] ELSE list[i + 1]
    BY <1>1, RemovedAt
  <2>3. \A i \in 1..Len(list) - 1 :
          LET was == IF i < m THEN i ELSE i + 1
          IN /\ Coming(prefixLoop, was) => Coming(Unlinked(prefixLoop, list, m), i)
             /\ IsAt(Unlinked(prefixLoop, list, m), i) => IsAt(prefixLoop, was)
    BY <1>1, <1>3, LoopUnlinked
  <2>4. ASSUME NEW j \in 1..Len(list) - 1, RemoveAt(list, m)[j] = p
        PROVE  /\ Coming(prefixLoop', j)
               /\ IsAt(prefixLoop', j) => /\ ~(level = "prefix" /\ done)
                                          /\ level = "server" => ServerAhead(s)
    <3>1. PICK was \in 1..Len(list) : was = IF j < m THEN j ELSE j + 1
      BY <2>2
    <3>2. list[was] = p
      BY <2>2, <2>4, <3>1
    <3>3. /\ Coming(prefixLoop, was) => Coming(prefixLoop', j)
          /\ IsAt(prefixLoop', j) => IsAt(prefixLoop, was)
      BY <2>1, <2>3, <3>1
    <3> QED  BY <1>6, <3>2, <3>3
  <2> QED  BY <2>1, <2>2, <2>4 DEF PrefixAhead
<1> QED  BY <1>5, <1>7, <1>8 DEF ChangesEid, list

\* Under a change of the EIDs.
LEMMA EidAheadStays ==
  ASSUME EidInv, LoopInv, EidInv', EidChange, UNCHANGED level, UNCHANGED done,
         NEW o, Ahead(o), ServerAhead(o[3]) => ServerAhead(o[3])',
         \E i \in 1..Len(eids) : eids[i].name = o[1] /\ o[2] \in ToSet(eids[i].prefixes)
  PROVE  Ahead(o)'
<1>1. eids \in Seq(Eid) /\ LoopOver(eidLoop, eids, Eid) /\ Len(eids) \in Nat
  BY DEF EidInv, EidList, LoopInv
<1>2. ASSUME NEW i \in 1..Len(eids'), NEW m \in 1..Len(eids), eids'[i] = eids[m],
             eids[m].name = o[1],
             Coming(eidLoop, m) => Coming(eidLoop', i),
             IsAt(eidLoop', i) => IsAt(eidLoop, m) /\ UNCHANGED prefixLoop
      PROVE  EidAhead(i, o[2], o[3])'
  <2>1. EidAhead(m, o[2], o[3])
    BY <1>2 DEF Ahead
  <2>2. ASSUME IsAt(eidLoop', i), level \in {"prefix", "server"}
        PROVE  PrefixAhead(i, o[2], o[3])'
    <3>1. PrefixAhead(m, o[2], o[3])
      BY <1>2, <2>1, <2>2 DEF EidAhead
    <3>2. eids'[i].prefixes = eids[m].prefixes /\ UNCHANGED prefixLoop
      BY <1>2, <2>2
    <3> QED  BY <3>1, <3>2, PrefixAheadStays
  <2> QED  BY <1>2, <2>1, <2>2 DEF EidAhead
<1>3. CASE UNCHANGED <<eids, eidLoop, prefixLoop>>
  <2>1. ASSUME NEW i \in 1..Len(eids'), eids'[i].name = o[1]
        PROVE  EidAhead(i, o[2], o[3])'
    BY <1>2, <1>3, <2>1
  <2> QED  BY <2>1 DEF Ahead
<1>4. ASSUME NEW eid \in Eid, AppendsEid(eid) PROVE Ahead(o)'
  <2>1. /\ eids' = Append(eids, eid) /\ UNCHANGED <<eidLoop, prefixLoop>>
        /\ \A i \in 1..Len(eids) : eids[i].name # eid.name
    BY <1>4 DEF AppendsEid
  <2>2. /\ Len(eids') = Len(eids) + 1
        /\ \A i \in 1..Len(eids) : eids'[i] = eids[i]
        /\ eids'[Len(eids) + 1] = eid
    BY <1>1, <2>1, AppendedElement
  <2>3. ASSUME NEW i \in 1..Len(eids'), eids'[i].name = o[1]
        PROVE  EidAhead(i, o[2], o[3])'
    <3>1. i \in 1..Len(eids)
      BY <1>1, <2>1, <2>2, <2>3, SMTT(30)
    <3> QED  BY <1>2, <2>1, <2>2, <2>3, <3>1
  <2> QED  BY <2>3 DEF Ahead
<1>5. ASSUME NEW k \in 1..Len(eids), RemovesEid(k) PROVE Ahead(o)'
  <2>1. /\ eids' = RemoveAt(eids, k) /\ eidLoop' = Unlinked(eidLoop, eids, k)
        /\ UNCHANGED prefixLoop
    BY <1>5 DEF RemovesEid
  <2>2. /\ Len(eids') = Len(eids) - 1
        /\ \A i \in 1..Len(eids) - 1 : eids'[i] = IF i < k THEN eids[i] ELSE eids[i + 1]
    BY <1>1, <2>1, RemovedAt
  <2>3. \A i \in 1..Len(eids) - 1 :
          LET was == IF i < k THEN i ELSE i + 1
          IN /\ Coming(eidLoop, was) => Coming(Unlinked(eidLoop, eids, k), i)
             /\ IsAt(Unlinked(eidLoop, eids, k), i) => IsAt(eidLoop, was)
    BY <1>1, LoopUnlinked
  <2>4. ASSUME NEW i \in 1..Len(eids'), eids'[i].name = o[1]
        PROVE  EidAhead(i, o[2], o[3])'
    <3>1. PICK was \in 1..Len(eids) : was = IF i < k THEN i ELSE i + 1
      BY <1>1, <2>2
    <3>2. i \in 1..Len(eids) - 1
      BY <2>2
    <3>3. eids'[i] = eids[was] /\ eids[was].name = o[1]
      BY <2>2, <2>4, <3>1, <3>2
    <3>4. /\ Coming(eidLoop, was) => Coming(eidLoop', i)
          /\ IsAt(eidLoop', i) => IsAt(eidLoop, was) /\ UNCHANGED prefixLoop
      BY <2>1, <2>3, <3>1, <3>2
    <3> QED  BY <1>2, <3>3, <3>4
  <2> QED  BY <2>4 DEF Ahead
<1>6. ASSUME NEW k \in 1..Len(eids), NEW eid \in Eid, ChangesEid(k, eid) PROVE Ahead(o)'
  <2>1. /\ eids' = [eids EXCEPT ![k] = eid] /\ UNCHANGED eidLoop /\ eid.name = eids[k].name
    BY <1>6 DEF ChangesEid
  <2>2. /\ Len(eids') = Len(eids)
        /\ \A i \in 1..Len(eids) : eids'[i] = IF i = k THEN eid ELSE eids[i]
    BY <1>1, <2>1
  <2>3. ASSUME NEW i \in 1..Len(eids'), eids'[i].name = o[1]
        PROVE  EidAhead(i, o[2], o[3])'
    <3>1. CASE i # k
      <4>1. IsAt(eidLoop', i) => IsAt(eidLoop, i) /\ UNCHANGED prefixLoop
        BY <1>6, <2>1, <3>1
           DEF IsAt, StandsAt, ChangesEid, KeepsPrefixes, AddsPrefix, DropsPrefix
      <4>2. eids'[i] = eids[i] /\ i \in 1..Len(eids) /\ eids[i].name = o[1]
        BY <2>2, <2>3, <3>1
      <4> QED  BY <1>2, <2>1, <4>1, <4>2
    <3>2. CASE i = k
      <4>1. eids[k].name = o[1]
        BY <2>1, <2>2, <2>3, <3>2
      <4>2. o[2] \in ToSet(eids[k].prefixes)
        BY <4>1 DEF EidInv, EidList
      <4>3. EidAhead(k, o[2], o[3])
        BY <4>1 DEF Ahead
      <4>4. ASSUME IsAt(eidLoop, k), level \in {"prefix", "server"}
            PROVE  PrefixAhead(k, o[2], o[3])'
        <5>1. PICK p \in ToSet(eids[k].prefixes) : p = o[2]
          BY <4>2
        <5>2. PrefixAhead(k, p, o[3])
          BY <4>3, <4>4, <5>1 DEF EidAhead
        <5>3. PrefixAhead(k, p, o[3])'
          BY <1>6, <4>4, <5>2, PrefixAheadChanged
        <5> QED  BY <5>1, <5>3
      <4> QED  BY <2>1, <3>2, <4>3, <4>4 DEF EidAhead
    <3> QED  BY <3>1, <3>2
  <2> QED  BY <2>3 DEF Ahead
<1> QED  BY <1>3, <1>4, <1>5, <1>6 DEF EidChange

\* A command keeps what is owed and still due ahead.
LEMMA SweepCommand ==
  ASSUME ConfigInv, SweepInv, Command
  PROVE  SweepInv'
<1>1. EidInv /\ ListsInv /\ LoopInv
  BY DEF ConfigInv
<1>2. EidInv' /\ EidChange /\ ServerChange /\ Answers
  BY <1>1, CommandStep DEF EidStep, NoServer, ServerChange
<1>3. UNCHANGED level /\ UNCHANGED done /\ owed' = owed \cap Due'
  BY <1>2 DEF Answers
<1>4. ASSUME NEW o \in owed PROVE Ahead(o)'
  <2>1. o \in Due /\ Ahead(o)
    BY DEF SweepInv
  <2>2. /\ \E i \in 1..Len(eids) :
             eids[i].name = o[1] /\ \E j \in 1..Len(eids[i].prefixes) : eids[i].prefixes[j] = o[2]
        /\ \E k \in 1..Len(mapsrvs) : mapsrvs[k].addr = o[3]
    BY <1>1, <2>1, DueParts
  <2>3. \E i \in 1..Len(eids) : eids[i].name = o[1] /\ o[2] \in ToSet(eids[i].prefixes)
    <3>1. PICK i \in 1..Len(eids) :
            eids[i].name = o[1] /\ \E j \in 1..Len(eids[i].prefixes) : eids[i].prefixes[j] = o[2]
      BY <2>2
    <3>2. eids[i].prefixes \in Seq(EidPrefix)
      BY <1>1, EidParts
    <3> QED  BY <3>1, <3>2, Members
  <2>4. ServerAhead(o[3]) => ServerAhead(o[3])'
    BY <1>1, <1>2, <1>3, <2>2, ServerAheadStays
  <2> QED  BY <1>1, <1>2, <1>3, <2>1, <2>3, <2>4, EidAheadStays
<1> QED  BY <1>3, <1>4 DEF SweepInv

\* A step of the thread that stays with the loop over the EIDs.
LEMMA EidAheadKept ==
  ASSUME UNCHANGED <<config, eidLoop>>, NEW o, Ahead(o),
         ASSUME NEW i \in 1..Len(eids), eids[i].name = o[1], IsAt(eidLoop, i)
         PROVE  /\ ~(level' = "eid" /\ done')
                /\ level' \in {"prefix", "server"} => PrefixAhead(i, o[2], o[3])'
  PROVE  Ahead(o)'
<1>1. UNCHANGED <<eids, eidLoop>>
  BY DEF config
<1>2. ASSUME NEW i \in 1..Len(eids), eids[i].name = o[1]
      PROVE  EidAhead(i, o[2], o[3])'
  <2>1. Coming(eidLoop, i)
    BY <1>2 DEF Ahead, EidAhead
  <2> QED  BY <1>1, <1>2, <2>1 DEF EidAhead
<1> QED  BY <1>1, <1>2 DEF Ahead

\* The thread keeps ahead what it still owes.
LEMMA SweepRegister ==
  ASSUME ConfigInv, SweepInv, Register
  PROVE  SweepInv'
<1>1. EidInv /\ ListsInv /\ LoopInv
  BY DEF ConfigInv
<1>2. UNCHANGED <<config, unreachable>> /\ UNCHANGED <<eids, mapsrvs>>
  BY RegisterLists DEF config
<1>3. Due' = Due
  BY <1>2 DEF Due, Listed
<1>4. /\ eids \in Seq(Eid) /\ LoopOver(eidLoop, eids, Eid) /\ Len(eids) \in Nat
      /\ mapsrvs \in Seq(ServerEntry) /\ LoopOver(serverLoop, mapsrvs, ServerEntry)
  BY <1>1 DEF EidInv, EidList, ListsInv, LoopInv
<1>5. ASSUME NEW i \in 1..Len(eids), IsAt(eidLoop, i)
      PROVE  ThisEid = eids[i] /\ eids[i].prefixes \in Seq(EidPrefix)
  BY <1>1, <1>5, EidParts DEF IsAt, ThisEid, Standing
<1>6. ASSUME NEW j, IsAt(prefixLoop, j) PROVE ThisPrefix = ThisEid.prefixes[j]
  BY <1>6 DEF IsAt, ThisPrefix, Standing
<1>7. ASSUME NEW o \in owed
      PROVE  /\ o \in Due /\ Ahead(o) /\ o = <<o[1], o[2], o[3]>>
             /\ \E i \in 1..Len(eids) :
                  eids[i].name = o[1] /\ \E j \in 1..Len(eids[i].prefixes) : eids[i].prefixes[j] = o[2]
             /\ \E k \in 1..Len(mapsrvs) : mapsrvs[k].addr = o[3]
  <2>1. o \in Due /\ Ahead(o)
    BY DEF SweepInv
  <2> QED  BY <1>1, <2>1, DueParts
<1>8. ASSUME NEW o \in owed, NEW i \in 1..Len(eids), eids[i].name = o[1], IsAt(eidLoop, i)
      PROVE  /\ ~(level = "eid" /\ done)
             /\ level \in {"prefix", "server"} => PrefixAhead(i, o[2], o[3])
             /\ \E j \in 1..Len(eids[i].prefixes) : eids[i].prefixes[j] = o[2]
  <2>1. EidAhead(i, o[2], o[3])
    BY <1>7, <1>8 DEF Ahead
  <2>2. PICK m \in 1..Len(eids) :
          eids[m].name = o[1] /\ \E j \in 1..Len(eids[m].prefixes) : eids[m].prefixes[j] = o[2]
    BY <1>7
  <2>3. m = i
    BY <1>1, <1>8, <2>2 DEF EidInv, EidList
  <2> QED  BY <1>8, <2>1, <2>2, <2>3 DEF EidAhead
<1>9. CASE WakeUp
  <2>1. level' = "eid" /\ done' = FALSE /\ eidLoop' = Begin(eids) /\ owed' = Due
    BY <1>9 DEF WakeUp, Goes
  <2>2. \A i \in 1..Len(eids) : Coming(Begin(eids), i)
    BY <1>4, LoopBegins
  <2>3. ASSUME NEW o PROVE Ahead(o)'
    BY <1>2, <2>1, <2>2 DEF Ahead, EidAhead
  <2> QED  BY <1>3, <2>1, <2>3 DEF SweepInv
<1>10. CASE RegisterEid
  <2>1. /\ UNCHANGED <<config, eidLoop>> /\ owed' = owed
        /\ \/ mapsrvs = <<>>
           \/ level' = "prefix" /\ done' = FALSE /\ prefixLoop' = Begin(ThisEid.prefixes)
    BY <1>2, <1>10 DEF RegisterEid, Goes
  <2>2. ASSUME NEW o \in owed PROVE Ahead(o)'
    <3>1. mapsrvs # <<>>
      BY <1>7
    <3>2. level' = "prefix" /\ done' = FALSE /\ prefixLoop' = Begin(ThisEid.prefixes)
      BY <2>1, <3>1
    <3>3. ASSUME NEW i \in 1..Len(eids), eids[i].name = o[1], IsAt(eidLoop, i)
          PROVE  PrefixAhead(i, o[2], o[3])'
      <4>1. ThisEid = eids[i] /\ eids[i].prefixes \in Seq(EidPrefix)
        BY <1>5, <3>3
      <4>2. \A j \in 1..Len(eids[i].prefixes) : Coming(Begin(eids[i].prefixes), j)
        BY <4>1, LoopBegins
      <4> QED  BY <1>2, <3>2, <4>1, <4>2 DEF PrefixAhead
    <3> QED  BY <1>7, <2>1, <3>2, <3>3, EidAheadKept
  <2> QED  BY <1>3, <1>7, <2>1, <2>2 DEF SweepInv
<1>11. CASE BuildRegister
  <2>1. /\ UNCHANGED <<config, eidLoop>> /\ UNCHANGED prefixLoop /\ owed' = owed
        /\ level = "prefix" /\ ~done /\ level' = "server" /\ done' = FALSE
        /\ serverLoop' = Begin(mapsrvs)
    BY <1>2, <1>11 DEF BuildRegister, Goes
  <2>2. \A k \in 1..Len(mapsrvs) : Coming(Begin(mapsrvs), k)
    BY <1>4, LoopBegins
  <2>3. \A s : ServerAhead(s)'
    BY <1>2, <2>1, <2>2 DEF ServerAhead
  <2>4. ASSUME NEW o \in owed PROVE Ahead(o)'
    <3>1. ASSUME NEW i \in 1..Len(eids), eids[i].name = o[1], IsAt(eidLoop, i)
          PROVE  PrefixAhead(i, o[2], o[3])'
      <4>1. PrefixAhead(i, o[2], o[3])
        BY <1>8, <2>1, <3>1
      <4> QED  BY <1>2, <2>1, <2>3, <4>1 DEF PrefixAhead
    <3> QED  BY <1>7, <2>1, <3>1, EidAheadKept
  <2> QED  BY <1>3, <1>7, <2>1, <2>4 DEF SweepInv
<1>12. CASE SendRegister
  <2>1. /\ UNCHANGED <<config, eidLoop>> /\ UNCHANGED <<prefixLoop, serverLoop>>
        /\ owed' = owed \ {<<ThisEid.name, buf.prefix, ThisServer>>}
        /\ level = "server" /\ ~done /\ level' = "server" /\ done' = TRUE
    BY <1>2, <1>12 DEF SendRegister, Goes, loops
  <2>2. buf.prefix = ThisPrefix
    BY <1>1, <2>1 DEF LoopInv
  <2>3. ASSUME NEW o \in owed' PROVE Ahead(o)'
    <3>1. o \in owed /\ o # <<ThisEid.name, buf.prefix, ThisServer>>
      BY <2>1
    <3>2. ASSUME NEW i \in 1..Len(eids), eids[i].name = o[1], IsAt(eidLoop, i)
          PROVE  PrefixAhead(i, o[2], o[3])'
      <4>1. PrefixAhead(i, o[2], o[3])
        BY <1>8, <2>1, <3>1, <3>2
      <4>2. ThisEid = eids[i]
        BY <1>5, <3>2
      <4>3. ASSUME NEW j \in 1..Len(eids[i].prefixes), eids[i].prefixes[j] = o[2],
                   IsAt(prefixLoop, j)
            PROVE  ServerAhead(o[3])'
        <5>1. ServerAhead(o[3])
          BY <2>1, <4>1, <4>3 DEF PrefixAhead
        <5>2. buf.prefix = o[2] /\ ThisEid.name = o[1]
          BY <1>6, <2>2, <3>2, <4>2, <4>3
        <5>3. o[3] # ThisServer
          BY <1>7, <3>1, <5>2
        <5>4. \A k : IsAt(serverLoop, k) => ThisServer = mapsrvs[k].addr
          BY DEF IsAt, ThisServer, Standing
        <5> QED  BY <1>2, <2>1, <5>1, <5>3, <5>4 DEF ServerAhead
      <4> QED  BY <1>2, <2>1, <4>1, <4>3 DEF PrefixAhead
    <3> QED  BY <1>7, <2>1, <3>1, <3>2, EidAheadKept
  <2> QED  BY <1>3, <1>7, <2>1, <2>3 DEF SweepInv
<1>13. CASE SendFails
  <2>1. /\ UNCHANGED <<config, eidLoop>> /\ owed' = {o \in owed : o[1] # ThisEid.name}
        /\ level' = "eid"
    BY <1>2, <1>13 DEF SendFails, Goes
  <2>2. ASSUME NEW o \in owed' PROVE Ahead(o)'
    <3>1. o \in owed /\ o[1] # ThisEid.name
      BY <2>1
    <3>2. \A i \in 1..Len(eids) : eids[i].name = o[1] => ~IsAt(eidLoop, i)
      BY <1>5, <3>1
    <3> QED  BY <1>7, <2>1, <3>1, <3>2, EidAheadKept
  <2> QED  BY <1>3, <1>7, <2>1, <2>2 DEF SweepInv
<1>14. CASE NextServer
  <2>1. /\ UNCHANGED <<config, eidLoop>> /\ UNCHANGED prefixLoop /\ owed' = owed
        /\ level = "server" /\ done /\ level' = "server" /\ done' = FALSE
        /\ serverLoop' = Moved(serverLoop, mapsrvs)
    BY <1>2, <1>14 DEF NextServer, Goes
  <2>2. serverLoop # Over
    BY <1>1, <2>1 DEF LoopInv
  <2>3. \A k \in 1..Len(mapsrvs) :
          Coming(serverLoop, k) /\ ~IsAt(serverLoop, k) => Coming(serverLoop', k)
    BY <1>4, <2>1, <2>2, LoopMoves
  <2>4. \A s : ServerAhead(s) => ServerAhead(s)'
    BY <1>2, <2>1, <2>3 DEF ServerAhead
  <2>5. ASSUME NEW o \in owed PROVE Ahead(o)'
    <3>1. ASSUME NEW i \in 1..Len(eids), eids[i].name = o[1], IsAt(eidLoop, i)
          PROVE  PrefixAhead(i, o[2], o[3])'
      <4>1. PrefixAhead(i, o[2], o[3])
        BY <1>8, <2>1, <3>1
      <4> QED  BY <1>2, <2>1, <2>4, <4>1 DEF PrefixAhead
    <3> QED  BY <1>7, <2>1, <3>1, EidAheadKept
  <2> QED  BY <1>3, <1>7, <2>1, <2>5 DEF SweepInv
<1>15. CASE LastServer
  <2>1. /\ UNCHANGED <<config, eidLoop>> /\ UNCHANGED prefixLoop /\ owed' = owed
        /\ level = "server" /\ level' = "prefix" /\ serverLoop = Over
    BY <1>2, <1>15 DEF LastServer, Goes, loops
  <2>2. ASSUME NEW o \in owed PROVE Ahead(o)'
    <3>1. ~ServerAhead(o[3])
      BY <1>7, <2>1, NothingComes DEF ServerAhead
    <3>2. ASSUME NEW i \in 1..Len(eids), eids[i].name = o[1], IsAt(eidLoop, i)
          PROVE  PrefixAhead(i, o[2], o[3])'
      <4>1. PrefixAhead(i, o[2], o[3])
        BY <1>8, <2>1, <3>2
      <4> QED  BY <1>2, <2>1, <3>1, <4>1 DEF PrefixAhead
    <3> QED  BY <1>7, <2>1, <3>2, EidAheadKept
  <2> QED  BY <1>3, <1>7, <2>1, <2>2 DEF SweepInv
<1>16. CASE NextPrefix
  <2>1. /\ UNCHANGED <<config, eidLoop>> /\ owed' = owed
        /\ level = "prefix" /\ done /\ level' = "prefix" /\ done' = FALSE
        /\ prefixLoop' = Moved(prefixLoop, ThisEid.prefixes)
    BY <1>2, <1>16 DEF NextPrefix, Goes
  <2>2. prefixLoop # Over /\ LoopOver(prefixLoop, ThisEid.prefixes, EidPrefix)
    BY <1>1, <2>1 DEF LoopInv
  <2>3. ASSUME NEW o \in owed PROVE Ahead(o)'
    <3>1. ASSUME NEW i \in 1..Len(eids), eids[i].name = o[1], IsAt(eidLoop, i)
          PROVE  PrefixAhead(i, o[2], o[3])'
      <4>1. PrefixAhead(i, o[2], o[3])
        BY <1>8, <2>1, <3>1
      <4>2. ThisEid = eids[i] /\ eids[i].prefixes \in Seq(EidPrefix)
        BY <1>5, <3>1
      <4>3. \A j \in 1..Len(eids[i].prefixes) :
              Coming(prefixLoop, j) /\ ~IsAt(prefixLoop, j) => Coming(prefixLoop', j)
        BY <2>1, <2>2, <4>2, LoopMoves
      <4> QED  BY <1>2, <2>1, <4>1, <4>3 DEF PrefixAhead
    <3> QED  BY <1>7, <2>1, <3>1, EidAheadKept
  <2> QED  BY <1>3, <1>7, <2>1, <2>3 DEF SweepInv
<1>17. CASE LastPrefix
  <2>1. /\ UNCHANGED <<config, eidLoop>> /\ owed' = owed
        /\ level = "prefix" /\ level' = "eid" /\ prefixLoop = Over
    BY <1>2, <1>17 DEF LastPrefix, Goes, loops
  <2>2. ASSUME NEW o \in owed PROVE Ahead(o)'
    <3>1. \A i \in 1..Len(eids) : eids[i].name = o[1] => ~IsAt(eidLoop, i)
      BY <1>8, <2>1, NothingComes DEF PrefixAhead
    <3> QED  BY <1>7, <2>1, <3>1, EidAheadKept
  <2> QED  BY <1>3, <1>7, <2>1, <2>2 DEF SweepInv
<1>18. CASE NextEid
  <2>1. /\ owed' = owed /\ level = "eid" /\ done /\ level' = "eid" /\ done' = FALSE
        /\ eidLoop' = Moved(eidLoop, eids)
    BY <1>18 DEF NextEid, Goes
  <2>2. eidLoop # Over
    BY <1>1, <2>1 DEF LoopInv
  <2>3. \A i \in 1..Len(eids) : Coming(eidLoop, i) /\ ~IsAt(eidLoop, i) => Coming(eidLoop', i)
    BY <1>4, <2>1, <2>2, LoopMoves
  <2>4. ASSUME NEW o \in owed PROVE Ahead(o)'
    <3>1. \A i \in 1..Len(eids) : eids[i].name = o[1] => Coming(eidLoop', i)
      BY <1>7, <2>1, <2>3 DEF Ahead, EidAhead
    <3> QED  BY <1>2, <2>1, <3>1 DEF Ahead, EidAhead
  <2> QED  BY <1>3, <1>7, <2>1, <2>4 DEF SweepInv
<1>19. CASE LastEid
  <2>1. owed' = owed /\ eidLoop = Over
    BY <1>19 DEF LastEid
  <2>2. owed = {}
    BY <1>7, <2>1, NothingComes DEF Ahead, EidAhead
  <2> QED  BY <2>1, <2>2 DEF SweepInv
<1> QED  BY <1>9, <1>10, <1>11, <1>12, <1>13, <1>14, <1>15, <1>16, <1>17, <1>18, <1>19
         DEF Register

\* Each step keeps ahead what is owed.
LEMMA SweepStep ==
  ASSUME ConfigInv, SweepInv, [Next]_vars
  PROVE  SweepInv'
<1>1. CASE Command
  BY <1>1, SweepCommand
<1>2. CASE Register
  BY <1>2, SweepRegister
<1>3. CASE Network \/ UNCHANGED vars
  <2>1. UNCHANGED <<eids, mapsrvs, level, done, eidLoop, prefixLoop, serverLoop, owed>>
    BY <1>3 DEF Network, vars, config, loops
  <2>2. Due' = Due
    BY <2>1 DEF Due, Listed
  <2>3. \A s : ServerAhead(s)' <=> ServerAhead(s)
    BY <2>1 DEF ServerAhead
  <2>4. \A i, p, s : PrefixAhead(i, p, s)' <=> PrefixAhead(i, p, s)
    BY <2>1, <2>3 DEF PrefixAhead
  <2>5. \A i, p, s : EidAhead(i, p, s)' <=> EidAhead(i, p, s)
    BY <2>1, <2>4 DEF EidAhead
  <2>6. \A o : Ahead(o)' <=> Ahead(o)
    BY <2>1, <2>5 DEF Ahead
  <2> QED  BY <2>1, <2>2, <2>6 DEF SweepInv
<1> QED  BY <1>1, <1>2, <1>3 DEF Next, Undefined

\* A pass over the EIDs, their prefixes and the map servers ends with everything
\* registered that was configured from its start to its end, in spite of the
\* operator's deletions under the loops: a node that is taken out still leads to those
\* that follow (lisp_map_register_thread in instance.c, send_map_register in map.c).
THEOREM SweepComplete == Spec => []SweepRegistersAll
<1>1. Init => SweepInv
  BY DEF Init, SweepInv
<1>2. ConfigInv /\ SweepInv /\ [Next]_vars => SweepInv'
  BY SweepStep
<1>3. ConfigInv /\ SweepInv => SweepRegistersAll
  <2>1. SUFFICES ASSUME ConfigInv, SweepInv, level = "asleep", NEW o \in owed
                 PROVE  FALSE
    BY DEF SweepRegistersAll
  <2>2. EidInv /\ ListsInv /\ eidLoop = Over
    BY <2>1 DEF ConfigInv, LoopInv
  <2>3. o \in Due /\ Ahead(o)
    BY <2>1 DEF SweepInv
  <2>4. PICK i \in 1..Len(eids) : eids[i].name = o[1]
    BY <2>2, <2>3, DueParts
  <2> QED  BY <2>2, <2>3, <2>4, NothingComes DEF Ahead, EidAhead
<1> QED  BY <1>1, <1>2, <1>3, ConfigHolds, PTL DEF Spec

===============================================================================
