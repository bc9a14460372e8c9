--------------------------- MODULE DataPlane_proofs ---------------------------
(***************************************************************************)
(* Proofs about the data plane: what a packet in lisp0 looks like, what    *)
(* the kernel makes of a destination, and that no packet for an entry in   *)
(* use slips past the tunnel.                                              *)
(***************************************************************************)
EXTENDS DataPlane, PrefixTheorems

\* A cell of any packet, and a packet in lisp0's queue.
Cell == [kind : {"ip", "lisp", "data", "junk"}, to : Address \cup {<<>>}, len : Nat]
InTransit == [cells : Seq(Cell), passes : Nat]

-----------------------------------------------------------------------------
(* The table: an entry in use has asked for its route, and a prefix that   *)
(* has been routed has had an entry in use.                                *)

TableInv ==
  /\ state \in [Prefix -> Cache!State]
  /\ loc \in [Prefix -> Locator \cup {NoLocator}]
  /\ \A p \in Prefix : state[p] \in InUse <=> loc[p] # NoLocator
  /\ Used \subseteq routes
  /\ routes \subseteq served
  /\ routes \subseteq Prefix

\* The cache and the kernel match alike.
LEMMA SameMatch ==
  ASSUME NEW T, NEW p
  PROVE  /\ Cache!Covering(T, p) = Covering(T, p)
         /\ Cache!LongestMatch(T, p) = LongestMatch(T, p)
BY DEF Cache!Covering, Covering, Cache!LongestMatch, LongestMatch, Cache!Covers, Covers,
       Cache!IsPrefix, IsPrefix

\* A prefix that nothing covers has no entry itself.
LEMMA UncoveredHasNoEntry ==
  ASSUME NEW p \in Prefix, Covering(Cache!Entries, p) = {}
  PROVE  state[p] = "none"
<1>1. Covers(p, p)
  BY CoversReflexive, AddressAssumption DEF Bit
<1> QED  BY <1>1 DEF Covering, Cache!Entries

\* What the operator's removal finds for a prefix with an entry is that entry.
LEMMA FindsItsOwn ==
  ASSUME NEW p \in Prefix, state[p] # "none"
  PROVE  LongestMatch(Cache!Entries, p) = p
<1>1. Cache!Entries \in SUBSET Seq(Bit) /\ p \in Cache!Entries
  BY AddressAssumption DEF Bit, Cache!Entries
<1> QED  BY <1>1, LongestMatchSelf

\* The table's calls keep it so (maptable.c).
LEMMA TableKeeps ==
  ASSUME TableInv, Table
  PROVE  TableInv'
<1>1. served' = served \cup Used'
  BY DEF Table, Unchanged
<1> USE DEF TableInv, Used, InUse, Cache!State, Cache!EntryState
<1>2. CASE \E h \in Host : Watch(h)
  <2>1. PICK h \in Host : Cache!Query(h) /\ Kept
    BY <1>2 DEF Watch
  <2>2. h \in Prefix /\ state[h] = "none"
    BY <2>1, SameMatch, AddressAssumption, UncoveredHasNoEntry DEF Cache!Query
  <2>3. /\ state' = [state EXCEPT ![h] = "queried"]
        /\ routes' = routes
    BY <2>1 DEF Cache!Query
  <2>4. loc' = [p \in Prefix |-> IF state'[p] \in InUse THEN loc[p] ELSE NoLocator]
    BY <2>1 DEF Kept
  <2>5. Used' = Used
    BY <2>2, <2>3
  <2>6. state' \in [Prefix -> Cache!State]
    BY <2>2, <2>3
  <2>7. loc' \in [Prefix -> Locator \cup {NoLocator}]
    BY <2>4
  <2>8. \A p \in Prefix : state'[p] \in InUse <=> loc'[p] # NoLocator
    BY <2>2, <2>3, <2>4
  <2> QED  BY <1>1, <2>3, <2>5, <2>6, <2>7, <2>8
<1>3. ASSUME NEW p \in Prefix, NEW l \in Locator, Cache!Learn(p) \/ Cache!Install(p),
             Located(p, l)
      PROVE  TableInv'
  BY <1>1, <1>3, AddressAssumption DEF Cache!Learn, Cache!Install, Located
<1>4. ASSUME NEW p \in Prefix, Cache!Deny(p, "negative"), Kept
      PROVE  TableInv'
  BY <1>1, <1>4, AddressAssumption DEF Cache!Deny, Kept
<1>5. ASSUME NEW p \in Prefix, Cache!Uninstall(p), Kept
      PROVE  TableInv'
  <2> DEFINE q == LongestMatch(Cache!Entries, p)
  <2>1. /\ state' = [state EXCEPT ![q] = "none"]
        /\ routes' = routes \ {p}
    BY <1>5, SameMatch DEF Cache!Uninstall
  <2>2. state[p] # "none" => q = p
    BY FindsItsOwn
  <2> HIDE DEF q
  <2>3. state'[p] \notin InUse
    BY <2>1, <2>2
  <2>4. Used' \subseteq Used
    BY <2>1
  <2>5. loc' = [x \in Prefix |-> IF state'[x] \in InUse THEN loc[x] ELSE NoLocator]
    BY <1>5 DEF Kept
  <2>6. state' \in [Prefix -> Cache!State]
    BY <2>1
  <2>7. loc' \in [Prefix -> Locator \cup {NoLocator}]
    BY <2>5
  <2>8. \A x \in Prefix : state'[x] \in InUse <=> loc'[x] # NoLocator
    BY <2>1, <2>5
  <2> QED  BY <1>1, <2>1, <2>3, <2>4, <2>6, <2>7, <2>8
<1>6. ASSUME NEW p \in Prefix, Cache!Age({p}), Kept
      PROVE  TableInv'
  BY <1>1, <1>6, AddressAssumption DEF Cache!Age, Kept
<1> QED  BY <1>2, <1>3, <1>4, <1>5, <1>6 DEF Table

-----------------------------------------------------------------------------
(* The kernel's answer.                                                    *)

ForeignInv ==
  /\ DOMAIN foreign \subseteq Prefix \cup {<<>>}
  /\ foreign \in [DOMAIN foreign -> {"gateway", "link"}]

\* Every prefix the kernel has a route for is one.
LEMMA RoutesArePrefixes ==
  ASSUME TableInv, ForeignInv
  PROVE  ToLisp0 \cup DOMAIN foreign \in SUBSET Seq(Bit)
<1>1. Prefix \subseteq Seq(Bit)
  BY AddressAssumption DEF Bit
<1>2. <<>> \in Seq(Bit)
  OBVIOUS
<1>3. ToLisp0 \subseteq Seq(Bit)
  BY <1>1 DEF TableInv, ToLisp0
<1>4. DOMAIN foreign \subseteq Seq(Bit)
  BY <1>1, <1>2 DEF ForeignInv
<1> QED  BY <1>3, <1>4

\* What does not go to lisp0, though an entry in use covers it, has a route of
\* the kernel's own that is at least as long.
LEMMA NotThroughLisp0 ==
  ASSUME TableInv, ForeignInv, NEW d \in Address, NextHop(d) # "lisp0",
         NEW p \in Covering(Used, d)
  PROVE  \E q \in Covering(DOMAIN foreign, d) : Len(q) >= Len(p)
<1> DEFINE known == ToLisp0 \cup DOMAIN foreign
           m == LongestMatch(known, d)
<1>1. known \in SUBSET Seq(Bit) /\ d \in Seq(Bit)
  BY RoutesArePrefixes, AddressAssumption DEF Bit
<1>2. p \in known /\ p \in Covering(known, d)
  BY DEF TableInv, Covering, ToLisp0
<1>3. m \in Covering(known, d) /\ Len(p) <= Len(m)
  BY <1>1, <1>2, LongestMatchCovers
<1>4. m \notin ToLisp0
  BY <1>2 DEF NextHop
<1>5. m \in Covering(DOMAIN foreign, d)
  BY <1>3, <1>4 DEF Covering
<1>6. Len(p) \in Nat /\ Len(m) \in Nat
  BY <1>1, <1>2, <1>3 DEF Covering
<1> QED  BY <1>3, <1>5, <1>6

\* What goes to lisp0 is under a prefix that has had an entry in use.
LEMMA ThroughLisp0 ==
  ASSUME TableInv, ForeignInv, NEW d \in Address, NextHop(d) = "lisp0"
  PROVE  Covering(served, d) # {}
<1> DEFINE known == ToLisp0 \cup DOMAIN foreign
           m == LongestMatch(known, d)
<1>1. known \in SUBSET Seq(Bit) /\ d \in Seq(Bit)
  BY RoutesArePrefixes, AddressAssumption DEF Bit
<1>2. Covering(known, d) # {}
  BY DEF NextHop
<1>3. m \in Covering(known, d)
  BY <1>1, <1>2, LongestMatchCovers
<1>4. m \in ToLisp0
  <2>1. SUFFICES ASSUME m \notin ToLisp0 PROVE FALSE
    OBVIOUS
  <2>2. NextHop(d) = foreign[m]
    BY <1>2, <2>1 DEF NextHop
  <2>3. m \in DOMAIN foreign
    BY <1>3, <2>1 DEF Covering
  <2> QED  BY <2>2, <2>3 DEF ForeignInv
<1>5. m \in served /\ Covers(m, d)
  BY <1>3, <1>4 DEF TableInv, ToLisp0, Covering
<1> QED  BY <1>5 DEF Covering

-----------------------------------------------------------------------------
(* Packets.                                                                *)

\* A whole packet of n cells to d, as the IP header says.
Whole(cells, n) ==
  /\ cells \in Seq(Cell) /\ Len(cells) = n /\ n \in Nat \ {0}
  /\ cells[1].to \in Address /\ cells[1].len = n

\* What hosts send is whole.
LEMMA PacketIsWhole ==
  ASSUME NEW d \in Address, NEW n \in 1..MaxLen
  PROVE  Whole(Packet(d, n), n) /\ To(Packet(d, n)) = d
<1> DEFINE rest == [i \in 1..n - 1 |-> Data(d)]
<1>1. n \in Nat \ {0} /\ n - 1 \in Nat
  BY BoundAssumption
<1>2. Ip(d, n) \in Cell /\ Data(d) \in Cell
  BY <1>1 DEF Ip, Data, Cell
<1>3. rest \in Seq(Cell) /\ Len(rest) = n - 1
  BY <1>1, <1>2
<1> HIDE DEF rest
<1>4. /\ <<Ip(d, n)>> \o rest \in Seq(Cell)
      /\ Len(<<Ip(d, n)>> \o rest) = n
      /\ (<<Ip(d, n)>> \o rest)[1] = Ip(d, n)
  BY <1>1, <1>2, <1>3
<1>5. Packet(d, n) = <<Ip(d, n)>> \o rest
  BY DEF Packet, rest
<1> QED  BY <1>1, <1>4, <1>5 DEF Whole, To, Ip

\* Behind a LISP header lisp_dp_thread finds the packet, and none of what follows it.
LEMMA TrimmedIsWhole ==
  ASSUME NEW cells, NEW n, Whole(cells, n), NEW more \in Seq(Cell)
  PROVE  Trimmed(cells \o more) = cells
<1>1. /\ cells \in Seq(Cell) /\ Len(cells) = n /\ n \in Nat \ {0}
      /\ cells[1].len = n
  BY DEF Whole
<1>2. /\ cells \o more # <<>>
      /\ Len(cells \o more) >= n
      /\ (cells \o more)[1] = cells[1]
      /\ SubSeq(cells \o more, 1, n) = cells
  BY <1>1
<1> QED  BY <1>1, <1>2 DEF Trimmed

\* A payload lisp_dp_thread takes has a whole packet of a host in it.
LEMMA ArrivingIsWhole ==
  ASSUME NEW payload \in Arriving, Unwrapped(payload) # Nothing
  PROVE  \E d \in Address, n \in 1..MaxLen : Unwrapped(payload) = Packet(d, n)
<1>1. CASE payload = <<>> \/ payload = <<Lisp>>
  BY <1>1 DEF Unwrapped, Trimmed, Nothing
<1>2. ASSUME NEW d \in Address, NEW n \in 1..MaxLen,
             payload = <<Lisp>> \o Packet(d, n) \o <<Junk>>
      PROVE  Unwrapped(payload) = Packet(d, n)
  <2>1. Whole(Packet(d, n), n)
    BY PacketIsWhole
  <2>2. Packet(d, n) \in Seq(Cell) /\ Lisp \in Cell /\ Junk \in Cell
    BY <2>1 DEF Whole, Lisp, Junk, Cell
  <2> DEFINE packet == Packet(d, n)
  <2> HIDE DEF packet
  <2>3. packet \in Seq(Cell)
    BY <2>2 DEF packet
  <2>4. payload # <<>> /\ Tail(payload) = packet \o <<Junk>>
    BY <1>2, <2>2, <2>3 DEF packet
  <2>5. <<Junk>> \in Seq(Cell)
    BY <2>2
  <2> QED  BY <2>1, <2>4, <2>5, TrimmedIsWhole DEF Unwrapped, packet
<1> QED  BY <1>1, <1>2 DEF Arriving

\* A buffer that holds a packet, and a cell of what was there before, is the packet
\* with that cell behind it.
LEMMA FilledStartsWith ==
  ASSUME buf \in [1..BufLen -> Cell], NEW cells, NEW n, Whole(cells, n), n < BufLen
  PROVE  /\ Filled(cells) \in [1..BufLen -> Cell]
         /\ SubSeq(Filled(cells), 1, n + 1) = cells \o <<buf[n + 1]>>
         /\ buf[n + 1] \in Cell
<1> DEFINE b == Filled(cells)
<1>1. /\ cells \in Seq(Cell) /\ Len(cells) = n /\ n \in Nat \ {0}
      /\ BufLen \in Nat /\ n + 1 \in 1..BufLen
  BY BoundAssumption DEF Whole
<1>2. b = [i \in 1..BufLen |-> IF i <= n THEN cells[i] ELSE buf[i]]
  BY <1>1 DEF Filled
<1> HIDE DEF b
<1>3. b \in [1..BufLen -> Cell]
  BY <1>1, <1>2
<1>4. b \in Seq(Cell) /\ Len(b) = BufLen
  BY <1>1, <1>3
<1>5. /\ SubSeq(b, 1, n + 1) \in Seq(Cell)
      /\ Len(SubSeq(b, 1, n + 1)) = n + 1
      /\ \A i \in 1..n + 1 : SubSeq(b, 1, n + 1)[i] = b[i]
  BY <1>1, <1>4
<1> DEFINE c == cells \o <<buf[n + 1]>>
<1>6. /\ c \in Seq(Cell) /\ Len(c) = n + 1
      /\ \A i \in 1..n : c[i] = cells[i]
      /\ c[n + 1] = buf[n + 1]
  BY <1>1
<1>7. \A i \in 1..n + 1 : SubSeq(b, 1, n + 1)[i] = c[i]
  <2> TAKE i \in 1..n + 1
  <2>1. b[i] = IF i <= n THEN cells[i] ELSE buf[i]
    BY <1>1, <1>2
  <2>2. CASE i <= n
    BY <1>1, <1>5, <1>6, <2>1, <2>2
  <2>3. CASE i = n + 1
    BY <1>1, <1>5, <1>6, <2>1, <2>3
  <2> QED  BY <1>1, <2>2, <2>3
<1> HIDE DEF c
<1>8. SubSeq(b, 1, n + 1) = c
  BY <1>5, <1>6, <1>7
<1> QED  BY <1>1, <1>3, <1>8 DEF b, c

\* What lisp_dp_tun_thread sends for a packet: three cells longer, marked as
\* wrapped, and with the whole packet in it for the router that unwraps it.
LEMMA WrappedIsWhole ==
  ASSUME buf \in [1..BufLen -> Cell], NEW cells, NEW n, Whole(cells, n), n < BufLen,
         NEW l \in Address, NEW w, w = Datagram(l, Wrapped(Filled(cells), n))
  PROVE  /\ Whole(w, n + 3)
         /\ To(w) = l
         /\ ~Plain(w)
         /\ Unwrapped(Tail(w)) = cells
<1> DEFINE more == <<buf[n + 1]>>
           inner == cells \o more
           payload == <<Lisp>> \o inner
<1>1. cells \in Seq(Cell) /\ Len(cells) = n /\ n \in Nat \ {0}
  BY DEF Whole
<1>2. buf[n + 1] \in Cell
  BY FilledStartsWith
<1>3. Wrapped(Filled(cells), n) = payload
  BY FilledStartsWith DEF Wrapped
<1>4. inner \in Seq(Cell) /\ Len(inner) = n + 1
  BY <1>1, <1>2
<1>5. Trimmed(inner) = cells
  <2>1. more \in Seq(Cell)
    BY <1>2
  <2> QED  BY <2>1, TrimmedIsWhole
<1> HIDE DEF inner
<1>6. Lisp \in Cell
  BY DEF Lisp, Cell
<1>7. /\ payload \in Seq(Cell) /\ Len(payload) = n + 2 /\ payload # <<>>
      /\ payload[1] = Lisp /\ Tail(payload) = inner
  BY <1>1, <1>4, <1>6
<1> HIDE DEF payload
<1>8. w = <<Ip(l, n + 3)>> \o payload
  BY <1>1, <1>3, <1>7 DEF Datagram
<1>9. Ip(l, n + 3) \in Cell
  BY <1>1 DEF Ip, Cell
<1>10. /\ w \in Seq(Cell) /\ Len(w) = n + 3
       /\ w[1] = Ip(l, n + 3) /\ w[2] = Lisp /\ Tail(w) = payload
  BY <1>1, <1>7, <1>8, <1>9
<1>11. Whole(w, n + 3) /\ To(w) = l
  BY <1>1, <1>10 DEF Whole, To, Ip
<1>12. ~Plain(w)
  BY <1>1, <1>10 DEF Plain
<1>13. Unwrapped(Tail(w)) = cells
  BY <1>5, <1>7, <1>10 DEF Unwrapped
<1> QED  BY <1>11, <1>12, <1>13

-----------------------------------------------------------------------------
(* The queue of lisp0.                                                     *)

\* A packet is whole, has grown by three cells each time it was wrapped, and is
\* wrapped if it has been through lisp0.
Fit(packet) ==
  /\ packet \in InTransit
  /\ Whole(packet.cells, Len(packet.cells))
  /\ Len(packet.cells) <= MaxLen + 3 * packet.passes
  /\ packet.passes > 0 => ~Plain(packet.cells)

\* In the queue it is only for a prefix that has been mapped, S the mapped ones.
Queued(packet, S) ==
  /\ Fit(packet)
  /\ packet.passes < MaxPasses
  /\ packet.passes > 0 => Covering(S, To(packet.cells)) # {}

QueueOf(queue, S) ==
  /\ queue \in Seq(InTransit)
  /\ \A i \in 1..Len(queue) : Queued(queue[i], S)

Inv ==
  /\ TableInv
  /\ ForeignInv
  /\ QueueOf(lisp0, served)
  /\ Len(lisp0) <= MaxQueue
  /\ buf \in [1..BufLen -> Cell]

\* What was mapped once stays so for the packets in the queue.
LEMMA QueueStays ==
  ASSUME NEW queue, NEW S, NEW R, QueueOf(queue, S), S \subseteq R
  PROVE  QueueOf(queue, R)
<1>1. ASSUME NEW d, Covering(S, d) # {}
      PROVE  Covering(R, d) # {}
  BY <1>1 DEF Covering
<1>2. ASSUME NEW packet, Queued(packet, S)
      PROVE  Queued(packet, R)
  BY <1>1, <1>2 DEF Queued
<1> QED  BY <1>2 DEF QueueOf

\* The kernel puts a packet that fits into the queue, or takes none from it.
LEMMA RouteKeeps ==
  ASSUME TableInv, ForeignInv, NEW rest, QueueOf(rest, served), Len(rest) < MaxQueue,
         NEW packet, Fit(packet), Route(packet, rest)
  PROVE  QueueOf(lisp0', served) /\ Len(lisp0') <= MaxQueue
<1>1. rest \in Seq(InTransit) /\ Len(rest) \in Nat /\ MaxQueue \in Nat
  BY BoundAssumption DEF QueueOf
<1>2. CASE Emit(packet, rest)
  BY <1>1, <1>2 DEF Emit
<1>3. CASE Queue(packet, rest)
  <2>1. lisp0' = Append(rest, packet) /\ packet \in InTransit
    BY <1>3 DEF Queue, Fit
  <2>2. /\ lisp0' \in Seq(InTransit) /\ Len(lisp0') = Len(rest) + 1
        /\ \A i \in 1..Len(rest) : lisp0'[i] = rest[i]
        /\ lisp0'[Len(rest) + 1] = packet
    BY <1>1, <2>1
  <2>3. To(packet.cells) \in Address
    BY DEF Fit, Whole, To
  <2>4. Covering(served, To(packet.cells)) # {}
    BY <1>3, <2>3, ThroughLisp0 DEF Queue
  <2>5. Queued(packet, served)
    BY <1>3, <2>4 DEF Queue, Queued
  <2>6. \A i \in 1..Len(rest) : Queued(lisp0'[i], served)
    BY <2>2 DEF QueueOf
  <2>7. \A i \in 1..Len(lisp0') : Queued(lisp0'[i], served)
    BY <1>1, <2>2, <2>5, <2>6
  <2> QED  BY <1>1, <2>2, <2>7 DEF QueueOf
<1> QED  BY <1>2, <1>3 DEF Route

\* A packet that comes from a host is as the invariant wants it.
LEMMA HostPacketFits ==
  ASSUME NEW d \in Address, NEW n \in 1..MaxLen
  PROVE  Fit([cells |-> Packet(d, n), passes |-> 0])
<1>1. Whole(Packet(d, n), n)
  BY PacketIsWhole
<1>2. Packet(d, n) \in Seq(Cell) /\ Len(Packet(d, n)) = n /\ n \in Nat /\ n <= MaxLen
  BY <1>1, BoundAssumption DEF Whole
<1> QED  BY <1>1, <1>2, BoundAssumption DEF Fit, InTransit

\* The packet at the head of lisp0, the packet it is wrapped in, and the queue
\* that is left.
LEMMA HeadOfQueue ==
  ASSUME Inv, lisp0 # <<>>
  PROVE  /\ Whole(Head(lisp0).cells, Len(Head(lisp0).cells))
         /\ Len(Head(lisp0).cells) < BufLen
         /\ QueueOf(Tail(lisp0), served)
         /\ Len(Tail(lisp0)) < MaxQueue
<1> DEFINE packet == Head(lisp0)
<1>1. /\ lisp0 \in Seq(InTransit) /\ Len(lisp0) \in Nat \ {0}
      /\ packet = lisp0[1] /\ 1 \in 1..Len(lisp0)
  BY DEF Inv, QueueOf
<1>2. Queued(packet, served)
  BY <1>1 DEF Inv, QueueOf
<1>3. /\ packet.passes \in Nat /\ Len(packet.cells) \in Nat
      /\ Len(packet.cells) <= MaxLen + 3 * packet.passes
      /\ packet.passes < MaxPasses
  BY <1>2 DEF Queued, Fit, InTransit
<1>4. Len(packet.cells) < BufLen
  BY <1>3, BoundAssumption, LengthAssumption
<1>5. /\ Tail(lisp0) \in Seq(InTransit) /\ Len(Tail(lisp0)) = Len(lisp0) - 1
      /\ \A i \in 1..Len(lisp0) - 1 : Tail(lisp0)[i] = lisp0[i + 1] /\ i + 1 \in 1..Len(lisp0)
  BY <1>1
<1>6. QueueOf(Tail(lisp0), served)
  BY <1>5 DEF Inv, QueueOf
<1>7. Len(Tail(lisp0)) < MaxQueue
  BY <1>1, <1>5, BoundAssumption DEF Inv
<1> QED  BY <1>2, <1>4, <1>6, <1>7 DEF Queued, Fit

-----------------------------------------------------------------------------
(* The steps.                                                              *)

\* A packet for an entry in use is not plain, or follows a route of the kernel's
\* own.
KeptIn(cells) ==
  Plain(cells) =>
    \A p \in Covering(Used, To(cells)) :
      \E q \in Covering(DOMAIN foreign, To(cells)) : Len(q) >= Len(p)

\* What the kernel lets out of the host is the packet it was given, for which it
\* has no route to lisp0.
LEMMA RouteLetsOut ==
  ASSUME TableInv, ForeignInv, NEW rest, NEW packet, Fit(packet),
         Route(packet, rest), out' # Nothing
  PROVE  out' = packet.cells /\ KeptIn(packet.cells)
<1>1. Emit(packet, rest)
  BY DEF Route, Queue
<1>2. To(packet.cells) \in Address
  BY DEF Fit, Whole, To
<1>3. out' = packet.cells
  BY <1>1 DEF Emit
<1> QED  BY <1>1, <1>2, <1>3, NotThroughLisp0 DEF Emit, KeptIn

\* A packet of this host, or one that comes out of a LISP datagram.
LEMMA HostPacketStep ==
  ASSUME Inv, Len(lisp0) < MaxQueue, NEW d \in Address, NEW n \in 1..MaxLen,
         Route([cells |-> Packet(d, n), passes |-> 0], lisp0),
         UNCHANGED <<table, foreign, buf, served>>
  PROVE  Inv' /\ (out' # Nothing => KeptIn(out'))
<1> DEFINE packet == [cells |-> Packet(d, n), passes |-> 0]
<1>1. Fit(packet)
  BY HostPacketFits
<1> HIDE DEF packet
<1>2. QueueOf(lisp0', served) /\ Len(lisp0') <= MaxQueue
  BY <1>1, RouteKeeps DEF Inv, packet
<1>3. Inv'
  BY <1>2 DEF Inv, TableInv, ForeignInv, Used, table
<1>4. out' # Nothing => KeptIn(out')
  BY <1>1, RouteLetsOut DEF Inv, packet
<1> QED  BY <1>3, <1>4

\* lisp_dp_thread.
LEMMA ReceiveStep ==
  ASSUME Inv, NEW payload \in Arriving, Receive(payload)
  PROVE  Inv' /\ (out' # Nothing => KeptIn(out'))
<1>1. CASE Unwrapped(payload) = Nothing
  BY <1>1 DEF Receive, Inv, TableInv, ForeignInv, Used, table
<1>2. CASE Unwrapped(payload) # Nothing
  <2>1. PICK d \in Address, n \in 1..MaxLen : Unwrapped(payload) = Packet(d, n)
    BY <1>2, ArrivingIsWhole
  <2>2. Route([cells |-> Packet(d, n), passes |-> 0], lisp0)
    BY <1>2, <2>1 DEF Receive
  <2> QED  BY <2>2, HostPacketStep DEF Receive
<1> QED  BY <1>1, <1>2

\* lisp_dp_tun_thread drops the packet it has read, or sends it wrapped and whole
\* to a locator.
LEMMA ReadTunSends ==
  ASSUME Inv, ReadTun
  PROVE  /\ lisp0 # <<>>
         /\ buf' \in [1..BufLen -> Cell]
         /\ UNCHANGED <<table, foreign, served>>
         /\ \/ lisp0' = Tail(lisp0) /\ out' = Nothing
            \/ \E inner : /\ Fit(inner) /\ ~Plain(inner.cells)
                          /\ Unwrapped(Tail(inner.cells)) = Head(lisp0).cells
                          /\ Route(inner, Tail(lisp0))
<1> DEFINE packet == Head(lisp0)
           n == Len(packet.cells)
           d == To(packet.cells)
           mn == LongestMatch(Cache!Entries, d)
           w == Datagram(loc[mn], Wrapped(Filled(packet.cells), n))
           inner == [cells |-> w, passes |-> packet.passes + 1]
<1>1. lisp0 # <<>> /\ buf' = Filled(packet.cells)
  BY DEF ReadTun
<1>2. Whole(packet.cells, n) /\ n < BufLen
  BY <1>1, HeadOfQueue
<1>3. buf' \in [1..BufLen -> Cell]
  BY <1>1, <1>2, FilledStartsWith DEF Inv
<1>4. ASSUME Covering(Cache!Entries, d) # {}, state[mn] \in InUse
      PROVE  /\ Fit(inner) /\ ~Plain(inner.cells)
             /\ Unwrapped(Tail(inner.cells)) = packet.cells
  <2>1. Cache!Entries \in SUBSET Seq(Bit) /\ d \in Seq(Bit)
    BY <1>2, AddressAssumption DEF Whole, To, Bit, Cache!Entries
  <2>2. mn \in Covering(Cache!Entries, d)
    BY <1>4, <2>1, LongestMatchCovers
  <2>3. mn \in Prefix
    BY <2>2 DEF Covering, Cache!Entries
  <2>4. loc[mn] \in Address
    BY <1>4, <2>3, AddressAssumption DEF Inv, TableInv
  <2>5. /\ Whole(w, n + 3) /\ ~Plain(w)
        /\ Unwrapped(Tail(w)) = packet.cells
    BY <1>2, <2>4, WrappedIsWhole DEF Inv
  <2>6. /\ packet.passes \in Nat /\ n \in Nat
        /\ n <= MaxLen + 3 * packet.passes
    <3>1. Queued(lisp0[1], served) /\ packet = lisp0[1]
      BY <1>1 DEF Inv, QueueOf
    <3> QED  BY <3>1 DEF Queued, Fit, InTransit
  <2>7. w \in Seq(Cell) /\ Len(w) = n + 3
    BY <2>5 DEF Whole
  <2> HIDE DEF w
  <2>8. Fit(inner)
    BY <2>5, <2>6, <2>7, BoundAssumption, SMTT(30) DEF Fit, InTransit
  <2> QED  BY <2>5, <2>8
<1>5. \/ /\ Covering(Cache!Entries, d) # {} /\ state[mn] \in InUse
         /\ Route(inner, Tail(lisp0)) \/ Forget(inner, Tail(lisp0))
      \/ Drop(packet, Tail(lisp0))
  BY <1>1 DEF ReadTun
<1>6. UNCHANGED <<table, foreign, served>>
  BY DEF ReadTun
<1> HIDE DEF inner, mn
<1> QED  BY <1>1, <1>3, <1>4, <1>5, <1>6 DEF Forget, Drop

\* One round of lisp_dp_tun_thread keeps the invariant and the packets in the tunnel.
LEMMA ReadTunStep ==
  ASSUME Inv, ReadTun
  PROVE  Inv' /\ (out' # Nothing => KeptIn(out'))
<1>1. /\ lisp0 # <<>>
      /\ buf' \in [1..BufLen -> Cell]
      /\ UNCHANGED <<table, foreign, served>>
  BY ReadTunSends
<1>2. QueueOf(Tail(lisp0), served) /\ Len(Tail(lisp0)) < MaxQueue
  BY <1>1, HeadOfQueue
<1>3. CASE lisp0' = Tail(lisp0) /\ out' = Nothing
  <2>1. Len(Tail(lisp0)) <= MaxQueue
    BY <1>2, BoundAssumption DEF QueueOf
  <2> QED  BY <1>1, <1>2, <1>3, <2>1 DEF Inv, TableInv, ForeignInv, Used, table
<1>4. ASSUME NEW inner, Fit(inner), ~Plain(inner.cells), Route(inner, Tail(lisp0))
      PROVE  Inv' /\ (out' # Nothing => KeptIn(out'))
  <2>1. QueueOf(lisp0', served) /\ Len(lisp0') <= MaxQueue
    BY <1>2, <1>4, RouteKeeps DEF Inv
  <2>2. Inv'
    BY <1>1, <2>1 DEF Inv, TableInv, ForeignInv, Used, table
  <2>3. out' # Nothing => KeptIn(out')
    BY <1>4, RouteLetsOut DEF Inv
  <2> QED  BY <2>2, <2>3
<1> QED  BY <1>3, <1>4, ReadTunSends

\* The table's calls leave the packets alone.
LEMMA TableStep ==
  ASSUME Inv, Table
  PROVE  Inv' /\ out' = Nothing
<1>1. TableInv'
  BY TableKeeps DEF Inv
<1>2. /\ UNCHANGED <<foreign, lisp0, buf>> /\ out' = Nothing
      /\ served \subseteq served'
  BY DEF Table, Unchanged
<1>3. QueueOf(lisp0, served')
  BY <1>2, QueueStays DEF Inv
<1> QED  BY <1>1, <1>2, <1>3 DEF Inv, ForeignInv

\* At start the table, the queue and the history are empty.
LEMMA InitHolds == Init => Inv
<1> SUFFICES ASSUME Init PROVE Inv
  OBVIOUS
<1>1. /\ state = [p \in Prefix |-> "none"] /\ routes = {}
      /\ loc = [p \in Prefix |-> NoLocator] /\ served = {}
      /\ lisp0 = <<>> /\ buf = [i \in 1..BufLen |-> Junk]
  BY DEF Init, Cache!Init
<1>2. TableInv
  BY <1>1 DEF TableInv, Used, InUse, Cache!State, Cache!EntryState
<1>3. ForeignInv
  BY DEF Init, ForeignInv
<1>4. QueueOf(lisp0, served) /\ Len(lisp0) <= MaxQueue
  BY <1>1, BoundAssumption DEF QueueOf
<1>5. Junk \in Cell
  BY DEF Junk, Cell
<1> QED  BY <1>1, <1>2, <1>3, <1>4, <1>5 DEF Inv

\* Every step keeps the invariant, and lets out only what it may.
LEMMA NextKeeps ==
  ASSUME Inv, Next
  PROVE  Inv' /\ (out' # Nothing => KeptIn(out'))
<1>1. ASSUME NEW d \in Address, NEW n \in 1..MaxLen, Send(d, n)
      PROVE  Inv' /\ (out' # Nothing => KeptIn(out'))
  BY <1>1, HostPacketStep DEF Send
<1> QED  BY <1>1, ReceiveStep, ReadTunStep, TableStep DEF Next

\* The invariant holds in every state.
LEMMA InvHolds == Spec => []Inv
<1>1. Inv /\ [Next]_vars => Inv'
  <2> SUFFICES ASSUME Inv, [Next]_vars PROVE Inv'
    OBVIOUS
  <2>1. CASE UNCHANGED vars
    BY <2>1 DEF Inv, TableInv, ForeignInv, Used, vars, table
  <2> QED  BY <2>1, NextKeeps
<1> QED  BY <1>1, InitHolds, PTL DEF Spec

\* Whatever is sent, received and configured, an entry has a locator just when it is
\* in use, and what waits in lisp0 is shorter than the buffer it is read into, as
\* long as its header says, and not more than the queue takes (instance.c's
\* lisp_dp_tun_thread reads without looking at a length).
THEOREM TypeCorrect == Spec => []TypeOK
<1>1. Inv => TypeOK
  <2> SUFFICES ASSUME Inv PROVE TypeOK
    OBVIOUS
  <2>1. Used = {p \in Prefix : loc[p] # NoLocator}
    BY DEF Inv, TableInv, Used
  <2>2. \A p \in Used : loc[p] \in Locator
    BY <2>1 DEF Inv, TableInv
  <2>3. ASSUME NEW i \in DOMAIN lisp0
        PROVE  /\ Len(lisp0[i].cells) = lisp0[i].cells[1].len
               /\ Len(lisp0[i].cells) < BufLen
               /\ lisp0[i].passes < MaxPasses
    <3>1. i \in 1..Len(lisp0)
      BY DEF Inv, QueueOf
    <3>2. Queued(lisp0[i], served)
      BY <3>1 DEF Inv, QueueOf
    <3>3. /\ lisp0[i].passes \in Nat /\ lisp0[i].passes < MaxPasses
          /\ Len(lisp0[i].cells) = lisp0[i].cells[1].len
          /\ Len(lisp0[i].cells) \in Nat
          /\ Len(lisp0[i].cells) <= MaxLen + 3 * lisp0[i].passes
      BY <3>2 DEF Queued, Fit, Whole, InTransit
    <3> QED  BY <3>3, BoundAssumption, LengthAssumption, SMTT(30)
  <2> QED  BY <2>1, <2>2, <2>3 DEF Inv, TableInv, TypeOK
<1> QED  BY <1>1, InvHolds, PTL

\* No packet passes lisp0 a second time unless it has been wrapped and its locator
\* is under a prefix that has been mapped: a packet that cannot be wrapped does not
\* go round.
THEOREM ReadAtMostOnce == Spec => []ReadOnce
<1>1. Inv => ReadOnce
  <2> SUFFICES ASSUME Inv, NEW i \in DOMAIN lisp0, lisp0[i].passes > 0
               PROVE  ~Plain(lisp0[i].cells) /\ Covering(served, To(lisp0[i].cells)) # {}
    BY DEF ReadOnce
  <2>1. i \in 1..Len(lisp0)
    BY DEF Inv, QueueOf
  <2> QED  BY <2>1 DEF Inv, QueueOf, Queued, Fit
<1> QED  BY <1>1, InvHolds, PTL

\* However entries come and go, a packet for a destination with an entry in use
\* leaves the host unwrapped only along a route of the kernel's own that is as long
\* as the entry or longer.
THEOREM TunnelKeepsPackets == Spec => NoBypass
<1>1. Inv /\ [Next]_vars =>
        [out' # Nothing /\ Plain(out') =>
           LET d == To(out') IN
             \A p \in Covering(Used, d) :
               \E q \in Covering(DOMAIN foreign, d) : Len(q) >= Len(p)]_vars
  BY NextKeeps DEF KeptIn
<1> QED  BY <1>1, InvHolds, PTL DEF Spec, NoBypass

\* What the router at the other end unwraps is the packet that was read from lisp0.
THEOREM PacketsArriveWhole == Spec => ArrivesWhole
<1>1. Inv /\ [Next]_vars =>
        [ReadTun /\ out' # Nothing /\ ~Plain(out') =>
           Unwrapped(Tail(out')) = Head(lisp0).cells]_vars
  <2> SUFFICES ASSUME Inv, ReadTun, out' # Nothing
               PROVE  Unwrapped(Tail(out')) = Head(lisp0).cells
    OBVIOUS
  <2>1. PICK inner : /\ Fit(inner)
                     /\ Unwrapped(Tail(inner.cells)) = Head(lisp0).cells
                     /\ Route(inner, Tail(lisp0))
    BY ReadTunSends
  <2>2. out' = inner.cells
    BY <2>1, RouteLetsOut DEF Inv
  <2> QED  BY <2>1, <2>2
<1> QED  BY <1>1, InvHolds, PTL DEF Spec, ArrivesWhole

===============================================================================
