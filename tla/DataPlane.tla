------------------------------- MODULE DataPlane -------------------------------
(***************************************************************************)
(* The way of a packet through lixyd (instance.c): the kernel routes it    *)
(* into lisp0 or out of the host, lisp_dp_tun_thread wraps what it reads   *)
(* from lisp0 and sends it to a locator, and lisp_dp_thread unwraps what   *)
(* other tunnel routers send.  The wrapped packet is a packet of this host *)
(* again and takes its way through the same kernel routes.                 *)
(*                                                                         *)
(* The table changes meanwhile as the map cache allows (MapCache, which    *)
(* MapTable implements).  The kernel has routes of its own, and refuses    *)
(* one to lisp0 for a prefix it has a route for; nobody reads its answer.  *)
(* A packet is its cells, each of them as long as the LISP header.         *)
(***************************************************************************)
EXTENDS Prefixes, FiniteSets

CONSTANTS
  Prefix,     \* the prefixes of map cache entries
  Host,       \* those that are addresses
  Address,    \* the addresses packets are sent to, Host among them
  Locator,    \* those that are locators of mappings
  MaxLen,     \* the cells of a packet that is not wrapped, at most
  BufLen,     \* the cells of the threads' buffers
  MaxQueue,   \* how many packets wait in lisp0 (a bound)
  MaxPasses   \* how often a packet is followed into lisp0 (a bound)

NoLocator == "none"

ASSUME AddressAssumption == /\ Host \subseteq Prefix \cap Address
                            /\ Locator \subseteq Address
                            /\ Prefix \cup Address \subseteq Seq({0, 1})
                            /\ NoLocator \notin Locator
ASSUME BoundAssumption == {MaxLen, BufLen, MaxQueue, MaxPasses} \subseteq Nat \ {0}

\* What a tun device hands out is shorter than the threads' buffers; a packet
\* grows by three cells each time it is wrapped.
ASSUME LengthAssumption == MaxLen + 3 * (MaxPasses - 1) < BufLen

VARIABLES
  state, routes,  \* the map cache; routes are those asked of the kernel
  loc,            \* the locator of each entry in use
  foreign,        \* the kernel's other routes, and where they lead
  lisp0,          \* the packets in lisp0's queue
  buf,            \* the buffer of lisp_dp_tun_thread
  out,            \* the packet that left the host in the last step
  served          \* (history) the prefixes that have had an entry in use

table == <<state, routes, loc>>
vars == <<state, routes, loc, foreign, lisp0, buf, out, served>>

Cache == INSTANCE MapCache

InUse == {"active", "static"}
Used == {p \in Prefix : state[p] \in InUse}

-----------------------------------------------------------------------------
(* Packets.  The first cell has the IP header: where to, and how long.     *)

Ip(d, n) == [kind |-> "ip", to |-> d, len |-> n]
Lisp == [kind |-> "lisp", to |-> <<>>, len |-> 0]
Data(d) == [kind |-> "data", to |-> d, len |-> 0]   \* of a packet to d
Junk == [kind |-> "junk", to |-> <<>>, len |-> 0]   \* never written

Packet(d, n) == <<Ip(d, n)>> \o [i \in 1..n - 1 |-> Data(d)]
To(cells) == cells[1].to

\* The IP layer of a receiver cuts off what is behind the packet, and drops a
\* packet that is cut short.
Nothing == <<>>
Trimmed(cells) ==
  IF cells = <<>> \/ Len(cells) < cells[1].len THEN Nothing
  ELSE SubSeq(cells, 1, cells[1].len)

\* A datagram of this payload; IP and UDP header are in its first cell.
Datagram(d, payload) == <<Ip(d, Len(payload) + 1)>> \o payload

\* read fills the buffer from its start and leaves the rest.
Filled(cells) == [i \in 1..BufLen |-> IF i <= Len(cells) THEN cells[i] ELSE buf[i]]

\* (Faulty: the header is taken off the length it has to be added to.)
WrappedShort(b, len) == <<Lisp>> \o SubSeq(b, 1, len - 1)

\* The LISP header, and of the buffer as many bytes again as the packet and the
\* header have.
Wrapped(b, len) == <<Lisp>> \o SubSeq(b, 1, len + 1)

\* lisp_dp_thread writes what is behind the LISP header.  A datagram shorter
\* than that makes the length negative, and write fails.
Unwrapped(payload) == IF payload = <<>> THEN Nothing ELSE Trimmed(Tail(payload))

-----------------------------------------------------------------------------
(* The kernel's routes.                                                    *)

\* RTM_NEWROUTE comes with NLM_F_EXCL.
ToLisp0 == routes \ DOMAIN foreign

\* Where the kernel sends what goes to d: the longest prefix decides.
NextHop(d) ==
  LET known == ToLisp0 \cup DOMAIN foreign
  IN IF Covering(known, d) = {} THEN "unreachable"
     ELSE IF LongestMatch(known, d) \in ToLisp0 THEN "lisp0"
     ELSE foreign[LongestMatch(known, d)]

\* No gateway in the answer, which is also so for lisp0 and where there is no
\* route.
is_route_scope_link(d) == NextHop(d) # "gateway"

\* The kernel takes the packet where it belongs: into lisp0, or out.
Queue(packet, rest) ==
  /\ NextHop(To(packet.cells)) = "lisp0" /\ packet.passes < MaxPasses
  /\ lisp0' = Append(rest, packet)
  /\ out' = Nothing
Emit(packet, rest) ==
  /\ NextHop(To(packet.cells)) # "lisp0"
  /\ lisp0' = rest
  /\ out' = IF NextHop(To(packet.cells)) = "unreachable" THEN Nothing ELSE packet.cells
Route(packet, rest) == Queue(packet, rest) \/ Emit(packet, rest)

\* A packet from this host or the network behind it.
Send(d, n) ==
  /\ Len(lisp0) < MaxQueue
  /\ Route([cells |-> Packet(d, n), passes |-> 0], lisp0)
  /\ UNCHANGED <<table, foreign, buf, served>>

-----------------------------------------------------------------------------
(* The data plane's threads.                                               *)

\* Rounds beyond the bound are not followed.
Forget(packet, rest) ==
  packet.passes >= MaxPasses /\ lisp0' = rest /\ out' = Nothing

\* (Faulty: the packet goes back into the tun device.)
DropWriting(packet, rest) == Route([packet EXCEPT !.passes = 1], rest)

\* sendraw is given the tun device, which is no socket: sendto fails.
Drop(packet, rest) == lisp0' = rest /\ out' = Nothing

\* lisp_dp_tun_thread, from read to read.
ReadTun ==
  /\ lisp0 # <<>>
  /\ LET packet == Head(lisp0)
         d == To(packet.cells)
         known == Covering(Cache!Entries, d)
         mn == LongestMatch(Cache!Entries, d)
     IN /\ buf' = Filled(packet.cells)
        /\ IF known # {} /\ state[mn] \in InUse
           THEN LET wrapped == Datagram(loc[mn], Wrapped(buf', Len(packet.cells)))
                    inner == [cells |-> wrapped, passes |-> packet.passes + 1]
                IN Route(inner, Tail(lisp0)) \/ Forget(inner, Tail(lisp0))
           ELSE Drop(packet, Tail(lisp0))
  /\ UNCHANGED <<table, foreign, served>>

\* lisp_dp_thread, and the kernel that gets the packet from lisp0.
Receive(payload) ==
  /\ Len(lisp0) < MaxQueue
  /\ LET cells == Unwrapped(payload)
     IN IF cells = Nothing THEN lisp0' = lisp0 /\ out' = Nothing
        ELSE Route([cells |-> cells, passes |-> 0], lisp0)
  /\ UNCHANGED <<table, foreign, buf, served>>

\* What another lixyd may send: one of its packets, with a cell of its buffer
\* behind it, or something shorter than a header.
Arriving == {<<Lisp>> \o Packet(d, n) \o <<Junk>> : d \in Address, n \in 1..MaxLen}
              \cup {<<>>, <<Lisp>>}

-----------------------------------------------------------------------------
(* The table.                                                              *)

Unchanged == /\ UNCHANGED <<foreign, lisp0, buf>>
             /\ out' = Nothing
             /\ served' = served \cup Used'

\* A new entry comes with a locator, any other step keeps or forgets it.
Located(p, l) == loc' = [loc EXCEPT ![p] = l]
\* (Faulty: an address is left behind.)
LeftBehind == loc' = loc
Kept == loc' = [p \in Prefix |-> IF state'[p] \in InUse THEN loc[p] ELSE NoLocator]

\* The raw packet watcher asks for what goes to a gateway.
Watch(h) == /\ ~is_route_scope_link(h)
            /\ Cache!Query(h)
            /\ Kept

Table ==
  /\ \/ \E h \in Host : Watch(h)
     \/ \E p \in Prefix :
          \/ \E l \in Locator : (Cache!Learn(p) \/ Cache!Install(p)) /\ Located(p, l)
          \/ Cache!Deny(p, "negative") /\ Kept
          \/ Cache!Uninstall(p) /\ Kept
          \/ Cache!Age({p}) /\ Kept
  /\ Unchanged

-----------------------------------------------------------------------------

\* The host has a gateway or not, and a route of its own for a prefix or not.
Init ==
  /\ Cache!Init
  /\ loc = [p \in Prefix |-> NoLocator]
  /\ \E P \in SUBSET (Prefix \cup {<<>>}) : foreign \in [P -> {"gateway", "link"}]
  /\ lisp0 = <<>>
  /\ buf = [i \in 1..BufLen |-> Junk]
  /\ out = Nothing
  /\ served = {}

Next ==
  \/ \E d \in Address, n \in 1..MaxLen : Send(d, n)
  \/ \E payload \in Arriving : Receive(payload)
  \/ ReadTun
  \/ Table

Spec == Init /\ [][Next]_vars

-----------------------------------------------------------------------------
(* What holds.                                                             *)

TypeOK ==
  /\ Used = {p \in Prefix : loc[p] # NoLocator}
  /\ \A p \in Used : loc[p] \in Locator
  /\ routes \subseteq Prefix
  /\ Len(lisp0) <= MaxQueue
  /\ \A i \in DOMAIN lisp0 : LET packet == lisp0[i] IN
       /\ Len(packet.cells) = packet.cells[1].len
       /\ Len(packet.cells) < BufLen
       /\ packet.passes < MaxPasses

\* A packet for a destination with an entry in use leaves the host unwrapped
\* only where the kernel has a route of its own as long as the entry or longer,
\* however the entry got there: elsewhere add_route_to_tun and del_route_to_tun
\* keep it in the tunnel (op_route_to_dev, whose answer nobody reads).
Plain(cells) == Len(cells) = 1 \/ cells[2] # Lisp
NoBypass ==
  [][out' # Nothing /\ Plain(out') =>
       LET d == To(out') IN
         \A p \in Covering(Used, d) :
           \E q \in Covering(DOMAIN foreign, d) : Len(q) >= Len(p)]_vars

\* What the tunnel router at the other end gets out of a wrapped packet is the
\* packet, though more is sent than was read (iov_len of lisp_dp_tun_thread, the
\* length lisp_dp_thread writes).
ArrivesWhole ==
  [][ReadTun /\ out' # Nothing /\ ~Plain(out') =>
       Unwrapped(Tail(out')) = Head(lisp0).cells]_vars

\* A packet goes through lisp0 once: what cannot be wrapped does not come back,
\* and what is wrapped comes back only if its locator is under a prefix that has
\* itself been mapped (lisp_dp_tun_thread, and the routes of the table's calls).
ReadOnce ==
  \A i \in DOMAIN lisp0 : lisp0[i].passes > 0 =>
    ~Plain(lisp0[i].cells) /\ Covering(served, To(lisp0[i].cells)) # {}

================================================================================
