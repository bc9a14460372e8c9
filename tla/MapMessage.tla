------------------------------ MODULE MapMessage ------------------------------
(***************************************************************************)
(* The LISP control messages (map.c): what lixyd writes, at which offsets, *)
(* and what the other side reads there, and the other way round.           *)
(*                                                                         *)
(* A message is its length and the fields in it, each at its offset.  A    *)
(* field is a struct of lisp.h, an address or an address family, with what *)
(* the readers look at.                                                    *)
(* Families are 4 and 6; AF_TO_LISPAFI and LISPAFI_TO_AF map them to their *)
(* codes and back.  Nonces, flags nobody reads, lifetimes, mask lengths    *)
(* and the authentication data, all copied into their structs, are left    *)
(* out.                                                                    *)
(***************************************************************************)
EXTENDS Integers, Sequences, SequencesExt

CONSTANTS
  Prefix,       \* EID prefixes and EIDs, each with its family af and its addr
  Locator,      \* locators, with family, address and priority
  Encapsulating,  \* families of the headers others encapsulate messages with
  MaxLocators,  \* locators in lisp.loc_tuple (a bound)
  MaxReceived,  \* locators in a received message (a bound)
  MaxRecords    \* records in a Map-Reply (a bound)

Family == {4, 6}

ASSUME FamilyAssumption ==
  /\ Encapsulating \subseteq Family
  /\ \A p \in Prefix : p = [af |-> p.af, addr |-> p.addr] /\ p.af \in Family
  /\ \A l \in Locator : /\ l = [af |-> l.af, addr |-> l.addr, priority |-> l.priority]
                        /\ l.af \in Family /\ l.priority \in 0..255

\* The counts of locators and of records are bytes, and the buffers of 1024 bytes
\* have no room for more than a byte counts.
ASSUME BoundAssumption == {MaxLocators, MaxReceived, MaxRecords} \subseteq 0..255

VARIABLES
  locs,   \* lisp.loc_tuple
  last,   \* the message written last, by whom and what was meant by it
  heard   \* what process_lisp_map_message found in it, Nothing before

vars == <<locs, last, heard>>

Nothing == [read |-> "nothing"]

-----------------------------------------------------------------------------
(* Messages.  The sizes are those of the structs of lisp.h.                *)

AddrSize(af) == IF af = 4 THEN 4 ELSE 16
IpSize(af) == IF af = 4 THEN 20 ELSE 40
ControlSize == 4
UdpSize == 8
RequestSize == 12
AfiSize == 2
RequestRecordSize == 4
ReplySize == 12
RegisterSize == 36
RecordSize == 12
LocatorSize == 8

\* Fields, each with its size, one behind the other; the message they make.
Field(field, size) == <<[field |-> field, size |-> size]>>
Offsets(F) == LET at[i \in 0..Len(F)] == IF i = 0 THEN 0 ELSE at[i - 1] + F[i].size IN at
Length(F) == Offsets(F)[Len(F)]
Lay(F) ==
  LET at == Offsets(F)
      fieldAt(off) == F[CHOOSE i \in DOMAIN F : at[i - 1] = off].field
  IN [wrote |-> [off \in {at[i - 1] : i \in DOMAIN F} |-> fieldAt(off)], len |-> at[Len(F)]]

\* Every message starts with a type, and where one struct has these the others
\* have reserved bits or bits that are zero.
Header(type) == [kind |-> "header", type |-> type, P_flag |-> FALSE,
                 irc |-> 0, record_count |-> 1]
Control == [Header("ecap") EXCEPT !.record_count = 0]
Afi(af) == Field([kind |-> "afi", afi |-> af], AfiSize)
Address(a) == Field([kind |-> "addr", addr |-> a.addr], AddrSize(a.af))
Unwritten(size) == Field([kind |-> "unwritten"], size)

\* Where the field one looks for does not start, there are other bytes.
Other(kind) == [kind |-> kind, afi |-> 0, addr |-> "other", type |-> "other",
                P_flag |-> FALSE, irc |-> 0, ip_v |-> 0,
                record_count |-> 0, locator_count |-> 0, priority |-> 0]
Read(m, off, kind) ==
  IF off \in DOMAIN m.wrote /\ m.wrote[off].kind = kind THEN m.wrote[off] ELSE Other(kind)
AddrAt(m, off) == Read(m, off, "addr").addr

-----------------------------------------------------------------------------
(* What lixyd writes.                                                      *)

\* (Faulty: the room for an IPv4 address is reserved for any.)
LocatorShort(l) == Field([kind |-> "locator", afi |-> l.af, priority |-> l.priority],
                         LocatorSize)
                     \o Field([kind |-> "addr", addr |-> l.addr], AddrSize(4))

LocatorFields(l) == Field([kind |-> "locator", afi |-> l.af, priority |-> l.priority],
                          LocatorSize)
                      \o Address(l)

\* A record and its locators, the same in a Map-Register and a Map-Reply.
RecordFields(p, L) ==
  Field([kind |-> "record", afi |-> p.af, locator_count |-> Len(L) % 256], RecordSize)
    \o Address(p) \o FlattenSeq([i \in DOMAIN L |-> LocatorFields(L[i])])

set_lisp_map_register(p) ==
  Lay(Field(Header("register"), RegisterSize) \o RecordFields(p, locs))

set_lisp_map_reply(p) == Lay(Field(Header("reply"), ReplySize) \o RecordFields(p, locs))

\* The header lixyd puts in front of its requests, and the mapping system may
\* put in front of its own messages.
Encapsulation(af) == Field(Control, ControlSize)
                       \o Field([kind |-> "ip", ip_v |-> af], IpSize(af))
                       \o Field([kind |-> "udp"], UdpSize)

\* (Faulty: the number of locators is sent as it is.)
IrcOfCount == Len(locs) % 32

\* The ITR-RLOC count goes into five bits; 0 means one.
Irc == (Len(locs) - 1) % 32

\* ptr stays at the first locator's family: every locator's goes there, over the
\* one before it, and the room for its own keeps what the stack held.
ItrRlocs ==
  LET afi(i) == IF i = 1 THEN Afi(Last(locs).af) ELSE Unwritten(AfiSize)
  IN FlattenSeq([i \in DOMAIN locs |-> afi(i) \o Address(locs[i])])

set_lisp_map_request(p) ==
  Lay(Encapsulation(p.af)
        \o Field([Header("request") EXCEPT !.irc = Irc], RequestSize)
        \o Afi(0)
        \o ItrRlocs
        \o Field([kind |-> "reqrec", afi |-> p.af], RequestRecordSize)
        \o Address(p))

-----------------------------------------------------------------------------
(* What lixyd reads.                                                       *)

\* The locator chosen so far gives way to one of a larger priority.
Prefers(m, chosen, off) ==
  Read(m, chosen, "locator").priority < Read(m, off, "locator").priority

\* (Faulty: the length added is that of the locator chosen so far.)
NextOfChosen(m, chosen, off) ==
  off + LocatorSize + AddrSize(Read(m, chosen, "locator").afi)

\* LISP_LOCATOR_PKT_LEN
NextLocator(m, chosen, off) ==
  off + LocatorSize + AddrSize(Read(m, off, "locator").afi)

LocatorAt(m, off) ==
  LET l == Read(m, off, "locator")
  IN [af |-> l.afi, addr |-> AddrAt(m, off + LocatorSize), priority |-> l.priority]

\* One record of the loop over rep->record_count: a prefix, and the chosen
\* locator or none.  (What is done with them is MapTable's ProcessRecord.)
RecordRead(m, off) ==
  LET rec == Read(m, off, "record")
      first == off + RecordSize + AddrSize(rec.afi)
      loop[i \in 0..rec.locator_count] ==
        IF i = 0 THEN [chosen |-> first, at |-> first]
        ELSE LET c == loop[i - 1]
             IN [chosen |-> IF Prefers(m, c.chosen, c.at) THEN c.at ELSE c.chosen,
                 at |-> NextLocator(m, c.chosen, c.at)]
      done == loop[rec.locator_count]
  IN [prefix |-> [af |-> rec.afi, addr |-> AddrAt(m, off + RecordSize)],
      locator |-> IF rec.locator_count = 0 THEN <<>> ELSE <<LocatorAt(m, done.chosen)>>,
      end |-> done.at]

\* All the records the loop may come to.  Where MapTable's KnownMapping ends the
\* handler, it comes to no more.
process_lisp_map_reply(m) ==
  LET n == Read(m, 0, "header").record_count
      end[i \in 0..n] == IF i = 0 THEN ReplySize ELSE RecordRead(m, end[i - 1]).end
  IN [i \in 1..n |-> RecordRead(m, end[i - 1])]

\* (Faulty: the last ITR-RLOC is not skipped.)
RlocsShort(req) == req.irc
Rlocs(req) == req.irc + 1

\* A Map-Request is a probe: its prefix, and where the answer goes, which is its
\* Source EID.  A Source EID without a family counts as an IPv6 address.
process_lisp_map_request(m) ==
  LET req == Read(m, 0, "header")
      source == Read(m, RequestSize, "afi")
      rlocs[i \in 0..Rlocs(req)] ==
        IF i = 0 THEN RequestSize + AfiSize + AddrSize(source.afi)
        ELSE LET at == rlocs[i - 1]
                 afi == Read(m, at, "afi").afi
             IN at + AfiSize + (IF afi = 0 THEN 0 ELSE AddrSize(afi))
      rec == rlocs[Rlocs(req)]
  IN IF ~req.P_flag THEN Nothing
     ELSE [prefix |-> [af |-> Read(m, rec, "reqrec").afi,
                       addr |-> AddrAt(m, rec + RequestRecordSize)],
           to |-> AddrAt(m, RequestSize + AfiSize)]

\* The type is the one behind the encapsulation, if there is one; the handlers
\* get the message from its start.
process_lisp_map_message(m) ==
  LET outer == Read(m, 0, "header")
      inner == IF outer.type # "ecap" THEN outer
               ELSE Read(m, ControlSize + IpSize(Read(m, ControlSize, "ip").ip_v) + UdpSize,
                         "header")
  IN CASE inner.type = "reply" -> process_lisp_map_reply(m)
       [] inner.type = "request" -> process_lisp_map_request(m)
       [] OTHER -> Nothing

-----------------------------------------------------------------------------
(* The other side: map servers, and probing routers.  They read and write   *)
(* by the layouts drawn in lisp.h.                                          *)

\* What the record at an offset says, and whether the message ends with it.
RecordAt(m, off) ==
  LET rec == Read(m, off, "record")
      n == rec.locator_count
      loc[i \in 0..n] == IF i = 0 THEN off + RecordSize + AddrSize(rec.afi)
                         ELSE NextLocator(m, 0, loc[i - 1])
  IN [prefix |-> [af |-> rec.afi, addr |-> AddrAt(m, off + RecordSize)],
      locators |-> [i \in 1..n |-> LocatorAt(m, loc[i - 1])],
      ends |-> loc[n] = m.len]

\* What the request at an offset says: its ITR-RLOCs and its prefix.
RequestAt(m, off) ==
  LET n == Read(m, off, "header").irc + 1
      afi(at) == Read(m, at, "afi").afi
      rloc[i \in 0..n] == IF i = 0 THEN off + RequestSize + AfiSize
                          ELSE rloc[i - 1] + AfiSize + AddrSize(afi(rloc[i - 1]))
      p == [af |-> Read(m, rloc[n], "reqrec").afi,
            addr |-> AddrAt(m, rloc[n] + RequestRecordSize)]
  IN [prefix |-> p,
      rlocs |-> [i \in 1..n |-> [af |-> afi(rloc[i - 1]),
                                 addr |-> AddrAt(m, rloc[i - 1] + AfiSize)]],
      ends |-> rloc[n] + RequestRecordSize + AddrSize(p.af) = m.len]

\* A Map-Reply with the records R, behind a header or none.
Reply(hdr, R) ==
  Lay(hdr \o Field([Header("reply") EXCEPT !.record_count = Len(R)], ReplySize)
          \o FlattenSeq([i \in DOMAIN R |-> RecordFields(R[i].prefix, R[i].locators)]))

\* A probe for p from a router with the Source EID src and the ITR-RLOCs L.
Probe(hdr, p, src, L) ==
  LET part(l) == Afi(l.af) \o Address(l)
  IN Lay(hdr \o Field([Header("request") EXCEPT !.P_flag = TRUE, !.irc = Len(L) - 1],
                      RequestSize)
             \o part(src) \o FlattenSeq([i \in DOMAIN L |-> part(L[i])])
             \o Field([kind |-> "reqrec", afi |-> p.af], RequestRecordSize) \o Address(p))

-----------------------------------------------------------------------------

Headers == {<<>>} \cup {Encapsulation(af) : af \in Encapsulating}
SeqUpTo(S, n) == UNION {[1..k -> S] : k \in 0..n}
Records == [prefix : Prefix, locators : SeqUpTo(Locator, MaxReceived)]

\* The operator's locators, each address once (SiteConfig has the commands).
Configure ==
  /\ \/ \E l \in Locator : /\ Len(locs) < MaxLocators
                           /\ \A i \in DOMAIN locs : locs[i].addr # l.addr
                           /\ locs' = Append(locs, l)
     \/ \E i \in DOMAIN locs : locs' = RemoveAt(locs, i)
  /\ last = Nothing
  /\ UNCHANGED <<last, heard>>

\* One message at a time: nothing the handlers do depends on an earlier one.
Write(kind, meant, msg) ==
  /\ last = Nothing
  /\ last' = [read |-> kind, meant |-> meant, msg |-> msg]
  /\ heard' = Nothing
  /\ UNCHANGED locs

SendRegister(p) == Write("register", [prefix |-> p, locators |-> locs, ends |-> TRUE],
                         set_lisp_map_register(p))

SendRequest(p) ==
  Write("request", [prefix |-> p, ends |-> TRUE,
                    rlocs |-> [i \in DOMAIN locs |-> [af |-> locs[i].af, addr |-> locs[i].addr]]],
        set_lisp_map_request(p))

\* Messages for the daemon.
MappingSystemReplies ==
  /\ last = Nothing
  /\ \E n \in 1..MaxRecords : \E R \in [1..n -> Records] : \E hdr \in Headers :
       /\ Len(FlattenSeq([i \in 1..n |-> R[i].locators])) <= MaxReceived
       /\ Write("reply", [records |-> R, bare |-> hdr = <<>>], Reply(hdr, R))

RouterProbes ==
  /\ last = Nothing
  /\ \E p, src \in Prefix : \E L \in SeqUpTo(Prefix, MaxReceived) \ {<<>>} : \E hdr \in Headers :
       /\ Len(L) <= 32   \* the count has five bits
       /\ Write("probe", [prefix |-> p, to |-> src.addr, bare |-> hdr = <<>>], Probe(hdr, p, src, L))

\* lisp_map_message_thread receives it.
Receive ==
  /\ last # Nothing /\ last.read \in {"reply", "probe"}
  /\ heard = Nothing
  /\ heard' = [read |-> last.read, got |-> process_lisp_map_message(last.msg)]
  /\ UNCHANGED <<locs, last>>

\* ... and of a probe it builds the answer.  sendto is given the Source EID as the
\* address, with no port, and fails: the answer never leaves send_map_reply.
BuildAnswer ==
  /\ heard # Nothing /\ heard.read = "probe" /\ heard.got # Nothing
  /\ last' = [read |-> "answer", msg |-> set_lisp_map_reply(heard.got.prefix),
              meant |-> [prefix |-> heard.got.prefix, locators |-> locs, ends |-> TRUE]]
  /\ heard' = Nothing
  /\ UNCHANGED locs

\* The message is where it was sent, has been handled or could not be sent.
Gone ==
  /\ last # Nothing
  /\ last' = Nothing /\ heard' = Nothing
  /\ UNCHANGED locs

Init == locs = <<>> /\ last = Nothing /\ heard = Nothing

Next ==
  \/ Configure
  \/ \E p \in Prefix : SendRegister(p) \/ SendRequest(p)
  \/ MappingSystemReplies
  \/ RouterProbes
  \/ Receive
  \/ BuildAnswer
  \/ Gone

Spec == Init /\ [][Next]_vars

-----------------------------------------------------------------------------
(* What holds.                                                             *)

\* A map server finds the whole configuration in a Map-Register, and the answer
\* that is built to a probe has it too, whatever the mix of families: prefix,
\* every locator with its priority, and the end of the message where its length
\* says (set_lisp_map_register and set_lisp_map_reply in map.c).
RecordsReadBack ==
  /\ last.read = "register" => RecordAt(last.msg, RegisterSize) = last.meant
  /\ last.read = "answer" => RecordAt(last.msg, ReplySize) = last.meant

\* With one locator, a map server finds it and the prefix in a Map-Request
\* (set_lisp_map_request in map.c; with none or several it does not).
RequestReadsBack ==
  last.read = "request" /\ Len(last.meant.rlocs) = 1 =>
    RequestAt(last.msg, Length(Encapsulation(last.meant.prefix.af))) = last.meant

\* From a Map-Reply the daemon gets each record with the first of its locators
\* of the largest priority, whatever the sizes of the records and locators
\* before it (the offsets of process_lisp_map_reply in map.c).
Preferred(L) ==
  {L[i] : i \in {j \in DOMAIN L : /\ \A k \in DOMAIN L : L[k].priority <= L[j].priority
                                  /\ \A k \in 1..j - 1 : L[k].priority < L[j].priority}}
RepliesUnderstood ==
  heard.read = "reply" /\ last.meant.bare =>
    /\ Len(heard.got) = Len(last.meant.records)
    /\ \A i \in DOMAIN heard.got :
         LET r == last.meant.records[i]
         IN /\ heard.got[i].prefix = r.prefix
            /\ ToSet(heard.got[i].locator) = Preferred(r.locators)

\* From a probe with an address as its Source EID the daemon gets the prefix
\* probed and that address, whatever the ITR-RLOCs in between
\* (process_lisp_map_request in map.c).
ProbesUnderstood ==
  heard.read = "probe" /\ last.meant.bare =>
    heard.got = [prefix |-> last.meant.prefix, to |-> last.meant.to]

-----------------------------------------------------------------------------
(* What the repository says and the code does not do.                      *)

\* map.h:33 "pkt is pointer to lisp_map_reply": of an encapsulated Map-Reply the
\* handler gets the records too.
EncapsulatedRepliesRead ==
  heard.read = "reply" => Len(heard.got) = Len(last.meant.records)

===============================================================================
