------------------------------ MODULE SiteConfig ------------------------------
(***************************************************************************)
(* What lixyd registers with the map servers: the operator's commands on   *)
(* EIDs, locators and map servers (control.c, instance.c) against the      *)
(* thread that registers every EID every ten seconds (instance.c, map.c).  *)
(*                                                                         *)
(* The two threads share the lists without a lock.  A command is one step. *)
(* The register thread has three nested loops, over the EIDs, the prefixes *)
(* of one and the map servers, and each takes a step for its body and one  *)
(* to go on to the next node, so that the operator can change what any of  *)
(* them stands at.  Writing a Map-Register into the buffer is one step.    *)
(***************************************************************************)
EXTENDS Integers, Sequences, FiniteSets, FiniteSetsExt, SequencesExt

CONSTANTS
  Name,          \* the site names the operator uses
  SiteName,      \* what is left of them: their first LISP_EID_NAME_LEN bytes
  Truncated,     \* Truncated[n] of a name
  EidPrefix,     \* the prefixes of sites
  Key,           \* authentication keys
  LongKey,       \* those of more than LISP_MAX_KEYLEN characters
  FullKey,       \* those of exactly LISP_MAX_KEYLEN characters
  LocatorAddr, Parameter,  \* locators, and the numbers given as their priority
  Server,        \* addresses of map servers
  Unstable,      \* those sendto may fail for
  Padding,       \* what the stack may hold behind an address
  MaxSites, MaxPrefixes, MaxServers, MaxLocators   \* how many of each (bounds)

ASSUME NameAssumption == Truncated \in [Name -> SiteName]
ASSUME KeyAssumption == LongKey \subseteq Key /\ FullKey \subseteq Key
ASSUME ParameterAssumption == Parameter \subseteq Nat
ASSUME UnstableAssumption == Unstable \subseteq Server

VARIABLES
  eids,        \* lisp.eid_tuple: each EID with its name, key and prefix_tuple
  locs,        \* lisp.loc_tuple
  mapsrvs,     \* lisp.mapsrv_tuple
  unreachable, \* the map servers sendto fails for
  level, done, \* the loop the register thread is in, and whether its body is over
  eidLoop, prefixLoop, serverLoop,  \* where each of the loops stands
  buf,         \* the Map-Register in send_map_register's buffer
  sent,        \* the Map-Registers sent by the last step
  reply,       \* the answer to the last command, NoReply after other steps
  owed,        \* (history) registrations this pass has to make before it ends
  keyed,       \* (history) what prefixes had what keys since the pass began
  listed,      \* (history) map servers there were since the message was built
  wild         \* undefined behaviour has happened

config == <<eids, locs, mapsrvs>>
loops == <<eidLoop, prefixLoop, serverLoop>>
vars == <<eids, locs, mapsrvs, unreachable, level, done, eidLoop, prefixLoop,
          serverLoop, buf, sent, reply, owed, keyed, listed, wild>>

NoKey == "none"
NoReply == [to |-> "none", code |-> "none"]
Empty == [prefix |-> "none", key |-> NoKey]

-----------------------------------------------------------------------------
(* A loop over a list (LL_FOREACH) holds a pointer to a node.  No node is  *)
(* freed.  One that is taken out of the list keeps its next pointer, so a  *)
(* loop that stands at it comes by those unlinked after it, and then by    *)
(* the first node behind them that is in the list.                         *)

\* gone: the unlinked nodes a loop has still to come by, from the one it stands
\* at; at: the place in the list of the node it comes to then, 0 for none.
Over == [gone |-> <<>>, at |-> 0]
Begin(list) == [gone |-> <<>>, at |-> IF list = <<>> THEN 0 ELSE 1]

Standing(loop, list) == IF loop.gone = <<>> THEN list[loop.at] ELSE Head(loop.gone)

After(list, i) == IF i = Len(list) THEN 0 ELSE i + 1

\* (Faulty: the loop ends one node too early.)
MovedShort(loop, list) ==
  IF loop.gone = <<>> THEN [loop EXCEPT !.at = IF @ + 1 >= Len(list) THEN 0 ELSE @ + 1]
  ELSE [loop EXCEPT !.gone = Tail(@)]

Moved(loop, list) ==
  IF loop.gone = <<>> THEN [loop EXCEPT !.at = After(list, @)]
  ELSE [loop EXCEPT !.gone = Tail(@)]

\* (Faulty: the node's own next pointer is cleared.)
UnlinkedClearing(loop, list, i) ==
  IF i < loop.at THEN [loop EXCEPT !.at = @ - 1]
  ELSE IF i = loop.at THEN [gone |-> Append(loop.gone, list[i]), at |-> 0]
  ELSE loop

\* A loop when LL_DELETE takes the i-th node out of its list: it links the node's
\* neighbours and leaves the node alone.
Unlinked(loop, list, i) ==
  IF i < loop.at THEN [loop EXCEPT !.at = @ - 1]
  ELSE IF i = loop.at
       THEN [gone |-> Append(loop.gone, list[i]), at |-> IF i = Len(list) THEN 0 ELSE i]
  ELSE loop

-----------------------------------------------------------------------------
(* The operator's commands.                                                *)

\* (Faulty: names are compared in full, as they were typed.)
search_typed(name) ==
  LET hits == {i \in DOMAIN eids : eids[i].name = name}
  IN IF hits = {} THEN 0 ELSE Min(hits)

\* The place of the EID in the list, 0 if there is none.
search_eid(name) ==
  LET hits == {i \in DOMAIN eids : eids[i].name = Truncated[name]}
  IN IF hits = {} THEN 0 ELSE Min(hits)

\* What there is to register: for each EID, prefix and map server.
Listed == {mapsrvs[i].addr : i \in DOMAIN mapsrvs}
Due == {o \in SiteName \X EidPrefix \X Listed :
          \E i \in DOMAIN eids : o[1] = eids[i].name /\ o[2] \in ToSet(eids[i].prefixes)}
Keyed == {o \in EidPrefix \X (Key \cup {NoKey}) :
            \E i \in DOMAIN eids : o[1] \in ToSet(eids[i].prefixes) /\ o[2] = eids[i].key}

Answer(command, code) ==
  /\ reply' = [to |-> command, code |-> code]
  /\ sent' = {}
  /\ owed' = owed \cap Due'
  /\ keyed' = IF level = "asleep" THEN {} ELSE keyed \cup Keyed'
  /\ listed' = IF level = "server" THEN listed \cup Listed' ELSE {}
  /\ UNCHANGED <<unreachable, level, done, buf>>
Refuse(command, code) == /\ UNCHANGED <<config, loops, wild>>
                         /\ Answer(command, code)
Success(command) == Answer(command, "SUCCESS")

cmd_create_eid(name) ==
  \/ search_eid(name) # 0 /\ Refuse("eid", "EID_EXISTS")
  \/ /\ search_eid(name) = 0
     /\ Len(eids) + Len(eidLoop.gone) < MaxSites
     /\ eids' = Append(eids, [name |-> Truncated[name], key |-> NoKey, prefixes |-> <<>>])
     /\ UNCHANGED <<locs, mapsrvs, loops, wild>>
     /\ Success("eid")

\* The commands that need an EID, given what they do with the i-th.
WithEid(name, A(_)) ==
  \/ search_eid(name) = 0 /\ Refuse("eid", "EID_DOES_NOT_EXISTS")
  \/ search_eid(name) # 0 /\ A(search_eid(name))

\* The EID is freed, its list of prefixes is not.
cmd_delete_eid(name) ==
  LET delete(i) == /\ eids' = RemoveAt(eids, i)
                   /\ eidLoop' = Unlinked(eidLoop, eids, i)
                   /\ UNCHANGED <<locs, mapsrvs, prefixLoop, serverLoop, wild>>
                   /\ Success("eid")
  IN WithEid(name, delete)

\* A key of LISP_MAX_KEYLEN characters passes the test, and its final null goes
\* into the pointer to the EID's prefixes.
cmd_set_eid_authentication_key(name, key) ==
  LET set(i) == IF key \in LongKey THEN Refuse("eid", "AUTHKEY_TOO_LONG")
                ELSE /\ eids' = [eids EXCEPT ![i].key = key]
                     /\ wild' \in IF key \in FullKey THEN BOOLEAN ELSE {FALSE}
                     /\ UNCHANGED <<locs, mapsrvs, loops>>
                     /\ Success("eid")
  IN WithEid(name, set)

\* The prefixes of the i-th EID, and the nodes a loop over them still comes by.
PrefixList(i) == eids[i].prefixes
StandsAt(i) == eidLoop.gone = <<>> /\ eidLoop.at = i
PlaceOf(p, i) == Min({j \in DOMAIN PrefixList(i) : PrefixList(i)[j] = p})

cmd_set_eid_prefix(name, p) ==
  LET set(i) == IF p \notin EidPrefix THEN Refuse("eid", "INVALID_ADDRESS")
                ELSE IF p \in ToSet(PrefixList(i)) THEN Refuse("eid", "ADDRESS_EXISTS")
                ELSE /\ Len(PrefixList(i)) + Len(prefixLoop.gone) < MaxPrefixes
                     /\ eids' = [eids EXCEPT ![i].prefixes = Append(@, p)]
                     /\ UNCHANGED <<locs, mapsrvs, loops, wild>>
                     /\ Success("eid")
  IN WithEid(name, set)

\* The prefix is freed.
cmd_unset_eid_prefix(name, p) ==
  LET unset(i) ==
        IF p \notin ToSet(PrefixList(i)) THEN Refuse("eid", "ADDRESS_DOES_NOT_EXISTS")
        ELSE /\ eids' = [eids EXCEPT ![i].prefixes = RemoveAt(@, PlaceOf(p, i))]
             /\ prefixLoop' = IF StandsAt(i) THEN Unlinked(prefixLoop, PrefixList(i), PlaceOf(p, i))
                              ELSE prefixLoop
             /\ UNCHANGED <<locs, mapsrvs, eidLoop, serverLoop, wild>>
             /\ Success("eid")
  IN WithEid(name, unset)

LocatorAt(a) == {i \in DOMAIN locs : locs[i].addr = a}

cmd_create_locator(a) ==
  \/ LocatorAt(a) # {} /\ Refuse("locator", "LOCATOR_EXISTS")
  \/ /\ LocatorAt(a) = {}
     /\ Len(locs) < MaxLocators
     /\ locs' = Append(locs, [addr |-> a, priority |-> 0])
     /\ UNCHANGED <<eids, mapsrvs, loops, wild>>
     /\ Success("locator")

cmd_delete_locator(a) ==
  \/ LocatorAt(a) = {} /\ Refuse("locator", "LOCATOR_DOES_NOT_EXISTS")
  \/ /\ LocatorAt(a) # {}
     /\ locs' = RemoveAt(locs, Min(LocatorAt(a)))
     /\ UNCHANGED <<eids, mapsrvs, loops, wild>>
     /\ Success("locator")

\* (Faulty: the number is kept as it is.)
set_paramater_wide(a, value) ==
  \/ LocatorAt(a) = {} /\ Refuse("locator", "LOCATOR_DOES_NOT_EXISTS")
  \/ /\ LocatorAt(a) # {}
     /\ locs' = [locs EXCEPT ![Min(LocatorAt(a))].priority = value]
     /\ UNCHANGED <<eids, mapsrvs, loops, wild>>
     /\ Success("locator")

\* The number goes into eight bits.  (The three other parameters are alike.)
cmd_set_locator_paramater(a, value) ==
  \/ LocatorAt(a) = {} /\ Refuse("locator", "LOCATOR_DOES_NOT_EXISTS")
  \/ /\ LocatorAt(a) # {}
     /\ locs' = [locs EXCEPT ![Min(LocatorAt(a))].priority = value % 256]
     /\ UNCHANGED <<eids, mapsrvs, loops, wild>>
     /\ Success("locator")

\* The address fills the first bytes of a sockaddr_storage on the stack; the
\* rest of it is whatever was there.
cmd_set_map_server(a) ==
  /\ Len(mapsrvs) + Len(serverLoop.gone) < MaxServers
  /\ \E tail \in Padding : mapsrvs' = Append(mapsrvs, [addr |-> a, tail |-> tail])
  /\ UNCHANGED <<eids, locs, loops, wild>>
  /\ Success("mapserver")

\* unset_lisp_mapserver compares all the bytes.  The address is not freed.
cmd_delete_map_server(a) ==
  \E tail \in Padding :
    LET hits == {i \in DOMAIN mapsrvs : mapsrvs[i] = [addr |-> a, tail |-> tail]}
    IN IF hits = {} THEN Refuse("mapserver", "INVALID_ADDRESS")
       ELSE /\ mapsrvs' = RemoveAt(mapsrvs, Min(hits))
            /\ serverLoop' = Unlinked(serverLoop, mapsrvs, Min(hits))
            /\ UNCHANGED <<eids, locs, eidLoop, prefixLoop, wild>>
            /\ Success("mapserver")

Command ==
  \/ \E n \in Name :
       \/ cmd_create_eid(n)
       \/ cmd_delete_eid(n)
       \/ \E k \in Key : cmd_set_eid_authentication_key(n, k)
       \/ \E p \in EidPrefix \cup {"delete"} : cmd_set_eid_prefix(n, p)
       \/ \E p \in EidPrefix : cmd_unset_eid_prefix(n, p)
  \/ \E a \in LocatorAddr :
       \/ cmd_create_locator(a)
       \/ cmd_delete_locator(a)
       \/ \E v \in Parameter : cmd_set_locator_paramater(a, v)
  \/ \E a \in Server : cmd_set_map_server(a) \/ cmd_delete_map_server(a)

-----------------------------------------------------------------------------
(* The register thread.                                                    *)

\* What the loops stand at.
ThisEid == Standing(eidLoop, eids)
ThisPrefix == Standing(prefixLoop, ThisEid.prefixes)
ThisServer == Standing(serverLoop, mapsrvs).addr

\* The thread goes to a loop, and sends the messages M.
Goes(to, over, M) ==
  /\ level' = to /\ done' = over
  /\ sent' = M
  /\ reply' = NoReply
  /\ UNCHANGED <<config, unreachable>>

\* The ten seconds are over.
WakeUp ==
  /\ level = "asleep"
  /\ eids # <<>>
  /\ Goes("eid", FALSE, {})
  /\ eidLoop' = Begin(eids)
  /\ owed' = Due
  /\ keyed' = Keyed
  /\ UNCHANGED <<prefixLoop, serverLoop, buf, listed, wild>>

\* send_map_register reads the EID's prefix_tuple.  Of an EID that was freed it is
\* what it was, as long as the memory has not been given to something else.
RegisterEid ==
  /\ level = "eid" /\ ~done /\ eidLoop # Over
  /\ IF mapsrvs = <<>> THEN Goes("eid", TRUE, {}) /\ UNCHANGED <<prefixLoop, wild>>
     ELSE /\ Goes("prefix", FALSE, {})
          /\ prefixLoop' = Begin(ThisEid.prefixes)
          /\ wild' \in IF eidLoop.gone = <<>> THEN {FALSE} ELSE BOOLEAN
  /\ UNCHANGED <<eidLoop, serverLoop, buf, owed, keyed, listed>>

\* Building a message from memory that was freed.  The key is still there, in an EID
\* whose memory is not in use again; of a prefix free() itself has written over the
\* family and the length.
Garbled == IF prefixLoop.gone # <<>> THEN {TRUE}
           ELSE IF eidLoop.gone # <<>> THEN BOOLEAN ELSE {FALSE}

\* (Faulty: the key is read with the EID's first prefix only.)
BuildHoisted ==
  /\ level = "prefix" /\ ~done /\ prefixLoop # Over
  /\ Goes("server", FALSE, {})
  /\ buf' = [prefix |-> ThisPrefix, key |-> IF buf = Empty THEN ThisEid.key ELSE buf.key]
  /\ serverLoop' = Begin(mapsrvs)
  /\ listed' = Listed
  /\ wild' \in Garbled
  /\ UNCHANGED <<eidLoop, prefixLoop, owed, keyed>>

\* The message for all the map servers.  (What set_lisp_map_register writes, the
\* locators included, is MapMessage's.)
BuildRegister ==
  /\ level = "prefix" /\ ~done /\ prefixLoop # Over
  /\ Goes("server", FALSE, {})
  /\ buf' = [prefix |-> ThisPrefix, key |-> ThisEid.key]
  /\ serverLoop' = Begin(mapsrvs)
  /\ listed' = Listed
  /\ wild' \in Garbled
  /\ UNCHANGED <<eidLoop, prefixLoop, owed, keyed>>

Message == [prefix |-> buf.prefix, key |-> buf.key, server |-> ThisServer]

SendRegister ==
  /\ level = "server" /\ ~done /\ serverLoop # Over
  /\ ThisServer \notin unreachable
  /\ Goes("server", TRUE, {Message})
  /\ owed' = owed \ {<<ThisEid.name, buf.prefix, ThisServer>>}
  /\ UNCHANGED <<loops, buf, keyed, listed, wild>>

\* sendto fails, and send_map_register returns: the EID's other prefixes and the
\* map servers behind this one are left out.
SendFails ==
  /\ level = "server" /\ ~done /\ serverLoop # Over
  /\ ThisServer \in unreachable
  /\ Goes("eid", TRUE, {})
  /\ owed' = {o \in owed : o[1] # ThisEid.name}
  /\ prefixLoop' = Over /\ serverLoop' = Over /\ buf' = Empty /\ listed' = {}
  /\ UNCHANGED <<eidLoop, keyed, wild>>

\* Each loop goes on to the next node, and is over when there is none.
NextServer ==
  /\ level = "server" /\ done
  /\ Goes("server", FALSE, {})
  /\ serverLoop' = Moved(serverLoop, mapsrvs)
  /\ UNCHANGED <<eidLoop, prefixLoop, buf, owed, keyed, listed, wild>>

LastServer ==
  /\ level = "server" /\ ~done /\ serverLoop = Over
  /\ Goes("prefix", TRUE, {})
  /\ listed' = {}
  /\ UNCHANGED <<loops, buf, owed, keyed, wild>>

NextPrefix ==
  /\ level = "prefix" /\ done
  /\ Goes("prefix", FALSE, {})
  /\ prefixLoop' = Moved(prefixLoop, ThisEid.prefixes)
  /\ UNCHANGED <<eidLoop, serverLoop, buf, owed, keyed, listed, wild>>

LastPrefix ==
  /\ level = "prefix" /\ ~done /\ prefixLoop = Over
  /\ Goes("eid", TRUE, {})
  /\ buf' = Empty
  /\ UNCHANGED <<loops, owed, keyed, listed, wild>>

NextEid ==
  /\ level = "eid" /\ done
  /\ Goes("eid", FALSE, {})
  /\ eidLoop' = Moved(eidLoop, eids)
  /\ UNCHANGED <<prefixLoop, serverLoop, buf, owed, keyed, listed, wild>>

LastEid ==
  /\ level = "eid" /\ ~done /\ eidLoop = Over
  /\ Goes("asleep", FALSE, {})
  /\ keyed' = {}
  /\ UNCHANGED <<loops, buf, owed, listed, wild>>

-----------------------------------------------------------------------------

\* The routes to the map servers come and go.
Network ==
  /\ \E s \in Unstable :
       unreachable' \in {unreachable \cup {s}, unreachable \ {s}} \ {unreachable}
  /\ sent' = {} /\ reply' = NoReply
  /\ UNCHANGED <<config, level, done, loops, buf, owed, keyed, listed, wild>>

\* After undefined behaviour nothing is said about the daemon.
Undefined == wild /\ UNCHANGED vars

Init ==
  /\ eids = <<>> /\ locs = <<>> /\ mapsrvs = <<>>
  /\ unreachable = {}
  /\ level = "asleep" /\ done = FALSE
  /\ eidLoop = Over /\ prefixLoop = Over /\ serverLoop = Over
  /\ buf = Empty
  /\ sent = {}
  /\ reply = NoReply
  /\ owed = {} /\ keyed = {} /\ listed = {}
  /\ wild = FALSE

Register == \/ WakeUp
            \/ RegisterEid \/ BuildRegister \/ SendRegister \/ SendFails
            \/ NextServer \/ LastServer \/ NextPrefix \/ LastPrefix \/ NextEid \/ LastEid

Next == \/ ~wild /\ (Command \/ Register \/ Network)
        \/ Undefined

Spec == Init /\ [][Next]_vars

\* The register thread sleeps and registers for ever.
FairSpec == Spec /\ WF_vars(~wild /\ Register)

-----------------------------------------------------------------------------
(* What holds.                                                             *)

Eid == [name : SiteName, key : Key \cup {NoKey}, prefixes : Seq(EidPrefix)]

\* A loop over a list of entries of T.
LoopOver(loop, list, T) == loop \in [gone : Seq(T), at : 0..Len(list)]

TypeOK ==
  /\ eids \in Seq(Eid)
  /\ locs \in Seq([addr : LocatorAddr, priority : 0..255])
  /\ mapsrvs \in Seq([addr : Server, tail : Padding])
  /\ unreachable \subseteq Unstable
  /\ level \in {"asleep", "eid", "prefix", "server"} /\ done \in BOOLEAN
  /\ LoopOver(eidLoop, eids, Eid)
  /\ level = "asleep" => eidLoop = Over
  /\ level \in {"prefix", "server"} =>
       eidLoop # Over /\ LoopOver(prefixLoop, ThisEid.prefixes, EidPrefix)
  /\ level = "server" => prefixLoop # Over
  /\ LoopOver(serverLoop, mapsrvs, [addr : Server, tail : Padding])
  /\ buf \in [prefix : EidPrefix, key : Key \cup {NoKey}] \cup {Empty}
  /\ owed \subseteq SiteName \X EidPrefix \X Server
  /\ wild \in BOOLEAN

\* A pass over the EIDs ends with every prefix registered with every map server
\* that were both configured from its start to its end, whatever EIDs, prefixes and
\* map servers the operator deletes or creates under the three loops; except of an
\* EID in whose registration a sendto failed (lisp_map_register_thread in
\* instance.c, send_map_register in map.c, over list.c).
SweepRegistersAll == level = "asleep" /\ ~wild => owed = {}

\* A Map-Register tells a map server that was configured since the message was
\* built that a prefix belongs to the site of a key, and both were together in one
\* EID at some moment since this pass began: what the operator has taken out or
\* changed before a pass is not registered in it, although the thread goes by
\* unlinked nodes and an EID that is freed (send_map_register in map.c).
SentWasConfigured ==
  [][\A m \in sent' : <<m.prefix, m.key>> \in keyed /\ m.server \in listed]_vars

\* The pass over lists the operator keeps changing comes to its end once he stops,
\* and with all map servers in reach what stays configured is registered again and
\* again.
RegisteredForEver ==
  \A p \in EidPrefix, s \in Server :
    (/\ <>[][UNCHANGED config]_vars
     /\ <>[](/\ ~wild /\ Listed \cap unreachable = {}
             /\ \E n \in SiteName : <<n, p, s>> \in Due)) =>
      []<>(\E m \in sent : m.prefix = p /\ m.server = s)

Promised == INSTANCE Sites WITH
  Key <- (Key \ LongKey) \cup {NoKey},
  answer <- IF reply.to = "eid" THEN reply.code ELSE "none",
  sites <- [s \in SiteName |->
              LET at == {i \in DOMAIN eids : eids[i].name = s}
              IN IF at = {} THEN [site |-> "none"]
                 ELSE [key |-> eids[Min(at)].key, prefixes |-> ToSet(eids[Min(at)].prefixes)]]

\* The EID commands implement a table of sites.
ImplementsSites == Promised!Spec

-----------------------------------------------------------------------------
(* What the repository says and the code does not do.                      *)

\* instance.h:31 "register EID periodically": what stays configured, with a map
\* server that can be reached, is registered again and again.
RegisteredPeriodically ==
  \A p \in EidPrefix, s \in Server :
    (/\ <>[][UNCHANGED config]_vars
     /\ <>[](~wild /\ s \notin unreachable /\ \E n \in SiteName : <<n, p, s>> \in Due)) =>
      []<>(\E m \in sent : m.prefix = p /\ m.server = s)

===============================================================================
