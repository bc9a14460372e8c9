---------------------------- MODULE MapTableThreads ----------------------------
(***************************************************************************)
(* The calls on the map table (maptable.c) in their inner steps, as the    *)
(* five threads that make them run: the raw packet watcher, the Map-Reply  *)
(* handler, the timer, the operator and the data plane.  Nothing locks the *)
(* table, so a thread may stand anywhere inside a call while another one   *)
(* replaces, removes or frees what it holds.                               *)
(*                                                                         *)
(* A tree operation (patricia.c) is one step, and so is an access to a map *)
(* node.  Once linked, a map node keeps its state, so a pointer carries    *)
(* it; free turns every copy of a pointer into Freed.  Time-to-live is     *)
(* left out: an entry the timer visits may have expired or not.            *)
(***************************************************************************)
EXTENDS Prefixes, FiniteSets

CONSTANTS
  Prefix,        \* the prefixes and host addresses of one address family
  Host,          \* those of full length
  ReplyPrefix,   \* the EID prefixes the mapping system answers with
  StaticPrefix,  \* the prefixes the operator configures as static routes
  MaxBusy        \* how many threads are inside a call at a time (a bound)

ASSUME PrefixAssumption == Prefix \subseteq Seq({0, 1})
ASSUME FiniteAssumption == IsFiniteSet(Prefix)
ASSUME SubsetAssumption == /\ Host \subseteq Prefix
                           /\ ReplyPrefix \subseteq Prefix
                           /\ StaticPrefix \subseteq Prefix
ASSUME BusyAssumption == MaxBusy \in Nat \ {0}

VARIABLES
  tree,        \* the data pointer of each prefix's tree node
  routes,      \* the prefixes the kernel routes to lisp0
  th,          \* where each thread is in its call, and its local variables
  fault,       \* the first access to memory that must not be accessed
  late,        \* (history) prefixes whose route the operator took too late
  missed,      \* (history) a removal took another entry than it had looked up
  overlapped   \* (history) two calls have overlapped

history == <<late, missed, overlapped>>
vars == <<tree, routes, th, fault, late, missed, overlapped>>

Thread == {"watcher", "message", "timer", "operator", "data"}

\* A negative entry stands for one that drops, too.
EntryState == {"active", "negative", "queried", "static"}
InUse == {"active", "static"}

Absent == [id |-> 0, state |-> "absent"]   \* no tree node
Null == [id |-> 0, state |-> "null"]
Freed == [id |-> 0, state |-> "freed"]

Idle == [pc |-> "idle", arg |-> <<>>, new |-> "none", mn |-> Null,
         pn |-> "none", since |-> {}]

Busy == {t \in Thread : th[t].pc # "idle"}
At(t, label) == fault = "none" /\ th[t].pc = label
Moved(t, label) == IF label = "idle" THEN Idle ELSE [th[t] EXCEPT !.pc = label]
Go(t, label) == th' = [th EXCEPT ![t] = Moved(t, label)]

Crash(kind) == /\ fault' = kind
               /\ UNCHANGED <<tree, routes, th, history>>

-----------------------------------------------------------------------------
(* Memory.                                                                 *)

\* A number no pointer has: memory that is free, or leaked.
Fresh == LET used == {tree[p].id : p \in Prefix} \cup {th[t].mn.id : t \in Thread}
         IN CHOOSE i \in 1..Cardinality(Prefix) + Cardinality(Thread) + 1 : i \notin used

\* free(x), where the freeing thread goes on at label.
free(t, x, label) ==
  /\ tree' = [p \in Prefix |-> IF tree[p] = x THEN Freed ELSE tree[p]]
  /\ th' = [u \in Thread |->
              IF u = t THEN [Moved(t, label) EXCEPT !.mn = Null]
              ELSE IF th[u].mn = x THEN [th[u] EXCEPT !.mn = Freed] ELSE th[u]]

Present == {p \in Prefix : tree[p] # Absent}
Found(p) == IF Covering(Present, p) = {} THEN Null ELSE tree[LongestMatch(Present, p)]

-----------------------------------------------------------------------------
(* How the calls begin.                                                    *)

Begin(t, call) ==
  /\ fault = "none"
  /\ t \notin Busy
  /\ Cardinality(Busy) < MaxBusy
  /\ th' = [th EXCEPT ![t] = call]
  /\ UNCHANGED <<tree, routes, fault, late, missed>>

Call(label, p, new) == [Idle EXCEPT !.pc = label, !.arg = p, !.new = new]

\* is_route_scope_link comes first; the table is searched after it.
Watch(h) ==
  /\ Covering(routes, h) = {}
  /\ Begin("watcher", Call("search", h, "queried"))
  /\ overlapped' = (overlapped \/ Busy # {})

\* A record with locators, and one without.
Reply(p) ==
  /\ \/ Begin("message", Call("search", p, "active"))
     \/ Begin("message", Call("lookup", p, "negative"))
  /\ overlapped' = (overlapped \/ Busy # {})

install_mapnode_static(p) ==
  /\ Begin("operator", Call("lookup", p, "static"))
  /\ overlapped' = (overlapped \/ Busy # {})

uninstall_mapnode_static(p) ==
  /\ Begin("operator", Call("search", p, "none"))
  /\ overlapped' = (overlapped \/ Busy # {})

Forward(h) ==
  /\ Covering(routes, h) # {}
  /\ Begin("data", Call("search", h, "none"))
  /\ overlapped' = (overlapped \/ Busy # {})

\* The walk comes to a node and loads its map node.  Below a static entry that
\* is so only where the entry appeared behind the walk's back.
Shielded(p) == \E s \in Prefix : tree[s].state = "static" /\ StrictlyCovers(s, p)
Visit(p) ==
  /\ tree[p] # Absent
  /\ Begin("timer", [Call("age", p, "none") EXCEPT !.mn = tree[p], !.pn = "held"])
  /\ overlapped' = (overlapped \/ Busy # {} \/ Shielded(p))

-----------------------------------------------------------------------------
(* search_mapnode, and what its callers do with the result.                *)

\* (Faulty: the operator's removal goes on without an entry, and a mapping is
\* entered whether or not the table has one.)
AfterSearchRemoving(t, mn) ==
  CASE t = "operator" -> "check"
    [] t = "message"  -> IF mn = Null THEN "lookup" ELSE "use"
    [] OTHER          -> "idle"
AfterSearchEntering(t, mn) ==
  CASE t = "message"  -> "lookup"
    [] t = "operator" -> IF mn = Null THEN "idle" ELSE "check"
    [] OTHER          -> "idle"

AfterSearch(t, mn) ==
  CASE t = "watcher"  -> IF mn = Null THEN "lookup" ELSE "idle"
    [] t = "message"  -> IF mn = Null THEN "lookup" ELSE "use"
    [] t = "operator" -> IF mn = Null THEN "idle" ELSE "check"
    [] t = "data"     -> IF mn = Null THEN "idle" ELSE "use"

Search(t) ==
  /\ At(t, "search")
  /\ LET mn == Found(th[t].arg)
         next == Moved(t, AfterSearch(t, mn))
     IN th' = [th EXCEPT ![t] = IF next = Idle THEN Idle ELSE [next EXCEPT !.mn = mn]]
  /\ UNCHANGED <<tree, routes, fault, history>>

\* The data plane reads state and address, the message thread sets the ttl.
Use(t) ==
  /\ At(t, "use")
  /\ \/ th[t].mn = Freed /\ Crash("use after free")
     \/ /\ th[t].mn # Freed
        /\ Go(t, "idle")
        /\ UNCHANGED <<tree, routes, fault, history>>

-----------------------------------------------------------------------------
(* update_mapnode.                                                         *)

Lookup(t) ==
  /\ At(t, "lookup")
  /\ LET p == th[t].arg IN
       tree' = IF tree[p] = Absent THEN [tree EXCEPT ![p] = Null] ELSE tree
  /\ th' = [th EXCEPT ![t] = [Moved(t, "test") EXCEPT !.pn = "held"]]
  /\ UNCHANGED <<routes, fault, history>>

\* The tree node was removed meanwhile: it is freed, or glue.
Gone(t) == th[t].pn = "gone" /\ Crash("tree node")

\* (Faulty: the static entry is found out after its memory is freed.)
TestFreeing(t) ==
  /\ At(t, "test")
  /\ LET old == tree[th[t].arg] IN
       \/ Gone(t)
       \/ th[t].pn = "held" /\ old = Freed /\ Crash("use after free")
       \/ /\ th[t].pn = "held" /\ old # Freed
          /\ IF old = Null THEN Go(t, "set") /\ UNCHANGED tree
             ELSE free(t, old, IF old.state = "static" THEN "idle" ELSE "set")
          /\ UNCHANGED <<routes, fault, history>>

\* (Faulty: without the test for a static entry.)
TestNothing(t) ==
  /\ At(t, "test")
  /\ LET old == tree[th[t].arg] IN
       \/ Gone(t)
       \/ th[t].pn = "held" /\ old = Freed /\ Crash("use after free")
       \/ /\ th[t].pn = "held" /\ old # Freed
          /\ th' = [th EXCEPT ![t] = IF old = Null THEN Moved(t, "set")
                                     ELSE [Moved(t, "free") EXCEPT !.mn = old]]
          /\ UNCHANGED <<tree, routes, fault, history>>

Test(t) ==
  /\ At(t, "test")
  /\ LET old == tree[th[t].arg] IN
       \/ Gone(t)
       \/ th[t].pn = "held" /\ old = Freed /\ Crash("use after free")
       \/ /\ th[t].pn = "held" /\ old # Freed
          /\ th' = [th EXCEPT ![t] =
                      CASE old = Null -> Moved(t, "set")
                        [] old.state = "static" -> Idle
                        [] OTHER -> [Moved(t, "free") EXCEPT !.mn = old]]
          /\ UNCHANGED <<tree, routes, fault, history>>

\* free (pn->data): the compiler may keep the pointer it tested, or load it anew.
FreeOld(t) ==
  /\ At(t, "free")
  /\ \/ Gone(t)
     \/ /\ th[t].pn = "held"
        /\ \E old \in {th[t].mn, tree[th[t].arg]} :
             \/ old = Freed /\ Crash("double free")
             \/ /\ old # Freed
                /\ free(t, old, "set")
                /\ UNCHANGED <<routes, fault, history>>

\* Every thread inside a call when p becomes static is noted with it.
Set(t) ==
  /\ At(t, "set")
  /\ \/ Gone(t)
     \/ LET p == th[t].arg
            new == th[t].new
            next == Moved(t, IF new \in InUse THEN "route" ELSE "idle")
        IN /\ th[t].pn = "held"
           /\ tree' = [tree EXCEPT ![p] = [id |-> Fresh, state |-> new]]
           /\ th' = [u \in Thread |->
                       IF u = t THEN next
                       ELSE IF new = "static" /\ u \in Busy
                         THEN [th[u] EXCEPT !.since = @ \cup {p}] ELSE th[u]]
           /\ UNCHANGED <<routes, fault, history>>

AddRoute(t) ==
  /\ At(t, "route")
  /\ routes' = routes \cup {th[t].arg}
  /\ late' = late \ {th[t].arg}
  /\ Go(t, "idle")
  /\ UNCHANGED <<tree, fault, missed, overlapped>>

-----------------------------------------------------------------------------
(* The operator's removal, and the timer.                                  *)

\* (Faulty: the timer removes the entry before its route.)
AfterEntryFirst(t) ==
  IF t = "timer"
  THEN [age |-> "delete", delete |-> "unroute", unroute |-> "idle"]
  ELSE [check |-> "delete", delete |-> "unroute", unroute |-> "release"]

\* The timer takes the route first, the operator the entry.
After(t) ==
  IF t = "timer"
  THEN [age |-> "unroute", unroute |-> "delete", delete |-> "idle"]
  ELSE [check |-> "delete", delete |-> "unroute", unroute |-> "release"]

Check ==
  /\ At("operator", "check")
  /\ LET mn == th["operator"].mn IN
       \/ mn = Freed /\ Crash("use after free")
       \/ /\ mn # Freed
          /\ Go("operator", IF mn.state \in {"active", "queried"} THEN "idle"
                            ELSE After("operator").check)
          /\ UNCHANGED <<tree, routes, fault, history>>

\* An expired entry goes; another one is asked for again, by its tree node's
\* prefix, unless it drops packets.
Age ==
  /\ At("timer", "age")
  /\ LET mn == th["timer"].mn IN
       \/ mn = Null /\ Crash("null")
       \/ mn = Freed /\ Crash("use after free")
       \/ mn.state \in EntryState \ {"static"} /\ Gone("timer")
       \/ /\ mn \notin {Null, Freed}
          /\ \/ Go("timer", "idle")
             \/ mn.state # "static" /\ Go("timer", After("timer").age)
          /\ UNCHANGED <<tree, routes, fault, history>>

\* delete_mapnode: what is found now is removed, not what was found before.
Delete(t) ==
  /\ At(t, "delete")
  /\ \/ Gone(t)
     \/ LET S == Covering(Present, th[t].arg)
            q == LongestMatch(Present, th[t].arg)
            next == [th EXCEPT ![t] = Moved(t, After(t).delete)]
        IN /\ th[t].pn # "gone"
           /\ IF S = {} THEN tree' = tree /\ th' = next
              ELSE /\ tree' = [tree EXCEPT ![q] = Absent]
                   /\ th' = [u \in Thread |->
                               IF u # t /\ th[u].pn = "held" /\ th[u].arg = q
                               THEN [th[u] EXCEPT !.pn = "gone"] ELSE next[u]]
           /\ missed' = (missed \/ (t = "operator" /\ (S = {} \/ tree[q] # th[t].mn)))
           /\ UNCHANGED <<routes, fault, late, overlapped>>

DelRoute(t) ==
  /\ At(t, "unroute")
  /\ LET p == th[t].arg
         taken == t = "operator" \/ th[t].mn.state = "active"
     IN \/ t = "timer" /\ Gone(t)
        \/ t = "timer" /\ th[t].mn = Freed /\ Crash("use after free")
        \/ /\ t = "operator" \/ (th[t].pn = "held" /\ th[t].mn # Freed)
           /\ routes' = IF taken THEN routes \ {p} ELSE routes
           /\ late' = IF t = "operator" /\ tree[p].state \in InUse
                        THEN late \cup {p} ELSE late
           /\ Go(t, After(t).unroute)
           /\ UNCHANGED <<tree, fault, missed, overlapped>>

Release ==
  /\ At("operator", "release")
  /\ LET mn == th["operator"].mn IN
       \/ mn = Freed /\ Crash("double free")
       \/ /\ mn # Freed
          /\ free("operator", mn, "idle")
          /\ UNCHANGED <<routes, fault, history>>

-----------------------------------------------------------------------------

Init ==
  /\ tree = [p \in Prefix |-> Absent]
  /\ routes = {}
  /\ th = [t \in Thread |-> Idle]
  /\ fault = "none"
  /\ late = {}
  /\ missed = FALSE
  /\ overlapped = FALSE

Updaters == {"watcher", "message", "operator"}
Update(t) == Lookup(t) \/ Test(t) \/ FreeOld(t) \/ Set(t) \/ AddRoute(t)

\* After an access to such memory nothing is said about the daemon.
Undefined == fault # "none" /\ UNCHANGED vars

Next ==
  \/ \E h \in Host : Watch(h) \/ Forward(h)
  \/ \E p \in ReplyPrefix : Reply(p)
  \/ \E p \in StaticPrefix : install_mapnode_static(p) \/ uninstall_mapnode_static(p)
  \/ \E p \in Prefix : Visit(p)
  \/ \E t \in Thread \ {"timer"} : Search(t)
  \/ \E t \in Updaters : Update(t)
  \/ \E t \in {"message", "data"} : Use(t)
  \/ \E t \in {"timer", "operator"} : Delete(t) \/ DelRoute(t)
  \/ Check \/ Release \/ Age
  \/ Undefined

Spec == Init /\ [][Next]_vars

-----------------------------------------------------------------------------
(* What holds.                                                             *)

Pointer(states) == [id : Nat \ {0}, state : states]

TypeOK ==
  /\ \A p \in Prefix : tree[p] \in Pointer(EntryState) \cup {Absent, Null, Freed}
  /\ routes \subseteq Prefix
  /\ \A t \in Thread : /\ th[t].arg \in Prefix \cup {<<>>}
                       /\ th[t].mn \in Pointer(EntryState) \cup {Null, Freed}
                       /\ th[t].pc \in {"use", "check", "release"} => th[t].mn # Null
                       /\ th[t].pn \in {"none", "held", "gone"}
                       /\ th[t].since \subseteq Prefix
  /\ fault \in {"none", "null", "use after free", "double free", "tree node"}
  /\ late \subseteq Prefix

\* An entry in use is without its kernel route only while a thread is about to
\* add it or to remove the entry, whatever calls overlap (the order of the
\* calls in map.c and maptable.c), but for one case: an entry learnt while the
\* operator removes another one of its prefix (maptable.c:134).
RouteKept ==
  \A p \in Prefix : tree[p].state \in InUse /\ p \notin routes =>
    \/ \E t \in Updaters : th[t].pc = "route" /\ th[t].arg = p
    \/ th["timer"].pc = "delete" /\ th["timer"].arg = p
    \/ p \in late

\* What the tree holds is a live map node: a data pointer is unset or freed
\* only inside an update of its prefix, which sets it (update_mapnode), but for
\* one case: a removal that took another entry than the one it then freed.
TreeHoldsLiveNodes ==
  fault = "none" =>
    \A p \in Prefix :
      LET updated(labels) == \E t \in Updaters : /\ th[t].pc \in labels
                                                 /\ th[t].arg = p
                                                 /\ th[t].pn = "held"
      IN /\ tree[p] = Null => updated({"test", "set"})
         /\ tree[p] = Freed => missed \/ updated({"set"})

\* No call that begins after a static entry is installed replaces, removes or
\* frees it, except the operator's own (update_mapnode's test, the walk's test);
\* a call that was under way may.
CallsKeepStatic ==
  [][\A p \in Prefix, t \in Thread \ {"operator"} :
       tree[p].state = "static" /\ tree'[p] # tree[p] /\ th'[t].pc # th[t].pc
         => p \in th[t].since]_vars

\* What the table is, where calls do not overlap: an update takes effect when
\* it has passed its test, a removal when the tree node goes.
Settling(p) == {t \in Updaters : th[t].pc \in {"free", "set"} /\ th[t].arg = p}
Routing == {p \in Prefix : \E t \in Updaters : /\ th[t].pc \in {"free", "set", "route"}
                                               /\ th[t].arg = p /\ th[t].new \in InUse}
cached == [p \in Prefix |->
             IF Settling(p) # {} THEN th[CHOOSE t \in Settling(p) : TRUE].new
             ELSE IF tree[p] \in {Absent, Null} THEN "none" ELSE tree[p].state]
tunnelled == IF th["operator"].pc = "unroute" THEN routes \ {th["operator"].arg}
             ELSE IF th["timer"].pc = "delete" /\ th["timer"].mn.state = "active"
               THEN routes \cup {th["timer"].arg}
             ELSE routes \cup Routing
Cache == INSTANCE MapCache WITH state <- cached, routes <- tunnelled

\* As long as no two calls overlap, the inner steps implement the map cache and
\* touch no memory they must not: MapTable, with one step per call, says what
\* the calls do, and each of them is right on its own.
ImplementsMapCacheAlone ==
  Cache!Init /\ [][overlapped' \/ (Cache!Next /\ fault' = "none")]_<<Cache!vars, fault>>

================================================================================
