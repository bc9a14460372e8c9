------------------------ MODULE MapTableThreads_proofs ------------------------
(***************************************************************************)
(* Theorems about MapTableThreads, for every set of prefixes and however   *)
(* many threads are inside a call at a time: first the tree nodes, then    *)
(* what each pointer to a map node still holds, however the calls of the   *)
(* five threads overlap.  No call that begins after a static entry is      *)
(* installed takes it away, and what the tree holds is live.  Calls that   *)
(* do not overlap implement the map cache, one step each.                  *)
(***************************************************************************)
EXTENDS MapTableThreads, PrefixTheorems, FiniteSetTheorems

Label == {"idle", "search", "use", "lookup", "test", "free", "set", "route",
          "check", "delete", "unroute", "release", "age"}

\* A thread's place in its call.  What its pointer holds does not matter here.
Local(M) == [pc : Label, arg : Prefix \cup {<<>>}, new : EntryState \cup {"none"},
             mn : M, pn : {"none", "held", "gone"}, since : SUBSET (Prefix \cup {<<>>})]

Shape == /\ \E V : tree \in [Prefix -> V]
         /\ \E M : th \in [Thread -> Local(M)]

-----------------------------------------------------------------------------
(* What the steps do to a thread's place.                                  *)

\* A thread that begins a call has the call's place.
LEMMA BeginShape ==
  ASSUME Shape, NEW t \in Thread, NEW label \in Label, NEW p \in Prefix,
         NEW new \in EntryState \cup {"none"}, Begin(t, Call(label, p, new))
  PROVE  Shape'
<1>1. PICK M : th \in [Thread -> Local(M)]
  BY DEF Shape
<1> DEFINE N == M \cup {Null}
<1>2. Call(label, p, new) \in Local(N)
  BY DEF Call, Idle, Local, Label
<1>3. th \in [Thread -> Local(N)]
  BY <1>1 DEF Local
<1>4. th' \in [Thread -> Local(N)]
  BY <1>2, <1>3 DEF Begin
<1> QED  BY <1>4 DEF Begin, Shape

\* Moving on changes the place only, or ends the call.
LEMMA MovedShape ==
  ASSUME NEW M, th \in [Thread -> Local(M)], NEW t \in Thread, NEW label \in Label
  PROVE  /\ Moved(t, label) \in Local(M \cup {Null})
         /\ Moved(t, label).pc = label
         /\ label # "idle" => Moved(t, label).arg = th[t].arg
<1>1. th[t] \in Local(M)
  OBVIOUS
<1>2. CASE label = "idle"
  BY <1>2 DEF Moved, Idle, Local, Label
<1>3. CASE label # "idle"
  <2>1. Moved(t, label) = [th[t] EXCEPT !.pc = label]
    BY <1>3 DEF Moved
  <2> QED  BY <1>1, <2>1 DEF Local
<1> QED  BY <1>2, <1>3

\* The places of all other threads stay as they are.
OthersStay(t) ==
  \A u \in Thread \ {t} : th'[u].pc = th[u].pc /\ th'[u].arg = th[u].arg

\* One thread moves on.
LEMMA GoShape ==
  ASSUME Shape, NEW t \in Thread, NEW label \in Label, Go(t, label)
  PROVE  /\ \E M : th' \in [Thread -> Local(M)]
         /\ OthersStay(t)
         /\ th'[t].pc = label
         /\ label # "idle" => th'[t].arg = th[t].arg
<1>1. PICK M : th \in [Thread -> Local(M)]
  BY DEF Shape
<1>2. th \in [Thread -> Local(M \cup {Null})]
  BY <1>1 DEF Local
<1>3. Moved(t, label) \in Local(M \cup {Null})
  BY <1>1, MovedShape
<1>4. th' = [th EXCEPT ![t] = Moved(t, label)]
  BY DEF Go
<1>5. th' \in [Thread -> Local(M \cup {Null})]
  BY <1>2, <1>3, <1>4
<1>6. th'[t] = Moved(t, label) /\ \A u \in Thread \ {t} : th'[u] = th[u]
  BY <1>1, <1>4
<1> QED  BY <1>1, <1>5, <1>6, MovedShape DEF OthersStay

\* free touches the pointers of all threads and the place of one.
LEMMA FreeShape ==
  ASSUME Shape, NEW t \in Thread, NEW x, NEW label \in Label, free(t, x, label)
  PROVE  /\ Shape'
         /\ OthersStay(t)
         /\ th'[t].pc = label
         /\ label # "idle" => th'[t].arg = th[t].arg
         /\ \A p \in Prefix : tree'[p] \in {tree[p], Freed}
<1>1. PICK M : th \in [Thread -> Local(M)]
  BY DEF Shape
<1>2. PICK V : tree \in [Prefix -> V]
  BY DEF Shape
<1> DEFINE N == M \cup {Null, Freed}
<1>3. Moved(t, label) \in Local(N)
  <2>1. Moved(t, label) \in Local(M \cup {Null})
    BY <1>1, MovedShape
  <2> QED  BY <2>1 DEF Local
<1>4. /\ [Moved(t, label) EXCEPT !.mn = Null] \in Local(N)
      /\ [Moved(t, label) EXCEPT !.mn = Null].pc = Moved(t, label).pc
      /\ [Moved(t, label) EXCEPT !.mn = Null].arg = Moved(t, label).arg
  BY <1>3 DEF Local
<1>5. \A u \in Thread : /\ th[u] \in Local(N)
                        /\ [th[u] EXCEPT !.mn = Freed] \in Local(N)
                        /\ [th[u] EXCEPT !.mn = Freed].pc = th[u].pc
                        /\ [th[u] EXCEPT !.mn = Freed].arg = th[u].arg
  BY <1>1 DEF Local
<1>6. th' = [u \in Thread |->
              IF u = t THEN [Moved(t, label) EXCEPT !.mn = Null]
              ELSE IF th[u].mn = x THEN [th[u] EXCEPT !.mn = Freed] ELSE th[u]]
  BY DEF free
<1>7. th' \in [Thread -> Local(N)]
  BY <1>4, <1>5, <1>6
<1>8. OthersStay(t)
  BY <1>5, <1>6 DEF OthersStay
<1>9. tree' \in [Prefix -> V \cup {Freed}] /\ \A p \in Prefix : tree'[p] \in {tree[p], Freed}
  BY <1>2 DEF free
<1>10. th'[t] = [Moved(t, label) EXCEPT !.mn = Null]
  BY <1>6
<1> QED  BY <1>1, <1>4, <1>7, <1>8, <1>9, <1>10, MovedShape DEF Shape

-----------------------------------------------------------------------------
(* Routes of entries in use.                                               *)

\* A step keeps RouteKept if its thread was neither about to add a route nor, as
\* the timer, to remove an entry, and if it puts no entry into use.
LEMMA Undisturbed ==
  ASSUME RouteKept, NEW t \in Thread, OthersStay(t),
         th[t].pc # "route", t = "timer" => th[t].pc # "delete",
         routes' = routes, late' = late,
         \A p \in Prefix : tree'[p].state \in InUse => tree[p].state \in InUse
  PROVE  RouteKept'
<1> SUFFICES ASSUME NEW p \in Prefix, tree'[p].state \in InUse, p \notin routes'
             PROVE  \/ \E u \in Updaters : th'[u].pc = "route" /\ th'[u].arg = p
                    \/ th'["timer"].pc = "delete" /\ th'["timer"].arg = p
                    \/ p \in late'
  BY DEF RouteKept
<1>1. \/ \E u \in Updaters : th[u].pc = "route" /\ th[u].arg = p
      \/ th["timer"].pc = "delete" /\ th["timer"].arg = p
      \/ p \in late
  BY DEF RouteKept
<1> QED  BY <1>1 DEF OthersStay, Updaters, Thread

\* The invariant, and why each step of a call keeps it.
Inv == Shape /\ RouteKept

\* A call begins: its thread was idle, and stands before its first step.
LEMMA BeginKeeps ==
  ASSUME Inv, NEW t \in Thread, NEW label \in Label, NEW p \in Prefix,
         NEW new \in EntryState \cup {"none"}, Begin(t, Call(label, p, new))
  PROVE  Inv'
<1>1. Shape'
  BY BeginShape DEF Inv
<1>2. th[t].pc = "idle"
  BY DEF Begin, Busy
<1>3. OthersStay(t)
  BY DEF Begin, OthersStay, Inv, Shape
<1> QED  BY <1>1, <1>2, <1>3, Undisturbed DEF Inv, Begin

\* A step that changes neither tree nor routes and moves one thread on.
LEMMA GoKeeps ==
  ASSUME Inv, NEW t \in Thread, NEW label \in Label, Go(t, label),
         th[t].pc # "route", t = "timer" => th[t].pc # "delete",
         UNCHANGED <<tree, routes, late>>
  PROVE  Inv'
<1>1. Shape'
  BY GoShape DEF Inv, Shape
<1>2. OthersStay(t)
  BY GoShape DEF Inv
<1> QED  BY <1>1, <1>2, Undisturbed DEF Inv

\* Freeing puts nothing into use.
LEMMA FreeKeeps ==
  ASSUME Inv, NEW t \in Thread, NEW x, NEW label \in Label, free(t, x, label),
         th[t].pc # "route", t = "timer" => th[t].pc # "delete",
         UNCHANGED <<routes, late>>
  PROVE  Inv'
<1>1. Shape' /\ OthersStay(t) /\ \A p \in Prefix : tree'[p] \in {tree[p], Freed}
  BY FreeShape DEF Inv
<1>2. Freed.state \notin InUse
  BY DEF Freed, InUse
<1> QED  BY <1>1, <1>2, Undisturbed DEF Inv

\* After a crash nothing has changed but fault.
LEMMA CrashKeeps ==
  ASSUME Inv, NEW kind, Crash(kind)
  PROVE  Inv'
BY DEF Inv, Shape, RouteKept, Crash, history

\* A search only loads a pointer.
LEMMA SearchKeeps ==
  ASSUME Inv, NEW t \in Thread \ {"timer"}, Search(t)
  PROVE  Inv'
<1>1. PICK M : th \in [Thread -> Local(M)]
  BY DEF Inv, Shape
<1> DEFINE mn == Found(th[t].arg)
           next == Moved(t, AfterSearch(t, mn))
           N == M \cup {Null, mn}
<1>2. AfterSearch(t, mn) \in Label
  BY DEF AfterSearch, Thread, Label
<1>3. next \in Local(N)
  <2>1. next \in Local(M \cup {Null})
    BY <1>1, <1>2, MovedShape
  <2> QED  BY <2>1 DEF Local
<1>4. Idle \in Local(N)
  BY DEF Idle, Local, Label
<1>5. [next EXCEPT !.mn = mn] \in Local(N)
  BY <1>3 DEF Local
<1>6. th \in [Thread -> Local(N)]
  BY <1>1 DEF Local
<1>7. th' = [th EXCEPT ![t] = IF next = Idle THEN Idle ELSE [next EXCEPT !.mn = mn]]
  BY DEF Search
<1> HIDE DEF next, N, mn
<1>8. th' \in [Thread -> Local(N)] /\ OthersStay(t)
  BY <1>4, <1>5, <1>6, <1>7 DEF OthersStay
<1>9. Shape'
  BY <1>8 DEF Search, Shape, Inv
<1> QED  BY <1>8, <1>9, Undisturbed DEF Inv, Search, At, history

\* Nor does reading what was found change the table.
LEMMA UseKeeps ==
  ASSUME Inv, NEW t \in Thread, Use(t)
  PROVE  Inv'
<1>1. CASE Crash("use after free")
  BY <1>1, CrashKeeps
<1>2. CASE Go(t, "idle") /\ UNCHANGED <<tree, routes, fault, history>>
  BY <1>2, GoKeeps DEF Use, At, history, Label
<1> QED  BY <1>1, <1>2 DEF Use

\* The timer comes to an entry.
LEMMA VisitKeeps ==
  ASSUME Inv, NEW p \in Prefix, Visit(p)
  PROVE  Inv'
<1>1. PICK M : th \in [Thread -> Local(M)]
  BY DEF Inv, Shape
<1> DEFINE call == [Call("age", p, "none") EXCEPT !.mn = tree[p], !.pn = "held"]
           N == M \cup {tree[p]}
<1>2. call \in Local(N)
  BY DEF Call, Idle, Local, Label
<1>3. th \in [Thread -> Local(N)]
  BY <1>1 DEF Local
<1>4. th' = [th EXCEPT !["timer"] = call] /\ th["timer"].pc = "idle"
  BY DEF Visit, Begin, Busy, Thread
<1> HIDE DEF call, N
<1>5. th' \in [Thread -> Local(N)] /\ OthersStay("timer")
  BY <1>2, <1>3, <1>4 DEF OthersStay, Thread
<1>6. Shape'
  BY <1>5 DEF Visit, Begin, Shape, Inv
<1> QED  BY <1>4, <1>5, <1>6, Undisturbed DEF Inv, Visit, Begin, Thread

\* The new tree node has no map node yet.
LEMMA LookupKeeps ==
  ASSUME Inv, NEW t \in Thread, Lookup(t)
  PROVE  Inv'
<1>1. PICK M : th \in [Thread -> Local(M)]
  BY DEF Inv, Shape
<1>2. PICK V : tree \in [Prefix -> V]
  BY DEF Inv, Shape
<1> DEFINE next == [Moved(t, "test") EXCEPT !.pn = "held"]
           N == M \cup {Null}
<1>3. Moved(t, "test") \in Local(N)
  BY <1>1, MovedShape DEF Label
<1>4. next \in Local(N)
  BY <1>3 DEF Local
<1>5. th \in [Thread -> Local(N)]
  BY <1>1 DEF Local
<1>6. th' = [th EXCEPT ![t] = next]
  BY DEF Lookup
<1> HIDE DEF next, N
<1>7. th' \in [Thread -> Local(N)] /\ OthersStay(t)
  BY <1>4, <1>5, <1>6 DEF OthersStay
<1>8. tree' \in [Prefix -> V \cup {Null}] /\ \A p \in Prefix : tree'[p] \in {tree[p], Null}
  BY <1>2 DEF Lookup
<1>9. Null.state \notin InUse
  BY DEF Null, InUse
<1> QED  BY <1>7, <1>8, <1>9, Undisturbed DEF Inv, Shape, Lookup, At, history

\* update_mapnode looks at the old entry.
LEMMA TestKeeps ==
  ASSUME Inv, NEW t \in Updaters, Test(t)
  PROVE  Inv'
<1> DEFINE old == tree[th[t].arg]
<1>1. CASE \E kind \in {"tree node", "use after free"} : Crash(kind)
  BY <1>1, CrashKeeps
<1>2. CASE /\ th' = [th EXCEPT ![t] = CASE old = Null -> Moved(t, "set")
                                       [] old.state = "static" -> Idle
                                       [] OTHER -> [Moved(t, "free") EXCEPT !.mn = old]]
           /\ UNCHANGED <<tree, routes, fault, history>>
  <2>1. PICK M : th \in [Thread -> Local(M)]
    BY DEF Inv, Shape
  <2> DEFINE N == M \cup {Null, old}
  <2>2. Moved(t, "set") \in Local(N) /\ Moved(t, "free") \in Local(N)
    <3>1. \A label \in {"set", "free"} : Moved(t, label) \in Local(M \cup {Null})
      BY <2>1, MovedShape DEF Label, Updaters, Thread
    <3> QED  BY <3>1 DEF Local
  <2>3. [Moved(t, "free") EXCEPT !.mn = old] \in Local(N) /\ Idle \in Local(N)
    BY <2>2 DEF Local, Idle, Label
  <2>4. th \in [Thread -> Local(N)]
    BY <2>1 DEF Local
  <2>5. \E next \in Local(N) : th' = [th EXCEPT ![t] = next]
    BY <1>2, <2>2, <2>3
  <2> HIDE DEF N
  <2>6. th' \in [Thread -> Local(N)] /\ OthersStay(t) /\ t \in Thread
    BY <2>4, <2>5 DEF OthersStay, Updaters, Thread
  <2> QED  BY <1>2, <2>6, Undisturbed DEF Inv, Shape, Test, At, history
<1> QED  BY <1>1, <1>2 DEF Test, Gone

\* update_mapnode frees it.
LEMMA FreeOldKeeps ==
  ASSUME Inv, NEW t \in Updaters, FreeOld(t)
  PROVE  Inv'
<1>1. CASE \E kind \in {"tree node", "double free"} : Crash(kind)
  BY <1>1, CrashKeeps
<1>2. CASE \E x : free(t, x, "set") /\ UNCHANGED <<routes, fault, history>>
  BY <1>2, FreeKeeps DEF FreeOld, At, history, Label, Updaters, Thread
<1> QED  BY <1>1, <1>2 DEF FreeOld, Gone

\* The one step that puts an entry into use: its thread goes on to the route.
LEMMA SetKeeps ==
  ASSUME Inv, NEW t \in Updaters, Set(t)
  PROVE  Inv'
<1>1. CASE Gone(t)
  BY <1>1, CrashKeeps DEF Gone
<1>2. CASE ~Gone(t)
  <2>1. PICK M : th \in [Thread -> Local(M)]
    BY DEF Inv, Shape
  <2>2. PICK V : tree \in [Prefix -> V]
    BY DEF Inv, Shape
  <2> DEFINE p == th[t].arg
             new == th[t].new
             next == Moved(t, IF new \in InUse THEN "route" ELSE "idle")
             node == [id |-> Fresh, state |-> new]
             N == M \cup {Null}
  <2>3. /\ tree' = [tree EXCEPT ![p] = node]
        /\ th' = [u \in Thread |->
                    IF u = t THEN next
                    ELSE IF new = "static" /\ u \in Busy
                      THEN [th[u] EXCEPT !.since = @ \cup {p}] ELSE th[u]]
        /\ UNCHANGED <<routes, fault, history>>
    BY <1>2 DEF Set
  <2>4. /\ next \in Local(N)
        /\ new \in InUse => next.pc = "route" /\ next.arg = p
    BY <2>1, MovedShape DEF Label, Updaters, Thread
  <2>5. p \in Prefix \cup {<<>>} /\ t \in Thread
    BY <2>1 DEF Local, Updaters, Thread
  <2> HIDE DEF next, node
  <2>6. \A u \in Thread : /\ th[u] \in Local(N)
                          /\ [th[u] EXCEPT !.since = @ \cup {p}] \in Local(N)
                          /\ [th[u] EXCEPT !.since = @ \cup {p}].pc = th[u].pc
                          /\ [th[u] EXCEPT !.since = @ \cup {p}].arg = th[u].arg
    BY <2>1, <2>5 DEF Local
  <2>7. /\ th' \in [Thread -> Local(N)]
        /\ OthersStay(t)
        /\ th'[t] = next
    BY <2>3, <2>4, <2>5, <2>6 DEF OthersStay
  <2>8. tree' \in [Prefix -> V \cup {node}]
    BY <2>2, <2>3
  <2>9. Shape'
    BY <2>7, <2>8 DEF Shape
  <2>10. RouteKept'
    <3> SUFFICES ASSUME NEW q \in Prefix, tree'[q].state \in InUse, q \notin routes'
                 PROVE  \/ \E u \in Updaters : th'[u].pc = "route" /\ th'[u].arg = q
                        \/ th'["timer"].pc = "delete" /\ th'["timer"].arg = q
                        \/ q \in late'
      BY DEF RouteKept
    <3>1. CASE q = p
      <4>1. tree'[q] = node
        BY <2>2, <2>3, <3>1
      <4>2. new \in InUse
        BY <4>1 DEF node
      <4> QED  BY <2>4, <2>7, <3>1, <4>2
    <3>2. CASE q # p
      <4>1. tree'[q] = tree[q]
        BY <2>2, <2>3, <3>2
      <4>2. \/ \E u \in Updaters : th[u].pc = "route" /\ th[u].arg = q
            \/ th["timer"].pc = "delete" /\ th["timer"].arg = q
            \/ q \in late
        BY <2>3, <4>1 DEF Inv, RouteKept
      <4>3. th[t].pc = "set" /\ t # "timer"
        BY DEF Set, At, Updaters
      <4> QED  BY <2>3, <2>7, <4>2, <4>3 DEF OthersStay, Updaters, Thread, history
    <3> QED  BY <3>1, <3>2
  <2> QED  BY <2>9, <2>10 DEF Inv
<1> QED  BY <1>1, <1>2

\* The route is there before its thread goes on.
LEMMA AddRouteKeeps ==
  ASSUME Inv, NEW t \in Updaters, AddRoute(t)
  PROVE  Inv'
<1>1. Go(t, "idle") /\ t \in Thread /\ t # "timer"
  BY DEF AddRoute, Updaters, Thread
<1>2. Shape' /\ OthersStay(t)
  BY <1>1, GoShape DEF Inv, Shape, AddRoute, Label
<1>3. /\ tree' = tree
      /\ routes' = routes \cup {th[t].arg}
      /\ late' = late \ {th[t].arg}
  BY DEF AddRoute
<1>4. RouteKept'
  <2> SUFFICES ASSUME NEW q \in Prefix, tree'[q].state \in InUse, q \notin routes'
               PROVE  \/ \E u \in Updaters : th'[u].pc = "route" /\ th'[u].arg = q
                      \/ th'["timer"].pc = "delete" /\ th'["timer"].arg = q
                      \/ q \in late'
    BY DEF RouteKept
  <2>1. q # th[t].arg
    BY <1>3
  <2>2. \/ \E u \in Updaters : th[u].pc = "route" /\ th[u].arg = q
        \/ th["timer"].pc = "delete" /\ th["timer"].arg = q
        \/ q \in late
    BY <1>3 DEF Inv, RouteKept
  <2> QED  BY <1>1, <1>2, <1>3, <2>1, <2>2 DEF OthersStay, Updaters, Thread
<1> QED  BY <1>2, <1>4 DEF Inv

\* The operator looks at what he has found.
LEMMA CheckKeeps ==
  ASSUME Inv, Check
  PROVE  Inv'
<1>1. CASE Crash("use after free")
  BY <1>1, CrashKeeps
<1>2. CASE ~Crash("use after free")
  <2>1. \E label \in {"idle", "delete"} : Go("operator", label)
    BY <1>2 DEF Check, After
  <2> QED  BY <1>2, <2>1, GoKeeps DEF Check, At, history, Label, Thread
<1> QED  BY <1>1, <1>2

\* The timer looks at what it has loaded.
LEMMA AgeKeeps ==
  ASSUME Inv, Age
  PROVE  Inv'
<1>1. CASE \E kind \in {"null", "use after free", "tree node"} : Crash(kind)
  BY <1>1, CrashKeeps
<1>2. CASE /\ \E label \in {"idle", "unroute"} : Go("timer", label)
           /\ UNCHANGED <<tree, routes, fault, history>>
  BY <1>2, GoKeeps DEF Age, At, history, Label, Thread
<1> QED  BY <1>1, <1>2 DEF Age, Gone, After

\* The operator frees what he had found.
LEMMA ReleaseKeeps ==
  ASSUME Inv, Release
  PROVE  Inv'
<1>1. CASE Crash("double free")
  BY <1>1, CrashKeeps
<1>2. CASE \E x : free("operator", x, "idle") /\ UNCHANGED <<routes, fault, history>>
  BY <1>2, FreeKeeps DEF Release, At, history, Label, Thread
<1> QED  BY <1>1, <1>2 DEF Release

\* When the timer, having taken the route, gets to the entry, the longest match
\* is the entry itself.
LEMMA DeleteKeeps ==
  ASSUME Inv, NEW t \in {"timer", "operator"}, Delete(t)
  PROVE  Inv'
<1>1. CASE Gone(t)
  BY <1>1, CrashKeeps DEF Gone
<1>2. CASE ~Gone(t)
  <2>1. PICK M : th \in [Thread -> Local(M)]
    BY DEF Inv, Shape
  <2>2. PICK V : tree \in [Prefix -> V]
    BY DEF Inv, Shape
  <2> DEFINE S == Covering(Present, th[t].arg)
             q == LongestMatch(Present, th[t].arg)
             moved == Moved(t, After(t).delete)
             next == [th EXCEPT ![t] = moved]
             N == M \cup {Null}
  <2>3. /\ IF S = {} THEN tree' = tree /\ th' = next
           ELSE /\ tree' = [tree EXCEPT ![q] = Absent]
                /\ th' = [u \in Thread |->
                            IF u # t /\ th[u].pn = "held" /\ th[u].arg = q
                            THEN [th[u] EXCEPT !.pn = "gone"] ELSE next[u]]
        /\ UNCHANGED <<routes, fault, late, overlapped>>
    BY <1>2 DEF Delete
  <2>4. After(t).delete \in {"idle", "unroute"} /\ t \in Thread
    BY DEF After, Thread
  <2>5. moved \in Local(N)
    BY <2>1, <2>4, MovedShape DEF Label
  <2>6. \A u \in Thread : /\ th[u] \in Local(N)
                          /\ [th[u] EXCEPT !.pn = "gone"] \in Local(N)
                          /\ [th[u] EXCEPT !.pn = "gone"].pc = th[u].pc
                          /\ [th[u] EXCEPT !.pn = "gone"].arg = th[u].arg
    BY <2>1 DEF Local
  <2> HIDE DEF S, q, moved, N
  <2>7. next \in [Thread -> Local(N)] /\ \A u \in Thread \ {t} : next[u] = th[u]
    BY <2>1, <2>5, <2>6 DEF N
  <2> HIDE DEF next
  <2>8. th' \in [Thread -> Local(N)] /\ OthersStay(t)
    BY <2>3, <2>6, <2>7 DEF OthersStay
  <2>9. tree' \in [Prefix -> V \cup {Absent}] /\ \A p \in Prefix : tree'[p] \in {tree[p], Absent}
    BY <2>2, <2>3
  <2>10. Absent.state \notin InUse
    BY DEF Absent, InUse
  <2>11. th[t].pc = "delete"
    BY DEF Delete, At
  <2>12. CASE t = "operator"
    BY <2>3, <2>8, <2>9, <2>10, <2>11, <2>12, Undisturbed DEF Inv, Shape, Thread
  <2>13. CASE t = "timer"
    <3> SUFFICES ASSUME NEW p \in Prefix, tree'[p].state \in InUse, p \notin routes'
                 PROVE  \/ \E u \in Updaters : th'[u].pc = "route" /\ th'[u].arg = p
                        \/ p \in late'
      BY <2>8, <2>9 DEF Inv, Shape, RouteKept
    <3>1. tree[p].state \in InUse /\ p \in Present /\ tree'[p] # Absent
      BY <2>9, <2>10 DEF Present
    <3>2. th["timer"].arg # p
      <4> SUFFICES ASSUME th["timer"].arg = p PROVE FALSE
        OBVIOUS
      <4>1. Present \in SUBSET Seq(Bit)
        BY PrefixAssumption DEF Present, Bit
      <4>2. q = p
        BY <2>13, <3>1, <4>1, LongestMatchSelf DEF q
      <4>3. p \in S
        BY <2>13, <3>1, <4>1, CoversReflexive DEF S, Covering
      <4>4. tree'[p] = Absent
        BY <2>2, <2>3, <4>2, <4>3
      <4> QED  BY <3>1, <4>4
    <3>3. \/ \E u \in Updaters : th[u].pc = "route" /\ th[u].arg = p
          \/ p \in late
      BY <2>3, <3>1, <3>2 DEF Inv, RouteKept
    <3> QED  BY <2>3, <2>8, <2>13, <3>3 DEF OthersStay, Updaters, Thread
  <2> QED  BY <2>12, <2>13
<1> QED  BY <1>1, <1>2

\* The timer goes on to the entry, the operator has noted what he took.
LEMMA DelRouteKeeps ==
  ASSUME Inv, NEW t \in {"timer", "operator"}, DelRoute(t)
  PROVE  Inv'
<1>1. CASE \E kind \in {"tree node", "use after free"} : Crash(kind)
  BY <1>1, CrashKeeps
<1> DEFINE p == th[t].arg
<1>2. CASE /\ routes' \in {routes, routes \ {p}}
           /\ late' = IF t = "operator" /\ tree[p].state \in InUse
                        THEN late \cup {p} ELSE late
           /\ Go(t, After(t).unroute)
           /\ tree' = tree
  <2>1. After(t).unroute = (IF t = "timer" THEN "delete" ELSE "release") /\ t \in Thread
    BY DEF After, Thread
  <2>2. After(t).unroute \in Label /\ After(t).unroute # "idle"
    BY <2>1 DEF Label
  <2>3. Shape' /\ OthersStay(t) /\ th'[t].pc = After(t).unroute /\ th'[t].arg = p
    BY <1>2, <2>1, <2>2, GoShape DEF Inv, Shape
  <2>4. th[t].pc = "unroute"
    BY DEF DelRoute, At
  <2>5. RouteKept'
    <3> SUFFICES ASSUME NEW q \in Prefix, tree'[q].state \in InUse, q \notin routes'
                 PROVE  \/ \E u \in Updaters : th'[u].pc = "route" /\ th'[u].arg = q
                        \/ th'["timer"].pc = "delete" /\ th'["timer"].arg = q
                        \/ q \in late'
      BY DEF RouteKept
    <3>1. CASE q = p
      BY <1>2, <2>1, <2>3, <3>1
    <3>2. CASE q # p
      <4>1. \/ \E u \in Updaters : th[u].pc = "route" /\ th[u].arg = q
            \/ th["timer"].pc = "delete" /\ th["timer"].arg = q
            \/ q \in late
        BY <1>2, <3>2 DEF Inv, RouteKept
      <4> QED  BY <1>2, <2>3, <2>4, <4>1 DEF OthersStay, Updaters, Thread
    <3> QED  BY <3>1, <3>2
  <2> QED  BY <2>3, <2>5 DEF Inv
<1> QED  BY <1>1, <1>2 DEF DelRoute, Gone

-----------------------------------------------------------------------------

\* The daemon starts without entries, and without a thread inside a call.
LEMMA InitHolds == Init => Inv
<1> SUFFICES ASSUME Init PROVE Inv
  OBVIOUS
<1>1. Idle \in Local({Null})
  BY DEF Idle, Local, Label
<1>2. tree \in [Prefix -> {Absent}] /\ th \in [Thread -> Local({Null})]
  BY <1>1 DEF Init
<1>3. \A p \in Prefix : tree[p].state \notin InUse
  BY <1>2 DEF Absent, InUse
<1> QED  BY <1>2, <1>3 DEF Inv, Shape, RouteKept

\* Every step of every thread keeps the invariant.
LEMMA NextKeeps == Inv /\ [Next]_vars => Inv'
<1> SUFFICES ASSUME Inv, [Next]_vars PROVE Inv'
  OBVIOUS
<1> USE DEF Label, EntryState, Thread
<1>1. CASE UNCHANGED vars
  BY <1>1 DEF vars, Inv, Shape, RouteKept
<1>2. ASSUME NEW h \in Host, Watch(h) \/ Forward(h) PROVE Inv'
  BY <1>2, SubsetAssumption, BeginKeeps DEF Watch, Forward
<1>3. ASSUME NEW p \in ReplyPrefix, Reply(p) PROVE Inv'
  BY <1>3, SubsetAssumption, BeginKeeps DEF Reply
<1>4. ASSUME NEW p \in StaticPrefix, install_mapnode_static(p) \/ uninstall_mapnode_static(p)
      PROVE  Inv'
  BY <1>4, SubsetAssumption, BeginKeeps DEF install_mapnode_static, uninstall_mapnode_static
<1>5. ASSUME NEW p \in Prefix, Visit(p) PROVE Inv'
  BY <1>5, VisitKeeps
<1>6. ASSUME NEW t \in Thread \ {"timer"}, Search(t) PROVE Inv'
  BY <1>6, SearchKeeps
<1>7. ASSUME NEW t \in Updaters, Update(t) PROVE Inv'
  BY <1>7, LookupKeeps, TestKeeps, FreeOldKeeps, SetKeeps, AddRouteKeeps DEF Update, Updaters
<1>8. ASSUME NEW t \in {"message", "data"}, Use(t) PROVE Inv'
  BY <1>8, UseKeeps
<1>9. ASSUME NEW t \in {"timer", "operator"}, Delete(t) \/ DelRoute(t) PROVE Inv'
  BY <1>9, DeleteKeeps, DelRouteKeeps
<1>10. CASE Check \/ Release \/ Age
  BY <1>10, CheckKeeps, ReleaseKeeps, AgeKeeps
<1>11. CASE Undefined
  BY <1>11, <1>1 DEF Undefined
<1> QED  BY <1>1, <1>2, <1>3, <1>4, <1>5, <1>6, <1>7, <1>8, <1>9, <1>10, <1>11 DEF Next

\* However the calls of the five threads overlap, an entry in use is without its
\* route only while a thread is about to add the route or to remove the entry, or
\* after the operator's late removal.
THEOREM RoutesKept == Spec => []RouteKept
<1>1. Inv => RouteKept
  BY DEF Inv
<1> QED  BY <1>1, InitHolds, NextKeeps, PTL DEF Spec

-----------------------------------------------------------------------------
(* What each thread knows of the entry it is working on.                   *)

\* No two tree nodes share a static entry.
Distinct ==
  \A p, r \in Prefix : tree[p].state = "static" /\ tree[r] = tree[p] => r = p

\* An update that has passed its test frees no static entry by the pointer it
\* kept; a static entry where it is about to free or set has come since.
Updating(t) ==
  /\ th[t].pc # "idle" => th[t].arg \in Prefix
  /\ th[t].pc = "free" => th[t].mn.state # "static"
  /\ th[t].pc \in {"free", "set"} =>
       \A p \in Prefix : p = th[t].arg /\ tree[p].state = "static" => p \in th[t].since

\* The timer's node is in the tree unless it is marked as gone; a static entry
\* there has come since, or is what the timer has loaded and not yet looked at.
Visiting ==
  th["timer"].pc \in {"age", "unroute", "delete"} =>
    /\ th["timer"].arg \in Prefix
    /\ th["timer"].pn \in {"held", "gone"}
    /\ \A p \in Prefix : p = th["timer"].arg =>
         /\ th["timer"].pn = "held" => tree[p] # Absent
         /\ tree[p].state = "static" => \/ p \in th["timer"].since
                                        \/ th["timer"].pc = "age" /\ th["timer"].mn = tree[p]

Known == Distinct /\ (\A t \in Updaters : Updating(t)) /\ Visiting

\* What CallsKeepStatic says of a step.
Protected ==
  \A p \in Prefix, t \in Thread \ {"operator"} :
    tree[p].state = "static" /\ tree'[p] # tree[p] /\ th'[t].pc # th[t].pc
      => p \in th[t].since

-----------------------------------------------------------------------------
(* Steps that leave the entries alone.                                     *)

\* Moving on inside a call changes the place only.
LEMMA MovedFields ==
  ASSUME Shape, NEW t \in Thread, NEW label, label # "idle"
  PROVE  /\ Moved(t, label).pc = label
         /\ Moved(t, label).arg = th[t].arg
         /\ Moved(t, label).mn = th[t].mn
         /\ Moved(t, label).pn = th[t].pn
         /\ Moved(t, label).since = th[t].since
<1>1. PICK M : th \in [Thread -> Local(M)]
  BY DEF Shape
<1>2. th[t] \in Local(M)
  BY <1>1
<1> QED  BY <1>2 DEF Moved, Local

\* A step of one thread that makes at most an empty node: what the others know
\* stays true.
LEMMA LocalStep ==
  ASSUME Shape, Known, NEW t \in Thread, NEW x, th' = [th EXCEPT ![t] = x],
         \A p \in Prefix : tree'[p] # tree[p] => tree[p] = Absent /\ tree'[p] = Null,
         t \in Updaters => Updating(t)', t = "timer" => Visiting'
  PROVE  Known' /\ Protected
<1>1. \A u \in Thread \ {t} : th'[u] = th[u]
  BY DEF Shape
<1>2. \A p \in Prefix : tree'[p].state = "static" => tree'[p] = tree[p]
  BY DEF Null
<1>3. Distinct'
  BY <1>2 DEF Known, Distinct, Null
<1>4. ASSUME NEW u \in Updaters, u # t PROVE Updating(u)'
  BY <1>1, <1>2, <1>4 DEF Known, Updating, Updaters, Thread
<1>5. Visiting'
  <2>1. CASE t # "timer"
    <3>1. th'["timer"] = th["timer"]
      BY <1>1, <2>1 DEF Thread
    <3>2. \A p \in Prefix : tree[p] # Absent => tree'[p] # Absent
      OBVIOUS
    <3> QED  BY <1>2, <3>1, <3>2 DEF Known, Visiting
  <2> QED  BY <2>1
<1>6. Protected
  BY DEF Protected, Absent
<1>7. \A u \in Updaters : Updating(u)'
  BY <1>4
<1> QED  BY <1>3, <1>5, <1>6, <1>7 DEF Known

\* A step to a place where its thread knows nothing.
LEMMA QuietStep ==
  ASSUME Shape, Known, NEW t \in Thread, NEW x, th' = [th EXCEPT ![t] = x],
         x.pc \notin {"free", "set", "age", "unroute"}, t = "timer" => x.pc # "delete",
         t \in Updaters /\ x.pc # "idle" => x.arg \in Prefix,
         \A p \in Prefix : tree'[p] # tree[p] => tree[p] = Absent /\ tree'[p] = Null
  PROVE  Known' /\ Protected
<1>1. th'[t] = x
  BY DEF Shape
<1>2. t \in Updaters => Updating(t)'
  BY <1>1 DEF Updating
<1>3. t = "timer" => Visiting'
  BY <1>1 DEF Visiting
<1> QED  BY <1>2, <1>3, LocalStep

\* The operator's removal and other calls go on without touching the table.
LEMMA QuietGo ==
  ASSUME Shape, Known, NEW t \in Thread, NEW label \in Label, Go(t, label), tree' = tree,
         th[t].pc # "idle", t = "timer" => label = "idle", label \notin {"free", "set", "age"}
  PROVE  Known' /\ Protected
<1>1. th' = [th EXCEPT ![t] = Moved(t, label)]
  BY DEF Go
<1>2. /\ Moved(t, label).pc = label
      /\ label # "idle" => Moved(t, label).arg = th[t].arg
  BY MovedFields DEF Moved, Idle
<1>3. th'[t] = Moved(t, label)
  BY <1>1 DEF Shape
<1>4. t \in Updaters => Updating(t)'
  BY <1>2, <1>3 DEF Known, Updating
<1>5. t = "timer" => Visiting'
  BY <1>2, <1>3 DEF Visiting
<1> QED  BY <1>1, <1>4, <1>5, LocalStep

\* Nothing changes where the daemon crashes.
LEMMA Unchanged ==
  ASSUME Known, tree' = tree, th' = th
  PROVE  Known' /\ Protected
BY DEF Known, Distinct, Updating, Visiting, Protected

\* A call that begins, and knows nothing yet.
LEMMA BeginStep ==
  ASSUME Shape, Known, NEW t \in Thread, NEW label \in {"search", "lookup"},
         NEW p \in Prefix, NEW new,
         Begin(t, Call(label, p, new))
  PROVE  Known' /\ Protected
<1>1. Call(label, p, new).pc = label /\ Call(label, p, new).arg = p
  BY DEF Call, Idle
<1> QED  BY <1>1, QuietStep DEF Begin

\* A search only loads a pointer.
LEMMA SearchStep ==
  ASSUME Shape, Known, NEW t \in Thread \ {"timer"}, Search(t)
  PROVE  Known' /\ Protected
<1> DEFINE mn == Found(th[t].arg)
           next == Moved(t, AfterSearch(t, mn))
           x == IF next = Idle THEN Idle ELSE [next EXCEPT !.mn = mn]
<1>1. AfterSearch(t, mn) \in {"lookup", "idle", "use", "check"}
  BY DEF AfterSearch, Thread
<1>2. next.pc = AfterSearch(t, mn) /\ Idle.pc = "idle"
  BY MovedFields DEF Moved, Idle
<1>3. th' = [th EXCEPT ![t] = x] /\ tree' = tree
  BY DEF Search
<1>4. [next EXCEPT !.mn = mn].pc = next.pc /\ [next EXCEPT !.mn = mn].arg = next.arg
  <2>1. PICK M : next \in Local(M)
    <3>1. PICK M : th \in [Thread -> Local(M)]
      BY DEF Shape
    <3>2. AfterSearch(t, mn) \in Label
      BY <1>1 DEF Label
    <3> QED  BY <3>1, <3>2, MovedShape
  <2> QED  BY <2>1 DEF Local
<1>5. x.pc \in {"lookup", "idle", "use", "check"}
  BY <1>1, <1>2, <1>4
<1>6. x.pc # "idle" => x.arg = th[t].arg
  BY <1>2, <1>4, MovedFields
<1>7. t \in Updaters => th[t].arg \in Prefix
  BY DEF Known, Updating, Search, At
<1> HIDE DEF x
<1> QED  BY <1>3, <1>5, <1>6, <1>7, QuietStep

\* The timer knows what it has loaded.
LEMMA VisitStep ==
  ASSUME Shape, Known, NEW p \in Prefix, Visit(p)
  PROVE  Known' /\ Protected
<1> DEFINE x == [Call("age", p, "none") EXCEPT !.mn = tree[p], !.pn = "held"]
<1>1. th' = [th EXCEPT !["timer"] = x] /\ tree' = tree /\ tree[p] # Absent
  BY DEF Visit, Begin
<1>2. x.pc = "age" /\ x.arg = p /\ x.mn = tree[p] /\ x.pn = "held"
  BY DEF Call, Idle
<1> HIDE DEF x
<1>3. th'["timer"] = x
  BY <1>1 DEF Shape, Thread
<1>4. Visiting'
  BY <1>1, <1>2, <1>3 DEF Visiting
<1>5. "timer" \in Thread /\ "timer" \notin Updaters
  BY DEF Thread, Updaters
<1> QED  BY <1>1, <1>4, <1>5, LocalStep

\* A node that is new has no entry.
LEMMA LookupStep ==
  ASSUME Shape, Known, NEW t \in Updaters, Lookup(t)
  PROVE  Known' /\ Protected
<1> DEFINE x == [Moved(t, "test") EXCEPT !.pn = "held"]
<1>1. th' = [th EXCEPT ![t] = x]
  BY DEF Lookup
<1>2. t \in Thread
  BY DEF Updaters, Thread
<1>3. x.pc = "test" /\ x.arg = th[t].arg
  <2>1. PICK M : th \in [Thread -> Local(M)]
    BY DEF Shape
  <2>2. /\ Moved(t, "test") \in Local(M \cup {Null})
        /\ Moved(t, "test").pc = "test" /\ Moved(t, "test").arg = th[t].arg
    BY <1>2, <2>1, MovedShape DEF Label
  <2> QED  BY <2>2 DEF Local
<1>4. th[t].arg \in Prefix
  BY DEF Known, Updating, Lookup, At
<1>5. \A p \in Prefix : tree'[p] # tree[p] => tree[p] = Absent /\ tree'[p] = Null
  BY DEF Lookup, Shape
<1> HIDE DEF x
<1> QED  BY <1>1, <1>2, <1>3, <1>4, <1>5, QuietStep

\* update_mapnode leaves a static entry alone, and goes on with another one.
LEMMA TestStep ==
  ASSUME Shape, Known, NEW t \in Updaters, Test(t)
  PROVE  Known' /\ Protected
<1> DEFINE old == tree[th[t].arg]
<1>1. t \in Thread /\ t # "timer" /\ th[t].arg \in Prefix
  BY DEF Updaters, Thread, Known, Updating, Test, At
<1>2. CASE \E kind : Crash(kind)
  BY <1>2, Unchanged DEF Crash
<1>3. CASE /\ th' = [th EXCEPT ![t] = CASE old = Null -> Moved(t, "set")
                                       [] old.state = "static" -> Idle
                                       [] OTHER -> [Moved(t, "free") EXCEPT !.mn = old]]
           /\ tree' = tree
  <2>1. CASE old = Null
    <3>1. th' = [th EXCEPT ![t] = Moved(t, "set")]
      BY <1>3, <2>1 DEF Null
    <3>2. th'[t] = Moved(t, "set")
      BY <1>1, <3>1 DEF Shape
    <3>3. Updating(t)'
      BY <1>1, <1>3, <2>1, <3>2, MovedFields DEF Updating, Null
    <3> QED  BY <1>1, <1>3, <3>1, <3>3, LocalStep
  <2>2. CASE old # Null /\ old.state = "static"
    <3>1. th' = [th EXCEPT ![t] = Idle]
      BY <1>3, <2>2
    <3> QED  BY <1>1, <1>3, <3>1, QuietStep DEF Idle
  <2>3. CASE old # Null /\ old.state # "static"
    <3>1. th' = [th EXCEPT ![t] = [Moved(t, "free") EXCEPT !.mn = old]]
      BY <1>3, <2>3
    <3>2. th'[t] = [Moved(t, "free") EXCEPT !.mn = old]
      BY <1>1, <3>1 DEF Shape
    <3>3. th'[t].mn = old /\ th'[t].arg = th[t].arg
      <4>1. PICK M : th \in [Thread -> Local(M)]
        BY DEF Shape
      <4>2. Moved(t, "free") \in Local(M \cup {Null})
        BY <1>1, <4>1, MovedShape DEF Label
      <4>3. Moved(t, "free").arg = th[t].arg
        BY <1>1, MovedFields
      <4> QED  BY <3>2, <4>2, <4>3 DEF Local
    <3>4. Updating(t)'
      BY <1>1, <1>3, <2>3, <3>3 DEF Updating
    <3> QED  BY <1>1, <1>3, <3>1, <3>4, LocalStep
  <2> QED  BY <2>1, <2>2, <2>3
<1> QED  BY <1>2, <1>3 DEF Test, Gone, history

\* What the timer has looked at was not static.
LEMMA AgeStep ==
  ASSUME Shape, Known, Age
  PROVE  Known' /\ Protected
<1>1. "timer" \in Thread /\ "timer" \notin Updaters
  BY DEF Thread, Updaters
<1>2. CASE \E kind : Crash(kind)
  BY <1>2, Unchanged DEF Crash
<1>3. CASE Go("timer", "idle") /\ tree' = tree
  BY <1>1, <1>3, QuietGo DEF Label, Age, At
<1>4. CASE th["timer"].mn.state # "static" /\ Go("timer", "unroute") /\ tree' = tree
  <2>1. th' = [th EXCEPT !["timer"] = Moved("timer", "unroute")]
    BY <1>4 DEF Go
  <2>2. th'["timer"] = Moved("timer", "unroute")
    BY <1>1, <2>1 DEF Shape
  <2>3. th["timer"].pc = "age"
    BY DEF Age, At
  <2>4. Visiting'
    BY <1>1, <1>4, <2>2, <2>3, MovedFields DEF Known, Visiting
  <2> QED  BY <1>1, <1>4, <2>1, <2>4, LocalStep
<1> QED  BY <1>2, <1>3, <1>4 DEF Age, Gone, After, history

\* A removal takes the route; the timer knows the same as before.
LEMMA DelRouteStep ==
  ASSUME Shape, Known, NEW t \in {"timer", "operator"}, DelRoute(t)
  PROVE  Known' /\ Protected
<1>1. CASE \E kind : Crash(kind)
  BY <1>1, Unchanged DEF Crash
<1>2. CASE t = "operator" /\ Go(t, "release") /\ tree' = tree
  BY <1>2, QuietGo DEF Label, Thread, DelRoute, At
<1>3. CASE t = "timer" /\ Go(t, "delete") /\ tree' = tree
  <2>1. "timer" \in Thread /\ "timer" \notin Updaters
    BY DEF Thread, Updaters
  <2>2. th' = [th EXCEPT !["timer"] = Moved("timer", "delete")]
    BY <1>3 DEF Go
  <2>3. th'["timer"] = Moved("timer", "delete")
    BY <2>1, <2>2 DEF Shape
  <2>4. th["timer"].pc = "unroute"
    BY <1>3 DEF DelRoute, At
  <2>5. Visiting'
    BY <1>3, <2>1, <2>3, <2>4, MovedFields DEF Known, Visiting
  <2> QED  BY <1>3, <2>1, <2>2, <2>5, LocalStep
<1> QED  BY <1>1, <1>2, <1>3 DEF DelRoute, Gone, After

-----------------------------------------------------------------------------
(* Steps that change entries.                                              *)

\* free takes a static entry from the tree only if its thread knows it, or is the
\* operator; the others' pointers to the entry go with it.
LEMMA FreeStep ==
  ASSUME Shape, Known, NEW t \in Updaters, NEW x, NEW label \in {"idle", "set"},
         free(t, x, label), th[t].pc # "idle",
         t # "operator" => \A p \in Prefix : tree[p] = x /\ x.state = "static" => p \in th[t].since,
         label = "set" =>
           \A p \in Prefix : p = th[t].arg /\ tree[p].state = "static" => p \in th[t].since
  PROVE  Known' /\ Protected
<1>1. PICK M : th \in [Thread -> Local(M)]
  BY DEF Shape
<1>2. t \in Thread /\ t # "timer" /\ "timer" \in Thread
  BY DEF Updaters, Thread
<1>3. \A p \in Prefix : tree'[p] = IF tree[p] = x THEN Freed ELSE tree[p]
  BY DEF free
<1>4. \A u \in Thread \ {t} : th'[u] = IF th[u].mn = x THEN [th[u] EXCEPT !.mn = Freed] ELSE th[u]
  BY DEF free
<1>5. \A u \in Thread \ {t} :
        /\ th'[u].pc = th[u].pc /\ th'[u].arg = th[u].arg
        /\ th'[u].pn = th[u].pn /\ th'[u].since = th[u].since
        /\ th'[u].mn = IF th[u].mn = x THEN Freed ELSE th[u].mn
  <2> TAKE u \in Thread \ {t}
  <2>1. th[u] \in Local(M)
    BY <1>1
  <2> QED  BY <1>4, <2>1 DEF Local
<1>6. th'[t] = [Moved(t, label) EXCEPT !.mn = Null]
  BY <1>2 DEF free
<1>7. /\ th'[t].pc = label
      /\ label = "set" => th'[t].arg = th[t].arg /\ th'[t].since = th[t].since
  <2>1. Moved(t, label) \in Local(M \cup {Null}) /\ Moved(t, label).pc = label
    BY <1>1, <1>2, MovedShape DEF Label
  <2>2. label = "set" => Moved(t, label).arg = th[t].arg /\ Moved(t, label).since = th[t].since
    BY <1>2, MovedFields
  <2> QED  BY <1>6, <2>1, <2>2 DEF Local
<1>8. \A p \in Prefix : tree'[p].state = "static" => tree'[p] = tree[p] /\ tree[p] # x
  BY <1>3 DEF Freed
<1>9. Distinct'
  BY <1>3, <1>8 DEF Known, Distinct, Freed
<1>10. ASSUME NEW u \in Updaters PROVE Updating(u)'
  <2>1. CASE u = t
    BY <1>7, <1>8, <2>1 DEF Known, Updating
  <2>2. CASE u # t
    BY <1>5, <1>8, <2>2 DEF Known, Updating, Freed, Updaters, Thread
  <2> QED  BY <2>1, <2>2
<1>11. Visiting'
  <2>1. \A p \in Prefix : tree[p] # Absent => tree'[p] # Absent
    BY <1>3 DEF Freed, Absent
  <2> QED  BY <1>2, <1>5, <1>8, <2>1 DEF Known, Visiting
<1>12. Protected
  BY <1>3, <1>5 DEF Protected
<1>13. \A u \in Updaters : Updating(u)'
  BY <1>10
<1> QED  BY <1>9, <1>11, <1>12, <1>13 DEF Known

\* The old entry that update_mapnode frees was not static, or has come since.
LEMMA FreeOldStep ==
  ASSUME Shape, Known, NEW t \in Updaters, FreeOld(t)
  PROVE  Known' /\ Protected
<1>1. CASE \E kind : Crash(kind)
  BY <1>1, Unchanged DEF Crash
<1>2. ASSUME NEW x \in {th[t].mn, tree[th[t].arg]}, free(t, x, "set") PROVE Known' /\ Protected
  <2>1. th[t].pc = "free"
    BY DEF FreeOld, At
  <2>2. \A p \in Prefix : p = th[t].arg /\ tree[p].state = "static" => p \in th[t].since
    BY <2>1 DEF Known, Updating
  <2>3. \A p \in Prefix : tree[p] = x /\ x.state = "static" => p \in th[t].since
    <3> TAKE p \in Prefix
    <3> HAVE tree[p] = x /\ x.state = "static"
    <3>1. x = tree[th[t].arg]
      BY <2>1 DEF Known, Updating
    <3>2. th[t].arg \in Prefix
      BY <2>1 DEF Known, Updating
    <3>3. p = th[t].arg
      BY <3>1, <3>2 DEF Known, Distinct
    <3> QED  BY <2>2, <3>3
  <2> QED  BY <1>2, <2>1, <2>2, <2>3, FreeStep
<1> QED  BY <1>1, <1>2 DEF FreeOld, Gone

\* What the operator frees is his own affair.
LEMMA ReleaseStep ==
  ASSUME Shape, Known, Release
  PROVE  Known' /\ Protected
<1>1. CASE \E kind : Crash(kind)
  BY <1>1, Unchanged DEF Crash
<1>2. CASE \E x : free("operator", x, "idle")
  BY <1>2, FreeStep DEF Updaters, Release, At
<1> QED  BY <1>1, <1>2 DEF Release

\* There is always a number left for a new map node.
LEMMA FreshIsNew ==
  /\ Fresh \in Nat \ {0}
  /\ \A p \in Prefix : tree[p].id # Fresh
  /\ \A t \in Thread : th[t].mn.id # Fresh
<1> DEFINE A == {tree[p].id : p \in Prefix}
           B == {th[t].mn.id : t \in Thread}
           n == Cardinality(Prefix) + Cardinality(Thread) + 1
<1>1. IsFiniteSet(Prefix) /\ Cardinality(Prefix) \in Nat
  BY FiniteAssumption, FS_CardinalityType
<1>2. IsFiniteSet(Thread) /\ Cardinality(Thread) \in Nat
  <2>1. IsFiniteSet(Thread)
    <3> DEFINE E1 == {} \cup {"watcher"}
               E2 == E1 \cup {"message"}
               E3 == E2 \cup {"timer"}
               E4 == E3 \cup {"operator"}
               E5 == E4 \cup {"data"}
    <3>1. IsFiniteSet(E1)
      BY FS_EmptySet, FS_AddElement
    <3> HIDE DEF E1
    <3>2. IsFiniteSet(E2)
      BY <3>1, FS_AddElement
    <3> HIDE DEF E2
    <3>3. IsFiniteSet(E3)
      BY <3>2, FS_AddElement
    <3> HIDE DEF E3
    <3>4. IsFiniteSet(E4)
      BY <3>3, FS_AddElement
    <3> HIDE DEF E4
    <3>5. IsFiniteSet(E5)
      BY <3>4, FS_AddElement
    <3>6. Thread = E5
      BY DEF Thread, E1, E2, E3, E4
    <3> QED  BY <3>5, <3>6
  <2> QED  BY <2>1, FS_CardinalityType
<1>3. IsFiniteSet(A) /\ Cardinality(A) \in Nat /\ Cardinality(A) <= Cardinality(Prefix)
  <2>1. [p \in Prefix |-> tree[p].id] \in Surjection(Prefix, A)
    BY DEF Surjection
  <2> QED  BY <1>1, <2>1, FS_Surjection, FS_CardinalityType
<1>4. IsFiniteSet(B) /\ Cardinality(B) \in Nat /\ Cardinality(B) <= Cardinality(Thread)
  <2>1. [t \in Thread |-> th[t].mn.id] \in Surjection(Thread, B)
    BY DEF Surjection
  <2> QED  BY <1>2, <2>1, FS_Surjection, FS_CardinalityType
<1> HIDE DEF A, B
<1>5. IsFiniteSet(A \cup B) /\ Cardinality(A \cup B) \in Nat /\ Cardinality(A \cup B) < n
  <2>1. IsFiniteSet(A \cup B) /\ Cardinality(A \cup B) = Cardinality(A) + Cardinality(B) - Cardinality(A \cap B)
    BY <1>3, <1>4, FS_Union
  <2>2. IsFiniteSet(A \cap B) /\ Cardinality(A \cap B) \in Nat
    BY <1>3, FS_Intersection, FS_CardinalityType
  <2> QED  BY <1>1, <1>2, <1>3, <1>4, <2>1, <2>2, FS_CardinalityType
<1>6. Cardinality(1..n) = n /\ n \in Nat
  <2>1. n \in Nat /\ n >= 1
    BY <1>1, <1>2
  <2> HIDE DEF n
  <2>2. Cardinality(1..n) = IF 1 > n THEN 0 ELSE n - 1 + 1
    BY <2>1, FS_Interval
  <2> QED  BY <2>1, <2>2
<1>7. \E i \in 1..n : i \notin A \cup B
  <2> SUFFICES ASSUME 1..n \in SUBSET (A \cup B) PROVE FALSE
    OBVIOUS
  <2>1. Cardinality(1..n) <= Cardinality(A \cup B)
    BY <1>5, FS_Subset
  <2> HIDE DEF n
  <2> QED  BY <1>5, <1>6, <2>1
<1>8. Fresh = CHOOSE i \in 1..n : i \notin A \cup B
  BY DEF Fresh, A, B
<1>9. Fresh \in 1..n /\ Fresh \notin A \cup B
  BY <1>7, <1>8
<1> QED  BY <1>6, <1>9 DEF A, B

\* A static entry is set where nobody else has one that is the same; every thread
\* inside a call is noted with it.
LEMMA SetStep ==
  ASSUME Shape, Known, NEW t \in Updaters, Set(t)
  PROVE  Known' /\ Protected
<1> DEFINE p == th[t].arg
           new == th[t].new
           next == Moved(t, IF new \in InUse THEN "route" ELSE "idle")
           node == [id |-> Fresh, state |-> new]
<1>1. CASE \E kind : Crash(kind)
  BY <1>1, Unchanged DEF Crash
<1>2. CASE /\ tree' = [tree EXCEPT ![p] = node]
           /\ th' = [u \in Thread |->
                       IF u = t THEN next
                       ELSE IF new = "static" /\ u \in Busy
                         THEN [th[u] EXCEPT !.since = @ \cup {p}] ELSE th[u]]
  <2>1. PICK M : th \in [Thread -> Local(M)]
    BY DEF Shape
  <2>2. t \in Thread /\ t # "timer" /\ "timer" \in Thread
    BY DEF Updaters, Thread
  <2>3. th[t].pc = "set" /\ p \in Prefix
    BY DEF Set, At, Known, Updating
  <2>4. tree'[p] = node /\ \A q \in Prefix \ {p} : tree'[q] = tree[q]
    BY <1>2, <2>3 DEF Shape
  <2>5. next.pc \in {"route", "idle"} /\ (next.pc # "idle" => next.arg = p)
    BY <2>2, MovedFields DEF Moved, Idle
  <2>6. node.state = new /\ node.id = Fresh /\ node # Absent
    <3>1. new \in EntryState \cup {"none"}
      BY <2>1, <2>2 DEF Local
    <3> QED  BY <3>1 DEF EntryState, Absent
  <2> HIDE DEF next, node
  <2>7. th'[t] = next
    BY <1>2, <2>2
  <2>8. \A u \in Thread \ {t} :
          /\ th'[u].pc = th[u].pc /\ th'[u].arg = th[u].arg
          /\ th'[u].pn = th[u].pn /\ th'[u].mn = th[u].mn
          /\ th[u].since \subseteq th'[u].since
          /\ new = "static" /\ th[u].pc # "idle" => p \in th'[u].since
    <3> TAKE u \in Thread \ {t}
    <3>1. th[u] \in Local(M)
      BY <2>1
    <3>2. th'[u] = IF new = "static" /\ th[u].pc # "idle"
                   THEN [th[u] EXCEPT !.since = @ \cup {p}] ELSE th[u]
      BY <1>2 DEF Busy
    <3> HIDE DEF p, new
    <3> QED  BY <3>1, <3>2 DEF Local
  <2>9. Distinct'
    <3> SUFFICES ASSUME NEW q \in Prefix, NEW r \in Prefix,
                        tree'[q].state = "static", tree'[r] = tree'[q]
                 PROVE  r = q
      BY DEF Distinct
    <3>1. CASE q # p /\ r # p
      BY <2>4, <3>1 DEF Known, Distinct
    <3>2. CASE q = p \/ r = p
      <4>1. \A s \in Prefix \ {p} : tree'[s] # node
        BY <2>4, <2>6, FreshIsNew
      <4> QED  BY <2>4, <3>2, <4>1
    <3> QED  BY <3>1, <3>2
  <2>10. ASSUME NEW u \in Updaters PROVE Updating(u)'
    <3>1. CASE u = t
      BY <2>3, <2>5, <2>7, <3>1 DEF Updating
    <3>2. CASE u # t
      <4>1. u \in Thread \ {t} /\ Updating(u)
        BY <3>2 DEF Known, Updaters, Thread
      <4>2. ASSUME NEW q \in Prefix, th[u].pc \in {"free", "set"}, q = th[u].arg,
                   tree'[q].state = "static"
            PROVE  q \in th'[u].since
        <5>1. CASE q = p
          BY <2>4, <2>6, <2>8, <4>1, <4>2, <5>1
        <5>2. CASE q # p
          BY <2>4, <2>8, <4>1, <4>2, <5>2 DEF Updating
        <5> QED  BY <5>1, <5>2
      <4> QED  BY <2>8, <4>1, <4>2 DEF Updating
    <3> QED  BY <3>1, <3>2
  <2>11. Visiting'
    <3> SUFFICES ASSUME th["timer"].pc \in {"age", "unroute", "delete"}
                 PROVE  Visiting'
      BY <2>2, <2>8 DEF Visiting
    <3> DEFINE q == th["timer"].arg
    <3>1. q \in Prefix /\ th["timer"].pn \in {"held", "gone"}
      BY DEF Known, Visiting
    <3>2. th["timer"].pn = "held" => tree'[q] # Absent
      BY <2>4, <2>6, <3>1 DEF Known, Visiting
    <3>3. tree'[q].state = "static" =>
            q \in th'["timer"].since \/ (th["timer"].pc = "age" /\ th["timer"].mn = tree'[q])
      <4>1. CASE q = p
        BY <2>2, <2>4, <2>6, <2>8, <4>1
      <4>2. CASE q # p
        BY <2>2, <2>4, <2>8, <3>1, <4>2 DEF Known, Visiting
      <4> QED  BY <4>1, <4>2
    <3> QED  BY <2>2, <2>8, <3>1, <3>2, <3>3 DEF Visiting
  <2>12. Protected
    <3> SUFFICES ASSUME NEW q \in Prefix, NEW u \in Thread \ {"operator"},
                        tree[q].state = "static", tree'[q] # tree[q], th'[u].pc # th[u].pc
                 PROVE  q \in th[u].since
      BY DEF Protected
    <3>1. q = p /\ u = t
      BY <2>4, <2>8
    <3> QED  BY <2>3, <3>1 DEF Known, Updating
  <2>13. \A u \in Updaters : Updating(u)'
    BY <2>10
  <2> QED  BY <2>9, <2>11, <2>12, <2>13 DEF Known
<1> QED  BY <1>1, <1>2 DEF Set, Gone

\* The timer removes the entry at its own node; what another removal takes is
\* marked as gone for those that hold the node.
LEMMA DeleteStep ==
  ASSUME Shape, Known, NEW t \in {"timer", "operator"}, Delete(t)
  PROVE  Known' /\ Protected
<1> DEFINE p == th[t].arg
           S == Covering(Present, p)
           q == LongestMatch(Present, p)
           moved == Moved(t, After(t).delete)
           next == [th EXCEPT ![t] = moved]
<1>1. CASE \E kind : Crash(kind)
  BY <1>1, Unchanged DEF Crash
<1>2. CASE /\ th[t].pn # "gone"
           /\ IF S = {} THEN tree' = tree /\ th' = next
              ELSE /\ tree' = [tree EXCEPT ![q] = Absent]
                   /\ th' = [u \in Thread |->
                               IF u # t /\ th[u].pn = "held" /\ th[u].arg = q
                               THEN [th[u] EXCEPT !.pn = "gone"] ELSE next[u]]
  <2>1. PICK M : th \in [Thread -> Local(M)]
    BY DEF Shape
  <2>2. t \in Thread /\ "timer" \in Thread
    BY DEF Thread
  <2>3. moved.pc = (IF t = "timer" THEN "idle" ELSE "unroute") /\ (t # "timer" => moved.arg = p)
    BY <2>2, MovedFields DEF Moved, Idle, After
  <2>4. th[t].pc = "delete"
    BY DEF Delete, At
  <2> HIDE DEF moved, q, S
  <2>5. next[t] = moved /\ \A u \in Thread \ {t} : next[u] = th[u]
    BY <2>1, <2>2
  <2> HIDE DEF next
  <2>6. th'[t] = moved
    BY <1>2, <2>2, <2>5
  <2>7. \A u \in Thread \ {t} :
          /\ th'[u].pc = th[u].pc /\ th'[u].arg = th[u].arg /\ th'[u].mn = th[u].mn
          /\ th'[u].since = th[u].since
          /\ th'[u].pn \in {th[u].pn, "gone"}
          /\ S # {} /\ th[u].pn = "held" /\ th[u].arg = q => th'[u].pn = "gone"
    <3> TAKE u \in Thread \ {t}
    <3>1. th[u] \in Local(M) /\ next[u] = th[u]
      BY <2>1, <2>5
    <3>2. th'[u] \in {th[u], [th[u] EXCEPT !.pn = "gone"]}
      BY <1>2, <3>1
    <3>3. S # {} /\ th[u].pn = "held" /\ th[u].arg = q => th'[u] = [th[u] EXCEPT !.pn = "gone"]
      BY <1>2, <3>1
    <3> QED  BY <3>1, <3>2, <3>3 DEF Local
  <2>8. \A r \in Prefix : tree'[r] # tree[r] => r = q /\ S # {} /\ tree'[r] = Absent
    BY <1>2 DEF Shape
  <2>9. \A r \in Prefix : tree'[r].state = "static" => tree'[r] = tree[r]
    BY <2>8 DEF Absent
  <2>10. Distinct'
    <3> SUFFICES ASSUME NEW a \in Prefix, NEW b \in Prefix,
                        tree'[a].state = "static", tree'[b] = tree'[a]
                 PROVE  b = a
      BY DEF Distinct
    <3> QED  BY <2>9 DEF Known, Distinct
  <2>11. ASSUME NEW u \in Updaters PROVE Updating(u)'
    <3>1. CASE u = t
      BY <2>3, <2>4, <2>6, <3>1 DEF Known, Updating, Updaters
    <3>2. CASE u # t
      <4>1. u \in Thread \ {t} /\ Updating(u)
        BY <3>2 DEF Known, Updaters, Thread
      <4> QED  BY <2>7, <2>9, <4>1 DEF Updating
    <3> QED  BY <3>1, <3>2
  <2>12. Visiting'
    <3>1. CASE t = "timer"
      BY <2>3, <2>6, <3>1 DEF Visiting
    <3>2. CASE t # "timer"
      <4> SUFFICES ASSUME th["timer"].pc \in {"age", "unroute", "delete"}
                   PROVE  Visiting'
        BY <2>2, <2>7, <3>2 DEF Visiting
      <4> DEFINE a == th["timer"].arg
      <4>1. "timer" \in Thread \ {t} /\ a \in Prefix /\ th["timer"].pn \in {"held", "gone"}
        BY <2>2, <3>2 DEF Known, Visiting
      <4>2. th'["timer"].pn = "held" => tree'[a] # Absent
        BY <2>7, <2>8, <4>1 DEF Known, Visiting
      <4>3. tree'[a].state = "static" =>
              a \in th["timer"].since \/ (th["timer"].pc = "age" /\ th["timer"].mn = tree'[a])
        BY <2>9, <4>1 DEF Known, Visiting
      <4> QED  BY <2>7, <4>1, <4>2, <4>3 DEF Visiting
    <3> QED  BY <3>1, <3>2
  <2>13. Protected
    <3> SUFFICES ASSUME NEW r \in Prefix, NEW u \in Thread \ {"operator"},
                        tree[r].state = "static", tree'[r] # tree[r], th'[u].pc # th[u].pc
                 PROVE  r \in th[u].since
      BY DEF Protected
    <3>1. u = t /\ t = "timer" /\ r = q
      BY <2>7, <2>8
    <3>2. p \in Prefix /\ tree[p] # Absent
      BY <1>2, <2>4, <3>1 DEF Known, Visiting
    <3>3. q = p
      <4>1. Present \in SUBSET Seq(Bit) /\ p \in Present
        BY <3>2, PrefixAssumption DEF Present, Bit
      <4> QED  BY <4>1, LongestMatchSelf DEF q
    <3> QED  BY <2>4, <3>1, <3>3 DEF Known, Visiting
  <2>14. \A u \in Updaters : Updating(u)'
    BY <2>11
  <2> QED  BY <2>10, <2>12, <2>13, <2>14 DEF Known
<1> QED  BY <1>1, <1>2 DEF Delete, Gone

-----------------------------------------------------------------------------

\* Every step protects the static entries, and keeps what the threads know.
LEMMA NextProtects ==
  ASSUME Shape, Known, [Next]_vars
  PROVE  Known' /\ Protected
<1> USE DEF history
<1>1. CASE UNCHANGED vars
  BY <1>1, Unchanged DEF vars
<1>2. ASSUME NEW h \in Host, Watch(h) \/ Forward(h) PROVE Known' /\ Protected
  BY <1>2, SubsetAssumption, BeginStep DEF Watch, Forward, Thread
<1>3. ASSUME NEW p \in ReplyPrefix, Reply(p) PROVE Known' /\ Protected
  BY <1>3, SubsetAssumption, BeginStep DEF Reply, Thread
<1>4. ASSUME NEW p \in StaticPrefix, install_mapnode_static(p) \/ uninstall_mapnode_static(p)
      PROVE  Known' /\ Protected
  BY <1>4, SubsetAssumption, BeginStep DEF install_mapnode_static, uninstall_mapnode_static, Thread
<1>5. ASSUME NEW p \in Prefix, Visit(p) PROVE Known' /\ Protected
  BY <1>5, VisitStep
<1>6. ASSUME NEW t \in Thread \ {"timer"}, Search(t) PROVE Known' /\ Protected
  BY <1>6, SearchStep
<1>7. ASSUME NEW t \in Updaters, Update(t) PROVE Known' /\ Protected
  <2>1. CASE AddRoute(t)
    BY <2>1, QuietGo DEF AddRoute, At, Label, Updaters, Thread
  <2> QED  BY <1>7, <2>1, LookupStep, TestStep, FreeOldStep, SetStep DEF Update
<1>8. ASSUME NEW t \in {"message", "data"}, Use(t) PROVE Known' /\ Protected
  <2>1. CASE Crash("use after free")
    BY <2>1, Unchanged DEF Crash
  <2>2. CASE Go(t, "idle") /\ tree' = tree
    BY <1>8, <2>2, QuietGo DEF Use, At, Label, Thread
  <2> QED  BY <1>8, <2>1, <2>2 DEF Use
<1>9. ASSUME NEW t \in {"timer", "operator"}, Delete(t) \/ DelRoute(t)
      PROVE  Known' /\ Protected
  BY <1>9, DeleteStep, DelRouteStep
<1>10. CASE Check
  <2>1. CASE Crash("use after free")
    BY <2>1, Unchanged DEF Crash
  <2>2. CASE \E label \in {"idle", "delete"} : Go("operator", label) /\ tree' = tree
    BY <1>10, <2>2, QuietGo DEF Check, At, Label, Thread
  <2> QED  BY <1>10, <2>1, <2>2 DEF Check, After
<1>11. CASE Release \/ Age
  BY <1>11, ReleaseStep, AgeStep
<1>12. CASE Undefined
  BY <1>1, <1>12 DEF Undefined
<1> QED  BY <1>1, <1>2, <1>3, <1>4, <1>5, <1>6, <1>7, <1>8, <1>9, <1>10, <1>11, <1>12 DEF Next

\* At the start there is nothing to know.
LEMMA KnownInit == Init => Known
<1> SUFFICES ASSUME Init PROVE Known
  OBVIOUS
<1>1. \A t \in Thread : th[t].pc = "idle"
  BY DEF Init, Idle
<1>2. \A p \in Prefix : tree[p].state # "static"
  BY DEF Init, Absent
<1> QED  BY <1>1, <1>2 DEF Known, Distinct, Updating, Visiting, Updaters, Thread

\* However the calls of the five threads overlap, none that begins after a static
\* entry is installed replaces, removes or frees it, but the operator's own.
THEOREM StaticKept == Spec => CallsKeepStatic
<1>1. Inv /\ Known /\ [Next]_vars => Inv' /\ Known' /\ [Protected]_vars
  BY NextKeeps, NextProtects DEF Inv
<1>2. Protected <=>
        \A p \in Prefix, t \in Thread \ {"operator"} :
          tree[p].state = "static" /\ tree'[p] # tree[p] /\ th'[t].pc # th[t].pc
            => p \in th[t].since
  BY DEF Protected
<1> QED  BY <1>1, <1>2, InitHolds, KnownInit, PTL DEF Spec, CallsKeepStatic

-----------------------------------------------------------------------------
(* What the tree and the threads' pointers hold.                           *)

Node == Pointer(EntryState)
Holding == {"free", "use", "check", "delete", "unroute", "release"}
Updates == {"lookup", "test", "free", "set", "route"}

\* A thread's pointer is one to a map node or was one, where it is followed; the
\* tree node a thread holds has a map node while that is to be freed; what an
\* update is about to free stands nowhere else; and what the operator has
\* removed is no longer in the tree.
Pointing(t) ==
  /\ th[t].mn \in Node \cup {Null, Freed}
  /\ th[t].since \subseteq Prefix
  /\ th[t].pc \in Holding => th[t].mn # Null
  /\ th[t].pc \in Updates => th[t].new \in EntryState
  /\ t \in {"watcher", "message"} /\ th[t].pc = "search" => th[t].new \in EntryState
  /\ \A p \in Prefix : p = th[t].arg /\ th[t].pn = "held" =>
       /\ th[t].pc \in {"test", "free", "set"} => tree[p] # Absent
       /\ th[t].pc = "free" => tree[p] # Null
  /\ th[t].pc = "free" /\ th[t].mn # Freed =>
       \A q \in Prefix : tree[q] = th[t].mn => q = th[t].arg
  /\ t = "operator" /\ th[t].pc \in {"unroute", "release"} /\ ~missed /\ th[t].mn # Freed =>
       \A p \in Prefix : tree[p] # th[t].mn

\* A map node stands at one place of the tree.
OwnNodes ==
  /\ \A p \in Prefix : tree[p] \in Node \cup {Absent, Null, Freed}
  /\ \A p, r \in Prefix : tree[p] \in Node /\ tree[r] = tree[p] => r = p

\* A thread that is updating p, at one of these places.
UpdatesAt(t, p, labels) ==
  t \in Updaters /\ th[t].pc \in labels /\ th[t].arg = p /\ th[t].pn = "held"

\* What TreeHoldsLiveNodes says, before the first fault and after it.
LiveNodes ==
  \A p \in Prefix :
    /\ tree[p] = Null => \E t \in Thread : UpdatesAt(t, p, {"test", "set"})
    /\ tree[p] = Freed => missed \/ \E t \in Thread : UpdatesAt(t, p, {"set"})

Pointers == OwnNodes /\ LiveNodes /\ \A t \in Thread : Pointing(t)

\* The marks are no pointers, and all different.
LEMMA Marks ==
  /\ Null \notin Node /\ Freed \notin Node /\ Absent \notin Node
  /\ Null # Freed /\ Null # Absent /\ Freed # Absent
BY DEF Node, Pointer, EntryState, Null, Freed, Absent

\* One thread moves on; what is new in the tree is a tree node without a map node,
\* which the thread is updating.  A thread that was updating an unset or freed
\* entry goes on with it.
LEMMA OneMoves ==
  ASSUME Shape, Pointers, NEW t \in Thread, NEW x, th' = [th EXCEPT ![t] = x],
         missed' = missed,
         \A p \in Prefix : tree'[p] # tree[p] =>
           /\ tree[p] = Absent /\ tree'[p] = Null
           /\ t \in Updaters /\ x.pc = "test" /\ x.arg = p /\ x.pn = "held",
         \A p \in Prefix : UpdatesAt(t, p, {"test", "set"}) /\ tree[p] \in {Null, Freed} =>
           tree[p] = Null /\ x.pc = "set" /\ x.arg = p /\ x.pn = "held",
         Pointing(t)'
  PROVE  Pointers'
<1>1. th'[t] = x /\ \A u \in Thread \ {t} : th'[u] = th[u]
  BY DEF Shape
<1>2. OwnNodes'
  BY Marks DEF Pointers, OwnNodes
<1>3. ASSUME NEW u \in Thread \ {t} PROVE Pointing(u)'
  <2>1. th'[u] = th[u] /\ Pointing(u)
    BY <1>1 DEF Pointers
  <2>2. \A p \in Prefix : tree'[p] \in Node \/ tree'[p] = Freed => tree[p] = tree'[p]
    BY Marks
  <2>3. \A p \in Prefix : tree[p] # Absent => tree'[p] = tree[p]
    OBVIOUS
  <2>4. th[u].mn \in Node \cup {Null, Freed} /\ (th[u].pc \in Holding => th[u].mn # Null)
    BY <2>1 DEF Pointing
  <2>5. th[u].pc = "free" /\ th[u].mn # Freed =>
          \A q \in Prefix : tree'[q] = th[u].mn => q = th[u].arg
    BY <2>1, <2>2, <2>4 DEF Pointing, Holding
  <2>6. u = "operator" /\ th[u].pc \in {"unroute", "release"} /\ ~missed /\ th[u].mn # Freed =>
          \A p \in Prefix : tree'[p] # th[u].mn
    BY <2>1, <2>2, <2>4 DEF Pointing, Holding
  <2>7. \A p \in Prefix : p = th[u].arg /\ th[u].pn = "held" =>
          /\ th[u].pc \in {"test", "free", "set"} => tree'[p] # Absent
          /\ th[u].pc = "free" => tree'[p] # Null
    BY <2>1, <2>3 DEF Pointing
  <2> QED  BY <2>1, <2>5, <2>6, <2>7 DEF Pointing
<1>4. LiveNodes'
  <2> SUFFICES ASSUME NEW p \in Prefix
               PROVE  /\ tree'[p] = Null => \E u \in Thread : UpdatesAt(u, p, {"test", "set"})'
                      /\ tree'[p] = Freed => missed \/ \E u \in Thread : UpdatesAt(u, p, {"set"})'
    BY DEF LiveNodes
  <2>1. ASSUME NEW u \in Thread, u # t, NEW labels, UpdatesAt(u, p, labels)
        PROVE  UpdatesAt(u, p, labels)'
    BY <1>1, <2>1 DEF UpdatesAt
  <2>2. CASE tree'[p] # tree[p]
    <3>1. UpdatesAt(t, p, {"test", "set"})' /\ tree'[p] = Null
      BY <1>1, <2>2 DEF UpdatesAt
    <3> QED  BY <3>1, Marks
  <2>3. CASE tree'[p] = tree[p] /\ tree[p] = Null
    <3>1. PICK u \in Thread : UpdatesAt(u, p, {"test", "set"})
      BY <2>3 DEF Pointers, LiveNodes
    <3>2. CASE u = t
      <4>1. x.pc = "set" /\ x.arg = p /\ x.pn = "held" /\ t \in Updaters
        BY <2>3, <3>1, <3>2 DEF UpdatesAt
      <4>2. UpdatesAt(t, p, {"test", "set"})'
        BY <1>1, <4>1 DEF UpdatesAt
      <4> QED  BY <2>3, <4>2, Marks
    <3>3. CASE u # t
      BY <2>1, <2>3, <3>1, <3>3, Marks
    <3> QED  BY <3>2, <3>3
  <2>4. CASE tree'[p] = tree[p] /\ tree[p] = Freed /\ ~missed
    <3>1. PICK u \in Thread : UpdatesAt(u, p, {"set"})
      BY <2>4 DEF Pointers, LiveNodes
    <3>2. u # t
      BY <2>4, <3>1, Marks DEF UpdatesAt
    <3> QED  BY <2>1, <2>4, <3>1, <3>2, Marks
  <2> QED  BY <2>2, <2>3, <2>4
<1>5. \A u \in Thread : Pointing(u)'
  BY <1>3
<1> QED  BY <1>2, <1>4, <1>5 DEF Pointers


\* A thread outside a call has no pointer.
LEMMA IdlePoints ==
  ASSUME NEW t \in Thread, th'[t] = Idle
  PROVE  Pointing(t)'
BY DEF Pointing, Idle, Holding, Updates

\* Moving on leaves the thread's new entry, too.
LEMMA MovedNew ==
  ASSUME Shape, NEW t \in Thread, NEW label, label # "idle"
  PROVE  Moved(t, label).new = th[t].new
<1>1. PICK M : th \in [Thread -> Local(M)]
  BY DEF Shape
<1>2. th[t] \in Local(M)
  BY <1>1
<1> QED  BY <1>2 DEF Moved, Local

\* A step inside a call that changes nothing but its thread's place.
LEMMA GoPoints ==
  ASSUME Shape, Pointers, NEW t \in Thread, NEW label \in Label, Go(t, label),
         tree' = tree, missed' = missed, th[t].pc \notin {"test", "set"},
         label \notin {"search", "lookup", "test", "free", "set", "route"},
         label \in Holding => th[t].mn # Null,
         t = "operator" /\ label \in {"unroute", "release"} => th[t].pc \in {"unroute", "release"}
  PROVE  Pointers'
<1>1. th' = [th EXCEPT ![t] = Moved(t, label)]
  BY DEF Go
<1>2. th'[t] = Moved(t, label)
  BY <1>1 DEF Shape
<1>3. Pointing(t)'
  <2>1. CASE label = "idle"
    BY <1>2, <2>1, IdlePoints DEF Moved
  <2>2. CASE label # "idle"
    <3>1. /\ th'[t].pc = label /\ th'[t].arg = th[t].arg /\ th'[t].mn = th[t].mn
          /\ th'[t].pn = th[t].pn /\ th'[t].since = th[t].since
      BY <1>2, <2>2, MovedFields
    <3>2. Pointing(t)
      BY DEF Pointers
    <3> QED  BY <3>1, <3>2 DEF Pointing, Updates
  <2> QED  BY <2>1, <2>2
<1>4. \A p \in Prefix : ~UpdatesAt(t, p, {"test", "set"})
  BY DEF UpdatesAt
<1> QED  BY <1>1, <1>3, <1>4, OneMoves

\* A call begins without a pointer, an update with a new entry.
LEMMA BeginPoints ==
  ASSUME Shape, Pointers, NEW t \in Thread, NEW label \in {"search", "lookup"},
         NEW p \in Prefix, NEW new, Begin(t, Call(label, p, new)),
         new \in EntryState \/ (label = "search" /\ t \notin {"watcher", "message"}),
         missed' = missed
  PROVE  Pointers'
<1> DEFINE x == Call(label, p, new)
<1>1. /\ x.pc = label /\ x.arg = p /\ x.mn = Null /\ x.pn = "none" /\ x.since = {}
      /\ x.new = new
  BY DEF Call, Idle
<1>2. th' = [th EXCEPT ![t] = x] /\ tree' = tree /\ th[t].pc = "idle"
  BY DEF Begin, Busy
<1> HIDE DEF x
<1>3. th'[t] = x
  BY <1>2 DEF Shape
<1>4. Pointing(t)'
  BY <1>1, <1>3 DEF Pointing, Holding, Updates
<1>5. \A q \in Prefix : ~UpdatesAt(t, q, {"test", "set"})
  BY <1>2 DEF UpdatesAt
<1> QED  BY <1>2, <1>4, <1>5, OneMoves

\* The timer loads the pointer of a tree node that is there.
LEMMA VisitPoints ==
  ASSUME Shape, Pointers, NEW p \in Prefix, Visit(p)
  PROVE  Pointers'
<1> DEFINE x == [Call("age", p, "none") EXCEPT !.mn = tree[p], !.pn = "held"]
<1>1. /\ th' = [th EXCEPT !["timer"] = x] /\ tree' = tree /\ tree[p] # Absent
      /\ th["timer"].pc = "idle" /\ missed' = missed /\ "timer" \in Thread
  BY DEF Visit, Begin, Busy, Thread
<1>2. x.pc = "age" /\ x.mn = tree[p] /\ x.since = {}
  BY DEF Call, Idle
<1> HIDE DEF x
<1>3. th'["timer"] = x
  BY <1>1 DEF Shape
<1>4. Pointing("timer")'
  BY <1>1, <1>2, <1>3 DEF Pointing, Holding, Updates, Pointers, OwnNodes
<1>5. \A q \in Prefix : ~UpdatesAt("timer", q, {"test", "set"})
  BY <1>1 DEF UpdatesAt
<1> QED  BY <1>1, <1>4, <1>5, OneMoves

\* What a search finds is in the tree.
LEMMA FoundPoints ==
  ASSUME Pointers, NEW p \in Seq(Bit)
  PROVE  Found(p) \in Node \cup {Null, Freed}
<1>1. CASE Covering(Present, p) = {}
  BY <1>1 DEF Found
<1>2. CASE Covering(Present, p) # {}
  <2>1. Present \in SUBSET Seq(Bit)
    BY PrefixAssumption DEF Present, Bit
  <2>2. LongestMatch(Present, p) \in Covering(Present, p)
    BY <1>2, <2>1, LongestMatchCovers
  <2>3. LongestMatch(Present, p) \in Present
    BY <2>2 DEF Covering
  <2> QED  BY <1>2, <2>3 DEF Found, Present, Pointers, OwnNodes
<1> QED  BY <1>1, <1>2

\* A search goes on with a pointer where it has found one.
LEMMA SearchPoints ==
  ASSUME Shape, Pointers, NEW t \in Thread \ {"timer"}, Search(t)
  PROVE  Pointers'
<1> DEFINE mn == Found(th[t].arg)
           label == AfterSearch(t, mn)
           next == Moved(t, label)
           x == IF next = Idle THEN Idle ELSE [next EXCEPT !.mn = mn]
<1>1. label \in {"lookup", "idle", "use", "check"}
  BY DEF AfterSearch, Thread
<1>2. /\ label = "lookup" => t \in {"watcher", "message"}
      /\ label \in {"use", "check"} => mn # Null
  BY DEF AfterSearch, Thread
<1>3. mn \in Node \cup {Null, Freed}
  <2>1. PICK M : th \in [Thread -> Local(M)]
    BY DEF Shape
  <2>2. th[t].arg \in Prefix \cup {<<>>}
    BY <2>1 DEF Local
  <2>3. <<>> \in Seq(Bit)
    OBVIOUS
  <2>4. th[t].arg \in Seq(Bit)
    BY <2>2, <2>3, PrefixAssumption DEF Bit
  <2> QED  BY <2>4, FoundPoints
<1>4. th' = [th EXCEPT ![t] = x] /\ tree' = tree /\ missed' = missed /\ th[t].pc = "search"
  BY DEF Search, At, history
<1>5. th'[t] = x
  BY <1>4 DEF Shape
<1> HIDE DEF mn
<1>6. CASE label = "idle"
  <2>1. x = Idle
    BY <1>6 DEF Moved
  <2> QED  BY <1>5, <2>1, IdlePoints, <1>4, OneMoves DEF UpdatesAt
<1>7. CASE label # "idle"
  <2>1. /\ next.pc = label /\ next.arg = th[t].arg /\ next.pn = th[t].pn
        /\ next.since = th[t].since /\ next.new = th[t].new
    BY <1>7, MovedFields, MovedNew
  <2>2. x = [next EXCEPT !.mn = mn]
    BY <1>7, <2>1 DEF Idle
  <2>3. PICK M : next \in Local(M)
    <3>1. PICK M : th \in [Thread -> Local(M)]
      BY DEF Shape
    <3>2. label \in Label
      BY <1>1 DEF Label
    <3> QED  BY <3>1, <3>2, MovedShape
  <2> HIDE DEF label, next, x
  <2>4. /\ x.pc = label /\ x.arg = th[t].arg /\ x.pn = th[t].pn /\ x.mn = mn
        /\ x.since = th[t].since /\ x.new = th[t].new
    BY <2>1, <2>2, <2>3 DEF Local
  <2>5. Pointing(t)'
    <3>1. Pointing(t)
      BY DEF Pointers
    <3> QED  BY <1>1, <1>2, <1>3, <1>4, <1>5, <1>7, <2>4, <3>1 DEF Pointing, Holding, Updates
  <2>6. \A p \in Prefix : ~UpdatesAt(t, p, {"test", "set"})
    BY <1>4 DEF UpdatesAt
  <2> QED  BY <1>4, <2>5, <2>6, OneMoves
<1> QED  BY <1>6, <1>7

\* After a crash nothing has changed but fault.
LEMMA CrashPoints ==
  ASSUME Pointers, tree' = tree, th' = th, missed' = missed
  PROVE  Pointers'
<1>1. OwnNodes' /\ LiveNodes'
  BY DEF Pointers, OwnNodes, LiveNodes, UpdatesAt
<1>2. \A t \in Thread : Pointing(t)'
  BY DEF Pointers, Pointing
<1> QED  BY <1>1, <1>2 DEF Pointers

\* A lookup leaves its thread holding a tree node that is there.
LEMMA LookupPoints ==
  ASSUME Shape, Pointers, NEW t \in Updaters, th[t].arg \in Prefix, Lookup(t)
  PROVE  Pointers'
<1> DEFINE x == [Moved(t, "test") EXCEPT !.pn = "held"]
<1>1. /\ th' = [th EXCEPT ![t] = x] /\ missed' = missed /\ th[t].pc = "lookup"
      /\ t \in Thread
  BY DEF Lookup, At, history, Updaters, Thread
<1>2. \A p \in Prefix : tree'[p] = IF p = th[t].arg /\ tree[p] = Absent THEN Null ELSE tree[p]
  BY DEF Lookup, Shape
<1>3. /\ x.pc = "test" /\ x.arg = th[t].arg /\ x.pn = "held" /\ x.mn = th[t].mn
      /\ x.since = th[t].since /\ x.new = th[t].new
  <2>1. PICK M : th \in [Thread -> Local(M)]
    BY DEF Shape
  <2>2. Moved(t, "test") \in Local(M \cup {Null})
    BY <1>1, <2>1, MovedShape DEF Label
  <2> QED  BY <1>1, <2>2, MovedFields, MovedNew DEF Local
<1> HIDE DEF x
<1>4. th'[t] = x
  BY <1>1 DEF Shape
<1>5. tree'[th[t].arg] # Absent
  BY <1>2, Marks
<1>6. Pointing(t)
  BY <1>1 DEF Pointers
<1>7. Pointing(t)'
  BY <1>1, <1>3, <1>4, <1>5, <1>6 DEF Pointing, Holding, Updates
<1>8. \A p \in Prefix : ~UpdatesAt(t, p, {"test", "set"})
  BY <1>1 DEF UpdatesAt
<1>9. \A p \in Prefix : tree'[p] # tree[p] =>
        /\ tree[p] = Absent /\ tree'[p] = Null
        /\ t \in Updaters /\ x.pc = "test" /\ x.arg = p /\ x.pn = "held"
  BY <1>2, <1>3
<1> QED  BY <1>1, <1>7, <1>8, <1>9, OneMoves

\* update_mapnode goes on with the node it is to free, or with an empty one.
LEMMA TestPoints ==
  ASSUME Shape, Pointers, NEW t \in Updaters, th[t].arg \in Prefix, Test(t)
  PROVE  Pointers'
<1> DEFINE old == tree[th[t].arg]
<1> USE DEF history
<1>1. CASE \E kind : Crash(kind)
  BY <1>1, CrashPoints DEF Crash
<1>2. CASE /\ th[t].pn = "held" /\ old # Freed
           /\ th' = [th EXCEPT ![t] = CASE old = Null -> Moved(t, "set")
                                       [] old.state = "static" -> Idle
                                       [] OTHER -> [Moved(t, "free") EXCEPT !.mn = old]]
           /\ tree' = tree /\ missed' = missed
  <2>1. t \in Thread /\ th[t].pc = "test" /\ Pointing(t)
    BY DEF Updaters, Thread, Test, At, Pointers
  <2>2. old \in Node \cup {Null}
    <3>1. old # Absent
      BY <1>2, <2>1 DEF Pointing
    <3> QED  BY <1>2, <3>1 DEF Pointers, OwnNodes
  <2>3. CASE old = Null
    <3>1. th' = [th EXCEPT ![t] = Moved(t, "set")]
      BY <1>2, <2>3 DEF Null
    <3>2. th'[t] = Moved(t, "set")
      BY <2>1, <3>1 DEF Shape
    <3>3. /\ th'[t].pc = "set" /\ th'[t].arg = th[t].arg /\ th'[t].pn = "held"
          /\ th'[t].mn = th[t].mn /\ th'[t].since = th[t].since /\ th'[t].new = th[t].new
      <4>1. "set" # "idle" /\ th[t].pn = "held" /\ t \in Thread
        BY <1>2, <2>1
      <4>2. /\ Moved(t, "set").pc = "set" /\ Moved(t, "set").arg = th[t].arg
            /\ Moved(t, "set").pn = "held" /\ Moved(t, "set").mn = th[t].mn
            /\ Moved(t, "set").since = th[t].since /\ Moved(t, "set").new = th[t].new
        BY <4>1, MovedFields, MovedNew
      <4> QED  BY <3>2, <4>2
    <3>4. Pointing(t)'
      BY <1>2, <2>1, <3>3 DEF Pointing, Holding, Updates
    <3>5. \A p \in Prefix : UpdatesAt(t, p, {"test", "set"}) /\ tree[p] \in {Null, Freed} =>
            /\ tree[p] = Null /\ Moved(t, "set").pc = "set" /\ Moved(t, "set").arg = p
            /\ Moved(t, "set").pn = "held"
      BY <2>3, <3>2, <3>3 DEF UpdatesAt
    <3> QED  BY <1>2, <2>1, <3>1, <3>4, <3>5, OneMoves
  <2>4. \A p \in Prefix : UpdatesAt(t, p, {"test", "set"}) => tree[p] = old
    BY DEF UpdatesAt
  <2>5. CASE old # Null /\ old.state = "static"
    <3>1. th' = [th EXCEPT ![t] = Idle]
      BY <1>2, <2>5
    <3>2. Pointing(t)'
      BY <2>1, <3>1, IdlePoints DEF Shape
    <3> QED  BY <1>2, <2>1, <2>2, <2>4, <2>5, <3>1, <3>2, Marks, OneMoves
  <2>6. CASE old # Null /\ old.state # "static"
    <3> DEFINE x == [Moved(t, "free") EXCEPT !.mn = old]
    <3>1. th' = [th EXCEPT ![t] = x]
      BY <1>2, <2>6
    <3>2. /\ x.pc = "free" /\ x.arg = th[t].arg /\ x.pn = "held" /\ x.mn = old
          /\ x.since = th[t].since /\ x.new = th[t].new
      <4>1. PICK M : th \in [Thread -> Local(M)]
        BY DEF Shape
      <4>2. Moved(t, "free") \in Local(M \cup {Null})
        BY <2>1, <4>1, MovedShape DEF Label
      <4>3. /\ Moved(t, "free").pc = "free" /\ Moved(t, "free").arg = th[t].arg
            /\ Moved(t, "free").pn = "held" /\ Moved(t, "free").since = th[t].since
            /\ Moved(t, "free").new = th[t].new
        BY <1>2, <2>1, MovedFields, MovedNew
      <4> QED  BY <4>2, <4>3 DEF Local
    <3> HIDE DEF x
    <3>3. th'[t] = x
      BY <2>1, <3>1 DEF Shape
    <3>4. old \in Node /\ \A q \in Prefix : tree[q] = old => q = th[t].arg
      BY <2>2, <2>6 DEF Pointers, OwnNodes
    <3>5. Pointing(t)'
      <4>1. /\ th'[t].pc = "free" /\ th'[t].arg = th[t].arg /\ th'[t].mn = old
            /\ th'[t].since = th[t].since /\ th'[t].new = th[t].new
        BY <3>2, <3>3
      <4>2. th[t].new \in EntryState /\ th[t].since \subseteq Prefix
        BY <2>1 DEF Pointing, Updates
      <4>3. old # Null /\ old # Absent
        BY <2>6, <3>4, Marks
      <4> HIDE DEF old
      <4>4. \A p \in Prefix : p = th[t].arg => tree'[p] # Absent /\ tree'[p] # Null
        BY <1>2, <4>3 DEF old
      <4>5. \A q \in Prefix : tree'[q] = old => q = th[t].arg
        BY <1>2, <3>4
      <4> QED  BY <3>4, <4>1, <4>2, <4>3, <4>4, <4>5 DEF Pointing, Holding, Updates
    <3> QED  BY <1>2, <2>1, <2>4, <3>1, <3>4, <3>5, Marks, OneMoves
  <2> QED  BY <2>3, <2>5, <2>6
<1> QED  BY <1>1, <1>2 DEF Test, Gone

\* free leaves a freed pointer in the tree where its thread goes on to set a new
\* one, or where a removal has missed its entry; the other threads' copies of the
\* pointer are marked.
LEMMA FreePoints ==
  ASSUME Shape, Pointers, NEW t \in Updaters, NEW x \in Node, NEW label \in {"idle", "set"},
         free(t, x, label), missed' = missed, th[t].pc \notin {"test", "set"},
         label = "set" => th[t].pc = "free" /\ th[t].pn = "held",
         \A p \in Prefix : tree[p] = x => missed \/ (label = "set" /\ p = th[t].arg)
  PROVE  Pointers'
<1>1. PICK M : th \in [Thread -> Local(M)]
  BY DEF Shape
<1>2. t \in Thread
  BY DEF Updaters, Thread
<1>3. \A p \in Prefix : tree'[p] = IF tree[p] = x THEN Freed ELSE tree[p]
  BY DEF free
<1>4. \A u \in Thread \ {t} :
        /\ th'[u].pc = th[u].pc /\ th'[u].arg = th[u].arg /\ th'[u].new = th[u].new
        /\ th'[u].pn = th[u].pn /\ th'[u].since = th[u].since
        /\ th'[u].mn = IF th[u].mn = x THEN Freed ELSE th[u].mn
  <2> TAKE u \in Thread \ {t}
  <2>1. th[u] \in Local(M)
    BY <1>1
  <2>2. th'[u] = IF th[u].mn = x THEN [th[u] EXCEPT !.mn = Freed] ELSE th[u]
    BY DEF free
  <2> QED  BY <2>1, <2>2 DEF Local
<1>5. th'[t] = [Moved(t, label) EXCEPT !.mn = Null]
  BY <1>2 DEF free
<1>6. Moved(t, label) \in Local(M \cup {Null}) /\ Moved(t, label).pc = label
  BY <1>1, <1>2, MovedShape DEF Label
<1>7. th'[t].pc = label /\ th'[t].mn = Null /\ th'[t].since = Moved(t, label).since
  BY <1>5, <1>6 DEF Local
<1>8. label = "set" => /\ th'[t].arg = th[t].arg /\ th'[t].pn = "held"
                       /\ th'[t].new = th[t].new /\ th'[t].since = th[t].since
  <2> SUFFICES ASSUME label = "set"
               PROVE  /\ th'[t].arg = th[t].arg /\ th'[t].pn = "held"
                      /\ th'[t].new = th[t].new /\ th'[t].since = th[t].since
    OBVIOUS
  <2>1. /\ Moved(t, label).arg = th[t].arg /\ Moved(t, label).pn = "held"
        /\ Moved(t, label).new = th[t].new /\ Moved(t, label).since = th[t].since
    BY <1>2, MovedFields, MovedNew
  <2> QED  BY <1>5, <1>6, <2>1 DEF Local
<1>9. \A p \in Prefix : /\ tree'[p] \in Node => tree'[p] = tree[p]
                        /\ tree'[p] = Null => tree[p] = Null
                        /\ tree'[p] = Absent => tree[p] = Absent
  BY <1>3, Marks
<1>10. OwnNodes'
  BY <1>3, <1>9 DEF Pointers, OwnNodes
<1>11. ASSUME NEW u \in Thread \ {t} PROVE Pointing(u)'
  <2>1. Pointing(u)
    BY DEF Pointers
  <2>2. /\ th'[u].mn \in Node \cup {Null, Freed}
        /\ th[u].pc \in Holding => th'[u].mn # Null
        /\ th'[u].mn # Freed => th'[u].mn = th[u].mn
    BY <1>4, <2>1, Marks DEF Pointing
  <2>3. th[u].pc = "free" /\ th'[u].mn # Freed =>
          \A q \in Prefix : tree'[q] = th'[u].mn => q = th[u].arg
    <3>1. th[u].pc = "free" => th[u].mn # Null
      BY <2>1 DEF Pointing, Holding
    <3> QED  BY <1>9, <2>1, <2>2, <3>1 DEF Pointing
  <2>4. u = "operator" /\ th[u].pc \in {"unroute", "release"} /\ ~missed /\ th'[u].mn # Freed =>
          \A p \in Prefix : tree'[p] # th'[u].mn
    <3>1. th[u].pc \in {"unroute", "release"} => th[u].mn # Null
      BY <2>1 DEF Pointing, Holding
    <3> QED  BY <1>9, <2>1, <2>2, <3>1 DEF Pointing
  <2>5. \A p \in Prefix : p = th[u].arg /\ th[u].pn = "held" =>
          /\ th[u].pc \in {"test", "free", "set"} => tree'[p] # Absent
          /\ th[u].pc = "free" => tree'[p] # Null
    BY <1>9, <2>1 DEF Pointing
  <2> QED  BY <1>4, <2>1, <2>2, <2>3, <2>4, <2>5 DEF Pointing
<1>12. Pointing(t)'
  <2>1. Pointing(t)
    BY <1>2 DEF Pointers
  <2>2. CASE label = "idle"
    <3>1. Moved(t, label) = Idle
      BY <2>2 DEF Moved
    <3>2. th'[t].pn = "none" /\ th'[t].since = {}
      BY <1>5, <3>1 DEF Idle
    <3> QED  BY <1>7, <2>2, <3>2 DEF Pointing, Holding, Updates
  <2>3. CASE label = "set"
    <3>1. \A p \in Prefix : p = th[t].arg => tree'[p] # Absent
      BY <1>9, <2>1, <2>3 DEF Pointing
    <3> QED  BY <1>7, <1>8, <2>1, <2>3, <3>1 DEF Pointing, Holding, Updates
  <2> QED  BY <2>2, <2>3
<1>13. LiveNodes'
  <2> SUFFICES ASSUME NEW p \in Prefix
               PROVE  /\ tree'[p] = Null => \E u \in Thread : UpdatesAt(u, p, {"test", "set"})'
                      /\ tree'[p] = Freed => missed \/ \E u \in Thread : UpdatesAt(u, p, {"set"})'
    BY DEF LiveNodes
  <2>1. ASSUME NEW u \in Thread, NEW labels, labels \subseteq {"test", "set"},
               UpdatesAt(u, p, labels)
        PROVE  UpdatesAt(u, p, labels)'
    <3>1. u # t
      BY <2>1 DEF UpdatesAt
    <3> QED  BY <1>4, <2>1, <3>1 DEF UpdatesAt
  <2>2. ASSUME tree'[p] = Null PROVE \E u \in Thread : UpdatesAt(u, p, {"test", "set"})'
    <3>1. PICK u \in Thread : UpdatesAt(u, p, {"test", "set"})
      BY <1>9, <2>2 DEF Pointers, LiveNodes
    <3>2. UpdatesAt(u, p, {"test", "set"})'
      BY <2>1, <3>1
    <3> QED  BY <3>2
  <2>3. ASSUME tree'[p] = Freed, ~missed PROVE \E u \in Thread : UpdatesAt(u, p, {"set"})'
    <3>1. CASE tree[p] = x
      <4>1. label = "set" /\ p = th[t].arg
        BY <2>3, <3>1
      <4>2. UpdatesAt(t, p, {"set"})'
        BY <1>7, <1>8, <4>1 DEF UpdatesAt
      <4> QED  BY <1>2, <4>2
    <3>2. CASE tree[p] # x
      <4>1. tree[p] = Freed
        BY <1>3, <2>3, <3>2
      <4>2. PICK u \in Thread : UpdatesAt(u, p, {"set"})
        BY <2>3, <4>1 DEF Pointers, LiveNodes
      <4>3. UpdatesAt(u, p, {"set"})'
        BY <2>1, <4>2
      <4> QED  BY <4>3
    <3> QED  BY <3>1, <3>2
  <2> QED  BY <2>2, <2>3
<1>14. \A u \in Thread : Pointing(u)'
  BY <1>11, <1>12
<1> QED  BY <1>10, <1>13, <1>14 DEF Pointers

\* What update_mapnode frees stands in the tree at its own prefix only.
LEMMA FreeOldPoints ==
  ASSUME Shape, Pointers, NEW t \in Updaters, th[t].arg \in Prefix, FreeOld(t)
  PROVE  Pointers'
<1> USE DEF history
<1>1. CASE \E kind : Crash(kind)
  BY <1>1, CrashPoints DEF Crash
<1>2. ASSUME NEW x \in {th[t].mn, tree[th[t].arg]}, x # Freed, th[t].pn = "held",
             free(t, x, "set"), missed' = missed
      PROVE  Pointers'
  <2>1. t \in Thread /\ th[t].pc = "free" /\ Pointing(t)
    BY DEF Updaters, Thread, FreeOld, At, Pointers
  <2>2. x \in Node
    <3>1. th[t].mn \in Node \cup {Null, Freed} /\ th[t].mn # Null
      BY <2>1 DEF Pointing, Holding
    <3>2. tree[th[t].arg] \notin {Absent, Null}
      BY <1>2, <2>1 DEF Pointing
    <3>3. tree[th[t].arg] \in Node \cup {Absent, Null, Freed}
      BY DEF Pointers, OwnNodes
    <3> QED  BY <1>2, <3>1, <3>2, <3>3
  <2>3. ASSUME NEW p \in Prefix, tree[p] = x PROVE p = th[t].arg
    <3>1. CASE x = th[t].mn
      BY <1>2, <2>1, <2>3, <3>1 DEF Pointing
    <3>2. CASE x = tree[th[t].arg]
      BY <2>2, <2>3, <3>2 DEF Pointers, OwnNodes
    <3> QED  BY <3>1, <3>2
  <2> QED  BY <1>2, <2>1, <2>2, <2>3, FreePoints
<1> QED  BY <1>1, <1>2 DEF FreeOld, Gone

\* What the operator releases is not in the tree, unless his removal took another
\* entry than he had found.
LEMMA ReleasePoints ==
  ASSUME Shape, Pointers, Release
  PROVE  Pointers'
<1> USE DEF history
<1>1. CASE \E kind : Crash(kind)
  BY <1>1, CrashPoints DEF Crash
<1>2. CASE /\ th["operator"].mn # Freed /\ free("operator", th["operator"].mn, "idle")
           /\ missed' = missed
  <2>1. /\ "operator" \in Updaters /\ "operator" \in Thread
        /\ th["operator"].pc = "release" /\ Pointing("operator")
    BY DEF Updaters, Thread, Release, At, Pointers
  <2>2. th["operator"].mn \in Node
    BY <1>2, <2>1 DEF Pointing, Holding
  <2>3. \A p \in Prefix : tree[p] = th["operator"].mn => missed
    BY <1>2, <2>1 DEF Pointing
  <2> QED  BY <1>2, <2>1, <2>2, <2>3, FreePoints
<1> QED  BY <1>1, <1>2 DEF Release

\* The new map node is nobody else's yet.
LEMMA SetPoints ==
  ASSUME Shape, Pointers, NEW t \in Updaters, th[t].arg \in Prefix, Set(t)
  PROVE  Pointers'
<1> DEFINE p == th[t].arg
           new == th[t].new
           label == IF new \in InUse THEN "route" ELSE "idle"
           next == Moved(t, label)
           node == [id |-> Fresh, state |-> new]
<1> USE DEF history
<1>1. CASE \E kind : Crash(kind)
  BY <1>1, CrashPoints DEF Crash
<1>2. CASE /\ tree' = [tree EXCEPT ![p] = node]
           /\ th' = [u \in Thread |->
                       IF u = t THEN next
                       ELSE IF new = "static" /\ u \in Busy
                         THEN [th[u] EXCEPT !.since = @ \cup {p}] ELSE th[u]]
           /\ missed' = missed
  <2>1. PICK M : th \in [Thread -> Local(M)]
    BY DEF Shape
  <2>2. t \in Thread /\ th[t].pc = "set" /\ Pointing(t)
    BY DEF Updaters, Thread, Set, At, Pointers
  <2>3. tree'[p] = node /\ \A q \in Prefix \ {p} : tree'[q] = tree[q]
    BY <1>2 DEF Shape
  <2>4. node \in Node
    <3>1. new \in EntryState
      BY <2>2 DEF Pointing, Updates
    <3> QED  BY <3>1, FreshIsNew DEF Node, Pointer
  <2>5. (\A q \in Prefix : tree[q] # node) /\ (\A u \in Thread : th[u].mn # node)
    <3>1. node.id = Fresh
      OBVIOUS
    <3> HIDE DEF node
    <3> QED  BY <3>1, FreshIsNew
  <2>6. Pointing(t)'
    <3>1. th'[t] = next
      BY <1>2, <2>2
    <3>2. CASE new \notin InUse
      <4>1. th'[t] = Idle
        BY <3>1, <3>2 DEF Moved
      <4> QED  BY <2>2, <4>1, IdlePoints
    <3>3. CASE new \in InUse
      <4>1. th'[t] = Moved(t, "route") /\ "route" # "idle"
        BY <3>1, <3>3
      <4>2. /\ th'[t].pc = "route" /\ th'[t].mn = th[t].mn /\ th'[t].since = th[t].since
            /\ th'[t].new = th[t].new
        BY <2>2, <4>1, MovedFields, MovedNew
      <4> QED  BY <2>2, <4>2 DEF Pointing, Holding, Updates
    <3> QED  BY <3>2, <3>3
  <2> HIDE DEF next, node
  <2>7. \A u \in Thread \ {t} :
          /\ th'[u].pc = th[u].pc /\ th'[u].arg = th[u].arg /\ th'[u].new = th[u].new
          /\ th'[u].pn = th[u].pn /\ th'[u].mn = th[u].mn
          /\ th'[u].since \subseteq th[u].since \cup {p}
    <3> TAKE u \in Thread \ {t}
    <3>1. th[u] \in Local(M)
      BY <2>1
    <3>2. th'[u] = th[u] \/ th'[u] = [th[u] EXCEPT !.since = @ \cup {p}]
      BY <1>2
    <3> HIDE DEF p, new
    <3> QED  BY <3>1, <3>2 DEF Local
  <2>8. OwnNodes'
    <3>1. \A q \in Prefix : tree'[q] \in Node \cup {Absent, Null, Freed}
      BY <2>3, <2>4 DEF Pointers, OwnNodes
    <3>2. ASSUME NEW q \in Prefix, NEW r \in Prefix, tree'[q] \in Node, tree'[r] = tree'[q]
          PROVE  r = q
      BY <2>3, <2>5, <3>2 DEF Pointers, OwnNodes
    <3> QED  BY <3>1, <3>2 DEF OwnNodes
  <2>9. ASSUME NEW u \in Thread \ {t} PROVE Pointing(u)'
    <3>1. Pointing(u)
      BY DEF Pointers
    <3>2. \A q \in Prefix : tree'[q] = th[u].mn => tree[q] = th[u].mn
      BY <2>3, <2>5
    <3>3. \A q \in Prefix : /\ tree[q] # Absent => tree'[q] # Absent
                            /\ tree[q] # Absent /\ tree[q] # Null => tree'[q] # Null
      BY <2>3, <2>4, Marks
    <3>4. th'[u].since \subseteq Prefix
      BY <2>7, <3>1 DEF Pointing
    <3>5. \A q \in Prefix : q = th[u].arg /\ th[u].pn = "held" =>
            /\ th[u].pc \in {"test", "free", "set"} => tree'[q] # Absent
            /\ th[u].pc = "free" => tree'[q] # Null
      BY <3>1, <3>3 DEF Pointing
    <3> QED  BY <1>2, <2>7, <3>1, <3>2, <3>4, <3>5 DEF Pointing
  <2>10. LiveNodes'
    <3> SUFFICES ASSUME NEW q \in Prefix
                 PROVE  /\ tree'[q] = Null => \E u \in Thread : UpdatesAt(u, q, {"test", "set"})'
                        /\ tree'[q] = Freed => missed \/ \E u \in Thread : UpdatesAt(u, q, {"set"})'
      BY <1>2 DEF LiveNodes
    <3>1. CASE q = p
      BY <2>3, <2>4, <3>1, Marks
    <3>2. CASE q # p
      <4>1. ASSUME NEW u \in Thread, NEW labels, UpdatesAt(u, q, labels)
            PROVE  UpdatesAt(u, q, labels)'
        BY <2>7, <3>2, <4>1 DEF UpdatesAt
      <4>2. tree'[q] = tree[q]
        BY <2>3, <3>2
      <4>3. ASSUME tree'[q] = Null PROVE \E u \in Thread : UpdatesAt(u, q, {"test", "set"})'
        <5>1. PICK u \in Thread : UpdatesAt(u, q, {"test", "set"})
          BY <4>2, <4>3 DEF Pointers, LiveNodes
        <5> QED  BY <4>1, <5>1
      <4>4. ASSUME tree'[q] = Freed, ~missed PROVE \E u \in Thread : UpdatesAt(u, q, {"set"})'
        <5>1. PICK u \in Thread : UpdatesAt(u, q, {"set"})
          BY <4>2, <4>4 DEF Pointers, LiveNodes
        <5> QED  BY <4>1, <5>1
      <4> QED  BY <4>3, <4>4
    <3> QED  BY <3>1, <3>2
  <2>11. \A u \in Thread : Pointing(u)'
    BY <2>6, <2>9
  <2> QED  BY <2>8, <2>10, <2>11 DEF Pointers
<1> QED  BY <1>1, <1>2 DEF Set, Gone

\* The timer forgets what it removes; the operator keeps the pointer he had found,
\* which the removal has taken from the tree or has missed.
LEMMA DeletePoints ==
  ASSUME Shape, Pointers, NEW t \in {"timer", "operator"}, th[t].arg \in Prefix, Delete(t)
  PROVE  Pointers'
<1> DEFINE p == th[t].arg
           S == Covering(Present, p)
           q == LongestMatch(Present, p)
           moved == Moved(t, After(t).delete)
           next == [th EXCEPT ![t] = moved]
<1> USE DEF history
<1>1. CASE \E kind : Crash(kind)
  BY <1>1, CrashPoints DEF Crash
<1>2. CASE /\ IF S = {} THEN tree' = tree /\ th' = next
              ELSE /\ tree' = [tree EXCEPT ![q] = Absent]
                   /\ th' = [u \in Thread |->
                               IF u # t /\ th[u].pn = "held" /\ th[u].arg = q
                               THEN [th[u] EXCEPT !.pn = "gone"] ELSE next[u]]
           /\ missed' = (missed \/ (t = "operator" /\ (S = {} \/ tree[q] # th[t].mn)))
  <2>1. PICK M : th \in [Thread -> Local(M)]
    BY DEF Shape
  <2>2. t \in Thread /\ th[t].pc = "delete" /\ Pointing(t)
    BY DEF Thread, Delete, At, Pointers
  <2>3. S # {} => q \in Prefix
    <3>1. Present \in SUBSET Seq(Bit) /\ p \in Seq(Bit)
      BY PrefixAssumption DEF Present, Bit
    <3>2. S # {} => q \in S
      BY <3>1, LongestMatchCovers
    <3> QED  BY <3>2 DEF Covering, Present
  <2>4. /\ t = "timer" => moved = Idle
        /\ t = "operator" => /\ moved.pc = "unroute" /\ moved.mn = th[t].mn
                             /\ moved.since = th[t].since /\ moved.arg = th[t].arg
    <3>1. After(t).delete = IF t = "timer" THEN "idle" ELSE "unroute"
      BY DEF After
    <3> QED  BY <2>2, <3>1, MovedFields DEF Moved
  <2> HIDE DEF moved, q, S
  <2>5. next[t] = moved /\ \A u \in Thread \ {t} : next[u] = th[u]
    BY <2>1, <2>2
  <2> HIDE DEF next
  <2>6. th'[t] = moved
    BY <1>2, <2>2, <2>5
  <2>7. \A u \in Thread \ {t} :
          /\ th'[u].pc = th[u].pc /\ th'[u].arg = th[u].arg /\ th'[u].mn = th[u].mn
          /\ th'[u].since = th[u].since /\ th'[u].new = th[u].new
          /\ th'[u].pn = IF S # {} /\ th[u].pn = "held" /\ th[u].arg = q
                         THEN "gone" ELSE th[u].pn
    <3> TAKE u \in Thread \ {t}
    <3>1. th[u] \in Local(M) /\ next[u] = th[u]
      BY <2>1, <2>5
    <3>2. th'[u] = IF S # {} /\ th[u].pn = "held" /\ th[u].arg = q
                   THEN [th[u] EXCEPT !.pn = "gone"] ELSE th[u]
      BY <1>2, <3>1
    <3> QED  BY <3>1, <3>2 DEF Local
  <2>8. \A r \in Prefix : tree'[r] = IF S # {} /\ r = q THEN Absent ELSE tree[r]
    BY <1>2 DEF Shape
  <2>9. missed => missed'
    BY <1>2
  <2>10. OwnNodes'
    BY <2>8, Marks DEF Pointers, OwnNodes
  <2>11. ASSUME NEW u \in Thread \ {t} PROVE Pointing(u)'
    <3>1. Pointing(u)
      BY DEF Pointers
    <3>2. th[u].pc \in Holding /\ th[u].mn # Freed =>
            \A r \in Prefix : tree'[r] = th[u].mn => tree[r] = th[u].mn
      BY <2>8, <3>1, Marks DEF Pointing
    <3>3. \A r \in Prefix : r = th'[u].arg /\ th'[u].pn = "held" =>
            th[u].pn = "held" /\ tree'[r] = tree[r]
      BY <2>7, <2>8
    <3>4. \A r \in Prefix : r = th'[u].arg /\ th'[u].pn = "held" =>
            /\ th[u].pc \in {"test", "free", "set"} => tree'[r] # Absent
            /\ th[u].pc = "free" => tree'[r] # Null
      BY <2>7, <3>1, <3>3 DEF Pointing
    <3>5. th[u].pc = "free" /\ th[u].mn # Freed =>
            \A r \in Prefix : tree'[r] = th[u].mn => r = th[u].arg
      BY <3>1, <3>2 DEF Pointing, Holding
    <3>6. u = "operator" /\ th[u].pc \in {"unroute", "release"} /\ ~missed' /\ th[u].mn # Freed =>
            \A r \in Prefix : tree'[r] # th[u].mn
      BY <2>9, <3>1, <3>2 DEF Pointing, Holding
    <3> QED  BY <2>7, <3>1, <3>4, <3>5, <3>6 DEF Pointing
  <2>12. Pointing(t)'
    <3>1. CASE t = "timer"
      BY <2>2, <2>4, <2>6, <3>1, IdlePoints
    <3>2. CASE t = "operator"
      <4>1. ASSUME ~missed', th[t].mn # Freed, NEW r \in Prefix PROVE tree'[r] # th[t].mn
        <5>1. S # {} /\ tree[q] = th[t].mn
          BY <1>2, <3>2, <4>1
        <5>2. th[t].mn \in Node
          BY <2>2, <4>1 DEF Pointing, Holding
        <5>3. \A s \in Prefix : tree[s] = th[t].mn => s = q
          BY <2>3, <5>1, <5>2 DEF Pointers, OwnNodes
        <5> QED  BY <2>8, <5>1, <5>2, <5>3, Marks
      <4> QED  BY <2>2, <2>4, <2>6, <3>2, <4>1 DEF Pointing, Holding, Updates
    <3> QED  BY <3>1, <3>2
  <2>13. LiveNodes'
    <3> SUFFICES ASSUME NEW r \in Prefix
                 PROVE  /\ tree'[r] = Null => \E u \in Thread : UpdatesAt(u, r, {"test", "set"})'
                        /\ tree'[r] = Freed => missed' \/ \E u \in Thread : UpdatesAt(u, r, {"set"})'
      BY DEF LiveNodes
    <3>1. ASSUME tree'[r] \in {Null, Freed}, NEW u \in Thread, NEW labels,
                 labels \subseteq {"test", "set"}, UpdatesAt(u, r, labels)
          PROVE  UpdatesAt(u, r, labels)'
      <4>1. ~(S # {} /\ r = q)
        BY <2>8, <3>1, Marks
      <4>2. u # t
        BY <2>2, <3>1 DEF UpdatesAt
      <4> QED  BY <2>7, <3>1, <4>1, <4>2 DEF UpdatesAt
    <3>2. tree'[r] \in {Null, Freed} => tree'[r] = tree[r]
      BY <2>8, Marks
    <3>3. ASSUME tree'[r] = Null PROVE \E u \in Thread : UpdatesAt(u, r, {"test", "set"})'
      <4>1. PICK u \in Thread : UpdatesAt(u, r, {"test", "set"})
        BY <3>2, <3>3 DEF Pointers, LiveNodes
      <4> QED  BY <3>1, <3>3, <4>1
    <3>4. ASSUME tree'[r] = Freed, ~missed' PROVE \E u \in Thread : UpdatesAt(u, r, {"set"})'
      <4>1. PICK u \in Thread : UpdatesAt(u, r, {"set"})
        BY <2>9, <3>2, <3>4 DEF Pointers, LiveNodes
      <4> QED  BY <3>1, <3>4, <4>1
    <3> QED  BY <3>3, <3>4
  <2>14. \A u \in Thread : Pointing(u)'
    BY <2>11, <2>12
  <2> QED  BY <2>10, <2>13, <2>14 DEF Pointers
<1> QED  BY <1>1, <1>2 DEF Delete, Gone

\* Every step keeps what is known of the pointers.
LEMMA NextPoints ==
  ASSUME Shape, Known, Pointers, [Next]_vars
  PROVE  Pointers'
<1> USE DEF history
<1>1. CASE UNCHANGED vars
  BY <1>1, CrashPoints DEF vars
<1>2. ASSUME NEW h \in Host, Watch(h) \/ Forward(h) PROVE Pointers'
  BY <1>2, SubsetAssumption, BeginPoints DEF Watch, Forward, Begin, Thread, EntryState
<1>3. ASSUME NEW p \in ReplyPrefix, Reply(p) PROVE Pointers'
  BY <1>3, SubsetAssumption, BeginPoints DEF Reply, Begin, Thread, EntryState
<1>4. ASSUME NEW p \in StaticPrefix, install_mapnode_static(p) \/ uninstall_mapnode_static(p)
      PROVE  Pointers'
  BY <1>4, SubsetAssumption, BeginPoints
     DEF install_mapnode_static, uninstall_mapnode_static, Begin, Thread, EntryState
<1>5. ASSUME NEW p \in Prefix, Visit(p) PROVE Pointers'
  BY <1>5, VisitPoints
<1>6. ASSUME NEW t \in Thread \ {"timer"}, Search(t) PROVE Pointers'
  BY <1>6, SearchPoints
<1>7. ASSUME NEW t \in Updaters, Update(t) PROVE Pointers'
  <2>1. t \in Thread /\ (th[t].pc # "idle" => th[t].arg \in Prefix)
    BY DEF Known, Updating, Updaters, Thread
  <2>2. CASE AddRoute(t)
    <3>1. Go(t, "idle") /\ tree' = tree /\ missed' = missed /\ th[t].pc = "route"
      BY <2>2 DEF AddRoute, At
    <3> QED  BY <2>1, <3>1, GoPoints DEF Label, Holding
  <2>3. CASE Lookup(t)
    BY <2>1, <2>3, LookupPoints DEF Lookup, At
  <2>4. CASE Test(t)
    BY <2>1, <2>4, TestPoints DEF Test, At
  <2>5. CASE FreeOld(t)
    BY <2>1, <2>5, FreeOldPoints DEF FreeOld, At
  <2>6. CASE Set(t)
    BY <2>1, <2>6, SetPoints DEF Set, At
  <2> QED  BY <1>7, <2>2, <2>3, <2>4, <2>5, <2>6 DEF Update
<1>8. ASSUME NEW t \in {"message", "data"}, Use(t) PROVE Pointers'
  <2>1. CASE Crash("use after free")
    BY <2>1, CrashPoints DEF Crash
  <2>2. CASE Go(t, "idle") /\ tree' = tree /\ missed' = missed
    BY <1>8, <2>2, GoPoints DEF Use, At, Label, Thread, Holding
  <2> QED  BY <1>8, <2>1, <2>2 DEF Use
<1>9. ASSUME NEW t \in {"timer", "operator"}, Delete(t) PROVE Pointers'
  <2>1. th[t].arg \in Prefix
    BY <1>9 DEF Known, Visiting, Updating, Updaters, Delete, At
  <2> QED  BY <1>9, <2>1, DeletePoints
<1>10. ASSUME NEW t \in {"timer", "operator"}, DelRoute(t) PROVE Pointers'
  <2>1. CASE \E kind : Crash(kind)
    BY <2>1, CrashPoints DEF Crash
  <2>2. CASE Go(t, After(t).unroute) /\ tree' = tree /\ missed' = missed
    <3>1. After(t).unroute = IF t = "timer" THEN "delete" ELSE "release"
      BY DEF After
    <3>2. t \in Thread /\ th[t].pc = "unroute" /\ th[t].mn # Null
      BY <1>10 DEF Thread, DelRoute, At, Pointers, Pointing, Holding
    <3> QED  BY <2>2, <3>1, <3>2, GoPoints DEF Label, Holding
  <2> QED  BY <1>10, <2>1, <2>2 DEF DelRoute, Gone
<1>11. CASE Check
  <2>1. CASE Crash("use after free")
    BY <2>1, CrashPoints DEF Crash
  <2>2. CASE \E label \in {"idle", "delete"} :
               Go("operator", label) /\ tree' = tree /\ missed' = missed
    <3>1. /\ "operator" \in Thread /\ th["operator"].pc = "check"
          /\ th["operator"].mn # Null
      BY <1>11 DEF Thread, Check, At, Pointers, Pointing, Holding
    <3> QED  BY <2>2, <3>1, GoPoints DEF Label, Holding
  <2> QED  BY <1>11, <2>1, <2>2 DEF Check, After
<1>12. CASE Release
  BY <1>12, ReleasePoints
<1>13. CASE Age
  <2>1. CASE \E kind : Crash(kind)
    BY <2>1, CrashPoints DEF Crash
  <2>2. CASE \E label \in {"idle", "unroute"} :
               /\ Go("timer", label) /\ tree' = tree /\ missed' = missed
               /\ th["timer"].mn # Null
    <3>1. "timer" \in Thread /\ th["timer"].pc = "age"
      BY <1>13 DEF Thread, Age, At
    <3> QED  BY <2>2, <3>1, GoPoints DEF Label, Holding
  <2> QED  BY <1>13, <2>1, <2>2 DEF Age, Gone, After
<1>14. CASE Undefined
  BY <1>1, <1>14 DEF Undefined
<1> QED  BY <1>1, <1>2, <1>3, <1>4, <1>5, <1>6, <1>7, <1>8, <1>9, <1>10, <1>11, <1>12, <1>13,
            <1>14 DEF Next

-----------------------------------------------------------------------------
(* The routes, and the rest of the types.                                  *)

Rest ==
  /\ routes \subseteq Prefix
  /\ fault \in {"none", "null", "use after free", "double free", "tree node"}
  /\ late \subseteq Prefix

\* Routes come and go for the prefixes of calls only.
LEMMA NextRest ==
  ASSUME Known, Rest, [Next]_vars
  PROVE  Rest'
<1>1. CASE UNCHANGED <<routes, fault, late>>
  BY <1>1 DEF Rest
<1>2. ASSUME NEW kind \in {"null", "use after free", "double free", "tree node"}, Crash(kind)
      PROVE  Rest'
  BY <1>2 DEF Rest, Crash, history
<1>3. ASSUME NEW t \in Updaters, AddRoute(t) PROVE Rest'
  <2>1. th[t].arg \in Prefix
    BY <1>3 DEF Known, Updating, AddRoute, At
  <2> QED  BY <1>3, <2>1 DEF Rest, AddRoute
<1>4. ASSUME NEW t \in {"timer", "operator"}, DelRoute(t) PROVE Rest'
  <2>1. t = "operator" => th[t].arg \in Prefix
    BY <1>4 DEF Known, Updating, Updaters, DelRoute, At
  <2>2. CASE \E kind \in {"use after free", "tree node"} : Crash(kind)
    BY <1>2, <2>2
  <2>3. CASE /\ routes' \in {routes, routes \ {th[t].arg}}
             /\ late' = late \/ (t = "operator" /\ late' = late \cup {th[t].arg})
             /\ fault' = fault
    BY <2>1, <2>3 DEF Rest
  <2> QED  BY <1>4, <2>2, <2>3 DEF DelRoute, Gone
<1>5. CASE \/ \E t \in Thread : Search(t) \/ Use(t) \/ Lookup(t) \/ Test(t) \/ FreeOld(t)
                                \/ Set(t) \/ Delete(t)
           \/ Check \/ Release \/ Age
  BY <1>1, <1>2, <1>5 DEF Search, Use, Lookup, Test, FreeOld, Set, Delete, Check, Release, Age,
     Gone, history
<1>6. CASE \/ \E h \in Host : Watch(h) \/ Forward(h)
           \/ \E p \in ReplyPrefix : Reply(p)
           \/ \E p \in StaticPrefix : install_mapnode_static(p) \/ uninstall_mapnode_static(p)
           \/ \E p \in Prefix : Visit(p)
  BY <1>1, <1>6 DEF Watch, Forward, Reply, install_mapnode_static, uninstall_mapnode_static,
     Visit, Begin
<1>7. CASE UNCHANGED vars \/ Undefined
  BY <1>1, <1>7 DEF Undefined, vars
<1> QED  BY <1>3, <1>4, <1>5, <1>6, <1>7 DEF Next, Update, Updaters, Thread

\* All that the theorems below rest on.
NodeInv == Inv /\ Known /\ Pointers /\ Rest

\* The daemon starts without entries, and without a thread inside a call.
LEMMA NodeInit == Init => NodeInv
<1> SUFFICES ASSUME Init PROVE NodeInv
  OBVIOUS
<1>1. \A t \in Thread : th[t] = Idle
  BY DEF Init
<1>2. \A p \in Prefix : tree[p] = Absent
  BY DEF Init
<1>3. Pointers
  <2>1. OwnNodes /\ LiveNodes
    BY <1>2, Marks DEF OwnNodes, LiveNodes
  <2>2. \A t \in Thread : Pointing(t)
    BY <1>1 DEF Pointing, Idle, Holding, Updates
  <2> QED  BY <2>1, <2>2 DEF Pointers
<1>4. Rest
  BY DEF Init, Rest
<1> QED  BY <1>3, <1>4, InitHolds, KnownInit DEF NodeInv

\* Every step of every thread keeps it.
LEMMA NodeNext == NodeInv /\ [Next]_vars => NodeInv'
BY NextKeeps, NextProtects, NextPoints, NextRest DEF NodeInv, Inv

\* The tree and the threads hold pointers to map nodes and marks only, a pointer that
\* is followed was set, and routes are those of prefixes of the family.
THEOREM TypeCorrect == Spec => []TypeOK
<1>1. NodeInv => TypeOK
  <2> SUFFICES ASSUME NodeInv PROVE TypeOK
    OBVIOUS
  <2>1. PICK M : th \in [Thread -> Local(M)]
    BY DEF NodeInv, Inv, Shape
  <2>2. ASSUME NEW t \in Thread
        PROVE  /\ th[t].arg \in Prefix \cup {<<>>}
               /\ th[t].pn \in {"none", "held", "gone"}
    BY <2>1 DEF Local
  <2>3. ASSUME NEW t \in Thread
        PROVE  /\ th[t].mn \in Node \cup {Null, Freed}
               /\ th[t].pc \in {"use", "check", "release"} => th[t].mn # Null
               /\ th[t].since \subseteq Prefix
    BY DEF NodeInv, Pointers, Pointing, Holding
  <2> QED  BY <2>2, <2>3 DEF TypeOK, NodeInv, Rest, Pointers, OwnNodes, Node
<1> QED  BY <1>1, NodeInit, NodeNext, PTL DEF Spec

\* However the calls of the five threads overlap, a tree node's data pointer is unset
\* or freed only inside an update of its prefix, unless the operator's removal has
\* taken another entry than the one it then freed.
THEOREM LiveNodesOnly == Spec => []TreeHoldsLiveNodes
<1>1. NodeInv => TreeHoldsLiveNodes
  BY DEF NodeInv, Pointers, LiveNodes, UpdatesAt, TreeHoldsLiveNodes
<1> QED  BY <1>1, NodeInit, NodeNext, PTL DEF Spec

-----------------------------------------------------------------------------
(* Calls that do not overlap.                                              *)

\* No other thread is inside a call.
Alone(t) == \A u \in Thread \ {t} : th[u].pc = "idle"

\* What a thread that is alone knows inside an update or a search: what its call is
\* to enter, that a mapping is entered only where nothing matched, and that what it
\* holds is still what the tree holds.
Entering(t) ==
  /\ t = "watcher" /\ th[t].pc \in Updates \cup {"search"} =>
       th[t].arg \in Host /\ th[t].new = "queried"
  /\ t = "message" /\ th[t].pc \in Updates \cup {"search"} =>
       th[t].new \in {"active", "negative"}
  /\ t = "operator" /\ th[t].pc \in Updates => th[t].new = "static"
  /\ th[t].pc = "route" => th[t].new \in InUse
  /\ th[t].pc = "lookup" /\ th[t].new \in {"active", "queried"} =>
       Covering(Present, th[t].arg) = {}
  /\ th[t].pc = "test" /\ th[t].new \in {"active", "queried"} =>
       Covering(Present, th[t].arg) = {th[t].arg} /\ tree[th[t].arg] = Null
  /\ th[t].pc \in {"test", "free", "set"} => th[t].pn = "held"
  /\ th[t].pc = "free" => th[t].mn = tree[th[t].arg]
  /\ th[t].pc = "use" => th[t].mn # Freed

\* In the operator's removal: what he has found is what delete_mapnode will take,
\* and once that is gone there is no entry of the prefix he takes the route of.
Removing(t) ==
  t = "operator" =>
    /\ th[t].pc \in {"search", "check", "delete"} => th[t].pn = "none"
    /\ th[t].pc \in {"check", "delete"} =>
         /\ Covering(Present, th[t].arg) # {}
         /\ th[t].mn = tree[LongestMatch(Present, th[t].arg)]
    /\ th[t].pc = "delete" => th[t].mn.state \notin {"active", "queried"}
    /\ th[t].pc = "unroute" => tree[th[t].arg] = Absent
    /\ th[t].pc \in {"unroute", "release"} => th[t].mn # Freed

\* On the timer's walk: the node is there, no static entry covers it, and its route
\* is taken before the entry is.
Ageing(t) ==
  t = "timer" /\ th[t].pc \in {"age", "unroute", "delete"} =>
    /\ th[t].pn = "held" /\ th[t].mn = tree[th[t].arg] /\ ~Shielded(th[t].arg)
    /\ th[t].pc # "age" => th[t].mn.state # "static"
    /\ th[t].pc = "delete" /\ th[t].mn.state = "active" => th[t].arg \notin routes

Steady(t) ==
  /\ th[t].pc # "idle" => th[t].arg \in Prefix
  /\ Entering(t) /\ Removing(t) /\ Ageing(t)

\* Until two calls overlap, one thread at a time is inside a call, and touches no
\* memory it must not.
Settled == fault = "none" /\ ~missed /\ late = {}
Calm == ~overlapped => Settled /\ \E t \in Thread : Alone(t) /\ Steady(t)

\* The cache that the tree, the routes and one thread inside a call stand for.
Seen(t, p) ==
  IF t \in Updaters /\ th[t].pc \in {"free", "set"} /\ p = th[t].arg THEN th[t].new
  ELSE IF tree[p] \in {Absent, Null} THEN "none" ELSE tree[p].state

Routed(t) ==
  IF t = "operator" /\ th[t].pc = "unroute" THEN routes \ {th[t].arg}
  ELSE IF /\ t = "timer" /\ th[t].pc = "delete" /\ th[t].mn.state = "active"
          \/ /\ t \in Updaters /\ th[t].pc \in {"free", "set", "route"}
             /\ th[t].new \in InUse
    THEN routes \cup {th[t].arg} ELSE routes

\* They are what the refinement mapping says.
LEMMA OneView ==
  \A t \in Thread : Alone(t) /\ (th[t].pc # "idle" => th[t].arg \in Prefix) =>
    /\ cached = [p \in Prefix |-> Seen(t, p)]
    /\ tunnelled = Routed(t)
<1> SUFFICES ASSUME NEW t \in Thread, Alone(t), th[t].pc # "idle" => th[t].arg \in Prefix
             PROVE  /\ cached = [p \in Prefix |-> Seen(t, p)]
                    /\ tunnelled = Routed(t)
  OBVIOUS
<1>1. \A u \in Thread : th[u].pc # "idle" => u = t
  BY DEF Alone
<1>2. Updaters \subseteq Thread /\ "operator" \in Thread /\ "timer" \in Thread
  BY DEF Updaters, Thread
<1>3. ASSUME NEW p \in Prefix
      PROVE  (IF Settling(p) # {} THEN th[CHOOSE u \in Settling(p) : TRUE].new
              ELSE IF tree[p] \in {Absent, Null} THEN "none" ELSE tree[p].state) = Seen(t, p)
  <2>1. CASE t \in Updaters /\ th[t].pc \in {"free", "set"} /\ p = th[t].arg
    <3>1. Settling(p) = {t}
      BY <1>1, <1>2, <2>1 DEF Settling
    <3>2. (CHOOSE u \in Settling(p) : TRUE) = t
      BY <3>1
    <3> QED  BY <2>1, <3>1, <3>2 DEF Seen
  <2>2. CASE ~(t \in Updaters /\ th[t].pc \in {"free", "set"} /\ p = th[t].arg)
    <3>1. Settling(p) = {}
      BY <1>1, <1>2, <2>2 DEF Settling
    <3> QED  BY <2>2, <3>1 DEF Seen
  <2> QED  BY <2>1, <2>2
<1>4. cached = [p \in Prefix |-> Seen(t, p)]
  BY <1>3 DEF cached
<1>5. tunnelled = Routed(t)
  <2> DEFINE busy == /\ t \in Updaters /\ th[t].pc \in {"free", "set", "route"}
                     /\ th[t].new \in InUse
  <2>1. Routing = IF busy THEN {th[t].arg} ELSE {}
    <3>1. ASSUME NEW p PROVE p \in Routing <=> busy /\ p = th[t].arg
      BY <1>1, <1>2 DEF Routing
    <3> QED  BY <3>1
  <2>2. th["operator"].pc = "unroute" => t = "operator"
    BY <1>1, <1>2
  <2>3. th["timer"].pc = "delete" => t = "timer"
    BY <1>1, <1>2
  <2>4. "timer" \notin Updaters
    BY DEF Updaters
  <2> QED  BY <2>1, <2>2, <2>3, <2>4 DEF tunnelled, Routed
<1> QED  BY <1>4, <1>5

\* And so they are after a step.
LEMMA OneViewNext ==
  (\A t \in Thread : Alone(t) /\ (th[t].pc # "idle" => th[t].arg \in Prefix) =>
     /\ cached = [p \in Prefix |-> Seen(t, p)]
     /\ tunnelled = Routed(t))'
BY OneView, PTL

\* What a step does to the cache is what it does to these.
LEMMA SameView ==
  ASSUME NEW t \in Thread, Alone(t), Alone(t)',
         th[t].pc # "idle" => th[t].arg \in Prefix,
         th'[t].pc # "idle" => th'[t].arg \in Prefix
  PROVE  /\ cached = [p \in Prefix |-> Seen(t, p)]
         /\ tunnelled = Routed(t)
         /\ cached' = [p \in Prefix |-> Seen(t, p)']
         /\ tunnelled' = Routed(t)'
BY OneView, OneViewNext

\* A step of a thread that is alone is a step of the cache or none, and leaves the
\* thread alone and knowing what it must.
Served == (Cache!Next \/ (cached' = cached /\ tunnelled' = tunnelled)) /\ fault' = "none"
Orderly(t) == Settled' /\ Alone(t)' /\ Steady(t)' /\ Served

\* What is unset or freed in the tree is being updated by the thread that is alone.
LEMMA SoundTree ==
  ASSUME NodeInv, ~missed, NEW t \in Thread, Alone(t), NEW p \in Prefix
  PROVE  /\ tree[p] \in Node \cup {Absent, Null, Freed}
         /\ tree[p] = Null => UpdatesAt(t, p, {"test", "set"})
         /\ tree[p] = Freed => UpdatesAt(t, p, {"set"})
<1>1. ASSUME NEW labels, NEW u \in Thread, UpdatesAt(u, p, labels), labels \subseteq {"test", "set"}
      PROVE  u = t
  BY <1>1 DEF UpdatesAt, Alone
<1>2. tree[p] = Null => UpdatesAt(t, p, {"test", "set"})
  BY <1>1 DEF NodeInv, Pointers, LiveNodes
<1>3. tree[p] = Freed => UpdatesAt(t, p, {"set"})
  BY <1>1 DEF NodeInv, Pointers, LiveNodes
<1> QED  BY <1>2, <1>3 DEF NodeInv, Pointers, OwnNodes

\* A step that leaves what the cache sees.
LEMMA Stutters ==
  ASSUME NEW t \in Thread, Alone(t), Alone(t)',
         th[t].pc # "idle" => th[t].arg \in Prefix,
         th'[t].pc # "idle" => th'[t].arg \in Prefix,
         \A p \in Prefix : Seen(t, p)' = Seen(t, p),
         Routed(t)' = Routed(t), fault' = "none"
  PROVE  Served
<1>1. /\ cached = [p \in Prefix |-> Seen(t, p)]
      /\ tunnelled = Routed(t)
      /\ cached' = [p \in Prefix |-> Seen(t, p)']
      /\ tunnelled' = Routed(t)'
  BY SameView
<1> QED  BY <1>1 DEF Served

\* Nobody moves but one.
LEMMA StaysAlone ==
  ASSUME NEW t \in Thread, Alone(t), OthersStay(t)
  PROVE  Alone(t)'
BY DEF Alone, OthersStay

\* A call that begins while no other thread is inside one.
LEMMA BeginAlone ==
  ASSUME NodeInv, Calm, NEW t \in Thread, NEW call, Begin(t, call),
         ~overlapped, Busy = {},
         call.pc \in {"search", "lookup", "age"}, call.arg \in Prefix
  PROVE  /\ Settled' /\ Alone(t)' /\ Served
         /\ th'[t] = call /\ tree' = tree
         /\ \A p \in Prefix : tree[p] \in Node \cup {Absent}
<1>1. \A u \in Thread : th[u].pc = "idle"
  BY DEF Busy
<1>2. Settled /\ Alone(t)
  BY <1>1 DEF Calm, Alone
<1>3. th' = [th EXCEPT ![t] = call] /\ UNCHANGED <<tree, routes, fault, late, missed>>
  BY DEF Begin
<1>4. th'[t] = call /\ \A u \in Thread \ {t} : th'[u] = th[u]
  BY <1>3 DEF NodeInv, Inv, Shape
<1>5. Alone(t)'
  BY <1>2, <1>4 DEF Alone
<1>6. Settled'
  BY <1>2, <1>3 DEF Settled
<1>7. (\A p \in Prefix : Seen(t, p)' = Seen(t, p)) /\ Routed(t)' = Routed(t)
  BY <1>1, <1>3, <1>4 DEF Seen, Routed
<1>8. Served
  BY <1>1, <1>2, <1>4, <1>5, <1>6, <1>7, Stutters DEF Settled
<1>9. \A p \in Prefix : tree[p] \in Node \cup {Absent}
  BY <1>1, <1>2, SoundTree DEF Settled, UpdatesAt
<1> QED  BY <1>3, <1>4, <1>5, <1>6, <1>8, <1>9

\* A call of the watcher, the message thread, the operator or the data plane.
LEMMA CallAlone ==
  ASSUME NodeInv, Calm, NEW t \in Thread \ {"timer"}, NEW label \in {"search", "lookup"},
         NEW p \in Prefix, NEW new, Begin(t, Call(label, p, new)),
         overlapped' = (overlapped \/ Busy # {}), ~overlapped',
         t = "watcher" => p \in Host /\ new = "queried",
         t = "message" => new \in {"active", "negative"},
         label = "lookup" => new \in {"negative", "static"},
         t = "operator" /\ label = "lookup" => new = "static"
  PROVE  Orderly(t)
<1> DEFINE call == Call(label, p, new)
<1>1. /\ call.pc = label /\ call.arg = p /\ call.new = new /\ call.mn = Null
      /\ call.pn = "none"
  BY DEF Call, Idle
<1> HIDE DEF call
<1>2. /\ Settled' /\ Alone(t)' /\ Served
      /\ th'[t] = call
  BY <1>1, BeginAlone DEF call
<1>3. Entering(t)'
  BY <1>1, <1>2 DEF Entering, Updates
<1>4. Removing(t)' /\ Ageing(t)'
  BY <1>1, <1>2 DEF Removing, Ageing
<1> QED  BY <1>1, <1>2, <1>3, <1>4 DEF Orderly, Steady

\* The timer comes to a node, not below a static entry.
LEMMA VisitAlone ==
  ASSUME NodeInv, Calm, NEW p \in Prefix, Visit(p), ~overlapped'
  PROVE  Orderly("timer")
<1> DEFINE call == [Call("age", p, "none") EXCEPT !.mn = tree[p], !.pn = "held"]
<1>1. call.pc = "age" /\ call.arg = p /\ call.mn = tree[p] /\ call.pn = "held"
  BY DEF Call, Idle
<1>2. Begin("timer", call) /\ ~overlapped /\ Busy = {} /\ ~Shielded(p) /\ tree[p] # Absent
  BY DEF Visit
<1> HIDE DEF call
<1>3. "timer" \in Thread
  BY DEF Thread
<1>4. /\ Settled' /\ Alone("timer")' /\ Served
      /\ th'["timer"] = call /\ tree' = tree
  BY <1>1, <1>2, <1>3, BeginAlone
<1>5. Entering("timer")' /\ Removing("timer")'
  BY <1>1, <1>4 DEF Entering, Removing, Updates
<1>6. Ageing("timer")'
  BY <1>1, <1>2, <1>4 DEF Ageing, Shielded
<1> QED  BY <1>1, <1>4, <1>5, <1>6 DEF Orderly, Steady

\* A thread that moves on keeps all but its place.
LEMMA GoAlone ==
  ASSUME NodeInv, NEW t \in Thread, Alone(t), NEW label \in Label, Go(t, label)
  PROVE  /\ Alone(t)' /\ th'[t].pc = label
         /\ label # "idle" =>
              /\ th'[t].arg = th[t].arg /\ th'[t].new = th[t].new /\ th'[t].mn = th[t].mn
              /\ th'[t].pn = th[t].pn
<1>1. Shape
  BY DEF NodeInv, Inv
<1>2. th'[t] = Moved(t, label)
  BY <1>1 DEF Go, Shape
<1> QED  BY <1>1, <1>2, GoShape, StaysAlone, MovedFields, MovedNew

\* A thread outside a call knows nothing.
LEMMA SteadyIdle ==
  ASSUME NEW t \in Thread, th'[t].pc = "idle"
  PROVE  Steady(t)'
BY DEF Steady, Entering, Removing, Ageing, Updates

\* A call that ends without having changed what the cache sees.
LEMMA EndAlone ==
  ASSUME NodeInv, Settled, NEW t \in Thread, Alone(t), Steady(t), th[t].pc # "idle",
         Go(t, "idle"), UNCHANGED <<tree, routes, fault, late, missed>>,
         th[t].pc \notin {"free", "set", "route", "unroute", "delete"}
  PROVE  Orderly(t)
<1>1. Alone(t)' /\ th'[t].pc = "idle"
  BY GoAlone DEF Label
<1>2. (\A p \in Prefix : Seen(t, p)' = Seen(t, p)) /\ Routed(t)' = Routed(t)
  BY <1>1 DEF Seen, Routed
<1>3. Settled'
  BY DEF Settled
<1>4. th[t].arg \in Prefix
  BY DEF Steady
<1>5. Served
  BY <1>1, <1>2, <1>3, <1>4, Stutters DEF Settled
<1> QED  BY <1>1, <1>3, <1>5, SteadyIdle DEF Orderly

\* What a search finds alone is live.
LEMMA SearchAlone ==
  ASSUME NodeInv, Settled, NEW t \in Thread \ {"timer"}, Alone(t), Steady(t), Search(t)
  PROVE  Orderly(t)
<1> DEFINE p == th[t].arg
           mn == Found(p)
           label == AfterSearch(t, mn)
           next == Moved(t, label)
           x == IF next = Idle THEN Idle ELSE [next EXCEPT !.mn = mn]
<1>1. /\ label \in {"lookup", "idle", "use", "check"}
      /\ label = "lookup" => t \in {"watcher", "message"} /\ mn = Null
      /\ label \in {"use", "check"} => mn # Null
      /\ label = "check" => t = "operator"
      /\ t = "operator" => label \in {"check", "idle"}
  BY DEF AfterSearch, Thread
<1>2. /\ th' = [th EXCEPT ![t] = x] /\ UNCHANGED <<tree, routes, fault, late, missed>>
      /\ th[t].pc = "search" /\ p \in Prefix /\ Shape
  BY DEF Search, At, history, Steady, NodeInv, Inv
<1>3. th'[t] = x /\ \A u \in Thread \ {t} : th'[u] = th[u]
  BY <1>2 DEF Shape
<1>4. Alone(t)' /\ Settled'
  BY <1>2, <1>3 DEF Alone, Settled
<1>5. \A q \in Prefix : tree[q] \in Node \cup {Absent}
  BY <1>2, SoundTree DEF Settled, UpdatesAt
<1>6. /\ Covering(Present, p) = {} => mn = Null
      /\ Covering(Present, p) # {} => mn = tree[LongestMatch(Present, p)] /\ mn \in Node
  <2>1. Present \in SUBSET Seq(Bit) /\ p \in Seq(Bit)
    BY <1>2, PrefixAssumption DEF Present, Bit
  <2>2. Covering(Present, p) # {} => LongestMatch(Present, p) \in Present
    BY <2>1, LongestMatchCovers DEF Covering
  <2>3. Covering(Present, p) # {} => tree[LongestMatch(Present, p)] \in Node
    BY <1>5, <2>2 DEF Present
  <2> QED  BY <2>3 DEF Found
<1>7. Present' = Present
  BY <1>2 DEF Present
<1> HIDE DEF mn
<1>8. CASE label = "idle"
  <2>1. x = Idle
    BY <1>8 DEF Moved
  <2>2. th'[t].pc = "idle"
    BY <1>3, <2>1 DEF Idle
  <2>3. (\A q \in Prefix : Seen(t, q)' = Seen(t, q)) /\ Routed(t)' = Routed(t)
    BY <1>2, <2>2 DEF Seen, Routed
  <2> QED  BY <1>2, <1>4, <2>2, <2>3, Stutters, SteadyIdle DEF Orderly, Settled
<1>9. CASE label # "idle"
  <2>1. /\ next.pc = label /\ next.arg = p /\ next.pn = th[t].pn /\ next.new = th[t].new
    BY <1>2, <1>9, MovedFields, MovedNew
  <2>2. x = [next EXCEPT !.mn = mn]
    BY <1>9, <2>1 DEF Idle
  <2>3. PICK M : next \in Local(M)
    <3>1. PICK M : th \in [Thread -> Local(M)]
      BY <1>2 DEF Shape
    <3>2. label \in Label
      BY <1>1 DEF Label
    <3> QED  BY <3>1, <3>2, MovedShape
  <2> HIDE DEF label, next, x
  <2>4. /\ th'[t].pc = label /\ th'[t].arg = p /\ th'[t].pn = th[t].pn
        /\ th'[t].mn = mn /\ th'[t].new = th[t].new
    BY <1>3, <2>1, <2>2, <2>3 DEF Local
  <2>5. Served
    <3>1. (\A q \in Prefix : Seen(t, q)' = Seen(t, q)) /\ Routed(t)' = Routed(t)
      BY <1>1, <1>2, <2>4 DEF Seen, Routed
    <3> QED  BY <1>2, <1>4, <2>4, <3>1, Stutters DEF Settled
  <2>6. label = "lookup" => Covering(Present, p) = {}
    BY <1>1, <1>6, Marks
  <2>7. Entering(t)'
    <3>1. label = "use" => mn # Freed
      BY <1>1, <1>6, Marks
    <3>2. Entering(t)
      BY DEF Steady
    <3>3. label = "lookup" => Covering(Present', th'[t].arg) = {}
      BY <1>7, <2>4, <2>6
    <3> QED  BY <1>1, <1>2, <2>4, <3>1, <3>2, <3>3 DEF Entering, Updates
  <2>8. Removing(t)'
    <3>1. t = "operator" => th[t].pn = "none" /\ label = "check"
      BY <1>1, <1>2, <1>9 DEF Steady, Removing
    <3>2. label = "check" => Covering(Present, p) # {} /\ mn = tree[LongestMatch(Present, p)]
      BY <1>1, <1>6
    <3> QED  BY <1>2, <1>7, <2>4, <3>1, <3>2 DEF Removing
  <2>9. Ageing(t)'
    BY DEF Ageing
  <2> QED  BY <1>2, <1>4, <2>4, <2>5, <2>7, <2>8, <2>9 DEF Orderly, Steady
<1> QED  BY <1>8, <1>9

\* What was found is used before anything happens to it.
LEMMA UseAlone ==
  ASSUME NodeInv, Settled, NEW t \in {"message", "data"}, Alone(t), Steady(t), Use(t)
  PROVE  Orderly(t)
<1>1. th[t].pc = "use" /\ th[t].mn # Freed
  BY DEF Use, At, Steady, Entering
<1>2. Go(t, "idle") /\ UNCHANGED <<tree, routes, fault, late, missed>>
  BY <1>1 DEF Use, history
<1> QED  BY <1>1, <1>2, EndAlone DEF Thread

\* A new tree node is nothing to the cache.
LEMMA LookupAlone ==
  ASSUME NodeInv, Settled, NEW t \in Updaters, Alone(t), Steady(t), Lookup(t)
  PROVE  Orderly(t)
<1> DEFINE x == [Moved(t, "test") EXCEPT !.pn = "held"]
           p == th[t].arg
<1>1. /\ th' = [th EXCEPT ![t] = x] /\ UNCHANGED <<routes, fault, late, missed>>
      /\ th[t].pc = "lookup" /\ t \in Thread /\ t # "timer" /\ p \in Prefix /\ Shape
  BY DEF Lookup, At, history, Updaters, Thread, Steady, NodeInv, Inv
<1>2. \A q \in Prefix : tree'[q] = IF q = p /\ tree[q] = Absent THEN Null ELSE tree[q]
  BY <1>1 DEF Lookup, Shape
<1>3. /\ x.pc = "test" /\ x.arg = p /\ x.pn = "held" /\ x.new = th[t].new
  <2>1. PICK M : th \in [Thread -> Local(M)]
    BY <1>1 DEF Shape
  <2>2. Moved(t, "test") \in Local(M \cup {Null})
    BY <1>1, <2>1, MovedShape DEF Label
  <2> QED  BY <1>1, <2>2, MovedFields, MovedNew DEF Local
<1> HIDE DEF x
<1>4. th'[t] = x /\ \A u \in Thread \ {t} : th'[u] = th[u]
  BY <1>1 DEF Shape
<1>5. Alone(t)' /\ Settled'
  BY <1>1, <1>4 DEF Alone, Settled
<1>6. Served
  <2>1. (\A q \in Prefix : Seen(t, q)' = Seen(t, q)) /\ Routed(t)' = Routed(t)
    BY <1>1, <1>2, <1>3, <1>4, Marks DEF Seen, Routed
  <2> QED  BY <1>1, <1>3, <1>4, <1>5, <2>1, Stutters DEF Settled
<1>7. Entering(t)'
  <2>1. Entering(t)
    BY DEF Steady
  <2>2. ASSUME th[t].new \in {"active", "queried"}
        PROVE  Covering(Present', p) = {p} /\ tree'[p] = Null
    <3>1. Covering(Present, p) = {}
      BY <1>1, <2>1, <2>2 DEF Entering
    <3>2. Covers(p, p)
      BY <1>1, PrefixAssumption, CoversReflexive DEF Bit
    <3>3. tree[p] = Absent /\ tree'[p] = Null
      BY <1>1, <1>2, <3>1, <3>2 DEF Covering, Present
    <3>4. \A q : q \in Present' <=> q \in Present \/ q = p
      BY <1>1, <1>2, <3>3, Marks DEF Present
    <3>5. Covering(Present', p) = {p}
      BY <3>1, <3>2, <3>4 DEF Covering
    <3> QED  BY <3>3, <3>5
  <2>3. /\ th'[t].pc = "test" /\ th'[t].arg = p /\ th'[t].pn = "held" /\ th'[t].new = th[t].new
    BY <1>3, <1>4
  <2>4. th'[t].new \in {"active", "queried"} =>
          Covering(Present', th'[t].arg) = {th'[t].arg} /\ tree'[th'[t].arg] = Null
    BY <2>2, <2>3
  <2> QED  BY <1>1, <2>1, <2>3, <2>4 DEF Entering, Updates
<1>8. Removing(t)' /\ Ageing(t)'
  BY <1>1, <1>3, <1>4 DEF Removing, Ageing
<1> QED  BY <1>1, <1>3, <1>4, <1>5, <1>6, <1>7, <1>8 DEF Orderly, Steady

\* The cache matches prefixes as the table does.
LEMMA CacheMatches ==
  /\ \A T, p : Cache!Covering(T, p) = Covering(T, p)
  /\ \A T, p : Cache!LongestMatch(T, p) = LongestMatch(T, p)
  /\ \A p, q : Cache!StrictlyCovers(p, q) <=> StrictlyCovers(p, q)
<1>1. \A p, q : Cache!Covers(p, q) <=> Covers(p, q)
  BY DEF Cache!Covers, Covers, Cache!IsPrefix, IsPrefix
<1>2. \A T, p : Cache!Covering(T, p) = Covering(T, p)
  BY <1>1 DEF Cache!Covering, Covering
<1>3. \A T, p : Cache!LongestMatch(T, p) = LongestMatch(T, p)
  BY <1>2 DEF Cache!LongestMatch, LongestMatch
<1>4. \A p, q : Cache!StrictlyCovers(p, q) <=> StrictlyCovers(p, q)
  BY <1>1 DEF Cache!StrictlyCovers, StrictlyCovers
<1> QED  BY <1>2, <1>3, <1>4

\* Before an update has passed its test, the cache's entries are the map nodes in the
\* tree.
LEMMA EntriesSeen ==
  ASSUME NodeInv, Settled, NEW t \in Thread, Alone(t), th[t].pc \notin {"free", "set"},
         th[t].pc # "idle" => th[t].arg \in Prefix
  PROVE  /\ cached = [p \in Prefix |-> IF tree[p] \in Node THEN tree[p].state ELSE "none"]
         /\ Cache!Entries = {p \in Prefix : tree[p] \in Node}
<1>1. cached = [p \in Prefix |-> Seen(t, p)]
  BY OneView
<1>2. ASSUME NEW p \in Prefix
      PROVE  Seen(t, p) = IF tree[p] \in Node THEN tree[p].state ELSE "none"
  <2>1. tree[p] \in Node \cup {Absent, Null}
    BY SoundTree DEF Settled, UpdatesAt
  <2> QED  BY <2>1, Marks DEF Seen
<1>3. cached = [p \in Prefix |-> IF tree[p] \in Node THEN tree[p].state ELSE "none"]
  BY <1>1, <1>2
<1>4. \A n \in Node : n.state # "none"
  BY DEF Node, Pointer, EntryState
<1>5. \A p \in Prefix : cached[p] # "none" <=> tree[p] \in Node
  BY <1>3, <1>4
<1> QED  BY <1>3, <1>5 DEF Cache!Entries

\* An update that passes its test is what the cache is asked to do.
LEMMA TakesEffect ==
  ASSUME NodeInv, Settled, NEW t \in Updaters, Alone(t), Steady(t), th[t].pc = "test",
         tree' = tree, routes' = routes, fault' = fault, Alone(t)',
         th'[t].pc \in {"free", "set"}, th'[t].arg = th[t].arg, th'[t].new = th[t].new,
         tree[th[t].arg].state # "static"
  PROVE  Served
<1> DEFINE p == th[t].arg
           new == th[t].new
<1>1. t \in Thread /\ t # "timer" /\ p \in Prefix
  BY DEF Updaters, Thread, Steady
<1>2. /\ cached = [q \in Prefix |-> Seen(t, q)]
      /\ tunnelled = Routed(t)
      /\ cached' = [q \in Prefix |-> Seen(t, q)']
      /\ tunnelled' = Routed(t)'
  BY <1>1, SameView
<1>3. /\ tunnelled = routes
      /\ tunnelled' = IF new \in InUse THEN routes \cup {p} ELSE routes
  BY <1>1, <1>2 DEF Routed
<1>4. \A q \in Prefix : /\ Seen(t, q)' = IF q = p THEN new ELSE Seen(t, q)
  BY <1>1 DEF Seen
<1>5. cached' = [cached EXCEPT ![p] = new]
  BY <1>1, <1>2, <1>4
<1>6. /\ cached = [q \in Prefix |-> IF tree[q] \in Node THEN tree[q].state ELSE "none"]
      /\ Cache!Entries = {q \in Prefix : tree[q] \in Node}
  BY <1>1, EntriesSeen
<1>7. cached[p] # "static"
  BY <1>1, <1>6
<1>8. new \in {"active", "queried"} => Cache!Covering(Cache!Entries, p) = {}
  <2> SUFFICES ASSUME new \in {"active", "queried"}, NEW q \in Covering(Cache!Entries, p)
               PROVE  FALSE
    BY CacheMatches
  <2>1. Covering(Present, p) = {p} /\ tree[p] = Null
    BY DEF Steady, Entering
  <2>2. q \in Prefix /\ tree[q] \in Node /\ Covers(q, p)
    BY <1>6 DEF Covering
  <2>3. q \in Covering(Present, p)
    BY <2>2, Marks DEF Covering, Present
  <2> QED  BY <2>1, <2>2, <2>3, Marks
<1>9. fault' = "none" /\ new \in EntryState
  BY <1>1 DEF Settled, NodeInv, Pointers, Pointing, Updates
<1>10. new = "queried" => t = "watcher" /\ p \in Host
  BY DEF Steady, Entering, Updates, Updaters
<1> HIDE DEF p, new
<1>11. CASE new = "queried"
  <2>1. Cache!Query(p)
    BY <1>3, <1>5, <1>8, <1>11 DEF Cache!Query, InUse
  <2> QED  BY <1>9, <1>10, <1>11, <2>1 DEF Served, Cache!Next
<1>12. CASE new = "active"
  <2>1. Cache!Learn(p)
    BY <1>3, <1>5, <1>8, <1>12 DEF Cache!Learn, InUse
  <2> QED  BY <1>1, <1>9, <2>1 DEF Served, Cache!Next
<1>13. CASE new = "negative"
  <2>1. Cache!Deny(p, "negative")
    BY <1>3, <1>5, <1>7, <1>13 DEF Cache!Deny, InUse
  <2> QED  BY <1>1, <1>9, <2>1 DEF Served, Cache!Next
<1>14. CASE new = "static"
  <2>1. Cache!Install(p)
    BY <1>3, <1>5, <1>7, <1>14 DEF Cache!Install, InUse
  <2> QED  BY <1>1, <1>9, <2>1 DEF Served, Cache!Next
<1> QED  BY <1>9, <1>11, <1>12, <1>13, <1>14 DEF EntryState

\* update_mapnode's test, alone: the old entry is live.
LEMMA TestAlone ==
  ASSUME NodeInv, Settled, NEW t \in Updaters, Alone(t), Steady(t), Test(t)
  PROVE  Orderly(t)
<1> DEFINE p == th[t].arg
           old == tree[p]
<1>1. /\ t \in Thread /\ t # "timer" /\ p \in Prefix /\ Shape
      /\ th[t].pc = "test" /\ th[t].pn = "held" /\ Entering(t)
  BY DEF Updaters, Thread, Steady, Entering, NodeInv, Inv, Test, At
<1>2. old \in Node \cup {Null}
  <2>1. old # Absent
    BY <1>1 DEF NodeInv, Pointers, Pointing
  <2> QED  BY <1>1, <2>1, SoundTree DEF Settled, UpdatesAt
<1>3. /\ th' = [th EXCEPT ![t] = CASE old = Null -> Moved(t, "set")
                                   [] old.state = "static" -> Idle
                                   [] OTHER -> [Moved(t, "free") EXCEPT !.mn = old]]
      /\ UNCHANGED <<tree, routes, fault, late, missed>>
  BY <1>1, <1>2, Marks DEF Test, Gone, history
<1>4. Settled'
  BY <1>3 DEF Settled
<1>5. CASE old = Null
  <2>1. Go(t, "set")
    BY <1>3, <1>5 DEF Go, Null
  <2>2. /\ Alone(t)' /\ th'[t].pc = "set" /\ th'[t].arg = p /\ th'[t].new = th[t].new
        /\ th'[t].pn = "held"
    BY <1>1, <2>1, GoAlone DEF Label
  <2>3. Served
    BY <1>1, <1>3, <1>5, <2>2, TakesEffect DEF Null
  <2>4. Steady(t)'
    BY <1>1, <2>2 DEF Steady, Entering, Removing, Ageing, Updates
  <2> QED  BY <1>4, <2>2, <2>3, <2>4 DEF Orderly
<1>6. CASE old # Null /\ old.state = "static"
  <2>1. Go(t, "idle")
    BY <1>3, <1>6 DEF Go, Moved
  <2> QED  BY <1>1, <1>3, <2>1, EndAlone
<1>7. CASE old # Null /\ old.state # "static"
  <2> DEFINE x == [Moved(t, "free") EXCEPT !.mn = old]
  <2>1. th' = [th EXCEPT ![t] = x]
    BY <1>3, <1>7
  <2>2. /\ x.pc = "free" /\ x.arg = p /\ x.pn = "held" /\ x.mn = old /\ x.new = th[t].new
    <3>1. PICK M : th \in [Thread -> Local(M)]
      BY <1>1 DEF Shape
    <3>2. Moved(t, "free") \in Local(M \cup {Null})
      BY <1>1, <3>1, MovedShape DEF Label
    <3>3. /\ Moved(t, "free").pc = "free" /\ Moved(t, "free").arg = p
          /\ Moved(t, "free").pn = "held" /\ Moved(t, "free").new = th[t].new
      BY <1>1, MovedFields, MovedNew
    <3> QED  BY <3>2, <3>3 DEF Local
  <2> HIDE DEF x
  <2>3. th'[t] = x /\ \A u \in Thread \ {t} : th'[u] = th[u]
    BY <1>1, <2>1 DEF Shape
  <2>4. Alone(t)'
    BY <2>3 DEF Alone
  <2>5. Served
    BY <1>1, <1>3, <1>7, <2>2, <2>3, <2>4, TakesEffect
  <2>6. th'[t].mn = tree'[th'[t].arg]
    BY <1>3, <2>2, <2>3
  <2>7. Steady(t)'
    BY <1>1, <2>2, <2>3, <2>6 DEF Steady, Entering, Removing, Ageing, Updates
  <2> QED  BY <1>4, <2>4, <2>5, <2>7 DEF Orderly
<1> QED  BY <1>5, <1>6, <1>7

\* The old entry that update_mapnode frees alone is the one it has tested.
LEMMA FreeOldAlone ==
  ASSUME NodeInv, Settled, NEW t \in Updaters, Alone(t), Steady(t), FreeOld(t)
  PROVE  Orderly(t)
<1> DEFINE p == th[t].arg
           old == tree[p]
<1>1. /\ t \in Thread /\ t # "timer" /\ p \in Prefix /\ Shape
      /\ th[t].pc = "free" /\ th[t].pn = "held" /\ th[t].mn = old /\ Entering(t)
  BY DEF Updaters, Thread, Steady, Entering, NodeInv, Inv, FreeOld, At
<1>2. old \in Node
  <2>1. old \notin {Absent, Null}
    BY <1>1 DEF NodeInv, Pointers, Pointing
  <2> QED  BY <1>1, <2>1, SoundTree DEF Settled, UpdatesAt
<1>3. free(t, old, "set") /\ UNCHANGED <<routes, fault, late, missed>>
  BY <1>1, <1>2, Marks DEF FreeOld, Gone, history
<1>4. \A q \in Prefix : tree'[q] = IF q = p THEN Freed ELSE tree[q]
  BY <1>1, <1>2, <1>3 DEF free, NodeInv, Pointers, OwnNodes
<1>5. Alone(t)' /\ Settled'
  BY <1>1, <1>3, FreeShape, StaysAlone DEF Label, Settled
<1>6. /\ th'[t].pc = "set" /\ th'[t].arg = p /\ th'[t].pn = "held" /\ th'[t].new = th[t].new
  <2>1. th'[t] = [Moved(t, "set") EXCEPT !.mn = Null]
    BY <1>1, <1>3 DEF free
  <2>2. PICK M : th \in [Thread -> Local(M)]
    BY <1>1 DEF Shape
  <2>3. Moved(t, "set") \in Local(M \cup {Null})
    BY <1>1, <2>2, MovedShape DEF Label
  <2>4. /\ Moved(t, "set").pc = "set" /\ Moved(t, "set").arg = p
        /\ Moved(t, "set").pn = "held" /\ Moved(t, "set").new = th[t].new
    BY <1>1, MovedFields, MovedNew
  <2> QED  BY <2>1, <2>3, <2>4 DEF Local
<1>7. (\A q \in Prefix : Seen(t, q)' = Seen(t, q)) /\ Routed(t)' = Routed(t)
  BY <1>1, <1>3, <1>4, <1>6 DEF Seen, Routed
<1>8. Served
  BY <1>1, <1>5, <1>6, <1>7, Stutters DEF Settled
<1>9. Steady(t)'
  BY <1>1, <1>6 DEF Steady, Entering, Removing, Ageing, Updates
<1> QED  BY <1>5, <1>8, <1>9 DEF Orderly

\* The entry is set as it was to be.
LEMMA SetAlone ==
  ASSUME NodeInv, Settled, NEW t \in Updaters, Alone(t), Steady(t), Set(t)
  PROVE  Orderly(t)
<1> DEFINE p == th[t].arg
           new == th[t].new
           label == IF new \in InUse THEN "route" ELSE "idle"
           node == [id |-> Fresh, state |-> new]
<1>1. /\ t \in Thread /\ t # "timer" /\ p \in Prefix /\ Shape
      /\ th[t].pc = "set" /\ th[t].pn = "held" /\ Entering(t)
  BY DEF Updaters, Thread, Steady, Entering, NodeInv, Inv, Set, At
<1>2. /\ tree' = [tree EXCEPT ![p] = node]
      /\ th' = [u \in Thread |->
                  IF u = t THEN Moved(t, label)
                  ELSE IF new = "static" /\ u \in Busy
                    THEN [th[u] EXCEPT !.since = @ \cup {p}] ELSE th[u]]
      /\ UNCHANGED <<routes, fault, late, missed>>
  BY <1>1 DEF Set, Gone, history
<1>3. th'[t] = Moved(t, label) /\ \A u \in Thread \ {t} : th'[u] = th[u]
  <2>1. \A u \in Thread \ {t} : u \notin Busy
    BY DEF Alone, Busy
  <2> QED  BY <1>1, <1>2, <2>1
<1>4. Alone(t)' /\ Settled'
  BY <1>2, <1>3 DEF Alone, Settled
<1>5. /\ th'[t].pc = label
      /\ label = "route" => th'[t].arg = p /\ th'[t].new = new
  <2>1. CASE new \in InUse
    BY <1>1, <1>3, <2>1, MovedFields, MovedNew
  <2>2. CASE new \notin InUse
    BY <1>3, <2>2 DEF Moved, Idle
  <2> QED  BY <2>1, <2>2
<1>6. node.state = new /\ node \notin {Absent, Null}
  <2>1. new \in EntryState
    BY <1>1 DEF NodeInv, Pointers, Pointing, Updates
  <2> QED  BY <2>1 DEF EntryState, Absent, Null
<1> HIDE DEF node
<1>7. \A q \in Prefix : tree'[q] = IF q = p THEN node ELSE tree[q]
  BY <1>1, <1>2 DEF Shape
<1>8. (\A q \in Prefix : Seen(t, q)' = Seen(t, q)) /\ Routed(t)' = Routed(t)
  BY <1>1, <1>2, <1>5, <1>6, <1>7 DEF Seen, Routed
<1>9. Served
  BY <1>1, <1>4, <1>5, <1>8, Stutters DEF Settled
<1>10. Steady(t)'
  BY <1>1, <1>5 DEF Steady, Entering, Removing, Ageing, Updates
<1> QED  BY <1>4, <1>9, <1>10 DEF Orderly

\* The route the cache has already is added.
LEMMA AddRouteAlone ==
  ASSUME NodeInv, Settled, NEW t \in Updaters, Alone(t), Steady(t), AddRoute(t)
  PROVE  Orderly(t)
<1>1. /\ t \in Thread /\ t # "timer" /\ th[t].arg \in Prefix
      /\ th[t].pc = "route" /\ th[t].new \in InUse
  BY DEF Updaters, Thread, Steady, Entering, AddRoute, At
<1>2. /\ routes' = routes \cup {th[t].arg} /\ late' = late \ {th[t].arg}
      /\ Go(t, "idle") /\ UNCHANGED <<tree, fault, missed>>
  BY DEF AddRoute
<1>3. Alone(t)' /\ th'[t].pc = "idle"
  BY <1>1, <1>2, GoAlone DEF Label
<1>4. Settled'
  BY <1>2 DEF Settled
<1>5. (\A q \in Prefix : Seen(t, q)' = Seen(t, q)) /\ Routed(t)' = Routed(t)
  BY <1>1, <1>2, <1>3 DEF Seen, Routed
<1>6. Served
  BY <1>1, <1>3, <1>4, <1>5, Stutters DEF Settled
<1> QED  BY <1>1, <1>3, <1>4, <1>6, SteadyIdle DEF Orderly

\* What the operator has found is live when he looks at it, and is still what his
\* removal would take.
LEMMA CheckAlone ==
  ASSUME NodeInv, Settled, Alone("operator"), Steady("operator"), Check
  PROVE  Orderly("operator")
<1> DEFINE t == "operator"
           p == th[t].arg
           mn == th[t].mn
<1>1. /\ t \in Thread /\ p \in Prefix /\ th[t].pc = "check" /\ Removing(t)
  BY DEF Thread, Steady, Check, At
<1>2. mn \in Node
  <2>1. LongestMatch(Present, p) \in Present
    <3>1. Present \in SUBSET Seq(Bit) /\ p \in Seq(Bit)
      BY <1>1, PrefixAssumption DEF Present, Bit
    <3> QED  BY <1>1, <3>1, LongestMatchCovers DEF Covering, Removing
  <2>2. \A q \in Prefix : tree[q] \in Node \cup {Absent}
    BY <1>1, SoundTree DEF Settled, UpdatesAt
  <2> QED  BY <1>1, <2>1, <2>2 DEF Removing, Present
<1>3. /\ \/ Go(t, "idle")
         \/ mn.state \notin {"active", "queried"} /\ Go(t, "delete")
      /\ UNCHANGED <<tree, routes, fault, late, missed>>
  BY <1>2, Marks DEF Check, After, history
<1>4. CASE Go(t, "idle")
  BY <1>1, <1>3, <1>4, EndAlone
<1>5. CASE mn.state \notin {"active", "queried"} /\ Go(t, "delete")
  <2>1. /\ Alone(t)' /\ th'[t].pc = "delete" /\ th'[t].arg = p /\ th'[t].mn = mn
        /\ th'[t].pn = th[t].pn
    BY <1>1, <1>5, GoAlone DEF Label
  <2>2. Settled'
    BY <1>3 DEF Settled
  <2>3. (\A q \in Prefix : Seen(t, q)' = Seen(t, q)) /\ Routed(t)' = Routed(t)
    BY <1>1, <1>3, <2>1 DEF Seen, Routed
  <2>4. Served
    BY <1>1, <2>1, <2>2, <2>3, Stutters DEF Settled
  <2>5. Present' = Present
    BY <1>3 DEF Present
  <2>6. Covering(Present', th'[t].arg) # {} /\ th'[t].mn = tree'[LongestMatch(Present', th'[t].arg)]
    BY <1>1, <1>3, <2>1, <2>5 DEF Removing
  <2>7. Removing(t)'
    BY <1>1, <1>5, <2>1, <2>6 DEF Removing
  <2>8. Entering(t)' /\ Ageing(t)'
    BY <2>1 DEF Entering, Ageing, Updates
  <2> QED  BY <1>1, <2>1, <2>2, <2>4, <2>7, <2>8 DEF Orderly, Steady
<1> QED  BY <1>3, <1>4, <1>5

\* The operator's removal takes what he has found, and leaves no entry of the prefix.
LEMMA DeleteOperatorAlone ==
  ASSUME NodeInv, Settled, Alone("operator"), Steady("operator"), Delete("operator")
  PROVE  Orderly("operator")
<1> DEFINE t == "operator"
           p == th[t].arg
           mn == th[t].mn
           S == Covering(Present, p)
           q == LongestMatch(Present, p)
           next == [th EXCEPT ![t] = Moved(t, After(t).delete)]
<1>1. /\ t \in Thread /\ p \in Prefix /\ th[t].pc = "delete" /\ Shape
      /\ th[t].pn = "none" /\ S # {} /\ mn = tree[q] /\ mn.state \notin {"active", "queried"}
  BY DEF Thread, Steady, Delete, At, Removing, NodeInv, Inv
<1>2. /\ tree' = [tree EXCEPT ![q] = Absent]
      /\ th' = [u \in Thread |->
                  IF u # t /\ th[u].pn = "held" /\ th[u].arg = q
                  THEN [th[u] EXCEPT !.pn = "gone"] ELSE next[u]]
      /\ ~missed' /\ UNCHANGED <<routes, fault, late>>
  <2>1. ~Gone(t)
    BY <1>1 DEF Gone
  <2>2. /\ IF S = {} THEN tree' = tree /\ th' = next
           ELSE /\ tree' = [tree EXCEPT ![q] = Absent]
                /\ th' = [u \in Thread |->
                            IF u # t /\ th[u].pn = "held" /\ th[u].arg = q
                            THEN [th[u] EXCEPT !.pn = "gone"] ELSE next[u]]
        /\ missed' = (missed \/ (t = "operator" /\ (S = {} \/ tree[q] # th[t].mn)))
        /\ UNCHANGED <<routes, fault, late, overlapped>>
    BY <2>1 DEF Delete
  <2> HIDE DEF S, q, next
  <2>3. ~missed'
    BY <1>1, <2>2 DEF Settled
  <2> QED  BY <1>1, <2>2, <2>3
<1>3. Present \in SUBSET Seq(Bit) /\ p \in Seq(Bit)
  BY <1>1, PrefixAssumption DEF Present, Bit
<1>4. q \in S /\ q \in Present
  BY <1>1, <1>3, LongestMatchCovers DEF Covering
<1>5. p \in Present => q = p
  BY <1>3, LongestMatchSelf
<1>6. \A r \in Prefix : tree[r] \in Node \cup {Absent}
  BY <1>1, SoundTree DEF Settled, UpdatesAt
<1>7. q \in Prefix /\ mn \in Node
  BY <1>1, <1>4, <1>6 DEF Present
<1>8. \A r \in Prefix : tree'[r] = IF r = q THEN Absent ELSE tree[r]
  BY <1>1, <1>2 DEF Shape
<1>9. tree'[p] = Absent
  BY <1>1, <1>5, <1>8 DEF Present
<1> HIDE DEF q, S
<1>10. /\ th'[t] = Moved(t, "unroute")
       /\ \A u \in Thread \ {t} : th'[u] \in {th[u], [th[u] EXCEPT !.pn = "gone"]}
  BY <1>1, <1>2 DEF After, Shape
<1>11. /\ th'[t].pc = "unroute" /\ th'[t].arg = p /\ th'[t].mn = mn
  BY <1>1, <1>10, MovedFields
<1>12. Alone(t)' /\ Settled'
  <2>1. PICK M : th \in [Thread -> Local(M)]
    BY <1>1 DEF Shape
  <2>2. ASSUME NEW u \in Thread \ {t} PROVE th'[u].pc = th[u].pc
    <3>1. th[u] \in Local(M)
      BY <2>1
    <3> QED  BY <1>10, <3>1 DEF Local
  <2> QED  BY <1>2, <2>2 DEF Alone, Settled
<1>13. Served
  <2>1. /\ cached = [r \in Prefix |-> Seen(t, r)]
        /\ tunnelled = Routed(t)
        /\ cached' = [r \in Prefix |-> Seen(t, r)']
        /\ tunnelled' = Routed(t)'
    BY <1>1, <1>11, <1>12, SameView
  <2>2. \A r \in Prefix : Seen(t, r)' = IF r = q THEN "none" ELSE Seen(t, r)
    BY <1>1, <1>8, <1>11 DEF Seen, Updaters
  <2>3. cached' = [cached EXCEPT ![q] = "none"]
    BY <1>7, <2>1, <2>2
  <2>4. tunnelled = routes /\ tunnelled' = routes \ {p}
    BY <1>1, <1>2, <1>11, <2>1 DEF Routed, Updaters
  <2>5. /\ cached = [r \in Prefix |-> IF tree[r] \in Node THEN tree[r].state ELSE "none"]
        /\ Cache!Entries = {r \in Prefix : tree[r] \in Node}
    BY <1>1, EntriesSeen
  <2>6. Cache!Entries = Present
    BY <1>6, <2>5, Marks DEF Present
  <2>7. cached[q] \notin {"active", "queried"}
    BY <1>1, <1>7, <2>5
  <2>8. Cache!LongestMatch(Cache!Entries, p) = q /\ Cache!Covering(Cache!Entries, p) # {}
    BY <1>1, <2>6, CacheMatches DEF q, S
  <2>9. Cache!Uninstall(p)
    BY <2>3, <2>4, <2>7, <2>8 DEF Cache!Uninstall
  <2>10. Cache!Next
    BY <1>1, <2>9 DEF Cache!Next
  <2> QED  BY <1>2, <2>10 DEF Served, Settled
<1>14. mn # Freed
  BY <1>7, Marks
<1>15. Removing(t)'
  BY <1>9, <1>11, <1>14 DEF Removing
<1>16. Entering(t)' /\ Ageing(t)'
  BY <1>11 DEF Entering, Ageing, Updates
<1> QED  BY <1>1, <1>11, <1>12, <1>13, <1>15, <1>16 DEF Orderly, Steady

\* The operator takes the route of a prefix that has no entry left.
LEMMA DelRouteOperatorAlone ==
  ASSUME NodeInv, Settled, Alone("operator"), Steady("operator"), DelRoute("operator")
  PROVE  Orderly("operator")
<1> DEFINE t == "operator"
           p == th[t].arg
<1>1. /\ t \in Thread /\ p \in Prefix /\ th[t].pc = "unroute"
      /\ tree[p] = Absent /\ th[t].mn # Freed
  BY DEF Thread, Steady, DelRoute, At, Removing
<1>2. tree[p].state \notin InUse
  BY <1>1 DEF Absent, InUse
<1>3. /\ routes' = routes \ {p} /\ late' = late /\ Go(t, "release")
      /\ UNCHANGED <<tree, fault, missed>>
  BY <1>2 DEF DelRoute, After
<1>4. /\ Alone(t)' /\ th'[t].pc = "release" /\ th'[t].arg = p /\ th'[t].mn = th[t].mn
  BY <1>1, <1>3, GoAlone DEF Label
<1>5. Settled'
  BY <1>3 DEF Settled
<1>6. (\A q \in Prefix : Seen(t, q)' = Seen(t, q)) /\ Routed(t)' = Routed(t)
  BY <1>1, <1>3, <1>4 DEF Seen, Routed
<1>7. Served
  BY <1>1, <1>4, <1>5, <1>6, Stutters DEF Settled
<1>8. Entering(t)' /\ Removing(t)' /\ Ageing(t)'
  BY <1>1, <1>4 DEF Entering, Removing, Ageing, Updates
<1> QED  BY <1>1, <1>4, <1>5, <1>7, <1>8 DEF Orderly, Steady

\* The operator frees what his removal has taken from the tree.
LEMMA ReleaseAlone ==
  ASSUME NodeInv, Settled, Alone("operator"), Steady("operator"), Release
  PROVE  Orderly("operator")
<1> DEFINE t == "operator"
           mn == th[t].mn
<1>1. /\ t \in Thread /\ th[t].arg \in Prefix /\ th[t].pc = "release" /\ mn # Freed /\ Shape
  BY DEF Thread, Steady, Release, At, Removing, NodeInv, Inv
<1>2. free(t, mn, "idle") /\ UNCHANGED <<routes, fault, late, missed>>
  BY <1>1 DEF Release, history
<1>3. \A q \in Prefix : tree'[q] = tree[q]
  <2>1. \A q \in Prefix : tree[q] # mn
    BY <1>1 DEF NodeInv, Pointers, Pointing, Settled
  <2> QED  BY <1>2, <2>1 DEF free
<1>4. Alone(t)' /\ th'[t].pc = "idle" /\ Settled'
  BY <1>1, <1>2, FreeShape, StaysAlone DEF Label, Settled
<1>5. (\A q \in Prefix : Seen(t, q)' = Seen(t, q)) /\ Routed(t)' = Routed(t)
  BY <1>1, <1>2, <1>3, <1>4 DEF Seen, Routed
<1>6. Served
  BY <1>1, <1>4, <1>5, Stutters DEF Settled
<1> QED  BY <1>1, <1>4, <1>6, SteadyIdle DEF Orderly

\* What the timer has loaded is live when it looks at it.
LEMMA TimerNode ==
  ASSUME NodeInv, Settled, Alone("timer"), Steady("timer"),
         th["timer"].pc \in {"age", "unroute", "delete"}
  PROVE  /\ th["timer"].arg \in Prefix /\ th["timer"].pn = "held"
         /\ th["timer"].mn = tree[th["timer"].arg] /\ th["timer"].mn \in Node
         /\ ~Shielded(th["timer"].arg) /\ "timer" \in Thread
<1>1. /\ "timer" \in Thread /\ th["timer"].arg \in Prefix /\ Ageing("timer")
  BY DEF Thread, Steady
<1>2. th["timer"].mn \in Node \cup {Null, Freed}
  BY <1>1 DEF NodeInv, Pointers, Pointing
<1>3. tree[th["timer"].arg] \notin {Null, Freed}
  BY <1>1, SoundTree DEF Settled, UpdatesAt, Updaters
<1> QED  BY <1>1, <1>2, <1>3 DEF Ageing

\* The timer leaves an entry, or turns to removing one that is not static.
LEMMA AgeAlone ==
  ASSUME NodeInv, Settled, Alone("timer"), Steady("timer"), Age
  PROVE  Orderly("timer")
<1> DEFINE t == "timer"
<1>1. /\ th[t].pc = "age" /\ t \in Thread /\ th[t].arg \in Prefix /\ th[t].pn = "held"
      /\ th[t].mn = tree[th[t].arg] /\ th[t].mn \in Node /\ ~Shielded(th[t].arg)
  BY TimerNode DEF Age, At
<1>2. /\ \/ Go(t, "idle")
         \/ th[t].mn.state # "static" /\ Go(t, "unroute")
      /\ UNCHANGED <<tree, routes, fault, late, missed>>
  BY <1>1, Marks DEF Age, Gone, After, history
<1>3. CASE Go(t, "idle")
  BY <1>1, <1>2, <1>3, EndAlone
<1>4. CASE th[t].mn.state # "static" /\ Go(t, "unroute")
  <2>1. /\ Alone(t)' /\ th'[t].pc = "unroute" /\ th'[t].arg = th[t].arg
        /\ th'[t].mn = th[t].mn /\ th'[t].pn = "held"
    BY <1>1, <1>4, GoAlone DEF Label
  <2>2. Settled'
    BY <1>2 DEF Settled
  <2>3. (\A q \in Prefix : Seen(t, q)' = Seen(t, q)) /\ Routed(t)' = Routed(t)
    BY <1>1, <1>2, <2>1 DEF Seen, Routed, Updaters
  <2>4. Served
    BY <1>1, <2>1, <2>2, <2>3, Stutters DEF Settled
  <2>5. Ageing(t)'
    BY <1>1, <1>2, <1>4, <2>1 DEF Ageing, Shielded
  <2>6. Entering(t)' /\ Removing(t)'
    BY <2>1 DEF Entering, Removing, Updates
  <2> QED  BY <1>1, <2>1, <2>2, <2>4, <2>5, <2>6 DEF Orderly, Steady
<1> QED  BY <1>2, <1>3, <1>4

\* The timer takes the route of an active entry, which has one, before the entry.
LEMMA DelRouteTimerAlone ==
  ASSUME NodeInv, Settled, Alone("timer"), Steady("timer"), DelRoute("timer")
  PROVE  Orderly("timer")
<1> DEFINE t == "timer"
           p == th[t].arg
           mn == th[t].mn
<1>1. /\ th[t].pc = "unroute" /\ t \in Thread /\ p \in Prefix /\ th[t].pn = "held"
      /\ mn = tree[p] /\ mn \in Node /\ ~Shielded(p) /\ mn.state # "static"
  <2>1. th[t].pc = "unroute"
    BY DEF DelRoute, At
  <2> QED  BY <2>1, TimerNode DEF Steady, Ageing
<1>2. /\ routes' = IF mn.state = "active" THEN routes \ {p} ELSE routes
      /\ late' = late /\ Go(t, "delete") /\ UNCHANGED <<tree, fault, missed>>
  BY <1>1, Marks DEF DelRoute, Gone, After
<1>3. mn.state = "active" => p \in routes
  <2> SUFFICES ASSUME mn.state = "active", p \notin routes PROVE FALSE
    OBVIOUS
  <2>1. \/ \E u \in Updaters : th[u].pc = "route"
        \/ th["timer"].pc = "delete"
        \/ p \in late
    BY <1>1 DEF NodeInv, Inv, RouteKept, InUse
  <2> QED  BY <1>1, <2>1 DEF Settled, Alone, Updaters, Thread
<1>4. /\ Alone(t)' /\ th'[t].pc = "delete" /\ th'[t].arg = p /\ th'[t].mn = mn
      /\ th'[t].pn = "held"
  BY <1>1, <1>2, GoAlone DEF Label
<1>5. Settled'
  BY <1>2 DEF Settled
<1>6. \A q \in Prefix : Seen(t, q)' = Seen(t, q)
  BY <1>1, <1>2, <1>4 DEF Seen, Updaters
<1>7. Routed(t) = routes
  BY <1>1 DEF Routed, Updaters
<1>8. Routed(t)' = routes
  <2>1. CASE mn.state = "active"
    <3>1. Routed(t)' = routes' \cup {p}
      BY <1>4, <2>1 DEF Routed
    <3> QED  BY <1>2, <1>3, <2>1, <3>1
  <2>2. CASE mn.state # "active"
    <3>1. Routed(t)' = routes'
      BY <1>4, <2>2 DEF Routed, Updaters
    <3> QED  BY <1>2, <2>2, <3>1
  <2> QED  BY <2>1, <2>2
<1>9. Served
  BY <1>1, <1>4, <1>5, <1>6, <1>7, <1>8, Stutters DEF Settled
<1>10. Ageing(t)'
  BY <1>1, <1>2, <1>4 DEF Ageing, Shielded
<1>11. Entering(t)' /\ Removing(t)'
  BY <1>4 DEF Entering, Removing, Updates
<1> QED  BY <1>1, <1>4, <1>5, <1>9, <1>10, <1>11 DEF Orderly, Steady

\* The entry the timer removes is its own.
LEMMA DeleteTimerAlone ==
  ASSUME NodeInv, Settled, Alone("timer"), Steady("timer"), Delete("timer")
  PROVE  Orderly("timer")
<1> DEFINE t == "timer"
           p == th[t].arg
           mn == th[t].mn
           S == Covering(Present, p)
           q == LongestMatch(Present, p)
           next == [th EXCEPT ![t] = Moved(t, After(t).delete)]
<1>1. /\ th[t].pc = "delete" /\ t \in Thread /\ p \in Prefix /\ th[t].pn = "held"
      /\ mn = tree[p] /\ mn \in Node /\ ~Shielded(p) /\ mn.state # "static" /\ Shape
      /\ mn.state = "active" => p \notin routes
  <2>1. th[t].pc = "delete"
    BY DEF Delete, At
  <2> QED  BY <2>1, TimerNode DEF Steady, Ageing, NodeInv, Inv
<1>2. q = p /\ S # {}
  <2>1. Present \in SUBSET Seq(Bit) /\ p \in Present
    BY <1>1, Marks, PrefixAssumption DEF Present, Bit
  <2>2. Covers(p, p)
    BY <2>1, CoversReflexive
  <2> QED  BY <2>1, <2>2, LongestMatchSelf DEF Covering
<1>3. /\ IF S = {} THEN tree' = tree /\ th' = next
         ELSE /\ tree' = [tree EXCEPT ![q] = Absent]
              /\ th' = [u \in Thread |->
                          IF u # t /\ th[u].pn = "held" /\ th[u].arg = q
                          THEN [th[u] EXCEPT !.pn = "gone"] ELSE next[u]]
      /\ missed' = (missed \/ (t = "operator" /\ (S = {} \/ tree[q] # th[t].mn)))
      /\ UNCHANGED <<routes, fault, late>>
  <2>1. ~Gone(t)
    BY <1>1 DEF Gone
  <2> QED  BY <2>1 DEF Delete
<1> HIDE DEF S, q
<1>4. ~missed'
  BY <1>3 DEF Settled
<1>5. /\ th'[t] = Idle
      /\ \A u \in Thread \ {t} : th'[u] \in {th[u], [th[u] EXCEPT !.pn = "gone"]}
  BY <1>1, <1>2, <1>3 DEF After, Moved, Shape
<1>6. \A r \in Prefix : tree'[r] = IF r = p THEN Absent ELSE tree[r]
  BY <1>1, <1>2, <1>3 DEF Shape
<1> HIDE DEF next
<1>7. th'[t].pc = "idle"
  BY <1>5 DEF Idle
<1>8. Alone(t)' /\ Settled'
  <2>1. PICK M : th \in [Thread -> Local(M)]
    BY <1>1 DEF Shape
  <2>2. ASSUME NEW u \in Thread \ {t} PROVE th'[u].pc = th[u].pc
    <3>1. th[u] \in Local(M)
      BY <2>1
    <3> QED  BY <1>5, <3>1 DEF Local
  <2> QED  BY <1>3, <1>4, <2>2 DEF Alone, Settled
<1>9. Served
  <2>1. /\ cached = [r \in Prefix |-> Seen(t, r)]
        /\ tunnelled = Routed(t)
        /\ cached' = [r \in Prefix |-> Seen(t, r)']
        /\ tunnelled' = Routed(t)'
    BY <1>1, <1>7, <1>8, SameView
  <2>2. \A r \in Prefix : Seen(t, r)' = IF r = p THEN "none" ELSE Seen(t, r)
    BY <1>1, <1>6, <1>7 DEF Seen, Updaters
  <2>3. \A r \in Prefix : cached[r] = Seen(t, r)
    BY <2>1
  <2>4. /\ cached = [r \in Prefix |-> IF tree[r] \in Node THEN tree[r].state ELSE "none"]
        /\ Cache!Entries = {r \in Prefix : tree[r] \in Node}
    BY <1>1, EntriesSeen
  <2>5. cached[p] = mn.state /\ {p} \in SUBSET Cache!Entries
    BY <1>1, <2>4
  <2>6. cached[p] \notin {"none", "static"}
    <3>1. mn.state # "none"
      BY <1>1 DEF Node, Pointer, EntryState
    <3> QED  BY <1>1, <2>5, <3>1
  <2>7. ~Cache!Shielded(p)
    <3>1. \A s \in Prefix : cached[s] = "static" => tree[s].state = "static"
      BY <2>4
    <3> QED  BY <1>1, <3>1, CacheMatches DEF Cache!Shielded, Cache!Static, Shielded
  <2>8. cached' = [r \in Prefix |-> IF r \in {p} THEN "none" ELSE cached[r]]
    BY <2>1, <2>2, <2>3
  <2>9. tunnelled' = tunnelled \ {r \in {p} : cached[r] = "active"}
    <3>1. tunnelled' = routes
      BY <1>3, <1>7, <2>1 DEF Routed
    <3>2. tunnelled = IF mn.state = "active" THEN routes \cup {p} ELSE routes
      BY <1>1, <2>1 DEF Routed, Updaters
    <3> QED  BY <1>1, <2>5, <3>1, <3>2
  <2>10. Cache!Age({p})
    BY <2>6, <2>7, <2>8, <2>9 DEF Cache!Age
  <2>11. Cache!Next
    BY <2>5, <2>10 DEF Cache!Next
  <2> QED  BY <1>3, <2>11 DEF Served, Settled
<1> QED  BY <1>1, <1>7, <1>8, <1>9, SteadyIdle DEF Orderly

\* Until two calls overlap, every step is orderly.
LEMMA NextAlone ==
  ASSUME NodeInv, Calm, Next, ~overlapped'
  PROVE  \E t \in Thread : Orderly(t)
<1> USE DEF history
<1>1. ASSUME NEW h \in Host, Watch(h) PROVE Orderly("watcher")
  BY <1>1, SubsetAssumption, CallAlone DEF Watch, Thread
<1>2. ASSUME NEW h \in Host, Forward(h) PROVE Orderly("data")
  BY <1>2, SubsetAssumption, CallAlone DEF Forward, Thread
<1>3. ASSUME NEW p \in ReplyPrefix, Reply(p) PROVE Orderly("message")
  BY <1>3, SubsetAssumption, CallAlone DEF Reply, Thread
<1>4. ASSUME NEW p \in StaticPrefix, install_mapnode_static(p) \/ uninstall_mapnode_static(p)
      PROVE  Orderly("operator")
  BY <1>4, SubsetAssumption, CallAlone
     DEF install_mapnode_static, uninstall_mapnode_static, Thread
<1>5. ASSUME NEW p \in Prefix, Visit(p) PROVE Orderly("timer")
  BY <1>5, VisitAlone
<1>6. ASSUME NEW t \in Thread, th[t].pc # "idle", overlapped' = overlapped
      PROVE  Settled /\ Alone(t) /\ Steady(t)
  <2>1. Settled /\ \E u \in Thread : Alone(u) /\ Steady(u)
    BY <1>6 DEF Calm
  <2> QED  BY <1>6, <2>1 DEF Alone
<1>7. ASSUME NEW t \in Thread \ {"timer"}, Search(t) PROVE Orderly(t)
  <2>1. th[t].pc # "idle" /\ overlapped' = overlapped
    BY <1>7 DEF Search, At
  <2> QED  BY <1>6, <1>7, <2>1, SearchAlone
<1>8. ASSUME NEW t \in Updaters, Update(t) PROVE t \in Thread /\ Orderly(t)
  <2>1. t \in Thread
    BY DEF Updaters, Thread
  <2>2. th[t].pc # "idle" /\ overlapped' = overlapped
    BY <1>8 DEF Update, Lookup, Test, FreeOld, Set, AddRoute, At, Gone, Crash
  <2>3. Settled /\ Alone(t) /\ Steady(t)
    BY <1>6, <2>1, <2>2
  <2> QED  BY <1>8, <2>1, <2>3, LookupAlone, TestAlone, FreeOldAlone, SetAlone, AddRouteAlone
           DEF Update
<1>9. ASSUME NEW t \in {"message", "data"}, Use(t) PROVE t \in Thread /\ Orderly(t)
  <2>1. t \in Thread /\ th[t].pc # "idle" /\ overlapped' = overlapped
    BY <1>9 DEF Use, At, Crash, Thread
  <2> QED  BY <1>6, <1>9, <2>1, UseAlone
<1>10. CASE Delete("operator") \/ DelRoute("operator") \/ Check \/ Release
  <2>1. "operator" \in Thread /\ th["operator"].pc # "idle" /\ overlapped' = overlapped
    BY <1>10 DEF Delete, DelRoute, Check, Release, At, Gone, Crash, Thread
  <2>2. Settled /\ Alone("operator") /\ Steady("operator")
    BY <1>6, <2>1
  <2> QED  BY <1>10, <2>1, <2>2, DeleteOperatorAlone, DelRouteOperatorAlone, CheckAlone,
              ReleaseAlone
<1>11. CASE Delete("timer") \/ DelRoute("timer") \/ Age
  <2>1. "timer" \in Thread /\ th["timer"].pc # "idle" /\ overlapped' = overlapped
    BY <1>11 DEF Delete, DelRoute, Age, At, Gone, Crash, Thread
  <2>2. Settled /\ Alone("timer") /\ Steady("timer")
    BY <1>6, <2>1
  <2> QED  BY <1>11, <2>1, <2>2, DeleteTimerAlone, DelRouteTimerAlone, AgeAlone
<1>12. CASE Undefined
  <2>1. overlapped' = overlapped /\ fault # "none"
    BY <1>12 DEF Undefined, vars
  <2> QED  BY <2>1 DEF Calm, Settled
<1>13. {"watcher", "message", "timer", "operator", "data"} \subseteq Thread
  BY DEF Thread
<1> QED  BY <1>1, <1>2, <1>3, <1>4, <1>5, <1>7, <1>8, <1>9, <1>10, <1>11, <1>12, <1>13 DEF Next

\* At the start no call is under way, and the cache is empty.
LEMMA CalmInit == Init => Calm /\ Cache!Init
<1> SUFFICES ASSUME Init PROVE Calm /\ Cache!Init
  OBVIOUS
<1>1. \A t \in Thread : th[t].pc = "idle"
  BY DEF Init, Idle
<1>2. "data" \in Thread /\ Alone("data")
  BY <1>1 DEF Alone, Thread
<1>3. Steady("data")
  BY <1>1, <1>2 DEF Steady, Entering, Removing, Ageing, Updates
<1>4. Calm
  BY <1>2, <1>3 DEF Calm, Init, Settled
<1>5. cached = [p \in Prefix |-> Seen("data", p)] /\ tunnelled = Routed("data")
  BY <1>1, <1>2, OneView
<1>6. \A p \in Prefix : Seen("data", p) = "none"
  BY DEF Seen, Init, Updaters
<1>7. Routed("data") = {}
  BY DEF Routed, Init, Updaters
<1>8. cached = [p \in Prefix |-> "none"] /\ tunnelled = {}
  BY <1>5, <1>6, <1>7
<1> QED  BY <1>4, <1>8 DEF Cache!Init

\* As long as no two calls overlap, the inner steps of the calls implement the map
\* cache: each of the updates and removals of maptable.c and map.c, step by step, is
\* one operation of the cache, and none follows a pointer that is not live.
THEOREM RefinementAlone == Spec => ImplementsMapCacheAlone
<1>1. NodeInv /\ Calm /\ [Next]_vars =>
        /\ Calm'
        /\ [overlapped' \/ (Cache!Next /\ fault' = "none")]_<<Cache!vars, fault>>
  <2> SUFFICES ASSUME NodeInv, Calm, [Next]_vars
               PROVE  /\ Calm'
                      /\ [overlapped' \/ (Cache!Next /\ fault' = "none")]_<<Cache!vars, fault>>
    OBVIOUS
  <2>1. CASE overlapped'
    BY <2>1 DEF Calm
  <2>2. CASE Next /\ ~overlapped'
    <3>1. PICK t \in Thread : Orderly(t)
      BY <2>2, NextAlone
    <3>2. Calm'
      BY <3>1 DEF Orderly, Calm
    <3>3. ~overlapped
      BY <2>2 DEF Next, Watch, Forward, Reply, install_mapnode_static, uninstall_mapnode_static,
         Visit, Search, Update, Lookup, Test, FreeOld, Set, AddRoute, Use, Delete, DelRoute,
         Check, Release, Age, Gone, Crash, Undefined, vars, history
    <3>4. fault = "none"
      BY <3>3 DEF Calm, Settled
    <3> QED  BY <3>1, <3>2, <3>4 DEF Orderly, Served, Cache!vars
  <2>3. CASE UNCHANGED vars
    <3>1. UNCHANGED <<tree, routes, th, fault, late, missed, overlapped>>
      BY <2>3 DEF vars
    <3>2. Calm'
      BY <3>1 DEF Calm, Settled, Alone, Steady, Entering, Removing, Ageing, Present, Shielded
    <3>3. cached' = cached /\ tunnelled' = tunnelled
      BY <3>1 DEF cached, tunnelled, Settling, Routing
    <3> QED  BY <3>1, <3>2, <3>3 DEF Cache!vars
  <2> QED  BY <2>1, <2>2, <2>3
<1> QED  BY <1>1, NodeInit, NodeNext, CalmInit, PTL DEF Spec, ImplementsMapCacheAlone

===============================================================================
