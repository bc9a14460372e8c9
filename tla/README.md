# A verification project for lixy

lixy is a LISP (Locator/ID Separation Protocol) tunnel router for one Linux host:
the daemon `lixyd` learns from a mapping system behind which locator an EID prefix
is, keeps what it learnt in a map table, routes those prefixes into the tunnel
device `lisp0`, and registers its own EID prefixes with map servers.  This
directory holds TLA+ modules translated from its source, the TLC configurations
that check them on small instances, and theorems that TLAPS proves for every value
of their constants.

## 1. Inventory

### Threads and what they share

`lixyd` is one process with seven threads and **no lock anywhere**.

| Thread | Source | Writes | Reads |
|---|---|---|---|
| register | `instance.c:282` | network | EIDs, locators, map servers |
| message | `instance.c:303`, `map.c:592` | map table, kernel routes, network | locators, map servers |
| data plane, from the network | `instance.c:328-361` | network | - |
| data plane, from lisp0 | `instance.c:363` | network | map table |
| raw packet watcher | `instance.c:432` | map table, network | map table, kernel routes |
| timer | `maptable.c:146` | map table, kernel routes, network | map table |
| operator | `control.c:163` | everything configured, map table, kernel routes | the same |

They meet in four places: the map table (`lisp.rib`, a patricia tree of map nodes),
the kernel's routes to `lisp0`, the lists `eid_tuple`, `loc_tuple` and
`mapsrv_tuple`, and the UDP socket to the mapping system.

### Components

* **Map table** (`maptable.c`).  One entry per prefix, in a state (active, negative,
  drop, queried, static) and with a time-to-live.  Operations: update, delete,
  search, install queried, install static, uninstall static, and the timer's pass,
  every ten seconds.  *Correct* when entries in use and kernel routes go together,
  static entries are only removed by the operator, and everything that was learnt
  or asked for eventually goes.  *Hard*: five writers, entry and route changed by
  separate calls, deletion by longest match.
* **Patricia tree** (`patricia/patricia.c`, and the walk macros of `patricia.h`).
  Nodes with a bit number, a prefix or none (glue), two children and a parent.
  *Correct* when its shape is canonical, no assertion fails and a search is a
  longest match.  *Hard*: relinking at insertion and removal; a walk that keeps
  pointers while others insert and remove, and removes the node it stands on.
* **Raw packet watcher** (`instance.c:432-614`).  Sees every outgoing packet, skips
  destinations on a local link, and asks for unknown ones.
* **Map message handler** (`map.c`).  Writes Map-Requests, Map-Registers and probe
  answers; reads Map-Replies and probes.  *Correct* when each side reads what the
  other wrote, and a reply has the right effect on the table.  *Hard*: offsets that
  depend on address families, replies lost, late or repeated, and a handler that
  stops in the middle of a reply.
* **Site configuration and registration** (`control.c`, `instance.c`, `map.c`).
  EIDs with a key and prefixes, locators, map servers, and the thread that
  registers every EID every ten seconds.  *Correct* when what is configured is what
  is sent, all of it, again and again.  *Hard*: the operator frees what the
  register thread is looping over; sends that fail.
* **Shared lists** (`list/`).  Singly linked; a removed node is unlinked, not freed.
* **Command dispatcher and show commands** (`control.c:28-217, 702-1032`).  One thread
  accepts a client, reads a line, splits it, finds the handler by the first word,
  answers and closes.  *Correct* when each line has the effect the usage gives it,
  whatever was typed before, and every client gets an answer.  *Hard*: handlers that
  read words the line has not got, clients that stay silent or leave, a listing of
  one tree for two address families.
* **Data plane** (`instance.c:328-430`).  Encapsulates what it reads from `lisp0` and
  writes what it receives to `lisp0`.  *Correct* when what has a mapping goes through
  the tunnel, arrives as it was, and goes through once.  *Hard*: lengths and stale
  buffer contents; the kernel routes the wrapped packet, too.
* **Netlink routes** (`instance.c:494-708`).  Requests whose answers nobody reads.
* **Start-up, tunnel device, sockets** (`main.c`, `iftun.c`), **error reporting**,
  **lixyctl**, **Vyatta templates and init script**: no state of their own.

`PROJECT.json` lists the same components with their status, and under `hazards`
what in this code is hard to test, each at its line, with the properties for it.

## 2. Modules

```
Prefixes            prefixes as bit sequences, covering, longest match
 |- PrefixTheorems    lemmas about them and about loops         (proofs)
 |- MapCache          abstract: what the map cache promises
 |- MapTable          detailed: the table and everything that changes it
 |   |- MapTable_proofs theorems about MapTable                 (proofs)
 |- MapTableThreads   the same calls in their inner steps, five threads
 |   |- MapTableThreads_proofs  what they keep of the routes and of the
 |                        map nodes; alone they implement MapCache (proofs)
 |- DualStack         the table with both address families, and its listing
 |   |- Console         the command socket above it: clients, dispatch, answers
 |       |- Console_proofs  what its table keeps, whom it serves,
 |                           what it makes of a line           (proofs)
 |- DataPlane         packets, above MapCache and the kernel's own routes
 |   |- DataPlane_proofs    what gets through, and whole       (proofs)
 |- (RibTree)
PrefixTable         abstract: what the rib promises as a container
Patricia            the tree algorithms, as operators from trees to trees
 |- RibTree           map nodes in the tree, all threads, the timer's walk
     |- RibTree_proofs  its shape, its search, its walk         (proofs)
Sites               abstract: what the eid commands promise
SiteConfig          detailed: commands, lists, register thread
 |- SiteConfig_proofs  the lists under the thread's loops,
                       what it sends, the table of sites       (proofs)
MapMessage          the control messages, written and read
 |- MapMessage_proofs  what is read is what was written         (proofs)
MC*                 small instances of the above for TLC
```

### MapTable (maptable.c, map.c, instance.c)

| State | In the code |
|---|---|
| `rib[p]` | the map node of prefix `p` in `lisp.rib`: its `state` and `ttl` |
| `routes` | the prefixes the kernel routes to `lisp0` |
| `requests` | Map-Requests on their way, with lost and repeated answers |
| `msg` | the records of the Map-Reply in hand that are still to be processed |
| `mapsrv` | whether `lisp.mapsrv_tuple` is not empty |

Actions: `RawPacket` (the watcher's search, install and request), `KnownMapping`,
`NewMapping`, `NegativeMapping`, `AskAgain`, `NoAction` (one Map-Reply record each,
so that other threads run between records), `Scan` (a pass of the timer),
`install_mapnode_static`, `uninstall_mapnode_static`, and the map server commands.
`ReceiveMapReply` and `Lose` are the mapping system.  Time is counted in timer
passes: each takes `MAPTTL_CHECK_INTERVAL` off a time-to-live in the code
(`maptable.c:160`), and one here, so that a time-to-live of 2 is one that lasts for two
passes.  A queried entry's time-to-live is uninitialised
memory in the code (`maptable.c:89`) and a choice from `GarbageTtl` here.

`delete_mapnode` removes what a *longest match* for its argument finds, as the code
does.  `Scan` skips what is below a static entry (the walk's `BREAK`).

### MapCache

The abstraction `MapTable` implements: entry states and routes only, no messages,
no time.  `ImplementsMapCache` is the refinement (`state <- rib[p].state`).
`MapTableThreads` implements it as long as calls do not overlap, `DualStack` twice,
once per family, as long as the families do not meet; `DataPlane` is built on it.

### MapTableThreads (maptable.c, and its callers)

`MapTable` takes a call on the table as one step.  Here each thread (`th[t]`) has a
place in its call (`pc`), the map node it holds (`mn`) and whether its tree node is
still in the tree (`pn`); `tree[p]` is the data pointer of a tree node: unset, freed,
or a map node.  The steps are: `Search`; the caller's decision (`AfterSearch`);
`Lookup`, `Test`, `FreeOld`, `Set` of `update_mapnode`; `AddRoute`; `Check`, `Delete`,
`DelRoute`, `Release` of the operator's removal; `Age`, `DelRoute`, `Delete` of the
timer's visit; `Use` of the data plane and the message thread.  A tree operation is
one step (`RibTree` looks into it).  An access to memory that is freed, unset or
glue is a `fault`, after which nothing more is said.  Where the compiler may load a
pointer again (`free (pn->data)`), both values are allowed.

`late`, `missed` and `overlapped` are histories: they name the cases in which a
guarantee is lost, so that everything else about it can be checked.

### DualStack, Console (control.c, maptable.c)

`DualStack` has one tree for both families, whose comparisons know bits only: a tree
node keeps the family it was made with, a route goes by the family of the call
(or, in the timer, of the node).  `Shown` is what `cmd_show_route` lists, with the
walk's `BREAK` at an entry of the other family.  `mixed` is a history: some call has
met an entry of the other family.

`Console` is `lisp_op_thread`: `Accept`, `Read` (with `strsplit`), `Exec`, `Answer`, and
clients that connect, write a line and leave (`cl`, `queue`).  A line is a sequence of
words; `Dispatch` and the `config_` operators find the handler from `args`, which are
cleared at the top of the loop.  `Usage` is lixyctl's text as patterns of words, which
`AnswersOwnCommand` compares the handlers with.  The route commands and the listing act on
`DualStack`; what the other commands do is `SiteConfig`'s.  A client's `Write` is taken
when the thread is about to read it, since an earlier write is read no sooner.
`dead` is the end of the daemon: a null pointer in `strlen` (`control.c:499`), or
SIGPIPE.

### DataPlane (instance.c)

A packet is a sequence of cells, each as long as a LISP header: the IP header with
destination and length, LISP headers, payload, and junk.  `ReadTun` is
`lisp_dp_tun_thread` from `read` to `read`, with the buffer it reuses (`buf`) and the
length it sends; `Receive` is `lisp_dp_thread`.  The kernel is external: it takes a
packet into `lisp0` or out of the host by longest match over the routes `lixyd` asked
for and its own (`foreign`), whose prefixes it refuses to `lixyd` (`NLM_F_EXCL`, and
nobody reads the answer).  The table's steps are those of `MapCache`, with the
locator of each entry (`loc`) beside them.

### Patricia, RibTree, PrefixTable

`Patricia` has `patricia_lookup`, `patricia_search_best` and `patricia_remove` with
their inner loops, on a heap of nodes linked both ways, and the assertions of the
code as predicates.  A key is a full-length address and a bitlen, so bits set
beyond the bitlen, which the code never masks, are part of the model.  A node's
pointer is the bit sequence it stands for; that no allocation collides is part of
the checked assertions, so the naming hides nothing.  The loops up and down the tree
are functions of the round (`Follow`), with a round for each bit of an address and one
for the top, as many as the stack of the search has places (`PATRICIA_MAXBITS + 1`);
that they are at their end by then is part of what is proved (`WayMeetsCovering`,
`Descended`, `Climbed`).  Where the search stacks the nodes with a prefix and pops them
until one matches, the model takes the last one that matches.

`RibTree` hangs map nodes off that tree.  The other threads' calls are one step
each; the timer's walk is one step per node, with `Xrn` and `Xstack` as in the
macros, so calls of others fall between its nodes.  The walk's own removal goes on
from the removed node's child pointers, which the code reads after `free`; the
model takes them as left alone, which is what `free` of a node of this size does
to those two fields.  When the *operator* frees a node the walk holds, the walk
reads memory others may have reused: the model then marks the walk `wild` and says
nothing more about it.  `PrefixTable` is the container `RibTree` implements; which entry a removal hits is
`SearchIsLongestMatch`.

### SiteConfig, Sites

Every `eid`, `locator` and `mapserver` command with its refusals, one step each, and the
register thread.  The thread has three nested loops: over the EIDs
(`lisp_map_register_thread`), over the prefixes of one and over the map servers
(`send_map_register`).  Each takes a step for its body and one to go on, so that the
operator's commands fall between any two of them.  `RegisterEid` enters
`send_map_register`; `BuildRegister` writes the message for a prefix into the buffer,
once for all servers, as the code does; `SendRegister` and `SendFails` are one
`sendto` each; `NextServer`, `NextPrefix` and `NextEid` follow a pointer.

| State | In the code |
|---|---|
| `eids`, `locs`, `mapsrvs` | the lists of `struct lisp` |
| `level`, `done` | the loop the thread is in, and whether its body is over |
| `eidLoop`, `prefixLoop`, `serverLoop` | the node each loop stands at |
| `buf` | what of the buffer in `send_map_register` the properties tell apart |
| `sent`, `reply` | what the last step sent or answered |

A list node that is taken out keeps its `next` pointer and is never freed, so a loop that
stands on one finds its way back through it.  A loop is therefore a pair: `gone`, the
unlinked nodes it still comes by, from the one it stands on, and `at`, the place in the
list it comes to behind them.

What hangs off a node may be freed.  Of an EID that was deleted under the loop, `free`
writes over the name, which the thread does not read; key and prefix list are what they
were until the memory is given to something else.  So the thread goes on with them, or
is `wild`: undefined behaviour has happened and nothing more is said.  Of a prefix that
was deleted, `free` writes over the family and length that `send_map_register` reads, and
the message built from it is always `wild`.  A map server's address is not freed.
A key of exactly 128 characters, whose final null goes into the pointer behind it, may
lead to `wild`, too.  The bytes of a map server's address that the code leaves
uninitialised are a choice from `Padding`.

`owed`, `keyed` and `listed` are histories: what a pass has still to register, which
prefixes had which keys since it began, and which map servers there were since the message
in the buffer was built.  The locators in a message are `MapMessage`'s matter; here a
message is its prefix, its key and where it goes.

### MapMessage

A message is a length and fields at offsets.  `set_lisp_map_register`,
`set_lisp_map_reply` and `set_lisp_map_request` are translated with the sizes and
the pointer arithmetic of the code, `process_lisp_map_reply` and
`process_lisp_map_request` with theirs; the other side reads and writes by the
diagrams of `lisp.h`.  `BuildAnswer` is the answer to a probe as `send_map_reply` has it
in its buffer: it does not leave the host, because its address has port 0 and `sendto`
fails (section 6).  What is at an offset where no field starts reads as other
bytes.  Fields that are only copied (nonces, weights, lifetimes, mask lengths,
authentication) are left out.

## 3. Runs

| Run | Module | Question | Bounds |
|---|---|---|---|
| `nested` | MapTable | safety of table and routes; implements `MapCache`; nothing stays queried, nothing outlives the map server, except below a static entry | host below /1 below /0, each of them static at times, replies of up to 2 records, ttl at most 2, garbage ttl 0 and 2 |
| `threads` | MapTableThreads | what any interleaving of the calls' inner steps preserves; alone, a call implements `MapCache` | a network and a host in it, 2 threads inside a call at a time |
| `console` | Console | commands, listing, answers; implements two `MapCache`s | 2 clients, 19 lines, 3 prefixes of which one is a prefix of both families |
| `dataplane` | DataPlane | no bypass, packets whole, through `lisp0` once | a network and a host in it, 2 locators of which one is that host, packets of up to 2 cells, 1 packet waiting in `lisp0`, 2 rounds |
| `shape` | RibTree | canonical tree, assertions, longest match | every prefix of 3-bit addresses and two with stray bits; no walk |
| `walk` | RibTree | the walk against insertions and removals; implements `PrefixTable` | five prefixes of 2-bit addresses with up to two glue nodes |
| `sent` | SiteConfig | a pass registers all that stayed and sends what was configured since it began, whatever is unlinked under its loops | 2 sites, 2 prefixes, a key and none, 1 map server |
| `sites` | SiteConfig | the eid commands implement `Sites`; what stays configured is registered for ever | 2 names alike in 16 bytes, 2 EID nodes, 2 keys (128 characters, longer), 1 prefix, 1 locator with a priority of 256, 2 map servers, of which one is out of reach at times |
| `layout` | MapMessage | every message is read as it was written | 3 locators of both families, 3 in a message, 2 records |
| `locator`, `periodic`, `encapsulated` | | the findings of section 6 | |

Why these bounds are enough:

* The handlers of the map table touch a prefix, what covers it and what it covers.
  Three nested prefixes have every such relation, with a static one above and a
  learnt one below and the other way round.  The
  time-to-live matters as "one pass left", "more" and "none".  Two records are what
  is needed for one to spoil the next.
* Three-bit addresses have bitlens 0 to 3, so that all four ways of insertion and
  all ways of removal occur at the top, in the middle and at full length; the bit
  tests at position 0 and `maxbits` are reached.  In `walk`, five keys make a glue node at
  the top and one below it, which is what a removal under the walk can collapse.
* A loop over a list distinguishes the nodes before, at and behind it.  Two of a
  kind, as `MaxSites`, `MaxPrefixes` and `MaxServers` count what is in the list and
  what is unlinked and still to be come by, let the loop stand on a node that was
  unlinked while its successor is unlinked, too, or new.  `sent` has that for EIDs and
  prefixes, and `sites` for EIDs of one name and for map servers, with the first
  server failing and the last one failing.  All three loops with two of each would be several
  times as large; `SweepRegistersAll` was explored on two sites, two prefixes and two
  servers without keys, `SentWasConfigured` on one site, two prefixes and two servers,
  and the theorems have any number of each.  Two paddings of an address were explored with
  `ImplementsSites`: they add that a map server that is there may be refused as if it were
  not.
* A fault between calls needs two threads, one standing in its call while the other
  runs through one; with two threads inside at a time and all five taking turns,
  every step of every call meets every call of every other thread.  Instances with
  three and five threads inside at a time on one prefix were explored, too (four
  million states complete for three, thirty million without an error for five).
* In `console`, the shared prefix meets an entry of its own bits and a host below it in
  the other family, and the IPv6 network meets nothing: the properties that end at
  `mixed` have long runs without it.  The lines are one for each kind: complete, too
  short, with an extra word, with a prefix of the wrong family, with an unknown
  filter, and one of `CONTROL_ARGS_MAX` words.
* In `dataplane`, a locator inside the tunnelled network and one outside are the two
  ways a wrapped packet can go; two rounds are one more than a packet should take.
  The buffer of nine cells holds any packet with its headers; the code's buffer of
  2048 bytes does so for the default MTU (an MTU of `lisp0` above 2040 would make the
  thread send beyond it).
* An offset depends on the sizes before it; three locators or two records of
  either family have a wrong advance at the first, the middle and the last place.

Deadlock is checked in every run.

Every property of a passing run has a mutant in `PROJECT.json`: an operator next to
the code's own, commented `(Faulty: ...)`, that TLC refutes the property with.

### Fairness

* `MapTable!Fairness`: weak fairness of `Scan` and of `ProcessRecord`, because the
  timer thread loops for ever around `sleep` and the message thread finishes a
  reply it has begun; and of `Lose`, because no packet stays in a network for ever
  (an answer may still come first).  Nothing is assumed of the watcher, of the
  operator or of the mapping system answering.
* `RibTree!FairSpec`: weak fairness of the timer's walk, one node after the other.
* `SiteConfig!FairSpec`: weak fairness of the register thread's steps while nothing
  undefined has happened.  Nothing is assumed of the operator or of reachability;
  `RegisteredForEver` has both as its premises.
* `Console!FairSpec`: weak fairness of the operator thread while the daemon runs, a loop
  that only blocks in `accept` and `read`.  Nothing is assumed of clients:
  `EveryoneServed` has as its premises that a client that was accepted writes, that none
  leaves before it is answered and that none sends the line that ends the daemon.
  Each premise is necessary.

## 4. Proofs

`PrefixTheorems` has the lemmas about prefixes; `LongestMatchCovers` is the one
everything rests on: where something covers a prefix, the `CHOOSE` of a longest
match is one of the covering entries.

`MapTable_proofs` proves for **every** set of prefixes, hosts, lifetimes, negative
actions and reply sizes, under the named assumptions of `MapTable` (prefixes are
bit sequences, the others subsets of them, lifetimes integers):

| Theorem | States |
|---|---|
| `TypeCorrect` | `Spec => []TypeOK` |
| `TunnelRoutes` | `Spec => []TunnelRouteInv`: no active or static entry without its route |
| `StaticEntriesStay` | `Spec => StaticSticky`: only the operator's removal takes a static entry away |
| `RoutesFollowTheirEntries` | `Spec => RoutesFollowEntries`: an entry that stops carrying packets takes its route along, with two named exceptions |
| `Refinement` | `Spec => ImplementsMapCache` |

The argument: `TypeOK` is inductive.  Its one conjunct that is not a type, that a
prefix without an entry holds exactly `NoEntry`, is what makes a lookup land on a
real entry.  `TunnelRouteInv` is inductive together with `TypeOK`: an entry gets
into use only by `NewMapping` and `install_mapnode_static`, which add the route
only when the update was taken; a route goes only in `Scan`, together with its
entry, and in `uninstall_mapnode_static(p)`.  There the entry removed is the
longest match `q` of `p`, and the route removed that of `p`: if `q` is not `p`
then `p` has no entry, since an entry of its own would be the longest match
(`SearchSelf`), so no entry loses its route.  The same lemma gives the refinement its
`Uninstall`.  The lemmas `UpdateStates`, `DeleteStates`, `KnownMappingStates` and
`ScanStates` say what each kind of change does to the states alone; the refinement
and the action properties are then one step per action.

`MapTableThreads_proofs` proves, for every set of prefixes (where map nodes are
counted a finite one, as an address has finitely many bits) and any number of threads
inside calls at a time:

| Theorem | States |
|---|---|
| `RoutesKept` | `Spec => []RouteKept` |
| `StaticKept` | `Spec => CallsKeepStatic` |
| `TypeCorrect` | `Spec => []TypeOK` |
| `LiveNodesOnly` | `Spec => []TreeHoldsLiveNodes` |
| `RefinementAlone` | `Spec => ImplementsMapCacheAlone`: until two calls overlap, the calls' steps are the map cache's |

`RouteKept` is inductive with no more than `Shape`, which says that threads are
functions from places to fields.  `Set` is the only step that puts an entry into use,
and it leaves its thread at `route`; a route goes in `DelRoute` alone, which leaves
the timer at `delete`, or notes the operator's `late` removal.  When the timer then
removes "the longest match" of its node's prefix, that is its own entry.

`StaticKept` needs to know what each thread still holds (`Known`).  No two tree nodes
share a static entry (`Distinct`): a new map node has a number no pointer has, which is
where the finite set of prefixes comes in.  An update past its test has a pointer to
an entry that was not static, and if its node has a static entry now, that one has
come since the call began (`Updating`).  The timer's node is in the tree unless it
is marked as gone, and a static entry there has come since, or is the one the timer
has loaded and is yet to look at (`Visiting`).  A step of one thread either
leaves what the others know alone, or installs a static entry and is noted with all
of them (`SetStep`), or frees one and takes their pointers to it along (`FreeStep`).

`TreeHoldsLiveNodes` is not inductive: whether an update that finds a node without a map
node comes to give it one depends on what it has loaded.  `Pointers` says that no two tree
nodes hold the same map node (`OwnNodes`), what each thread's pointer can be at each place
of its call (`Pointing`), and that a tree node whose data is unset or freed has a thread
at the step of `update_mapnode` that is about to set it, before the first fault and after
it (`LiveNodes`).  TLC checked all of them on the instance of `threads` first.

For the refinement, `Calm` says that until two calls overlap one thread at most is inside
a call (`Alone`), nothing has gone wrong (`Settled`), and what that thread holds is what
the tree holds (`Steady`: what it is to enter, to remove, to age).  The mapping, `cached`
and `tunnelled`, shows an update as done from the moment its test has passed, and a
removal's or expiry's route as gone with its entry.  So of the steps of a call one is the
step of `MapCache` (`TestAlone`, `DeleteOperatorAlone`, `AgeAlone`, ...) and the others
stutter; `OneView` says that with one thread inside a call the mapping is that thread's
own view of the tree.

`Console_proofs` proves, for every set of prefixes, of clients and of lines:

| Theorem | States |
|---|---|
| `RoutedInBothFamilies` | `Spec => []InUseIsRouted` |
| `TwoCaches` | `Spec => ImplementsTwoCaches`: until the families meet, the tree is two map caches |
| `TypeCorrect` | `Spec => []TypeOK` |
| `AnswersInOrder` | `Spec => AnswersOwnCommand`: each line does what the usage gives it, and nothing else |
| `ShowsAll` | `Spec => ShowComplete` |

The first is inductive with the types of the table: where an update finds a node of
the other family the call has met that family, so `mixed` is set and the weaker
promise holds.  For the second, a call that has not met the other family works on
entries of its own alone: what covers its prefix is its family's (`CoveringOfFamily`),
so lookup, longest match and removal are those of the one cache, and the other cache
stutters; a pass of the timer ages both.

The other three rest on `SocketInv`: nobody waits twice, whoever waits or is served is
connected, and between reading a line and carrying it out `args` is that line's words and
nothing else, because the loop clears `args` and a client writes but once
(`ArgsInv`).  `FitsHandler` then compares `Dispatch` with the usage, pattern by pattern:
what fits a pattern of the usage gets to that pattern's handler.  That a word of the line
is never taken for the end of the line or for the pattern of any word is
`WordAssumption`: a null pointer is no word, and a word has no blank.

`DataPlane_proofs` proves, for every set of prefixes, addresses and locators:

| Theorem | States |
|---|---|
| `TunnelKeepsPackets` | `Spec => NoBypass` |
| `PacketsArriveWhole` | `Spec => ArrivesWhole` |
| `ReadAtMostOnce` | `Spec => []ReadOnce` |
| `TypeCorrect` | `Spec => []TypeOK` |

The table's part of the invariant is that what is in use has its locator and its route.
A packet that leaves unwrapped was routed past `lisp0` by the kernel, whose longest match
was a route of its own; were there a longer entry in use, its route would have been the
match (`NotThroughLisp0`).  What `lisp0` hands out is a packet as long as its header says;
`lisp_dp_tun_thread` sends it with stale cells behind it, and the receiver cuts it back by
that length (`FilledStartsWith`, `WrappedIsWhole`, `ArrivingIsWhole`).  `LengthAssumption`,
that a packet is shorter than the read buffer even after the passes through `lisp0` the
model allows, is the code's `LISP_EID_DP_BUF_LEN` of 2048 bytes against the default MTU.

`SiteConfig_proofs` proves, for any number of EIDs, prefixes, locators and servers:

| Theorem | States |
|---|---|
| `SweepComplete` | `Spec => []SweepRegistersAll` |
| `SitesImplemented` | `Spec => ImplementsSites` |
| `SentConfigured` | `Spec => SentWasConfigured` |
| `TypeCorrect` | `Spec => []TypeOK` |

`ConfigInv` is what all of them rest on: no two EIDs have the same name and no EID the same
prefix twice (`EidInv`), a loop stands at a node of its list, at one that was unlinked, or
nowhere (`LoopInv`), and the rest are types (`ListsInv`, `BufInv`, `OwedInv`).  With `EidInv` a
search finds the one EID of a name, and a command changes that site and no other, which is
the refinement (`FoundSite`, `ChangedSite`).  A command does one of few things to each list
and the loop over it: it appends to the list, takes one element out, changes one in place or
leaves it alone (`EidChange`, `ServerChange`); so each property is proved about those, and not
about every command.

What a loop is at and has yet to come to is said by `Standing` and `Coming`, and four lemmas
have what happens to it: `LoopBegins`, `LoopMoves`, `LoopUnlinked`, `LoopAppended`.

For `SentWasConfigured`, `KeyedInv` says that what the loops hold is in the histories: each
EID in the list or unlinked under the loop has had its prefixes with its key since the pass
began, so has the message in the buffer, and each server the inner loop is at or still
comes by has been listed since the message was built.  It is needed because `BuildRegister`
reads what may have been deleted, and `SendRegister` sends what was built before: neither
looks at the present configuration.

For the sweep, `SweepInv` says that what is still owed is configured and lies ahead of the
loops: the EID is still to come (`EidAhead`), or the loop is at it and the prefix is still
to come (`PrefixAhead`), or the loop is at the prefix and the server is still to come
(`ServerAhead`).  An element that is appended is ahead; one that is unlinked was
owed no longer, and leaves the others where they were.

`MapMessage_proofs` proves, for every set of prefixes and locators and any number of
locators in a message and of records in a Map-Reply that a byte counts:

| Theorem | States |
|---|---|
| `ConfigurationArrives` | `Spec => []RecordsReadBack` |
| `OneLocatorArrives` | `Spec => []RequestReadsBack` |
| `MappingsArrive` | `Spec => []RepliesUnderstood` |
| `ProbesArrive` | `Spec => []ProbesUnderstood` |

A field is read where the fields in front of it end (`ReadAt`, `FieldRead`), because the
offsets of a message only grow (`Increasing`).  What remains is that the readers' loops
come to these ends.  `Joined` gives the ends of the parts of a list of locators, records or
ITR-RLOCs; `LocatorsLie`, `RecordsLie` and `RlocsLie` say that the fields of each part are
read there and that its length leads to the next one; `SameRounds`, that a loop that makes
these steps is at these ends.  So the readers find what was written (`RecordFound`,
`RecordReadFound`, `ReplyRead`, `ProbeRead`, `RequestRead`), and the loop that prefers a
larger priority has chosen the first of the largest (`Chosen`).  A loop is a recursive
function here.  The induction over its rounds is the least number principle of the
library, used on a set of rounds (`Rounds`, `Iterated` in `PrefixTheorems`), as the provers
cannot instantiate an induction rule.

The invariant `Inv` says what the message written last is made from: `OwnMessage`, the
locators configured (`Configure` waits for the message to be gone), `Sent`, a
Map-Reply or probe of the other side, and `Heard`, that what was heard is what the handler
makes of it.  `FamilyAssumption` gives prefixes and locators their families and
priorities of a byte; `BoundAssumption` holds the counts to a byte, which the code's
buffers of 1024 bytes do anyway.

`RibTree_proofs` proves, for addresses of any length and any keys:

| Theorem | States |
|---|---|
| `TreeIsCanonical` | `Spec => []CanonicalTree` |
| `AssertionsHold` | `Spec => []AssertsHold` |
| `SearchFindsLongest` | `Spec => []SearchIsLongestMatch` |
| `RibRefinesTable` | `Spec => ImplementsPrefixTable` |
| `WalkVisitsAll` | `Spec => []WalkSkipsNothing` |
| `WalkVisitsEachOnce` | `Spec => []WalkVisitsOnce` |
| `WalkFreesNoneAhead` | `Spec => WalkKeepsItsNodes` |
| `TypeCorrect` | `Spec => []TypeOK` |

`CanonicalTree` says which tree there is for given entries; to prove it of every step
one needs to know what is around a node.  `TreeOk` says that: a child is the shortest node
on its side and covers all others there, a parent the longest node above (`Linked`); a node
has the bit and, if it is stored, the address it stands for (`Marked`); a glue node has both
children (`Glued`); and the nodes are counted (`Counted`).  From the links alone it follows
that they go both ways (`BothWays`).  There are four ways to change the links, whatever a
node record looks like: a leaf comes or goes, a node comes between two others or gives way
to its only child (`LeafAdded`, `LeafTaken`, `NodeBetween`, `NodeGivesWay`).

`SearchFinds`: the way down to a key meets every node that covers it, each longer
than the one before it, so that the last match is the longest.  `Descended` and `Climbed`
say where the loops of `patricia_lookup` stop, and `Placed` what `Place` then knows: the
key and the node climbed to have the same bits up to the differing one, the parent of that
node is above it, and no node has more in common with the key (`Fits`).  With it none of
the assertions can fail (`LookupSafe`), and in each of the cases `patricia_lookup` makes one
or two of the four changes (`LookupGrows`); `patricia_remove` likewise (`RemoveShrinks`,
which also says that a node it frees is the entry or a glue node above it).  What a call
does to the table of data is then a statement about entries (`UpdateKeeps`, `RemoveKeeps`),
and the refinement one step for each.  `TreeIsCanonical` follows from `TreeOk`:
below every node an entry is stored (`EntryBelow`), so that a glue node is where two entries
part, and where two part there is a node, or the longest node that covers both would have a
child that does (`NodesAre`).

For the walk, `WalkOk` says that its pointers are nodes and none of them is at or
below another (`Standing`, `Apart`), that every entry owed is at or below one of them
(`Reaches`) and no visited one is (`Leaves`).  The order of the prefixes does not change when
others insert, so neither does any of this.  `Advanced` says that the walk goes from a node
to what is below it and keeps its stack.  A removal by the walk frees its node and perhaps a
glue node above it, and both are apart from all it still holds (`ExpiredStep`).  TLC checked
the invariant on the instance of `walk` first.

Only model-checked: liveness (`QueriedIsTransient`, `MappingNeedsMapServer`,
`WalkEnds`, `RegisteredForEver`, `EveryoneServed`), which is out of TLAPS' reach.  Every
other property of a passing run is a theorem.

## 5. What the checks show

Table and kernel routes go together in the direction that matters for the tunnel,
whatever the order of replies, expiries and commands; no reply and no expiry takes
a static entry; and the table as a whole is a small map cache.  The tree keeps its
canonical shape, its assertions cannot fail and its search is a longest match, also
for keys with stray bits.  The timer's walk meets every entry exactly once, though
others insert and it removes under its own feet, as long as the operator does not
free a node it holds.  A register pass leaves nothing out although the operator
unlinks EIDs, prefixes and map servers under its three loops, because an unlinked node
keeps its pointer.  What it sends may be out of date: an EID, prefix or map server that was
deleted, or a key that was changed, after the thread came to it is still registered.  But it
never puts together what was not configured together, and nothing that was gone before
the pass began is in it.

Without locks, `threads` shows three guarantees that survive any interleaving, each
with one exception.  An entry in use has its route, or a thread is about to add it,
or the operator's removal took it late: `uninstall_mapnode_static` deletes the entry,
a reply enters a new mapping with its route, and the removal then takes that route,
for as long as the mapping lives.  The tree holds live map nodes outside an update,
unless a removal deleted another entry than it had looked up and frees the wrong
one.  A static entry is safe from every call that begins after it, not from one that
was under way.  What does happen, and ends in a `fault`: the timer reads through a
data pointer not yet set; a map node is used, or freed, after another thread freed
it; an update writes to a tree node that was removed.

With two families, everything holds until prefixes with the same leading bits meet
(`mixed`).  Then the longest match, the static shield and the operator's removal reach
across families, and an entry can be routed in the other family only; never in none.

In the data plane, what has an entry in use leaves the host unwrapped only where the
kernel has a route of its own that is as long.  The receiver gets each packet as it
was although eight stale bytes follow it in every datagram.  A packet comes back to
`lisp0` only when its locator is under a prefix that was itself mapped; it is then
wrapped again and again.

## 6. Where the repository disagrees with itself

Found by a run:

* `locator` - a Map-Reply whose prefix is the queried host itself never becomes an
  active entry: the queried entry matches and only its time-to-live is reset
  (`map.c:749`, against `map.c:742`).
* `periodic` - an unreachable map server keeps the servers behind it in the list,
  and the EID's other prefixes, from ever being registered (`map.c:841`, against
  `instance.h:31`).
* `encapsulated` - an encapsulated Map-Reply is dispatched by its inner type but
  read from its outer header, and has no effect (`map.c:628`, against `map.h:33`
  and `lisp.h:179`).

Read in the code while modelling, part of the models, without a run of their own:

* `route <prefix> delete` removes the entry its prefix *falls under* and the route
  of the prefix itself.  Deleting a host under a static network leaves the
  network's route without an entry: packets for it are read from `lisp0` and not
  encapsulated (`maptable.c:128-134`; `instance.c:366` says they are), and as the
  kernel answers with a link route, nobody asks the map server about them
  (`instance.c:464`).  The second exception in `RoutesFollowEntries` is this.
* What was learnt below a static entry is never released (`maptable.c:158`, against
  `maptable.h:65` "it decrease ttl and release cache"): the exception `Shielded` in
  `QueriedIsTransient` and `MappingNeedsMapServer` is this.
* The data plane hands a packet without a mapping to `sendraw` with the tun device,
  which is no socket: `sendto` fails, and the packet is dropped, also where the
  mapping system said it should be forwarded natively (`instance.c:416`).
* A destination the kernel has no route for counts as one on the local link, and is
  never asked for (`instance.c:602`).
* The length sent to a locator has the LISP header twice (`instance.c:422`).  A datagram
  shorter than a header makes a negative length, with which `write` fails
  (`instance.c:354`).
* A client that connects and leaves ends the daemon: the answer to its empty line is
  written to a closed stream, and SIGPIPE is not handled (`control.c:194-212`).
  So does `eid NAME authkey` without a key, for an EID that exists (`control.c:499`).
* `mapserver` without an address sets the loopback address, as `getaddrinfo` does for a
  null pointer (`control.c:233`, `275`); a filter that is no state shows entries by an
  uninitialised variable (`control.c:706-730`); `locator ... priority` uses the result
  of `getaddrinfo` after it is freed (`control.c:391`).
* `route <prefix> <address>` answers "success" also when the entry was refused
  (`control.c:978-980`), and takes any prefix whose words parse, so the two families
  can be made to meet.
* `control.h:51` calls a command `show map-server` that is `show mapserver`
  (`control.c:927`).  The streams opened to write a listing are never closed
  (`control.c:20-26`).
* With no locator or more than one, `set_lisp_map_request` writes a request that
  cannot be read back: the pointer to the ITR-RLOC family is not advanced, and the
  count of none is 31 (`map.c:189-228`).  `RequestReadsBack` is for one locator.
* The preferred locator is the one with the largest priority number (`map.c:736`).
* `map.h:11` says a Map-Register's locator count is 1; it is the length of the list.
* `unset_lisp_mapserver` compares bytes of an address that were never written, so
  a configured map server may or may not be deletable (`instance.c:227`).
* The Vyatta front-end's `authkey delete` sets the key `delete`
  (`control.c:684`); its `prefix delete` without a prefix is refused
  (`control.c:572`); it allows 25 characters in a site name of which 16 count
  (`instance.c:113`).
* A Source EID without an address family is skipped as if it were an IPv6 address
  (`map.c:685`), and a probe is answered to its Source EID at port 0, where
  `sendto` fails.

## 7. Not modelled

* The timer's walk under the inner steps of the other calls: `MapTableThreads` has one
  visit at a time, to any node that is there, `RibTree` the walk with one step per
  call.
* The text of the `eid`, `mapserver` and `locator` listings; `read` returning a line in
  parts.
* IP versions other than 4 and 6 on `lisp0`, two families in the data plane, and
  fragmentation.
* Malformed messages, and messages shorter than their fields.
* Netlink messages.  In `MapTable` `routes` has the effect of an accepted call; in
  `DataPlane` the kernel may refuse.  A kernel that drops a route by itself (`lisp0`
  going down) is in neither.
* `table->count`, which is only written; the tree functions the daemon does not call.
* `main.c`, `iftun.c`, `error.c`, the init script, and of `lixyctl.c` what is not its calls
  on the socket: straight-line I/O.
* A command on the lists under the thread that reads them: each command of `SiteConfig` is
  one step, and so is writing a message into the buffer, with the list of locators
  read in it.  What the memory of a freed EID holds once it is used again (`wild`).
* Two commands at a time: there is one operator thread, which takes one command per
  connection.

## 8. Plan

Done, in this order: Prefixes, MapCache, MapTable, its proofs; Patricia, RibTree;
Sites, SiteConfig; MapMessage; MapTableThreads; DualStack, Console; DataPlane.

Proved since: every property the runs check, but for liveness.
