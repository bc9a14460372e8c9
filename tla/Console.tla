-------------------------------- MODULE Console --------------------------------
(***************************************************************************)
(* lixyd's command socket (control.c) above the two-family map table: the  *)
(* operator thread accepts one client at a time, reads its line, splits    *)
(* it, looks the command up, carries it out, writes the answer and closes. *)
(* Clients queue, write a line or stay silent, and leave when they like;   *)
(* the other threads change the table meanwhile.                           *)
(*                                                                         *)
(* The route commands and "show ipv4-route" are carried out on the table.  *)
(* Of the others (SiteConfig has them) only what they are and that they    *)
(* may fail is kept.                                                       *)
(***************************************************************************)
EXTENDS DualStack

CONSTANTS
  Client,
  Word,    \* the words clients use: no blanks
  Line,    \* the lines they write, as sequences of words
  Bits,    \* Bits[f]: what the words that are prefixes of family f stand for
  Addr     \* the words that are addresses

Null == "null"          \* no word: the end of a line
AnyWord == {"any word"}  \* in a command's usage

ASSUME WordAssumption == Word \cap ({Null} \cup AnyWord) = {}
ASSUME LineAssumption == Line \subseteq Seq(Word) \ {<<>>}
ASSUME AddrAssumption == Addr \subseteq Word
ASSUME BitsAssumption ==
  \A f \in Family : /\ DOMAIN Bits[f] \subseteq Word
                   /\ \A w \in DOMAIN Bits[f] : Bits[f][w] \in Prefix

VARIABLES
  cl,     \* each client: its connection, its line, whether it has left
  queue,  \* the connections waiting for accept
  op,     \* the operator thread: where it is in its loop, socket and args
  dead    \* the daemon is gone

vars == <<tableVars, cl, queue, op, dead>>

MaxArgs == 8   \* CONTROL_ARGS_MAX
Backlog == 1   \* of listen

NoLine == <<>>
Away == [at |-> "away", line |-> NoLine, gone |-> FALSE]
NoArgs == [i \in 0..4 |-> Null]   \* no command looks at args[5] and above
NoSock == "none"

Accepting(args) == [at |-> "accept", sock |-> NoSock, args |-> args,
                    did |-> "nothing", says |-> FALSE, lines |-> {}]

\* (Faulty: the loop starts with the args of the line before.)
ArgsKept == op.args

\* The top of the loop clears args.
ArgsCleared == NoArgs

-----------------------------------------------------------------------------
(* Clients.                                                                *)

Connect(c) ==
  /\ cl[c].at = "away"
  /\ Len(queue) <= Backlog
  /\ cl' = [cl EXCEPT ![c].at = "connected"]
  /\ queue' = Append(queue, c)
  /\ UNCHANGED <<op, dead>>

\* A line written while the client still waits is read no sooner than one
\* written after it was accepted, so the write comes then.
Write(c) ==
  /\ c = op.sock /\ cl[c].line = NoLine /\ ~cl[c].gone
  /\ \E line \in Line : cl' = [cl EXCEPT ![c].line = line]
  /\ UNCHANGED <<queue, op, dead>>

Leave(c) ==
  /\ cl[c].at = "connected" /\ ~cl[c].gone
  /\ cl' = [cl EXCEPT ![c].gone = TRUE]
  /\ UNCHANGED <<queue, op, dead>>

-----------------------------------------------------------------------------
(* Which handler a line gets to: search_cmd_node and the config_ functions. *)

config_map_server(a) ==
  CASE a[2] = Null     -> "set map server"
    [] a[2] = "delete" -> "delete map server"
    [] OTHER           -> "invalid"

config_locator(a) ==
  CASE Null \in {a[1], a[2]} -> "invalid"
    [] a[2] = "create" -> "create locator"
    [] a[2] = "delete" -> "delete locator"
    [] a[3] # Null /\ a[2] \in {"priority", "weight", "m_priority", "m_weight"} ->
         "set locator"
    [] OTHER -> "invalid"

config_eid(a) ==
  CASE Null \in {a[1], a[2]} -> "invalid"
    [] a[2] = "create" -> "create eid"
    [] a[2] = "delete" -> "delete eid"
    [] a[2] = "authkey" -> IF a[3] = Null THEN "crash or refuse" ELSE "set key"
    [] a[2] = "prefix" /\ a[3] # Null ->
         (CASE a[4] = Null -> "add prefix"
            [] a[4] = "delete" -> "remove prefix"
            [] OTHER -> "invalid")
    [] OTHER -> "invalid"

ShowCommand(f) == IF f = "ipv4" THEN "show ipv4-route" ELSE "show ipv6-route"

config_show(a) ==
  CASE a[1] = "ipv4-route" -> ShowCommand("ipv4")
    [] a[1] = "ipv6-route" -> ShowCommand("ipv6")
    [] a[1] = "eid"        -> "show eid"
    [] a[1] = "mapserver"  -> "show mapserver"
    [] a[1] = "locator"    -> "show locator"
    [] OTHER               -> "invalid"

config_route(a) ==
  CASE Null \in {a[1], a[2], a[3]} -> "invalid"
    [] a[3] = "delete" -> "uninstall route"
    [] OTHER -> "install route"

Dispatch(a) ==
  CASE a[0] = "mapserver" -> config_map_server(a)
    [] a[0] = "locator"   -> config_locator(a)
    [] a[0] = "eid"       -> config_eid(a)
    [] a[0] = "show"      -> config_show(a)
    [] a[0] = "route"     -> config_route(a)
    [] OTHER              -> "invalid"

-----------------------------------------------------------------------------
(* The operator thread.                                                    *)

Accept ==
  /\ op.at = "accept"
  /\ queue # <<>>
  /\ op' = [op EXCEPT !.at = "read", !.sock = Head(queue)]
  /\ queue' = Tail(queue)
  /\ UNCHANGED <<tableVars, cl, dead>>

\* strsplit; args that the line has no word for stay as they are.
Split(line) == [i \in 0..4 |-> IF i < Len(line) THEN line[i + 1] ELSE op.args[i]]

\* read waits for a line, or for the client to leave without one.  A line of
\* too many words is answered at once.
Read ==
  /\ op.at = "read"
  /\ LET c == op.sock IN
       /\ cl[c].line # NoLine \/ cl[c].gone
       /\ op' = IF Len(cl[c].line) >= MaxArgs
                THEN [op EXCEPT !.at = "answer", !.did = "invalid", !.says = TRUE]
                ELSE [op EXCEPT !.at = "exec", !.args = Split(cl[c].line)]
  /\ UNCHANGED <<tableVars, cl, queue, dead>>

\* The handler returns: says, when it has a message, lines when it has shown
\* entries.
Return(did, says, lines) ==
  /\ op' = [op EXCEPT !.at = "answer", !.did = did, !.says = says, !.lines = lines]
  /\ UNCHANGED <<cl, queue, dead>>

cmd_install_route ==
  LET f == op.args[1]
      w == op.args[2]
      valid == f \in Family /\ op.args[3] \in Addr /\ w \in DOMAIN Bits[f]
  IN /\ Dispatch(op.args) = "install route"
     /\ IF valid THEN install_mapnode_static(f, Bits[f][w]) ELSE UNCHANGED tableVars
     /\ Return(IF valid THEN "install route" ELSE "invalid", TRUE, {})

cmd_uninstall_route ==
  LET f == op.args[1]
      w == op.args[2]
      valid == f \in Family /\ w \in DOMAIN Bits[f]
  IN /\ Dispatch(op.args) = "uninstall route"
     /\ IF valid THEN uninstall_mapnode_static(f, Bits[f][w]) ELSE UNCHANGED tableVars
     /\ Return(IF valid THEN "uninstall route" ELSE "invalid", TRUE, {})

\* A word that is no state leaves the filter uninitialised.
Filters(w) == CASE w = Null -> {"all"}
                [] w \in EntryState -> {w}
                [] OTHER -> Filter

cmd_show_route ==
  \E f \in Family :
    /\ Dispatch(op.args) = ShowCommand(f)
    /\ \E filter \in Filters(op.args[2]) :
         Return(ShowCommand(f), FALSE, Shown(f, filter))
    /\ UNCHANGED tableVars

\* strlen of a key that is not there, once the EID has been found.
Crash ==
  /\ Dispatch(op.args) = "crash or refuse"
  /\ dead' = TRUE
  /\ UNCHANGED <<tableVars, cl, queue, op>>

\* The commands that are SiteConfig's, and those that are none.
OtherCommand ==
  LET did == Dispatch(op.args) IN
    /\ did \notin {"install route", "uninstall route"} \cup {ShowCommand(f) : f \in Family}
    /\ \E says \in IF did \in {"show eid", "show mapserver"} THEN BOOLEAN ELSE {TRUE} :
         Return(IF did = "crash or refuse" THEN "invalid" ELSE did, says, {})
    /\ UNCHANGED tableVars

Exec ==
  /\ op.at = "exec"
  /\ cmd_install_route \/ cmd_uninstall_route \/ cmd_show_route \/ Crash \/ OtherCommand

\* (Faulty: after a line of too many words the connection stays open.)
AnswerKeeping ==
  /\ op.at = "answer"
  /\ UNCHANGED <<tableVars, queue>>
  /\ IF cl[op.sock].gone /\ (op.says \/ op.lines # {})
     THEN dead' = TRUE /\ UNCHANGED <<cl, op>>
     ELSE /\ cl' = IF Len(cl[op.sock].line) >= MaxArgs THEN cl
                   ELSE [cl EXCEPT ![op.sock] = Away]
          /\ op' = Accepting(ArgsCleared)
          /\ UNCHANGED dead

\* The answer goes to a stream socket: writing to a client that has left ends
\* the daemon with SIGPIPE, which nothing catches.
Answer ==
  /\ op.at = "answer"
  /\ UNCHANGED <<tableVars, queue>>
  /\ IF cl[op.sock].gone /\ (op.says \/ op.lines # {})
     THEN dead' = TRUE /\ UNCHANGED <<cl, op>>
     ELSE /\ cl' = [cl EXCEPT ![op.sock] = Away]
          /\ op' = Accepting(ArgsCleared)
          /\ UNCHANGED dead

-----------------------------------------------------------------------------

Init ==
  /\ TableInit
  /\ cl = [c \in Client |-> Away]
  /\ queue = <<>>
  /\ op = Accepting(NoArgs)
  /\ dead = FALSE

Operator == ~dead /\ (Accept \/ Read \/ Exec \/ Answer)

Next ==
  \/ ~dead /\ Threads /\ UNCHANGED <<cl, queue, op, dead>>
  \/ ~dead /\ \E c \in Client : (Connect(c) \/ Write(c) \/ Leave(c)) /\ UNCHANGED tableVars
  \/ Operator
  \/ dead /\ UNCHANGED vars

Spec == Init /\ [][Next]_vars

\* The operator thread runs for ever.
FairSpec == Spec /\ WF_vars(Operator)

-----------------------------------------------------------------------------
(* What the commands are, by lixyctl's usage (lixyctl.c) and control.h.     *)

\* A pattern says of each word what it may be, of the one after the last perhaps
\* that there is none; further words are ignored.
WordAt(line, i) == IF i <= Len(line) THEN line[i] ELSE Null
Says(word, words) == word \in words \/ (words = AnyWord /\ word # Null)
Fits(line, pattern) == \A i \in DOMAIN pattern : Says(WordAt(line, i), pattern[i])

Parameter == {"priority", "weight", "m_priority", "m_weight"}
Usage ==
  {<<<<{"mapserver"}, AnyWord, {Null}>>, "set map server">>,
   <<<<{"mapserver"}, AnyWord, {"delete"}>>, "delete map server">>,
   <<<<{"locator"}, AnyWord, {"create"}>>, "create locator">>,
   <<<<{"locator"}, AnyWord, {"delete"}>>, "delete locator">>,
   <<<<{"locator"}, AnyWord, Parameter, AnyWord>>, "set locator">>,
   <<<<{"eid"}, AnyWord, {"create"}>>, "create eid">>,
   <<<<{"eid"}, AnyWord, {"delete"}>>, "delete eid">>,
   <<<<{"eid"}, AnyWord, {"authkey"}, AnyWord>>, "set key">>,
   <<<<{"eid"}, AnyWord, {"prefix"}, AnyWord, {Null}>>, "add prefix">>,
   <<<<{"eid"}, AnyWord, {"prefix"}, AnyWord, {"delete"}>>, "remove prefix">>,
   <<<<{"show"}, {"ipv4-route"}>>, "show ipv4-route">>,
   <<<<{"show"}, {"ipv6-route"}>>, "show ipv6-route">>,
   <<<<{"show"}, {"eid"}>>, "show eid">>,
   <<<<{"show"}, {"mapserver"}>>, "show mapserver">>,
   <<<<{"show"}, {"locator"}>>, "show locator">>}
  \cup UNION {{<<<<{"route"}, {f}, DOMAIN Bits[f], Addr>>, "install route">>,
               <<<<{"route"}, {f}, DOMAIN Bits[f], {"delete"}>>, "uninstall route">>} :
              f \in Family}

\* The command a line is, one at the most as long as "delete" is no address.
Meant(line) ==
  IF Len(line) >= MaxArgs THEN {} ELSE {u[2] : u \in {v \in Usage : Fits(line, v[1])}}

-----------------------------------------------------------------------------
(* What holds.                                                             *)

TypeOK ==
  /\ TableTypeOK
  /\ cl \in [Client -> [at : {"away", "connected"}, line : Line \cup {NoLine}, gone : BOOLEAN]]
  /\ queue \in Seq(Client) /\ Len(queue) <= Backlog + 1
  /\ op.at \in {"accept", "read", "exec", "answer"}
  /\ op.at # "accept" => cl[op.sock].at = "connected" /\ op.sock \notin ToSet(queue)
  /\ dead \in BOOLEAN

\* Every line is carried out as the usage says, on the prefix it names, and one
\* that is not in the usage touches neither table nor routes: nothing is left
\* over from the line before it (args and buf of lisp_op_thread, the tests for
\* missing words in the config_ functions).
Carried(did, line) ==
  CASE did = "install route" ->
         LET p == Bits[line[2]][line[3]]
         IN rib'[p].state = "static" /\ \A q \in Prefix \ {p} : rib'[q] = rib[q]
    [] did = "uninstall route" ->
         \A q \in Prefix : rib'[q] # rib[q] => Covers(q, Bits[line[2]][line[3]])
    [] OTHER -> UNCHANGED <<rib, routes>>

AnswersOwnCommand ==
  [][op.at = "exec" /\ op'.at = "answer" =>
       LET line == cl[op.sock].line
           meant == Meant(line)
       IN /\ meant # {} => op'.did \in meant
          /\ Carried(IF meant = {} THEN "invalid" ELSE op'.did, line)]_vars

\* "show" lists the entries of the family, of the state asked for, all of them,
\* while no entry of the other family is above or below them (cmd_show_route).
Apart == \A p, q \in Entries : Comparable(p, q) => rib[p].family = rib[q].family
Asked(f, line) ==
  {p \in Entries : rib[p].family = f /\ (Len(line) >= 3 => rib[p].state = line[3])}
ShowComplete ==
  [][\A f \in Family :
       LET line == cl[op.sock].line
       IN /\ Apart
          /\ op.at = "exec" /\ op'.at = "answer" /\ op'.did = ShowCommand(f)
          /\ Len(line) >= 3 => line[3] \in EntryState
          => op'.lines = Asked(f, line)]_vars

\* Every client is answered, as long as each of them writes a line, none names
\* the line that ends the daemon, and none leaves before it is answered: one
\* thread serves all of them, one after the other (lisp_op_thread).
Harmless(c) == /\ ~cl[c].gone
               /\ cl[c].line # NoLine => Dispatch(
                    [i \in 0..4 |-> IF i < Len(cl[c].line) THEN cl[c].line[i + 1] ELSE Null])
                      # "crash or refuse"
EveryoneServed ==
  (/\ [](\A c \in Client : Harmless(c))
   /\ \A c \in Client : []<>(c # op.sock \/ cl[c].line # NoLine)) =>
    \A c \in Client : cl[c].at = "connected" ~> cl[c].at = "away"

================================================================================
