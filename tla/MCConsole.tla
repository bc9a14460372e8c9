------------------------------- MODULE MCConsole -------------------------------
(* Two clients, and a table where the families can meet, for Console.       *)
EXTENDS Console, TLC

\* IPv4 has a network with a host in it.  IPv6 has the same bits for a network,
\* and a network of its own.
Shared == <<0>>
HostV4 == <<0, 0>>
NetV6 == <<1>>

Prefixes3 == {Shared, HostV4, NetV6}
Hosts == [f \in Family |-> IF f = "ipv4" THEN {HostV4} ELSE {}]
Mappings == [f \in Family |-> IF f = "ipv4" THEN {Shared} ELSE {NetV6}]
Words == [ipv4 |-> [shared4 |-> Shared], ipv6 |-> [shared6 |-> Shared, net6 |-> NetV6]]
Itr == {"itr"}

Lines ==
  {<<"route", fw[1], fw[2], last>> :
     fw \in {<<"ipv4", "shared4">>, <<"ipv6", "shared6">>, <<"ipv6", "net6">>},
     last \in {"itr", "delete"}}
  \cup {<<"route", "ipv4", "net6", "itr">>, <<"route", "ipv6", "shared4", "delete">>,
        <<"route", "ipv4", "shared4">>, <<"route", "ipv4", "shared4", "delete", "now">>,
        <<"show", "ipv4-route">>, <<"show", "ipv6-route", "static">>,
        <<"show", "ipv4-route", "queried">>, <<"show", "ipv4-route", "all">>,
        <<"show", "eid">>, <<"eid", "site", "authkey">>, <<"mapserver", "itr">>,
        <<"mapserver", "itr", "add">>,
        <<"a", "b", "c", "d", "e", "f", "g", "h">>}

AllWords == UNION {ToSet(line) : line \in Lines}

================================================================================
