------------------------------ MODULE MCMapTable ------------------------------
(* Small address spaces for MapTable: two-bit addresses at most.            *)
EXTENDS MapTable

Net == <<0>>
HostA == <<0, 0>>

\* A network, and a host in it.
NetAndHost == {Net, HostA}
\* The prefix over everything, a network and a host in it.
Nested == {<<>>, Net, HostA}

OnlyNet == {Net}
OnlyHostA == {HostA}

===============================================================================
