-------------------------- MODULE MCMapTableThreads --------------------------
(* A network and a host in it, for MapTableThreads.                         *)
EXTENDS MapTableThreads

Net == <<0>>
HostA == <<0, 0>>

NetAndHost == {Net, HostA}
OnlyHostA == {HostA}

===============================================================================
