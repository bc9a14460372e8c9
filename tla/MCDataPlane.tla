------------------------------ MODULE MCDataPlane ------------------------------
(* A network with a host in it that is a locator, too, and a locator outside, *)
(* for DataPlane.                                                           *)
EXTENDS DataPlane

Net == <<0>>
HostA == <<0, 0>>
Outside == <<1, 1>>

NetAndHost == {Net, HostA}
OnlyHostA == {HostA}
Addresses == {HostA, Outside}

================================================================================
