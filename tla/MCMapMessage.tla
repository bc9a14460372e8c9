----------------------------- MODULE MCMapMessage -----------------------------
(* Small messages for MapMessage: addresses of both families in every order,  *)
(* and locators of which two are equally preferred.                           *)
EXTENDS MapMessage

CONSTANTS a4, a6, b4, b6, c4

TwoPrefixes == {[af |-> 4, addr |-> a4], [af |-> 6, addr |-> a6]}
ThreeLocators == {[af |-> 4, addr |-> b4, priority |-> 1],
                  [af |-> 6, addr |-> b6, priority |-> 1],
                  [af |-> 4, addr |-> c4, priority |-> 2]}

===============================================================================
