------------------------------ MODULE PrefixTable ------------------------------
(***************************************************************************)
(* What the rib promises to the rest of lixyd, whatever its data           *)
(* structure: one value per prefix, every operation touches one of them,   *)
(* and a static value is never replaced.  (Which entry a removal hits is   *)
(* RibTree's SearchIsLongestMatch.)                                        *)
(***************************************************************************)

CONSTANT Prefix  \* prefixes, as sequences of bits

VARIABLE table  \* table[p]: "none", "static" or "timed" (any other state)

Init == table = [p \in Prefix |-> "none"]

Put(p, v) == table[p] # "static" /\ table' = [table EXCEPT ![p] = v]

Take(p) == table[p] # "none" /\ table' = [table EXCEPT ![p] = "none"]

Next == \E p \in Prefix : Take(p) \/ \E v \in {"static", "timed"} : Put(p, v)

Spec == Init /\ [][Next]_table

===============================================================================
