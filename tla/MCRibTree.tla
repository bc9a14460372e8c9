------------------------------- MODULE MCRibTree ------------------------------
(* Small trees: every prefix of three-bit addresses without the walk, some of *)
(* the prefixes of two-bit addresses with it.                                 *)
EXTENDS RibTree

\* Prefixes with no bit set beyond the bitlen.
CleanKeys == {k \in Key : \A i \in 1..MaxBits : i > k.len => k.addr[i] = 0}

\* ... and two with such bits, at the top and one bit below it.
MixedKeys == CleanKeys \cup {[addr |-> <<1, 0, 1>>, len |-> 0],
                             [addr |-> <<0, 1, 1>>, len |-> 1]}

\* Two branches below a possible glue node at the top, one of them with a
\* possible glue node of its own.
KeyOf(bits) == CHOOSE k \in CleanKeys : PrefixOf(k) = bits
TwoBranches == {KeyOf(b) : b \in {<<0>>, <<0, 0>>, <<0, 1>>, <<1>>, <<1, 1>>}}

===============================================================================
