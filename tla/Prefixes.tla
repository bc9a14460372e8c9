------------------------------- MODULE Prefixes -------------------------------
(***************************************************************************)
(* Address prefixes and longest match.  A prefix is the sequence of its    *)
(* first bitlen bits (patricia.h, prefix_t); a host is a prefix of full    *)
(* length.  Of which family it is the bits do not say (DualStack).         *)
(***************************************************************************)
EXTENDS Integers, Sequences, SequencesExt

\* comp_with_mask: the first bitlen(p) bits of q are those of p.
Covers(p, q) == IsPrefix(p, q)

StrictlyCovers(p, q) == Covers(p, q) /\ p # q

Comparable(p, q) == Covers(p, q) \/ Covers(q, p)

\* The members of T an address or prefix p falls under, p included.
Covering(T, p) == {q \in T : Covers(q, p)}

\* What patricia_search_best (inclusive) returns when Covering(T, p) is not
\* empty: the longest stored prefix that covers p.
LongestMatch(T, p) ==
  CHOOSE q \in Covering(T, p) : \A r \in Covering(T, p) : Len(r) <= Len(q)

===============================================================================
