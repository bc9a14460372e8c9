----------------------------- MODULE MCSiteConfig -----------------------------
(* Small sites for SiteConfig.                                              *)
EXTENDS SiteConfig, TLC

\* Short names are kept whole; the register thread does not look at them.
Whole == [n \in Name |-> n]
NameSymmetry == Permutations(Name)

\* Two names that are alike in their first bytes.
LongNames == {"branch-office-nr-1", "branch-office-nr-2"}
FirstBytes == [n \in LongNames |-> "branch-office-nr"]
ShortNames == Range(FirstBytes)

===============================================================================
