--------------------------------- MODULE Sites ---------------------------------
(***************************************************************************)
(* What lixyctl's "eid" commands promise: a table of sites by name, each   *)
(* with a key and a set of prefixes, and an answer to every command.       *)
(* SiteConfig implements it.                                               *)
(***************************************************************************)
EXTENDS FiniteSets

CONSTANTS
  SiteName,    \* the names the daemon tells apart
  EidPrefix,
  Key,         \* the keys it takes, NoKey among them
  NoKey

VARIABLES
  sites,   \* sites[n]: the site called n, NoSite without one
  answer   \* to the last command, "none" when the last step was none

vars == <<sites, answer>>

NoSite == [site |-> "none"]
Known == {n \in SiteName : sites[n] # NoSite}

Init == sites = [n \in SiteName |-> NoSite] /\ answer = "none"

Refuse(code) == answer' = code /\ UNCHANGED sites
Accept(n, site) == answer' = "SUCCESS" /\ sites' = [sites EXCEPT ![n] = site]

Create(n) == IF n \in Known THEN Refuse("EID_EXISTS")
             ELSE Accept(n, [key |-> NoKey, prefixes |-> {}])

Delete(n) == n \in Known /\ Accept(n, NoSite)

SetKey(n, k) == n \in Known /\ Accept(n, [sites[n] EXCEPT !.key = k])

AddPrefix(n, p) ==
  /\ n \in Known
  /\ IF p \in sites[n].prefixes THEN Refuse("ADDRESS_EXISTS")
     ELSE Accept(n, [sites[n] EXCEPT !.prefixes = @ \cup {p}])

RemovePrefix(n, p) ==
  /\ n \in Known
  /\ IF p \notin sites[n].prefixes THEN Refuse("ADDRESS_DOES_NOT_EXISTS")
     ELSE Accept(n, [sites[n] EXCEPT !.prefixes = @ \ {p}])

Unknown(n) == n \notin Known /\ Refuse("EID_DOES_NOT_EXISTS")

\* A refusal for another reason, and the steps that are no command.
Other == \E code \in {"none", "INVALID_ADDRESS", "AUTHKEY_TOO_LONG"} : Refuse(code)

Next ==
  \/ Other
  \/ \E n \in SiteName :
       \/ Create(n) \/ Delete(n) \/ Unknown(n)
       \/ \E k \in Key : SetKey(n, k)
       \/ \E p \in EidPrefix : AddPrefix(n, p) \/ RemovePrefix(n, p)

Spec == Init /\ [][Next]_vars

===============================================================================
