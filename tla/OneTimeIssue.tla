----------------------------- MODULE OneTimeIssue -----------------------------
(***************************************************************************)
(* What the two issuing tools promise, without their files and databases:  *)
(* an item is claimed before it is issued, claims on a common identity     *)
(* exclude each other for ever, and what is claimed is issued once or not  *)
(* at all.                                                                 *)
(***************************************************************************)
EXTENDS Naturals

CONSTANTS
  Items,      \* what may be issued: grants, or signed admission requests
  IdsOf       \* the identities an item uses up: signal, reservation, ...

VARIABLES
  claimed,    \* items whose identities are used up
  issued      \* how often each item has been issued

Apart(i, j) == IdsOf[i] \intersect IdsOf[j] = {}

Init ==
  /\ claimed = {}
  /\ issued = [i \in Items |-> 0]

Claim(i) ==
  /\ \A j \in claimed : Apart(i, j)
  /\ claimed' = claimed \union {i}
  /\ UNCHANGED issued

Issue(i) ==
  /\ i \in claimed /\ issued[i] = 0
  /\ issued' = [issued EXCEPT ![i] = 1]
  /\ UNCHANGED claimed

Next == \E i \in Items : Claim(i) \/ Issue(i)

Spec == Init /\ [][Next]_<<claimed, issued>>
==============================================================================
