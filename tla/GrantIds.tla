------------------------------- MODULE GrantIds -------------------------------
(***************************************************************************)
(* The grants and what identifies them, known to both issuing tools.       *)
(***************************************************************************)
CONSTANTS
  Grants,     \* what the issuer may sign, from a cache of evidence each
  IdsOf,      \* identities of a grant: its id, signal, trade, reservation, ...
  None        \* no grant, no packet, no path

ASSUME GrantIdsAssumption ==
  /\ None \notin Grants
  /\ \A g \in Grants : IdsOf[g] # {}
==============================================================================
