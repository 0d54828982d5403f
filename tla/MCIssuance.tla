------------------------------ MODULE MCIssuance ------------------------------
(***************************************************************************)
(* Two grants for one trade and two issuers with one output path;          *)
(* packets p1 and p2 of the same grant, p3 of the other, and one that is   *)
(* junk; a service that remembers two packets, a command line beside it.   *)
(***************************************************************************)
EXTENDS Issuance, TLC

CONSTANTS g1, g2, p1, p2, p3, junk, a1, a2, trade, i1, i2

MCGrantOf == p1 :> g1 @@ p2 :> g1 @@ p3 :> g2
MCIdsOf == g1 :> {a1, trade} @@ g2 :> {a2, trade}

MCSymmetry == Permutations(Issuers) \union Permutations({p1, p2})
==============================================================================
