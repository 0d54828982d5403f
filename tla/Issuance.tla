------------------------------- MODULE Issuance -------------------------------
(***************************************************************************)
(* From evidence to an admission request: the grant issuer, the promotion  *)
(* attestor that signs what a grant file says, and the admission provider, *)
(* whose packets carry that attestation.  Each tool keeps a registry of    *)
(* its own, and the only thing they share is files.                        *)
(***************************************************************************)
EXTENDS GrantIssuance, AdmissionIssuance

VARIABLE
  attested    \* grants the attestor has read and signed

vars == <<gvars, avars, attested>>

TypeOK == GTypeOK /\ ATypeOK /\ attested \subseteq Grants

Init == GInit /\ AInit /\ attested = {}

(* run_attestor reads one grant file; it may do so while the issuer is     *)
(* still publishing, and for a pair that is rolled back afterwards.        *)
Attest(o) ==
  /\ gfile[o] # None
  /\ attested' = attested \union {gfile[o]}
  /\ UNCHANGED <<gvars, avars>>

(* A packet verifies only with an attestation of its grant.                *)
AttestedSign(i) ==
  /\ Sign(i)
  /\ GrantOf[call[i].packet] \in attested

GrantStep == GNext /\ UNCHANGED <<avars, attested>>

AdmissionStep ==
  /\ \/ InitializeRegistry
     \/ \E p \in Packets : Arrive(p)
     \/ \E o \in Outs : Collect(o)
     \/ Start \/ StopService \/ Read \/ LeaveAlone \/ Attempt
     \/ \E c \in Clis, p \in Packets, o \in CliOuts : Invoke(c, p, o)
     \/ \E i \in Callers : AttestedSign(i) \/ Claim(i) \/ Write(i) \/ Return(i)
  /\ UNCHANGED <<gvars, attested>>

Next == GrantStep \/ (\E o \in GrantOuts : Attest(o)) \/ AdmissionStep

Spec == Init /\ [][Next]_vars
------------------------------------------------------------------------------
(* End to end: two requests never concern the same trade, signal,          *)
(* reservation or authorization.  The admission registry does not make     *)
(* trades unique; that no second request for a trade gets through rests on *)
(* the grant registry, and on nobody reading a grant before it is claimed. *)
OneRequestPerTrade ==
  \A p, q \in Packets :
    issued[p] > 0 /\ issued[q] > 0 /\ p # q
      => IdsOf[GrantOf[p]] \intersect IdsOf[GrantOf[q]] = {}
==============================================================================
