----------------------------- MODULE GrantIssuance -----------------------------
(***************************************************************************)
(* The capital firewall's grant issuer (capital_firewall_grant_issuer_v1): *)
(* command lines that sign a grant from a cache of verified evidence,      *)
(* claim its identities in a database and then publish two files, grant    *)
(* and receipt.  Signing is a step of its own; the database's transaction  *)
(* and each hard link are atomic; a process may die between any two steps. *)
(***************************************************************************)
EXTENDS Naturals, GrantIds

CONSTANTS
  Issuers,    \* processes that may run the issuer at the same time
  GrantOuts   \* output paths the operators name; the receipt's goes along

VARIABLES
  gregistry,  \* the registry file: not there, unusable, ready
  granted,    \* the grants of its rows
  gcall,      \* what each process is doing
  gfile,      \* the grant at each output path
  published   \* how often each grant has been published

gvars == <<gregistry, granted, gcall, gfile, published>>

GIdle == [step |-> "idle", grant |-> None, out |-> None]
GSteps == {"built", "claimed", "linked"}

GTypeOK ==
  /\ gregistry \in {"absent", "broken", "ready"}
  /\ granted \subseteq Grants
  /\ gcall \in [Issuers ->
       {GIdle} \union [step : GSteps, grant : Grants, out : GrantOuts]]
  /\ gfile \in [GrantOuts -> Grants \union {None}]
  /\ published \in [Grants -> Nat]

GInit ==
  /\ gregistry = "absent"
  /\ granted = {}
  /\ gcall = [i \in Issuers |-> GIdle]
  /\ gfile = [o \in GrantOuts |-> None]
  /\ published = [g \in Grants |-> 0]

------------------------------------------------------------------------------
(* initialize_registry creates the file, which must not exist, and fills   *)
(* it; a failure removes what it created, dying in between leaves a file   *)
(* that no run of it will ever replace.                                    *)
InitializeGrantRegistry ==
  /\ gregistry = "absent"
  /\ gregistry' \in {"broken", "ready"}
  /\ UNCHANGED <<granted, gcall, gfile, published>>

(* The checks of issue_grant_from_cache_files and build_signed_grant: the  *)
(* paths are free, cache and sources verify.                               *)
Build(i, g, o) ==
  /\ gcall[i] = GIdle
  /\ gfile[o] = None
  /\ gcall' = [gcall EXCEPT ![i] = [step |-> "built", grant |-> g, out |-> o]]
  /\ UNCHANGED <<gregistry, granted, gfile, published>>

(* Mutant: the table does not have UNIQUE on trade_id and the rest.        *)
Unclaimed_ById(g) == g \notin granted

(* The UNIQUE columns of issued_grants.                                    *)
Unclaimed(g) == \A h \in granted : IdsOf[g] \intersect IdsOf[h] = {}

(* record_grant_issuance                                                   *)
ClaimGrant(i) ==
  /\ gcall[i].step = "built"
  /\ gregistry = "ready" /\ Unclaimed(gcall[i].grant)
  /\ granted' = granted \union {gcall[i].grant}
  /\ gcall' = [gcall EXCEPT ![i].step = "claimed"]
  /\ UNCHANGED <<gregistry, gfile, published>>

(* _write_pair_new: the staged grant is linked to a path that must be free.*)
LinkGrant(i) ==
  LET o == gcall[i].out IN
  /\ gcall[i].step = "claimed"
  /\ gfile[o] = None
  /\ gfile' = [gfile EXCEPT ![o] = gcall[i].grant]
  /\ published' = [published EXCEPT ![gcall[i].grant] = @ + 1]
  /\ gcall' = [gcall EXCEPT ![i].step = "linked"]
  /\ UNCHANGED <<gregistry, granted>>

(* The receipt cannot be linked: what was published is removed again.      *)
RollBack(i) ==
  /\ gcall[i].step = "linked"
  /\ gfile' = [gfile EXCEPT ![gcall[i].out] = None]
  /\ gcall' = [gcall EXCEPT ![i] = GIdle]
  /\ UNCHANGED <<gregistry, granted, published>>

(* The issuer ends: after its receipt is linked too; or refused, failed or *)
(* dead at any step, with nothing undone and the claim standing.           *)
GEnd(i) ==
  /\ gcall[i].step \in GSteps
  /\ gcall' = [gcall EXCEPT ![i] = GIdle]
  /\ UNCHANGED <<gregistry, granted, gfile, published>>

(* Operators move a published pair elsewhere once its issuer has ended.    *)
Archive(o) ==
  /\ \A i \in Issuers : gcall[i].step = "linked" => gcall[i].out # o
  /\ gfile' = [gfile EXCEPT ![o] = None]
  /\ UNCHANGED <<gregistry, granted, gcall, published>>

GNext ==
  \/ InitializeGrantRegistry
  \/ \E i \in Issuers :
       \/ \E g \in Grants, o \in GrantOuts : Build(i, g, o)
       \/ ClaimGrant(i) \/ LinkGrant(i) \/ RollBack(i) \/ GEnd(i)
  \/ \E o \in GrantOuts : Archive(o)

GSpec == GInit /\ [][GNext]_gvars
------------------------------------------------------------------------------
OneTimeGrant == INSTANCE OneTimeIssue WITH
  Items <- Grants, claimed <- granted, issued <- published

(* Whatever issuers race, fail or die, and whatever paths they are given,  *)
(* a grant is published after its identities were claimed, once, and no    *)
(* other grant for its signal, trade, reservation or authorization is.     *)
GrantsAreOneTime == OneTimeGrant!Spec
==============================================================================
