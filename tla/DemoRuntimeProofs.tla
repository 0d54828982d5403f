-------------------------- MODULE DemoRuntimeProofs --------------------------
(***************************************************************************)
(* Five parts.  First the capital firewall by itself, for every set of     *)
(* trades, authorizations and reservations, every cap, lifetime and clock. *)
(* IInv adds to its two properties what relates an order to the clock: it  *)
(* was never submitted in the future, so a revocation, which happens now,  *)
(* comes after every order submitted under what it revokes.                *)
(*                                                                         *)
(* Then its amounts.  The sum of the community modules is a recursion over *)
(* a finite set; what is needed of it (SumTakeOut: the term of any element *)
(* can be taken out) is shown by a smallest set for which it would fail.   *)
(* AmountInv is the two properties of the amounts with what keeps them: a  *)
(* finite number of ids is in use, and a reservation draws on an           *)
(* authorization that was issued.                                          *)
(*                                                                         *)
(* Then the firewall with the runtime beside it: what the control plane    *)
(* publishes, and how long an advisor that never reads the ledger can act  *)
(* on it, for every set of trades and advisors, every request, record age  *)
(* and clock.  RuntimeInv follows a stamp from the check it was taken at,  *)
(* through the producer or the renewal tool, into a record.  A stamp is    *)
(* never later than the revocation of its authorization nor than the last  *)
(* moment without a block, because both checks see the ledger of their     *)
(* moment and a revocation or a block only ever comes now.                 *)
(*                                                                         *)
(* Then the amounts again, now with the runtime, which grants and reserves *)
(* at times that its run read when it began.  GrantsInv says that no grant *)
(* is younger than the run that has the ledger, so what is in force when a *)
(* run grants was in force when its request was signed.                    *)
(*                                                                         *)
(* Last what an order stands on: EvidenceInv follows it back, from the     *)
(* position to the attempt key, the envelope, the reservation and the      *)
(* grant, each kept by somebody else.                                      *)
(***************************************************************************)
EXTENDS DemoRuntime, TLAPS, FiniteSetTheorems

(* An event that the journal takes keeps the types and moves its own trade *)
(* only.                                                                   *)
LEMMA JournalTypes ==
  ASSUME JournalTypeOK, NEW t \in Trades, NEW s \in STATES \union {NoState},
         NEW ty, Journal(Ev(t, s, ty))
  PROVE  /\ JournalTypeOK'
         /\ Moves(status[t], s)
         /\ \A u \in Trades : u # t => status'[u] = status[u]
         /\ status'[t] = IF s = NoState THEN status[t] ELSE s
<1>1. /\ status \in [Trades -> STATES \union {NoState}] /\ blocked \subseteq Trades
  BY DEF JournalTypeOK
<1>2. /\ Moves(status[t], s)
      /\ status' = IF s = NoState THEN status ELSE [status EXCEPT ![t] = s]
      /\ blocked' \subseteq blocked \union {t}
  BY DEF Journal, Ev, UnresolvedAfter
<1> QED
  BY <1>1, <1>2 DEF JournalTypeOK

(* A trade that is past its submission stays past it.                      *)
LEMMA SubmittedStays ==
  ASSUME JournalTypeOK, NEW t \in Trades, NEW s \in STATES \union {NoState},
         NEW ty, Journal(Ev(t, s, ty)), Submitted(t)
  PROVE  /\ Submitted(t)'
         /\ \A u \in Trades : Submitted(u)' <=> Submitted(u)
<1>1. /\ Moves(status[t], s)
      /\ \A u \in Trades : u # t => status'[u] = status[u]
      /\ status'[t] = IF s = NoState THEN status[t] ELSE s
  BY JournalTypes
<1>2. Submitted(t)'
  BY <1>1 DEF Submitted, Moves, ALLOWED_TRANSITIONS, NoState
<1> QED
  BY <1>1, <1>2 DEF Submitted

ClockInv ==
  /\ \A t \in Trades : \A o \in used[t] : o.at <= now
  /\ \A a \in Auths : Issued(a) => auth[a].issued <= now

IInv == /\ TypeOK
        /\ ClockInv
        /\ ExecutedUnderAuthority
        /\ HeldWhileExposed

LEMMA InitIInv == Init => IInv
BY IdsAssumption, AmountsAssumption
   DEF Init, IInv, TypeOK, JournalTypeOK, ClockInv, ExecutedUnderAuthority,
       HeldWhileExposed, Submitted, Issued, Time, STATES, NoState

(* What an issued authorization looks like.                                *)
LEMMA IssuedShape ==
  ASSUME TypeOK, NEW a \in Auths
  PROVE  Issued(a) <=> auth[a] \in Authorization
<1>1. auth[a] \in {NoAuth} \union Authorization
  BY DEF TypeOK
<1>2. NoAuth \notin Authorization
  BY AmountsAssumption DEF NoAuth, Authorization
<1> QED
  BY <1>1, <1>2 DEF Issued

LEMMA IssueKeepsIInv ==
  ASSUME IInv, NEW a \in Auths, NEW risk \in Risks, NEW issued \in Time,
         NEW life \in Lifetimes, Issue(a, risk, issued, life)
  PROVE  IInv'
<1> DEFINE new == [risk |-> risk, issued |-> issued, served |-> now,
                   expires |-> issued + life, revoked |-> {}]
<1>1. /\ auth' = [auth EXCEPT ![a] = new] /\ ~Issued(a)
      /\ UNCHANGED <<status, blocked, now, amount, released, envelopes, used>>
  BY DEF Issue
<1>2. new \in Authorization
  BY AmountsAssumption DEF IInv, TypeOK, Authorization, Time
<1>3. TypeOK'
  BY <1>1, <1>2 DEF IInv, TypeOK, JournalTypeOK
<1>4. ExecutedUnderAuthority'
  <2>1. ASSUME NEW t \in Trades, NEW o \in used[t]
        PROVE  AuthOf[o.res] # a /\ auth'[AuthOf[o.res]] = auth[AuthOf[o.res]]
    <3>1. AuthOf[o.res] \in Auths /\ Issued(AuthOf[o.res])
      BY <2>1, IdsAssumption DEF IInv, TypeOK, ExecutedUnderAuthority, Order
    <3> QED
      BY <1>1, <3>1 DEF IInv, TypeOK
  <2> QED
    BY <1>1, <2>1 DEF IInv, ExecutedUnderAuthority, Issued, Submitted
<1>5. ClockInv'
  <2>1. issued <= now
    BY DEF Issue
  <2> QED
    BY <1>1, <2>1 DEF IInv, TypeOK, ClockInv, Issued
<1> QED
  BY <1>1, <1>3, <1>4, <1>5 DEF IInv, HeldWhileExposed

LEMMA RevokeKeepsIInv ==
  ASSUME IInv, NEW a \in Auths, Revoke(a)
  PROVE  IInv'
<1>1. /\ auth' = [auth EXCEPT ![a].revoked = {now}] /\ Issued(a)
      /\ UNCHANGED <<status, blocked, now, amount, released, envelopes, used>>
  BY DEF Revoke
<1>2. /\ auth[a] \in Authorization
      /\ auth' = [auth EXCEPT ![a] = [auth[a] EXCEPT !.revoked = {now}]]
      /\ now \in Time
  BY <1>1, IssuedShape DEF IInv, TypeOK
<1>3. /\ auth'[a] \in Authorization
      /\ auth'[a].issued = auth[a].issued /\ auth'[a].expires = auth[a].expires
      /\ auth'[a].revoked = {now}
  BY <1>2 DEF IInv, TypeOK, Authorization
<1>4. TypeOK'
  BY <1>1, <1>2, <1>3 DEF IInv, TypeOK, JournalTypeOK
<1>5. ExecutedUnderAuthority'
  <2>1. ASSUME NEW t \in Trades, NEW o \in used[t]
        PROVE  LET b == AuthOf[o.res] IN
               /\ TradeOf[b] = t /\ Issued(b)'
               /\ auth'[b].issued <= o.at /\ o.at < auth'[b].expires
               /\ \A at \in auth'[b].revoked : o.at <= at
    <3> DEFINE b == AuthOf[o.res]
    <3>1. b \in Auths
      BY <2>1, IdsAssumption DEF IInv, TypeOK, Order
    <3>2. /\ TradeOf[b] = t /\ Issued(b)
          /\ auth[b].issued <= o.at /\ o.at < auth[b].expires
          /\ \A at \in auth[b].revoked : o.at <= at
      BY <2>1 DEF IInv, ExecutedUnderAuthority
    <3>3. o.at <= now
      BY <2>1 DEF IInv, ClockInv
    <3>4. CASE b = a
      <4>1. Issued(a)'
        BY <1>3, <1>4, IssuedShape, AmountsAssumption DEF Issued, NoAuth, Authorization
      <4> QED
        BY <3>2, <3>3, <3>4, <4>1, <1>3
    <3>5. CASE b # a
      <4>1. auth'[b] = auth[b]
        BY <3>1, <3>5, <1>2 DEF IInv, TypeOK
      <4> QED
        BY <3>2, <4>1 DEF Issued
    <3> QED
      BY <3>4, <3>5
  <2>2. \A t \in Trades : Submitted(t)' <=> used'[t] # {}
    BY <1>1 DEF IInv, ExecutedUnderAuthority, Submitted
  <2> QED
    BY <1>1, <2>1, <2>2 DEF ExecutedUnderAuthority
<1>6. ClockInv'
  BY <1>1, <1>2, <1>3 DEF IInv, TypeOK, ClockInv, Issued
<1> QED
  BY <1>1, <1>4, <1>5, <1>6 DEF IInv, HeldWhileExposed

(* Operations on reservations leave orders and authorizations alone, and   *)
(* a release does not touch a reservation that an exposed order holds.     *)
LEMMA ReservationsKeepIInv ==
  ASSUME IInv, NEW r \in Reservations,
         \/ \E n \in Risks : Reserve(r, n)
         \/ BuildEnvelope(r) \/ ReleasePreExecution(r) \/ Release(r)
  PROVE  IInv'
<1>1. /\ UNCHANGED <<status, blocked, now, auth, used>>
      /\ TypeOK'
  <2>1. CASE \E n \in Risks : Reserve(r, n)
    BY <2>1 DEF Reserve, IInv, TypeOK, JournalTypeOK
  <2>2. CASE BuildEnvelope(r) \/ ReleasePreExecution(r) \/ Release(r)
    BY <2>2 DEF BuildEnvelope, ReleasePreExecution, Release, IInv, TypeOK, JournalTypeOK
  <2> QED
    BY <2>1, <2>2
<1>2. ClockInv' /\ ExecutedUnderAuthority'
  BY <1>1 DEF IInv, ClockInv, ExecutedUnderAuthority, Submitted, Issued
<1>3. HeldWhileExposed'
  <2>1. ASSUME NEW t \in Trades, status[t] \notin {"CLOSED", "RECONCILED"},
               NEW o \in used[t]
        PROVE  amount'[o.res] > 0 /\ o.res \notin released'
    <3>1. /\ amount[o.res] > 0 /\ o.res \notin released
          /\ o.res \in Reservations /\ TradeOf[AuthOf[o.res]] = t
          /\ Submitted(t)
      BY <2>1 DEF IInv, TypeOK, Order, HeldWhileExposed, ExecutedUnderAuthority
    <3>2. CASE \E n \in Risks : Reserve(r, n)
      BY <3>1, <3>2 DEF Reserve, IInv, TypeOK
    <3>3. CASE BuildEnvelope(r)
      BY <3>1, <3>3 DEF BuildEnvelope
    <3>4. CASE ReleasePreExecution(r)
      BY <2>1, <3>1, <3>4 DEF ReleasePreExecution
    <3>5. CASE Release(r)
      BY <2>1, <3>1, <3>5 DEF Release
    <3> QED
      BY <3>2, <3>3, <3>4, <3>5
  <2> QED
    BY <1>1, <2>1 DEF HeldWhileExposed
<1> QED
  BY <1>1, <1>2, <1>3 DEF IInv

LEMMA SubmitKeepsIInv ==
  ASSUME IInv, NEW r \in Reservations, Submit(r)
  PROVE  IInv'
<1> DEFINE a == AuthOf[r]
           t == TradeOf[a]
           o == [res |-> r, at |-> now]
<1>1. /\ a \in Auths /\ t \in Trades
      /\ Journal(Ev(t, "ORDER_SUBMITTED", "ORDER_SUBMITTED"))
      /\ used' = [used EXCEPT ![t] = used[t] \union {o}]
      /\ UNCHANGED <<now, auth, amount, released, envelopes>>
      /\ Current(a) /\ Reserved(r) /\ status[t] = "AUTHORIZED"
  BY IdsAssumption DEF Submit, Admitted, ExecutionAllowed
<1>2. /\ JournalTypeOK'
      /\ \A u \in Trades : u # t => status'[u] = status[u]
      /\ status'[t] = "ORDER_SUBMITTED"
  <2>1. "ORDER_SUBMITTED" \in STATES /\ "ORDER_SUBMITTED" # NoState
    BY DEF STATES, NoState
  <2> QED
    BY <1>1, <2>1, JournalTypes DEF IInv, TypeOK
<1>3. o \in Order /\ used[t] = {}
  <2>1. ~Submitted(t)
    BY <1>1 DEF Submitted
  <2> QED
    BY <1>1, <2>1 DEF IInv, TypeOK, ExecutedUnderAuthority, Order
<1>4. used'[t] = {o} /\ \A u \in Trades : u # t => used'[u] = used[u]
  BY <1>1, <1>3 DEF IInv, TypeOK
<1>5. TypeOK'
  BY <1>1, <1>2, <1>3 DEF IInv, TypeOK
<1>6. ClockInv'
  BY <1>1, <1>4 DEF IInv, ClockInv, TypeOK, Time, Issued
<1>7. ExecutedUnderAuthority'
  <2>1. /\ TradeOf[AuthOf[o.res]] = t /\ Issued(a)
        /\ auth[a].revoked = {} /\ o.at = now /\ now < auth[a].expires
    <3>1. auth[a] \in Authorization /\ now \in Time
      BY <1>1, IssuedShape DEF IInv, TypeOK, Current
    <3> QED
      BY <1>1, <3>1 DEF Current, Revoked, Expired, Authorization, Time
  <2>2. auth[a].issued <= now
    BY <1>1 DEF IInv, ClockInv, Current
  <2>3. Submitted(t)'
    BY <1>2 DEF Submitted, NoState
  <2>4. \A u \in Trades : u # t => (Submitted(u)' <=> Submitted(u))
    BY <1>2 DEF Submitted
  <2>5. ASSUME NEW u \in Trades, u # t
        PROVE  /\ Submitted(u)' <=> used'[u] # {}
               /\ \A p \in used'[u] : LET b == AuthOf[p.res] IN
                    /\ TradeOf[b] = u /\ Issued(b)'
                    /\ auth'[b].issued <= p.at /\ p.at < auth'[b].expires
                    /\ \A at \in auth'[b].revoked : p.at <= at
    BY <1>1, <1>4, <2>4, <2>5 DEF IInv, ExecutedUnderAuthority, Issued
  <2>6. /\ Submitted(t)' <=> used'[t] # {}
        /\ \A p \in used'[t] : LET b == AuthOf[p.res] IN
             /\ TradeOf[b] = t /\ Issued(b)'
             /\ auth'[b].issued <= p.at /\ p.at < auth'[b].expires
             /\ \A at \in auth'[b].revoked : p.at <= at
    <3>1. Issued(a)' /\ auth' = auth /\ o.res = r /\ a = AuthOf[o.res]
      BY <1>1, <2>1 DEF Issued
    <3>2. \A p \in used'[t] : p = o
      BY <1>4
    <3>3. used'[t] # {}
      BY <1>4
    <3> QED
      BY <2>1, <2>2, <2>3, <3>1, <3>2, <3>3
  <2> QED
    BY <2>5, <2>6 DEF ExecutedUnderAuthority
<1>8. HeldWhileExposed'
  BY <1>1, <1>2, <1>4 DEF IInv, HeldWhileExposed, Reserved
<1> QED
  BY <1>5, <1>6, <1>7, <1>8 DEF IInv

LEMMA OutcomeKeepsIInv ==
  ASSUME IInv, NEW t \in Trades, Outcome(t)
  PROVE  IInv'
<1>1. PICK s \in STATES \union {NoState} : \E ty : Journal(Ev(t, s, ty))
  BY DEF Outcome, OutcomeEvents
<1>2. UNCHANGED <<now, auth, amount, released, envelopes, used>> /\ Submitted(t)
  BY DEF Outcome, capital
<1>3. /\ JournalTypeOK' /\ Moves(status[t], s)
      /\ \A u \in Trades : u # t => status'[u] = status[u]
      /\ status'[t] = IF s = NoState THEN status[t] ELSE s
  BY <1>1, JournalTypes DEF IInv, TypeOK
<1>4. \A u \in Trades : Submitted(u)' <=> Submitted(u)
  BY <1>1, <1>2, SubmittedStays DEF IInv, TypeOK
<1>5. TypeOK' /\ ClockInv' /\ ExecutedUnderAuthority'
  BY <1>2, <1>3, <1>4
     DEF IInv, TypeOK, ClockInv, ExecutedUnderAuthority, Issued
<1>6. ASSUME NEW u \in Trades, status'[u] \notin {"CLOSED", "RECONCILED"}
      PROVE  status[u] \notin {"CLOSED", "RECONCILED"}
  BY <1>3, <1>6 DEF Moves, ALLOWED_TRANSITIONS, NoState
<1>7. HeldWhileExposed'
  BY <1>2, <1>6 DEF IInv, HeldWhileExposed
<1> QED
  BY <1>5, <1>7 DEF IInv

LEMMA AuthorizeKeepsIInv ==
  ASSUME IInv, NEW a \in Auths, Authorize(a)
  PROVE  IInv'
<1> DEFINE t == TradeOf[a]
<1>1. /\ t \in Trades /\ status[t] = "RISK_RESERVED"
      /\ Journal(Ev(t, "AUTHORIZED", "TRADE_AUTHORIZED"))
      /\ UNCHANGED <<now, auth, amount, released, envelopes, used>>
  BY IdsAssumption DEF Authorize, capital
<1>2. /\ JournalTypeOK'
      /\ \A u \in Trades : u # t => status'[u] = status[u]
      /\ status'[t] = "AUTHORIZED"
  <2>1. "AUTHORIZED" \in STATES /\ "AUTHORIZED" # NoState
    BY DEF STATES, NoState
  <2> QED
    BY <1>1, <2>1, JournalTypes DEF IInv, TypeOK
<1>3. \A u \in Trades : Submitted(u)' <=> Submitted(u)
  BY <1>1, <1>2 DEF Submitted
<1>4. TypeOK' /\ ClockInv' /\ ExecutedUnderAuthority'
  BY <1>1, <1>2, <1>3
     DEF IInv, TypeOK, ClockInv, ExecutedUnderAuthority, Issued
<1>5. HeldWhileExposed'
  BY <1>1, <1>2 DEF IInv, HeldWhileExposed
<1> QED
  BY <1>4, <1>5 DEF IInv

LEMMA NextIInv == IInv /\ [Next]_vars => IInv'
<1> SUFFICES ASSUME IInv, [Next]_vars PROVE IInv'
  OBVIOUS
<1>1. CASE Tick
  <2>1. now' = now + 1 /\ now' \in Time /\ now \in Nat
    BY <1>1, AmountsAssumption DEF Tick, IInv, TypeOK, Time
  <2>2. UNCHANGED <<status, blocked, auth, amount, released, envelopes, used>>
    BY <1>1 DEF Tick, capital
  <2>3. TypeOK'
    BY <2>1, <2>2 DEF IInv, TypeOK, JournalTypeOK
  <2>4. ClockInv'
    <3>1. \A t \in Trades : \A o \in used[t] : o.at \in Nat
      BY DEF IInv, TypeOK, Order, Time
    <3>2. \A a \in Auths : Issued(a) => auth[a].issued \in Nat
      BY IssuedShape DEF IInv, Authorization, Time
    <3> QED
      BY <2>1, <2>2, <3>1, <3>2 DEF IInv, ClockInv, Issued
  <2> QED
    BY <2>2, <2>3, <2>4
       DEF IInv, ExecutedUnderAuthority, HeldWhileExposed, Submitted, Issued
<1>2. CASE UNCHANGED vars
  BY <1>2 DEF vars, capital, IInv, TypeOK, JournalTypeOK, ClockInv,
              ExecutedUnderAuthority, HeldWhileExposed, Submitted, Issued
<1> QED
  BY <1>1, <1>2, IssueKeepsIInv, AuthorizeKeepsIInv, RevokeKeepsIInv,
     ReservationsKeepIInv, SubmitKeepsIInv, OutcomeKeepsIInv DEF Next

(* The firewall's invariant holds in every state.                          *)
THEOREM AuthorityInvariant == Spec => []IInv
BY InitIInv, NextIInv, PTL DEF Spec

(* The firewall's events keep their types.                                 *)
THEOREM FirewallTypeCorrect == Spec => []TypeOK
<1>1. IInv => TypeOK
  BY DEF IInv
<1> QED
  BY <1>1, AuthorityInvariant, PTL

(* No order is ever submitted without an authorization of its trade that   *)
(* is neither expired nor revoked at that moment.                          *)
THEOREM NoOrderWithoutAuthority == Spec => []ExecutedUnderAuthority
<1>1. IInv => ExecutedUnderAuthority
  BY DEF IInv
<1> QED
  BY <1>1, AuthorityInvariant, PTL

(* The capital of an exposed trade is never released.                      *)
THEOREM CapitalIsHeld == Spec => []HeldWhileExposed
<1>1. IInv => HeldWhileExposed
  BY DEF IInv
<1> QED
  BY <1>1, AuthorityInvariant, PTL

(* While any outcome is unresolved nothing adds risk.                      *)
THEOREM NoRiskWhileBlocked == Spec => BlockedAddsNoRisk
<1> DEFINE Quiet ==
      /\ \A a \in Auths : ~Issued(a) => ~Issued(a)'
      /\ \A r \in Reservations : amount'[r] = amount[r]
      /\ \A t \in Trades : Submitted(t)' => Submitted(t)
      /\ envelopes' = envelopes
<1>1. ASSUME IInv, Next, blocked # {}
      PROVE  Quiet
  <2>1. CASE Tick
    BY <2>1 DEF Tick, capital, Submitted, Issued
  <2>2. CASE \E t \in Trades : Outcome(t)
    <3>1. PICK t \in Trades : Outcome(t)
      BY <2>2
    <3>2. UNCHANGED <<auth, amount, envelopes>> /\ Submitted(t)
      BY <3>1 DEF Outcome, capital
    <3>3. PICK s \in STATES \union {NoState} : \E ty : Journal(Ev(t, s, ty))
      BY <3>1 DEF Outcome, OutcomeEvents
    <3>4. \A u \in Trades : Submitted(u)' <=> Submitted(u)
      BY <3>2, <3>3, SubmittedStays, <1>1 DEF IInv, TypeOK
    <3> QED
      BY <3>2, <3>4 DEF Issued
  <2> QED
    BY <1>1, <2>1, <2>2
       DEF Next, RiskAllowed, Issue, Authorize, Revoke, Reserve, BuildEnvelope,
           ExecutionAllowed, Submit, Admitted, ReleasePreExecution, Release
<1>2. IInv /\ [Next]_vars => [blocked # {} => Quiet]_vars
  BY <1>1
<1> QED
  BY <1>2, AuthorityInvariant, PTL DEF Spec, BlockedAddsNoRisk
------------------------------------------------------------------------------
(* Sums over finite sets, as the community modules compute them.           *)

(* A non-empty set of finite sets has one that contains no other of them.  *)
LEMMA MinimalSet ==
  ASSUME NEW S, IsFiniteSet(S), NEW B, B \subseteq SUBSET S, B # {}
  PROVE  \E M \in B : \A N \in B : N \subseteq M => N = M
<1> DEFINE R == StrictSubsetOrdering(S)
<1>1. IsWellFoundedOn(R, SUBSET S)
  BY FS_StrictSubsetOrderingWellFounded, FS_FiniteSubsetsOfFinite
<1>2. PICK M \in B : \A N \in B : ~ (<<N, M>> \in R)
  <2> HIDE DEF R
  <2> QED
    BY <1>1, WFMin
<1>3. ASSUME NEW N \in B, N \subseteq M, N # M
      PROVE  FALSE
  BY <1>2, <1>3 DEF StrictSubsetOrdering
<1> QED
  BY <1>3

(* The element that the sum of the community modules takes out first.      *)
First(T) == CHOOSE x \in T : TRUE
Rest(T) == T \ {First(T)}

(* g is the sum of f over every subset of S.                               *)
Sums(f, S, g) ==
  g = [T \in SUBSET S |-> IF T = {} THEN 0 ELSE f[First(T)] + g[Rest(T)]]

LEMMA SumsUnique ==
  ASSUME NEW f, NEW S, IsFiniteSet(S), NEW g, NEW h, Sums(f, S, g), Sums(f, S, h)
  PROVE  g = h
<1> DEFINE B == { T \in SUBSET S : g[T] # h[T] }
<1>1. SUFFICES ASSUME B # {} PROVE FALSE
  BY DEF Sums
<1>2. PICK M \in B : \A N \in B : N \subseteq M => N = M
  <2>1. B \subseteq SUBSET S
    OBVIOUS
  <2> HIDE DEF B
  <2> QED
    BY <1>1, <2>1, MinimalSet
<1>3. M # {}
  BY <1>2 DEF Sums
<1>4. Rest(M) \in SUBSET S /\ Rest(M) \subseteq M /\ Rest(M) # M
  BY <1>2, <1>3 DEF Rest, First
<1>5. g[Rest(M)] = h[Rest(M)]
  BY <1>2, <1>4
<1>6. g[M] = f[First(M)] + g[Rest(M)] /\ h[M] = f[First(M)] + h[Rest(M)]
  BY <1>2, <1>3 DEF Sums
<1> QED
  BY <1>2, <1>5, <1>6

LEMMA SumsExist ==
  ASSUME NEW f, NEW S, IsFiniteSet(S)
  PROVE  \E g : Sums(f, S, g)
<1> DEFINE Good(T) == \E g : Sums(f, T, g)
           B == { T \in SUBSET S : ~ Good(T) }
           G(T) == CHOOSE g : Sums(f, T, g)
<1>1. SUFFICES ASSUME B # {} PROVE FALSE
  BY DEF Sums
<1>2. PICK M \in B : \A N \in B : N \subseteq M => N = M
  <2>1. B \subseteq SUBSET S
    OBVIOUS
  <2> HIDE DEF B
  <2> QED
    BY <1>1, <2>1, MinimalSet
<1>3. ASSUME NEW T \in SUBSET M, T # M
      PROVE  Sums(f, T, G(T))
  BY <1>2, <1>3
<1>4. ASSUME NEW T \in SUBSET M, T # M, NEW U \in SUBSET T
      PROVE  G(T)[U] = G(U)[U]
  <2> DEFINE h == [V \in SUBSET U |-> G(T)[V]]
  <2>1. Sums(f, T, G(T)) /\ Sums(f, U, G(U))
    BY <1>3, <1>4
  <2> HIDE DEF G
  <2>2. \A V \in SUBSET U : Rest(V) \in SUBSET U
    BY DEF Rest
  <2>3. \A V \in SUBSET U :
          G(T)[V] = IF V = {} THEN 0 ELSE f[First(V)] + G(T)[Rest(V)]
    BY <2>1, <1>4 DEF Sums
  <2>4. Sums(f, U, h)
    BY <2>2, <2>3 DEF Sums
  <2>5. IsFiniteSet(U)
    BY <1>4, FS_Subset
  <2>6. G(U) = h
    BY <2>1, <2>4, <2>5, SumsUnique
  <2> QED
    BY <2>6
<1> DEFINE top == [T \in SUBSET M |-> IF T = {} THEN 0 ELSE f[First(T)] + G(Rest(T))[Rest(T)]]
<1>5. ASSUME NEW T \in SUBSET M, T # {}
      PROVE  top[Rest(T)] = G(Rest(T))[Rest(T)]
  <2> DEFINE V == Rest(T)
  <2>1. V \in SUBSET M /\ V # M
    BY <1>5 DEF Rest, First
  <2>2. Sums(f, V, G(V))
    BY <2>1, <1>3
  <2>3. G(V)[V] = IF V = {} THEN 0 ELSE f[First(V)] + G(V)[Rest(V)]
    <3> HIDE DEF G, V
    <3> QED
      BY <2>2 DEF Sums
  <2>4. V # {} => G(V)[Rest(V)] = G(Rest(V))[Rest(V)]
    <3>1. Rest(V) \in SUBSET V
      BY DEF Rest
    <3> HIDE DEF G, V
    <3> QED
      BY <2>1, <3>1, <1>4
  <2>5. top[V] = IF V = {} THEN 0 ELSE f[First(V)] + G(Rest(V))[Rest(V)]
    <3> HIDE DEF G, V
    <3> QED
      BY <2>1
  <2> HIDE DEF G, V, top
  <2> QED
    BY <2>3, <2>4, <2>5 DEF V
<1>6. Sums(f, M, top)
  <2> HIDE DEF G
  <2> QED
    BY <1>5 DEF Sums
<1> QED
  BY <1>2, <1>6

LEMMA SumIsSums ==
  ASSUME NEW f, NEW S, IsFiniteSet(S), NEW g, Sums(f, S, g)
  PROVE  SumFunctionOnSet(f, S) = g[S]
<1>1. (CHOOSE h : Sums(f, S, h)) = g
  <2>1. Sums(f, S, CHOOSE h : Sums(f, S, h))
    OBVIOUS
  <2> QED
    BY <2>1, SumsUnique
<1> QED
  BY <1>1 DEF SumFunctionOnSet, FoldFunctionOnSet, MapThenFoldSet, Sums, Rest, First

(* The sum obeys the equation it is computed by.                           *)
LEMMA SumStep ==
  ASSUME NEW f, NEW S, IsFiniteSet(S)
  PROVE  /\ SumFunctionOnSet(f, {}) = 0
         /\ S # {} => SumFunctionOnSet(f, S) = f[First(S)] + SumFunctionOnSet(f, Rest(S))
<1>1. PICK g : Sums(f, S, g)
  BY SumsExist
<1>2. \A T \in SUBSET S : SumFunctionOnSet(f, T) = g[T]
  <2> TAKE T \in SUBSET S
  <2> DEFINE h == [U \in SUBSET T |-> g[U]]
  <2>1. \A U \in SUBSET T :
          U \in SUBSET S /\ Rest(U) \in SUBSET T
    BY DEF Rest
  <2>2. Sums(f, T, h)
    BY <1>1, <2>1 DEF Sums
  <2>3. IsFiniteSet(T)
    BY FS_Subset
  <2> QED
    BY <2>2, <2>3, SumIsSums
<1>3. SumFunctionOnSet(f, {}) = 0
  BY <1>1, <1>2 DEF Sums
<1>4. ASSUME S # {}
      PROVE  SumFunctionOnSet(f, S) = f[First(S)] + SumFunctionOnSet(f, Rest(S))
  <2>1. Rest(S) \in SUBSET S
    BY DEF Rest
  <2> QED
    BY <1>1, <1>2, <1>4, <2>1 DEF Sums
<1> QED
  BY <1>3, <1>4

LEMMA SumEmpty ==
  ASSUME NEW f
  PROVE  SumFunctionOnSet(f, {}) = 0
BY SumStep, FS_EmptySet

LEMMA RestSmaller ==
  ASSUME NEW T, T # {}
  PROVE  First(T) \in T /\ Rest(T) \subseteq T /\ Rest(T) # T
BY DEF First, Rest

LEMMA SumNat ==
  ASSUME NEW f, NEW S, IsFiniteSet(S), \A x \in S : f[x] \in Nat
  PROVE  SumFunctionOnSet(f, S) \in Nat
<1> DEFINE B == { T \in SUBSET S : SumFunctionOnSet(f, T) \notin Nat }
<1>1. SUFFICES ASSUME B # {} PROVE FALSE
  OBVIOUS
<1>2. PICK M \in B : \A N \in B : N \subseteq M => N = M
  <2>1. B \subseteq SUBSET S
    OBVIOUS
  <2> HIDE DEF B
  <2> QED
    BY <1>1, <2>1, MinimalSet
<1>3. IsFiniteSet(M) /\ M # {}
  <2>1. SumFunctionOnSet(f, {}) \in Nat
    BY SumEmpty
  <2> QED
    BY <2>1, FS_Subset
<1>4. First(M) \in S /\ Rest(M) \in SUBSET S /\ SumFunctionOnSet(f, Rest(M)) \in Nat
  BY <1>2, <1>3, RestSmaller
<1>5. SumFunctionOnSet(f, M) = f[First(M)] + SumFunctionOnSet(f, Rest(M))
  BY <1>3, SumStep
<1> QED
  BY <1>2, <1>4, <1>5

(* Any element can be taken out of a sum.                                  *)
LEMMA SumTakeOut ==
  ASSUME NEW f, NEW S, IsFiniteSet(S), \A y \in S : f[y] \in Nat, NEW x \in S
  PROVE  SumFunctionOnSet(f, S) = f[x] + SumFunctionOnSet(f, S \ {x})
<1> DEFINE Sum(T) == SumFunctionOnSet(f, T)
           B == { T \in SUBSET S : \E y \in T : Sum(T) # f[y] + Sum(T \ {y}) }
<1>1. SUFFICES ASSUME B # {} PROVE FALSE
  OBVIOUS
<1>2. PICK M \in B : \A N \in B : N \subseteq M => N = M
  <2>1. B \subseteq SUBSET S
    OBVIOUS
  <2> HIDE DEF B
  <2> QED
    BY <1>1, <2>1, MinimalSet
<1>3. PICK y \in M : Sum(M) # f[y] + Sum(M \ {y})
  OBVIOUS
<1>4. PICK c \in M : Sum(M) = f[c] + Sum(M \ {c})
  <2>1. IsFiniteSet(M) /\ M # {}
    BY FS_Subset
  <2> QED
    BY <2>1, SumStep, RestSmaller DEF Rest
<1>5. c # y
  BY <1>3, <1>4
<1>6. \A T \in SUBSET S : Sum(T) \in Nat
  BY SumNat, FS_Subset
<1>7. ASSUME NEW d \in M, NEW e \in M, d # e
      PROVE  Sum(M \ {d}) = f[e] + Sum(M \ {d, e})
  <2>1. /\ M \ {d} \in SUBSET S /\ e \in M \ {d} /\ M \ {d} # M
        /\ (M \ {d}) \ {e} = M \ {d, e}
    BY <1>7
  <2>2. M \ {d} \notin B
    BY <1>2, <2>1
  <2> QED
    BY <2>1, <2>2
<1>8. Sum(M \ {c}) = f[y] + Sum(M \ {c, y}) /\ Sum(M \ {y}) = f[c] + Sum(M \ {c, y})
  <2>1. M \ {y, c} = M \ {c, y}
    OBVIOUS
  <2> HIDE DEF B, Sum
  <2> QED
    BY <1>5, <1>7, <2>1
<1>9. Sum(M \ {c, y}) \in Nat /\ f[c] \in Nat /\ f[y] \in Nat
  BY <1>6
<1> HIDE DEF Sum, B
<1> QED
  BY <1>3, <1>4, <1>8, <1>9

(* Adding an element.                                                      *)
LEMMA SumAdd ==
  ASSUME NEW f, NEW S, IsFiniteSet(S), \A y \in S : f[y] \in Nat,
         NEW x, x \notin S, f[x] \in Nat
  PROVE  SumFunctionOnSet(f, S \union {x}) = f[x] + SumFunctionOnSet(f, S)
<1>1. IsFiniteSet(S \union {x}) /\ (S \union {x}) \ {x} = S
  BY FS_AddElement
<1>2. \A y \in S \union {x} : f[y] \in Nat
  OBVIOUS
<1> QED
  BY <1>1, <1>2, SumTakeOut

(* A sum depends on the values it adds only.                               *)
LEMMA SumSame ==
  ASSUME NEW f, NEW g, NEW S, IsFiniteSet(S), \A x \in S : f[x] = g[x]
  PROVE  SumFunctionOnSet(f, S) = SumFunctionOnSet(g, S)
<1> DEFINE B == { T \in SUBSET S : SumFunctionOnSet(f, T) # SumFunctionOnSet(g, T) }
<1>1. SUFFICES ASSUME B # {} PROVE FALSE
  OBVIOUS
<1>2. PICK M \in B : \A N \in B : N \subseteq M => N = M
  <2>1. B \subseteq SUBSET S
    OBVIOUS
  <2> HIDE DEF B
  <2> QED
    BY <1>1, <2>1, MinimalSet
<1>3. IsFiniteSet(M) /\ M # {}
  <2>1. SumFunctionOnSet(f, {}) = SumFunctionOnSet(g, {})
    BY SumEmpty
  <2> QED
    BY <2>1, FS_Subset
<1>4. /\ First(M) \in S /\ Rest(M) \in SUBSET S
      /\ SumFunctionOnSet(f, Rest(M)) = SumFunctionOnSet(g, Rest(M))
  BY <1>2, <1>3, RestSmaller
<1>5. /\ SumFunctionOnSet(f, M) = f[First(M)] + SumFunctionOnSet(f, Rest(M))
      /\ SumFunctionOnSet(g, M) = g[First(M)] + SumFunctionOnSet(g, Rest(M))
  BY <1>3, SumStep
<1> QED
  BY <1>4, <1>5

(* A sum over fewer elements is not larger.                                *)
LEMMA SumMonotone ==
  ASSUME NEW f, NEW S, IsFiniteSet(S), \A x \in S : f[x] \in Nat, NEW T \in SUBSET S
  PROVE  SumFunctionOnSet(f, T) <= SumFunctionOnSet(f, S)
<1> DEFINE Sum(U) == SumFunctionOnSet(f, U)
           B == { U \in SUBSET S : T \subseteq U /\ ~ (Sum(T) <= Sum(U)) }
<1>1. SUFFICES ASSUME B # {} PROVE FALSE
  OBVIOUS
<1>2. PICK M \in B : \A N \in B : N \subseteq M => N = M
  <2>1. B \subseteq SUBSET S
    OBVIOUS
  <2> HIDE DEF B
  <2> QED
    BY <1>1, <2>1, MinimalSet
<1>3. \A U \in SUBSET S : Sum(U) \in Nat
  BY SumNat, FS_Subset
<1>4. PICK x \in M : x \notin T
  <2>1. M # T
    BY <1>3
  <2> QED
    BY <2>1
<1>5. M \ {x} \in SUBSET S /\ T \subseteq M \ {x} /\ M \ {x} # M
  BY <1>4
<1>6. Sum(T) <= Sum(M \ {x})
  BY <1>2, <1>5
<1>7. Sum(M) = f[x] + Sum(M \ {x}) /\ f[x] \in Nat
  <2>1. IsFiniteSet(M) /\ \A y \in M : f[y] \in Nat
    BY FS_Subset
  <2> QED
    BY <2>1, SumTakeOut
<1> QED
  BY <1>3, <1>5, <1>6, <1>7
------------------------------------------------------------------------------
(* The amounts.  Only what is in the ledger is added up, and that is       *)
(* finite whatever the sets of ids are; and nothing is reserved under an   *)
(* authorization that was not issued.                                      *)

FiniteLedger ==
  /\ IsFiniteSet({ a \in Auths : Issued(a) })
  /\ IsFiniteSet({ r \in Reservations : amount[r] > 0 })

DrawnOnIssued == \A r \in Reservations : amount[r] > 0 => Issued(AuthOf[r])

AmountInv == /\ FiniteLedger
             /\ DrawnOnIssued
             /\ ReservedWithinAuthorized
             /\ PromptWithinCap

LEMMA InitAmountInv == Init => AmountInv
<1> SUFFICES ASSUME Init PROVE AmountInv
  OBVIOUS
<1>1. /\ \A a \in Auths : ~Issued(a)
      /\ \A r \in Reservations : amount[r] = 0
  BY DEF Init, Issued
<1>2. { a \in Auths : Issued(a) } = {} /\ { r \in Reservations : amount[r] > 0 } = {}
  BY <1>1
<1>3. FiniteLedger
  BY <1>2, FS_EmptySet DEF FiniteLedger
<1>4. AggregateWithinCap
  <2>1. InForceAt(now) = {}
    BY <1>1 DEF InForceAt
  <2>2. TotalAuthorizedRiskAt(now) = 0
    BY <2>1, SumEmpty DEF TotalAuthorizedRiskAt
  <2> QED
    BY <2>2, AmountsAssumption DEF AggregateWithinCap
<1> QED
  BY <1>1, <1>3, <1>4 DEF AmountInv, DrawnOnIssued, ReservedWithinAuthorized, PromptWithinCap

(* What is added up is a finite set of numbers.                            *)
LEMMA ReservedSum ==
  ASSUME TypeOK, FiniteLedger, NEW a
  PROVE  /\ IsFiniteSet(Active(a))
         /\ \A r \in Reservations : amount[r] \in Nat
         /\ Active(a) \subseteq Reservations
         /\ ActiveReservedAmount(a) \in Nat
<1>1. /\ Active(a) \subseteq { r \in Reservations : amount[r] > 0 }
      /\ Active(a) \subseteq Reservations
  BY DEF Active, Reserved
<1>2. IsFiniteSet(Active(a))
  BY <1>1, FS_Subset DEF FiniteLedger
<1>3. \A r \in Reservations : amount[r] \in Nat
  <2>1. \A r \in Reservations : amount[r] \in Risks \union {0}
    BY DEF TypeOK
  <2>2. Risks \union {0} \subseteq Nat
    BY AmountsAssumption
  <2> QED
    BY <2>1, <2>2
<1> QED
  BY <1>1, <1>2, <1>3, SumNat DEF ActiveReservedAmount

RiskOf == [a \in Auths |-> auth[a].risk]

LEMMA InForceSum ==
  ASSUME TypeOK, FiniteLedger, NEW time
  PROVE  /\ IsFiniteSet(InForceAt(time))
         /\ \A a \in InForceAt(time) : a \in Auths /\ Issued(a)
         /\ \A a \in Auths : RiskOf[a] \in Nat
         /\ TotalAuthorizedRiskAt(time) = SumFunctionOnSet(RiskOf, InForceAt(time))
<1>1. \A a \in InForceAt(time) : a \in Auths /\ Issued(a)
  BY DEF InForceAt
<1>2. IsFiniteSet(InForceAt(time))
  <2>1. InForceAt(time) \subseteq { a \in Auths : Issued(a) }
    BY <1>1
  <2> QED
    BY <2>1, FS_Subset DEF FiniteLedger
<1>3. \A a \in Auths : RiskOf[a] \in Nat
  <2> TAKE a \in Auths
  <2>1. CASE Issued(a)
    BY <2>1, IssuedShape, AmountsAssumption DEF RiskOf, Authorization
  <2>2. CASE ~Issued(a)
    BY <2>2 DEF RiskOf, NoAuth, Issued
  <2> QED
    BY <2>1, <2>2
<1> QED
  BY <1>1, <1>2, <1>3 DEF TotalAuthorizedRiskAt, RiskOf

(* When fewer authorizations are in force, at the risks they had, and what *)
(* was not prompt stays so, the cap holds on.                              *)
LEMMA CapKept ==
  ASSUME TypeOK, FiniteLedger, PromptWithinCap, Prompt' => Prompt,
         InForceAt(now)' \subseteq InForceAt(now), RiskOf' = RiskOf
  PROVE  PromptWithinCap'
<1> SUFFICES ASSUME Prompt' PROVE AggregateWithinCap'
  BY DEF PromptWithinCap
<1>1. TotalAuthorizedRiskAt(now) <= Cap
  BY DEF PromptWithinCap, AggregateWithinCap
<1>2. TotalAuthorizedRiskAt(now)' = SumFunctionOnSet(RiskOf, InForceAt(now)')
  BY DEF TotalAuthorizedRiskAt, RiskOf
<1>3. /\ SumFunctionOnSet(RiskOf, InForceAt(now)') <= SumFunctionOnSet(RiskOf, InForceAt(now))
      /\ SumFunctionOnSet(RiskOf, InForceAt(now)') \in Nat
      /\ SumFunctionOnSet(RiskOf, InForceAt(now)) \in Nat
  <2>1. /\ IsFiniteSet(InForceAt(now)) /\ \A a \in InForceAt(now) : RiskOf[a] \in Nat
        /\ IsFiniteSet(InForceAt(now)')
    BY InForceSum, FS_Subset
  <2> QED
    BY <2>1, SumMonotone, SumNat
<1> QED
  BY <1>1, <1>2, <1>3, InForceSum, AmountsAssumption DEF AggregateWithinCap

LEMMA IssueKeepsAmounts ==
  ASSUME IInv, AmountInv, NEW a \in Auths, NEW risk \in Risks, NEW issued \in Time,
         NEW life \in Lifetimes, Issue(a, risk, issued, life)
  PROVE  AmountInv'
<1> DEFINE new == [risk |-> risk, issued |-> issued, served |-> now,
                   expires |-> issued + life, revoked |-> {}]
           F == InForceAt(now)
<1>1. /\ auth' = [auth EXCEPT ![a] = new] /\ ~Issued(a)
      /\ UNCHANGED <<status, blocked, now, amount, released, envelopes, used>>
      /\ TypeOK /\ TypeOK' /\ FiniteLedger
  BY IssueKeepsIInv DEF Issue, IInv, AmountInv
<1>2. /\ auth'[a] = new /\ Issued(a)'
      /\ \A b \in Auths : b # a => auth'[b] = auth[b] /\ (Issued(b)' <=> Issued(b))
  <2>1. auth'[a] = new /\ \A b \in Auths : b # a => auth'[b] = auth[b]
    BY <1>1 DEF TypeOK
  <2>2. new # NoAuth
    BY AmountsAssumption DEF NoAuth
  <2> QED
    BY <2>1, <2>2 DEF Issued
<1>3. FiniteLedger'
  <2>1. { b \in Auths : Issued(b)' } = { b \in Auths : Issued(b) } \union {a}
    BY <1>2
  <2> QED
    BY <1>1, <2>1, FS_AddElement DEF FiniteLedger
<1>4. DrawnOnIssued'
  BY <1>1, <1>2, IdsAssumption DEF AmountInv, DrawnOnIssued
<1>5. ReservedWithinAuthorized'
  <2>1. \A b \in Auths : ActiveReservedAmount(b)' = ActiveReservedAmount(b)
    BY <1>1 DEF ActiveReservedAmount, Active, Reserved
  <2>2. ActiveReservedAmount(a) = 0
    <3>1. Active(a) = {}
      BY <1>1 DEF Active, Reserved, AmountInv, DrawnOnIssued
    <3> QED
      BY <3>1, SumEmpty DEF ActiveReservedAmount
  <2>3. 0 <= auth'[a].risk
    BY <1>2, AmountsAssumption
  <2> QED
    BY <1>2, <2>1, <2>2, <2>3 DEF AmountInv, ReservedWithinAuthorized
<1>6. PromptWithinCap'
  <2> SUFFICES ASSUME Prompt' PROVE AggregateWithinCap'
    BY DEF PromptWithinCap
  <2>1. Prompt /\ issued = now
    BY <1>2, <1>1 DEF Prompt
  <2>2. /\ TotalAuthorizedRiskAt(now) + risk <= Cap
    BY <2>1 DEF Issue
  <2>3. InForceAt(now)' \subseteq F \union {a} /\ a \notin F
    BY <1>1, <1>2 DEF InForceAt
  <2>4. /\ IsFiniteSet(F) /\ F \subseteq Auths
        /\ \A b \in F : RiskOf[b] \in Nat /\ RiskOf'[b] = RiskOf[b]
        /\ TotalAuthorizedRiskAt(now) = SumFunctionOnSet(RiskOf, F)
        /\ RiskOf'[a] = risk /\ risk \in Nat
    BY <1>1, <1>2, <2>3, InForceSum, AmountsAssumption DEF RiskOf
  <2>5. SumFunctionOnSet(RiskOf', F) = SumFunctionOnSet(RiskOf, F)
    <3> HIDE DEF F
    <3> QED
      BY <2>4, SumSame
  <2>6. /\ SumFunctionOnSet(RiskOf', F \union {a}) = risk + SumFunctionOnSet(RiskOf', F)
        /\ IsFiniteSet(F \union {a})
    <3> HIDE DEF F
    <3> QED
      BY <2>3, <2>4, SumAdd, FS_AddElement
  <2>7. /\ SumFunctionOnSet(RiskOf', InForceAt(now)') <= SumFunctionOnSet(RiskOf', F \union {a})
        /\ SumFunctionOnSet(RiskOf', InForceAt(now)') \in Nat
        /\ SumFunctionOnSet(RiskOf, F) \in Nat
    <3>1. \A b \in F \union {a} : RiskOf'[b] \in Nat
      BY <2>4
    <3>2. IsFiniteSet(InForceAt(now)')
      BY <2>3, <2>6, FS_Subset
    <3> HIDE DEF F
    <3> QED
      BY <2>3, <2>4, <2>6, <3>1, <3>2, SumMonotone, SumNat
  <2>8. TotalAuthorizedRiskAt(now)' = SumFunctionOnSet(RiskOf', InForceAt(now)')
    BY DEF TotalAuthorizedRiskAt, RiskOf
  <2> HIDE DEF F
  <2> QED
    BY <2>2, <2>4, <2>5, <2>6, <2>7, <2>8, AmountsAssumption DEF AggregateWithinCap
<1> QED
  BY <1>3, <1>4, <1>5, <1>6 DEF AmountInv

LEMMA RevokeKeepsAmounts ==
  ASSUME IInv, AmountInv, NEW a \in Auths, Revoke(a)
  PROVE  AmountInv'
<1>1. /\ auth' = [auth EXCEPT ![a].revoked = {now}] /\ Issued(a)
      /\ UNCHANGED <<status, blocked, now, amount, released, envelopes, used>>
      /\ TypeOK /\ TypeOK' /\ FiniteLedger
  BY RevokeKeepsIInv DEF Revoke, IInv, AmountInv
<1>2. /\ auth[a] \in Authorization
      /\ auth' = [auth EXCEPT ![a] = [auth[a] EXCEPT !.revoked = {now}]]
  BY <1>1, IssuedShape DEF TypeOK
<1>3. /\ auth'[a] \in Authorization /\ auth'[a].revoked = {now}
      /\ auth'[a].risk = auth[a].risk /\ auth'[a].served = auth[a].served
      /\ auth'[a].issued = auth[a].issued /\ auth'[a].expires = auth[a].expires
      /\ \A b \in Auths : b # a => auth'[b] = auth[b]
  BY <1>1, <1>2 DEF TypeOK, Authorization, Time
<1>4. \A b \in Auths : Issued(b)' <=> Issued(b)
  BY <1>1, <1>3, IssuedShape DEF Issued, NoAuth, Authorization
<1>5. RiskOf' = RiskOf
  BY <1>3 DEF RiskOf
<1>6. FiniteLedger' /\ DrawnOnIssued'
  <2>1. { b \in Auths : Issued(b)' } = { b \in Auths : Issued(b) }
    BY <1>4
  <2> QED
    BY <1>1, <1>4, <2>1, IdsAssumption DEF FiniteLedger, AmountInv, DrawnOnIssued
<1>7. ReservedWithinAuthorized'
  <2>1. \A b \in Auths : ActiveReservedAmount(b)' = ActiveReservedAmount(b)
    BY <1>1 DEF ActiveReservedAmount, Active, Reserved
  <2>2. \A b \in Auths : auth'[b].risk = auth[b].risk
    BY <1>3
  <2> QED
    BY <1>4, <2>1, <2>2 DEF AmountInv, ReservedWithinAuthorized
<1>8. PromptWithinCap'
  <2>1. Prompt' => Prompt
    BY <1>3, <1>4 DEF Prompt
  <2>2. InForceAt(now)' \subseteq InForceAt(now)
    <3>1. a \notin InForceAt(now)'
      BY <1>1, <1>3 DEF InForceAt, TypeOK, Time
    <3> QED
      BY <1>1, <1>3, <1>4, <3>1 DEF InForceAt
  <2> QED
    BY <1>1, <1>5, <2>1, <2>2, CapKept DEF AmountInv
<1> QED
  BY <1>6, <1>7, <1>8 DEF AmountInv

LEMMA ReserveKeepsAmounts ==
  ASSUME IInv, AmountInv, NEW r \in Reservations, NEW n \in Risks, Reserve(r, n)
  PROVE  AmountInv'
<1> DEFINE a == AuthOf[r]
<1>1. /\ amount' = [amount EXCEPT ![r] = n] /\ amount[r] = 0
      /\ UNCHANGED <<status, blocked, now, auth, released, envelopes, used>>
      /\ Issued(a) /\ ActiveReservedAmount(a) + n <= auth[a].risk
      /\ TypeOK /\ FiniteLedger /\ a \in Auths
  BY IdsAssumption DEF Reserve, IInv, AmountInv, Current
<1>2. /\ n \in Nat /\ n > 0 /\ amount'[r] = n
      /\ \A q \in Reservations : q # r => amount'[q] = amount[q]
  BY <1>1, AmountsAssumption DEF TypeOK
<1>3. \A b \in Auths : Issued(b)' <=> Issued(b)
  BY <1>1 DEF Issued
<1>4. FiniteLedger'
  <2>1. /\ { q \in Reservations : amount'[q] > 0 } =
             { q \in Reservations : amount[q] > 0 } \union {r}
        /\ { b \in Auths : Issued(b)' } = { b \in Auths : Issued(b) }
    BY <1>2, <1>3
  <2> QED
    BY <1>1, <2>1, FS_AddElement DEF FiniteLedger
<1>5. DrawnOnIssued'
  BY <1>1, <1>2, <1>3, IdsAssumption DEF AmountInv, DrawnOnIssued
<1>6. ASSUME NEW b \in Auths, Issued(b)
      PROVE  ActiveReservedAmount(b)' <= auth[b].risk
  <2> DEFINE A == Active(b)
  <2>1. /\ IsFiniteSet(A) /\ A \subseteq Reservations /\ r \notin A
        /\ \A q \in A : amount[q] \in Nat /\ amount'[q] = amount[q] /\ amount'[q] \in Nat
        /\ ActiveReservedAmount(b) \in Nat
    <3>1. r \notin A
      BY <1>1 DEF Active, Reserved
    <3> HIDE DEF A
    <3> QED
      BY <1>1, <1>2, <3>1, ReservedSum DEF A
  <2>2. SumFunctionOnSet(amount', A) = ActiveReservedAmount(b)
    <3>1. SumFunctionOnSet(amount', A) = SumFunctionOnSet(amount, A)
      <4> HIDE DEF A
      <4> QED
        BY <2>1, SumSame
    <3> QED
      BY <3>1 DEF ActiveReservedAmount
  <2>3. CASE b = a /\ r \notin released
    <3>1. Active(b)' = A \union {r}
      BY <1>1, <1>2, <2>3 DEF Active, Reserved
    <3>2. ActiveReservedAmount(b)' = SumFunctionOnSet(amount', A \union {r})
      BY <3>1 DEF ActiveReservedAmount
    <3>3. SumFunctionOnSet(amount', A \union {r}) = n + SumFunctionOnSet(amount', A)
      <4> HIDE DEF A
      <4> QED
        BY <1>2, <2>1, SumAdd
    <3>4. ActiveReservedAmount(b) + n <= auth[b].risk
      BY <1>1, <2>3
    <3> QED
      BY <1>2, <2>1, <2>2, <3>2, <3>3, <3>4
  <2>4. CASE ~ (b = a /\ r \notin released)
    <3>1. Active(b)' = A
      BY <1>1, <1>2, <2>4 DEF Active, Reserved
    <3>2. ActiveReservedAmount(b)' = ActiveReservedAmount(b)
      BY <2>2, <3>1 DEF ActiveReservedAmount
    <3> QED
      BY <1>6, <3>2 DEF AmountInv, ReservedWithinAuthorized
  <2> QED
    BY <2>3, <2>4
<1>7. ReservedWithinAuthorized'
  BY <1>1, <1>3, <1>6 DEF ReservedWithinAuthorized
<1>8. PromptWithinCap'
  BY <1>1 DEF AmountInv, PromptWithinCap, Prompt, AggregateWithinCap,
              TotalAuthorizedRiskAt, InForceAt, Issued
<1> QED
  BY <1>4, <1>5, <1>7, <1>8 DEF AmountInv

LEMMA ReleaseKeepsAmounts ==
  ASSUME IInv, AmountInv, UNCHANGED <<now, auth, amount>>, released \subseteq released'
  PROVE  AmountInv'
<1>1. TypeOK /\ FiniteLedger /\ \A b \in Auths : Issued(b)' <=> Issued(b)
  BY DEF IInv, AmountInv, Issued
<1>2. FiniteLedger' /\ DrawnOnIssued'
  BY DEF AmountInv, FiniteLedger, DrawnOnIssued, Issued
<1>3. ASSUME NEW b \in Auths, Issued(b)
      PROVE  ActiveReservedAmount(b)' <= auth[b].risk
  <2>1. Active(b)' \subseteq Active(b)
    BY DEF Active, Reserved
  <2>2. /\ IsFiniteSet(Active(b)) /\ IsFiniteSet(Active(b)')
        /\ \A q \in Active(b) : amount[q] \in Nat
        /\ ActiveReservedAmount(b) \in Nat
    BY <1>1, <2>1, ReservedSum, FS_Subset
  <2>3. /\ SumFunctionOnSet(amount, Active(b)') <= SumFunctionOnSet(amount, Active(b))
        /\ SumFunctionOnSet(amount, Active(b)') \in Nat
    BY <2>1, <2>2, SumMonotone, SumNat
  <2>4. /\ ActiveReservedAmount(b)' = SumFunctionOnSet(amount, Active(b)')
        /\ ActiveReservedAmount(b) = SumFunctionOnSet(amount, Active(b))
    BY DEF ActiveReservedAmount
  <2>5. ActiveReservedAmount(b) <= auth[b].risk /\ auth[b].risk \in Nat
    BY <1>1, <1>3, IssuedShape, AmountsAssumption
       DEF AmountInv, ReservedWithinAuthorized, Authorization
  <2> QED
    BY <2>2, <2>3, <2>4, <2>5
<1>4. ReservedWithinAuthorized'
  BY <1>1, <1>3 DEF ReservedWithinAuthorized
<1>5. PromptWithinCap'
  BY DEF AmountInv, PromptWithinCap, Prompt, AggregateWithinCap,
         TotalAuthorizedRiskAt, InForceAt, Issued
<1> QED
  BY <1>2, <1>4, <1>5 DEF AmountInv

LEMMA TickKeepsAmounts ==
  ASSUME IInv, AmountInv, Tick
  PROVE  AmountInv'
<1>1. /\ now' = now + 1 /\ now \in Nat /\ TypeOK /\ FiniteLedger
      /\ UNCHANGED <<status, blocked, auth, amount, released, envelopes, used>>
  BY AmountsAssumption DEF Tick, capital, IInv, TypeOK, Time, AmountInv
<1>2. FiniteLedger' /\ DrawnOnIssued' /\ ReservedWithinAuthorized'
  BY <1>1 DEF AmountInv, FiniteLedger, DrawnOnIssued, ReservedWithinAuthorized, Issued,
              ActiveReservedAmount, Active, Reserved
<1>3. InForceAt(now)' \subseteq InForceAt(now)
  <2>1. SUFFICES ASSUME NEW a \in Auths, a \in InForceAt(now)'
                 PROVE  a \in InForceAt(now)
    BY DEF InForceAt
  <2>2. /\ Issued(a) /\ now + 1 < auth[a].expires
        /\ \A at \in auth[a].revoked : at > now + 1
    BY <1>1, <2>1 DEF InForceAt, Issued
  <2>3. /\ auth[a].issued <= now /\ auth[a].issued \in Nat /\ auth[a].expires \in Nat
        /\ auth[a].revoked \subseteq Nat
    BY <1>1, <2>2, IssuedShape DEF IInv, ClockInv, Authorization, Time
  <2> QED
    BY <1>1, <2>2, <2>3 DEF InForceAt
<1>4. PromptWithinCap'
  <2>1. RiskOf' = RiskOf /\ (Prompt' => Prompt)
    BY <1>1 DEF RiskOf, Prompt, Issued
  <2> QED
    BY <1>1, <1>3, <2>1, CapKept DEF AmountInv
<1> QED
  BY <1>2, <1>4 DEF AmountInv

LEMMA NextAmountInv == IInv /\ AmountInv /\ [Next]_vars => AmountInv'
<1> SUFFICES ASSUME IInv, AmountInv, [Next]_vars PROVE AmountInv'
  OBVIOUS
<1>1. CASE \E r \in Reservations : BuildEnvelope(r) \/ Submit(r)
                                   \/ ReleasePreExecution(r) \/ Release(r)
  <2>1. UNCHANGED <<now, auth, amount>> /\ released \subseteq released'
    BY <1>1 DEF BuildEnvelope, Submit, ReleasePreExecution, Release
  <2> QED
    BY <2>1, ReleaseKeepsAmounts
<1>2. CASE (\E a \in Auths : Authorize(a)) \/ (\E t \in Trades : Outcome(t))
  <2>1. UNCHANGED <<now, auth, amount>> /\ released \subseteq released'
    BY <1>2 DEF Authorize, Outcome, capital
  <2> QED
    BY <2>1, ReleaseKeepsAmounts
<1>3. CASE UNCHANGED vars
  <2>1. UNCHANGED <<now, auth, amount>> /\ released \subseteq released'
    BY <1>3 DEF vars, capital
  <2> QED
    BY <2>1, ReleaseKeepsAmounts
<1> QED
  BY <1>1, <1>2, <1>3, TickKeepsAmounts, IssueKeepsAmounts, RevokeKeepsAmounts,
     ReserveKeepsAmounts DEF Next

(* ... and so do the amounts.                                              *)
THEOREM AmountsInvariant == Spec => []AmountInv
BY InitAmountInv, NextAmountInv, AuthorityInvariant, PTL DEF Spec

(* What is reserved under an authorization and not released never adds up  *)
(* to more than it grants.                                                 *)
THEOREM ReservationsFit == Spec => []ReservedWithinAuthorized
<1>1. AmountInv => ReservedWithinAuthorized
  BY DEF AmountInv
<1> QED
  BY <1>1, AmountsInvariant, PTL

(* As long as requests are served at the moment they were made, what is    *)
(* authorised and in force never adds up to more than the cap.             *)
THEOREM CapHoldsWhenPrompt == Spec => []PromptWithinCap
<1>1. AmountInv => PromptWithinCap
  BY DEF AmountInv
<1> QED
  BY <1>1, AmountsInvariant, PTL

------------------------------------------------------------------------------
(* The firewall with the runtime.                                          *)

QuietInv == quiet <= now /\ (blocked = {} => quiet = now)

(* At that moment the authorization was in force and nothing unresolved.   *)
Stamped(t, s) ==
  /\ Issued(t)
  /\ s <= quiet
  /\ \A at \in auth[t].revoked : s <= at

Stamps == { w \in [trade : Trades, stamp : Time] : Stamped(w.trade, w.stamp) }

StampInv ==
  /\ writer \in {None} \union Stamps
  /\ records \in [EAs -> {None} \union Stamps]

(* Nobody else writes the ledger during a run, so what its last check saw  *)
(* is still so when it publishes.                                          *)
RunInv ==
  run # None =>
    /\ run.since <= now
    /\ run.next \in {"envelope", "record"} =>
         [trade |-> run.trade, stamp |-> run.since] \in Stamps
    /\ run.next = "envelope" =>
         /\ status[run.trade] = "AUTHORIZED" /\ RiskAllowed
         /\ CurrentAt(run.trade, run.since) /\ Reserved(run.trade)

RuntimeInv == RuntimeTypeOK /\ QuietInv /\ StampInv /\ RunInv

LEMMA RuntimeInitInv == RuntimeInit => RuntimeInv
BY RequestAssumption, AmountsAssumption, OneRequestAssumption
   DEF RuntimeInit, RuntimeInv, RuntimeTypeOK, TypeOK, JournalTypeOK, QuietInv,
       StampInv, Stamps, RunInv, Time, NoState, STATES

(* The clock never runs backwards, and with it the last quiet moment.      *)
LEMMA QuietKept ==
  ASSUME RuntimeTypeOK, QuietInv, now' \in {now, now + 1}, now' \in Time, Observe
  PROVE  QuietInv' /\ quiet <= quiet' /\ now <= now' /\ quiet' \in Time
<1>1. now \in Nat /\ quiet \in Nat /\ quiet \in Time
  BY AmountsAssumption DEF RuntimeTypeOK, TypeOK, Time
<1> QED
  BY <1>1 DEF QuietInv, Observe

(* A stamp survives every step that leaves its authorization as it is.     *)
LEMMA StampedKept ==
  ASSUME RuntimeTypeOK, quiet <= quiet', quiet' \in Time,
         NEW t \in Trades, auth'[t] = auth[t], NEW s \in Time, Stamped(t, s)
  PROVE  Stamped(t, s)'
<1>1. quiet \in Nat /\ quiet' \in Nat /\ s \in Nat
  BY AmountsAssumption DEF RuntimeTypeOK, Time
<1> QED
  BY <1>1 DEF Stamped, Issued

(* A stamp is a moment, and what a run or a record is about is a trade.    *)
LEMMA RuntimeShapes ==
  ASSUME RuntimeTypeOK
  PROVE  /\ run # None => run \in [trade : Trades, next : Steps, since : Time, record : BOOLEAN]
         /\ writer # None => writer \in [trade : Trades, stamp : Time]
         /\ \A e \in EAs : records[e] # None => records[e] \in [trade : Trades, stamp : Time]
         /\ now \in Time /\ quiet \in Time /\ Time \subseteq Nat
BY AmountsAssumption DEF RuntimeTypeOK, TypeOK, Time

(* The rest of the invariant survives a step that leaves the ledger, the   *)
(* run and the records alone.                                              *)
LEMMA OthersKeepInv ==
  ASSUME RuntimeInv, RuntimeTypeOK', Observe, now' \in {now, now + 1},
         UNCHANGED <<status, blocked, capital, run, writer, records>>
  PROVE  RuntimeInv'
<1>1. /\ RuntimeTypeOK /\ QuietInv /\ StampInv /\ RunInv
      /\ now' \in Time
  BY DEF RuntimeInv, RuntimeTypeOK, TypeOK
<1>2. QuietInv' /\ quiet <= quiet' /\ now <= now' /\ quiet' \in Time
  BY <1>1, QuietKept
<1>3. Stamps \subseteq Stamps'
  BY <1>1, <1>2, StampedKept DEF Stamps, capital
<1>4. StampInv'
  BY <1>1, <1>3 DEF StampInv
<1>5. RunInv'
  <2> SUFFICES ASSUME run # None PROVE RunInv'
    BY DEF RunInv
  <2>1. /\ run.trade \in Trades /\ run.since \in Nat /\ now \in Nat /\ now' \in Nat
        /\ run' = run
    BY <1>1, RuntimeShapes
  <2>2. run.since <= now'
    BY <1>1, <1>2, <2>1 DEF RunInv
  <2> QED
    BY <1>1, <1>3, <2>1, <2>2
       DEF RunInv, Issued, RiskAllowed, CurrentAt, Reserved, Revoked, capital
<1> QED
  BY <1>2, <1>4, <1>5 DEF RuntimeInv

LEMMA AdvisorKeepsInv ==
  ASSUME RuntimeInv,
         \/ Clock
         \/ \E t \in Trades : Gate(t) \/ Close(t)
         \/ \E state \in {"ALLOW", "DENY"} : SetKillSwitch(state)
         \/ \E e \in EAs :
              \/ Claim(e) \/ TraceSubmission(e) \/ Send(e) \/ TraceOutcome(e) \/ Leave(e)
  PROVE  RuntimeInv'
<1> DEFINE At == {"gated", "claimed", "traced", "done", "unknown"}
           Doing == {None} \union [trade : Trades, at : At]
<1>1. RuntimeTypeOK /\ ea \in [EAs -> Doing]
  BY DEF RuntimeInv, RuntimeTypeOK
<1>2. CASE Clock
  <2>1. RuntimeTypeOK'
    BY <1>1, <1>2, AmountsAssumption
       DEF Clock, Tick, RuntimeTypeOK, TypeOK, JournalTypeOK, Issued, files, advisor, capital,
           Observe, Time
  <2> QED
    BY <1>2, <2>1, OthersKeepInv DEF Clock, Tick, files
<1>3. ASSUME NEW t \in Trades, Gate(t) \/ Close(t)
      PROVE  RuntimeInv'
  <2>1. RuntimeTypeOK'
    BY <1>1, <1>3, RequestAssumption
       DEF Gate, Close, RuntimeTypeOK, TypeOK, JournalTypeOK, files, vars, capital, Observe
  <2> QED
    BY <1>3, <2>1, OthersKeepInv DEF Gate, Close, files, vars
<1>4. ASSUME NEW state \in {"ALLOW", "DENY"}, SetKillSwitch(state)
      PROVE  RuntimeInv'
  <2>1. RuntimeTypeOK'
    BY <1>1, <1>4
       DEF SetKillSwitch, RuntimeTypeOK, TypeOK, JournalTypeOK, advisor, vars, capital, Observe
  <2> QED
    BY <1>4, <2>1, OthersKeepInv DEF SetKillSwitch, vars
<1>5. ASSUME NEW e \in EAs,
             \/ Claim(e) \/ TraceSubmission(e) \/ Send(e) \/ TraceOutcome(e) \/ Leave(e)
      PROVE  RuntimeInv'
  <2>1. ea[e] # None => ea[e] \in [trade : Trades, at : At]
    BY <1>1
  <2>2. /\ ea[e] # None
        /\ UNCHANGED <<vars, run, files>> /\ Observe
    BY <1>5 DEF Claim, TraceSubmission, Send, TraceOutcome, Leave
  <2>3. ea' \in [EAs -> Doing]
    <3>1. ea' = [ea EXCEPT ![e] = None]
            \/ \E x \in At : ea' = [ea EXCEPT ![e].at = x]
      BY <1>5 DEF Claim, TraceSubmission, Send, TraceOutcome, Leave
    <3>2. \A x \in At : [ea[e] EXCEPT !.at = x] \in Doing
      BY <2>1, <2>2
    <3> QED
      BY <1>1, <3>1, <3>2
  <2>4. burned' \subseteq Trades /\ trace' \in [Trades -> SUBSET Lines]
        /\ orders' \subseteq Trades /\ open' \subseteq Trades
    <3>1. burned \subseteq Trades /\ trace \in [Trades -> SUBSET Lines]
          /\ orders \subseteq Trades /\ open \subseteq Trades /\ ea[e].trade \in Trades
      BY <1>1, <2>1, <2>2 DEF RuntimeTypeOK
    <3>2. \A line \in Lines : Wrote(ea[e].trade, line) => trace' \in [Trades -> SUBSET Lines]
      BY <3>1 DEF Wrote
    <3> QED
      BY <1>5, <3>1, <3>2
         DEF Claim, TraceSubmission, Send, TraceOutcome, Leave, Lines
  <2>5. RuntimeTypeOK'
    BY <1>1, <2>2, <2>3, <2>4
       DEF RuntimeTypeOK, TypeOK, JournalTypeOK, Issued, files, vars, capital, Observe
  <2> QED
    BY <2>2, <2>5, OthersKeepInv DEF files, vars
<1> QED
  BY <1>2, <1>3, <1>4, <1>5

LEMMA RecordsKeepInv ==
  ASSUME RuntimeInv, (\E t \in Trades : Renew(t)) \/ WriteRecord
  PROVE  RuntimeInv'
<1>1. /\ RuntimeTypeOK /\ QuietInv /\ StampInv /\ RunInv
      /\ UNCHANGED <<vars, run, kill, advisor>> /\ Observe
  BY DEF RuntimeInv, Renew, WriteRecord
<1>2. /\ UNCHANGED <<status, blocked, now, auth, amount, released, envelopes, used>>
      /\ now \in Time
  BY <1>1 DEF vars, capital, RuntimeTypeOK, TypeOK
<1>3. QuietInv' /\ quiet <= quiet' /\ quiet' \in Time
  BY <1>1, <1>2, QuietKept
<1>4. Stamps \subseteq Stamps'
  BY <1>1, <1>2, <1>3, StampedKept DEF Stamps
<1>5. StampInv'
  <2>1. CASE \E t \in Trades : Renew(t)
    <3>1. PICK t \in Trades : Renew(t)
      BY <2>1
    <3>2. [trade |-> t, stamp |-> now] \in Stamps
      BY <1>1, <1>2, <3>1, AmountsAssumption
         DEF Renew, ExecutionAllowedAt, RiskAllowed, CurrentAt, Revoked, QuietInv, Stamped,
             Stamps, Time
    <3> QED
      BY <1>1, <1>4, <3>1, <3>2 DEF Renew, StampInv
  <2>2. CASE WriteRecord
    BY <1>1, <1>4, <2>2, RequestAssumption DEF WriteRecord, StampInv
  <2> QED
    BY <2>1, <2>2
<1>6. RuntimeTypeOK'
  <2>1. /\ writer' \in {None} \union [trade : Trades, stamp : Time]
        /\ records' \in [EAs -> {None} \union [trade : Trades, stamp : Time]]
    BY <1>5 DEF StampInv, Stamps
  <2> QED
    BY <1>1, <1>2, <1>3, <2>1 DEF RuntimeTypeOK, TypeOK, JournalTypeOK, advisor
<1>7. RunInv'
  BY <1>1, <1>2, <1>4 DEF RunInv, Issued, RiskAllowed, CurrentAt, Reserved, Revoked
<1> QED
  BY <1>3, <1>5, <1>6, <1>7 DEF RuntimeInv

(* The ledger's other writers come when no run has it.                     *)
LEMMA OperatorKeepsInv ==
  ASSUME RuntimeInv, NEW t \in Trades,
         IngestSubmission(t) \/ IngestUnknown(t) \/ Settle(t) \/ Operator(t)
  PROVE  RuntimeInv'
<1>1. /\ RuntimeTypeOK /\ QuietInv /\ StampInv /\ RunInv
      /\ run = None
      /\ UNCHANGED <<now, envelopes, amount, used, run, files, advisor>> /\ Observe
  BY DEF RuntimeInv, IngestSubmission, IngestUnknown, Settle, Operator, LedgerIsFree, capital,
         Revoke, ReleasePreExecution
<1>2. /\ now \in Time /\ TypeOK /\ JournalTypeOK
      /\ auth \in [Trades -> {NoAuth} \union Authorization]
      /\ TradeOf[t] = t /\ AuthOf[t] = t
  BY <1>1, OneRequestAssumption DEF RuntimeTypeOK, TypeOK
<1>3. QuietInv' /\ quiet <= quiet' /\ quiet' \in Time
  BY <1>1, <1>2, QuietKept
<1>4. JournalTypeOK' /\ released' \subseteq Trades
  <2>1. CASE IngestSubmission(t)
    BY <1>2, <2>1, JournalTypes, OneRequestAssumption
       DEF IngestSubmission, capital, TypeOK, STATES
  <2>2. CASE IngestUnknown(t)
    BY <1>2, <2>2, JournalTypes, OneRequestAssumption DEF IngestUnknown, capital, TypeOK
  <2>3. CASE Settle(t)
    BY <1>2, <2>3, OneRequestAssumption DEF Settle, capital, TypeOK, JournalTypeOK, STATES
  <2>4. CASE Operator(t)
    BY <1>2, <2>4, OneRequestAssumption
       DEF Operator, Revoke, ReleasePreExecution, TypeOK, JournalTypeOK
  <2> QED
    BY <2>1, <2>2, <2>3, <2>4
<1>5. \/ auth' = auth
      \/ Issued(t) /\ ~Revoked(t) /\ auth' = [auth EXCEPT ![t].revoked = {now}]
  BY DEF IngestSubmission, IngestUnknown, Settle, Operator, Revoke, ReleasePreExecution, capital
<1>6. /\ auth' \in [Trades -> {NoAuth} \union Authorization]
      /\ Stamps \subseteq Stamps'
  <2>1. CASE auth' = auth
    BY <1>1, <1>2, <1>3, <2>1, StampedKept DEF Stamps
  <2>2. CASE Issued(t) /\ ~Revoked(t) /\ auth' = [auth EXCEPT ![t].revoked = {now}]
    <3>1. auth[t] \in Authorization
      BY <1>2, <2>2, IssuedShape, OneRequestAssumption
    <3>2. auth'[t] \in Authorization /\ auth'[t].revoked = {now}
      BY <1>2, <2>2, <3>1 DEF Authorization
    <3>3. auth'[t] # NoAuth
      BY <3>2, AmountsAssumption DEF Authorization, NoAuth
    <3>4. ASSUME NEW s \in Time, Stamped(t, s) PROVE Stamped(t, s)'
      <4>1. s <= quiet /\ quiet <= now /\ quiet <= quiet'
            /\ s \in Nat /\ quiet \in Nat /\ quiet' \in Nat /\ now \in Nat
        BY <1>1, <1>3, <3>4, RuntimeShapes DEF Stamped, QuietInv
      <4> QED
        BY <3>2, <3>3, <4>1 DEF Stamped, Issued
    <3>5. ASSUME NEW u \in Trades, u # t, NEW s \in Time, Stamped(u, s)
          PROVE  Stamped(u, s)'
      BY <1>1, <1>2, <1>3, <2>2, <3>5, StampedKept
    <3> QED
      BY <1>2, <2>2, <3>2, <3>4, <3>5 DEF Stamps
  <2> QED
    BY <1>5, <2>1, <2>2
<1>7. RuntimeTypeOK'
  BY <1>1, <1>2, <1>3, <1>4, <1>6, OneRequestAssumption
     DEF RuntimeTypeOK, TypeOK, files, advisor
<1>8. StampInv'
  BY <1>1, <1>6 DEF StampInv, files
<1>9. RunInv'
  BY <1>1 DEF RunInv
<1> QED
  BY <1>3, <1>7, <1>8, <1>9 DEF RuntimeInv

(* A run that begins has checked nothing yet, one that ends leaves the     *)
(* ledger as it is.                                                        *)
LEMMA StartAbortKeepInv ==
  ASSUME RuntimeInv,
         Abort \/ \E t \in Trades, record \in BOOLEAN : Start(t, record)
  PROVE  RuntimeInv'
<1>1. /\ RuntimeTypeOK /\ QuietInv /\ StampInv
      /\ UNCHANGED <<vars, files, advisor>> /\ Observe
  BY DEF RuntimeInv, Start, Abort
<1>2. UNCHANGED <<status, blocked, now, auth, amount, released, envelopes, used>> /\ now \in Time
  BY <1>1 DEF vars, capital, RuntimeTypeOK, TypeOK
<1>3. QuietInv' /\ quiet <= quiet' /\ quiet' \in Time
  BY <1>1, <1>2, QuietKept
<1>4. Stamps \subseteq Stamps'
  BY <1>1, <1>2, <1>3, StampedKept DEF Stamps
<1>5. \/ run' = None
      \/ /\ run' \in [trade : Trades, next : Steps, since : Time, record : BOOLEAN]
         /\ run'.next = "PROPOSED" /\ run'.since = now
  BY <1>2 DEF Start, Abort, Finish, Steps
<1>6. RunInv'
  <2>1. now \in Nat
    BY <1>2, AmountsAssumption DEF Time
  <2> QED
    BY <1>2, <1>5, <2>1 DEF RunInv
<1>7. RuntimeTypeOK'
  BY <1>1, <1>2, <1>3, <1>5 DEF RuntimeTypeOK, TypeOK, JournalTypeOK, files, advisor
<1> QED
  BY <1>1, <1>3, <1>4, <1>6, <1>7 DEF RuntimeInv, StampInv, files

(* The ledger steps of a run: each changes the state or the authority of   *)
(* its own trade, and none of them publishes.                              *)
LEMMA LedgerStepsKeepInv ==
  ASSUME RuntimeInv,
         \/ AppendState("PROPOSED", "VALIDATED")
         \/ AppendState("VALIDATED", "RISK_RESERVED")
         \/ AppendState("RISK_RESERVED", "issue")
         \/ IssueStep \/ AuthorizeStep \/ ReserveStep
  PROVE  RuntimeInv'
<1> DEFINE t == run.trade
<1>1. /\ RuntimeTypeOK /\ QuietInv /\ StampInv /\ RunInv
      /\ run # None
      /\ UNCHANGED <<now, released, envelopes, used, files, advisor>> /\ Observe
  BY DEF RuntimeInv, AppendState, IssueStep, AuthorizeStep, ReserveStep, capital
<1>2. /\ run \in [trade : Trades, next : Steps, since : Time, record : BOOLEAN]
      /\ t \in Trades /\ run.since \in Time /\ now \in Time /\ Time \subseteq Nat
      /\ TypeOK /\ JournalTypeOK
  BY <1>1, RuntimeShapes DEF RuntimeTypeOK, TypeOK
<1>3. /\ auth \in [Trades -> {NoAuth} \union Authorization]
      /\ amount \in [Trades -> Risks \union {0}]
      /\ Request[t].risk \in Risks /\ Request[t].issued \in Time
      /\ Request[t].life \in Lifetimes
  BY <1>2, OneRequestAssumption, RequestAssumption DEF TypeOK
<1>4. QuietInv' /\ quiet <= quiet' /\ quiet' \in Time
  BY <1>1, <1>2, QuietKept
<1>5. run' \in [trade : Trades, next : Steps, since : Time, record : BOOLEAN]
      /\ run'.since = run.since /\ run'.next \notin {"envelope", "record"}
  <2>1. \E step \in Steps \ {"envelope", "record"} : run' = [run EXCEPT !.next = step]
    BY DEF AppendState, IssueStep, AuthorizeStep, ReserveStep, Then, Steps
  <2> QED
    BY <1>2, <2>1
<1>6. JournalTypeOK'
  <2>1. ASSUME NEW s \in STATES, NEW ty, Journal(Ev(t, s, ty))
        PROVE  JournalTypeOK'
    BY <1>2, <2>1, JournalTypes
  <2>2. CASE UNCHANGED <<status, blocked>>
    BY <1>2, <2>2 DEF JournalTypeOK
  <2> QED
    BY <2>1, <2>2 DEF AppendState, IssueStep, AuthorizeStep, ReserveStep, STATES
<1>7. \/ auth' = auth
      \/ ~Issued(t) /\ \E a \in Authorization : auth' = [auth EXCEPT ![t] = a]
  <2>1. CASE IssueStep /\ ~Issued(t)
    <3> DEFINE q == Request[t]
               a == [risk |-> q.risk, issued |-> q.issued, served |-> run.since,
                     expires |-> q.issued + q.life, revoked |-> {}]
    <3>1. q.issued + q.life \in Nat
      <4>1. q.issued \in Nat /\ q.life \in Nat
        BY <1>2, <1>3, AmountsAssumption
      <4> QED
        BY <4>1
    <3>2. a \in Authorization
      BY <1>2, <1>3, <3>1 DEF Authorization
    <3>3. auth' = [auth EXCEPT ![t] = a]
      BY <2>1 DEF IssueStep
    <3> QED
      BY <2>1, <3>2, <3>3
  <2>2. CASE IssueStep /\ Issued(t)
    BY <2>2 DEF IssueStep
  <2>3. CASE ~IssueStep
    BY <2>3 DEF AppendState, AuthorizeStep, ReserveStep, capital
  <2> QED
    BY <2>1, <2>2, <2>3
<1>8. auth' \in [Trades -> {NoAuth} \union Authorization] /\ Stamps \subseteq Stamps'
  <2>1. CASE auth' = auth
    BY <1>1, <1>3, <1>4, <2>1, StampedKept DEF Stamps
  <2>2. CASE ~Issued(t) /\ \E a \in Authorization : auth' = [auth EXCEPT ![t] = a]
    <3>1. ASSUME NEW u \in Trades, NEW s \in Time, Stamped(u, s)
          PROVE  Stamped(u, s)'
      <4>1. u # t
        BY <2>2, <3>1 DEF Stamped
      <4> QED
        BY <1>1, <1>3, <1>4, <2>2, <3>1, <4>1, StampedKept
    <3> QED
      BY <1>3, <2>2, <3>1 DEF Stamps
  <2> QED
    BY <1>7, <2>1, <2>2
<1>9. amount' \in [Trades -> Risks \union {0}]
  BY <1>3 DEF AppendState, IssueStep, AuthorizeStep, ReserveStep, capital
<1>10. RuntimeTypeOK'
  BY <1>1, <1>2, <1>4, <1>5, <1>6, <1>8, <1>9, OneRequestAssumption
     DEF RuntimeTypeOK, TypeOK, files, advisor
<1>11. RunInv'
  BY <1>1, <1>5 DEF RunInv
<1> QED
  BY <1>1, <1>4, <1>8, <1>10, <1>11 DEF RuntimeInv, StampInv, files

(* The build stamps, envelope and record publish.                          *)
LEMMA PublishingKeepsInv ==
  ASSUME RuntimeInv, BuildStep \/ EnvelopeStep \/ RecordStep
  PROVE  RuntimeInv'
<1> DEFINE t == run.trade
           mine == [trade |-> run.trade, stamp |-> run.since]
<1>1. /\ RuntimeTypeOK /\ QuietInv /\ StampInv /\ RunInv
      /\ run # None
      /\ UNCHANGED <<status, blocked, now, auth, amount, released, used, writer, kill, advisor>>
      /\ Observe
  BY DEF RuntimeInv, BuildStep, EnvelopeStep, RecordStep, vars, capital, files
<1>2. /\ run \in [trade : Trades, next : Steps, since : Time, record : BOOLEAN]
      /\ t \in Trades /\ run.since \in Time /\ now \in Time /\ Time \subseteq Nat
      /\ run.since <= now
  BY <1>1, RuntimeShapes DEF RunInv
<1>3. QuietInv' /\ quiet <= quiet' /\ quiet' \in Time
  BY <1>1, <1>2, QuietKept
<1>4. Stamps \subseteq Stamps'
  BY <1>1, <1>3, StampedKept DEF Stamps
<1>5. envelopes' \subseteq Trades
  BY <1>1, <1>2, OneRequestAssumption
     DEF BuildStep, EnvelopeStep, RecordStep, vars, capital, RuntimeTypeOK, TypeOK
<1>6. CASE BuildStep
  <2>1. run' = [run EXCEPT !.next = "envelope"] /\ UNCHANGED records
    BY <1>6 DEF BuildStep, Then, files
  <2>2. /\ run' \in [trade : Trades, next : Steps, since : Time, record : BOOLEAN]
        /\ run'.trade = t /\ run'.since = run.since /\ run'.next = "envelope"
    BY <1>2, <2>1 DEF Steps
  <2>3. /\ status[t] = "AUTHORIZED" /\ RiskAllowed
        /\ CurrentAt(t, run.since) /\ Reserved(t)
    BY <1>6 DEF BuildStep, ExecutionAllowedAt
  <2>4. mine \in Stamps
    BY <1>1, <1>2, <2>3 DEF Stamps, Stamped, CurrentAt, Revoked, RiskAllowed, QuietInv
  <2>5. RunInv'
    BY <1>1, <1>2, <1>4, <2>2, <2>3, <2>4
       DEF RunInv, RiskAllowed, CurrentAt, Reserved, Issued, Revoked
  <2>6. RuntimeTypeOK'
    BY <1>1, <1>2, <1>3, <1>5, <2>1, <2>2, OneRequestAssumption
       DEF RuntimeTypeOK, TypeOK, JournalTypeOK, advisor
  <2> QED
    BY <1>1, <1>3, <1>4, <2>1, <2>5, <2>6 DEF RuntimeInv, StampInv
<1>7. CASE EnvelopeStep
  <2>1. UNCHANGED records /\ (run' = None \/ run' = [run EXCEPT !.next = "record"])
    BY <1>7 DEF EnvelopeStep, Then, Finish, files
  <2>2. run' = None \/ /\ run' \in [trade : Trades, next : Steps, since : Time, record : BOOLEAN]
                       /\ run'.trade = t /\ run'.since = run.since /\ run'.next = "record"
    BY <1>2, <2>1 DEF Steps
  <2>3. mine \in Stamps
    BY <1>1, <1>7 DEF EnvelopeStep, RunInv
  <2>4. RunInv'
    BY <1>1, <1>2, <1>4, <2>2, <2>3 DEF RunInv
  <2>5. RuntimeTypeOK'
    BY <1>1, <1>2, <1>3, <1>5, <2>1, <2>2, OneRequestAssumption
       DEF RuntimeTypeOK, TypeOK, JournalTypeOK, advisor
  <2> QED
    BY <1>1, <1>3, <1>4, <2>1, <2>4, <2>5 DEF RuntimeInv, StampInv
<1>8. CASE RecordStep
  <2>1. run' = None /\ records' = [records EXCEPT ![EaOf[t]] = mine]
    BY <1>8 DEF RecordStep, Finish
  <2>2. mine \in Stamps
    BY <1>1, <1>8 DEF RecordStep, RunInv
  <2>3. StampInv'
    BY <1>1, <1>4, <2>1, <2>2 DEF StampInv
  <2>4. RuntimeTypeOK'
    <3>1. records' \in [EAs -> {None} \union [trade : Trades, stamp : Time]]
      BY <2>3 DEF StampInv, Stamps
    <3> QED
      BY <1>1, <1>2, <1>3, <1>5, <2>1, <3>1, OneRequestAssumption
         DEF RuntimeTypeOK, TypeOK, JournalTypeOK, advisor
  <2> QED
    BY <1>3, <2>1, <2>3, <2>4 DEF RuntimeInv, RunInv
<1> QED
  BY <1>6, <1>7, <1>8

LEMMA RuntimeNextInv == RuntimeInv /\ [RuntimeNext]_rvars => RuntimeInv'
<1> SUFFICES ASSUME RuntimeInv, [RuntimeNext]_rvars PROVE RuntimeInv'
  OBVIOUS
<1>1. CASE UNCHANGED rvars
  BY <1>1 DEF rvars, vars, capital, files, advisor, RuntimeInv, RuntimeTypeOK, TypeOK,
       JournalTypeOK, QuietInv, StampInv, Stamps, Stamped, RunInv, Issued, RiskAllowed,
       CurrentAt, Reserved, Revoked
<1>2. CASE RuntimeNext
  <2>1. CASE \/ Clock
             \/ \E t \in Trades : Gate(t) \/ Close(t)
             \/ \E state \in {"ALLOW", "DENY"} : SetKillSwitch(state)
             \/ \E e \in EAs :
                  \/ Claim(e) \/ TraceSubmission(e) \/ Send(e) \/ TraceOutcome(e) \/ Leave(e)
    BY <2>1, AdvisorKeepsInv
  <2>2. CASE (\E t \in Trades : Renew(t)) \/ WriteRecord
    BY <2>2, RecordsKeepInv
  <2>3. CASE \E t \in Trades :
               IngestSubmission(t) \/ IngestUnknown(t) \/ Settle(t) \/ Operator(t)
    BY <2>3, OperatorKeepsInv
  <2>4. CASE Abort \/ \E t \in Trades, record \in BOOLEAN : Start(t, record)
    BY <2>4, StartAbortKeepInv
  <2>5. CASE \/ AppendState("PROPOSED", "VALIDATED")
             \/ AppendState("VALIDATED", "RISK_RESERVED")
             \/ AppendState("RISK_RESERVED", "issue")
             \/ IssueStep \/ AuthorizeStep \/ ReserveStep
    BY <2>5, LedgerStepsKeepInv
  <2>6. CASE BuildStep \/ EnvelopeStep \/ RecordStep
    BY <2>6, PublishingKeepsInv
  <2> QED
    BY <1>2, <2>1, <2>2, <2>3, <2>4, <2>5, <2>6 DEF RuntimeNext
<1> QED
  BY <1>1, <1>2

(* Every stamp in a record was taken when its authorization was in force   *)
(* and nothing was unresolved.                                             *)
THEOREM RuntimeInvariant == RuntimeSpec => []RuntimeInv
<1> QED
  BY RuntimeInitInv, RuntimeNextInv, PTL DEF RuntimeSpec

(* The types of the ledger, the files, the tools and the advisors.         *)
THEOREM RuntimeTypeCorrect == RuntimeSpec => []RuntimeTypeOK
<1>1. RuntimeInv => RuntimeTypeOK
  BY DEF RuntimeInv
<1> QED
  BY <1>1, RuntimeInvariant, PTL

(* An envelope is published only for a trade that is authorised now, with  *)
(* its capital reserved and nothing unresolved, whatever died before.      *)
THEOREM OnlyWholeIsPublished == RuntimeSpec => PublishedWhole
<1> DEFINE Whole ==
      \A t \in envelopes' \ envelopes :
        /\ status[t] = "AUTHORIZED" /\ RiskAllowed
        /\ CurrentAt(t, run.since) /\ Reserved(t)
<1>1. ASSUME RuntimeInv, [RuntimeNext]_rvars PROVE [Whole]_rvars
  <2> SUFFICES ASSUME envelopes' # envelopes PROVE Whole
    OBVIOUS
  <2>1. EnvelopeStep
    BY <1>1
       DEF RuntimeNext, rvars, vars, capital, files, advisor, Clock, Tick, Start, Renew, Gate,
           Close, IngestSubmission, IngestUnknown, Settle, Operator, Revoke,
           ReleasePreExecution, AppendState, IssueStep, AuthorizeStep, ReserveStep, BuildStep,
           RecordStep, Abort, WriteRecord, SetKillSwitch, Claim, TraceSubmission, Send,
           TraceOutcome, Leave
  <2> QED
    BY <1>1, <2>1 DEF EnvelopeStep, RuntimeInv, RunInv
<1> QED
  BY <1>1, RuntimeInvariant, PTL DEF RuntimeSpec, PublishedWhole

(* Only a claim takes a trade up, under a record that is fresh enough.     *)
LEMMA TakenUpFresh ==
  ASSUME RuntimeInv, [RuntimeNext]_rvars, NEW t \in Trades, TakesUp(t)
  PROVE  \E s \in Time : Stamped(t, s) /\ now - s <= RecordAge /\ now < auth[t].expires
<1>1. \E e \in EAs : Claim(e)
  BY DEF TakesUp, RuntimeNext, rvars, vars, capital, files, advisor, Clock, Start, Renew, Gate,
         Close, IngestSubmission, IngestUnknown, Settle, Operator, AppendState, IssueStep,
         AuthorizeStep, ReserveStep, BuildStep, EnvelopeStep, RecordStep, Abort, WriteRecord,
         SetKillSwitch, TraceSubmission, Send, TraceOutcome, Leave
<1>2. PICK e \in EAs : Claim(e)
  BY <1>1
<1>3. Accepts(e) /\ ea[e].trade = t
  BY <1>2 DEF Claim, TakesUp
<1>4. records[e] \in Stamps
  BY <1>3 DEF Accepts, RuntimeInv, StampInv
<1> QED
  BY <1>3, <1>4 DEF Accepts, Stamps

(* A revocation reaches an advisor within a record's age.                  *)
THEOREM RevocationReachesAdvisor == RuntimeSpec => RevocationTakesHold
<1> DEFINE Held ==
      \A t \in Trades : TakesUp(t) =>
        /\ Issued(t) /\ now < auth[t].expires
        /\ \A at \in auth[t].revoked : now <= at + RecordAge
<1>1. ASSUME RuntimeInv, [RuntimeNext]_rvars, NEW t \in Trades, TakesUp(t)
      PROVE  /\ Issued(t) /\ now < auth[t].expires
             /\ \A at \in auth[t].revoked : now <= at + RecordAge
  <2>1. PICK s \in Time : Stamped(t, s) /\ now - s <= RecordAge /\ now < auth[t].expires
    BY <1>1, TakenUpFresh
  <2>2. auth[t] \in Authorization
    BY <1>1, <2>1, IssuedShape, OneRequestAssumption DEF Stamped, RuntimeInv, RuntimeTypeOK
  <2>3. auth[t].revoked \subseteq Time /\ Time \subseteq Nat /\ now \in Nat /\ RecordAge \in Nat
    BY <1>1, <2>2, RuntimeShapes, RequestAssumption DEF Authorization, RuntimeInv
  <2>4. ASSUME NEW at \in auth[t].revoked PROVE now <= at + RecordAge
    <3>1. s <= at /\ now - s <= RecordAge /\ s \in Nat /\ at \in Nat
      BY <2>1, <2>3 DEF Stamped
    <3> QED
      BY <2>3, <3>1
  <2> QED
    BY <2>1, <2>4 DEF Stamped
<1>2. RuntimeInv /\ [RuntimeNext]_rvars => [Held]_rvars
  BY <1>1
<1> QED
  BY <1>2, RuntimeInvariant, PTL DEF RuntimeSpec, RevocationTakesHold

(* So does a block on new risk.                                            *)
THEOREM BlockReachesAdvisor == RuntimeSpec => BlockTakesHold
<1> DEFINE Held == \A t \in Trades : TakesUp(t) => now <= quiet + RecordAge
<1>1. ASSUME RuntimeInv, [RuntimeNext]_rvars, NEW t \in Trades, TakesUp(t)
      PROVE  now <= quiet + RecordAge
  <2>1. PICK s \in Time : Stamped(t, s) /\ now - s <= RecordAge
    BY <1>1, TakenUpFresh
  <2>2. now \in Nat /\ quiet \in Nat /\ s \in Nat /\ RecordAge \in Nat
    BY <1>1, RuntimeShapes, RequestAssumption DEF RuntimeInv
  <2> QED
    BY <2>1, <2>2 DEF Stamped
<1>2. RuntimeInv /\ [RuntimeNext]_rvars => [Held]_rvars
  BY <1>1
<1> QED
  BY <1>2, RuntimeInvariant, PTL DEF RuntimeSpec, BlockTakesHold
------------------------------------------------------------------------------
(* The amounts, with the runtime.  The control plane issues for the moment *)
(* its request was signed and reserves what the request asks for, at times *)
(* its run read when it began.                                             *)

(* What is granted is what was asked for, and no grant is younger than the *)
(* run that has the ledger.                                                *)
GrantInv ==
  \A t \in Trades : Issued(t) =>
    /\ auth[t].risk = Request[t].risk
    /\ auth[t].issued <= auth[t].served /\ auth[t].served <= now
    /\ run # None => auth[t].served <= run.since

AskedInv == run # None => Request[run.trade].issued <= run.since

DrawnInv == \A t \in Trades : amount[t] > 0 => Issued(t) /\ amount[t] = auth[t].risk

GrantsInv == FiniteLedger /\ GrantInv /\ AskedInv /\ DrawnInv /\ PromptWithinCap

LEMMA InitGrantsInv == RuntimeInit => GrantsInv
<1> SUFFICES ASSUME RuntimeInit PROVE GrantsInv
  OBVIOUS
<1>1. /\ \A t \in Trades : ~Issued(t) /\ ~ (amount[t] > 0)
      /\ run = None /\ Auths = Trades /\ Reservations = Trades
  BY OneRequestAssumption DEF RuntimeInit, Issued
<1>2. { a \in Auths : Issued(a) } = {} /\ { r \in Reservations : amount[r] > 0 } = {}
  BY <1>1
<1>3. FiniteLedger
  BY <1>2, FS_EmptySet DEF FiniteLedger
<1>4. AggregateWithinCap
  <2>1. InForceAt(now) = {}
    BY <1>1 DEF InForceAt
  <2>2. TotalAuthorizedRiskAt(now) = 0
    BY <2>1, SumEmpty DEF TotalAuthorizedRiskAt
  <2> QED
    BY <2>2, AmountsAssumption DEF AggregateWithinCap
<1> QED
  BY <1>1, <1>3, <1>4 DEF GrantsInv, GrantInv, AskedInv, DrawnInv, PromptWithinCap

(* The types, with one id for a trade, its authorization and its           *)
(* reservation.                                                            *)
LEMMA GrantShapes ==
  ASSUME RuntimeInv
  PROVE  /\ TypeOK /\ now \in Nat /\ Time \subseteq Nat
         /\ Auths = Trades /\ Reservations = Trades
         /\ auth \in [Trades -> {NoAuth} \union Authorization]
         /\ amount \in [Trades -> Risks \union {0}]
         /\ \A t \in Trades :
              /\ AuthOf[t] = t
              /\ Issued(t) => auth[t] \in Authorization
              /\ Request[t].risk \in Nat /\ Request[t].risk > 0
              /\ Request[t].issued \in Nat /\ Request[t].life \in Nat
         /\ run # None => /\ run.trade \in Trades
                          /\ run.since \in Time /\ run.since \in Nat /\ run.since <= now
<1>1. RuntimeTypeOK /\ TypeOK
  BY DEF RuntimeInv, RuntimeTypeOK
<1>2. /\ now \in Nat /\ Time \subseteq Nat
      /\ run # None => run \in [trade : Trades, next : Steps, since : Time, record : BOOLEAN]
  BY <1>1, RuntimeShapes
<1>3. /\ Auths = Trades /\ Reservations = Trades
      /\ \A t \in Trades : AuthOf[t] = t
  BY OneRequestAssumption
<1>4. /\ auth \in [Trades -> {NoAuth} \union Authorization]
      /\ amount \in [Trades -> Risks \union {0}]
  BY <1>1, <1>3 DEF TypeOK
<1>5. \A t \in Trades : Issued(t) => auth[t] \in Authorization
  BY <1>1, <1>3, IssuedShape
<1>6. \A t \in Trades : /\ Request[t].risk \in Nat /\ Request[t].risk > 0
                        /\ Request[t].issued \in Nat /\ Request[t].life \in Nat
  <2> TAKE t \in Trades
  <2>1. Request[t] \in [risk : Risks, issued : Time, life : Lifetimes]
    BY RequestAssumption
  <2>2. Request[t].risk \in Risks /\ Request[t].issued \in Time /\ Request[t].life \in Lifetimes
    BY <2>1
  <2>3. /\ Request[t].risk \in Nat \ {0} /\ Request[t].life \in Nat \ {0}
        /\ Request[t].issued \in Nat
    BY <1>2, <2>2, AmountsAssumption
  <2> QED
    BY <2>3
<1>7. run # None => run.since <= now
  BY DEF RuntimeInv, RunInv
<1> QED
  BY <1>1, <1>2, <1>3, <1>4, <1>5, <1>6, <1>7

(* A step that neither grants nor reserves nor revokes: the clock may tick *)
(* and a run begin, go on or end.                                          *)
LEMMA IdleKeepsGrants ==
  ASSUME RuntimeInv, GrantsInv, UNCHANGED <<auth, amount>>, now' \in {now, now + 1},
         \/ run' = None
         \/ run # None /\ run'.trade = run.trade /\ run'.since = run.since
         \/ Request[run'.trade].issued <= now /\ run'.since = now
  PROVE  GrantsInv'
<1>1. \A t \in Trades : Issued(t)' <=> Issued(t)
  BY DEF Issued
<1>2. FiniteLedger' /\ DrawnInv'
  BY DEF GrantsInv, FiniteLedger, DrawnInv, Issued
<1>3. ASSUME NEW t \in Trades, Issued(t)
      PROVE  /\ auth[t] \in Authorization
             /\ auth[t].issued \in Nat /\ auth[t].served \in Nat /\ auth[t].expires \in Nat
             /\ auth[t].revoked \subseteq Nat
             /\ auth[t].issued <= now /\ auth[t].served <= now
  <2>1. auth[t] \in Authorization /\ Time \subseteq Nat /\ now \in Nat
    BY <1>3, GrantShapes
  <2>2. auth[t].issued <= auth[t].served /\ auth[t].served <= now
    BY <1>3 DEF GrantsInv, GrantInv
  <2>3. auth[t].issued \in Nat /\ auth[t].served \in Nat /\ auth[t].expires \in Nat
        /\ auth[t].revoked \subseteq Nat
    BY <2>1 DEF Authorization
  <2> QED
    BY <2>1, <2>2, <2>3
<1>4. GrantInv'
  <2>1. ASSUME NEW t \in Trades, Issued(t)
        PROVE  /\ auth[t].risk = Request[t].risk
               /\ auth[t].issued <= auth[t].served /\ auth[t].served <= now'
               /\ run' # None => auth[t].served <= run'.since
    BY <1>3, <2>1, GrantShapes DEF GrantsInv, GrantInv
  <2> QED
    BY <1>1, <2>1 DEF GrantInv
<1>5. AskedInv'
  BY DEF GrantsInv, AskedInv
<1>6. InForceAt(now)' \subseteq InForceAt(now)
  <2>1. SUFFICES ASSUME NEW a \in Auths, a \in InForceAt(now)'
                 PROVE  a \in InForceAt(now)
    BY DEF InForceAt
  <2>2. /\ Issued(a) /\ now' < auth[a].expires
        /\ \A at \in auth[a].revoked : at > now'
    BY <2>1 DEF InForceAt, Issued
  <2>3. a \in Trades /\ now \in Nat
    BY GrantShapes
  <2> QED
    BY <1>3, <2>2, <2>3 DEF InForceAt
<1>7. PromptWithinCap'
  <2>1. RiskOf' = RiskOf /\ (Prompt' => Prompt)
    BY DEF RiskOf, Prompt, Issued
  <2> QED
    BY <1>6, <2>1, CapKept, GrantShapes DEF GrantsInv
<1> QED
  BY <1>2, <1>4, <1>5, <1>7 DEF GrantsInv

(* issue_authorization tests the cap at the moment the request was signed. *)
(* When that is the moment the run began, everything else that is in force *)
(* by now was in force then: no grant came between.                        *)
LEMMA IssueStepKeepsGrants ==
  ASSUME RuntimeInv, GrantsInv, IssueStep
  PROVE  GrantsInv'
<1> DEFINE t == run.trade
           q == Request[t]
           new == [risk |-> q.risk, issued |-> q.issued, served |-> run.since,
                   expires |-> q.issued + q.life, revoked |-> {}]
           F == InForceAt(q.issued)
<1>1. /\ run # None /\ run' = [run EXCEPT !.next = "authorize"]
      /\ UNCHANGED <<status, blocked, now, amount, released, envelopes, used>>
      /\ run'.trade = run.trade /\ run'.since = run.since
  <2>1. /\ run # None /\ run' = [run EXCEPT !.next = "authorize"]
        /\ UNCHANGED <<status, blocked, now, amount, released, envelopes, used>>
    BY DEF IssueStep, Then
  <2>2. run \in [trade : Trades, next : Steps, since : Time, record : BOOLEAN]
    BY <2>1, RuntimeShapes DEF RuntimeInv
  <2> QED
    BY <2>1, <2>2
<1>2. CASE Issued(t)
  <2>1. UNCHANGED <<auth, amount>>
    BY <1>1, <1>2 DEF IssueStep
  <2> QED
    BY <1>1, <2>1, IdleKeepsGrants
<1>3. CASE ~Issued(t)
  <2>1. /\ auth' = [auth EXCEPT ![t] = new]
        /\ TotalAuthorizedRiskAt(q.issued) + q.risk <= Cap
    BY <1>3 DEF IssueStep
  <2>2. /\ TypeOK /\ now \in Nat /\ Auths = Trades /\ Reservations = Trades
        /\ auth \in [Trades -> {NoAuth} \union Authorization]
        /\ t \in Trades /\ run.since \in Nat /\ run.since <= now
        /\ q.risk \in Nat /\ q.risk > 0 /\ q.issued \in Nat /\ q.life \in Nat
        /\ q.issued <= run.since
    BY <1>1, GrantShapes DEF GrantsInv, AskedInv
  <2>3. /\ auth'[t] = new /\ Issued(t)'
        /\ \A b \in Trades : b # t => auth'[b] = auth[b] /\ (Issued(b)' <=> Issued(b))
    <3>1. auth'[t] = new /\ \A b \in Trades : b # t => auth'[b] = auth[b]
      BY <2>1, <2>2
    <3>2. new # NoAuth
      BY DEF NoAuth
    <3> QED
      BY <1>1, <3>1, <3>2 DEF Issued
  <2>4. FiniteLedger'
    <3>1. { b \in Auths : Issued(b)' } = { b \in Auths : Issued(b) } \union {t}
      BY <1>1, <2>2, <2>3
    <3> QED
      BY <1>1, <3>1, FS_AddElement DEF GrantsInv, FiniteLedger
  <2>5. GrantInv'
    <3>1. ASSUME NEW b \in Trades, Issued(b)'
          PROVE  /\ auth'[b].risk = Request[b].risk
                 /\ auth'[b].issued <= auth'[b].served /\ auth'[b].served <= now'
                 /\ run' # None => auth'[b].served <= run'.since
      <4>1. CASE b = t
        BY <1>1, <2>2, <2>3, <4>1
      <4>2. CASE b # t
        BY <1>1, <2>3, <3>1, <4>2 DEF GrantsInv, GrantInv
      <4> QED
        BY <4>1, <4>2
    <3> QED
      BY <3>1 DEF GrantInv
  <2>6. AskedInv'
    BY <1>1, <2>2 DEF AskedInv
  <2>7. DrawnInv'
    BY <1>1, <1>3, <2>3 DEF GrantsInv, DrawnInv
  <2>8. PromptWithinCap'
    <3> SUFFICES ASSUME Prompt' PROVE AggregateWithinCap'
      BY DEF PromptWithinCap
    <3>1. q.issued = run.since /\ Prompt
      BY <1>1, <1>3, <2>2, <2>3 DEF Prompt
    <3>2. ASSUME NEW b \in InForceAt(now)', b # t
          PROVE  b \in F
      <4>1. /\ b \in Trades /\ Issued(b) /\ now < auth[b].expires
            /\ \A at \in auth[b].revoked : at > now
        BY <1>1, <2>2, <2>3, <3>2 DEF InForceAt
      <4>2. /\ auth[b].expires \in Nat /\ auth[b].issued \in Nat /\ auth[b].revoked \subseteq Nat
        BY <4>1, GrantShapes DEF Authorization
      <4>3. auth[b].issued = auth[b].served /\ auth[b].served <= run.since
        BY <1>1, <2>2, <3>1, <4>1 DEF Prompt, GrantsInv, GrantInv
      <4> QED
        BY <2>2, <3>1, <4>1, <4>2, <4>3 DEF InForceAt
    <3>3. InForceAt(now)' \subseteq F \union {t} /\ t \notin F
      BY <1>3, <3>2 DEF InForceAt
    <3>4. /\ IsFiniteSet(F) /\ F \subseteq Auths
          /\ \A b \in F : RiskOf[b] \in Nat /\ RiskOf'[b] = RiskOf[b]
          /\ TotalAuthorizedRiskAt(q.issued) = SumFunctionOnSet(RiskOf, F)
          /\ RiskOf'[t] = q.risk
      <4>1. /\ IsFiniteSet(F) /\ F \subseteq Auths
            /\ \A b \in Auths : RiskOf[b] \in Nat
            /\ TotalAuthorizedRiskAt(q.issued) = SumFunctionOnSet(RiskOf, F)
        BY <2>2, InForceSum DEF GrantsInv
      <4>2. \A b \in F : b # t
        BY <3>3
      <4>3. \A b \in F : RiskOf'[b] = RiskOf[b]
        BY <2>2, <2>3, <4>1, <4>2 DEF RiskOf
      <4>4. RiskOf'[t] = q.risk
        BY <2>2, <2>3 DEF RiskOf
      <4> HIDE DEF F
      <4> QED
        BY <4>1, <4>3, <4>4
    <3>5. SumFunctionOnSet(RiskOf', F) = SumFunctionOnSet(RiskOf, F)
      <4> HIDE DEF F
      <4> QED
        BY <3>4, SumSame
    <3>6. /\ SumFunctionOnSet(RiskOf', F \union {t}) = q.risk + SumFunctionOnSet(RiskOf', F)
          /\ IsFiniteSet(F \union {t})
      <4> HIDE DEF F, t, q
      <4> QED
        BY <2>2, <3>3, <3>4, SumAdd, FS_AddElement
    <3>7. /\ SumFunctionOnSet(RiskOf', InForceAt(now)')
               <= SumFunctionOnSet(RiskOf', F \union {t})
          /\ SumFunctionOnSet(RiskOf', InForceAt(now)') \in Nat
          /\ SumFunctionOnSet(RiskOf, F) \in Nat
      <4>1. \A b \in F \union {t} : RiskOf'[b] \in Nat
        BY <2>2, <3>4
      <4>2. IsFiniteSet(InForceAt(now)')
        BY <3>3, <3>6, FS_Subset
      <4> HIDE DEF F, t, q
      <4> QED
        BY <3>3, <3>4, <3>6, <4>1, <4>2, SumMonotone, SumNat
    <3>8. TotalAuthorizedRiskAt(now)' = SumFunctionOnSet(RiskOf', InForceAt(now)')
      BY DEF TotalAuthorizedRiskAt, RiskOf
    <3> HIDE DEF F, t, q
    <3> QED
      BY <2>1, <2>2, <3>4, <3>5, <3>6, <3>7, <3>8, AmountsAssumption DEF AggregateWithinCap
  <2> QED
    BY <2>4, <2>5, <2>6, <2>7, <2>8 DEF GrantsInv
<1> QED
  BY <1>2, <1>3

LEMMA ReserveStepKeepsGrants ==
  ASSUME RuntimeInv, GrantsInv, ReserveStep
  PROVE  GrantsInv'
<1>1. /\ run # None /\ run' = [run EXCEPT !.next = "build"]
      /\ UNCHANGED <<now, auth>>
  BY DEF ReserveStep, Then
<1>2. /\ run \in [trade : Trades, next : Steps, since : Time, record : BOOLEAN]
      /\ run'.trade = run.trade /\ run'.since = run.since
  <2>1. run \in [trade : Trades, next : Steps, since : Time, record : BOOLEAN]
    BY <1>1, RuntimeShapes DEF RuntimeInv
  <2> QED
    BY <1>1, <2>1
<1>3. PICK t \in Trades : t = run.trade
  BY <1>2
<1>4. CASE amount[t] > 0
  <2>1. UNCHANGED amount
    BY <1>3, <1>4 DEF ReserveStep
  <2> QED
    BY <1>1, <1>2, <2>1, IdleKeepsGrants
<1>5. CASE ~ (amount[t] > 0)
  <2>1. amount' = [amount EXCEPT ![t] = Request[t].risk] /\ Issued(t)
    BY <1>3, <1>5 DEF ReserveStep, CurrentAt
  <2>2. /\ Reservations = Trades /\ amount \in [Trades -> Risks \union {0}]
        /\ Request[t].risk \in Nat /\ Request[t].risk > 0
        /\ auth[t].risk = Request[t].risk
    BY <2>1, GrantShapes DEF GrantsInv, GrantInv
  <2>3. amount'[t] = auth[t].risk /\ amount'[t] > 0
        /\ \A u \in Trades : u # t => amount'[u] = amount[u]
    BY <2>1, <2>2
  <2>4. FiniteLedger'
    <3>1. /\ { r \in Reservations : amount'[r] > 0 } =
               { r \in Reservations : amount[r] > 0 } \union {t}
          /\ { b \in Auths : Issued(b)' } = { b \in Auths : Issued(b) }
      BY <1>1, <2>2, <2>3 DEF Issued
    <3> QED
      BY <3>1, FS_AddElement DEF GrantsInv, FiniteLedger
  <2>5. DrawnInv'
    BY <1>1, <2>1, <2>3 DEF GrantsInv, DrawnInv, Issued
  <2>6. GrantInv' /\ AskedInv'
    BY <1>1, <1>2 DEF GrantsInv, GrantInv, AskedInv, Issued
  <2>7. PromptWithinCap'
    BY <1>1 DEF GrantsInv, PromptWithinCap, Prompt, AggregateWithinCap,
                TotalAuthorizedRiskAt, InForceAt, Issued
  <2> QED
    BY <2>4, <2>5, <2>6, <2>7 DEF GrantsInv
<1> QED
  BY <1>4, <1>5

LEMMA RevokeKeepsGrants ==
  ASSUME RuntimeInv, GrantsInv, NEW t \in Trades, Revoke(t), UNCHANGED run
  PROVE  GrantsInv'
<1>1. /\ auth' = [auth EXCEPT ![t].revoked = {now}] /\ Issued(t)
      /\ UNCHANGED <<now, amount>>
      /\ TypeOK /\ Auths = Trades /\ Reservations = Trades
      /\ auth \in [Trades -> {NoAuth} \union Authorization]
      /\ auth[t] \in Authorization
  BY GrantShapes DEF Revoke
<1>2. auth' = [auth EXCEPT ![t] = [auth[t] EXCEPT !.revoked = {now}]]
  BY <1>1
<1>3. /\ auth'[t].revoked = {now} /\ Issued(t)'
      /\ auth'[t].risk = auth[t].risk /\ auth'[t].served = auth[t].served
      /\ auth'[t].issued = auth[t].issued /\ auth'[t].expires = auth[t].expires
      /\ \A u \in Trades : u # t => auth'[u] = auth[u]
  <2>1. /\ auth'[t] = [auth[t] EXCEPT !.revoked = {now}]
        /\ \A u \in Trades : u # t => auth'[u] = auth[u]
    BY <1>1, <1>2
  <2>2. auth'[t] \in [risk : Risks, issued : Time, served : Time, expires : Nat,
                      revoked : {{now}}]
    BY <1>1, <2>1 DEF Authorization
  <2>3. auth'[t] # NoAuth
    BY <2>2 DEF NoAuth
  <2> QED
    BY <1>1, <2>1, <2>3 DEF Authorization, Issued
<1>4. \A u \in Trades : /\ Issued(u)' <=> Issued(u)
                        /\ auth'[u].risk = auth[u].risk /\ auth'[u].served = auth[u].served
                        /\ auth'[u].issued = auth[u].issued
  BY <1>1, <1>3 DEF Issued
<1>5. FiniteLedger' /\ DrawnInv' /\ GrantInv' /\ AskedInv'
  <2>1. { b \in Auths : Issued(b)' } = { b \in Auths : Issued(b) }
    BY <1>1, <1>4
  <2> QED
    BY <1>1, <1>4, <2>1 DEF GrantsInv, FiniteLedger, DrawnInv, GrantInv, AskedInv
<1>6. PromptWithinCap'
  <2>1. RiskOf' = RiskOf /\ (Prompt' => Prompt)
    BY <1>1, <1>4 DEF RiskOf, Prompt
  <2>2. InForceAt(now)' \subseteq InForceAt(now)
    <3>1. t \notin InForceAt(now)'
      BY <1>1, <1>3, GrantShapes DEF InForceAt
    <3> QED
      BY <1>1, <1>3, <1>4, <3>1 DEF InForceAt
  <2> QED
    BY <1>1, <2>1, <2>2, CapKept DEF GrantsInv
<1> QED
  BY <1>5, <1>6 DEF GrantsInv

LEMMA RuntimeNextGrants == RuntimeInv /\ GrantsInv /\ [RuntimeNext]_rvars => GrantsInv'
<1> SUFFICES ASSUME RuntimeInv, GrantsInv, [RuntimeNext]_rvars PROVE GrantsInv'
  OBVIOUS
<1>1. run # None => run \in [trade : Trades, next : Steps, since : Time, record : BOOLEAN]
  BY RuntimeShapes DEF RuntimeInv
<1> DEFINE Goes == run # None /\ run'.trade = run.trade /\ run'.since = run.since
<1>2. ASSUME UNCHANGED <<auth, amount, run>>, now' \in {now, now + 1}
      PROVE  GrantsInv'
  BY <1>2, IdleKeepsGrants
<1>3. CASE \/ UNCHANGED rvars
           \/ Clock \/ WriteRecord
           \/ \E t \in Trades :
                \/ Renew(t) \/ Gate(t) \/ Close(t)
                \/ IngestSubmission(t) \/ IngestUnknown(t) \/ Settle(t)
           \/ \E state \in {"ALLOW", "DENY"} : SetKillSwitch(state)
           \/ \E e \in EAs :
                \/ Claim(e) \/ TraceSubmission(e) \/ Send(e) \/ TraceOutcome(e) \/ Leave(e)
  <2>1. UNCHANGED <<auth, amount, run>> /\ now' \in {now, now + 1}
    BY <1>3
       DEF rvars, vars, capital, files, Clock, Tick, WriteRecord, Renew, Gate, Close,
           IngestSubmission, IngestUnknown, Settle, SetKillSwitch, Claim, TraceSubmission,
           Send, TraceOutcome, Leave
  <2> QED
    BY <1>2, <2>1
<1>4. ASSUME NEW t \in Trades, Operator(t)
      PROVE  GrantsInv'
  <2>1. CASE Revoke(t)
    BY <1>4, <2>1, RevokeKeepsGrants DEF Operator
  <2>2. CASE ReleasePreExecution(t)
    BY <1>2, <1>4, <2>2 DEF Operator, ReleasePreExecution
  <2> QED
    BY <1>4, <2>1, <2>2 DEF Operator
<1>5. ASSUME NEW t \in Trades, NEW record \in BOOLEAN, Start(t, record)
      PROVE  GrantsInv'
  <2>1. /\ run' = [trade |-> t, next |-> "PROPOSED", since |-> now, record |-> record]
        /\ Request[t].issued <= now
        /\ UNCHANGED <<auth, amount, now>>
    BY <1>5 DEF Start, Fresh, vars, capital
  <2>2. run'.trade = t /\ run'.since = now
    BY <2>1
  <2> QED
    BY <2>1, <2>2, IdleKeepsGrants
<1>6. CASE \/ AppendState("PROPOSED", "VALIDATED")
           \/ AppendState("VALIDATED", "RISK_RESERVED")
           \/ AppendState("RISK_RESERVED", "issue")
           \/ AuthorizeStep \/ BuildStep
           \/ EnvelopeStep \/ RecordStep \/ Abort
  <2>1. UNCHANGED <<auth, amount, now>>
    BY <1>6 DEF AppendState, AuthorizeStep, BuildStep, EnvelopeStep, RecordStep, Abort,
                vars, capital
  <2>2. run' = None \/ (run # None /\ \E step \in Steps : Then(step))
    <3>1. CASE RecordStep \/ Abort
      BY <3>1 DEF RecordStep, Abort, Finish
    <3>2. CASE EnvelopeStep
      BY <3>2 DEF EnvelopeStep, Finish, Steps
    <3>3. CASE ~ (RecordStep \/ Abort \/ EnvelopeStep)
      BY <1>6, <3>3 DEF AppendState, AuthorizeStep, BuildStep, Steps
    <3> QED
      BY <3>1, <3>2, <3>3
  <2>3. run' = None \/ Goes
    BY <1>1, <2>2 DEF Then
  <2> QED
    BY <2>1, <2>3, IdleKeepsGrants
<1> QED
  BY <1>3, <1>4, <1>5, <1>6, IssueStepKeepsGrants, ReserveStepKeepsGrants DEF RuntimeNext

(* Every grant is what a request asked for, and what is reserved is what   *)
(* was granted.                                                            *)
THEOREM RuntimeGrants == RuntimeSpec => []GrantsInv
BY InitGrantsInv, RuntimeNextGrants, RuntimeInvariant, PTL DEF RuntimeSpec

(* As long as every run begins at the moment its request was signed, the   *)
(* cap holds, although the clock goes on between a run's start and its     *)
(* grant.                                                                  *)
THEOREM RuntimeCapHoldsWhenPrompt == RuntimeSpec => []PromptWithinCap
<1>1. GrantsInv => PromptWithinCap
  BY DEF GrantsInv
<1> QED
  BY <1>1, RuntimeGrants, PTL

(* While any outcome is unresolved the control plane grants, reserves and  *)
(* publishes nothing, whatever its run had got to.                         *)
THEOREM RuntimeAddsNoRisk ==
  RuntimeSpec => [][blocked # {} =>
                      /\ \A t \in Trades : Issued(t)' => Issued(t)
                      /\ amount' = amount /\ envelopes' = envelopes]_rvars
<1> DEFINE Still == /\ \A t \in Trades : Issued(t)' => Issued(t)
                    /\ amount' = amount /\ envelopes' = envelopes
<1>1. ASSUME RuntimeInv, RuntimeNext, blocked # {}
      PROVE  Still
  <2>1. CASE IssueStep \/ ReserveStep \/ EnvelopeStep
    <3>1. ~EnvelopeStep
      BY <1>1 DEF EnvelopeStep, RuntimeInv, RunInv, RiskAllowed
    <3> QED
      BY <1>1, <2>1, <3>1 DEF IssueStep, ReserveStep, RiskAllowed, Issued
  <2>2. CASE \E t \in Trades : Operator(t)
    <3>1. PICK t \in Trades : Operator(t)
      BY <2>2
    <3>2. amount' = amount /\ envelopes' = envelopes
      BY <3>1 DEF Operator, Revoke, ReleasePreExecution
    <3>3. ASSUME NEW u \in Trades, Issued(u)' PROVE Issued(u)
      <4>1. auth' = auth \/ (Issued(t) /\ auth' = [auth EXCEPT ![t].revoked = {now}])
        BY <3>1 DEF Operator, Revoke, ReleasePreExecution
      <4>2. auth \in [Trades -> {NoAuth} \union Authorization]
        BY <1>1, GrantShapes
      <4>3. CASE u = t /\ Issued(t)
        BY <4>3
      <4>4. CASE ~ (u = t /\ Issued(t))
        <5>1. auth'[u] = auth[u]
          BY <4>1, <4>2, <4>4
        <5> QED
          BY <3>3, <5>1 DEF Issued
      <4> QED
        BY <4>3, <4>4
    <3> QED
      BY <3>2, <3>3
  <2>3. CASE ~ (IssueStep \/ ReserveStep \/ EnvelopeStep \/ \E t \in Trades : Operator(t))
    <3>1. UNCHANGED <<auth, amount, envelopes>>
      BY <1>1, <2>3
         DEF RuntimeNext, vars, capital, Clock, Tick, Start, Renew, Gate, Close,
             IngestSubmission, IngestUnknown, Settle, AppendState, AuthorizeStep, BuildStep,
             RecordStep, Abort, WriteRecord, SetKillSwitch, Claim, TraceSubmission, Send,
             TraceOutcome, Leave
    <3> QED
      BY <3>1 DEF Issued
  <2> QED
    BY <2>1, <2>2, <2>3
<1>2. RuntimeInv /\ [RuntimeNext]_rvars => [blocked # {} => Still]_rvars
  BY <1>1
<1> QED
  BY <1>2, RuntimeInvariant, PTL DEF RuntimeSpec
------------------------------------------------------------------------------
(* What an order stands on.  The advisor, the files and the ledger each    *)
(* know a part; the parts agree.                                           *)

(* An attempt past its gate has set its key, and before the send no order  *)
(* of its trade is out.                                                    *)
AttemptInv ==
  \A e \in EAs : ea[e] # None =>
    /\ EaOf[ea[e].trade] = e
    /\ ea[e].at # "gated" => ea[e].trade \in burned
    /\ ea[e].at \in {"claimed", "traced"} => ea[e].trade \notin orders

(* Whatever is about to be in a record has its envelope, and an envelope   *)
(* its grant and its reservation.                                          *)
PublishedInv ==
  /\ \A t \in envelopes : Issued(t) /\ amount[t] > 0
  /\ writer # None => writer.trade \in envelopes
  /\ \A e \in EAs : records[e] # None => records[e].trade \in envelopes
  /\ run # None /\ run.next = "record" => run.trade \in envelopes

(* A position comes from an order, an order from an attempt, an attempt    *)
(* from an envelope; a trace is of an attempt, and so is what the ledger   *)
(* has as submitted.                                                       *)
ChainInv ==
  /\ open \subseteq orders /\ orders \subseteq burned /\ burned \subseteq envelopes
  /\ \A t \in Trades : trace[t] # {} \/ Submitted(t) => t \in burned

EvidenceInv == AttemptInv /\ PublishedInv /\ ChainInv

LEMMA InitEvidenceInv == RuntimeInit => EvidenceInv
BY DEF RuntimeInit, EvidenceInv, AttemptInv, PublishedInv, ChainInv, Submitted, NoState

(* The terminal's steps.  Only the advisor a trade is for attempts it, and *)
(* only with its key unset.                                                *)
LEMMA TerminalKeepsEvidence ==
  ASSUME RuntimeInv, EvidenceInv, UNCHANGED <<vars, run, writer, records>>,
         \/ \E t \in Trades : Gate(t) \/ Close(t)
         \/ \E e \in EAs :
              \/ Claim(e) \/ TraceSubmission(e) \/ Send(e) \/ TraceOutcome(e) \/ Leave(e)
  PROVE  EvidenceInv'
<1>1. /\ AttemptInv /\ PublishedInv /\ ChainInv
      /\ UNCHANGED <<status, blocked, now, auth, amount, released, envelopes, used>>
      /\ ea \in [EAs -> {None} \union
                   [trade : Trades, at : {"gated", "claimed", "traced", "done", "unknown"}]]
      /\ trace \in [Trades -> SUBSET Lines]
  BY DEF EvidenceInv, vars, capital, RuntimeInv, RuntimeTypeOK
<1>2. PublishedInv'
  BY <1>1 DEF PublishedInv, Issued
<1>3. \A t \in Trades : Submitted(t)' <=> Submitted(t)
  BY <1>1 DEF Submitted
<1>4. ASSUME NEW t \in Trades, Gate(t)
      PROVE  AttemptInv' /\ ChainInv'
  <2>1. /\ EaOf[t] \in EAs /\ ea' = [ea EXCEPT ![EaOf[t]] = [trade |-> t, at |-> "gated"]]
        /\ UNCHANGED <<burned, trace, orders, open>>
    BY <1>4, RequestAssumption DEF Gate
  <2> QED
    BY <1>1, <1>3, <2>1 DEF AttemptInv, ChainInv
<1>5. ASSUME NEW t \in Trades, Close(t)
      PROVE  AttemptInv' /\ ChainInv'
  BY <1>1, <1>3, <1>5 DEF Close, AttemptInv, ChainInv
<1>6. ASSUME NEW e \in EAs,
             \/ Claim(e) \/ TraceSubmission(e) \/ Send(e) \/ TraceOutcome(e) \/ Leave(e)
      PROVE  AttemptInv' /\ ChainInv'
  <2>1. PICK t \in Trades :
          /\ t = ea[e].trade /\ ea[e] # None /\ EaOf[t] = e
          /\ ea[e] \in [trade : Trades, at : {"gated", "claimed", "traced", "done", "unknown"}]
    BY <1>1, <1>6 DEF Claim, TraceSubmission, Send, TraceOutcome, Leave, AttemptInv
  <2>2. ASSUME NEW d \in EAs, d # e, ea[d] # None
        PROVE  ea[d].trade # t
    BY <1>1, <2>1, <2>2 DEF AttemptInv
  <2>3. CASE Claim(e)
    <3>1. CASE Accepts(e)
      <4>1. /\ ea' = [ea EXCEPT ![e].at = "claimed"] /\ burned' = burned \union {t}
            /\ UNCHANGED <<trace, orders, open>>
            /\ t \notin burned /\ t \in envelopes
        BY <1>1, <2>1, <2>3, <3>1 DEF Claim, Accepts, PublishedInv
      <4>2. /\ ea'[e].at = "claimed" /\ ea'[e].trade = t
            /\ \A d \in EAs : d # e => ea'[d] = ea[d]
        BY <1>1, <2>1, <4>1
      <4>3. t \notin orders
        BY <1>1, <4>1 DEF ChainInv
      <4>4. AttemptInv'
        BY <1>1, <2>1, <4>1, <4>2, <4>3 DEF AttemptInv
      <4>5. ChainInv'
        BY <1>1, <1>3, <4>1 DEF ChainInv
      <4> QED
        BY <4>4, <4>5
    <3>2. CASE ~Accepts(e)
      BY <1>1, <1>3, <2>3, <3>2 DEF Claim, AttemptInv, ChainInv
    <3> QED
      BY <3>1, <3>2
  <2>4. CASE TraceSubmission(e)
    <3>1. /\ ea' = [ea EXCEPT ![e].at = "traced"] /\ ea[e].at = "claimed"
          /\ Wrote(t, "ORDER_SUBMITTED") /\ UNCHANGED <<burned, orders, open>>
      BY <2>1, <2>4 DEF TraceSubmission
    <3>2. /\ ea'[e].at = "traced" /\ ea'[e].trade = t
          /\ \A d \in EAs : d # e => ea'[d] = ea[d]
      BY <1>1, <2>1, <3>1
    <3>3. t \in burned /\ t \notin orders
      BY <1>1, <2>1, <3>1 DEF AttemptInv
    <3>4. \A u \in Trades : u # t => trace'[u] = trace[u]
      BY <1>1, <3>1 DEF Wrote
    <3>5. AttemptInv'
      BY <1>1, <2>1, <3>1, <3>2, <3>3 DEF AttemptInv
    <3>6. ChainInv'
      BY <1>1, <1>3, <3>1, <3>3, <3>4 DEF ChainInv
    <3> QED
      BY <3>5, <3>6
  <2>5. CASE Send(e)
    <3>1. /\ \E x \in {"done", "unknown"} : ea' = [ea EXCEPT ![e].at = x]
          /\ ea[e].at = "traced"
          /\ orders' = orders \union {t} /\ open' \subseteq open \union {t}
          /\ UNCHANGED <<burned, trace>>
      BY <2>1, <2>5 DEF Send
    <3>2. /\ ea'[e].at \in {"done", "unknown"} /\ ea'[e].trade = t
          /\ \A d \in EAs : d # e => ea'[d] = ea[d]
      BY <1>1, <2>1, <3>1
    <3>3. t \in burned
      BY <1>1, <2>1, <3>1 DEF AttemptInv
    <3>4. AttemptInv'
      BY <1>1, <2>1, <2>2, <3>1, <3>2, <3>3 DEF AttemptInv
    <3>5. ChainInv'
      BY <1>1, <1>3, <3>1, <3>3 DEF ChainInv
    <3> QED
      BY <3>4, <3>5
  <2>6. CASE TraceOutcome(e)
    <3>1. /\ ea' = [ea EXCEPT ![e] = None] /\ ea[e].at # "gated"
          /\ \E line \in Lines : Wrote(t, line)
          /\ UNCHANGED <<burned, orders, open>>
      BY <2>1, <2>6 DEF TraceOutcome, Lines
    <3>2. t \in burned
      BY <1>1, <2>1, <3>1 DEF AttemptInv
    <3>3. \A u \in Trades : u # t => trace'[u] = trace[u]
      BY <1>1, <3>1 DEF Wrote
    <3> QED
      BY <1>1, <1>3, <3>1, <3>2, <3>3 DEF AttemptInv, ChainInv
  <2>7. CASE Leave(e)
    BY <1>1, <1>3, <2>7 DEF Leave, AttemptInv, ChainInv
  <2> QED
    BY <1>6, <2>3, <2>4, <2>5, <2>6, <2>7
<1> QED
  BY <1>2, <1>4, <1>5, <1>6 DEF EvidenceInv

(* The steps beside the terminal, as far as they matter here: what is      *)
(* published stays, what is new has been granted and reserved, and the     *)
(* ledger learns of a submission from a trace.                             *)
LEMMA BesideTerminalKeepsEvidence ==
  ASSUME RuntimeInv, EvidenceInv, UNCHANGED advisor, RuntimeInv',
         \A t \in Trades : Issued(t) => Issued(t)',
         \A t \in Trades : amount[t] > 0 => amount'[t] > 0,
         envelopes \subseteq envelopes',
         \A t \in envelopes' \ envelopes : Issued(t) /\ amount[t] > 0,
         \A t \in Trades : Submitted(t)' => Submitted(t) \/ trace[t] # {},
         writer' # None => writer' = writer \/ writer'.trade \in envelopes,
         \A e \in EAs : records'[e] # None => \/ records'[e] = records[e]
                                             \/ records'[e].trade \in envelopes,
         run' # None /\ run'.next = "record" => run' = run \/ run'.trade \in envelopes'
  PROVE  EvidenceInv'
<1>1. /\ AttemptInv /\ PublishedInv /\ ChainInv
      /\ envelopes' \subseteq Trades
  BY OneRequestAssumption DEF EvidenceInv, RuntimeInv, RuntimeTypeOK, TypeOK
<1>2. AttemptInv'
  BY <1>1 DEF AttemptInv, advisor
<1>3. PublishedInv'
  BY <1>1 DEF PublishedInv
<1>4. ChainInv'
  BY <1>1 DEF ChainInv, advisor
<1> QED
  BY <1>2, <1>3, <1>4 DEF EvidenceInv

(* A grant and a reservation, once in the ledger, stay there.              *)
LEMMA GrantsStay ==
  ASSUME RuntimeInv, RuntimeNext
  PROVE  /\ \A t \in Trades : Issued(t) => Issued(t)'
         /\ \A t \in Trades : amount[t] > 0 => amount'[t] > 0
<1>1. /\ auth \in [Trades -> {NoAuth} \union Authorization]
      /\ amount \in [Trades -> Risks \union {0}]
      /\ \A t \in Trades : Request[t].risk > 0
  BY GrantShapes
<1>2. CASE IssueStep
  <2>1. amount' = amount
    BY <1>2 DEF IssueStep
  <2>2. ASSUME NEW t \in Trades, Issued(t) PROVE Issued(t)'
    <3>1. auth'[t] = auth[t]
      BY <1>1, <1>2, <2>2 DEF IssueStep
    <3> QED
      BY <2>2, <3>1 DEF Issued
  <2> QED
    BY <2>1, <2>2
<1>3. CASE ReserveStep
  BY <1>1, <1>3 DEF ReserveStep, Issued
<1>4. CASE \E t \in Trades : Operator(t)
  <2>1. PICK t \in Trades : Operator(t)
    BY <1>4
  <2>2. amount' = amount
    BY <2>1 DEF Operator, Revoke, ReleasePreExecution
  <2>3. CASE Revoke(t)
    <3>1. /\ auth' = [auth EXCEPT ![t] = [auth[t] EXCEPT !.revoked = {now}]]
          /\ auth[t] \in Authorization
      BY <2>3, GrantShapes DEF Revoke
    <3>2. Issued(t)'
      <4>1. auth'[t] \in [risk : Risks, issued : Time, served : Time, expires : Nat,
                          revoked : {{now}}]
        BY <1>1, <3>1 DEF Authorization
      <4> QED
        BY <4>1 DEF Issued, NoAuth
    <3>3. \A u \in Trades : u # t => auth'[u] = auth[u]
      BY <1>1, <3>1
    <3> QED
      BY <2>2, <3>2, <3>3 DEF Issued
  <2>4. CASE ReleasePreExecution(t)
    BY <2>2, <2>4 DEF ReleasePreExecution, Issued
  <2> QED
    BY <2>1, <2>3, <2>4 DEF Operator
<1>5. CASE ~ (IssueStep \/ ReserveStep \/ \E t \in Trades : Operator(t))
  <2>1. UNCHANGED <<auth, amount>>
    BY <1>5
       DEF RuntimeNext, vars, capital, Clock, Tick, Start, Renew, Gate, Close,
           IngestSubmission, IngestUnknown, Settle, AppendState, AuthorizeStep, BuildStep,
           EnvelopeStep, RecordStep, Abort, WriteRecord, SetKillSwitch, Claim,
           TraceSubmission, Send, TraceOutcome, Leave
  <2> QED
    BY <2>1 DEF Issued
<1> QED
  BY <1>2, <1>3, <1>4, <1>5

(* What the ledger newly has as submitted was in a trace.                  *)
LEMMA SubmittedFromTrace ==
  ASSUME RuntimeInv, RuntimeNext, NEW t \in Trades, Submitted(t)', ~Submitted(t)
  PROVE  trace[t] # {}
<1>1. run # None => run.trade \in Trades
  BY GrantShapes DEF TypeOK
<1>2. JournalTypeOK
  BY GrantShapes DEF TypeOK
<1>3. ASSUME NEW u \in Trades,
             NEW s \in {"PROPOSED", "VALIDATED", "RISK_RESERVED", "AUTHORIZED"},
             NEW ty, Journal(Ev(u, s, ty))
      PROVE  FALSE
  <2>1. /\ \A v \in Trades : v # u => status'[v] = status[v]
        /\ status'[u] = s
    <3>1. s \in STATES /\ s # NoState
      BY DEF STATES, NoState
    <3> QED
      BY <1>2, <1>3, <3>1, JournalTypes
  <2> QED
    BY <2>1 DEF Submitted
<1>4. CASE \/ AppendState("PROPOSED", "VALIDATED")
           \/ AppendState("VALIDATED", "RISK_RESERVED")
           \/ AppendState("RISK_RESERVED", "issue")
           \/ AuthorizeStep
  <2>1. run.trade \in Trades
    BY <1>1, <1>2, <1>4 DEF AppendState, AuthorizeStep
  <2>2. UNCHANGED status
    BY <1>3, <1>4, <2>1 DEF AppendState, AuthorizeStep
  <2> QED
    BY <2>2 DEF Submitted
<1>5. ASSUME NEW u \in Trades, IngestSubmission(u) \/ IngestUnknown(u)
      PROVE  trace[t] # {}
  <2>1. trace[u] # {} /\ \A v \in Trades : v # u => status'[v] = status[v]
    <3>1. CASE IngestSubmission(u)
      <4>1. "ORDER_SUBMITTED" \in STATES
        BY DEF STATES
      <4> QED
        BY <1>2, <3>1, <4>1, JournalTypes DEF IngestSubmission
    <3>2. CASE IngestUnknown(u)
      BY <1>2, <3>2, JournalTypes DEF IngestUnknown
    <3> QED
      BY <1>5, <3>1, <3>2
  <2> QED
    BY <2>1 DEF Submitted
<1>6. ASSUME NEW u \in Trades, Settle(u)
      PROVE  FALSE
  BY <1>2, <1>6 DEF Settle, Submitted, JournalTypeOK
<1>7. CASE ~ (\/ AppendState("PROPOSED", "VALIDATED")
              \/ AppendState("VALIDATED", "RISK_RESERVED")
              \/ AppendState("RISK_RESERVED", "issue")
              \/ AuthorizeStep
              \/ \E u \in Trades : IngestSubmission(u) \/ IngestUnknown(u) \/ Settle(u))
  <2>1. UNCHANGED status
    BY <1>7
       DEF RuntimeNext, vars, capital, Clock, Tick, Start, Renew, Gate, Close, Operator,
           Revoke, ReleasePreExecution, IssueStep, ReserveStep, BuildStep, EnvelopeStep,
           RecordStep, Abort, WriteRecord, SetKillSwitch, Claim, TraceSubmission, Send,
           TraceOutcome, Leave
  <2> QED
    BY <2>1 DEF Submitted
<1> QED
  BY <1>4, <1>5, <1>6, <1>7

LEMMA RuntimeNextEvidence ==
  RuntimeInv /\ RuntimeInv' /\ EvidenceInv /\ [RuntimeNext]_rvars => EvidenceInv'
<1> SUFFICES ASSUME RuntimeInv, RuntimeInv', EvidenceInv, [RuntimeNext]_rvars
             PROVE  EvidenceInv'
  OBVIOUS
<1> DEFINE Terminal ==
      \/ \E t \in Trades : Gate(t) \/ Close(t)
      \/ \E e \in EAs :
           \/ Claim(e) \/ TraceSubmission(e) \/ Send(e) \/ TraceOutcome(e) \/ Leave(e)
<1>1. CASE UNCHANGED rvars
  BY <1>1 DEF rvars, vars, capital, files, advisor, EvidenceInv, AttemptInv, PublishedInv,
              ChainInv, Issued, Submitted
<1>2. CASE Terminal
  <2>1. UNCHANGED <<vars, run, writer, records>>
    BY <1>2 DEF Gate, Close, Claim, TraceSubmission, Send, TraceOutcome, Leave, files
  <2> QED
    BY <1>2, <2>1, TerminalKeepsEvidence
<1>3. CASE RuntimeNext /\ ~Terminal
  <2>1. UNCHANGED advisor
    BY <1>3
       DEF RuntimeNext, Clock, Start, Renew, IngestSubmission, IngestUnknown, Settle,
           Operator, AppendState, AuthorizeStep, IssueStep, ReserveStep, BuildStep,
           EnvelopeStep, RecordStep, Abort, WriteRecord, SetKillSwitch
  <2>2. /\ envelopes \subseteq envelopes'
        /\ \A t \in envelopes' \ envelopes : Issued(t) /\ amount[t] > 0
        /\ run' # None /\ run'.next = "record" => run' = run \/ run'.trade \in envelopes'
    <3>1. run # None => run \in [trade : Trades, next : Steps, since : Time, record : BOOLEAN]
      BY RuntimeShapes DEF RuntimeInv
    <3>2. CASE EnvelopeStep
      <4>1. envelopes' = envelopes \union {run.trade}
            /\ Issued(run.trade) /\ amount[run.trade] > 0
        BY <3>2 DEF EnvelopeStep, RuntimeInv, RunInv, CurrentAt, Reserved
      <4>2. run' = None \/ run'.trade = run.trade
        BY <3>1, <3>2 DEF EnvelopeStep, Then, Finish
      <4> QED
        BY <4>1, <4>2
    <3>3. CASE ~EnvelopeStep
      <4>1. UNCHANGED envelopes
        BY <1>3, <3>3
           DEF RuntimeNext, vars, capital, Clock, Tick, Start, Renew, IngestSubmission,
               IngestUnknown, Settle, Operator, Revoke, ReleasePreExecution, AppendState,
               AuthorizeStep, IssueStep, ReserveStep, BuildStep, RecordStep, Abort,
               WriteRecord, SetKillSwitch
      <4>2. \/ run' = run \/ run' = None
            \/ \E t \in Trades, record \in BOOLEAN : Start(t, record)
            \/ run # None /\ \E step \in Steps \ {"record"} : Then(step)
        <5>1. CASE \/ AppendState("PROPOSED", "VALIDATED")
                   \/ AppendState("VALIDATED", "RISK_RESERVED")
                   \/ AppendState("RISK_RESERVED", "issue")
                   \/ AuthorizeStep \/ IssueStep \/ ReserveStep \/ BuildStep
          BY <5>1 DEF AppendState, AuthorizeStep, IssueStep, ReserveStep, BuildStep, Steps
        <5>2. CASE ~ (\/ AppendState("PROPOSED", "VALIDATED")
                      \/ AppendState("VALIDATED", "RISK_RESERVED")
                      \/ AppendState("RISK_RESERVED", "issue")
                      \/ AuthorizeStep \/ IssueStep \/ ReserveStep \/ BuildStep)
          BY <1>3, <3>3, <5>2
             DEF RuntimeNext, Clock, Renew, IngestSubmission, IngestUnknown, Settle,
                 Operator, RecordStep, Abort, Finish, WriteRecord, SetKillSwitch
        <5> QED
          BY <5>1, <5>2
      <4>3. run' # None /\ run'.next = "record" => run' = run
        BY <3>1, <4>2 DEF Start, Then, Steps
      <4> QED
        BY <4>1, <4>3
    <3> QED
      BY <3>2, <3>3
  <2>3. /\ writer' # None => writer' = writer \/ writer'.trade \in envelopes
        /\ \A e \in EAs : records'[e] # None => \/ records'[e] = records[e]
                                                \/ records'[e].trade \in envelopes
    <3>1. records \in [EAs -> {None} \union Stamps] /\ PublishedInv
      BY DEF RuntimeInv, StampInv, EvidenceInv
    <3>2. CASE \E t \in Trades : Renew(t)
      BY <3>2 DEF Renew
    <3>3. CASE WriteRecord
      BY <3>1, <3>3 DEF WriteRecord, PublishedInv
    <3>4. CASE RecordStep
      BY <3>1, <3>4 DEF RecordStep, PublishedInv
    <3>5. CASE ~ (WriteRecord \/ RecordStep \/ \E t \in Trades : Renew(t))
      <4>1. UNCHANGED <<writer, records>>
        BY <1>3, <3>5
           DEF RuntimeNext, files, Clock, Start, IngestSubmission, IngestUnknown, Settle,
               Operator, AppendState, AuthorizeStep, IssueStep, ReserveStep, BuildStep,
               EnvelopeStep, Abort, SetKillSwitch
      <4> QED
        BY <4>1
    <3> QED
      BY <3>2, <3>3, <3>4, <3>5
  <2> QED
    BY <1>3, <2>1, <2>2, <2>3, GrantsStay, SubmittedFromTrace, BesideTerminalKeepsEvidence
<1> QED
  BY <1>1, <1>2, <1>3

LEMMA RuntimeEvidence == RuntimeSpec => []EvidenceInv
BY InitEvidenceInv, RuntimeNextEvidence, RuntimeInvariant, PTL DEF RuntimeSpec

(* Nothing is at the broker that the chain from request to order does not  *)
(* account for: every position is of an order, every order of an attempt,  *)
(* every attempt of an envelope with a grant and a reservation, and the    *)
(* ledger calls no trade submitted that was not attempted.                 *)
THEOREM OrdersAreAccountedFor ==
  RuntimeSpec => [](/\ open \subseteq orders /\ orders \subseteq burned
                    /\ burned \subseteq envelopes
                    /\ \A t \in envelopes : Issued(t) /\ amount[t] > 0
                    /\ \A t \in Trades : Submitted(t) => t \in burned)
<1>1. EvidenceInv => /\ open \subseteq orders /\ orders \subseteq burned
                     /\ burned \subseteq envelopes
                     /\ \A t \in envelopes : Issued(t) /\ amount[t] > 0
                     /\ \A t \in Trades : Submitted(t) => t \in burned
  BY DEF EvidenceInv, PublishedInv, ChainInv
<1> QED
  BY <1>1, RuntimeEvidence, PTL

(* However many advisors there are, and however often records are renewed  *)
(* and attempts left: an order for a trade is sent once.                   *)
THEOREM OneOrderOfATrade ==
  RuntimeSpec => [][\A e \in EAs : Send(e) => ea[e].trade \notin orders]_rvars
<1>1. EvidenceInv /\ [RuntimeNext]_rvars =>
        [\A e \in EAs : Send(e) => ea[e].trade \notin orders]_rvars
  BY DEF EvidenceInv, AttemptInv, Send
<1> QED
  BY <1>1, RuntimeEvidence, PTL DEF RuntimeSpec
==============================================================================
