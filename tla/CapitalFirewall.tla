---------------------------- MODULE CapitalFirewall ----------------------------
(***************************************************************************)
(* Who may risk how much (tools/capital_firewall_v1.py), up to the moment  *)
(* an order leaves (tools/runtime_authorization_envelope_v1.py and         *)
(* tools/execution_admission_v1.py): authorizations that expire and are    *)
(* revoked, reservations against them, envelopes built now and used later. *)
(*                                                                         *)
(* Every operation answers a repeated idempotency key with what it did the *)
(* first time and changes nothing, so only first calls are actions.  An    *)
(* authorization id names the pair (trade, authorization) of the code, a   *)
(* reservation id the pair (authorization, reservation).                   *)
(***************************************************************************)
EXTENDS TradeJournal, Functions

CONSTANTS
  Auths,          \* authorization ids, and the trade each is issued for
  TradeOf,
  Reservations,   \* reservation ids, and the authorization each is made under
  AuthOf,
  Risks,          \* the amounts of risk that are asked for
  Cap,            \* max_authorized_risk
  Lifetimes,      \* how long authorizations are issued for
  MaxAge,         \* how old a request's issuance time may be when it is served
  MaxTime         \* where the clock of the model stops

ASSUME IdsAssumption ==
  /\ TradeOf \in [Auths -> Trades]
  /\ AuthOf \in [Reservations -> Auths]
ASSUME AmountsAssumption ==
  /\ Risks \subseteq Nat \ {0} /\ Lifetimes \subseteq Nat \ {0}
  /\ Cap \in Nat /\ MaxAge \in Nat /\ MaxTime \in Nat

VARIABLES
  now,         \* the time callers pass as now_utc
  auth,        \* the CAPITAL_AUTHORIZATION_ISSUED and _REVOKED events
  amount,      \* the CAPITAL_RESERVATION_CREATED events: 0 is none
  released,    \* reservations with a CAPITAL_RESERVATION_RELEASED event
  envelopes,   \* reservations a runtime envelope was built for
  used         \* the ORDER_SUBMITTED events of a trade: reservation and time

capital == <<auth, amount, released, envelopes, used>>
vars == <<status, blocked, now, capital>>

Time == 0 .. MaxTime
NoAuth == [risk |-> 0]
(* served, when the request was served, is not in the code's event.        *)
Authorization == [risk : Risks, issued : Time, served : Time, expires : Nat,
                  revoked : SUBSET Time]
Order == [res : Reservations, at : Time]

Issued(a) == auth[a] # NoAuth

TypeOK ==
  /\ JournalTypeOK
  /\ now \in Time
  /\ auth \in [Auths -> {NoAuth} \union Authorization]
  /\ amount \in [Reservations -> Risks \union {0}]
  /\ released \subseteq Reservations
  /\ envelopes \subseteq Reservations
  /\ used \in [Trades -> SUBSET Order]

(* The control plane has journalled PROPOSED, VALIDATED, RISK_RESERVED.    *)
Init ==
  /\ status = [t \in Trades |-> "RISK_RESERVED"]
  /\ blocked = {}
  /\ now = 0
  /\ auth = [a \in Auths |-> NoAuth]
  /\ amount = [r \in Reservations |-> 0]
  /\ released = {}
  /\ envelopes = {}
  /\ used = [t \in Trades |-> {}]

------------------------------------------------------------------------------
Revoked(a) == auth[a].revoked # {}
Expired(a) == now >= auth[a].expires

(* _assert_authorization_current                                           *)
Current(a) == Issued(a) /\ ~Revoked(a) /\ ~Expired(a)

(* Authorizations whose risk counts at a moment.                           *)
InForceAt(time) ==
  { a \in Auths :
      /\ Issued(a)
      /\ auth[a].issued <= time /\ time < auth[a].expires
      /\ \A at \in auth[a].revoked : at > time }

TotalAuthorizedRiskAt(time) ==
  SumFunctionOnSet([a \in Auths |-> auth[a].risk], InForceAt(time))

Reserved(r) == amount[r] > 0 /\ r \notin released
Active(a) == { r \in Reservations : Reserved(r) /\ AuthOf[r] = a }

ActiveReservedAmount(a) == SumFunctionOnSet(amount, Active(a))

------------------------------------------------------------------------------
Tick ==
  /\ now < MaxTime
  /\ now' = now + 1
  /\ UNCHANGED <<status, blocked, capital>>

(* Mutant: each authorization is compared with the cap by itself.          *)
Issue_AloneWithinCap(a, risk, issued, life) ==
  /\ ~Issued(a)
  /\ issued <= now /\ now <= issued + MaxAge
  /\ risk <= Cap
  /\ RiskAllowed
  /\ status[TradeOf[a]] = "RISK_RESERVED"
  /\ auth' = [auth EXCEPT ![a] = [risk |-> risk, issued |-> issued, served |-> now,
                                  expires |-> issued + life, revoked |-> {}]]
  /\ UNCHANGED <<status, blocked, now, amount, released, envelopes, used>>

(* issue_authorization.  The cap is tested at the authorization's own time *)
(* of issuance, which the caller takes from the admission request.         *)
Issue(a, risk, issued, life) ==
  /\ ~Issued(a)
  /\ issued <= now /\ now <= issued + MaxAge
  /\ risk <= Cap
  /\ TotalAuthorizedRiskAt(issued) + risk <= Cap
  /\ RiskAllowed
  /\ status[TradeOf[a]] = "RISK_RESERVED"
  /\ auth' = [auth EXCEPT ![a] = [risk |-> risk, issued |-> issued, served |-> now,
                                  expires |-> issued + life, revoked |-> {}]]
  /\ UNCHANGED <<status, blocked, now, amount, released, envelopes, used>>

(* authorize_trade                                                         *)
Authorize(a) ==
  /\ RiskAllowed
  /\ Current(a)
  /\ status[TradeOf[a]] = "RISK_RESERVED"
  /\ Journal(Ev(TradeOf[a], "AUTHORIZED", "TRADE_AUTHORIZED"))
  /\ UNCHANGED <<now, capital>>

(* revoke_authorization: an expired authorization can be revoked as well.  *)
Revoke(a) ==
  /\ Issued(a) /\ ~Revoked(a)
  /\ now >= auth[a].issued
  /\ RiskAllowed
  /\ status[TradeOf[a]] \in {"AUTHORIZED", "ORDER_SUBMITTED", "ACCEPTED"}
  /\ auth' = [auth EXCEPT ![a].revoked = {now}]
  /\ UNCHANGED <<status, blocked, now, amount, released, envelopes, used>>

(* Mutant: the other reservations of the authorization are not added.      *)
Reserve_ItsOwnAmount(r, n) ==
  LET a == AuthOf[r] IN
  /\ amount[r] = 0
  /\ RiskAllowed
  /\ Current(a)
  /\ status[TradeOf[a]] = "AUTHORIZED"
  /\ n <= auth[a].risk
  /\ amount' = [amount EXCEPT ![r] = n]
  /\ UNCHANGED <<status, blocked, now, auth, released, envelopes, used>>

(* reserve: a reservation id is used once, released or not.                *)
Reserve(r, n) ==
  LET a == AuthOf[r] IN
  /\ amount[r] = 0
  /\ RiskAllowed
  /\ Current(a)
  /\ status[TradeOf[a]] = "AUTHORIZED"
  /\ n <= auth[a].risk
  /\ ActiveReservedAmount(a) + n <= auth[a].risk
  /\ amount' = [amount EXCEPT ![r] = n]
  /\ UNCHANGED <<status, blocked, now, auth, released, envelopes, used>>

(* assert_execution_allowed, for the amount of one reservation.            *)
ExecutionAllowed(r) ==
  LET a == AuthOf[r] IN
  /\ RiskAllowed
  /\ Current(a)
  /\ status[TradeOf[a]] = "AUTHORIZED"
  /\ amount[r] <= auth[a].risk
  /\ ActiveReservedAmount(a) >= amount[r]

BuildEnvelope(r) ==
  /\ Reserved(r)
  /\ ExecutionAllowed(r)
  /\ envelopes' = envelopes \union {r}
  /\ UNCHANGED <<status, blocked, now, auth, amount, released, used>>

(* Mutant: the envelope is believed until it expires.                      *)
Admitted_OnItsFace(r) ==
  /\ r \in envelopes
  /\ ~Expired(AuthOf[r])
  /\ status[TradeOf[AuthOf[r]]] = "AUTHORIZED"

(* check_execution_admission: an envelope, however old, is held against    *)
(* what the ledger says now.                                               *)
Admitted(r) ==
  /\ r \in envelopes
  /\ Reserved(r)
  /\ ExecutionAllowed(r)

Submit(r) ==
  LET t == TradeOf[AuthOf[r]] IN
  /\ Admitted(r)
  /\ Journal(Ev(t, "ORDER_SUBMITTED", "ORDER_SUBMITTED"))
  /\ used' = [used EXCEPT ![t] = @ \union {[res |-> r, at |-> now]}]
  /\ UNCHANGED <<now, auth, amount, released, envelopes>>

(* What the broker, the trace and the reconciliation journal afterwards.   *)
OutcomeEvents(t) ==
  { Ev(t, s, s) : s \in STATES } \union { Ev(t, NoState, "BROKER_OUTCOME_UNKNOWN") }

Outcome(t) ==
  /\ Submitted(t)
  /\ \E e \in OutcomeEvents(t) : Journal(e)
  /\ UNCHANGED <<now, capital>>

(* Mutant: the trade's state and its order are not looked at.              *)
ReleasePreExecution_AnyTime(r) ==
  /\ RiskAllowed
  /\ Issued(AuthOf[r]) /\ Revoked(AuthOf[r])
  /\ amount[r] > 0
  /\ released' = released \union {r}
  /\ UNCHANGED <<status, blocked, now, auth, amount, envelopes, used>>

(* release_pre_execution                                                   *)
ReleasePreExecution(r) ==
  LET t == TradeOf[AuthOf[r]] IN
  /\ RiskAllowed
  /\ Issued(AuthOf[r]) /\ Revoked(AuthOf[r])
  /\ used[t] = {}
  /\ status[t] = "AUTHORIZED"
  /\ amount[r] > 0
  /\ released' = released \union {r}
  /\ UNCHANGED <<status, blocked, now, auth, amount, envelopes, used>>

(* release                                                                 *)
Release(r) ==
  /\ RiskAllowed
  /\ status[TradeOf[AuthOf[r]]] \in {"CLOSED", "RECONCILED"}
  /\ amount[r] > 0
  /\ released' = released \union {r}
  /\ UNCHANGED <<status, blocked, now, auth, amount, envelopes, used>>

Next ==
  \/ Tick
  \/ \E a \in Auths :
       \/ \E risk \in Risks, issued \in Time, life \in Lifetimes :
            Issue(a, risk, issued, life)
       \/ Authorize(a) \/ Revoke(a)
  \/ \E r \in Reservations :
       \/ \E n \in Risks : Reserve(r, n)
       \/ BuildEnvelope(r) \/ Submit(r)
       \/ ReleasePreExecution(r) \/ Release(r)
  \/ \E t \in Trades : Outcome(t)

Spec == Init /\ [][Next]_vars
------------------------------------------------------------------------------
(* No order without authority: the authorization an order was submitted    *)
(* under had been issued for that trade, and had neither expired nor been  *)
(* revoked by then, whenever the envelope was built.                       *)
ExecutedUnderAuthority ==
  \A t \in Trades :
    /\ Submitted(t) <=> used[t] # {}
    /\ \A o \in used[t] : LET a == AuthOf[o.res] IN
         /\ TradeOf[a] = t /\ Issued(a)
         /\ auth[a].issued <= o.at /\ o.at < auth[a].expires
         /\ \A at \in auth[a].revoked : o.at <= at

(* Capital stays reserved while it is at risk: the reservation an order    *)
(* was submitted under is not released before the trade is closed, or      *)
(* rejected and reconciled.                                                *)
HeldWhileExposed ==
  \A t \in Trades : status[t] \notin {"CLOSED", "RECONCILED"} =>
    \A o \in used[t] : amount[o.res] > 0 /\ o.res \notin released

(* Reservations in force never exceed the authorization they draw on.      *)
ReservedWithinAuthorized ==
  \A a \in Auths : Issued(a) => ActiveReservedAmount(a) <= auth[a].risk

(* While any trade's outcome is unresolved nothing adds risk: no           *)
(* authorization, reservation, envelope or order.                          *)
BlockedAddsNoRisk ==
  [][blocked # {} =>
       /\ \A a \in Auths : ~Issued(a) => ~Issued(a)'
       /\ \A r \in Reservations : amount'[r] = amount[r]
       /\ \A t \in Trades : Submitted(t)' => Submitted(t)
       /\ envelopes' = envelopes]_vars

(* The global cap: what is authorised and in force never adds up to more.  *)
AggregateWithinCap == TotalAuthorizedRiskAt(now) <= Cap

(* It takes a request served late to exceed it, whatever expires or is     *)
(* revoked and issued again.                                               *)
Prompt == \A a \in Auths : Issued(a) => auth[a].issued = auth[a].served
PromptWithinCap == Prompt => AggregateWithinCap
==============================================================================
