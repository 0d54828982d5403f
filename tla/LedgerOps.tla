------------------------------ MODULE LedgerOps ------------------------------
(***************************************************************************)
(* The vocabulary of tools/trade_ledger_v1.py: the constitutional trade    *)
(* states, what a journalled event is, and the functions of an event log   *)
(* that every component of the execution path reads.  Nothing here is a    *)
(* state machine; the components that keep a log EXTEND this module.       *)
(*                                                                         *)
(* An event keeps the fields the code decides on.  Its payload is one      *)
(* value, the sha256 chain is the pair (position, previous key): two       *)
(* events hash alike exactly when they are the same event.                 *)
(***************************************************************************)
EXTENDS Naturals, Sequences

STATES == { "PROPOSED", "VALIDATED", "RISK_RESERVED", "AUTHORIZED",
            "ORDER_SUBMITTED", "REJECTED", "ACCEPTED", "FILLED", "OPEN",
            "MANAGED", "CLOSED", "RECONCILED" }

NoState == "NONE"   \* state None: the event does not move the trade

ALLOWED_TRANSITIONS ==
  { <<"PROPOSED", "VALIDATED">>,
    <<"VALIDATED", "RISK_RESERVED">>,
    <<"RISK_RESERVED", "AUTHORIZED">>,
    <<"AUTHORIZED", "ORDER_SUBMITTED">>,
    <<"ORDER_SUBMITTED", "ACCEPTED">>,
    <<"ORDER_SUBMITTED", "REJECTED">>,
    <<"REJECTED", "RECONCILED">>,
    <<"ACCEPTED", "FILLED">>,
    <<"FILLED", "OPEN">>,
    <<"OPEN", "MANAGED">>,
    <<"OPEN", "CLOSED">>,
    <<"MANAGED", "MANAGED">>,
    <<"MANAGED", "CLOSED">>,
    <<"CLOSED", "RECONCILED">> }

UNRESOLVED_BROKER_EVENTS ==
  { "RECONCILIATION_EXCEPTION", "BROKER_OUTCOME_UNKNOWN",
    "BROKER_PARTIAL_EXECUTION_OBSERVED", "BROKER_ORDER_REJECTED",
    "BROKER_ORDER_PENDING", "BROKER_OUTCOME_OBSERVATION_RECOVERY" }

(* The events of t that carry a state, and the last of them.               *)
StatefulOf(log, t) ==
  { i \in DOMAIN log : log[i].trade = t /\ log[i].state # NoState }

LastStateful(log, t) ==
  CHOOSE i \in StatefulOf(log, t) : \A j \in StatefulOf(log, t) : j <= i

(* state_of: the state of the last event of t that carries one.            *)
StateOf(log, t) ==
  IF StatefulOf(log, t) = {} THEN NoState ELSE log[LastStateful(log, t)].state

(* The transition check that append makes before it writes and that a load *)
(* repeats for every record.                                               *)
Moves(cur, s) ==
  \/ s = NoState
  \/ cur = NoState /\ s = "PROPOSED"
  \/ <<cur, s>> \in ALLOWED_TRANSITIONS

Raises(e) == e.type \in UNRESOLVED_BROKER_EVENTS \/ e.state = "REJECTED"
Clears(e) == ~Raises(e) /\ e.state = "RECONCILED"

(* Mutants: a rejection is forgotten; the event's type is recorded instead *)
(* of its trade.                                                           *)
UnresolvedAfter_NoRejected(blocked, e) ==
  IF e.type \in UNRESOLVED_BROKER_EVENTS THEN blocked \union {e.trade}
  ELSE IF Clears(e) THEN blocked \ {e.trade} ELSE blocked
UnresolvedAfter_ByType(blocked, e) ==
  IF Raises(e) THEN blocked \union {e.type} ELSE blocked

(* The incremental update of _unresolved_reconciliation after one event.   *)
UnresolvedAfter(blocked, e) ==
  IF Raises(e) THEN blocked \union {e.trade}
  ELSE IF Clears(e) THEN blocked \ {e.trade}
  ELSE blocked

(* Mutant: only the last event of a trade decides.                         *)
UnresolvedOf_LastEvent(log) ==
  { log[i].trade : i \in { i \in DOMAIN log :
      Raises(log[i]) /\ \A j \in DOMAIN log :
        j > i => log[j].trade # log[i].trade } }

(* The set a load rebuilds by running that update over the whole file: the *)
(* trades with a raising event that no later RECONCILED event cleared.     *)
UnresolvedOf(log) ==
  { log[i].trade : i \in { i \in DOMAIN log :
      /\ Raises(log[i])
      /\ \A j \in DOMAIN log :
           j > i /\ log[j].trade = log[i].trade => ~Clears(log[j]) } }

HasKey(log, k) == \E i \in DOMAIN log : log[i].key = k

(* Which key an event's previous_hash stands for; <<>> is the genesis hash.*)
LastKey(log) == IF log = <<>> THEN <<>> ELSE log[Len(log)].key

(* A request to append, as the event that record would become.             *)
AsEvent(log, r) ==
  [seq |-> Len(log) + 1, id |-> r.id, trade |-> r.trade, state |-> r.state,
   type |-> r.type, key |-> r.key, payload |-> r.payload,
   prev |-> LastKey(log)]

(* The checks of append.  A request whose event_id another key holds is an *)
(* error; a key already present is answered with the stored event, or      *)
(* refused when the request means something else, and nothing changes; a   *)
(* new key must be a legal move.                                           *)
IdReused(log, r) ==
  \E i \in DOMAIN log : log[i].id = r.id /\ log[i].key # r.key

(* Mutant: append no longer looks for the event id.                        *)
CanAppend_NoIdCheck(log, r) ==
  ~HasKey(log, r.key) /\ Moves(StateOf(log, r.trade), r.state)

CanAppend(log, r) ==
  /\ ~IdReused(log, r)
  /\ ~HasKey(log, r.key)
  /\ Moves(StateOf(log, r.trade), r.state)

(* _load_and_verify accepts a file exactly when every record continues the *)
(* sequence and the chain, no key or id repeats, and each state is a legal *)
(* successor of the trade's state before it.                               *)
LoadAccepts(log) ==
  /\ \A i \in DOMAIN log :
       /\ log[i].seq = i
       /\ log[i].prev = LastKey(SubSeq(log, 1, i - 1))
       /\ Moves(StateOf(SubSeq(log, 1, i - 1), log[i].trade), log[i].state)
  /\ \A i, j \in DOMAIN log :
       i # j => log[i].key # log[j].key /\ log[i].id # log[j].id
==============================================================================
