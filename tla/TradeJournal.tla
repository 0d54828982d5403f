----------------------------- MODULE TradeJournal -----------------------------
(***************************************************************************)
(* The ledger as its clients in one process see it: the state of each      *)
(* trade, the trades that block new risk, and the append of one event.     *)
(* Module TradeLedger shows that the log, its keys and its restarts come   *)
(* down to this (ImplementsLifecycle).  The components of the execution    *)
(* path EXTEND this module and share its variables.                        *)
(***************************************************************************)
EXTENDS LedgerOps

CONSTANT Trades

VARIABLES
  status,     \* the journalled lifecycle state of each trade
  blocked     \* the trades whose unresolved broker outcome blocks new risk

JournalTypeOK ==
  /\ status \in [Trades -> STATES \union {NoState}]
  /\ blocked \subseteq Trades

Ev(t, s, ty) == [trade |-> t, state |-> s, type |-> ty]

(* An event moves its trade and updates the unresolved set.                *)
Journal(e) ==
  /\ Moves(status[e.trade], e.state)
  /\ status' = IF e.state = NoState THEN status
               ELSE [status EXCEPT ![e.trade] = e.state]
  /\ blocked' = UnresolvedAfter(blocked, e)

(* assert_no_unresolved_reconciliation                                     *)
RiskAllowed == blocked = {}

(* The trade has an ORDER_SUBMITTED event.                                 *)
Submitted(t) == status[t] \notin
  { NoState, "PROPOSED", "VALIDATED", "RISK_RESERVED", "AUTHORIZED" }

Lifecycle == INSTANCE TradeLifecycle

(* Every event journalled is a step of the trade lifecycle or leaves it    *)
(* alone, and only a reconciliation lifts a block.                         *)
FollowsLifecycle == [][Lifecycle!Next]_<<status, blocked>>
==============================================================================
