---------------------------- MODULE TradeLifecycle ----------------------------
(***************************************************************************)
(* What the ledger promises its readers, with no log, no keys and no       *)
(* process: every trade walks the constitutional lifecycle, and a trade    *)
(* whose broker outcome is in doubt blocks new risk until it is            *)
(* reconciled.  Restarts and retries are invisible here.                   *)
(***************************************************************************)
EXTENDS LedgerOps

CONSTANT Trades

VARIABLES
  status,    \* the lifecycle state of each trade
  blocked    \* the trades whose broker outcome is in doubt

lifecycle == <<status, blocked>>

Init ==
  /\ status = [t \in Trades |-> NoState]
  /\ blocked = {}

(* A trade moves to a legal next state.  A rejection puts it in doubt, a   *)
(* reconciliation settles it, a recovered rejection or acceptance may also *)
(* be journalled as a doubtful broker event.                               *)
Advance(t, s) ==
  /\ s # NoState
  /\ Moves(status[t], s)
  /\ status' = [status EXCEPT ![t] = s]
  /\ \/ blocked' = blocked \union {t}
     \/ s = "RECONCILED" /\ blocked' = blocked \ {t}
     \/ s \notin {"REJECTED", "RECONCILED"} /\ blocked' = blocked

(* The broker's answer for t is missing, partial, pending or contradictory.*)
Doubt(t) ==
  /\ blocked' = blocked \union {t}
  /\ UNCHANGED status

Next ==
  \E t \in Trades : Doubt(t) \/ \E s \in STATES : Advance(t, s)

Spec == Init /\ [][Next]_lifecycle
==============================================================================
