----------------------------- MODULE MCLedgerFile -----------------------------
(***************************************************************************)
(* A trade that is authorised when we start to look, and requests to       *)
(* submit it, under two different keys, to put its outcome in doubt and to *)
(* conclude it.                                                            *)
(***************************************************************************)
EXTENDS LedgerFile

MCTrades == {"t"}

MCRecord(i, s) ==
  [seq |-> i, id |-> s, trade |-> "t", state |-> s, type |-> s, key |-> s,
   payload |-> "", prev |-> <<>>]
MCStates == <<"PROPOSED", "VALIDATED", "RISK_RESERVED", "AUTHORIZED">>
MCHistory ==
  [i \in 1 .. 4 |-> [MCRecord(i, MCStates[i]) EXCEPT
     !.prev = IF i = 1 THEN <<>> ELSE MCStates[i - 1]]]

MCRequest(s, ty) ==
  [id |-> ty, trade |-> "t", state |-> s, type |-> ty, key |-> ty,
   payload |-> ""]
MCRequests ==
  { MCRequest("ORDER_SUBMITTED", "ORDER_SUBMITTED"),
    [MCRequest("ORDER_SUBMITTED", "ORDER_SUBMITTED")
       EXCEPT !.id = "AGAIN", !.key = "AGAIN"],
    MCRequest(NoState, "BROKER_OUTCOME_UNKNOWN"),
    MCRequest("REJECTED", "BROKER_ORDER_REJECTED") }
===============================================================================
