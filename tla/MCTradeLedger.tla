---------------------------- MODULE MCTradeLedger ----------------------------
(***************************************************************************)
(* Two trades.  "a" can walk the whole lifecycle, with two managements,    *)
(* an unknown broker outcome at any time and both endings; "b" is put in   *)
(* doubt beside it.  Two requests are callers' mistakes: a key reused with *)
(* another payload, an event id reused with another key.                   *)
(***************************************************************************)
EXTENDS TradeLedger

Req(t, s, ty, k) ==
  [trade |-> t, state |-> s, type |-> ty, payload |-> <<k>>,
   key |-> <<t, k>>, id |-> <<t, k>>]

MCTokens == STRING
MCTrades == {"a", "b"}

Pending == Req("b", NoState, "BROKER_ORDER_PENDING", "PENDING")

MCRequests ==
  { Req("a", s, s, s) : s \in STATES \ {"RECONCILED"} }
  \union { Req("a", "MANAGED", "MANAGED", "MANAGED_2"),
           Req("a", NoState, "BROKER_OUTCOME_UNKNOWN", "UNKNOWN"),
           Pending, [Pending EXCEPT !.payload = <<"other">>],
           [Pending EXCEPT !.key = <<"b", "PENDING_2">>] }

MCChecks ==
  { [trade |-> "a", observed |-> o, expected |-> "flat",
     key |-> <<"a", "rec">>, id |-> <<"a", "rec">>] : o \in {"flat", "long"} }
==============================================================================
