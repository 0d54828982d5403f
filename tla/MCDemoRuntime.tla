---------------------------- MODULE MCDemoRuntime ----------------------------
(* Two trades of one advisor, one authorization long and the other     *)
(* short.                                                              *)
EXTENDS DemoRuntime

CONSTANTS t1, t2, e1

MCTrades == {t1, t2}
MCTradeOf == [t \in MCTrades |-> t]
MCEaOf == [t \in MCTrades |-> e1]
MCRequest ==
  [t \in MCTrades |-> IF t = t1 THEN [risk |-> 1, issued |-> 0, life |-> 3]
                                ELSE [risk |-> 1, issued |-> 0, life |-> 1]]
=============================================================================
