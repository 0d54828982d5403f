--------------------------- MODULE MCBrokerExecution ---------------------------
(***************************************************************************)
(* Two trades, each an order of two units, so that a fill can be partial.  *)
(***************************************************************************)
EXTENDS BrokerExecution

MCTrades == {"a", "b"}
MCVolume == 2
================================================================================
