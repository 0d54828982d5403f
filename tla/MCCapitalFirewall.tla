--------------------------- MODULE MCCapitalFirewall ---------------------------
(***************************************************************************)
(* Two trades.  The first has two reservations under one authorization,    *)
(* the second an authorization that the first's outcome may block; the cap *)
(* admits both authorizations together except when each asks for two.      *)
(***************************************************************************)
EXTENDS CapitalFirewall

MCTrades == {"t", "u"}
MCAuths == {"A", "B"}
MCTradeOf == [a \in MCAuths |-> IF a = "A" THEN "t" ELSE "u"]
MCReservations == {"A1", "A2"}
MCAuthOf == [r \in MCReservations |-> "A"]
MCOneReservation == {"B1"}
MCAuthOfOne == [r \in MCOneReservation |-> "B"]
MCRisks == {1, 2}
MCLifetimes == {2}
================================================================================
