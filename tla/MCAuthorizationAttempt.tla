------------------------ MODULE MCAuthorizationAttempt ------------------------
(***************************************************************************)
(* Two authorizations, published in any order and again: one is for a      *)
(* chart of its own, the other for a symbol with two charts of the same    *)
(* advisor.  A third order under one authorization shows nothing new.      *)
(***************************************************************************)
EXTENDS AuthorizationAttempt

MCCharts == {"chart1", "chart2", "chart3"}
MCAuths == {"A", "B"}
MCChartsOf == [a \in MCAuths |-> IF a = "A" THEN {"chart1"}
                                ELSE {"chart2", "chart3"}]
===============================================================================
