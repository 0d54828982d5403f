---------------------------- MODULE MCHybridSafety ----------------------------
(***************************************************************************)
(* Two days, a halt of two bars after two losses, two trades a day and a   *)
(* daily loss of two deals; two deals may wait for their handler.          *)
(***************************************************************************)
EXTENDS HybridSafety
==============================================================================
