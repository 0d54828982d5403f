---------------------------- MODULE MCTraceIngest ----------------------------
(***************************************************************************)
(* Trade t waits for its authorization, trade u is open.  The advisor's    *)
(* lines, written in any order and any number of times: t submitted, its   *)
(* outcome unknown, accepted; u "closed"; and lines with a fault: a state  *)
(* that is no observation, the id or the key of another record, a field    *)
(* too many.  Between two ingests t may be authorised, and a recovery may  *)
(* journal its verdict on t before the advisor's own is taken, a rejection *)
(* even under an id that the advisor uses.                                 *)
(***************************************************************************)
EXTENDS TraceIngest

MCEvent(t, i, s, k, prev) ==
  [seq |-> i, id |-> k, trade |-> t, state |-> s, type |-> s, key |-> <<k>>,
   payload |-> "", prev |-> prev]
MCHistory ==
  << MCEvent("t", 1, "PROPOSED", "t1", <<>>),
     MCEvent("t", 2, "VALIDATED", "t2", <<"t1">>),
     MCEvent("t", 3, "RISK_RESERVED", "t3", <<"t2">>),
     MCEvent("u", 4, "PROPOSED", "u1", <<"t3">>),
     MCEvent("u", 5, "VALIDATED", "u2", <<"u1">>),
     MCEvent("u", 6, "RISK_RESERVED", "u3", <<"u2">>),
     MCEvent("u", 7, "AUTHORIZED", "u4", <<"u3">>),
     MCEvent("u", 8, "ORDER_SUBMITTED", "u5", <<"u4">>),
     MCEvent("u", 9, "ACCEPTED", "u6", <<"u5">>),
     MCEvent("u", 10, "FILLED", "u7", <<"u6">>),
     MCEvent("u", 11, "OPEN", "u8", <<"u7">>) >>

MCRequest(t, s, k) ==
  [id |-> k, trade |-> t, state |-> s, type |-> s, key |-> <<k>>, payload |-> ""]
MCOthers == { MCRequest("t", "AUTHORIZED", "t4"),
              MCRequest("t", "ACCEPTED", "t5"),
              [MCRequest("t", "REJECTED", "t6") EXCEPT !.id = "y1"],
              MCRequest("u", "RECONCILED", "u9") }

MCRecord(t, s, ty, k) ==
  [id |-> k, trade |-> t, state |-> s, type |-> ty, key |-> <<k>>,
   payload |-> "", fits |-> TRUE]
MCSubmitted == MCRecord("t", "ORDER_SUBMITTED", "ORDER_SUBMITTED", "x1")
MCAccepted == MCRecord("t", "ACCEPTED", "ACCEPTED", "x2")
MCUnknown == MCRecord("t", "ORDER_SUBMITTED", "BROKER_OUTCOME_UNKNOWN", "x3")
MCClosed == MCRecord("u", "CLOSED", "closed", "y1")

MCUpper(type) == IF type = "closed" THEN "CLOSED" ELSE type

MCRecords ==
  { MCSubmitted, MCAccepted, MCUnknown, MCClosed,
    MCRecord("t", "AUTHORIZED", "AUTHORIZED", "x0"),
    [MCAccepted EXCEPT !.key = <<"x4">>, !.id = "x1"],
    [MCSubmitted EXCEPT !.payload = "other"],
    [MCSubmitted EXCEPT !.id = "y1"],
    [MCAccepted EXCEPT !.key = <<"x5">>, !.id = "x5", !.fits = FALSE] }
==============================================================================
