---------------------------- MODULE BrokerExecution ----------------------------
(***************************************************************************)
(* One order between the control plane and the broker: the execution       *)
(* adapter (tools/mt5_execution_adapter_v1.py), the terminal gateway it    *)
(* calls, the broker behind it, the read-only observation that settles an  *)
(* order whose outcome is in doubt, and the process dying at any point.    *)
(*                                                                         *)
(* The ledger is its journal (module TradeJournal): what is journalled is  *)
(* durable, and a restart reads back exactly that.  Everything else a call *)
(* holds is lost with the process.  Trades arrive authorised; whether      *)
(* capital authority still stands is the subject of CapitalFirewall.       *)
(***************************************************************************)
EXTENDS TradeJournal

CONSTANT
  Volume      \* the units of volume each order asks for

ASSUME VolumeAssumption == Volume \in Nat \ {0}

VARIABLES
  call,       \* the call the one process is in: a trade, how far, an answer
  order,      \* each trade's order as the broker has it
  filled,     \* the units of it the broker has executed
  sends       \* how often order_send was called for the trade

vars == <<status, blocked, call, order, filled, sends>>

Answers == { "ACCEPTED", "REJECTED", "PARTIAL", "PENDING", "RAISED", "INVALID" }
Verdicts == { "ACCEPTED", "REJECTED", "UNSETTLED" }
OrderStates == { "none", "transit", "live", "filled", "rejected", "cancelled" }

Idle == [step |-> "idle"]
Calls ==
  {Idle}
  \union [step : {"intended", "sending"}, trade : Trades]
  \union [step : {"answered"}, trade : Trades, answer : Answers]
  \union [step : {"observed"}, trade : Trades, answer : Verdicts]

TypeOK ==
  /\ JournalTypeOK
  /\ call \in Calls
  /\ order \in [Trades -> OrderStates]
  /\ filled \in [Trades -> 0 .. Volume]
  /\ sends \in [Trades -> Nat]

Init ==
  /\ status = [t \in Trades |-> "AUTHORIZED"]
  /\ blocked = {}
  /\ call = Idle
  /\ order = [t \in Trades |-> "none"]
  /\ filled = [t \in Trades |-> 0]
  /\ sends = [t \in Trades |-> 0]

------------------------------------------------------------------------------
(* submit                                                                  *)

(* Mutant: the state of the trade is not consulted.                        *)
Submittable_AnyState(t) == RiskAllowed

(* What submit checks once the request is admitted: a retry of a trade     *)
(* that is past AUTHORIZED would find its key in the ledger and go on to   *)
(* the broker, so the state is checked here.                               *)
Submittable(t) == status[t] = "AUTHORIZED" /\ RiskAllowed

(* Mutant: the order goes out first, the intent is journalled with it.     *)
Intend_AfterSend(t) ==
  /\ call = Idle
  /\ Submittable(t)
  /\ call' = [step |-> "sending", trade |-> t]
  /\ order' = [order EXCEPT ![t] = "transit"]
  /\ sends' = [sends EXCEPT ![t] = @ + 1]
  /\ UNCHANGED <<status, blocked, filled>>

(* The intent is durable before any broker I/O.  An intent already         *)
(* journalled under the same key is answered with the stored event.        *)
Intend(t) ==
  /\ call = Idle
  /\ Submittable(t)
  /\ status' = IF Submitted(t) THEN status
               ELSE [status EXCEPT ![t] = "ORDER_SUBMITTED"]
  /\ call' = [step |-> "intended", trade |-> t]
  /\ UNCHANGED <<blocked, order, filled, sends>>

(* The gateway gives up before order_send (an exception from any of its    *)
(* preparations), or order_check refuses the order.                        *)
GatewayRefuses(t) ==
  /\ call = [step |-> "intended", trade |-> t]
  /\ \E a \in {"RAISED", "REJECTED"} :
       call' = [step |-> "answered", trade |-> t, answer |-> a]
  /\ UNCHANGED <<status, blocked, order, filled, sends>>

Send(t) ==
  /\ call = [step |-> "intended", trade |-> t]
  /\ call' = [step |-> "sending", trade |-> t]
  /\ order' = [order EXCEPT ![t] = "transit"]
  /\ sends' = [sends EXCEPT ![t] = @ + 1]
  /\ UNCHANGED <<status, blocked, filled>>

(* Mutant: a done retcode is an acceptance whatever volume it reports.     *)
GatewayAnswers_DoneIsFull(t) ==
  {"RAISED", "REJECTED"}
  \union (IF order[t] \in {"live", "filled", "cancelled"} THEN {"PENDING"} ELSE {})
  \union (IF filled[t] > 0 THEN {"ACCEPTED"} ELSE {})
  \union (IF filled[t] \in 1 .. Volume - 1 THEN {"PARTIAL", "INVALID"} ELSE {})

(* What the gateway can make of order_send.  Whatever became of the order, *)
(* it may raise (an exception, no result, done without the full fill), and *)
(* it may report a rejection: every return code other than done, partial   *)
(* and placed is one, a timeout or a lost connection as well as a refusal. *)
(* A placed retcode describes an earlier moment than the order's state.    *)
(* INVALID is a response that the adapter's validation refuses.            *)
GatewayAnswers(t) ==
  {"RAISED", "REJECTED"}
  \union (IF order[t] \in {"live", "filled", "cancelled"} THEN {"PENDING"} ELSE {})
  \union (IF order[t] = "filled" THEN {"ACCEPTED"} ELSE {})
  \union (IF filled[t] \in 1 .. Volume - 1 THEN {"PARTIAL", "INVALID"} ELSE {})

Return(t) ==
  /\ call = [step |-> "sending", trade |-> t]
  /\ \E a \in GatewayAnswers(t) :
       call' = [step |-> "answered", trade |-> t, answer |-> a]
  /\ UNCHANGED <<status, blocked, order, filled, sends>>

OutcomeEvent(t, a) ==
  CASE a = "ACCEPTED" -> Ev(t, "ACCEPTED", "ACCEPTED")
    [] a = "REJECTED" -> Ev(t, "REJECTED", "BROKER_ORDER_REJECTED")
    [] a = "PARTIAL"  -> Ev(t, NoState, "BROKER_PARTIAL_EXECUTION_OBSERVED")
    [] a = "PENDING"  -> Ev(t, NoState, "BROKER_ORDER_PENDING")
    [] a = "RAISED"   -> Ev(t, NoState, "BROKER_OUTCOME_UNKNOWN")

Conclude(t) ==
  /\ call.step = "answered" /\ call.trade = t
  /\ call.answer # "INVALID"
  /\ Journal(OutcomeEvent(t, call.answer))
  /\ call' = Idle
  /\ UNCHANGED <<order, filled, sends>>

(* A response that fails validation, or an outcome the journal refuses to  *)
(* write: submit raises and nothing is journalled.                         *)
ConcludeUnjournalled(t) ==
  /\ call.step = "answered" /\ call.trade = t
  /\ call' = Idle
  /\ UNCHANGED <<status, blocked, order, filled, sends>>

------------------------------------------------------------------------------
(* The broker                                                              *)

(* A sent order reaches the broker, or never does.                         *)
Arrive(t) ==
  /\ order[t] = "transit"
  /\ \E o \in {"none", "live", "rejected"} : order' = [order EXCEPT ![t] = o]
  /\ UNCHANGED <<status, blocked, call, filled, sends>>

Fill(t) ==
  /\ order[t] = "live"
  /\ filled' = [filled EXCEPT ![t] = @ + 1]
  /\ order' = [order EXCEPT ![t] = IF filled[t] + 1 = Volume THEN "filled" ELSE @]
  /\ UNCHANGED <<status, blocked, call, sends>>

(* Cancelled or expired, with or without executed volume.                  *)
Cancel(t) ==
  /\ order[t] = "live"
  /\ order' = [order EXCEPT ![t] = "cancelled"]
  /\ UNCHANGED <<status, blocked, call, filled, sends>>

------------------------------------------------------------------------------
(* observe_and_resolve                                                     *)

Final(t) == order[t] \in {"filled", "rejected", "cancelled"}

(* Mutants: a cancelled order is read as still open; a cancelled order is  *)
(* read as unfilled whatever its deals say.                                *)
Observation_NoCancel(t) ==
  CASE order[t] = "filled" -> "ACCEPTED"
    [] order[t] = "rejected" -> "REJECTED"
    [] OTHER -> "UNSETTLED"
Observation_StateOnly(t) ==
  CASE order[t] = "filled" -> "ACCEPTED"
    [] order[t] \in {"rejected", "cancelled"} -> "REJECTED"
    [] OTHER -> "UNSETTLED"

(* observe_order: the history first, and with it the deals.  An order that *)
(* is not in the history is PENDING or UNKNOWN, one that is there with     *)
(* part of its volume PARTIAL: all of these are journalled alike.          *)
Observation(t) ==
  CASE Final(t) /\ filled[t] = Volume -> "ACCEPTED"
    [] Final(t) /\ filled[t] = 0 -> "REJECTED"
    [] OTHER -> "UNSETTLED"

Observe(t) ==
  /\ call = Idle
  /\ status[t] = "ORDER_SUBMITTED"
  /\ call' = [step |-> "observed", trade |-> t, answer |-> Observation(t)]
  /\ UNCHANGED <<status, blocked, order, filled, sends>>

ResolutionEvent(t, a) ==
  CASE a = "ACCEPTED"  -> Ev(t, "ACCEPTED", "BROKER_ACCEPTED_RECOVERY")
    [] a = "REJECTED"  -> Ev(t, "REJECTED", "BROKER_REJECTED_RECOVERY")
    [] a = "UNSETTLED" -> Ev(t, NoState, "BROKER_OUTCOME_OBSERVATION_RECOVERY")

Resolve(t) ==
  /\ call.step = "observed" /\ call.trade = t
  /\ Journal(ResolutionEvent(t, call.answer))
  /\ call' = Idle
  /\ UNCHANGED <<order, filled, sends>>

------------------------------------------------------------------------------
(* What follows in the trade's life, and the process dying.                *)

(* The runtime trace of the position is ingested.  The other events that a *)
(* trace may have, ORDER_SUBMITTED, ACCEPTED and the outcomes, are about   *)
(* an order its writer sent itself (TraceIngest); this one is submit's.    *)
Trace(t, s) ==
  /\ call = Idle
  /\ s \in {"FILLED", "OPEN", "MANAGED", "CLOSED"}
  /\ Journal(Ev(t, s, s))
  /\ UNCHANGED <<call, order, filled, sends>>

(* Expected and observed broker snapshots agree, or they do not.           *)
Reconcile(t) ==
  /\ call = Idle
  /\ status[t] \in {"CLOSED", "REJECTED"}
  /\ \E e \in { Ev(t, "RECONCILED", "RECONCILED"),
                Ev(t, NoState, "RECONCILIATION_EXCEPTION") } : Journal(e)
  /\ UNCHANGED <<call, order, filled, sends>>

(* The process dies in a call and is started again: what was journalled    *)
(* is read back, what the call knew is gone.                               *)
Crash ==
  /\ call # Idle
  /\ call' = Idle
  /\ UNCHANGED <<status, blocked, order, filled, sends>>

Adapter(t) ==
  \/ Intend(t) \/ GatewayRefuses(t) \/ Send(t) \/ Return(t)
  \/ Conclude(t) \/ ConcludeUnjournalled(t)

Broker(t) == Arrive(t) \/ Fill(t) \/ Cancel(t)

Next ==
  \/ Crash
  \/ \E t \in Trades :
       \/ Adapter(t) \/ Broker(t)
       \/ Observe(t) \/ Resolve(t)
       \/ \E s \in STATES : Trace(t, s)
       \/ Reconcile(t)

Spec == Init /\ [][Next]_vars

(* submit is sequential code with bounded waits: a call goes on, or dies.  *)
CallsEnd == WF_vars(Crash \/ \E t \in Trades : Adapter(t))

(* The operator keeps running observe_and_resolve for a submitted trade,   *)
(* and is not stopped every single time between looking and journalling.   *)
RecoveryIsRun ==
  \A t \in Trades : SF_vars(Observe(t)) /\ SF_vars(Resolve(t))

FairSpec == Spec /\ CallsEnd /\ RecoveryIsRun
------------------------------------------------------------------------------
(* At most one order per trade ever leaves for the broker, over crashes,   *)
(* late answers, recovery and repeated calls of submit.                    *)
SendOnce == \A t \in Trades : sends[t] <= 1

(* An order the broker may have is journalled as submitted, so a restart   *)
(* at any point knows that it must be asked about.                         *)
IntentBeforeSend ==
  \A t \in Trades : sends[t] > 0 \/ order[t] # "none" => Submitted(t)

(* How far the ledger can be believed about the broker.  An accepted trade *)
(* is fully executed.  A rejection that recovery is about to journal is of *)
(* an order with no execution and none to come.  A rejection the gateway   *)
(* reported need not be, so a trade that is rejected and has, or may still *)
(* get, an execution blocks all new risk.                                  *)
Unexecuted(t) == filled[t] = 0 /\ order[t] \notin {"transit", "live", "filled"}
Executed(t) == filled[t] = Volume /\ order[t] = "filled"
VerdictIsSound ==
  \A t \in Trades :
    /\ status[t] \in {"ACCEPTED", "FILLED", "OPEN", "MANAGED", "CLOSED"}
         => Executed(t)
    /\ call = [step |-> "observed", trade |-> t, answer |-> "REJECTED"]
         => Unexecuted(t)
    /\ status[t] = "REJECTED" /\ ~Unexecuted(t) => t \in blocked

(* What submit's comment has of broker I/O that times out, that the trade  *)
(* stays ORDER_SUBMITTED for recovery to settle.  It does not hold: see    *)
(* GatewayAnswers.                                                         *)
RejectedHasNoExecution ==
  \A t \in Trades : status[t] = "REJECTED" => Unexecuted(t)

(* No order is sent while a journalled outcome of any trade is in doubt.   *)
QuietWhileInDoubt ==
  [][\A t \in Trades : sends'[t] > sends[t] => blocked = {}]_vars

(* An order that ended fully executed or not at all is settled in the      *)
(* ledger, as long as recovery is run.                                     *)
RecoveryResolves ==
  \A t \in Trades :
    status[t] = "ORDER_SUBMITTED" /\ Final(t) /\ filled[t] \in {0, Volume}
      ~> status[t] # "ORDER_SUBMITTED"

(* The claim of the module's docstring, of submit's comment and of the     *)
(* constitution (restart_uncertain_state_blocks_new_risk): an order whose  *)
(* outcome is not known blocks new risk.  No order is sent while another   *)
(* trade is journalled as submitted without a verdict.                     *)
UncertaintyBlocksNewRisk ==
  [][\A t, u \in Trades :
       sends'[t] > sends[t] /\ status[u] = "ORDER_SUBMITTED" => t = u]_vars
==============================================================================
