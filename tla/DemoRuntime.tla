------------------------------ MODULE DemoRuntime ------------------------------
(***************************************************************************)
(* From a signed admission request to an order at the broker: the control  *)
(* plane that turns the request into ledger events, an envelope file and   *)
(* an authorization record (tools/control_plane_service_v1.py), the tool   *)
(* that renews the record (tools/materialize_mql5_authorization_v1.py),    *)
(* the advisors that read nothing else (g13_mql5_generator_v2.py), and the *)
(* ledger, which learns of the order only when a trace is ingested.        *)
(*                                                                         *)
(* A request names one trade, one authorization and one reservation; all   *)
(* three go by the trade here.  One process writes the ledger at a time,   *)
(* as the workflow's concurrency group has it; module LedgerFile shows     *)
(* what two do.  An advisor runs on one chart; AuthorizationAttempt has    *)
(* its keys call by call, TraceIngest the ingestion record by record.      *)
(***************************************************************************)
EXTENDS CapitalFirewall

CONSTANTS
  EAs,         \* the advisors, and the one each trade is for
  EaOf,
  Request,     \* [risk, issued, life] of each trade's admission request
  RecordAge    \* RuntimeAuthorizationMaxAgeSeconds

ASSUME OneRequestAssumption ==
  /\ Auths = Trades /\ Reservations = Trades
  /\ TradeOf = [t \in Trades |-> t] /\ AuthOf = [t \in Trades |-> t]
ASSUME RequestAssumption ==
  /\ EaOf \in [Trades -> EAs]
  /\ Request \in [Trades -> [risk : Risks, issued : Time, life : Lifetimes]]
  /\ RecordAge \in Nat

VARIABLES
  run,       \* the control plane's process: the trade and what it does next
  writer,    \* the tool that renews a record
  records,   \* the authorization record of each advisor
  kill,      \* the kill-switch file
  ea,        \* what each advisor is doing
  burned,    \* trades whose attempt key is set
  trace,     \* what the advisors wrote about each trade
  orders,    \* the trades an order was sent for
  open,      \* the trades with a position at the broker
  quiet      \* the last moment without a block; the code keeps no such thing

files == <<writer, records, kill>>
advisor == <<ea, burned, trace, orders, open>>
rvars == <<vars, run, files, advisor, quiet>>

None == [trade |-> "none"]
Steps == { "PROPOSED", "VALIDATED", "RISK_RESERVED", "issue", "authorize",
           "reserve", "build", "envelope", "record" }
Lines == { "ORDER_SUBMITTED", "ACCEPTED", "BROKER_OUTCOME_UNKNOWN" }

RuntimeTypeOK ==
  /\ TypeOK
  /\ run \in {None} \union [trade : Trades, next : Steps, since : Time, record : BOOLEAN]
  /\ writer \in {None} \union [trade : Trades, stamp : Time]
  /\ records \in [EAs -> {None} \union [trade : Trades, stamp : Time]]
  /\ kill \in {"ALLOW", "DENY"}
  /\ ea \in [EAs ->
       {None} \union [trade : Trades, at : {"gated", "claimed", "traced", "done", "unknown"}]]
  /\ burned \subseteq Trades
  /\ trace \in [Trades -> SUBSET Lines]
  /\ orders \subseteq Trades
  /\ open \subseteq Trades
  /\ quiet \in Time

RuntimeInit ==
  /\ status = [t \in Trades |-> NoState]
  /\ blocked = {}
  /\ now = 0
  /\ auth = [t \in Trades |-> NoAuth]
  /\ amount = [t \in Trades |-> 0]
  /\ released = {}
  /\ envelopes = {}
  /\ used = [t \in Trades |-> {}]
  /\ run = None
  /\ writer = None
  /\ records = [e \in EAs |-> None]
  /\ kill = "DENY"
  /\ ea = [e \in EAs |-> None]
  /\ burned = {}
  /\ trace = [t \in Trades |-> {}]
  /\ orders = {}
  /\ open = {}
  /\ quiet = 0

Observe == quiet' = IF blocked' = {} THEN now' ELSE quiet

LedgerIsFree == run = None

(* The firewall's checks with the time the caller read at its start.       *)
CurrentAt(t, time) == Issued(t) /\ ~Revoked(t) /\ time < auth[t].expires

ExecutionAllowedAt(t, time) ==
  /\ RiskAllowed
  /\ CurrentAt(t, time)
  /\ status[t] = "AUTHORIZED"
  /\ Reserved(t)
  /\ ActiveReservedAmount(t) >= amount[t]

------------------------------------------------------------------------------
(* verify_admission_request: neither stale nor of the future, and for an   *)
(* authorization that is still alive.                                      *)
Fresh(t) ==
  /\ Request[t].issued <= now /\ now <= Request[t].issued + MaxAge
  /\ now < Request[t].issued + Request[t].life

(* The control plane, produce_authority.  A request is served while it is  *)
(* fresh, as often as it is presented; every ledger call answers a         *)
(* repeated key with what it did before, so a run that follows one that    *)
(* died goes through the same steps again.                                 *)
Start(t, record) ==
  /\ run = None
  /\ Fresh(t)
  /\ kill = "DENY"
  /\ t \notin envelopes
  /\ record => records[EaOf[t]] = None
  /\ RiskAllowed
  /\ run' = [trade |-> t, next |-> "PROPOSED", since |-> now, record |-> record]
  /\ UNCHANGED <<vars, files, advisor>> /\ Observe

Then(step) == run' = [run EXCEPT !.next = step]
(* Mutant: a run that has ended is not cleared.                            *)
Finish_Kept == run' = [run EXCEPT !.next = "done"]

Finish == run' = None

(* _append_state                                                           *)
AppendState(state, following) ==
  LET t == run.trade IN
  /\ run # None /\ run.next = state
  /\ IF Moves(status[t], state)
     THEN Journal(Ev(t, state, "CONTROL_PLANE"))
     ELSE UNCHANGED <<status, blocked>>
  /\ Then(following)
  /\ UNCHANGED <<now, capital, files, advisor>> /\ Observe

(* issue_authorization, for the moment the request was signed.             *)
IssueStep ==
  LET t == run.trade
      q == Request[t] IN
  /\ run # None /\ run.next = "issue"
  /\ IF Issued(t) THEN UNCHANGED auth
     ELSE /\ RiskAllowed /\ status[t] = "RISK_RESERVED"
          /\ TotalAuthorizedRiskAt(q.issued) + q.risk <= Cap
          /\ auth' = [auth EXCEPT ![t] =
               [risk |-> q.risk, issued |-> q.issued, served |-> run.since,
                expires |-> q.issued + q.life, revoked |-> {}]]
  /\ Then("authorize")
  /\ UNCHANGED <<status, blocked, now, amount, released, envelopes, used>>
  /\ UNCHANGED <<files, advisor>> /\ Observe

AuthorizeStep ==
  LET t == run.trade IN
  /\ run # None /\ run.next = "authorize"
  /\ IF status[t] # "RISK_RESERVED" THEN UNCHANGED <<status, blocked>>
     ELSE /\ RiskAllowed /\ CurrentAt(t, run.since)
          /\ Journal(Ev(t, "AUTHORIZED", "TRADE_AUTHORIZED"))
  /\ Then("reserve")
  /\ UNCHANGED <<now, capital, files, advisor>> /\ Observe

ReserveStep ==
  LET t == run.trade IN
  /\ run # None /\ run.next = "reserve"
  /\ IF amount[t] > 0 THEN UNCHANGED amount
     ELSE /\ RiskAllowed /\ CurrentAt(t, run.since)
          /\ status[t] = "AUTHORIZED"
          /\ Request[t].risk <= auth[t].risk
          /\ ActiveReservedAmount(t) + Request[t].risk <= auth[t].risk
          /\ amount' = [amount EXCEPT ![t] = Request[t].risk]
  /\ Then("build")
  /\ UNCHANGED <<status, blocked, now, auth, released, envelopes, used>>
  /\ UNCHANGED <<files, advisor>> /\ Observe

(* Mutant: what is published is not held against the ledger.               *)
BuildStep_Trusting ==
  /\ run # None /\ run.next = "build"
  /\ Then("envelope")
  /\ UNCHANGED <<vars, files, advisor>> /\ Observe

(* build_runtime_envelope and build_mql5_authorization_record              *)
BuildStep ==
  /\ run # None /\ run.next = "build"
  /\ ExecutionAllowedAt(run.trade, run.since)
  /\ Then("envelope")
  /\ UNCHANGED <<vars, files, advisor>> /\ Observe

EnvelopeStep ==
  /\ run # None /\ run.next = "envelope"
  /\ run.trade \notin envelopes
  /\ envelopes' = envelopes \union {run.trade}
  /\ IF run.record THEN Then("record") ELSE Finish
  /\ UNCHANGED <<status, blocked, now, auth, amount, released, used>>
  /\ UNCHANGED <<files, advisor>> /\ Observe

(* write_mql5_authorization_record_new                                     *)
RecordStep ==
  LET e == EaOf[run.trade] IN
  /\ run # None /\ run.next = "record"
  /\ records[e] = None
  /\ records' = [records EXCEPT ![e] = [trade |-> run.trade, stamp |-> run.since]]
  /\ Finish
  /\ UNCHANGED <<vars, writer, kill, advisor>> /\ Observe

(* A check fails, or the process dies: what was written stays.             *)
Abort ==
  /\ run # None
  /\ Finish
  /\ UNCHANGED <<vars, files, advisor>> /\ Observe

------------------------------------------------------------------------------
(* The renewal of a record: the tool holds the envelope against the ledger *)
(* as it finds it, and later replaces whatever record there is.            *)
Renew(t) ==
  /\ writer = None
  /\ t \in envelopes
  /\ ExecutionAllowedAt(t, now)
  /\ writer' = [trade |-> t, stamp |-> now]
  /\ UNCHANGED <<vars, run, records, kill, advisor>> /\ Observe

(* Mutant: the record is stamped when it is written.                       *)
WriteRecord_Restamped ==
  /\ writer # None
  /\ records' = [records EXCEPT ![EaOf[writer.trade]] = [writer EXCEPT !.stamp = now]]
  /\ writer' = None
  /\ UNCHANGED <<vars, run, kill, advisor>> /\ Observe

WriteRecord ==
  /\ writer # None
  /\ records' = [records EXCEPT ![EaOf[writer.trade]] = writer]
  /\ writer' = None
  /\ UNCHANGED <<vars, run, kill, advisor>> /\ Observe

SetKillSwitch(state) ==
  /\ kill # state
  /\ kill' = state
  /\ UNCHANGED <<vars, run, writer, records, advisor>> /\ Observe

------------------------------------------------------------------------------
(* An advisor at a signal (OnTick): the gates, the record and the attempt  *)
(* key, the trace of the submission, the order, the trace of its outcome.  *)
Gate(t) ==
  LET e == EaOf[t] IN
  /\ ea[e] = None
  /\ kill = "ALLOW"
  /\ open = {}
  /\ ea' = [ea EXCEPT ![e] = [trade |-> t, at |-> "gated"]]
  /\ UNCHANGED <<vars, run, files, burned, trace, orders, open>> /\ Observe

(* Mutant: a record is believed until its authorization expires.           *)
Accepts_AnyAge(e) ==
  LET t == ea[e].trade IN
  /\ records[e] # None /\ records[e].trade = t
  /\ records[e].stamp <= now
  /\ now < auth[t].expires
  /\ t \notin burned

(* VerifyRuntimeAuthorization                                              *)
Accepts(e) ==
  LET t == ea[e].trade IN
  /\ records[e] # None /\ records[e].trade = t
  /\ records[e].stamp <= now /\ now - records[e].stamp <= RecordAge
  /\ now < auth[t].expires
  /\ t \notin burned

Claim(e) ==
  LET t == ea[e].trade IN
  /\ ea[e] # None /\ ea[e].at = "gated"
  /\ IF Accepts(e)
     THEN /\ burned' = burned \union {t}
          /\ ea' = [ea EXCEPT ![e].at = "claimed"]
     ELSE ea' = [ea EXCEPT ![e] = None] /\ UNCHANGED burned
  /\ UNCHANGED <<vars, run, files, trace, orders, open>> /\ Observe

(* TraceRecord, whose failure only clears a flag that nothing reads.       *)
Wrote(t, line) == trace' = [trace EXCEPT ![t] = @ \union {line}] \/ UNCHANGED trace

TraceSubmission(e) ==
  /\ ea[e] # None /\ ea[e].at = "claimed"
  /\ Wrote(ea[e].trade, "ORDER_SUBMITTED")
  /\ ea' = [ea EXCEPT ![e].at = "traced"]
  /\ UNCHANGED <<vars, run, files, burned, orders, open>> /\ Observe

(* The broker fills the order, and says so or not, or does not fill it.    *)
Send(e) ==
  LET t == ea[e].trade IN
  /\ ea[e] # None /\ ea[e].at = "traced"
  /\ orders' = orders \union {t}
  /\ \/ open' = open \union {t} /\ ea' = [ea EXCEPT ![e].at = "done"]
     \/ open' \in {open, open \union {t}} /\ ea' = [ea EXCEPT ![e].at = "unknown"]
  /\ UNCHANGED <<vars, run, files, burned, trace>> /\ Observe

TraceOutcome(e) ==
  /\ ea[e] # None /\ ea[e].at \in {"done", "unknown"}
  /\ Wrote(ea[e].trade,
           IF ea[e].at = "done" THEN "ACCEPTED" ELSE "BROKER_OUTCOME_UNKNOWN")
  /\ ea' = [ea EXCEPT ![e] = None]
  /\ UNCHANGED <<vars, run, files, burned, orders, open>> /\ Observe

(* OnTick returns for want of a size, or the terminal dies.                *)
Leave(e) ==
  /\ ea[e] # None
  /\ ea' = [ea EXCEPT ![e] = None]
  /\ UNCHANGED <<vars, run, files, burned, trace, orders, open>> /\ Observe

Close(t) ==
  /\ t \in open
  /\ open' = open \ {t}
  /\ UNCHANGED <<vars, run, files, ea, burned, trace, orders>> /\ Observe

------------------------------------------------------------------------------
(* A trace file that holds an ACCEPTED line, whose confirmed_volume the    *)
(* bridge does not know, or an unknown outcome that the ledger has, is     *)
(* refused as a whole.                                                     *)
Ingestible(e) ==
  \A t \in Trades : EaOf[t] = e =>
    /\ "ACCEPTED" \notin trace[t]
    /\ "BROKER_OUTCOME_UNKNOWN" \in trace[t] => t \notin blocked /\ status[t] # "RECONCILED"

(* The bridge journals the event and no more: used, the orders that went   *)
(* through admission, stays empty here.                                    *)
IngestSubmission(t) ==
  /\ LedgerIsFree /\ Ingestible(EaOf[t])
  /\ "ORDER_SUBMITTED" \in trace[t] /\ status[t] = "AUTHORIZED"
  /\ Journal(Ev(t, "ORDER_SUBMITTED", "ORDER_SUBMITTED"))
  /\ UNCHANGED <<now, capital, run, files, advisor>> /\ Observe

IngestUnknown(t) ==
  /\ LedgerIsFree /\ Ingestible(EaOf[t])
  /\ "BROKER_OUTCOME_UNKNOWN" \in trace[t] /\ status[t] = "ORDER_SUBMITTED"
  /\ Journal(Ev(t, NoState, "BROKER_OUTCOME_UNKNOWN"))
  /\ UNCHANGED <<now, capital, run, files, advisor>> /\ Observe

(* Recovery and reconciliation with the broker, in one step and taken to   *)
(* be true (module BrokerExecution): a trade without a position is done.   *)
Settle(t) ==
  /\ LedgerIsFree
  /\ Submitted(t) /\ t \notin open /\ ea[EaOf[t]] = None
  /\ status' = [status EXCEPT ![t] = "RECONCILED"]
  /\ blocked' = blocked \ {t}
  /\ UNCHANGED <<now, capital, run, files, advisor>> /\ Observe

Operator(t) ==
  /\ LedgerIsFree
  /\ Revoke(t) \/ ReleasePreExecution(t)
  /\ UNCHANGED <<run, files, advisor>> /\ Observe

Clock == Tick /\ UNCHANGED <<run, files, advisor>> /\ Observe

RuntimeNext ==
  \/ Clock
  \/ \E t \in Trades :
       \/ \E record \in BOOLEAN : Start(t, record)
       \/ Renew(t) \/ Gate(t) \/ Close(t)
       \/ IngestSubmission(t) \/ IngestUnknown(t) \/ Settle(t) \/ Operator(t)
  \/ AppendState("PROPOSED", "VALIDATED")
  \/ AppendState("VALIDATED", "RISK_RESERVED")
  \/ AppendState("RISK_RESERVED", "issue")
  \/ IssueStep \/ AuthorizeStep \/ ReserveStep \/ BuildStep
  \/ EnvelopeStep \/ RecordStep \/ Abort
  \/ WriteRecord
  \/ \E state \in {"ALLOW", "DENY"} : SetKillSwitch(state)
  \/ \E e \in EAs :
       \/ Claim(e) \/ TraceSubmission(e) \/ Send(e) \/ TraceOutcome(e) \/ Leave(e)

RuntimeSpec == RuntimeInit /\ [][RuntimeNext]_rvars
------------------------------------------------------------------------------
(* What is published is whole and alive: however often a run of the        *)
(* control plane died and its request came again, and whatever was revoked *)
(* or released in between, an envelope appears only for a trade that is    *)
(* authorised now, with its capital reserved and nothing unresolved.       *)
PublishedWhole ==
  [][\A t \in envelopes' \ envelopes :
       /\ status[t] = "AUTHORIZED" /\ RiskAllowed
       /\ CurrentAt(t, run.since) /\ Reserved(t)]_rvars

(* A revocation takes hold: an advisor, which never reads the ledger,      *)
(* takes up nothing later than RecordAge after its revocation, and nothing *)
(* after its expiry.                                                       *)
TakesUp(t) == t \notin burned /\ t \in burned'
RevocationTakesHold ==
  [][\A t \in Trades : TakesUp(t) =>
       /\ Issued(t) /\ now < auth[t].expires
       /\ \A at \in auth[t].revoked : now <= at + RecordAge]_rvars

(* So does a block: nor later than that after the last moment the ledger   *)
(* had no unresolved outcome.                                              *)
BlockTakesHold ==
  [][\A t \in Trades : TakesUp(t) => now <= quiet + RecordAge]_rvars
=============================================================================
