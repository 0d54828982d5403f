----------------------------- MODULE TraceIngest -----------------------------
(***************************************************************************)
(* What an expert advisor says it did, taken into the ledger               *)
(* (tools/runtime_trace_bridge_v1.py).  An advisor appends records to a    *)
(* trace file; ingest_trace_file reads the whole file, checks every record *)
(* against the ledger and the records before it, and only then appends     *)
(* them one by one.  The process may die at any point and the file is      *)
(* ingested again, grown or not.                                           *)
(*                                                                         *)
(* A record keeps what the checks compare.  Its fields, numbers and times  *)
(* come down to one bit, fits.                                             *)
(***************************************************************************)
EXTENDS LedgerOps

CONSTANTS
  Records,     \* the lines an advisor may write
  Others,      \* what others append to the ledger between two ingests
  History,     \* the ledger when we start to look
  Upper(_),    \* an event type in capitals: str.upper
  MaxTrace     \* the bound of the model on the length of the trace

Key == Seq(STRING)
Entry == [seq : Nat, id : STRING, trade : STRING,
          state : STATES \union {NoState}, type : STRING, key : Key,
          payload : STRING, prev : Key]

ASSUME RecordsAssumption ==
  Records \subseteq [id : STRING, trade : STRING, state : STATES, type : STRING,
                     key : Key, payload : STRING, fits : BOOLEAN]
ASSUME OthersAssumption ==
  Others \subseteq [id : STRING, trade : STRING, state : STATES \union {NoState},
                    type : STRING, key : Key, payload : STRING]
ASSUME HistoryAssumption == History \in Seq(Entry) /\ LoadAccepts(History)
ASSUME MaxTraceAssumption == MaxTrace \in Nat

(* An advisor's keys are its own.                                          *)
TraceKeys == { r.key : r \in Records }
OtherKeys == { r.key : r \in Others } \union { History[i].key : i \in DOMAIN History }
ASSUME KeysAssumption == TraceKeys \intersect OtherKeys = {}

OBSERVATIONAL_STATES ==
  { "ORDER_SUBMITTED", "ACCEPTED", "FILLED", "OPEN", "MANAGED", "CLOSED" }
OUTCOME_OBSERVATION_EVENT_TYPES ==
  { "BROKER_OUTCOME_UNKNOWN", "BROKER_PARTIAL_EXECUTION_OBSERVED" }

VARIABLES
  trace,     \* the records in the trace file
  ledger,    \* the ledger's events
  at,        \* where ingest_trace_file is
  batch,     \* the records it read
  next,      \* the record it is at
  staged,    \* the events the check has simulated
  begun      \* how many records the last batch had that passed the check

ingest == <<trace, ledger, at, batch, next, staged, begun>>

IngestTypeOK ==
  /\ trace \in Seq(Records)
  /\ ledger \in Seq(Entry) /\ LoadAccepts(ledger)
  /\ at \in {"idle", "checking", "appending", "refused", "rejected"}
  /\ batch \in Seq(Records)
  /\ next \in 1 .. Len(batch) + 1
  /\ staged \in Seq(Entry)
  /\ begun \in 0 .. Len(trace)

IngestInit ==
  /\ trace = <<>>
  /\ ledger = History
  /\ at = "idle"
  /\ batch = <<>>
  /\ next = 1
  /\ staged = <<>>
  /\ begun = 0

------------------------------------------------------------------------------
IsOutcome(r) == Upper(r.type) \in OUTCOME_OBSERVATION_EVENT_TYPES

(* Mutant: any state of the lifecycle may be observed.                     *)
Normalized_AnyState(r) ==
  /\ r.fits
  /\ IF IsOutcome(r) THEN r.state = "ORDER_SUBMITTED" ELSE Upper(r.type) = r.state

(* normalize_trace: it checks the event type in capitals and keeps it as   *)
(* the advisor wrote it.                                                   *)
Normalized(r) ==
  /\ r.fits
  /\ r.state \in OBSERVATIONAL_STATES
  /\ IF IsOutcome(r) THEN r.state = "ORDER_SUBMITTED" ELSE Upper(r.type) = r.state

(* The append that a record asks for: an outcome observation carries no    *)
(* state into the ledger.                                                  *)
AsRequest(r) ==
  [id |-> r.id, trade |-> r.trade, type |-> r.type, key |-> r.key,
   payload |-> r.payload,
   state |-> IF IsOutcome(r) THEN NoState ELSE r.state]

(* The stored event means what a request or a record says.                 *)
SameSemantics(e, r) ==
  /\ e.trade = r.trade /\ e.state = r.state
  /\ e.type = r.type /\ e.payload = r.payload

(* Mutant: only the last event is compared.                                *)
Known_Last(view, r) ==
  view # <<>> /\ view[Len(view)].key = r.key /\ SameSemantics(view[Len(view)], r)

Known(view, r) == \E i \in DOMAIN view : view[i].key = r.key /\ SameSemantics(view[i], r)

(* Mutant: the id is looked for in the ledger only.                        *)
Fresh_LedgerIds(view, r) ==
  LET cur == StateOf(view, r.trade) IN
  /\ ~HasKey(view, r.key)
  /\ \A i \in DOMAIN ledger : ledger[i].id # r.id
  /\ IF IsOutcome(r) THEN cur = "ORDER_SUBMITTED"
     ELSE <<cur, r.state>> \in ALLOWED_TRANSITIONS

(* A record the ledger, with what is staged, can take.                     *)
Fresh(view, r) ==
  LET cur == StateOf(view, r.trade) IN
  /\ ~HasKey(view, r.key)
  /\ \A i \in DOMAIN view : view[i].id # r.id
  /\ IF IsOutcome(r) THEN cur = "ORDER_SUBMITTED"
     ELSE <<cur, r.state>> \in ALLOWED_TRANSITIONS

View == ledger \o staged

------------------------------------------------------------------------------
(* The advisor writes a line; others append to the ledger between ingests. *)
Trace(r) ==
  /\ Len(trace) < MaxTrace
  /\ trace' = Append(trace, r)
  /\ UNCHANGED <<ledger, at, batch, next, staged, begun>>

External(r) ==
  /\ at = "idle"
  /\ CanAppend(ledger, r)
  /\ ledger' = Append(ledger, AsEvent(ledger, r))
  /\ UNCHANGED <<trace, at, batch, next, staged, begun>>

(* ingest_trace_file reads the file and normalises every line; an empty    *)
(* trace is refused.                                                       *)
Bad == { i \in DOMAIN trace : ~Normalized(trace[i]) }

(* Mutant: a bad line is left out.                                         *)
Read_DropsBad ==
  /\ at = "idle"
  /\ batch' = SelectSeq(trace, Normalized)
  /\ staged' = <<>>
  /\ next' = 1
  /\ at' = IF batch' = <<>> THEN "refused" ELSE "checking"
  /\ UNCHANGED <<trace, ledger, begun>>

Read ==
  /\ at = "idle"
  /\ batch' = trace
  /\ staged' = <<>>
  /\ IF trace # <<>> /\ Bad = {}
     THEN at' = "checking" /\ next' = 1
     ELSE /\ at' = "refused"
          /\ next' = IF Bad = {} THEN 1
                     ELSE CHOOSE i \in Bad : \A j \in Bad : i <= j
  /\ UNCHANGED <<trace, ledger, begun>>

(* The preflight, one record at a time.                                    *)
Skip ==
  /\ at = "checking" /\ next <= Len(batch)
  /\ Known(View, batch[next])
  /\ next' = next + 1
  /\ UNCHANGED <<trace, ledger, at, batch, staged, begun>>

Stage ==
  /\ at = "checking" /\ next <= Len(batch)
  /\ Fresh(View, batch[next])
  /\ staged' = Append(staged, AsEvent(View, AsRequest(batch[next])))
  /\ next' = next + 1
  /\ UNCHANGED <<trace, ledger, at, batch, begun>>

Refuse ==
  /\ at = "checking" /\ next <= Len(batch)
  /\ ~Known(View, batch[next]) /\ ~Fresh(View, batch[next])
  /\ at' = "refused"
  /\ UNCHANGED <<trace, ledger, batch, next, staged, begun>>

Begin ==
  /\ at = "checking" /\ next > Len(batch)
  /\ at' = "appending"
  /\ next' = 1
  /\ begun' = Len(batch)
  /\ UNCHANGED <<trace, ledger, batch, staged>>

(* TradeLedger.append of the next record: the stored event, a new one, or  *)
(* an error that ends the loop and takes nothing back.                     *)
TakeKnown ==
  /\ at = "appending" /\ next <= Len(batch)
  /\ ~IdReused(ledger, batch[next])
  /\ Known(ledger, AsRequest(batch[next]))
  /\ next' = next + 1
  /\ UNCHANGED <<trace, ledger, at, batch, staged, begun>>

TakeNew ==
  LET r == AsRequest(batch[next]) IN
  /\ at = "appending" /\ next <= Len(batch)
  /\ CanAppend(ledger, r)
  /\ ledger' = Append(ledger, AsEvent(ledger, r))
  /\ next' = next + 1
  /\ UNCHANGED <<trace, at, batch, staged, begun>>

TakeRejected ==
  LET r == AsRequest(batch[next]) IN
  /\ at = "appending" /\ next <= Len(batch)
  /\ ~CanAppend(ledger, r)
  /\ IdReused(ledger, r) \/ ~Known(ledger, r)
  /\ at' = "rejected"
  /\ UNCHANGED <<trace, ledger, batch, next, staged, begun>>

(* The caller gets the result, or the process dies: the ledger is durable, *)
(* the rest of the batch is not.                                           *)
Return ==
  /\ at \in {"refused", "rejected"} \/ (at = "appending" /\ next > Len(batch))
  /\ at' = "idle"
  /\ batch' = <<>> /\ next' = 1 /\ staged' = <<>>
  /\ UNCHANGED <<trace, ledger, begun>>

Die ==
  /\ at \in {"checking", "appending"}
  /\ at' = "idle"
  /\ batch' = <<>> /\ next' = 1 /\ staged' = <<>>
  /\ UNCHANGED <<trace, ledger, begun>>

IngestNext ==
  \/ \E r \in Records : Trace(r)
  \/ \E r \in Others : External(r)
  \/ Read \/ Skip \/ Stage \/ Refuse \/ Begin
  \/ TakeKnown \/ TakeNew \/ TakeRejected \/ Return \/ Die

IngestSpec == IngestInit /\ [][IngestNext]_ingest
------------------------------------------------------------------------------
(* The preflight says what the ledger will do: once a batch has passed it, *)
(* each record can be appended or is there already.  What it does not say  *)
(* is that append takes a repeated record: one that repeats a key and      *)
(* borrows the id of another event is rejected in the middle.              *)
PreflightSuffices ==
  at = "appending" /\ next <= Len(batch) =>
    LET r == AsRequest(batch[next]) IN Known(ledger, r) \/ CanAppend(ledger, r)

(* A trace grants nothing: whatever it put into the ledger is an           *)
(* observation about a trade that others had authorised before.            *)
TraceGrantsNothing ==
  \A i \in DOMAIN ledger : ledger[i].key \in TraceKeys =>
    /\ ledger[i].state \in OBSERVATIONAL_STATES \union {NoState}
    /\ \E j \in 1 .. i - 1 : /\ ledger[j].trade = ledger[i].trade
                             /\ ledger[j].state = "AUTHORIZED"
                             /\ ledger[j].key \notin TraceKeys

(* The ledger holds a beginning of the trace, in its order, wherever an    *)
(* ingest died.                                                            *)
First(i) == \A j \in 1 .. i - 1 : trace[j].key # trace[i].key
LedgerHoldsABeginning ==
  \A y \in DOMAIN trace : First(y) =>
    \A m \in DOMAIN ledger : ledger[m].key = trace[y].key =>
      \A x \in 1 .. y - 1 :
        \E k \in 1 .. m - 1 : ledger[k].key = trace[x].key

(* Somebody else, a recovery for one, journalled what r reports before it  *)
(* could, or the end of its order or position, or has used its event id.   *)
Overtaken(r) ==
  \E i \in DOMAIN ledger :
    /\ ledger[i].key \notin TraceKeys
    /\ \/ ledger[i].id = r.id
       \/ /\ ledger[i].trade = r.trade
          /\ \/ ledger[i].state \in {"REJECTED", "CLOSED"}
             \/ ledger[i].state = r.state /\ r.state # "MANAGED"

(* What passed the preflight once passes it again, after a crash in the    *)
(* middle or when the file has grown and whatever others wrote since, but  *)
(* for an observed outcome and a record that others have overtaken.        *)
PassesAgain ==
  at = "refused" /\ next <= begun =>
    IsOutcome(batch[next]) \/ Overtaken(batch[next])

(* tests/test_runtime_trace_bridge_v1.py:209, test_duplicate_trace_is_     *)
(* idempotent: a record that passed is not refused when it comes again.    *)
DuplicateTraceIsIdempotent == at = "refused" => next > begun
==============================================================================
