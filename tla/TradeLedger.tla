----------------------------- MODULE TradeLedger -----------------------------
(***************************************************************************)
(* The append-only trade ledger (tools/trade_ledger_v1.py) as one process  *)
(* uses it: an in-memory copy of a file of journalled events.  Callers     *)
(* submit append requests and reconciliations, any of them any number of   *)
(* times; the process may die between the durable write and the update of  *)
(* its memory, and a later process loads the file again.                   *)
(*                                                                         *)
(* Writers that share the file, torn lines and failed fsyncs are the       *)
(* subject of module LedgerFile.                                           *)
(***************************************************************************)
EXTENDS LedgerOps

CONSTANTS
  Tokens,      \* the strings that keys, payloads and event types are made of
  Trades,      \* trade ids
  Requests,    \* append requests callers make
  Checks       \* reconciliations callers make

Keys == Seq(Tokens)
ExceptionKey(k) == Append(k, "exception")

Request == [trade : Trades, state : STATES \union {NoState}, type : Tokens,
            payload : Seq(Tokens), key : Keys, id : Keys]
Check == [trade : Trades, observed : Tokens, expected : Tokens,
          key : Keys, id : Keys]
Event == [seq : Nat, id : Keys, trade : Trades,
          state : STATES \union {NoState}, type : Tokens, key : Keys,
          payload : Seq(Tokens), prev : Keys]

ASSUME TokensAssumption ==
  {"exception", "RECONCILED", "RECONCILIATION_EXCEPTION"} \subseteq Tokens
ASSUME RequestsAssumption == Requests \subseteq Request
ASSUME ChecksAssumption == Checks \subseteq Check

VARIABLES
  file,        \* the records in the ledger file
  running,     \* a process has the ledger loaded
  events,      \* self._events of that process
  unresolved   \* self._unresolved_reconciliation of that process

vars == <<file, running, events, unresolved>>

TypeOK ==
  /\ file \in Seq(Event)
  /\ running \in BOOLEAN
  /\ events \in Seq(Event)
  /\ unresolved \subseteq Trades

Init ==
  /\ file = <<>>
  /\ running = FALSE
  /\ events = <<>>
  /\ unresolved = {}

(* Opening the ledger: a file that fails verification is never loaded.     *)
Load ==
  /\ ~running
  /\ LoadAccepts(file)
  /\ running' = TRUE
  /\ events' = file
  /\ unresolved' = UnresolvedOf(file)
  /\ UNCHANGED file

(* append of a new event: the record is durable, then memory follows.      *)
AppendNew(r) ==
  LET e == AsEvent(events, r) IN
  /\ running
  /\ CanAppend(events, r)
  /\ file' = Append(file, e)
  /\ events' = Append(events, e)
  /\ unresolved' = UnresolvedAfter(unresolved, e)
  /\ UNCHANGED running

(* The process dies after the fsync and before append returns.             *)
AppendThenDie(r) ==
  /\ running
  /\ CanAppend(events, r)
  /\ file' = Append(file, AsEvent(events, r))
  /\ running' = FALSE
  /\ events' = <<>>
  /\ unresolved' = {}

(* The process ends, in order or by a crash, between two calls.            *)
Stop ==
  /\ running
  /\ running' = FALSE
  /\ events' = <<>>
  /\ unresolved' = {}
  /\ UNCHANGED file

(* What reconcile appends: the RECONCILED event when the two broker states *)
(* agree, the exception event under keys of its own when they do not.      *)
ReconcileRequest(c) ==
  [trade |-> c.trade, payload |-> <<c.expected, c.observed>>,
   state |-> IF c.observed = c.expected THEN "RECONCILED" ELSE NoState,
   type |-> IF c.observed = c.expected
              THEN "RECONCILED" ELSE "RECONCILIATION_EXCEPTION",
   key |-> IF c.observed = c.expected THEN c.key ELSE ExceptionKey(c.key),
   id |-> IF c.observed = c.expected THEN c.id ELSE ExceptionKey(c.id)]

Reconcilable(log, t) == StateOf(log, t) \in {"CLOSED", "REJECTED"}

Reconcile(c) ==
  /\ Reconcilable(events, c.trade)
  /\ \/ AppendNew(ReconcileRequest(c))
     \/ AppendThenDie(ReconcileRequest(c))

Next ==
  \/ Load
  \/ Stop
  \/ \E r \in Requests : AppendNew(r) \/ AppendThenDie(r)
  \/ \E c \in Checks : Reconcile(c)

Spec == Init /\ [][Next]_vars
------------------------------------------------------------------------------
(* Writing and loading agree: whatever the callers request and wherever    *)
(* the process dies, the file it leaves passes _load_and_verify, so the    *)
(* ledger can always be opened again.                                      *)
AlwaysLoadable == LoadAccepts(file)

(* A running process holds what a fresh load of the file would give it:    *)
(* the incremental bookkeeping of append and the rebuild at load agree, so *)
(* no restart forgets or invents a block on new risk.                      *)
MemoryIsReplay ==
  running => events = file /\ unresolved = UnresolvedOf(file)

(* Fail closed: while the file shows a broker exception for a trade that   *)
(* is not reconciled, every running process blocks new risk.               *)
UnresolvedBlocks ==
  running =>
    \A i \in DOMAIN file :
      Raises(file[i]) /\ StateOf(file, file[i].trade) # "RECONCILED"
        => file[i].trade \in unresolved

(* At most one order of a trade is ever journalled as submitted, and only  *)
(* after the trade was authorised; the broker's verdict is journalled once.*)
SubmittedOnce ==
  \A i, j \in DOMAIN file :
    /\ file[i].trade = file[j].trade
    /\ file[i].state = "ORDER_SUBMITTED"
    /\ i # j
    => /\ file[j].state # "ORDER_SUBMITTED"
       /\ file[j].state = "AUTHORIZED" => j < i
       /\ file[j].state \in {"ACCEPTED", "REJECTED"} => i < j

Lifecycle == INSTANCE TradeLifecycle WITH
  status <- [t \in Trades |-> StateOf(file, t)],
  blocked <- UnresolvedOf(file)

(* The log implements the abstract lifecycle: each step of the ledger is   *)
(* one legal move of one trade, one doubt raised, or invisible, and only a *)
(* reconciliation ever lifts a block.                                      *)
ImplementsLifecycle == Lifecycle!Spec
==============================================================================
