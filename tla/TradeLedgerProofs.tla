-------------------------- MODULE TradeLedgerProofs --------------------------
(***************************************************************************)
(* The safety of the trade ledger, and of what an ingest of an advisor's   *)
(* trace takes into it, for every set of trades, requests and records and  *)
(* every length of the ledger and of the trace.                            *)
(*                                                                         *)
(* First the ledger (module TradeLedger).  Its inductive invariant IInv    *)
(* joins three facts: the types, MemoryIsReplay with the loadability of    *)
(* the file (an append checks the memory, a load checks the file: each     *)
(* needs the other), and Ranked: along the events of one trade the         *)
(* lifecycle only goes forward, MANAGED alone repeating.                   *)
(*                                                                         *)
(* Then the ingest (module TraceIngest).  Passes says what the preflight   *)
(* of a batch means without its staged events: how the new records before  *)
(* each one would move its trade.  IngestInv joins it to the order of what *)
(* was taken and to what the ledger has from a trace at all.               *)
(***************************************************************************)
EXTENDS TradeLedger, TraceIngest, LedgerOpsProofs

(***************************************************************************)
(*                               The ledger                                *)
(***************************************************************************)
(* How far along the lifecycle a state is.                                 *)
Rank(s) ==
  CASE s = "PROPOSED" -> 1        [] s = "VALIDATED" -> 2
    [] s = "RISK_RESERVED" -> 3   [] s = "AUTHORIZED" -> 4
    [] s = "ORDER_SUBMITTED" -> 5 [] s \in {"ACCEPTED", "REJECTED"} -> 6
    [] s = "FILLED" -> 7          [] s = "OPEN" -> 8
    [] s = "MANAGED" -> 9         [] s = "CLOSED" -> 10
    [] s = "RECONCILED" -> 11     [] s = NoState -> 0

Before(a, b) == Rank(a) < Rank(b) \/ (a = "MANAGED" /\ b = "MANAGED")

Ranked(log) ==
  /\ \A i \in DOMAIN log : log[i].state # NoState =>
       \/ Rank(log[i].state) < Rank(StateOf(log, log[i].trade))
       \/ log[i].state = StateOf(log, log[i].trade)
  /\ \A i, j \in DOMAIN log :
       /\ i < j /\ log[i].trade = log[j].trade
       /\ log[i].state # NoState /\ log[j].state # NoState
       => Before(log[i].state, log[j].state)

IInv == /\ TypeOK
        /\ AlwaysLoadable
        /\ MemoryIsReplay
        /\ Ranked(file)

(* A legal move goes forward, or repeats MANAGED.                          *)
LEMMA MovesForward ==
  ASSUME NEW cur, NEW s \in STATES, Moves(cur, s)
  PROVE  Before(cur, s) /\ cur \in STATES \union {NoState}
BY SMTT(30) DEF Moves, Before, Rank, ALLOWED_TRANSITIONS, STATES, NoState

LEMMA RankedAppend ==
  ASSUME NEW log \in Seq(Event), Ranked(log), NEW e \in Event,
         Moves(StateOf(log, e.trade), e.state)
  PROVE  Ranked(Append(log, e))
<1> DEFINE log2 == Append(log, e)
           n == Len(log) + 1
<1>1. /\ n \in Nat /\ Len(log) \in Nat
      /\ DOMAIN log2 = 1 .. n /\ DOMAIN log = 1 .. Len(log)
      /\ log2[n] = e /\ \A i \in DOMAIN log : log2[i] = log[i] /\ log[i] \in Event
  OBVIOUS
<1>2. \A t : StateOf(log2, t) =
               IF e.trade = t /\ e.state # NoState THEN e.state ELSE StateOf(log, t)
  BY StateOfAppend
<1>3. ASSUME e.state # NoState
      PROVE  Before(StateOf(log, e.trade), e.state)
  BY <1>3, MovesForward DEF Event
<1>4. ASSUME e.state # NoState, NEW i \in DOMAIN log,
             log[i].trade = e.trade, log[i].state # NoState
      PROVE  Before(log[i].state, e.state)
  <2>1. \/ Rank(log[i].state) < Rank(StateOf(log, e.trade))
        \/ log[i].state = StateOf(log, e.trade)
    BY <1>4 DEF Ranked
  <2>2. /\ log[i].state \in STATES /\ e.state \in STATES
        /\ StateOf(log, e.trade) \in STATES \union {NoState}
    BY <1>1, <1>4, MovesForward DEF Event
  <2> QED
    BY <1>3, <1>4, <2>1, <2>2 DEF Before, Rank, STATES, NoState
<1>5. ASSUME NEW i \in DOMAIN log2, log2[i].state # NoState
      PROVE  \/ Rank(log2[i].state) < Rank(StateOf(log2, log2[i].trade))
             \/ log2[i].state = StateOf(log2, log2[i].trade)
  <2>1. CASE i = n
    BY <2>1, <1>1, <1>2, <1>5
  <2>2. CASE i \in DOMAIN log /\ e.trade = log[i].trade /\ e.state # NoState
    <3>1. Before(log[i].state, e.state)
      BY <2>2, <1>1, <1>4, <1>5
    <3> QED
      BY <3>1, <2>2, <1>1, <1>2 DEF Before
  <2>3. CASE i \in DOMAIN log /\ ~ (e.trade = log[i].trade /\ e.state # NoState)
    BY <2>3, <1>1, <1>2, <1>5 DEF Ranked
  <2> QED
    BY <2>1, <2>2, <2>3, <1>1
<1>6. ASSUME NEW i \in DOMAIN log2, NEW j \in DOMAIN log2, i < j,
             log2[i].trade = log2[j].trade,
             log2[i].state # NoState, log2[j].state # NoState
      PROVE  Before(log2[i].state, log2[j].state)
  <2>1. i \in DOMAIN log
    BY <1>1, <1>6
  <2>2. CASE j = n
    BY <2>1, <2>2, <1>1, <1>4, <1>6
  <2>3. CASE j \in DOMAIN log
    BY <2>1, <2>3, <1>1, <1>6 DEF Ranked
  <2> QED
    BY <2>2, <2>3, <1>1
<1> QED
  BY <1>5, <1>6 DEF Ranked

LEMMA LogTyped ==
  ASSUME NEW log \in Seq(Event)
  PROVE  /\ \A i \in DOMAIN log : log[i] \in Event /\ i \in Nat
         /\ \A t : StateOf(log, t) \in STATES \union {NoState}
<1>1. \A i \in DOMAIN log : log[i] \in Event /\ i \in Nat
  OBVIOUS
<1>2. ASSUME NEW t, StatefulOf(log, t) # {}
      PROVE  log[LastStateful(log, t)].state \in STATES \union {NoState}
  <2>1. LastStateful(log, t) \in DOMAIN log
    BY <1>2, LastStatefulIsLast DEF StatefulOf
  <2> QED
    BY <1>1, <2>1 DEF Event
<1> QED
  BY <1>1, <1>2 DEF StateOf

(* What a caller asks for is always a well-typed event.                    *)
LEMMA EventTyped ==
  ASSUME NEW log \in Seq(Event), NEW r \in Request
  PROVE  AsEvent(log, r) \in Event
<1>1. LastKey(log) \in Keys /\ Len(log) + 1 \in Nat
  <2>1. CASE log = <<>>
    BY <2>1 DEF LastKey, Keys
  <2>2. CASE log # <<>>
    <3>1. Len(log) \in 1 .. Len(log)
      BY <2>2
    <3>2. log[Len(log)] \in Event
      BY <3>1, ElementOfSeq
    <3> QED
      BY <3>2, <2>2 DEF LastKey, Event
  <2> QED
    BY <2>1, <2>2
<1> QED
  BY <1>1 DEF AsEvent, Event, Request

LEMMA ReconcileRequestTyped ==
  ASSUME NEW c \in Check
  PROVE  ReconcileRequest(c) \in Request
<1>1. c.key \in Seq(Tokens) /\ c.id \in Seq(Tokens)
  BY DEF Check, Keys
<1>2. \A k \in Seq(Tokens) : ExceptionKey(k) \in Seq(Tokens)
  <2>1. "exception" \in Tokens
    BY TokensAssumption
  <2> QED
    BY <2>1, AppendProperties DEF ExceptionKey
<1>3. <<c.expected, c.observed>> \in Seq(Tokens)
  BY DEF Check
<1>4. c.trade \in Trades
  BY DEF Check
<1>5. CASE c.observed = c.expected
  <2>1. "RECONCILED" \in STATES /\ "RECONCILED" \in Tokens
    BY TokensAssumption DEF STATES
  <2> QED
    BY <1>1, <1>3, <1>4, <1>5, <2>1 DEF ReconcileRequest, Request, Keys
<1>6. CASE c.observed # c.expected
  <2>1. "RECONCILIATION_EXCEPTION" \in Tokens
    BY TokensAssumption
  <2> QED
    BY <1>1, <1>2, <1>3, <1>4, <1>6, <2>1 DEF ReconcileRequest, Request, Keys
<1> QED
  BY <1>5, <1>6

LEMMA InitIInv == Init => IInv
<1> SUFFICES ASSUME Init PROVE IInv
  OBVIOUS
<1>1. file = <<>> /\ file \in Seq(Event) /\ DOMAIN file = {}
  BY DEF Init
<1>2. TypeOK /\ MemoryIsReplay
  BY <1>1 DEF Init, TypeOK, MemoryIsReplay
<1>3. LoadAccepts(file) /\ Ranked(file)
  BY <1>1 DEF LoadAccepts, Ranked
<1> QED
  BY <1>2, <1>3 DEF IInv, AlwaysLoadable

(* The two ways an append ends: in memory too, or with the process gone.   *)
LEMMA AppendKeepsIInv ==
  ASSUME IInv, NEW r \in Request, AppendNew(r) \/ AppendThenDie(r)
  PROVE  IInv'
<1> DEFINE e == AsEvent(events, r)
<1>1. running /\ events = file /\ CanAppend(file, r) /\ file' = Append(file, e)
  BY DEF AppendNew, AppendThenDie, IInv, MemoryIsReplay
<1>2. e \in Event /\ e = AsEvent(file, r) /\ file \in Seq(Event)
  BY <1>1, EventTyped DEF IInv, TypeOK
<1>3. file' \in Seq(Event)
  BY <1>1, <1>2
<1>4. LoadAccepts(file')
  BY <1>1, <1>2, LoadAcceptsAppend DEF IInv, AlwaysLoadable
<1>5. Ranked(file')
  <2>1. Moves(StateOf(file, e.trade), e.state)
    BY <1>1 DEF CanAppend, AsEvent
  <2> QED
    BY <2>1, <1>1, <1>2, RankedAppend DEF IInv
<1>6. UnresolvedOf(file') = UnresolvedAfter(UnresolvedOf(file), e)
  BY <1>1, <1>2, UnresolvedOfAppend
<1>7. TypeOK' /\ MemoryIsReplay'
  <2>1. CASE AppendNew(r)
    <3>1. unresolved' = UnresolvedOf(file') /\ events' = file' /\ running'
      BY <2>1, <1>1, <1>6 DEF AppendNew, IInv, MemoryIsReplay
    <3>2. unresolved' \subseteq Trades
      BY <2>1, <1>2 DEF AppendNew, UnresolvedAfter, IInv, TypeOK, Event
    <3> QED
      BY <3>1, <3>2, <1>3 DEF TypeOK, MemoryIsReplay
  <2>2. CASE AppendThenDie(r)
    <3>1. events' \in Seq(Event) /\ ~running' /\ running' = FALSE /\ unresolved' = {}
      BY <2>2 DEF AppendThenDie
    <3> QED
      BY <3>1, <1>3 DEF TypeOK, MemoryIsReplay
  <2> QED
    BY <2>1, <2>2
<1> QED
  BY <1>4, <1>5, <1>7 DEF IInv, AlwaysLoadable

LEMMA NextIInv == IInv /\ [Next]_vars => IInv'
<1> SUFFICES ASSUME IInv, [Next]_vars PROVE IInv'
  OBVIOUS
<1>1. CASE Load
  <2>1. UnresolvedOf(file) \subseteq Trades
    <3>1. \A i \in DOMAIN file : file[i].trade \in Trades
      BY LogTyped DEF IInv, TypeOK, Event
    <3> QED
      BY <3>1 DEF UnresolvedOf
  <2> QED
    BY <1>1, <2>1 DEF Load, IInv, TypeOK, AlwaysLoadable, MemoryIsReplay
<1>2. CASE Stop
  <2>1. events' \in Seq(Event) /\ running' = FALSE /\ unresolved' = {} /\ file' = file
    BY <1>2 DEF Stop
  <2> QED
    BY <2>1 DEF IInv, TypeOK, AlwaysLoadable, MemoryIsReplay
<1>3. CASE \E r \in Requests : AppendNew(r) \/ AppendThenDie(r)
  BY <1>3, RequestsAssumption, AppendKeepsIInv
<1>4. CASE \E c \in Checks : Reconcile(c)
  BY <1>4, ChecksAssumption, ReconcileRequestTyped, AppendKeepsIInv DEF Reconcile
<1>5. CASE UNCHANGED vars
  BY <1>5 DEF vars, IInv, TypeOK, AlwaysLoadable, MemoryIsReplay
<1> QED
  BY <1>1, <1>2, <1>3, <1>4, <1>5 DEF Next

(* The ledger in every state of every sequence of calls and crashes.       *)
THEOREM InductiveInvariant == Spec => []IInv
BY InitIInv, NextIInv, PTL DEF Spec

(* The variables of the ledger keep their types.                           *)
THEOREM TypeCorrect == Spec => []TypeOK
<1>1. IInv => TypeOK
  BY DEF IInv
<1> QED
  BY <1>1, InductiveInvariant, PTL

(* append never writes a record, and a crash never leaves one, that the    *)
(* checks of _load_and_verify refuse.                                      *)
THEOREM LedgerAlwaysLoadable == Spec => []AlwaysLoadable
<1>1. IInv => AlwaysLoadable
  BY DEF IInv
<1> QED
  BY <1>1, InductiveInvariant, PTL

(* Restarting changes nothing: the incremental bookkeeping of append is    *)
(* the rebuild of a load.                                                  *)
THEOREM RestartChangesNothing == Spec => []MemoryIsReplay
<1>1. IInv => MemoryIsReplay
  BY DEF IInv
<1> QED
  BY <1>1, InductiveInvariant, PTL

(* A journalled broker exception of an unreconciled trade blocks new risk  *)
(* in every process that has the ledger open.                              *)
THEOREM UnresolvedAlwaysBlocks == Spec => []UnresolvedBlocks
<1>1. ASSUME IInv, running, NEW i \in DOMAIN file, Raises(file[i]),
             StateOf(file, file[i].trade) # "RECONCILED"
      PROVE  file[i].trade \in unresolved
  <2>1. ASSUME NEW j \in DOMAIN file, file[j].trade = file[i].trade,
               Clears(file[j])
        PROVE  FALSE
    <3>1. file[j].state = "RECONCILED"
      BY <2>1 DEF Clears
    <3>2. /\ Rank(file[j].state) < Rank(StateOf(file, file[i].trade))
          /\ StateOf(file, file[i].trade) \in STATES \union {NoState}
      <4>1. StateOf(file, file[i].trade) \in STATES \union {NoState}
        BY <1>1, LogTyped DEF IInv, TypeOK
      <4> QED
        BY <4>1, <3>1, <2>1, <1>1 DEF IInv, Ranked, NoState
    <3> QED
      BY <3>1, <3>2 DEF Rank, STATES, NoState
  <2>2. file[i].trade \in UnresolvedOf(file)
    BY <1>1, <2>1 DEF UnresolvedOf
  <2> QED
    BY <1>1, <2>2 DEF IInv, MemoryIsReplay
<1>2. IInv => UnresolvedBlocks
  BY <1>1 DEF UnresolvedBlocks
<1> QED
  BY <1>2, InductiveInvariant, PTL

(* No trade's order is journalled as submitted twice, before its           *)
(* authorisation, or after the broker's verdict.                           *)
THEOREM LedgerSubmitsOnce == Spec => []SubmittedOnce
<1>1. ASSUME IInv, NEW i \in DOMAIN file, NEW j \in DOMAIN file, i # j,
             file[i].trade = file[j].trade, file[i].state = "ORDER_SUBMITTED"
      PROVE  /\ file[j].state # "ORDER_SUBMITTED"
             /\ file[j].state = "AUTHORIZED" => j < i
             /\ file[j].state \in {"ACCEPTED", "REJECTED"} => i < j
  <2>1. i \in Nat /\ j \in Nat
    BY <1>1, LogTyped DEF IInv, TypeOK
  <2>2. i < j /\ file[j].state # NoState
          => Before("ORDER_SUBMITTED", file[j].state)
    BY <1>1 DEF IInv, Ranked, NoState
  <2>3. j < i /\ file[j].state # NoState
          => Before(file[j].state, "ORDER_SUBMITTED")
    BY <1>1 DEF IInv, Ranked, NoState
  <2>4. i < j \/ j < i
    BY <1>1, <2>1
  <2> QED
    BY <2>1, <2>2, <2>3, <2>4 DEF Before, Rank, NoState
<1>2. IInv => SubmittedOnce
  BY <1>1 DEF SubmittedOnce
<1> QED
  BY <1>2, InductiveInvariant, PTL

(* The ledger implements the abstract lifecycle.                           *)
THEOREM LedgerImplementsLifecycle == Spec => ImplementsLifecycle
<1>1. Init => Lifecycle!Init
  <2> SUFFICES ASSUME Init PROVE Lifecycle!Init
    OBVIOUS
  <2>1. file = <<>> /\ DOMAIN file = {}
    BY DEF Init
  <2>2. \A t \in Trades : StateOf(file, t) = NoState
    BY <2>1 DEF StateOf, StatefulOf
  <2>3. UnresolvedOf(file) = {}
    BY <2>1 DEF UnresolvedOf
  <2> QED
    BY <2>2, <2>3 DEF Lifecycle!Init, NoState, Lifecycle!NoState
<1>2. ASSUME IInv, NEW r \in Request, AppendNew(r) \/ AppendThenDie(r)
      PROVE  [Lifecycle!Next]_(Lifecycle!lifecycle)
  <2> DEFINE e == AsEvent(file, r)
             t == e.trade
             before == [u \in Trades |-> StateOf(file, u)]
             after == [u \in Trades |-> StateOf(file', u)]
  <2>1. /\ file \in Seq(Event) /\ e \in Event /\ file' = Append(file, e)
        /\ Moves(StateOf(file, t), e.state)
    BY <1>2, EventTyped
       DEF AppendNew, AppendThenDie, IInv, MemoryIsReplay, TypeOK, CanAppend, AsEvent
  <2>2. t \in Trades /\ e.state \in STATES \union {NoState}
    BY <2>1 DEF Event
  <2>3. after = IF e.state = NoState THEN before
                ELSE [before EXCEPT ![t] = e.state]
    BY <2>1, <2>2, StateOfAppend
  <2>4. UnresolvedOf(file') = UnresolvedAfter(UnresolvedOf(file), e)
    BY <2>1, UnresolvedOfAppend
  <2>5. CASE e.state = NoState
    <3>1. ~Clears(e)
      BY <2>5 DEF Clears, NoState
    <3>2. CASE Raises(e)
      BY <3>2, <2>2, <2>3, <2>4, <2>5
         DEF Lifecycle!Next, Lifecycle!Doubt, UnresolvedAfter
    <3>3. CASE ~Raises(e)
      BY <3>1, <3>3, <2>3, <2>4, <2>5 DEF Lifecycle!lifecycle, UnresolvedAfter
    <3> QED
      BY <3>2, <3>3
  <2>6. CASE e.state # NoState
    <3>1. /\ e.state \in STATES /\ Moves(before[t], e.state)
          /\ after = [before EXCEPT ![t] = e.state]
      BY <2>1, <2>2, <2>3, <2>6
    <3>2. \/ UnresolvedOf(file') = UnresolvedOf(file) \union {t}
          \/ e.state = "RECONCILED" /\ UnresolvedOf(file') = UnresolvedOf(file) \ {t}
          \/ /\ e.state \notin {"REJECTED", "RECONCILED"}
             /\ UnresolvedOf(file') = UnresolvedOf(file)
      BY <2>4 DEF UnresolvedAfter, Raises, Clears
    <3>3. Lifecycle!Moves(before[t], e.state)
      BY <3>1 DEF Moves, Lifecycle!Moves, ALLOWED_TRANSITIONS,
                  Lifecycle!ALLOWED_TRANSITIONS, NoState, Lifecycle!NoState
    <3>4. Lifecycle!Advance(t, e.state)
      BY <3>1, <3>2, <3>3, <2>6 DEF Lifecycle!Advance, NoState, Lifecycle!NoState
    <3> QED
      BY <3>1, <3>4, <2>2 DEF Lifecycle!Next, STATES, Lifecycle!STATES
  <2> QED
    BY <2>5, <2>6
<1>3. IInv /\ [Next]_vars => [Lifecycle!Next]_(Lifecycle!lifecycle)
  <2> SUFFICES ASSUME IInv, [Next]_vars
               PROVE  [Lifecycle!Next]_(Lifecycle!lifecycle)
    OBVIOUS
  <2>1. CASE UNCHANGED file
    BY <2>1 DEF Lifecycle!lifecycle
  <2>2. CASE \E r \in Requests : AppendNew(r) \/ AppendThenDie(r)
    BY <2>2, <1>2, RequestsAssumption
  <2>3. CASE \E c \in Checks : Reconcile(c)
    BY <2>3, <1>2, ChecksAssumption, ReconcileRequestTyped DEF Reconcile
  <2> QED
    BY <2>1, <2>2, <2>3 DEF Next, Load, Stop, vars
<1> QED
  BY <1>1, <1>3, InductiveInvariant, PTL DEF Spec, ImplementsLifecycle, Lifecycle!Spec

------------------------------------------------------------------------------
(***************************************************************************)
(*                          The ingest of a trace                          *)
(***************************************************************************)
(* What a ledger has from a trace is an observation of a trade that is     *)
(* past its authorization; an outcome carries no state and is observed of  *)
(* a trade that is submitted.                                              *)
Observed(log) ==
  \A i \in DOMAIN log : log[i].key \in TraceKeys =>
    /\ log[i].state \in OBSERVATIONAL_STATES \union {NoState}
    /\ IsOutcome(log[i]) => log[i].state = NoState
    /\ log[i].state = NoState =>
         StateOf(SubSeq(log, 1, i - 1), log[i].trade) = "ORDER_SUBMITTED"

(* Record j of a batch is one that the ledger would take as new.           *)
IsNew(log, b, j) ==
  ~HasKey(log, b[j].key) /\ \A i \in 1 .. j - 1 : b[i].key # b[j].key

(* How the new records before the j-th would move trades, and the state    *)
(* that leaves a trade in.                                                 *)
MovedBy(log, b, j) ==
  [i \in 1 .. j - 1 |->
     [trade |-> b[i].trade,
      state |-> IF IsNew(log, b, i) THEN AsRequest(b[i]).state ELSE NoState]]

Simulated(log, b, j, t) ==
  IF StateOf(MovedBy(log, b, j), t) = NoState THEN StateOf(log, t)
  ELSE StateOf(MovedBy(log, b, j), t)

(* The preflight of the first n records against a ledger.                  *)
PassesAt(log, b, j) ==
  /\ \A i \in DOMAIN log : log[i].key = b[j].key => SameSemantics(log[i], AsRequest(b[j]))
  /\ \A i \in 1 .. j - 1 : IsNew(log, b, i) /\ b[i].key = b[j].key =>
       SameSemantics(AsRequest(b[i]), AsRequest(b[j]))
  /\ IsNew(log, b, j) =>
       /\ \A i \in DOMAIN log : log[i].id # b[j].id
       /\ \A i \in 1 .. j - 1 : IsNew(log, b, i) => b[i].id # b[j].id
       /\ IF IsOutcome(b[j]) THEN Simulated(log, b, j, b[j].trade) = "ORDER_SUBMITTED"
          ELSE <<Simulated(log, b, j, b[j].trade), b[j].state>> \in ALLOWED_TRANSITIONS

Passes(log, b, n) == \A j \in 1 .. n : PassesAt(log, b, j)

(* What an append may be asked for, and a step of a trade.                 *)
Asked == [id : STRING, trade : STRING, state : STATES \union {NoState},
          type : STRING, key : Key, payload : STRING]
Step == [trade : STRING, state : STATES \union {NoState}]

(* What the advisor and the others ask for is well typed ...               *)
LEMMA AskedTyped ==
  /\ \A r \in Records : AsRequest(r) \in Asked
  /\ \A r \in Others : r \in Asked
<1>1. \A r \in Records : AsRequest(r) \in Asked
  BY RecordsAssumption DEF AsRequest, Asked
<1>2. \A r \in Others : r \in Asked
  BY OthersAssumption DEF Asked
<1> QED
  BY <1>1, <1>2

(* ... and so is the event an append makes of it.                          *)
LEMMA EntryTyped ==
  ASSUME NEW log \in Seq(Entry), NEW r \in Asked
  PROVE  AsEvent(log, r) \in Entry
<1>1. LastKey(log) \in Key /\ Len(log) + 1 \in Nat
  <2>1. CASE log = <<>>
    BY <2>1 DEF LastKey, Key
  <2>2. CASE log # <<>>
    <3>1. Len(log) \in 1 .. Len(log)
      BY <2>2
    <3>2. log[Len(log)] \in Entry
      BY <3>1, ElementOfSeq
    <3> QED
      BY <3>2, <2>2 DEF LastKey, Entry
  <2> QED
    BY <2>1, <2>2
<1> QED
  BY <1>1 DEF AsEvent, Entry, Asked

(* A trade is in no state exactly when no event of it carries one.         *)
LEMMA NoStateOf ==
  ASSUME NEW S, NEW log \in Seq(S), NEW t
  PROVE  StateOf(log, t) = NoState <=> StatefulOf(log, t) = {}
<1>1. StatefulOf(log, t) # {} => log[LastStateful(log, t)].state # NoState
  BY LastStatefulIsLast DEF StatefulOf
<1> QED
  BY <1>1 DEF StateOf

(* One more record moves its trade when it is new and carries a state.     *)
LEMMA SimulatedStep ==
  ASSUME NEW log, NEW b \in Seq(Records), NEW j \in DOMAIN b, NEW t
  PROVE  Simulated(log, b, j + 1, t) =
           IF /\ b[j].trade = t /\ IsNew(log, b, j)
              /\ AsRequest(b[j]).state # NoState
           THEN AsRequest(b[j]).state ELSE Simulated(log, b, j, t)
<1> DEFINE m == MovedBy(log, b, j)
           e == [trade |-> b[j].trade,
                 state |-> IF IsNew(log, b, j) THEN AsRequest(b[j]).state ELSE NoState]
<1>1. j \in Nat /\ Len(b) \in Nat /\ DOMAIN b = 1 .. Len(b) /\ j \in 1 .. Len(b)
      /\ \A i \in DOMAIN b : b[i] \in Records
  OBVIOUS
<1>2. \A i \in DOMAIN b :
        [trade |-> b[i].trade,
         state |-> IF IsNew(log, b, i) THEN AsRequest(b[i]).state ELSE NoState] \in Step
  <2> TAKE i \in DOMAIN b
  <2>1. b[i].trade \in STRING
    BY <1>1, RecordsAssumption
  <2>2. AsRequest(b[i]).state \in STATES \union {NoState}
    BY <1>1, AskedTyped DEF Asked
  <2> QED
    BY <2>1, <2>2 DEF Step
<1>3. m \in Seq(Step) /\ e \in Step
  <2>1. m \in [1 .. (j - 1) -> Step] /\ j - 1 \in Nat
    BY <1>1, <1>2 DEF MovedBy
  <2> QED
    BY <2>1, <1>1, <1>2
<1>4. MovedBy(log, b, j + 1) = Append(m, e)
  <2>1. Len(m) = j - 1 /\ DOMAIN m = 1 .. (j - 1)
    BY <1>1 DEF MovedBy
  <2>2. Append(m, e) = [i \in 1 .. j |-> IF i = j THEN e ELSE m[i]]
    BY <2>1, <1>1, <1>3
  <2>3. \A i \in 1 .. j : i # j => i \in 1 .. (j - 1)
    BY <1>1
  <2>4. (j + 1) - 1 = j
    BY <1>1
  <2> QED
    BY <2>2, <2>3, <2>4 DEF MovedBy
<1>5. StateOf(Append(m, e), t) =
        IF e.trade = t /\ e.state # NoState THEN e.state ELSE StateOf(m, t)
  <2> HIDE DEF m, e
  <2> QED
    BY <1>3, StateOfAppend
<1> QED
  BY <1>4, <1>5 DEF Simulated

(* Before the first record a trade is where the ledger left it.            *)
LEMMA SimulatedNothing ==
  ASSUME NEW log, NEW b, NEW t
  PROVE  Simulated(log, b, 1, t) = StateOf(log, t)
<1>1. DOMAIN MovedBy(log, b, 1) = {}
  BY DEF MovedBy
<1> QED
  BY <1>1 DEF Simulated, StateOf, StatefulOf

(* The first record of a key that the ledger does not have is new.         *)
LEMMA FirstIsNew ==
  ASSUME NEW log, NEW b \in Seq(Records), NEW j \in DOMAIN b,
         ~HasKey(log, b[j].key)
  PROVE  \E i \in 1 .. j : b[i].key = b[j].key /\ IsNew(log, b, i)
<1> DEFINE I == { i \in 1 .. j : b[i].key = b[j].key }
<1>1. j \in Nat /\ j \in I /\ I \in SUBSET (1 .. j)
  OBVIOUS
<1>2. PICK i \in I : \A k \in I : i <= k
  <2> HIDE DEF I
  <2> QED
    BY <1>1, MinExists
<1>3. \A k \in 1 .. i - 1 : b[k].key # b[i].key
  BY <1>1, <1>2
<1> QED
  BY <1>2, <1>3 DEF IsNew

(* Once the ledger has the records before the n-th, these move nothing.    *)
LEMMA NothingNewBefore ==
  ASSUME NEW log, NEW b \in Seq(Records), NEW n \in Nat, n - 1 <= Len(b),
         \A j \in 1 .. n - 1 : HasKey(log, b[j].key)
  PROVE  /\ \A j \in 1 .. n - 1 : ~IsNew(log, b, j)
         /\ \A t : StatefulOf(MovedBy(log, b, n), t) = {}
         /\ \A t : Simulated(log, b, n, t) = StateOf(log, t)
<1>1. \A j \in 1 .. n - 1 : ~IsNew(log, b, j)
  BY DEF IsNew
<1>2. \A t : StatefulOf(MovedBy(log, b, n), t) = {}
  BY <1>1 DEF StatefulOf, MovedBy
<1> QED
  BY <1>1, <1>2 DEF Simulated, StateOf

(* ... and the n-th, if the ledger does not have it, is new.               *)
LEMMA NextIsNew ==
  ASSUME NEW log, NEW b \in Seq(Records), NEW n \in DOMAIN b,
         \A j \in 1 .. n - 1 : HasKey(log, b[j].key), ~HasKey(log, b[n].key)
  PROVE  IsNew(log, b, n)
BY DEF IsNew

(* Taking the n-th record takes it off the list of new ones and leaves     *)
(* every later record where the check has seen it.                         *)
LEMMA TakenNew ==
  ASSUME NEW log \in Seq(Entry), NEW b \in Seq(Records), NEW n \in DOMAIN b,
         \A j \in 1 .. n - 1 : HasKey(log, b[j].key), ~HasKey(log, b[n].key),
         NEW e \in Entry, e.key = b[n].key
  PROVE  \A j \in DOMAIN b :
           IsNew(Append(log, e), b, j) <=> IsNew(log, b, j) /\ j # n
<1> DEFINE log2 == Append(log, e)
<1>1. \A k : HasKey(log2, k) <=> HasKey(log, k) \/ k = b[n].key
  <2>1. /\ DOMAIN log2 = DOMAIN log \union {Len(log) + 1}
        /\ log2[Len(log) + 1] = e /\ \A i \in DOMAIN log : log2[i] = log[i]
    OBVIOUS
  <2> QED
    BY <2>1 DEF HasKey
<1>2. IsNew(log, b, n)
  BY NextIsNew
<1>3. \A j \in DOMAIN b : j \in Nat /\ n \in Nat
  OBVIOUS
<1>4. ASSUME NEW j \in DOMAIN b, IsNew(log, b, j), j # n
      PROVE  b[j].key # b[n].key
  <2>1. CASE j < n
    BY <2>1, <1>3, <1>4 DEF IsNew
  <2>2. CASE n < j
    BY <2>2, <1>3, <1>4 DEF IsNew
  <2> QED
    BY <2>1, <2>2, <1>3, <1>4
<1> HIDE DEF log2
<1> QED
  BY <1>1, <1>4 DEF IsNew, log2

(* ... and no later record sees a trade in another state: what the ledger  *)
(* has moved now, the simulation had moved before.                         *)
LEMMA TakenSimulated ==
  ASSUME NEW log \in Seq(Entry), NEW b \in Seq(Records), NEW n \in DOMAIN b,
         \A j \in 1 .. n - 1 : HasKey(log, b[j].key), ~HasKey(log, b[n].key),
         NEW e \in Entry, e.key = b[n].key, e.trade = b[n].trade,
         e.state = AsRequest(b[n]).state,
         NEW j \in DOMAIN b, n < j, NEW t
  PROVE  Simulated(Append(log, e), b, j, t) = Simulated(log, b, j, t)
<1> DEFINE log2 == Append(log, e)
           P(k) == Simulated(log2, b, k, t) = Simulated(log, b, k, t)
           Bad2 == { k \in 1 .. Len(b) : n < k /\ ~P(k) }
<1>1. /\ n \in Nat /\ j \in Nat /\ Len(b) \in Nat /\ DOMAIN b = 1 .. Len(b)
      /\ n - 1 <= Len(b) /\ log2 \in Seq(Entry)
  OBVIOUS
<1>2. \A k \in DOMAIN b : IsNew(log2, b, k) <=> IsNew(log, b, k) /\ k # n
  BY TakenNew
<1>3. P(n + 1)
  <2>1. IsNew(log, b, n)
    BY NextIsNew
  <2>2. Simulated(log, b, n, t) = StateOf(log, t)
    BY <1>1, NothingNewBefore
  <2>3. Simulated(log, b, n + 1, t) =
          IF e.trade = t /\ e.state # NoState THEN e.state ELSE StateOf(log, t)
    BY <2>1, <2>2, SimulatedStep
  <2>4. ~IsNew(log2, b, n)
    BY <1>2
  <2>5. Simulated(log2, b, n + 1, t) = Simulated(log2, b, n, t)
    BY <2>4, SimulatedStep
  <2>6. \A i \in 1 .. n - 1 : HasKey(log2, b[i].key)
    <3>1. \A i \in DOMAIN log : i \in DOMAIN log2 /\ log2[i] = log[i]
      OBVIOUS
    <3> QED
      BY <3>1 DEF HasKey
  <2>7. Simulated(log2, b, n, t) = StateOf(log2, t)
    BY <2>6, <1>1, NothingNewBefore
  <2>8. StateOf(log2, t) =
          IF e.trade = t /\ e.state # NoState THEN e.state ELSE StateOf(log, t)
    BY StateOfAppend
  <2> QED
    BY <2>3, <2>5, <2>7, <2>8
<1>4. ASSUME NEW k \in DOMAIN b, n < k, P(k) PROVE P(k + 1)
  <2>1. IsNew(log2, b, k) <=> IsNew(log, b, k)
    BY <1>1, <1>2, <1>4
  <2>2. Simulated(log2, b, k + 1, t) =
           IF /\ b[k].trade = t /\ IsNew(log2, b, k)
              /\ AsRequest(b[k]).state # NoState
           THEN AsRequest(b[k]).state ELSE Simulated(log2, b, k, t)
    BY <1>4, SimulatedStep
  <2>3. Simulated(log, b, k + 1, t) =
           IF /\ b[k].trade = t /\ IsNew(log, b, k)
              /\ AsRequest(b[k]).state # NoState
           THEN AsRequest(b[k]).state ELSE Simulated(log, b, k, t)
    BY <1>4, SimulatedStep
  <2> QED
    BY <2>1, <2>2, <2>3, <1>4
<1> HIDE DEF P
<1>5. SUFFICES ASSUME Bad2 # {} PROVE FALSE
  BY <1>1 DEF P
<1>6. PICK k \in Bad2 : \A i \in Bad2 : k <= i
  <2>1. Bad2 \in SUBSET (1 .. Len(b))
    OBVIOUS
  <2> HIDE DEF Bad2
  <2> QED
    BY <1>1, <1>5, <2>1, MinExists
<1>7. k # n + 1 /\ k - 1 \in DOMAIN b /\ n < k - 1 /\ k - 1 \notin Bad2
  BY <1>1, <1>3, <1>6
<1>8. P(k - 1) /\ (k - 1) + 1 = k
  BY <1>1, <1>6, <1>7
<1> QED
  BY <1>4, <1>6, <1>7, <1>8

(* Taking a record that passes keeps every record passing.                 *)
LEMMA TakenPasses ==
  ASSUME NEW log \in Seq(Entry), NEW b \in Seq(Records), NEW n \in DOMAIN b,
         \A j \in 1 .. n - 1 : HasKey(log, b[j].key), ~HasKey(log, b[n].key),
         Passes(log, b, Len(b)), AsEvent(log, AsRequest(b[n])) \in Entry
  PROVE  Passes(Append(log, AsEvent(log, AsRequest(b[n]))), b, Len(b))
<1> DEFINE e == AsEvent(log, AsRequest(b[n]))
           log2 == Append(log, e)
           new == Len(log) + 1
<1>1. /\ e.key = b[n].key /\ e.trade = b[n].trade /\ e.id = b[n].id
      /\ e.state = AsRequest(b[n]).state
      /\ \A r : SameSemantics(AsRequest(b[n]), r) => SameSemantics(e, r)
  BY DEF AsEvent, AsRequest, SameSemantics
<1>2. /\ DOMAIN log2 = DOMAIN log \union {new} /\ log2[new] = e
      /\ \A i \in DOMAIN log : log2[i] = log[i]
      /\ DOMAIN b = 1 .. Len(b) /\ Len(b) \in Nat /\ n \in Nat
  OBVIOUS
<1>3. \A j \in DOMAIN b : IsNew(log2, b, j) <=> IsNew(log, b, j) /\ j # n
  BY <1>1, TakenNew
<1>4. IsNew(log, b, n) /\ \A j \in 1 .. n - 1 : ~IsNew(log, b, j)
  BY NextIsNew DEF IsNew
<1>5. ASSUME NEW j \in DOMAIN b PROVE PassesAt(log2, b, j)
  <2>1. PassesAt(log, b, j) /\ j \in Nat
    BY <1>2 DEF Passes
  <2>2. b[n].key = b[j].key => SameSemantics(e, AsRequest(b[j]))
    <3>1. CASE j < n
      <4>1. HasKey(log, b[j].key)
        BY <3>1, <2>1, <1>2
      <4> QED
        BY <4>1
    <3>2. CASE j = n
      BY <3>2, <1>1 DEF SameSemantics
    <3>3. CASE n < j
      <4>1. n \in 1 .. j - 1
        BY <3>3, <2>1, <1>2
      <4>2. b[n].key = b[j].key => SameSemantics(AsRequest(b[n]), AsRequest(b[j]))
        BY <4>1, <2>1, <1>4 DEF PassesAt
      <4> QED
        BY <4>2, <1>1
    <3> QED
      BY <3>1, <3>2, <3>3, <2>1, <1>2
  <2>3. \A i \in DOMAIN log2 :
           log2[i].key = b[j].key => SameSemantics(log2[i], AsRequest(b[j]))
    <3> TAKE i \in DOMAIN log2
    <3>1. CASE i \in DOMAIN log
      BY <3>1, <2>1, <1>2 DEF PassesAt
    <3>2. CASE i = new
      BY <3>2, <2>2, <1>1, <1>2
    <3> QED
      BY <3>1, <3>2, <1>2
  <2>4. \A i \in 1 .. j - 1 : i \in DOMAIN b
    BY <2>1, <1>2
  <2>5. \A i \in 1 .. j - 1 : IsNew(log2, b, i) /\ b[i].key = b[j].key =>
          SameSemantics(AsRequest(b[i]), AsRequest(b[j]))
    BY <2>1, <2>4, <1>3 DEF PassesAt
  <2>6. ASSUME IsNew(log2, b, j)
        PROVE  /\ \A i \in DOMAIN log2 : log2[i].id # b[j].id
               /\ \A i \in 1 .. j - 1 : IsNew(log2, b, i) => b[i].id # b[j].id
               /\ IF IsOutcome(b[j])
                  THEN Simulated(log2, b, j, b[j].trade) = "ORDER_SUBMITTED"
                  ELSE <<Simulated(log2, b, j, b[j].trade), b[j].state>>
                         \in ALLOWED_TRANSITIONS
    <3>1. IsNew(log, b, j) /\ j # n
      BY <2>6, <1>3
    <3>2. n < j /\ n \in 1 .. j - 1
      <4>1. j \notin 1 .. n - 1
        BY <3>1, <1>4
      <4> QED
        BY <4>1, <3>1, <2>1, <1>2
    <3>3. /\ \A i \in DOMAIN log : log[i].id # b[j].id
          /\ \A i \in 1 .. j - 1 : IsNew(log, b, i) => b[i].id # b[j].id
          /\ IF IsOutcome(b[j])
             THEN Simulated(log, b, j, b[j].trade) = "ORDER_SUBMITTED"
             ELSE <<Simulated(log, b, j, b[j].trade), b[j].state>>
                    \in ALLOWED_TRANSITIONS
      BY <3>1, <2>1 DEF PassesAt
    <3>4. Simulated(log2, b, j, b[j].trade) = Simulated(log, b, j, b[j].trade)
      BY <3>2, <1>1, TakenSimulated
    <3>5. e.id # b[j].id
      BY <3>2, <3>3, <1>1, <1>4
    <3>6. \A i \in DOMAIN log2 : log2[i].id # b[j].id
      BY <3>3, <3>5, <1>2
    <3>7. \A i \in 1 .. j - 1 : IsNew(log2, b, i) => b[i].id # b[j].id
      BY <3>3, <2>4, <1>3
    <3> HIDE DEF log2
    <3> QED
      BY <3>3, <3>4, <3>6, <3>7
  <2> HIDE DEF log2
  <2> QED
    BY <2>3, <2>5, <2>6 DEF PassesAt
<1> QED
  BY <1>2, <1>5 DEF Passes

(* The check looks at a batch up to the record it is at, so a longer trace *)
(* with the same beginning passes as far.                                  *)
LEMMA PassesAtSame ==
  ASSUME NEW log, NEW b, NEW c, NEW n \in Nat, NEW j \in 1 .. n,
         PassesAt(log, b, j), \A i \in 1 .. n : c[i] = b[i]
  PROVE  PassesAt(log, c, j)
<1>1. \A k \in 1 .. n : \A i \in 1 .. k - 1 : i \in 1 .. n
  OBVIOUS
<1>2. \A k \in 1 .. n : IsNew(log, c, k) <=> IsNew(log, b, k)
  BY <1>1 DEF IsNew
<1>3. \A k \in 1 .. n : MovedBy(log, c, k) = MovedBy(log, b, k)
  BY <1>1, <1>2 DEF MovedBy
<1>4. \A k \in 1 .. n : \A t : Simulated(log, c, k, t) = Simulated(log, b, k, t)
  BY <1>3 DEF Simulated
<1>5. c[j] = b[j] /\ (IsNew(log, c, j) <=> IsNew(log, b, j))
  BY <1>2
<1>6. \A i \in 1 .. j - 1 : c[i] = b[i] /\ (IsNew(log, c, i) <=> IsNew(log, b, i))
  BY <1>1, <1>2
<1>7. Simulated(log, c, j, c[j].trade) = Simulated(log, b, j, b[j].trade)
  BY <1>4, <1>5
<1> QED
  BY <1>5, <1>6, <1>7 DEF PassesAt

LEMMA PassesSame ==
  ASSUME NEW log, NEW b, NEW c, NEW n \in Nat, Passes(log, b, n),
         \A i \in 1 .. n : c[i] = b[i]
  PROVE  Passes(log, c, n)
BY PassesAtSame DEF Passes

(* An event that the check has staged for a record.                        *)
Agrees(e, r) == e.key = r.key /\ e.id = r.id /\ SameSemantics(e, AsRequest(r))

(* What the check has found before the record it is at: the records pass,  *)
(* the staged events are theirs, and the view leaves every trade where the *)
(* new records would.                                                      *)
Checked ==
  /\ Passes(ledger, batch, next - 1)
  /\ \A i \in DOMAIN staged : \E j \in 1 .. next - 1 :
       IsNew(ledger, batch, j) /\ Agrees(staged[i], batch[j])
  /\ \A j \in 1 .. next - 1 : IsNew(ledger, batch, j) =>
       \E i \in DOMAIN staged : Agrees(staged[i], batch[j])
  /\ \A t : StateOf(View, t) = Simulated(ledger, batch, next, t)

Appending ==
  /\ begun = Len(batch)
  /\ Passes(ledger, batch, Len(batch))
  /\ \A j \in 1 .. next - 1 : HasKey(ledger, batch[j].key)

(* A batch is a beginning of the trace, and what its phase says of it.     *)
BatchIsRead ==
  /\ Len(batch) <= Len(trace)
  /\ \A i \in DOMAIN batch : batch[i] = trace[i] /\ Normalized(batch[i])

BatchInv ==
  /\ \A i \in 1 .. begun : Normalized(trace[i])
  /\ at \in {"checking", "appending"} => BatchIsRead
  /\ at = "checking" => Checked
  /\ at = "appending" => Appending

LedgerInv ==
  /\ Observed(ledger)
  /\ \A i \in DOMAIN ledger : ledger[i].key \in TraceKeys =>
       \E j \in DOMAIN trace : trace[j].key = ledger[i].key

IngestInv == IngestTypeOK /\ BatchInv /\ LedgerInv /\ LedgerHoldsABeginning

(* The four parts of the invariant hold at the start ...                   *)
LEMMA InitIngest == IngestInit => IngestInv
<1> SUFFICES ASSUME IngestInit PROVE IngestInv
  OBVIOUS
<1>1. /\ trace = <<>> /\ DOMAIN trace = {} /\ Len(trace) = 0
      /\ ledger = History /\ at = "idle" /\ begun = 0
      /\ batch = <<>> /\ staged = <<>> /\ next = 1 /\ Len(batch) = 0
  BY DEF IngestInit
<1>2. IngestTypeOK
  BY <1>1, HistoryAssumption DEF IngestTypeOK
<1>3. \A i \in DOMAIN ledger : ledger[i].key \notin TraceKeys
  BY <1>1, KeysAssumption DEF OtherKeys
<1>4. LedgerInv /\ LedgerHoldsABeginning
  BY <1>1, <1>3 DEF LedgerInv, Observed, LedgerHoldsABeginning
<1>5. BatchInv
  BY <1>1 DEF BatchInv
<1> QED
  BY <1>2, <1>4, <1>5 DEF IngestInv

(* What append of a new record does, and what it finds before.             *)
LEMMA TakenRecord ==
  ASSUME IngestTypeOK, BatchInv, TakeNew
  PROVE  /\ next \in DOMAIN batch /\ batch[next] \in Records
         /\ batch[next] = trace[next] /\ next \in DOMAIN trace
         /\ Normalized(batch[next]) /\ Appending
         /\ AsRequest(batch[next]) \in Asked
         /\ ledger' = Append(ledger, AsEvent(ledger, AsRequest(batch[next])))
         /\ AsEvent(ledger, AsRequest(batch[next])) \in Entry
         /\ AsEvent(ledger, AsRequest(batch[next])).key = batch[next].key
         /\ ~HasKey(ledger, batch[next].key)
<1>1. /\ at = "appending" /\ next <= Len(batch)
      /\ CanAppend(ledger, AsRequest(batch[next]))
      /\ ledger' = Append(ledger, AsEvent(ledger, AsRequest(batch[next])))
  BY DEF TakeNew
<1>2. next \in DOMAIN batch /\ batch \in Seq(Records) /\ trace \in Seq(Records)
  BY <1>1 DEF IngestTypeOK
<1>3. BatchIsRead /\ Appending
  BY <1>1 DEF BatchInv
<1>4. batch[next] \in Records /\ AsRequest(batch[next]) \in Asked
  BY <1>2, AskedTyped
<1>5. next \in DOMAIN trace /\ batch[next] = trace[next] /\ Normalized(batch[next])
  BY <1>2, <1>3 DEF BatchIsRead
<1>6. AsEvent(ledger, AsRequest(batch[next])) \in Entry
  BY <1>4, EntryTyped DEF IngestTypeOK
<1>7. ~HasKey(ledger, batch[next].key)
  BY <1>1 DEF CanAppend, AsRequest
<1>8. AsEvent(ledger, AsRequest(batch[next])).key = batch[next].key
  BY DEF AsEvent, AsRequest
<1> QED
  BY <1>1, <1>2, <1>3, <1>4, <1>5, <1>6, <1>7, <1>8

(* What others append has a key of its own.                                *)
LEMMA OthersRecord ==
  ASSUME IngestTypeOK, NEW r \in Others, External(r)
  PROVE  /\ at = "idle" /\ ledger' = Append(ledger, AsEvent(ledger, r))
         /\ AsEvent(ledger, r) \in Entry
         /\ AsEvent(ledger, r).key = r.key /\ r.key \notin TraceKeys
<1>1. AsEvent(ledger, r) \in Entry
  BY AskedTyped, EntryTyped DEF IngestTypeOK
<1>2. r.key \notin TraceKeys
  BY KeysAssumption DEF OtherKeys
<1> QED
  BY <1>1, <1>2 DEF External, AsEvent

(* ... and each survives a step: the types ...                             *)
LEMMA IngestTypeStep ==
  ASSUME IngestInv, IngestNext
  PROVE  IngestTypeOK'
<1>1. IngestTypeOK /\ BatchInv
  BY DEF IngestInv
<1>2. /\ trace \in Seq(Records) /\ ledger \in Seq(Entry) /\ LoadAccepts(ledger)
      /\ batch \in Seq(Records) /\ staged \in Seq(Entry)
      /\ Len(trace) \in Nat /\ Len(batch) \in Nat /\ begun \in 0 .. Len(trace)
      /\ next \in 1 .. Len(batch) + 1
  BY <1>1 DEF IngestTypeOK
<1>3. CASE \E r \in Records : Trace(r)
  <2>1. PICK r \in Records : Trace(r)
    BY <1>3
  <2>2. trace' \in Seq(Records) /\ Len(trace') = Len(trace) + 1
    BY <2>1, <1>2 DEF Trace
  <2>3. begun' \in 0 .. Len(trace')
    BY <2>1, <2>2, <1>2 DEF Trace
  <2> QED
    BY <2>1, <2>2, <2>3, <1>1 DEF Trace, IngestTypeOK
<1>4. CASE \E r \in Others : External(r)
  <2>1. PICK r \in Others : External(r)
    BY <1>4
  <2>2. ledger' = Append(ledger, AsEvent(ledger, r)) /\ AsEvent(ledger, r) \in Entry
    BY <2>1, <1>1, OthersRecord
  <2>3. LoadAccepts(ledger')
    BY <2>1, <2>2, <1>2, LoadAcceptsAppend DEF External
  <2>4. ledger' \in Seq(Entry)
    BY <2>2, <1>2
  <2> QED
    BY <2>1, <2>3, <2>4, <1>1 DEF External, IngestTypeOK
<1>5. CASE Read
  <2>1. batch' = trace /\ staged' = <<>> /\ staged' \in Seq(Entry)
    BY <1>5 DEF Read
  <2>2. next' \in 1 .. Len(trace) + 1
    <3>1. CASE Bad = {}
      BY <3>1, <1>5, <1>2 DEF Read
    <3>2. CASE Bad # {}
      <4>1. Bad \in SUBSET (1 .. Len(trace))
        BY <1>2 DEF Bad
      <4>2. \E i \in Bad : \A j \in Bad : i <= j
        BY <4>1, <3>2, <1>2, MinExists
      <4>3. next' \in Bad
        BY <4>2, <3>2, <1>5 DEF Read
      <4> QED
        BY <4>1, <4>3, <1>2
    <3> QED
      BY <3>1, <3>2
  <2>3. at' \in {"checking", "refused"}
    BY <1>5 DEF Read
  <2> QED
    BY <2>1, <2>2, <2>3, <1>5, <1>1 DEF Read, IngestTypeOK
<1>6. CASE Skip \/ TakeKnown
  <2>1. next' \in 1 .. Len(batch) + 1
    BY <1>6, <1>2 DEF Skip, TakeKnown
  <2> QED
    BY <2>1, <1>6, <1>1 DEF Skip, TakeKnown, IngestTypeOK
<1>7. CASE Stage
  <2> DEFINE e == AsEvent(View, AsRequest(batch[next]))
  <2>1. next \in DOMAIN batch /\ next' \in 1 .. Len(batch) + 1
    BY <1>7, <1>2 DEF Stage
  <2>2. AsRequest(batch[next]) \in Asked /\ View \in Seq(Entry)
    BY <2>1, <1>2, AskedTyped DEF View
  <2>3. e \in Entry
    BY <2>2, EntryTyped
  <2>4. staged' \in Seq(Entry)
    BY <2>3, <1>2, <1>7 DEF Stage
  <2> QED
    BY <2>1, <2>4, <1>7, <1>1 DEF Stage, IngestTypeOK
<1>8. CASE Refuse \/ TakeRejected
  BY <1>8, <1>1 DEF Refuse, TakeRejected, IngestTypeOK
<1>9. CASE Begin
  <2>1. Len(batch) <= Len(trace)
    BY <1>9, <1>1 DEF Begin, BatchInv, BatchIsRead
  <2>2. next' \in 1 .. Len(batch) + 1 /\ begun' \in 0 .. Len(trace)
    BY <2>1, <1>9, <1>2 DEF Begin
  <2> QED
    BY <2>2, <1>9, <1>1 DEF Begin, IngestTypeOK
<1>10. CASE TakeNew
  <2>1. /\ next \in DOMAIN batch
        /\ ledger' = Append(ledger, AsEvent(ledger, AsRequest(batch[next])))
        /\ AsEvent(ledger, AsRequest(batch[next])) \in Entry
    BY <1>10, <1>1, TakenRecord
  <2>2. LoadAccepts(ledger')
    BY <2>1, <1>2, <1>10, LoadAcceptsAppend DEF TakeNew
  <2>3. ledger' \in Seq(Entry) /\ next' \in 1 .. Len(batch) + 1
    BY <2>1, <1>2, <1>10 DEF TakeNew
  <2> QED
    BY <2>2, <2>3, <1>10, <1>1 DEF TakeNew, IngestTypeOK
<1>11. CASE Return \/ Die
  <2>1. batch' = <<>> /\ next' = 1 /\ staged' = <<>> /\ at' = "idle"
        /\ trace' = trace /\ ledger' = ledger /\ begun' = begun
    BY <1>11 DEF Return, Die
  <2> QED
    BY <2>1, <1>1 DEF IngestTypeOK
<1> QED
  BY <1>3, <1>4, <1>5, <1>6, <1>7, <1>8, <1>9, <1>10, <1>11 DEF IngestNext

(* ... what the ledger has, which only the two appends change ...          *)
LEMMA LedgerStep ==
  ASSUME IngestInv, IngestNext
  PROVE  LedgerInv'
<1>1. IngestTypeOK /\ BatchInv /\ LedgerInv /\ ledger \in Seq(Entry)
  BY DEF IngestInv, IngestTypeOK
<1>2. CASE \E r \in Records : Trace(r)
  <2>1. PICK r \in Records : Trace(r)
    BY <1>2
  <2>2. \A j \in DOMAIN trace : j \in DOMAIN trace' /\ trace'[j] = trace[j]
    BY <2>1, <1>1 DEF Trace, IngestTypeOK
  <2>3. ledger' = ledger
    BY <2>1 DEF Trace
  <2> QED
    BY <2>2, <2>3, <1>1 DEF LedgerInv
<1>3. ASSUME NEW e \in Entry, ledger' = Append(ledger, e), trace' = trace,
             e.key \in TraceKeys =>
               /\ e.state \in OBSERVATIONAL_STATES \union {NoState}
               /\ IsOutcome(e) => e.state = NoState
               /\ e.state = NoState => StateOf(ledger, e.trade) = "ORDER_SUBMITTED"
               /\ \E j \in DOMAIN trace : trace[j].key = e.key
      PROVE  LedgerInv'
  <2> DEFINE n == Len(ledger) + 1
  <2>1. /\ n \in Nat /\ DOMAIN ledger' = DOMAIN ledger \union {n} /\ ledger'[n] = e
        /\ \A i \in DOMAIN ledger : /\ ledger'[i] = ledger[i]
                                    /\ SubSeq(ledger', 1, i - 1) = SubSeq(ledger, 1, i - 1)
        /\ SubSeq(ledger', 1, n - 1) = ledger
    BY <1>1, <1>3
  <2>2. Observed(ledger')
    <3> SUFFICES ASSUME NEW i \in DOMAIN ledger', ledger'[i].key \in TraceKeys
                 PROVE  /\ ledger'[i].state \in OBSERVATIONAL_STATES \union {NoState}
                        /\ IsOutcome(ledger'[i]) => ledger'[i].state = NoState
                        /\ ledger'[i].state = NoState =>
                             StateOf(SubSeq(ledger', 1, i - 1), ledger'[i].trade)
                               = "ORDER_SUBMITTED"
      BY DEF Observed
    <3>1. CASE i = n
      BY <3>1, <2>1, <1>3
    <3>2. CASE i \in DOMAIN ledger
      BY <3>2, <2>1, <1>1 DEF LedgerInv, Observed
    <3> QED
      BY <3>1, <3>2, <2>1
  <2>3. \A i \in DOMAIN ledger' : ledger'[i].key \in TraceKeys =>
          \E j \in DOMAIN trace' : trace'[j].key = ledger'[i].key
    BY <2>1, <1>1, <1>3 DEF LedgerInv
  <2> QED
    BY <2>2, <2>3 DEF LedgerInv
<1>4. CASE \E r \in Others : External(r)
  <2>1. PICK r \in Others : External(r)
    BY <1>4
  <2> QED
    BY <2>1, <1>1, <1>3, OthersRecord DEF External
<1>5. CASE TakeNew
  <2> DEFINE r == batch[next]
             e == AsEvent(ledger, AsRequest(r))
  <2>1. /\ next \in DOMAIN batch /\ r \in Records /\ r = trace[next]
        /\ next \in DOMAIN trace /\ Normalized(r) /\ Appending
        /\ ledger' = Append(ledger, e) /\ e \in Entry /\ e.key = r.key
        /\ ~HasKey(ledger, r.key)
    BY <1>1, <1>5, TakenRecord
  <2>2. /\ e.trade = r.trade /\ e.type = r.type
        /\ e.state = IF IsOutcome(r) THEN NoState ELSE r.state
    BY DEF AsEvent, AsRequest
  <2>3. e.state \in OBSERVATIONAL_STATES \union {NoState}
    BY <2>1, <2>2 DEF Normalized
  <2>4. IsOutcome(e) <=> IsOutcome(r)
    BY <2>2 DEF IsOutcome
  <2>5. ASSUME e.state = NoState PROVE StateOf(ledger, e.trade) = "ORDER_SUBMITTED"
    <3>1. IsOutcome(r)
      BY <2>1, <2>2, <2>5 DEF Normalized, OBSERVATIONAL_STATES, NoState
    <3>2. /\ batch \in Seq(Records) /\ next \in Nat /\ next - 1 <= Len(batch)
          /\ next \in 1 .. Len(batch)
      BY <2>1, <1>1 DEF IngestTypeOK
    <3>3. \A j \in 1 .. next - 1 : HasKey(ledger, batch[j].key)
      BY <2>1 DEF Appending
    <3>4. IsNew(ledger, batch, next)
      BY <2>1, <3>2, <3>3, NextIsNew
    <3>5. PassesAt(ledger, batch, next)
      BY <2>1, <3>2 DEF Appending, Passes
    <3>6. Simulated(ledger, batch, next, r.trade) = "ORDER_SUBMITTED"
      BY <3>1, <3>4, <3>5 DEF PassesAt
    <3>7. Simulated(ledger, batch, next, r.trade) = StateOf(ledger, r.trade)
      BY <3>2, <3>3, NothingNewBefore
    <3> QED
      BY <3>6, <3>7, <2>2
  <2>6. trace' = trace
    BY <1>5 DEF TakeNew
  <2>7. \E j \in DOMAIN trace : trace[j].key = e.key
    BY <2>1
  <2>8. IsOutcome(e) => e.state = NoState
    BY <2>2, <2>4
  <2> HIDE DEF e
  <2> QED
    BY <2>1, <2>3, <2>5, <2>6, <2>7, <2>8, <1>3
<1>6. CASE UNCHANGED <<trace, ledger>>
  BY <1>6, <1>1 DEF LedgerInv
<1> QED
  BY <1>2, <1>4, <1>5, <1>6
     DEF IngestNext, Read, Skip, Stage, Refuse, Begin, TakeKnown, TakeRejected, Return, Die

(* ... the order of what was taken: the record taken is the next one of a  *)
(* beginning of the trace ...                                              *)
LEMMA BeginningStep ==
  ASSUME IngestInv, IngestNext
  PROVE  LedgerHoldsABeginning'
<1>1. /\ IngestTypeOK /\ BatchInv /\ LedgerInv /\ LedgerHoldsABeginning
      /\ ledger \in Seq(Entry) /\ trace \in Seq(Records)
  BY DEF IngestInv, IngestTypeOK
<1> SUFFICES ASSUME NEW y \in DOMAIN trace', First(y)',
                    NEW m \in DOMAIN ledger', ledger'[m].key = trace'[y].key,
                    NEW x \in 1 .. y - 1
             PROVE  \E k \in 1 .. m - 1 : ledger'[k].key = trace'[x].key
  BY DEF LedgerHoldsABeginning
<1>2. CASE \E r \in Records : Trace(r)
  <2>1. PICK r \in Records : Trace(r)
    BY <1>2
  <2> DEFINE n == Len(trace) + 1
  <2>2. /\ DOMAIN trace' = 1 .. n /\ DOMAIN trace = 1 .. Len(trace) /\ n \in Nat
        /\ Len(trace) \in Nat /\ \A j \in DOMAIN trace : trace'[j] = trace[j]
        /\ ledger' = ledger /\ trace'[n] = r
    BY <2>1, <1>1 DEF Trace
  <2>3. CASE y = n
    <3>1. \A j \in DOMAIN trace : trace[j].key # r.key
      BY <2>2, <2>3 DEF First
    <3>2. ledger[m].key \in TraceKeys
      BY <2>2, <2>3 DEF TraceKeys
    <3> QED
      BY <3>1, <3>2, <2>2, <2>3, <1>1 DEF LedgerInv
  <2>4. CASE y # n
    <3>1. y \in DOMAIN trace /\ \A j \in 1 .. y - 1 : j \in DOMAIN trace
      BY <2>2, <2>4
    <3>2. First(y)
      BY <3>1, <2>2 DEF First
    <3> QED
      BY <3>1, <3>2, <2>2, <1>1 DEF LedgerHoldsABeginning
  <2> QED
    BY <2>3, <2>4
<1>3. CASE \E r \in Others : External(r)
  <2>1. PICK r \in Others : External(r)
    BY <1>3
  <2> DEFINE e == AsEvent(ledger, r)
             n == Len(ledger) + 1
  <2>2. ledger' = Append(ledger, e) /\ e \in Entry /\ e.key \notin TraceKeys
    BY <2>1, <1>1, OthersRecord
  <2>3. trace' = trace
    BY <2>1 DEF External
  <2>4. trace[y].key \in TraceKeys
    BY <2>3, <1>1 DEF TraceKeys
  <2> HIDE DEF e
  <2>5. /\ DOMAIN ledger' = DOMAIN ledger \union {n} /\ ledger'[n] = e
        /\ \A i \in DOMAIN ledger : ledger'[i] = ledger[i]
        /\ \A i \in DOMAIN ledger : \A k \in 1 .. i - 1 : k \in DOMAIN ledger
    BY <2>2, <1>1
  <2>6. m \in DOMAIN ledger
    BY <2>2, <2>3, <2>4, <2>5
  <2>7. First(y)
    BY <2>3 DEF First
  <2> QED
    BY <2>3, <2>5, <2>6, <2>7, <1>1 DEF LedgerHoldsABeginning
<1>4. CASE TakeNew
  <2> DEFINE e == AsEvent(ledger, AsRequest(batch[next]))
             n == Len(ledger) + 1
  <2>1. /\ next \in DOMAIN batch /\ batch[next] = trace[next]
        /\ next \in DOMAIN trace /\ Appending
        /\ ledger' = Append(ledger, e) /\ e \in Entry /\ e.key = batch[next].key
    BY <1>1, <1>4, TakenRecord
  <2>2. trace' = trace /\ First(y)
    <3>1. trace' = trace
      BY <1>4 DEF TakeNew
    <3> QED
      BY <3>1 DEF First
  <2> HIDE DEF e
  <2>3. /\ DOMAIN ledger' = 1 .. n /\ DOMAIN ledger = 1 .. (n - 1) /\ n \in Nat
        /\ ledger'[n] = e /\ \A i \in DOMAIN ledger : ledger'[i] = ledger[i]
    BY <2>1, <1>1
  <2>4. CASE m = n
    <3>1. y <= next
      <4>1. ~(next \in 1 .. y - 1)
        BY <2>1, <2>2, <2>3, <2>4 DEF First
      <4> QED
        BY <4>1, <2>1, <2>2, <1>1
    <3>2. x \in 1 .. next - 1 /\ x \in DOMAIN batch
      BY <3>1, <2>1, <2>2, <1>1 DEF IngestTypeOK
    <3>3. HasKey(ledger, trace[x].key)
      <4>1. HasKey(ledger, batch[x].key)
        BY <3>2, <2>1 DEF Appending
      <4>2. BatchIsRead
        BY <1>1, <1>4 DEF BatchInv, TakeNew
      <4> QED
        BY <4>1, <4>2, <3>2 DEF BatchIsRead
    <3> QED
      BY <3>3, <2>2, <2>3, <2>4 DEF HasKey
  <2>5. CASE m # n
    <3>1. m \in DOMAIN ledger /\ \A k \in 1 .. m - 1 : k \in DOMAIN ledger
      BY <2>3, <2>5
    <3> QED
      BY <3>1, <2>2, <2>3, <1>1 DEF LedgerHoldsABeginning
  <2> QED
    BY <2>4, <2>5
<1>5. CASE UNCHANGED <<trace, ledger>>
  BY <1>5, <1>1 DEF LedgerHoldsABeginning, First
<1> QED
  BY <1>2, <1>3, <1>4, <1>5
     DEF IngestNext, Read, Skip, Stage, Refuse, Begin, TakeKnown, TakeRejected, Return, Die

(* The view holds the ledger's events and the staged ones, and no other.   *)
LEMMA ViewHolds ==
  ASSUME ledger \in Seq(Entry), staged \in Seq(Entry)
  PROVE  /\ View \in Seq(Entry)
         /\ \A i \in DOMAIN ledger : i \in DOMAIN View /\ View[i] = ledger[i]
         /\ \A i \in DOMAIN staged : \E k \in DOMAIN View : View[k] = staged[i]
         /\ \A k \in DOMAIN View :
              \/ k \in DOMAIN ledger /\ View[k] = ledger[k]
              \/ \E i \in DOMAIN staged : View[k] = staged[i]
<1>1. /\ Len(ledger) \in Nat /\ DOMAIN ledger = 1 .. Len(ledger)
      /\ Len(staged) \in Nat /\ DOMAIN staged = 1 .. Len(staged)
      /\ DOMAIN View = 1 .. (Len(ledger) + Len(staged)) /\ View \in Seq(Entry)
      /\ \A k \in DOMAIN View :
           View[k] = IF k <= Len(ledger) THEN ledger[k] ELSE staged[k - Len(ledger)]
  BY DEF View
<1>2. ASSUME NEW i \in DOMAIN staged
      PROVE  \E k \in DOMAIN View : View[k] = staged[i]
  <2>1. /\ Len(ledger) + i \in DOMAIN View /\ ~(Len(ledger) + i <= Len(ledger))
        /\ (Len(ledger) + i) - Len(ledger) = i
    BY <1>1
  <2>2. View[Len(ledger) + i] = staged[i]
    BY <2>1, <1>1
  <2> QED
    BY <2>1, <2>2
<1>3. ASSUME NEW k \in DOMAIN View
      PROVE  \/ k \in DOMAIN ledger /\ View[k] = ledger[k]
             \/ \E i \in DOMAIN staged : View[k] = staged[i]
  <2>1. CASE k <= Len(ledger)
    BY <2>1, <1>1
  <2>2. CASE ~(k <= Len(ledger))
    <3>1. k - Len(ledger) \in DOMAIN staged
      BY <1>1, <2>2
    <3> QED
      BY <3>1, <1>1, <2>2
  <2> QED
    BY <2>1, <2>2
<1> QED
  BY <1>1, <1>2, <1>3

(* A record that the check skips passes, and is not new.                   *)
LEMMA SkipChecked ==
  ASSUME IngestInv, Skip
  PROVE  Checked'
<1> DEFINE r == batch[next]
<1>1. /\ at = "checking" /\ next <= Len(batch) /\ Known(View, r) /\ next' = next + 1
      /\ ledger' = ledger /\ batch' = batch /\ staged' = staged
  BY DEF Skip
<1>2. /\ ledger \in Seq(Entry) /\ LoadAccepts(ledger) /\ staged \in Seq(Entry)
      /\ batch \in Seq(Records) /\ next \in Nat /\ next \in DOMAIN batch
      /\ next \in 1 .. Len(batch)
  BY <1>1 DEF IngestInv, IngestTypeOK
<1>3. Checked /\ BatchIsRead /\ Observed(ledger)
  BY <1>1 DEF IngestInv, BatchInv, LedgerInv
<1>4. r \in Records /\ r.key \in TraceKeys
  BY <1>2 DEF TraceKeys
<1>5. PICK i \in DOMAIN View : View[i].key = r.key /\ SameSemantics(View[i], r)
  BY <1>1 DEF Known
<1>6. \/ i \in DOMAIN ledger /\ View[i] = ledger[i]
      \/ \E k \in DOMAIN staged : View[i] = staged[k]
  BY <1>2, <1>5, ViewHolds
<1>7. ASSUME i \in DOMAIN ledger, View[i] = ledger[i]
      PROVE  ~IsNew(ledger, batch, next) /\ PassesAt(ledger, batch, next)
  <2>1. ledger[i].key = r.key /\ SameSemantics(ledger[i], r)
    BY <1>5, <1>7
  <2>2. ~IsOutcome(r)
    <3>1. ASSUME IsOutcome(r) PROVE FALSE
      <4>1. ledger[i].state = NoState
        BY <2>1, <3>1, <1>3, <1>4, <1>7 DEF Observed, SameSemantics, IsOutcome
      <4>2. r.state \in OBSERVATIONAL_STATES
        BY <1>2, <1>3 DEF BatchIsRead, Normalized
      <4> QED
        BY <4>1, <4>2, <2>1 DEF SameSemantics, OBSERVATIONAL_STATES, NoState
    <3> QED
      BY <3>1
  <2>3. SameSemantics(ledger[i], AsRequest(r))
    BY <2>1, <2>2 DEF SameSemantics, AsRequest
  <2>4. \A k \in DOMAIN ledger : ledger[k].key = r.key => k = i
    BY <1>2, <1>7, <2>1 DEF LoadAccepts
  <2>5. HasKey(ledger, r.key)
    BY <1>7, <2>1 DEF HasKey
  <2> QED
    BY <2>3, <2>4, <2>5 DEF PassesAt, IsNew
<1>8. ASSUME NEW k \in DOMAIN staged, View[i] = staged[k]
      PROVE  ~IsNew(ledger, batch, next) /\ PassesAt(ledger, batch, next)
  <2>1. PICK j \in 1 .. next - 1 : IsNew(ledger, batch, j) /\ Agrees(staged[k], batch[j])
    BY <1>3 DEF Checked
  <2>2. batch[j].key = r.key /\ SameSemantics(AsRequest(batch[j]), r)
    BY <2>1, <1>5, <1>8 DEF Agrees, SameSemantics
  <2>3. ~IsOutcome(r)
    <3>1. ASSUME IsOutcome(r) PROVE FALSE
      <4>1. IsOutcome(batch[j])
        BY <2>2, <3>1 DEF SameSemantics, IsOutcome, AsRequest
      <4>2. r.state \in OBSERVATIONAL_STATES
        BY <1>2, <1>3 DEF BatchIsRead, Normalized
      <4> QED
        BY <4>1, <4>2, <2>2 DEF SameSemantics, AsRequest, OBSERVATIONAL_STATES, NoState
    <3> QED
      BY <3>1
  <2>4. SameSemantics(AsRequest(batch[j]), AsRequest(r))
    BY <2>2, <2>3 DEF SameSemantics, AsRequest
  <2>5. \A l \in 1 .. next - 1 : IsNew(ledger, batch, l) /\ batch[l].key = r.key => l = j
    <3> TAKE l \in 1 .. next - 1
    <3>1. l < j \/ l = j \/ j < l
      BY <1>2, <2>1
    <3> QED
      BY <3>1, <1>2, <2>1, <2>2 DEF IsNew
  <2>6. ~HasKey(ledger, r.key)
    BY <2>1, <2>2 DEF IsNew
  <2>7. \A l \in DOMAIN ledger : ledger[l].key # r.key
    BY <2>6 DEF HasKey
  <2>8. ~IsNew(ledger, batch, next)
    BY <2>1, <2>2 DEF IsNew
  <2> QED
    BY <2>4, <2>5, <2>7, <2>8 DEF PassesAt
<1>9. ~IsNew(ledger, batch, next) /\ PassesAt(ledger, batch, next)
  BY <1>6, <1>7, <1>8
<1>10. /\ next' - 1 = next
       /\ \A j \in 1 .. next : j \in 1 .. next - 1 \/ j = next
       /\ \A j \in 1 .. next - 1 : j \in 1 .. next
  BY <1>1, <1>2
<1>11. Passes(ledger, batch, next)
  BY <1>3, <1>9, <1>10 DEF Passes, Checked
<1>12. \A t : Simulated(ledger, batch, next + 1, t) = Simulated(ledger, batch, next, t)
  BY <1>2, <1>9, SimulatedStep
<1>13. \A t : StateOf(View', t) = Simulated(ledger, batch, next + 1, t)
  BY <1>1, <1>3, <1>12 DEF Checked, View
<1>14. \A k \in DOMAIN staged : \E j \in 1 .. next :
         IsNew(ledger, batch, j) /\ Agrees(staged[k], batch[j])
  BY <1>3, <1>10 DEF Checked
<1>15. \A j \in 1 .. next : IsNew(ledger, batch, j) =>
         \E k \in DOMAIN staged : Agrees(staged[k], batch[j])
  BY <1>3, <1>9, <1>10 DEF Checked
<1> QED
  BY <1>1, <1>10, <1>11, <1>13, <1>14, <1>15 DEF Checked

(* A new record passes when the view is fresh for it.                      *)
LEMMA StageChecked ==
  ASSUME IngestInv, Stage
  PROVE  Checked'
<1> DEFINE r == batch[next]
           e == AsEvent(View, AsRequest(r))
           n == Len(staged) + 1
<1>1. /\ at = "checking" /\ next <= Len(batch) /\ Fresh(View, r) /\ next' = next + 1
      /\ ledger' = ledger /\ batch' = batch /\ staged' = Append(staged, e)
  BY DEF Stage
<1>2. /\ ledger \in Seq(Entry) /\ LoadAccepts(ledger) /\ staged \in Seq(Entry)
      /\ batch \in Seq(Records) /\ next \in Nat /\ next \in DOMAIN batch
      /\ next \in 1 .. Len(batch)
  BY <1>1 DEF IngestInv, IngestTypeOK
<1>3. Checked
  BY <1>1 DEF IngestInv, BatchInv
<1>4. /\ View \in Seq(Entry)
      /\ \A i \in DOMAIN ledger : i \in DOMAIN View /\ View[i] = ledger[i]
      /\ \A i \in DOMAIN staged : \E k \in DOMAIN View : View[k] = staged[i]
  BY <1>2, ViewHolds
<1>5. r \in Records /\ AsRequest(r) \in Asked
  BY <1>2, AskedTyped
<1>6. e \in Entry
  BY <1>4, <1>5, EntryTyped
<1>7. Agrees(e, r) /\ e.trade = r.trade /\ e.state = AsRequest(r).state
  BY DEF Agrees, AsEvent, AsRequest, SameSemantics
<1>8. ~HasKey(ledger, r.key) /\ \A i \in DOMAIN ledger : ledger[i].key # r.key
  BY <1>1, <1>4 DEF Fresh, HasKey
<1>9. IsNew(ledger, batch, next)
  <2>1. ASSUME NEW k \in 1 .. next - 1, batch[k].key = r.key PROVE FALSE
    <3>1. k \in DOMAIN batch
      BY <1>2
    <3>2. PICK j \in 1 .. k : batch[j].key = r.key /\ IsNew(ledger, batch, j)
      BY <1>2, <1>8, <2>1, <3>1, FirstIsNew
    <3>3. j \in 1 .. next - 1
      BY <1>2
    <3>4. PICK i \in DOMAIN staged : Agrees(staged[i], batch[j])
      BY <3>2, <3>3, <1>3 DEF Checked
    <3>5. HasKey(View, r.key)
      BY <3>2, <3>4, <1>4 DEF Agrees, HasKey
    <3> QED
      BY <3>5, <1>1 DEF Fresh
  <2> QED
    BY <2>1, <1>8 DEF IsNew
<1>10. PassesAt(ledger, batch, next)
  <2>1. \A i \in DOMAIN ledger : ledger[i].id # r.id
    BY <1>1, <1>4 DEF Fresh
  <2>2. \A j \in 1 .. next - 1 : IsNew(ledger, batch, j) => batch[j].id # r.id
    <3> SUFFICES ASSUME NEW j \in 1 .. next - 1, IsNew(ledger, batch, j),
                        batch[j].id = r.id
                 PROVE  FALSE
      OBVIOUS
    <3>1. PICK i \in DOMAIN staged : Agrees(staged[i], batch[j])
      BY <1>3 DEF Checked
    <3>2. PICK k \in DOMAIN View : View[k] = staged[i]
      BY <1>4
    <3> QED
      BY <3>1, <3>2, <1>1 DEF Agrees, Fresh
  <2>3. StateOf(View, r.trade) = Simulated(ledger, batch, next, r.trade)
    BY <1>3 DEF Checked
  <2>4. IF IsOutcome(r) THEN StateOf(View, r.trade) = "ORDER_SUBMITTED"
        ELSE <<StateOf(View, r.trade), r.state>> \in ALLOWED_TRANSITIONS
    BY <1>1 DEF Fresh
  <2>5. \A j \in 1 .. next - 1 : batch[j].key # r.key
    BY <1>9 DEF IsNew
  <2> QED
    BY <2>1, <2>2, <2>3, <2>4, <2>5, <1>8 DEF PassesAt
<1>11. /\ next' - 1 = next
       /\ \A j \in 1 .. next : j \in 1 .. next - 1 \/ j = next
       /\ \A j \in 1 .. next - 1 : j \in 1 .. next
       /\ next \in 1 .. next
  BY <1>1, <1>2
<1>12. Passes(ledger, batch, next)
  BY <1>3, <1>10, <1>11 DEF Passes, Checked
<1> HIDE DEF e
<1>13. /\ DOMAIN staged' = DOMAIN staged \union {n} /\ staged'[n] = e
       /\ \A i \in DOMAIN staged : staged'[i] = staged[i]
  BY <1>1, <1>2, <1>6
<1>14. \A i \in DOMAIN staged' : \E j \in 1 .. next :
         IsNew(ledger, batch, j) /\ Agrees(staged'[i], batch[j])
  <2> TAKE i \in DOMAIN staged'
  <2>1. CASE i \in DOMAIN staged
    BY <2>1, <1>3, <1>11, <1>13 DEF Checked
  <2>2. CASE i = n
    BY <2>2, <1>7, <1>9, <1>11, <1>13
  <2> QED
    BY <2>1, <2>2, <1>13
<1>15. \A j \in 1 .. next : IsNew(ledger, batch, j) =>
         \E i \in DOMAIN staged' : Agrees(staged'[i], batch[j])
  <2> SUFFICES ASSUME NEW j \in 1 .. next, IsNew(ledger, batch, j)
               PROVE  \E i \in DOMAIN staged' : Agrees(staged'[i], batch[j])
    OBVIOUS
  <2>1. CASE j \in 1 .. next - 1
    <3>1. PICK i \in DOMAIN staged : Agrees(staged[i], batch[j])
      BY <2>1, <1>3 DEF Checked
    <3> QED
      BY <3>1, <1>13
  <2>2. CASE j = next
    BY <2>2, <1>7, <1>13
  <2> QED
    BY <2>1, <2>2, <1>11
<1>16. View' = Append(View, e)
  BY <1>1, <1>2, <1>4, <1>6 DEF View
<1>17. \A t : StateOf(View', t) = Simulated(ledger, batch, next + 1, t)
  <2> TAKE t
  <2>1. StateOf(View', t) =
          IF e.trade = t /\ e.state # NoState THEN e.state ELSE StateOf(View, t)
    BY <1>4, <1>6, <1>16, StateOfAppend
  <2>2. StateOf(View, t) = Simulated(ledger, batch, next, t)
    BY <1>3 DEF Checked
  <2>3. Simulated(ledger, batch, next + 1, t) =
           IF /\ r.trade = t /\ IsNew(ledger, batch, next)
              /\ AsRequest(r).state # NoState
           THEN AsRequest(r).state ELSE Simulated(ledger, batch, next, t)
    BY <1>2, SimulatedStep
  <2> QED
    BY <2>1, <2>2, <2>3, <1>7, <1>9
<1> QED
  BY <1>1, <1>11, <1>12, <1>14, <1>15, <1>17 DEF Checked

(* ... and what the phase of an ingest says of its batch.                  *)
LEMMA BatchStep ==
  ASSUME IngestInv, IngestNext
  PROVE  BatchInv'
<1>1. /\ IngestTypeOK /\ BatchInv /\ trace \in Seq(Records) /\ batch \in Seq(Records)
      /\ ledger \in Seq(Entry) /\ Len(trace) \in Nat /\ Len(batch) \in Nat
      /\ begun \in Nat /\ begun <= Len(trace) /\ next \in Nat
  BY DEF IngestInv, IngestTypeOK
<1>2. CASE \E r \in Records : Trace(r)
  <2>1. PICK r \in Records : Trace(r)
    BY <1>2
  <2>2. /\ \A j \in 1 .. Len(trace) : trace'[j] = trace[j]
        /\ Len(trace) <= Len(trace')
    BY <2>1, <1>1 DEF Trace
  <2>3. \A i \in 1 .. begun : i \in 1 .. Len(trace)
    BY <1>1
  <2>4. /\ UNCHANGED <<ledger, at, batch, next, staged, begun>>
        /\ (Checked' <=> Checked) /\ (Appending' <=> Appending)
    BY <2>1 DEF Trace, Checked, Appending, View
  <2>5. BatchIsRead => BatchIsRead'
    <3> SUFFICES ASSUME BatchIsRead PROVE BatchIsRead'
      OBVIOUS
    <3>1. \A i \in DOMAIN batch : i \in 1 .. Len(trace)
      BY <1>1 DEF BatchIsRead
    <3>2. Len(batch') <= Len(trace')
      BY <1>1, <2>2, <2>4, <2>1 DEF BatchIsRead, Trace
    <3> QED
      BY <3>1, <3>2, <2>2, <2>4 DEF BatchIsRead
  <2>6. \A i \in 1 .. begun' : Normalized(trace'[i])
    BY <2>2, <2>3, <2>4, <1>1 DEF BatchInv
  <2> QED
    BY <2>4, <2>5, <2>6, <1>1 DEF BatchInv
<1>3. CASE \E r \in Others : External(r)
  BY <1>3, <1>1 DEF External, BatchInv
<1>4. CASE Read
  <2>1. CASE trace # <<>> /\ Bad = {}
    <3>1. /\ batch' = trace /\ staged' = <<>> /\ next' = 1 /\ at' = "checking"
          /\ UNCHANGED <<trace, ledger, begun>>
      BY <2>1, <1>4 DEF Read
    <3>2. BatchIsRead'
      BY <2>1, <3>1, <1>1 DEF BatchIsRead, Bad
    <3>3. /\ DOMAIN staged' = {} /\ 1 .. next' - 1 = {} /\ View' = ledger
      BY <3>1, <1>1 DEF View
    <3>4. \A t : Simulated(ledger, batch', 1, t) = StateOf(ledger, t)
      BY SimulatedNothing
    <3>5. Checked'
      BY <3>1, <3>3, <3>4 DEF Checked, Passes
    <3> QED
      BY <3>1, <3>2, <3>5, <1>1 DEF BatchInv
  <2>2. CASE ~(trace # <<>> /\ Bad = {})
    BY <2>2, <1>4, <1>1 DEF Read, BatchInv
  <2> QED
    BY <2>1, <2>2
<1>5. CASE Skip
  BY <1>5, <1>1, SkipChecked DEF Skip, BatchInv, BatchIsRead
<1>6. CASE Stage
  BY <1>6, <1>1, StageChecked DEF Stage, BatchInv, BatchIsRead
<1>7. CASE Begin
  <2>1. /\ at = "checking" /\ next > Len(batch) /\ at' = "appending" /\ next' = 1
        /\ begun' = Len(batch) /\ UNCHANGED <<trace, ledger, batch, staged>>
    BY <1>7 DEF Begin
  <2>2. BatchIsRead /\ Checked
    BY <2>1, <1>1 DEF BatchInv
  <2>3. next - 1 = Len(batch) /\ 1 .. next' - 1 = {}
    BY <2>1, <1>1 DEF IngestTypeOK
  <2>4. Appending'
    BY <2>1, <2>2, <2>3 DEF Appending, Checked
  <2>5. BatchIsRead'
    BY <2>1, <2>2 DEF BatchIsRead
  <2>6. \A i \in 1 .. begun' : Normalized(trace'[i])
    BY <2>1, <2>2, <1>1 DEF BatchIsRead
  <2> QED
    BY <2>1, <2>4, <2>5, <2>6 DEF BatchInv
<1>8. CASE TakeKnown
  <2>1. /\ at = "appending" /\ next <= Len(batch) /\ next' = next + 1
        /\ Known(ledger, AsRequest(batch[next]))
        /\ UNCHANGED <<trace, ledger, at, batch, staged, begun>>
    BY <1>8 DEF TakeKnown
  <2>2. HasKey(ledger, batch[next].key)
    BY <2>1 DEF Known, HasKey, AsRequest
  <2>3. \A j \in 1 .. next' - 1 : j \in 1 .. next - 1 \/ j = next
    BY <2>1, <1>1
  <2>4. Appending'
    BY <2>1, <2>2, <2>3, <1>1 DEF BatchInv, Appending
  <2> QED
    BY <2>1, <2>4, <1>1 DEF BatchInv, BatchIsRead
<1>9. CASE TakeNew
  <2> DEFINE e == AsEvent(ledger, AsRequest(batch[next]))
  <2>1. /\ next \in DOMAIN batch /\ Appending /\ ledger' = Append(ledger, e)
        /\ e \in Entry /\ e.key = batch[next].key /\ ~HasKey(ledger, batch[next].key)
    BY <1>1, <1>9, TakenRecord
  <2>2. /\ at = "appending" /\ next' = next + 1
        /\ UNCHANGED <<trace, at, batch, staged, begun>>
    BY <1>9 DEF TakeNew
  <2>3. Passes(ledger', batch, Len(batch))
    BY <2>1, <1>1, TakenPasses DEF Appending
  <2> HIDE DEF e
  <2>4. \A k : HasKey(ledger, k) \/ k = e.key => HasKey(ledger', k)
    <3>1. /\ \A i \in DOMAIN ledger : i \in DOMAIN ledger' /\ ledger'[i] = ledger[i]
          /\ \E i \in DOMAIN ledger' : ledger'[i] = e
      <4>1. /\ Len(ledger) + 1 \in DOMAIN ledger' /\ ledger'[Len(ledger) + 1] = e
        BY <2>1, <1>1
      <4> QED
        BY <4>1, <2>1, <1>1
    <3> QED
      BY <3>1 DEF HasKey
  <2>5. \A j \in 1 .. next' - 1 : j \in 1 .. next - 1 \/ j = next
    BY <2>2, <1>1
  <2>6. Appending'
    BY <2>1, <2>2, <2>3, <2>4, <2>5 DEF Appending
  <2> QED
    BY <2>2, <2>6, <1>1 DEF BatchInv, BatchIsRead
<1>10. CASE Refuse \/ TakeRejected \/ Return \/ Die
  <2>1. at' \notin {"checking", "appending"} /\ UNCHANGED <<trace, begun>>
    BY <1>10 DEF Refuse, TakeRejected, Return, Die
  <2> QED
    BY <2>1, <1>1 DEF BatchInv
<1> QED
  BY <1>2, <1>3, <1>4, <1>5, <1>6, <1>7, <1>8, <1>9, <1>10 DEF IngestNext

(* Together they are inductive.                                            *)
LEMMA NextIngest == IngestInv /\ [IngestNext]_ingest => IngestInv'
<1> SUFFICES ASSUME IngestInv, [IngestNext]_ingest PROVE IngestInv'
  OBVIOUS
<1>1. CASE IngestNext
  BY <1>1, IngestTypeStep, BatchStep, LedgerStep, BeginningStep DEF IngestInv
<1>2. CASE UNCHANGED ingest
  BY <1>2 DEF ingest, IngestInv, IngestTypeOK, BatchInv, LedgerInv, BatchIsRead,
              Checked, Appending, View, LedgerHoldsABeginning, First
<1> QED
  BY <1>1, <1>2

(* What holds in every state of every sequence of ingests.                 *)
THEOREM IngestInvariant == IngestSpec => []IngestInv
BY InitIngest, NextIngest, PTL DEF IngestSpec

(* The variables of an ingest keep their types, and the ledger it extends  *)
(* can always be opened.                                                   *)
THEOREM IngestTypeCorrect == IngestSpec => []IngestTypeOK
<1>1. IngestInv => IngestTypeOK
  BY DEF IngestInv
<1> QED
  BY <1>1, IngestInvariant, PTL

(* Wherever an ingest died, the ledger holds a beginning of the trace.     *)
THEOREM AlwaysABeginning == IngestSpec => []LedgerHoldsABeginning
<1>1. IngestInv => LedgerHoldsABeginning
  BY DEF IngestInv
<1> QED
  BY <1>1, IngestInvariant, PTL

(* What the preflight accepted, the ledger has or can take.                *)
LEMMA PreflightNow == IngestInv => PreflightSuffices
<1>1. ASSUME IngestInv, at = "appending", next <= Len(batch)
      PROVE  \/ Known(ledger, AsRequest(batch[next]))
             \/ CanAppend(ledger, AsRequest(batch[next]))
  <2> DEFINE r == batch[next]
             q == AsRequest(r)
  <2>1. /\ batch \in Seq(Records) /\ next \in DOMAIN batch /\ next \in Nat
        /\ next \in 1 .. Len(batch) /\ next - 1 <= Len(batch)
        /\ Appending
    BY <1>1 DEF IngestInv, IngestTypeOK, BatchInv
  <2>2. PassesAt(ledger, batch, next)
    BY <2>1 DEF Appending, Passes
  <2>3. q.key = r.key /\ q.id = r.id /\ q.trade = r.trade
        /\ q.state = IF IsOutcome(r) THEN NoState ELSE r.state
    BY DEF AsRequest
  <2> HIDE DEF q
  <2>4. CASE HasKey(ledger, r.key)
    <3>1. PICK i \in DOMAIN ledger : ledger[i].key = r.key
      BY <2>4 DEF HasKey
    <3>2. SameSemantics(ledger[i], q)
      BY <3>1, <2>2 DEF PassesAt, q
    <3> QED
      BY <3>1, <3>2, <2>3 DEF Known, q
  <2>5. CASE ~HasKey(ledger, r.key)
    <3>1. IsNew(ledger, batch, next)
      BY <2>1, <2>5, NextIsNew DEF Appending
    <3>2. Simulated(ledger, batch, next, r.trade) = StateOf(ledger, r.trade)
      BY <2>1, NothingNewBefore DEF Appending
    <3>3. \A i \in DOMAIN ledger : ledger[i].id # r.id
      BY <2>2, <3>1 DEF PassesAt
    <3>4. IsOutcome(r) \/ <<StateOf(ledger, r.trade), r.state>> \in ALLOWED_TRANSITIONS
      BY <2>2, <3>1, <3>2 DEF PassesAt
    <3>5. Moves(StateOf(ledger, q.trade), q.state)
      BY <2>3, <3>4 DEF Moves
    <3> QED
      BY <2>3, <2>5, <3>3, <3>5 DEF CanAppend, IdReused, q
  <2> QED
    BY <2>4, <2>5 DEF q
<1> QED
  BY <1>1 DEF PreflightSuffices

(* ... in every state of every ingest.                                     *)
THEOREM PreflightIsEnough == IngestSpec => []PreflightSuffices
BY PreflightNow, IngestInvariant, PTL

(* The states a trade can be in once it was authorised and the order went. *)
Beyond == STATES \ {"PROPOSED", "VALIDATED", "RISK_RESERVED", "AUTHORIZED"}

(* In a ledger that a load accepts, whoever is beyond its authorization    *)
(* was authorised.                                                         *)
THEOREM AuthorizedBefore ==
  ASSUME NEW log \in Seq(Entry), LoadAccepts(log),
         NEW i \in DOMAIN log, log[i].state \in Beyond
  PROVE  \E j \in 1 .. i - 1 :
           log[j].trade = log[i].trade /\ log[j].state = "AUTHORIZED"
<1> DEFINE t == log[i].trade
           Far == { j \in 1 .. i : log[j].trade = t /\ log[j].state \in Beyond }
<1>1. Len(log) \in Nat /\ DOMAIN log = 1 .. Len(log) /\ i \in Nat
      /\ i \in Far /\ Far \in SUBSET (1 .. i)
  OBVIOUS
<1>2. PICK j \in Far : \A k \in Far : j <= k
  <2> HIDE DEF Far
  <2> QED
    BY <1>1, MinExists
<1> DEFINE before == SubSeq(log, 1, j - 1)
           m == LastStateful(before, t)
<1>3. /\ j \in Nat /\ j \in DOMAIN log /\ j <= i
      /\ before \in Seq(Entry) /\ DOMAIN before = 1 .. (j - 1)
      /\ \A k \in DOMAIN before : before[k] = log[k] /\ k \in DOMAIN log /\ k < j
  BY <1>1, <1>2
<1>4. Moves(StateOf(before, t), log[j].state) /\ log[j].state \in Beyond
  BY <1>2, <1>3 DEF LoadAccepts
<1>5. StateOf(before, t) \in Beyond \union {"AUTHORIZED"}
  BY <1>4 DEF Moves, Beyond, STATES, NoState, ALLOWED_TRANSITIONS
<1>6. StateOf(before, t) # NoState
  BY <1>5 DEF Beyond, STATES, NoState
<1>7. StatefulOf(before, t) # {} /\ StateOf(before, t) = before[m].state
  BY <1>6 DEF StateOf
<1>8. m \in StatefulOf(before, t)
  <2> HIDE DEF before
  <2> QED
    BY <1>3, <1>7, LastStatefulIsLast
<1>9. /\ m \in 1 .. (j - 1) /\ log[m].trade = t /\ log[m].state = StateOf(before, t)
      /\ m \in 1 .. (i - 1) /\ m \in 1 .. i
  <2>1. m \in DOMAIN before /\ before[m].trade = t
    BY <1>8 DEF StatefulOf
  <2> HIDE DEF m, before
  <2> QED
    BY <2>1, <1>1, <1>3, <1>7
<1>10. log[m].state \notin Beyond
  <2>1. ~(j <= m)
    BY <1>3, <1>9
  <2> HIDE DEF m
  <2> QED
    BY <2>1, <1>2, <1>9
<1> QED
  BY <1>5, <1>9, <1>10

(* A trace puts observations into the ledger, and only about trades that   *)
(* somebody else had authorised.                                           *)
THEOREM TracesGrantNothing == IngestSpec => []TraceGrantsNothing
<1>1. ASSUME IngestInv, NEW i \in DOMAIN ledger, ledger[i].key \in TraceKeys
      PROVE  /\ ledger[i].state \in OBSERVATIONAL_STATES \union {NoState}
             /\ \E j \in 1 .. i - 1 : /\ ledger[j].trade = ledger[i].trade
                                      /\ ledger[j].state = "AUTHORIZED"
                                      /\ ledger[j].key \notin TraceKeys
  <2>1. /\ ledger \in Seq(Entry) /\ LoadAccepts(ledger) /\ Observed(ledger)
        /\ Len(ledger) \in Nat /\ DOMAIN ledger = 1 .. Len(ledger) /\ i \in Nat
    BY <1>1 DEF IngestInv, IngestTypeOK, LedgerInv
  <2>2. ledger[i].state \in OBSERVATIONAL_STATES \union {NoState}
    BY <1>1, <2>1 DEF Observed
  <2>3. \E j \in 1 .. i - 1 :
          ledger[j].trade = ledger[i].trade /\ ledger[j].state = "AUTHORIZED"
    <3>1. CASE ledger[i].state # NoState
      <4>1. ledger[i].state \in Beyond
        BY <2>2, <3>1 DEF OBSERVATIONAL_STATES, Beyond, STATES
      <4> QED
        BY <4>1, <2>1, AuthorizedBefore
    <3>2. CASE ledger[i].state = NoState
      <4> DEFINE before == SubSeq(ledger, 1, i - 1)
                 m == LastStateful(before, ledger[i].trade)
      <4>1. StateOf(before, ledger[i].trade) = "ORDER_SUBMITTED"
        BY <3>2, <1>1, <2>1 DEF Observed
      <4>2. /\ before \in Seq(Entry) /\ DOMAIN before = 1 .. (i - 1)
            /\ \A k \in DOMAIN before : before[k] = ledger[k] /\ k \in DOMAIN ledger
        BY <2>1
      <4>3. StatefulOf(before, ledger[i].trade) # {} /\ before[m].state = "ORDER_SUBMITTED"
        BY <4>1 DEF StateOf, NoState
      <4>4. m \in StatefulOf(before, ledger[i].trade)
        <5> HIDE DEF before
        <5> QED
          BY <4>2, <4>3, LastStatefulIsLast
      <4>5. m \in 1 .. (i - 1) /\ before[m].trade = ledger[i].trade
        BY <4>2, <4>4 DEF StatefulOf
      <4> HIDE DEF m, before
      <4>6. /\ m \in DOMAIN ledger /\ ledger[m].state \in Beyond
            /\ ledger[m].trade = ledger[i].trade
        BY <4>2, <4>3, <4>5 DEF Beyond, STATES
      <4>7. PICK j \in 1 .. m - 1 : /\ ledger[j].trade = ledger[m].trade
                                    /\ ledger[j].state = "AUTHORIZED"
        BY <4>6, <2>1, AuthorizedBefore
      <4>8. j \in 1 .. i - 1
        BY <4>5, <2>1
      <4> QED
        BY <4>6, <4>7, <4>8
    <3> QED
      BY <3>1, <3>2
  <2>4. ASSUME NEW j \in 1 .. i - 1, ledger[j].state = "AUTHORIZED"
        PROVE  ledger[j].key \notin TraceKeys
    <3>1. j \in DOMAIN ledger
      BY <2>1
    <3> QED
      BY <3>1, <2>1, <2>4 DEF Observed, OBSERVATIONAL_STATES, NoState
  <2> QED
    BY <2>2, <2>3, <2>4
<1>2. IngestInv => TraceGrantsNothing
  BY <1>1 DEF TraceGrantsNothing
<1> QED
  BY <1>2, IngestInvariant, PTL

(* The part of the trace that passed once would pass now, outcomes and     *)
(* what others have overtaken apart; and nothing else of it is refused.    *)
PassesNow(log, b, j) == IsOutcome(b[j]) \/ Overtaken(b[j]) \/ PassesAt(log, b, j)

AgainInv ==
  /\ \A j \in 1 .. begun : PassesNow(ledger, trace, j)
  /\ at = "refused" /\ next <= begun =>
       next \in DOMAIN batch /\ (IsOutcome(batch[next]) \/ Overtaken(batch[next]))

(* A move that somebody else makes of a record's trade, which passes, is   *)
(* MANAGED, or it overtakes the record.                                    *)
LEMMA MoveOvertakes ==
  ASSUME NEW cur, NEW s, NEW obs \in OBSERVATIONAL_STATES,
         <<cur, obs>> \in ALLOWED_TRANSITIONS, Moves(cur, s), s # NoState,
         s \notin {"REJECTED", "CLOSED"}, s # obs \/ obs = "MANAGED"
  PROVE  s = "MANAGED" /\ <<s, obs>> \in ALLOWED_TRANSITIONS
<1>1. cur \in {"AUTHORIZED", "ORDER_SUBMITTED", "ACCEPTED", "FILLED", "OPEN", "MANAGED"}
  BY DEF ALLOWED_TRANSITIONS, OBSERVATIONAL_STATES
<1>2. <<cur, s>> \in ALLOWED_TRANSITIONS
  BY <1>1 DEF Moves, NoState
<1> QED
  BY <1>1, <1>2 DEF ALLOWED_TRANSITIONS, OBSERVATIONAL_STATES

(* What others append takes nothing from a record that passes and that it  *)
(* does not overtake.                                                      *)
LEMMA OthersPass ==
  ASSUME IngestTypeOK, BatchInv, NEW r \in Others, External(r),
         NEW j \in 1 .. begun, PassesAt(ledger, trace, j), ~IsOutcome(trace[j]),
         ~Overtaken(trace[j])'
  PROVE  PassesAt(ledger', trace, j)
<1> DEFINE e == AsEvent(ledger, r)
           n == Len(ledger) + 1
           x == trace[j]
           t == x.trade
<1>1. /\ ledger' = Append(ledger, e) /\ e \in Entry
      /\ e.key = r.key /\ r.key \notin TraceKeys
  BY OthersRecord DEF AsEvent
<1>2. trace' = trace /\ Moves(StateOf(ledger, e.trade), e.state)
  BY DEF External, CanAppend, AsEvent
<1> HIDE DEF e
<1>3. /\ DOMAIN ledger' = DOMAIN ledger \union {n} /\ ledger'[n] = e
      /\ \A i \in DOMAIN ledger : ledger'[i] = ledger[i]
      /\ ledger \in Seq(Entry)
  BY <1>1 DEF IngestTypeOK
<1>4. \A i \in 1 .. j : i \in 1 .. begun
  BY DEF IngestTypeOK
<1>5. \A i \in 1 .. j : trace[i] \in Records /\ trace[i].key # e.key
  <2> TAKE i \in 1 .. j
  <2>1. trace[i] \in Records
    BY <1>4 DEF IngestTypeOK
  <2> QED
    BY <2>1, <1>1 DEF TraceKeys
<1>6. j \in 1 .. j
  BY DEF IngestTypeOK
<1>7. x \in Records /\ x.key # e.key /\ x.state \in OBSERVATIONAL_STATES
  BY <1>5, <1>6 DEF BatchInv, Normalized
<1>8. /\ e.id # x.id
      /\ e.trade = t => /\ e.state \notin {"REJECTED", "CLOSED"}
                        /\ e.state # x.state \/ x.state = "MANAGED"
  BY <1>1, <1>2, <1>3 DEF Overtaken
<1>9. \A i \in 1 .. j : HasKey(ledger', trace[i].key) <=> HasKey(ledger, trace[i].key)
  BY <1>3, <1>5 DEF HasKey
<1>10. \A i \in 1 .. j : IsNew(ledger', trace, i) <=> IsNew(ledger, trace, i)
  BY <1>9 DEF IsNew
<1>11. \A i \in 1 .. j - 1 : i \in 1 .. j
  BY <1>6
<1>12. MovedBy(ledger', trace, j) = MovedBy(ledger, trace, j)
  BY <1>10, <1>11 DEF MovedBy
<1>13. \A i \in DOMAIN ledger' : ledger'[i].key = x.key =>
          SameSemantics(ledger'[i], AsRequest(x))
  BY <1>3, <1>7 DEF PassesAt
<1>14. ASSUME IsNew(ledger, trace, j)
       PROVE  <<Simulated(ledger', trace, j, t), x.state>> \in ALLOWED_TRANSITIONS
  <2>1. <<Simulated(ledger, trace, j, t), x.state>> \in ALLOWED_TRANSITIONS
    BY <1>14 DEF PassesAt
  <2>2. CASE StateOf(MovedBy(ledger, trace, j), t) # NoState
    BY <2>1, <2>2, <1>12 DEF Simulated
  <2>3. CASE StateOf(MovedBy(ledger, trace, j), t) = NoState
    <3>1. /\ Simulated(ledger, trace, j, t) = StateOf(ledger, t)
          /\ Simulated(ledger', trace, j, t) = StateOf(ledger', t)
      BY <2>3, <1>12 DEF Simulated
    <3>2. StateOf(ledger', t) = IF e.trade = t /\ e.state # NoState THEN e.state
                                ELSE StateOf(ledger, t)
      BY <1>1, <1>3, StateOfAppend
    <3>3. ASSUME e.trade = t, e.state # NoState
          PROVE  <<e.state, x.state>> \in ALLOWED_TRANSITIONS
      <4> DEFINE cur == StateOf(ledger, t)
      <4>1. <<cur, x.state>> \in ALLOWED_TRANSITIONS /\ Moves(cur, e.state)
        BY <2>1, <3>1, <3>3, <1>2
      <4> HIDE DEF cur
      <4> QED
        BY <4>1, <3>3, <1>7, <1>8, MoveOvertakes
    <3> QED
      BY <2>1, <3>1, <3>2, <3>3
  <2> QED
    BY <2>2, <2>3
<1>15. \A i \in 1 .. j - 1 : IsNew(ledger', trace, i) <=> IsNew(ledger, trace, i)
  BY <1>10, <1>11
<1>16. \A i \in 1 .. j - 1 : IsNew(ledger', trace, i) /\ trace[i].key = x.key =>
         SameSemantics(AsRequest(trace[i]), AsRequest(x))
  BY <1>15 DEF PassesAt
<1>17. ASSUME IsNew(ledger', trace, j)
       PROVE  /\ \A i \in DOMAIN ledger' : ledger'[i].id # x.id
              /\ \A i \in 1 .. j - 1 : IsNew(ledger', trace, i) => trace[i].id # x.id
              /\ <<Simulated(ledger', trace, j, t), x.state>> \in ALLOWED_TRANSITIONS
  <2>1. IsNew(ledger, trace, j)
    BY <1>17, <1>6, <1>10
  <2>2. \A i \in DOMAIN ledger' : ledger'[i].id # x.id
    BY <2>1, <1>3, <1>8 DEF PassesAt
  <2>3. \A i \in 1 .. j - 1 : IsNew(ledger', trace, i) => trace[i].id # x.id
    BY <2>1, <1>15 DEF PassesAt
  <2> QED
    BY <2>1, <2>2, <2>3, <1>14
<1> QED
  BY <1>13, <1>16, <1>17 DEF PassesAt

(* Nothing that happens between two ingests makes a passed record fail     *)
(* that is no outcome and is not overtaken.                                *)
LEMMA PassesStep ==
  ASSUME IngestInv, IngestNext, \A j \in 1 .. begun : PassesNow(ledger, trace, j)
  PROVE  (\A j \in 1 .. begun : PassesNow(ledger, trace, j))'
<1>1. /\ IngestTypeOK /\ BatchInv /\ trace \in Seq(Records) /\ begun \in Nat
      /\ begun <= Len(trace) /\ Len(trace) \in Nat
  BY DEF IngestInv, IngestTypeOK
<1>2. CASE \E r \in Records : Trace(r)
  <2>1. PICK r \in Records : Trace(r)
    BY <1>2
  <2>2. \A i \in 1 .. begun : trace'[i] = trace[i]
    BY <2>1, <1>1 DEF Trace
  <2>3. ledger' = ledger /\ begun' = begun
    BY <2>1 DEF Trace
  <2>4. ASSUME NEW j \in 1 .. begun, PassesAt(ledger, trace, j)
        PROVE  PassesAt(ledger, trace', j)
    BY <2>2, <2>4, <1>1, PassesAtSame
  <2> QED
    BY <2>2, <2>3, <2>4 DEF PassesNow, Overtaken
<1>3. CASE \E r \in Others : External(r)
  <2>1. PICK r \in Others : External(r)
    BY <1>3
  <2>2. trace' = trace /\ begun' = begun
    BY <2>1 DEF External
  <2>3. \A x : Overtaken(x) => Overtaken(x)'
    <3>1. \A i \in DOMAIN ledger : i \in DOMAIN ledger' /\ ledger'[i] = ledger[i]
      BY <2>1, <1>1 DEF External, IngestTypeOK
    <3> QED
      BY <3>1 DEF Overtaken
  <2>4. ASSUME NEW j \in 1 .. begun, ~IsOutcome(trace[j]), ~Overtaken(trace[j])'
        PROVE  PassesAt(ledger', trace, j)
    <3>1. PassesAt(ledger, trace, j)
      BY <2>2, <2>3, <2>4 DEF PassesNow, Overtaken
    <3> QED
      BY <2>1, <2>4, <3>1, <1>1, OthersPass
  <2> QED
    BY <2>2, <2>4 DEF PassesNow, Overtaken
<1>4. CASE Begin \/ TakeNew
  <2>1. at' = "appending"
    BY <1>4 DEF Begin, TakeNew
  <2>2. BatchIsRead' /\ Appending' /\ IngestTypeOK'
    BY <2>1, BatchStep, IngestTypeStep DEF BatchInv
  <2>3. /\ Passes(ledger', batch', Len(batch')) /\ begun' = Len(batch')
        /\ begun' \in Nat /\ \A i \in 1 .. begun' : trace'[i] = batch'[i]
    BY <2>2 DEF BatchIsRead, Appending, IngestTypeOK
  <2>4. Passes(ledger', trace', begun')
    BY <2>3, PassesSame
  <2> QED
    BY <2>4 DEF Passes, PassesNow
<1>5. CASE UNCHANGED <<trace, ledger, begun>>
  BY <1>5 DEF PassesNow, Overtaken
<1> QED
  BY <1>2, <1>3, <1>4, <1>5
     DEF IngestNext, Read, Skip, Stage, Refuse, TakeKnown, TakeRejected, Return, Die

(* The check refuses a record that passes only when it is an outcome that  *)
(* the ledger already has.                                                 *)
LEMMA RefusedPassed ==
  ASSUME IngestInv, Refuse, PassesAt(ledger, batch, next)
  PROVE  IsOutcome(batch[next])
<1> DEFINE r == batch[next]
<1>1. /\ at = "checking" /\ next <= Len(batch) /\ ~Known(View, r) /\ ~Fresh(View, r)
  BY DEF Refuse
<1>2. /\ ledger \in Seq(Entry) /\ staged \in Seq(Entry) /\ Checked
      /\ batch \in Seq(Records) /\ next \in Nat /\ next \in DOMAIN batch
  BY <1>1 DEF IngestInv, IngestTypeOK, BatchInv
<1>3. /\ \A i \in DOMAIN ledger : \E k \in DOMAIN View : View[k] = ledger[i]
      /\ \A i \in DOMAIN staged : \E k \in DOMAIN View : View[k] = staged[i]
      /\ \A k \in DOMAIN View : \/ \E i \in DOMAIN ledger : View[k] = ledger[i]
                                \/ \E i \in DOMAIN staged : View[k] = staged[i]
  BY <1>2, ViewHolds
<1> SUFFICES ASSUME ~IsOutcome(r) PROVE FALSE
  OBVIOUS
<1>4. \A e : SameSemantics(e, AsRequest(r)) => SameSemantics(e, r)
  BY DEF SameSemantics, AsRequest
<1>5. CASE HasKey(ledger, r.key)
  <2>1. PICK i \in DOMAIN ledger : ledger[i].key = r.key
    BY <1>5 DEF HasKey
  <2>2. SameSemantics(ledger[i], r)
    BY <2>1, <1>4 DEF PassesAt
  <2> QED
    BY <2>1, <2>2, <1>1, <1>3 DEF Known
<1>6. CASE ~HasKey(ledger, r.key) /\ ~IsNew(ledger, batch, next)
  <2>1. PICK i \in 1 .. next : batch[i].key = r.key /\ IsNew(ledger, batch, i)
    BY <1>2, <1>6, FirstIsNew
  <2>2. i \in 1 .. next - 1
    BY <2>1, <1>2, <1>6
  <2>3. SameSemantics(AsRequest(batch[i]), AsRequest(r))
    BY <2>1, <2>2 DEF PassesAt
  <2>4. PICK k \in DOMAIN staged : Agrees(staged[k], batch[i])
    BY <2>1, <2>2, <1>2 DEF Checked
  <2>5. staged[k].key = r.key /\ SameSemantics(staged[k], AsRequest(r))
    BY <2>1, <2>3, <2>4 DEF Agrees, SameSemantics
  <2>6. SameSemantics(staged[k], r)
    BY <2>5, <1>4
  <2> QED
    BY <2>5, <2>6, <1>1, <1>3 DEF Known
<1>7. CASE IsNew(ledger, batch, next)
  <2>1. ~HasKey(View, r.key)
    <3>1. \A i \in DOMAIN ledger : ledger[i].key # r.key
      BY <1>7 DEF IsNew, HasKey
    <3>2. \A i \in DOMAIN staged : staged[i].key # r.key
      BY <1>2, <1>7 DEF Checked, Agrees, IsNew
    <3> QED
      BY <3>1, <3>2, <1>3 DEF HasKey
  <2>2. \A k \in DOMAIN View : View[k].id # r.id
    <3>1. \A i \in DOMAIN ledger : ledger[i].id # r.id
      BY <1>7 DEF PassesAt
    <3>2. \A i \in DOMAIN staged : staged[i].id # r.id
      BY <1>2, <1>7 DEF PassesAt, Checked, Agrees
    <3> QED
      BY <3>1, <3>2, <1>3
  <2>3. <<StateOf(View, r.trade), r.state>> \in ALLOWED_TRANSITIONS
    <3>1. StateOf(View, r.trade) = Simulated(ledger, batch, next, r.trade)
      BY <1>2 DEF Checked
    <3> QED
      BY <3>1, <1>7 DEF PassesAt
  <2> QED
    BY <2>1, <2>2, <2>3, <1>1 DEF Fresh
<1> QED
  BY <1>5, <1>6, <1>7

(* Both stay so, because a batch that the check lets through is that part  *)
(* of the trace.                                                           *)
LEMMA AgainInvariant == IngestSpec => []AgainInv
<1>1. IngestInit => AgainInv
  BY DEF IngestInit, AgainInv
<1>2. IngestInv /\ AgainInv /\ [IngestNext]_ingest => AgainInv'
  <2> SUFFICES ASSUME IngestInv, AgainInv, [IngestNext]_ingest PROVE AgainInv'
    OBVIOUS
  <2>1. CASE UNCHANGED ingest
    BY <2>1 DEF ingest, AgainInv, PassesNow, Overtaken
  <2>2. CASE IngestNext
    <3>1. (\A j \in 1 .. begun : PassesNow(ledger, trace, j))'
      BY <2>2, PassesStep DEF AgainInv
    <3>2. CASE Read
      <4>1. SUFFICES ASSUME at' = "refused", next' <= begun' PROVE FALSE
        BY <3>1 DEF AgainInv
      <4>2. /\ Len(trace) \in Nat /\ begun \in Nat /\ begun <= Len(trace)
            /\ trace \in Seq(Records)
        BY DEF IngestInv, IngestTypeOK
      <4>3. CASE Bad = {}
        <5>1. trace = <<>> /\ next' = 1 /\ begun' = begun
          BY <3>2, <4>1, <4>3 DEF Read
        <5> QED
          BY <4>1, <4>2, <5>1
      <4>4. CASE Bad # {}
        <5>1. Bad \in SUBSET (1 .. Len(trace))
          BY <4>2 DEF Bad
        <5>2. \E i \in Bad : \A j \in Bad : i <= j
          BY <5>1, <4>2, <4>4, MinExists
        <5>3. next' \in Bad /\ begun' = begun
          BY <5>2, <3>2, <4>4 DEF Read
        <5>4. next' \in 1 .. begun
          BY <4>1, <4>2, <5>1, <5>3
        <5> QED
          BY <5>3, <5>4 DEF Bad, IngestInv, BatchInv
      <4> QED
        BY <4>3, <4>4
    <3>3. CASE Refuse
      <4>1. SUFFICES ASSUME next' <= begun'
                     PROVE  (/\ next \in DOMAIN batch
                             /\ IsOutcome(batch[next]) \/ Overtaken(batch[next]))'
        BY <3>1 DEF AgainInv
      <4>2. /\ at = "checking" /\ next <= Len(batch)
            /\ UNCHANGED <<trace, ledger, batch, next, begun>>
        BY <3>3 DEF Refuse
      <4>3. /\ BatchIsRead /\ next \in 1 .. begun /\ next \in Nat
            /\ \A i \in 1 .. next : i \in 1 .. begun /\ batch[i] = trace[i]
        <5>1. BatchIsRead
          BY <4>2 DEF IngestInv, BatchInv
        <5>2. /\ next \in Nat /\ 1 <= next /\ begun \in Nat
              /\ batch \in Seq(Records) /\ next <= begun
          BY <4>1, <4>2 DEF IngestInv, IngestTypeOK
        <5> QED
          BY <5>1, <5>2, <4>2 DEF BatchIsRead
      <4>4. next \in DOMAIN batch /\ next \in 1 .. next
        BY <4>2 DEF IngestInv, IngestTypeOK
      <4>5. CASE PassesAt(ledger, trace, next)
        <5>1. PassesAt(ledger, batch, next)
          BY <4>3, <4>5, PassesAtSame
        <5> QED
          BY <3>3, <4>2, <4>4, <5>1, RefusedPassed DEF Overtaken
      <4>6. CASE IsOutcome(trace[next]) \/ Overtaken(trace[next])
        BY <4>2, <4>3, <4>4, <4>6 DEF Overtaken
      <4> QED
        BY <4>3, <4>5, <4>6 DEF AgainInv, PassesNow
    <3>4. CASE \E r \in Records : Trace(r)
      BY <3>1, <3>4 DEF Trace, AgainInv, Overtaken
    <3>5. CASE at' # "refused"
      BY <3>1, <3>5 DEF AgainInv
    <3> QED
      BY <2>2, <3>2, <3>3, <3>4, <3>5
         DEF IngestNext, External, Skip, Stage, Begin, TakeKnown, TakeNew,
             TakeRejected, Return, Die
  <2> QED
    BY <2>1, <2>2
<1> QED
  BY <1>1, <1>2, IngestInvariant, PTL DEF IngestSpec

(* Whatever others write, a recovery's verdict on the trade included, what *)
(* passed once passes again, unless it is an observed outcome or a record  *)
(* that they have overtaken.                                               *)
THEOREM PassedPassesAgain == IngestSpec => []PassesAgain
<1>1. AgainInv => PassesAgain
  BY DEF AgainInv, PassesAgain
<1> QED
  BY <1>1, AgainInvariant, PTL

(* An advisor that gives each key one id of its own.                       *)
OneIdPerKey == \A q, r \in Records : q.key = r.key => q.id = r.id

(* The events of a trace have the ids of its records.                      *)
KeptIds ==
  \A i \in DOMAIN ledger : ledger[i].key \in TraceKeys =>
    \E q \in Records : q.key = ledger[i].key /\ q.id = ledger[i].id

(* A batch is refused as a whole or taken as a whole, as far as the        *)
(* process lives: the only record that append rejects in the middle of one *)
(* is one that repeats a key under another id.                             *)
THEOREM BatchesAreWhole ==
  ASSUME OneIdPerKey
  PROVE  IngestSpec => [](at # "rejected")
<1> DEFINE Whole == KeptIds /\ at # "rejected"
<1>1. IngestInit => Whole
  BY KeysAssumption DEF IngestInit, KeptIds, OtherKeys
<1>2. IngestInv /\ Whole /\ [IngestNext]_ingest => Whole'
  <2> SUFFICES ASSUME IngestInv, Whole, [IngestNext]_ingest PROVE Whole'
    OBVIOUS
  <2>1. IngestTypeOK /\ BatchInv /\ ledger \in Seq(Entry)
    BY DEF IngestInv, IngestTypeOK
  <2>2. ASSUME NEW e \in Entry, ledger' = Append(ledger, e),
               e.key \in TraceKeys => \E q \in Records : q.key = e.key /\ q.id = e.id
        PROVE  KeptIds'
    <3>1. /\ DOMAIN ledger' = DOMAIN ledger \union {Len(ledger) + 1}
          /\ ledger'[Len(ledger) + 1] = e
          /\ \A i \in DOMAIN ledger : ledger'[i] = ledger[i]
      BY <2>1, <2>2
    <3> QED
      BY <3>1, <2>2 DEF KeptIds
  <2>3. CASE \E r \in Others : External(r)
    BY <2>1, <2>2, <2>3, OthersRecord DEF External
  <2>4. CASE TakeNew
    <3> DEFINE e == AsEvent(ledger, AsRequest(batch[next]))
    <3>1. /\ batch[next] \in Records /\ ledger' = Append(ledger, e) /\ e \in Entry
          /\ e.key = batch[next].key
      BY <2>1, <2>4, TakenRecord
    <3>2. e.id = batch[next].id
      BY DEF AsEvent, AsRequest
    <3> HIDE DEF e
    <3>3. KeptIds'
      BY <3>1, <3>2, <2>2
    <3> QED
      BY <3>3, <2>4 DEF TakeNew
  <2>5. CASE TakeRejected
    <3> DEFINE r == batch[next]
               q == AsRequest(r)
    <3>1. /\ at = "appending" /\ next <= Len(batch) /\ ~CanAppend(ledger, q)
          /\ IdReused(ledger, q) \/ ~Known(ledger, q)
      BY <2>5 DEF TakeRejected
    <3>2. r \in Records /\ LoadAccepts(ledger) /\ q.key = r.key /\ q.id = r.id
      BY <3>1, <2>1 DEF IngestTypeOK, AsRequest
    <3>3. Known(ledger, q)
      BY <3>1, PreflightNow DEF PreflightSuffices
    <3>4. PICK i \in DOMAIN ledger : ledger[i].key = r.key
      BY <3>2, <3>3 DEF Known
    <3>5. ledger[i].id = r.id
      BY <3>2, <3>4 DEF KeptIds, TraceKeys, OneIdPerKey
    <3>6. PICK k \in DOMAIN ledger : ledger[k].id = r.id /\ ledger[k].key # r.key
      BY <3>1, <3>2, <3>3 DEF IdReused
    <3> QED
      BY <3>2, <3>4, <3>5, <3>6 DEF LoadAccepts
  <2>6. CASE UNCHANGED ledger /\ at' # "rejected"
    BY <2>6 DEF KeptIds
  <2>7. CASE UNCHANGED ingest
    BY <2>7 DEF ingest, KeptIds
  <2> QED
    BY <2>3, <2>4, <2>5, <2>6, <2>7
       DEF IngestNext, Trace, Read, Skip, Stage, Refuse, Begin, TakeKnown, Return, Die
<1>3. Whole => at # "rejected"
  OBVIOUS
<1> QED
  BY <1>1, <1>2, <1>3, IngestInvariant, PTL DEF IngestSpec

(* A trace lifts no block: an unresolved broker outcome is settled by a    *)
(* reconciliation, never by what an advisor says of itself.                *)
TracesLiftNoBlock == TakeNew => UnresolvedOf(ledger) \subseteq UnresolvedOf(ledger')

(* Every append of a trace's record leaves every block in place.           *)
THEOREM BlocksOutliveTraces == IngestSpec => [][TracesLiftNoBlock]_ingest
<1>1. IngestInv /\ [IngestNext]_ingest => [TracesLiftNoBlock]_ingest
  <2> SUFFICES ASSUME IngestInv, TakeNew
               PROVE  UnresolvedOf(ledger) \subseteq UnresolvedOf(ledger')
    BY DEF TracesLiftNoBlock
  <2> DEFINE r == batch[next]
             e == AsEvent(ledger, AsRequest(r))
  <2>1. /\ ledger \in Seq(Entry) /\ Normalized(r)
        /\ ledger' = Append(ledger, e) /\ e \in Entry
    BY TakenRecord DEF IngestInv, IngestTypeOK
  <2>2. e.state = IF IsOutcome(r) THEN NoState ELSE r.state
    BY DEF AsEvent, AsRequest
  <2>3. ~Clears(e)
    BY <2>1, <2>2 DEF Normalized, Clears, OBSERVATIONAL_STATES, NoState
  <2>4. UnresolvedOf(ledger') = UnresolvedAfter(UnresolvedOf(ledger), e)
    BY <2>1, UnresolvedOfAppend
  <2> QED
    BY <2>3, <2>4 DEF UnresolvedAfter
<1> QED
  BY <1>1, IngestInvariant, PTL DEF IngestSpec
==============================================================================
