# A verification of grok-ai-trader

This directory holds TLA+ models of the part of grok-ai-trader that decides
whether an order may be sent, sends it, and finds out what became of it. TLC
checks the models on small instances and TLAPS proves theorems about them for
every instance. All paths below are relative to `src/`.

Contents: [the system](#1-the-system), [its hard
behaviours](#2-what-is-hard), [the modules](#3-the-modules), [what is
checked](#4-what-is-checked), [what is proved](#5-what-is-proved), [where code
and documents disagree](#6-where-the-code-and-its-documents-disagree),
[assumptions](#7-assumptions-and-abstractions), [what is
missing](#8-what-is-not-modelled), [the plan](#9-the-plan).

## 1. The system

The repository develops trading strategies offline and can run one of them on a
MetaTrader 5 demo terminal. The offline part is single-threaded number
crunching. The other part is a chain of small programs that share files, one of
them a hash-chained ledger, with an expert advisor in a terminal at its end and a
broker behind that. Each program checks everything again that the one before it
checked. This chain is what the models are about.

```
 grant issuer ──> admission provider ──> signed request
 (registry)       (registry, lock)             │
                                               v
   trace file          ┌──────────── control plane producer
       │               │                 │            │
       v               v                 v            v
  trace bridge ──> TRADE LEDGER     envelope file  authorization record
                    ^    ^   ^           │  ^         │        ^
      broker outcome│    │   └─admission─┘  └─renewal─┼────────┘
      recovery,     │    └── capital firewall         v
      reconciliation│                            expert advisor ──> broker
                    └── MT5 execution adapter ──> gateway ─────────>
```

| component | state it keeps | operations | talks to |
|---|---|---|---|
| trade ledger (`tools/trade_ledger_v1.py`) | a file of hash-chained records; in memory the events and the set of unresolved trades | `append`, `reconcile`, `_load_and_verify` | everything below; nothing locks the file |
| capital firewall (`capital_firewall_v1.py`) | none of its own: ledger events | issue, authorize, revoke, reserve, release, release before execution, assert execution allowed | ledger |
| envelope and admission (`runtime_authorization_envelope_v1.py`, `execution_admission_v1.py`) | an envelope file | build; hold an old envelope against the ledger of now | firewall, ledger |
| execution adapter and gateway (`mt5_execution_adapter_v1.py`, `mt5_terminal_gateway_v1.py`) | the call in progress | `submit`: admission, durable intent, `order_send`, outcome | ledger, admission, broker |
| observation and recovery (`mt5_broker_observation_v1.py`, `broker_outcome_recovery_v1.py`) | none | look an order up, journal the verdict | broker, ledger |
| broker reconciliation (`broker_reconciliation_v1.py`) | none | compare expected and observed snapshots | ledger |
| control plane producer (`control_plane_service_v1.py`) | the run in progress | `produce_authority`: six ledger events, envelope file, record file | request, ledger, firewall |
| authorization record (`runtime_authorization_record_v1.py`, `materialize_mql5_authorization_v1.py`) | the record file of each advisor | create, verify and replace | envelope, ledger |
| G13 advisor (`research/optimization/g13_mql5_generator_v2.py` writes it) | terminal global variables, its trace file, its position | `OnTick`: gates, record, attempt key, trace, order, trace | record, kill switch, broker |
| hybrid advisor (`ea/GRK_Hybrid_Regime_EA.mq5`) | the same, and daily and loss limits in terminal variables | `OnInit`, `OnDeinit`, `OnTick`, `OnTradeTransaction` | the same |
| trace bridge (`runtime_trace_bridge_v1.py`) | none | read, preflight, append | trace file, ledger |
| grant issuer, promotion attestor (`capital_firewall_grant_issuer_v1.py`, `g13_capital_firewall_promotion_attestor_v1.py`) | an SQLite registry, an evidence cache | sign and claim a grant, publish it and its receipt; read a grant and attest it | evidence, provider |
| admission provider and its service (`control_plane_admission_provider_v1.py`, `control_plane_provider_service_v1.py`) | an SQLite registry, seen packets, a lock file | poll a packet; sign, claim and write a request | attested grant, producer |
| recovery contract, evidence gate, replay, fault injection | none | pure readings of a loaded ledger | ledger |
| checks, probes, validators, evidence upload, workflows, research, strategies, agents, vendored action | reports | read and report | files, HTTP |

`PROJECT.json` lists all of them with what is modelled and why the rest is not.

What makes the modelled components correct:

* **Ledger**: what it wrote it can read again; a restart changes nothing; a
  trade walks the constitutional lifecycle; a broker outcome in doubt blocks new
  risk until it is reconciled.
* **Firewall**: no order without an authorization in force at that moment;
  reserved capital stays reserved while it is at risk; the global cap; nothing
  adds risk during a block.
* **Execution**: at most one send per trade; a durable intent before it; an
  acceptance is a full execution, a rejection that may be wrong blocks all new
  risk; every order with a clear end settled.
* **Control plane and advisor**: what is published is whole; an authorization is
  good for one order; a revocation or a block reaches an advisor that never reads
  the ledger.
* **Issuance**: what is signed was claimed first, is written once, and excludes
  everything else for its signal, trade, grant, authorization or reservation,
  over two registries that do not know of each other.
* **Hybrid advisor**: trades of a day, its loss and a run of losses stay limited
  over restarts of the advisor and, as far as the code saves them, crashes of the
  terminal.
* **Trace bridge**: a trace records and never grants; the ledger holds a beginning
  of it whatever dies; what was accepted is accepted again, outcomes and what others
  have overtaken apart.

The wording is mostly that of `config/forexai_quant_constitution_v1.json`
(lines 162 to 203), whose claims the properties make precise.

## 2. What is hard

Each program is sequential, so the difficulty lies between them: a process dies
between two durable writes; the same request arrives again; the broker answers
late, wrongly or not at all; a write is cut short; two processes append from
copies of the ledger that have grown stale; a source file is replaced while it is
read; charts of one terminal interleave; an advisor acts on a record that was true
when it was built, or starts from limits that were never saved. `PROJECT.json` has
forty such hazards, each with its line and, where one exists, the property that
would fail if the code got it wrong.

## 3. The modules

```
LedgerOps ─┬─ TradeLedger ──(refines)──> TradeLifecycle
           ├─ LedgerFile                      ^
           ├─ TraceIngest                     │ (FollowsLifecycle)
           └─ TradeJournal ───────────────────┘
                 ├─ BrokerExecution
                 └─ CapitalFirewall
                        └─ DemoRuntime
GrantIds ──┬─ GrantIssuance ─────┬─ Issuance ──(refines, twice)──> OneTimeIssue
           └─ AdmissionIssuance ─┘
AuthorizationAttempt
HybridSafety
```

**LedgerOps** has the ledger's vocabulary: states, legal moves, events that raise
a block, `StateOf`, `UnresolvedOf`, `CanAppend`, `LoadAccepts`. No state machine.

**TradeLedger** is one process with the ledger open: `file` is what is on disk,
`events` and `unresolved` the object's two attributes. `AppendNew` is a whole
`append`, `AppendThenDie` one that ends after the fsync, `Load` is
`_load_and_verify`, `Reconcile` is `reconcile`. It implements **TradeLifecycle**,
the abstract specification of what a reader may rely on: a state for each trade
and a set of blocked trades, without keys, chain or process.

**TradeJournal** is that abstraction as a component uses it: a call of `append`
is one step, `Journal(e)`. The components below EXTEND it; that the execution path
uses it within its contract is `FollowsLifecycle`, which is proved
(`ExecutionFollowsLifecycle`).

**LedgerFile** is the same ledger on a disk that fails, opened by any number of
processes. `Put` models what an append to a file without a final newline does:
it goes on with the last line. `AppendReturns`, `AppendRaises` and `AppendDies`
are the ends `_append_durable` can have; `AppendRepeats` is an `append` that finds
its key in memory and returns the stored event.

**BrokerExecution** is `submit` from its state check to the outcome's append, the
gateway, a broker that is free to lose, reject, fill in parts or cancel, the
recovery that looks at the broker and journals later, and a crash anywhere.
`call` is where the one process is. `Intend` is the durable intent, `Send` the
`order_send`, `Return` everything the gateway may make of the answer, whatever
became of the order: an exception, or, for every return code other than done,
partial and placed, a timeout or a lost connection too, a rejection.

**CapitalFirewall** has one action per operation of the firewall, with `auth`,
`amount` and `released` as the ledger events it reads, and the two clients that
stand between it and an order: `BuildEnvelope`, and `Submit`, which holds an
envelope against the ledger at the time of submission.

**AuthorizationAttempt** is the advisor's single-attempt latch, each call into the
terminal a step: `GlobalVariableCheck`, `SetOnCondition`, `Set`, `Flush`. Charts
interleave; a crash brings back what was flushed.

**TraceIngest** is `ingest_trace_file` record by record: reading, the preflight
that simulates the ledger, the appends, with the process dying in between and
the advisor writing on.

**DemoRuntime** composes them: it EXTENDS CapitalFirewall and adds the producer
(`run`, step by step), the renewal tool (`writer`), the files, the advisors, their
traces and the ingestion. An advisor reads `records` and `kill` and nothing else;
the ledger learns of an order only by `IngestSubmission`.

**OneTimeIssue** is what both issuing tools promise: an item is claimed before it
is issued, claims that share an identity exclude each other for ever, and what is
claimed is issued once or not at all. Each tool has a refinement mapping onto it.

**GrantIssuance** has issuers that run at the same time, each a command line that
builds and signs (`Build`), claims in the database (`ClaimGrant`), links the grant
(`LinkGrant`) and then its receipt, or takes the grant back (`RollBack`), or ends
anywhere (`GEnd`). `granted` are the rows of the registry, `gfile` the output
paths, which operators free again (`Archive`).

**AdmissionIssuance** has the polling service and command lines beside it. `Read`,
`LeaveAlone` and `Attempt` are `poll_once`: the file is read twice, an unstable or
remembered packet is left alone, and a new one is remembered (`seen`, with its
eviction) before anything is known about it. `Sign`, `Claim`, `Write` and `Return`
are the issuer, for whoever called it.

**Issuance** puts the two together with the attestor between them (`Attest`), which
reads whatever grant file is there: a packet verifies only if its grant was
attested.

**HybridSafety** has the five persisted variables of the hybrid advisor three times:
in the advisor (`mem`), in the terminal (`globals`), on disk (`disk`). Handlers are
whole: `OnInit`, `OnDeinit`, `OnTradeTransaction`, and a tick in one of its endings
(`Roll`, `CountDown`, `Order`). `OnInitFails` is a failed `OnInit` followed by the
`OnDeinit` the terminal calls after it.

Every definition that stands for code names its lines in `PROJECT.json`, "map".
Definitions called `X_Something` are mutants: plausible bugs that make some
property fail, which shows that the property can.

## 4. What is checked

| run | module | distinct states | instance |
|---|---|---|---|
| `trade_ledger` | TradeLedger | 29 054 | two trades; one can walk the whole lifecycle with two managements, either ending and an unknown outcome at any time; two requests are callers' mistakes |
| `ledger_file` | LedgerFile | 258 768 | two processes, one authorised trade, four requests, two of them to submit it under different keys, seven lines |
| `broker_execution` | BrokerExecution | 6 288 | two trades, two units each |
| `capital_firewall` | CapitalFirewall | 585 688 | two trades, two authorizations, two reservations under one, risks 1 and 2, cap 3, four moments |
| `authorization_attempt` | AuthorizationAttempt | 24 456 | three charts, one with an authorization of its own, two sharing another |
| `trace_ingest` | TraceIngest | 572 941 | nine kinds of line, four lines, four requests of others, two of them a recovery's verdict |
| `demo_runtime` | DemoRuntime | 3 769 516 | two trades of one advisor, a long and a short authorization, three moments |
| `issuance` | Issuance | 509 784 | two grants for one trade, two issuers and one output path; two packets of one grant, one of the other, one that does not verify; a memory of two packets, one command line |
| `hybrid_safety` | HybridSafety | 2 147 877 | two days; halt after two losses, cooldown of two bars, two trades a day, loss limit of two deals; two deals waiting, one late fill |

`demo_runtime` and `hybrid_safety` take one to three minutes, the others less than
one and a half. Three more runs end with a counterexample (section 6).

**trade_ledger.** `AlwaysLoadable` and `MemoryIsReplay`: the checks of `append`
and of a load agree, and so do their two ways of computing the unresolved set.
`ImplementsLifecycle` is the refinement of TradeLifecycle. Two trades are enough
for events of different trades to interleave in the log, and each function of
the log looks at one trade or at neighbouring records.

**ledger_file.** A file that loads has lost nothing that a caller was given, written
or repeated (`NothingLostSilently`), processes are behind the file but never beside it
(`MemoryIsPast`), a refused file stays refused (`RefusalIsFinal`). A file that loads
is also proof that one append at most wrote an intent of a trade and returned it, and
that every other call that asked for one was given that same event
(`OneIntentIfItLoads`). That several calls may be given it is how `append` answers a
repeated key; only `submit`'s look at the trade's state keeps the second from the
broker (`Submittable`, BrokerExecution). The condition matters: two processes *can*
both write an intent for the same trade, return it and go to the broker. The ledger
notices at the next load, by refusing the file. `MaxLines` leaves room for three
lines after the four historical records: an intent of each process, and one more.

**broker_execution.** `SendOnce`, `IntentBeforeSend`, `VerdictIsSound` (how far
the ledger can be believed: an accepted trade is fully executed, a rejection that
recovery observed is final, and a rejected trade that has or may still get an
execution blocks all new risk), and under fairness `RecoveryResolves`.
Two units make a partial fill possible; two trades make one order's doubt matter
to another. Fairness is on two things. Calls end (WF): `submit` is sequential
code whose waits are bounded, so it goes on or dies. Recovery is run (SF): the
operator's repeated `observe_and_resolve` for a submitted trade is sometimes not
interrupted between looking and journalling. Nothing is assumed of the broker,
so the property speaks of orders that have ended there. An order that ended with
part of its volume is left out: the code has no verdict for it and journals
PARTIAL for ever. So is one that was never sent, for which there is nothing to observe.

**capital_firewall.** `ExecutedUnderAuthority` (in force at the moment of the
order, however old the envelope), `HeldWhileExposed`, `ReservedWithinAuthorized`,
and `PromptWithinCap`: if every request is served at its own
issuance time the cap holds. Lifetime 2 in four moments lets authorizations be
issued, expire and be followed by others; cap 3 admits 1+1, 1+2 and not 2+2.

**authorization_attempt.** For an authorization only one chart answers to,
`SingleAttemptAlone`; for any number of charts `SettledForEver`. `MaxSends` 2 is
one more than is right.

**trace_ingest.** `PreflightSuffices`, `TraceGrantsNothing`,
`LedgerHoldsABeginning`, `PassesAgain`. Four lines are enough for submission,
outcome, a faulty line and a repetition in one file. Between two ingests a recovery
may journal its verdict before the advisor's own is taken, once under an id of the
advisor; `PassesAgain` names the records that this and an observed outcome defeat, and
each of its cases occurs. The properties of the beginning and of repetition are about files that grow by appending, which is all
an advisor does.

**demo_runtime.** `PublishedWhole`: an envelope appears only for a trade that is
authorised at that moment with its capital reserved and nothing unresolved,
however many runs died before. `RevocationTakesHold`: an advisor takes nothing up
later than `RecordAge` after a revocation; `BlockTakesHold`: nor later than that
after the last moment without a block. Three moments and `RecordAge` 1 separate
"now", "within a record's age" and "later". The runs of this module have a
request that is served at its issuance time (`MaxAge` 0); late ones are
`capital_cap_late`. Only clock, revocations, blocks and the tools' delays matter
to these properties, and all four are unrestricted.

**issuance.** `GrantsAreOneTime` and `AdmissionsAreOneTime` are the refinements of
OneTimeIssue. `OneRequestPerTrade` is about the composition: the admission registry
has no unique trade, so two requests for one trade are kept apart by the grant
registry and by nobody attesting a grant before it is claimed. `NameBindsContent`:
an output named by a hash holds the request of the packet with that hash, however
often the source is replaced. `AttemptsAreSpaced`: a service process attempts a
packet again only after as many others as its memory holds. The grants share a
trade and nothing else, the packets of one grant everything; that is every way in
which identities can collide. A memory of two among four packets evicts. Paths are
freed again (`Archive`, `Collect`), so nothing rests on a path being taken.
Symmetry is between the issuers and between the two like packets; nothing
distinguishes either, and the run has no liveness property.

**hybrid_safety.** `DailyLossHolds`: once an order has left on a day, none leaves
when the limit is lost since that day began, crashes included, because each attempt
flushes. `DailyLimit` and `HaltHolds` are about days without a crash: what is
counted after the last flush is lost with the terminal. All three allow any restart
that succeeds; a failed one is in section 6. Each limit can be reached within
the bounds, a halt can be reached with its last deals still waiting, and the second
day begins with whatever the first left.

Deadlock checking is off where the system may stop: a clock that ends, trades
that are all reconciled, a file at its bound.

## 5. What is proved

The fifty-seven theorems that `PROJECT.json` lists, in eight modules, hold for every
value of the constants: any number of trades, requests, processes, charts, grants,
packets and days, any volume, cap, lifetime, limit or clock, any length of ledger, file or trace.
They rest on the named ASSUMEs of the modules, which say what the constants are
(`VolumeAssumption`: a positive number; `HistoryAssumption`: the ledger loads when
we start to look; `KeysAssumption` of TraceIngest: an advisor's keys are its own;
`GrantIdsAssumption`: a grant has an identity), and on nothing
else. One theorem about TraceIngest has a hypothesis of its own, named below.

| proof module | theorems about | the inductive invariant and why |
|---|---|---|
| LedgerOpsProofs | `StateOfAppend`, `UnresolvedOfAppend`, `OneIntentInLoadedLog` | one append changes the state of its own trade only; rebuilding the unresolved set from a longer log is updating the set of the shorter one; a log that a load accepts has one intent of a trade, or a first record that went back from submission would be an illegal move |
| TradeLedgerProofs | types, `AlwaysLoadable`, `MemoryIsReplay`, `ImplementsLifecycle`; `UnresolvedBlocks`, `SubmittedOnce` | types, `AlwaysLoadable`, `MemoryIsReplay` and `Ranked`. An append checks memory and a load checks the file, so loadability and replay need each other; `Ranked`, that a trade's events only go forward along the lifecycle, gives `SubmittedOnce` |
| | every property of `trace_ingest`; `BatchesAreWhole`, `BlocksOutliveTraces`, `AuthorizedBefore` | `Passes` says what the check of a batch means without its staged events: for each record, against the ledger and the new records before it. `BatchInv`: the check has established it as far as it got (`Checked`), and every append keeps it (`TakenPasses`), because what the ledger has moved by then the simulation had moved before. With it `LedgerHoldsABeginning` and `LedgerInv`, what the ledger has from a trace at all; `AgainInv` carries it record by record from one ingest to the next, over whatever others append: a move of theirs overtakes the record or leaves it possible (`MoveOvertakes`) |
| BrokerExecutionProofs | types, `SendOnce`, `IntentBeforeSend`, `VerdictIsSound`, `QuietWhileInDoubt`, `FollowsLifecycle` | `CallInv`, what the call in progress knows and may still journal, and `BrokerInv`, how an order's state and its executed volume go together: what recovery reads is final, so it is still true when it is written; `RejectedBlocks`: a trade that is rejected is blocked, so a rejection that is none costs new risk and never adds it |
| LedgerFileProofs | every property of `ledger_file` | one lemma, `PutAccepted`: if a file loads after a write, it loaded before, and the write added nothing or the next record on a line of its own; `ReturnedInOrder`: what was returned lies in a file that loads in the order of its return, so two appends that returned an intent would have left two records; a repeated event is in a memory, which is a beginning of the file |
| DemoRuntimeProofs | of the firewall: types, `ExecutedUnderAuthority`, `HeldWhileExposed`, `BlockedAddsNoRisk` | `ClockInv`: no order and no issuance lies in the future, so a revocation, which happens now, comes after every order under what it revokes |
| | of the runtime: types, `PublishedWhole`, `RevocationTakesHold`, `BlockTakesHold` | `StampInv`: every stamp, in the renewal tool's hands or in a record, is no later than the revocation of its authorization nor than the last moment without a block; `RunInv`: what a run's last check saw still holds when it publishes, because nobody else writes the ledger during a run |
| | of the amounts: `ReservedWithinAuthorized`, `PromptWithinCap` | `AmountInv`: the two, that a reservation draws on an issued authorization, and that finitely many ids are in use, which is an invariant and no assumption on the sets of ids. The sum of the community modules is a recursive function over finite sets; `SumTakeOut` and the four lemmas after it are shown by a smallest set for which they would fail. The cap is tested when an authorization is issued; after that the clock and revocations only take away from what is in force |
| | of the amounts with the runtime: `PromptWithinCap`, `RuntimeAddsNoRisk` | `GrantsInv`: a grant is what its request asked for, and none is younger than the run that has the ledger. So what is in force when a run grants was in force when its request was signed, which is where the code tests the cap |
| | of the chain to an order: `OrdersAreAccountedFor`, `OneOrderOfATrade` | `EvidenceInv`: an attempt past its gate has set its key and belongs to the one advisor of its trade; what a record or the renewal tool holds has an envelope; a submission the ledger has was in a trace, and a trace is of an attempt |
| AuthorizationAttemptProofs | types, `SettledForEver`, `SingleAttemptAlone`, `BurnedBeforeSend` | `OneShot`, the stages one chart's authorization goes through, with what memory and disk hold at each |
| IssuanceProofs | every property of `issuance` | `GrantInv`, `AdmissionInv`: rows share no identity, a call past its claim has a row, and nobody else has a call past the claim of the same item; `NameInv`: an output with a packet's name is written by a call for that packet; `AttestInv`: what is in a grant file, attested or in a row was claimed; `MemoryInv`: a packet attempted lately is as far from the end of the memory as others came after it |
| HybridSafetyProofs | every property of `hybrid_safety` | `MirrorInv`: the terminal agrees with a running advisor on the day and its beginning; `BaseInv`: an order leaves that beginning on disk; `LimitInv`, `StreakInv`: what the advisor has, or would load, counts no fewer trades and losses than there were |

`SubmittedStays`, a trade once submitted never being unsubmitted, and
`JournalIsLifecycle`, that an event journalled is a lifecycle step or none, are
lemmas about TradeJournal stated where they are used.

Checked by TLC only:

* `RecoveryResolves`, because liveness under fairness is out of the prover's
  reach.

All other properties of the passing runs are theorems. Four theorems about
DemoRuntime have no run of their own: the cap is run for CapitalFirewall alone
(`capital_firewall`), and the last three are stated in the proof module. TLC agrees
with all four on the instance of `demo_runtime`, that of the cap with `Cap = 1`,
`MaxAge = 1` and two requests signed at different moments.

The hypothesis of a theorem about TraceIngest:

* `OneIdPerKey` (`BatchesAreWhole`): records with the same key have the same id. The
  comment over the check (`tools/runtime_trace_bridge_v1.py:205`) has it prevent
  later records "from partially committing earlier observations"; that is so
  for an advisor of this kind. A record that repeats a key and borrows another
  event's id is not caught by the check, and the run has such a record.

## 6. Where the code and its documents disagree

The first three are runs that TLC ends with a counterexample. The three after them
can be run in the same way: put the property's name as an INVARIANT into the cfg of
the module's run.

**A late request goes over the cap** (`capital_cap_late`, `AggregateWithinCap`).
`issue_authorization` sums what is in force at the new authorization's own
issuance time, and leaves out what was issued later than that. A request signed
first and served second, both within the thirty seconds the producer allows, is
therefore not added to the younger one. `PromptWithinCap` shows that lateness is
the only way.

**An order lost in a crash does not block the next** (`broker_uncertain`,
`UncertaintyBlocksNewRisk`). The block looks at journalled exceptions. A trade
with a durable intent and no verdict, left by a death between the two or by a
response that fails validation, is not among them.

**Two charts, one authorization, two orders** (`attempt_two`, `SingleAttempt`).
The attempt key is created with an unconditional `GlobalVariableSet(key, 0.0)`.
A second chart that passed the existence checks resets a key the first has
claimed. With one chart per authorization the latch is sound
(`OneChartOneAttempt`).

**A timeout is journalled as a rejection** (`RejectedHasNoExecution`,
BrokerExecution). `tools/mt5_execution_adapter_v1.py:176` has "If broker I/O raises or
times out, the durable ORDER_SUBMITTED state forces broker reconciliation/recovery". The
gateway raises no exception for a timeout that `order_send` reports: every return code
other than done, partial and placed becomes REJECTED with nothing filled
(`tools/mt5_terminal_gateway_v1.py:258`), and the trade leaves ORDER_SUBMITTED. Its
order may be on its way, live or filled. The recovery, which asks for
ORDER_SUBMITTED, can then no longer settle it; only a reconciliation of snapshots
can. Until then it blocks all new risk (`VerdictIsSound`, `QuietWhileInDoubt`).

**A torn line takes the next record with it** (`IntentIsRecorded`,
LedgerFile). After a write that was cut short, or that lacks only its
newline, the next append is glued to that line and reports success; the order
goes out with an intent that no load will read. `RefusalIsFinal` and
`NothingLostSilently` are the good side of it: the loss is never silent.

**A trace with an unknown outcome is refused for ever**
(`DuplicateTraceIsIdempotent`, TraceIngest). The preflight compares a stored
state with the record's; an outcome is stored without a state and comes with
`ORDER_SUBMITTED`, so its repetition is a conflict, and since an advisor appends
to one file, every later ingest of that file fails. `PassesAgain` shows that the
only other cause is a writer beside the advisor: a recovery that has journalled
what the record reports, or a rejection.

Noted while modelling, without a run of their own:

* `release_pre_execution` looks at the ledger, which learns of an advisor's order
  by a trace; it can release the reservation of an order that is out.
* An ACCEPTED line has a field `confirmed_volume` (`g13_mql5_generator_v2.py:352`)
  that the bridge's list of allowed fields does not have: after the first
  success the file is not accepted. DemoRuntime has this in `Ingestible`.
* `HasOtherG13Position` is checked and not claimed, so two advisors can both find
  no position and both send. The model has the steps; the property for two is
  planned.
* The hybrid advisor returns on `consec_losses` before it counts `halt_bars_left`
  down, and the end of a cooldown does not reset `consec_losses`, so a halt lasts
  until a gain is booked or the day is rolled. `strategies/GRK_REGIME_SWITCH_V46.md:17` has
  "ConsecutiveHalt = 3 + cooldown 8". `HaltHolds` states what the code does.
* `config/forexai_quant_constitution_v1.json:171` requires
  "restart_does_not_clear_safety_state == true" (also
  `config/forexai_execution_parity_v1.json:71`). A failed `OnInit` does clear it:
  the terminal calls `OnDeinit`, which persists variables that were never loaded.
  So does a terminal that dies after the last flush: `trades_today` and
  `consec_losses` go back to what the last attempt saved. `day_start_equity` does
  not, and that is `DailyLossHolds`.
* `MaxTradesPerDay` counts orders that were accepted in full. A partial fill or an
  unknown outcome is not counted.
* `poll_once` promises a packet's processing "at most once per service process"
  (`control_plane_provider_service_v1.py:208`, also
  `docs/G13_PROVIDER_HOST_PREFLIGHT_V1.md:50`). `seen_hashes` forgets after 256
  others, and the packet is then attempted again; `AttemptsAreSpaced` is the
  promise that holds, and the registry keeps the second attempt from issuing.
* The pair writers of the grant issuer and of the attestor link one file after the
  other; "Atomically publish a new attestation and matching audit receipt as a
  pair" (`g13_capital_firewall_promotion_attestor_v1.py:819`) holds for errors, which are rolled
  back, and not for a process that dies between the links.
* A claim that was committed and whose request was never written is used up for
  good: no retry issues it, and nothing reports it. That is the safe side, and it
  is what both refinements allow.
* A repeated record that borrows another event's id passes the preflight and is
  rejected in the middle of the batch.
* The cap bounds authority in force, not exposure: a filled order whose
  authorization has expired is not counted.

## 7. Assumptions and abstractions

* **Hash and signature.** Two events hash alike exactly when they are the same;
  an event's link to its predecessor is that event's key. A record or an envelope
  is known by what it was built for. HMAC, canonical JSON and the identity
  comparisons are validation and left out.
* **Idempotency.** A firewall call with a key the ledger has returns what it did
  the first time; in CapitalFirewall only first calls are actions, in DemoRuntime
  repetition is explicit, because there it is what a second run consists of.
* **Time** is a small number of moments on one clock for all hosts. The two
  seconds of tolerance for stamps in the future are left out, and the renewal
  tool's `--now-utc` is taken to be the true time.
* **One ledger writer** in DemoRuntime, as the producer's concurrency group
  (`.github/workflows/forexai-control-plane-producer-v1.yml:21`) has it for
  itself. Operator and ingestion are taken to keep out of its way. LedgerFile
  shows what happens when they do not.
* **One process** in BrokerExecution. `Init` there has trades that are already
  authorised, which is where `submit` begins to differ from the firewall.
* **Envelope path.** One per trade in DemoRuntime. In the workflow the path is
  fixed, so a second trade waits until somebody moves the first's envelope.
* **One amount** in DemoRuntime: a request's authorised and reserved risk are the
  same. CapitalFirewall has them apart.
* **Own ticket.** The operator is taken to look up the trade's own ticket; the
  code does not compare it with the one journalled.
* **Other writers in TraceIngest** append between two ingests: an authorization, a
  recovery's verdict, a reconciliation. Nobody else appends while an ingest runs;
  `PreflightSuffices` rests on that, since the bridge holds a copy of the ledger and
  locks nothing.
* **Capitals.** The bridge checks an event type in capitals and stores it as the
  advisor wrote it, and so does the model (`Upper`). The ledger compares types as they
  are, so an outcome in small letters would raise no block; the generated advisor writes
  capitals.
* **`used` in DemoRuntime stays empty**: it holds orders that went through
  `check_execution_admission`, and an advisor's do not.
* **Registries** are initialised by one command and never reset or restored from a
  backup. A command that dies inside the initialisation leaves a registry that
  cannot be used (`broken`).
* **Grant files** are archived by operators only after their issuer has ended.
  Command lines are not given an output path named like one of the service's.
* **Age of sources.** That a packet or grant has become too old is one of the
  reasons for which a call returns; no clock is needed for that.
* **The hybrid advisor's day.** The terminal knows the broker's day when the advisor
  starts. Deals closed while the advisor is down are never booked, as in the code,
  and what was queued for it when it stops is dropped. A tick that passes the market
  filters is the first of its bar. `OnInitFails` is for a freshly loaded program.
* **Amounts** are small naturals. The code adds binary floats and compares the
  sum with the cap without a tolerance.
* `quiet` in DemoRuntime, `served` in an authorization, `published`, `issued` and
  `since` in the issuing tools, `base`, `entries`, `streak` and `crashed` in
  HybridSafety, and `sends`, `returned`, `repeated`, `begun` elsewhere are history variables: no
  guard reads them, apart from the bound `MaxSends`.

Bounds: `MaxLines` on the file of LedgerFile, `MaxTrace` on the trace, `MaxSends`
on orders per authorization, `MaxTime` on the clock; in HybridSafety `LastDay`,
`MaxDown` and `MaxUp` on the equity, `MaxDeals` on waiting deals, `MaxLate` on
orders that may still fill, `MaxLosses` on losses in a row. TradeLedger needs none,
its finite set of keyed requests bounds the log; Issuance needs none, because what
is claimed stays claimed. `MaxSeen` is the code's own constant.

## 8. What is not modelled

* **Evidence** behind grants and attestations (the cache, the checks over the GitHub
  API, the field comparisons of the four sources): validation of a value that does
  not change while it is looked at. A packet verifies or does not.
* **Recovery contract, evidence gate, replay, fault injection**: pure functions
  of a loaded ledger which the execution path does not consult.
* **Command lines that report, probes, preflights**: they change nothing.
* **Evidence upload**: HTTP, and never authority. Last in the plan.
* **Research, strategies, optimisation**: numeric and single-threaded.
* **Agents**: calls to a language model and to GitHub; no state shared with the
  execution path.
* **Workflows, tests, documents**: schedules, and text that is read for what it
  promises.
* **JavaScript.** The application is Python and MQL5. The only JavaScript is the
  vendored upload action: about 130 600 lines of a generated bundle of third-party
  packages in ten parts (`.github/actions/g13-artifact-upload/dist-upload/`), and a
  `loader.js` of 36 lines that joins the parts, imports the result and deletes it.
  The bundle is not this project's program and nothing of it is modelled.
* **Two advisors at once** in DemoRuntime. The steps are there for any set of them;
  the run has one, because two make the instance too large, and no property is
  about two.
* **Tickets**: an operator who looks a trade up under another trade's ticket.
* Details of modelled components: signal, sizing, trailing and parity logging of
  the advisors; normalisation of broker snapshots; the terminal's readings in the
  producer.

`PROJECT.json` gives the reason for each component.

## 9. The plan

Done, in this order, the most important first: LedgerOps, TradeLedger,
TradeLifecycle; TradeJournal, BrokerExecution; CapitalFirewall; LedgerFile;
AuthorizationAttempt; TraceIngest; DemoRuntime; OneTimeIssue, GrantIssuance,
AdmissionIssuance, Issuance; HybridSafety; the proofs of all of them.

Left:

1. **Two advisors** in DemoRuntime: one position across candidates, with
   `HasOtherG13Position` checked and never claimed.
2. **Recovery readings**: recovery contract, evidence gate and replay as
   operators on LedgerOps, checked against `UnresolvedOf`.
3. **Tickets** in BrokerExecution: a verdict belongs to the trade it is journalled
   for.
4. **Issuance to runtime**: the request of Issuance as what the producer of
   DemoRuntime is given, instead of any request of a finite set.

To repeat the work: `tlc -config MCTradeLedger.cfg MCTradeLedger` and likewise for
each run of `PROJECT.json`; `tlapm TradeLedgerProofs.tla` and likewise for each
proof module.
