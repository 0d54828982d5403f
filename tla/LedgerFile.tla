------------------------------ MODULE LedgerFile ------------------------------
(***************************************************************************)
(* The ledger's file on a disk that fails (tools/trade_ledger_v1.py,       *)
(* _append_durable and _load_and_verify).  Any number of processes open    *)
(* the file, none of them locks it, and each appends from the copy it      *)
(* loaded.  A write may be cut short: by an error that the process         *)
(* survives, or by the death of process and machine.                       *)
(*                                                                         *)
(* The file is its lines, the last of which may lack its newline.  A line  *)
(* holds one record or is Garbage: part of a record, or a record that was  *)
(* glued to what an unfinished line had left.                              *)
(***************************************************************************)
EXTENDS LedgerOps

CONSTANTS
  Procs,       \* the processes that open the ledger
  Trades,
  Requests,    \* append requests callers make
  History,     \* the records in the file when we start to look
  Garbage,     \* a line that json.loads refuses
  MaxLines     \* the bound of the model on the length of the file

Keys == { r.key : r \in Requests } \union { History[i].key : i \in DOMAIN History }
Event == [seq : Nat, id : Keys, trade : Trades,
          state : STATES \union {NoState}, type : STRING, key : Keys,
          payload : STRING, prev : Keys \union {<<>>}]

ASSUME HistoryAssumption == History \in Seq(Event) /\ LoadAccepts(History)
ASSUME GarbageAssumption == Garbage \notin Event
ASSUME LedgerFileRequests ==
  Requests \subseteq [id : Keys, trade : Trades, state : STATES \union {NoState},
                      type : STRING, key : Keys, payload : STRING]
ASSUME MaxLinesAssumption == MaxLines \in Nat

VARIABLES
  lines,       \* the lines of the file
  ended,       \* the last line has its newline
  running,     \* the processes that have the ledger loaded
  events,      \* self._events of each of them
  unresolved,  \* self._unresolved_reconciliation of each of them
  returned,    \* the events that append wrote and returned to its callers
  repeated     \* the stored events that append returned for a repeated key

memory == <<running, events, unresolved>>
answers == <<returned, repeated>>
vars == <<lines, ended, memory, answers>>

TypeOK ==
  /\ lines \in Seq(Event \union {Garbage})
  /\ ended \in BOOLEAN
  /\ running \subseteq Procs
  /\ events \in [Procs -> Seq(Event)]
  /\ unresolved \in [Procs -> SUBSET Trades]
  /\ returned \in Seq(Event)
  /\ repeated \subseteq Event

Init ==
  /\ lines = History
  /\ ended = TRUE
  /\ running = {}
  /\ events = [p \in Procs |-> <<>>]
  /\ unresolved = [p \in Procs |-> {}]
  /\ returned = <<>>
  /\ repeated = {}

Whole(file) == \A i \in DOMAIN file : file[i] # Garbage

(* _load_and_verify: it does not ask for the last line's newline.          *)
Accepts(file) == Whole(file) /\ LoadAccepts(file)

(* Mutant: an unfinished last line is written over.                        *)
Put_WrittenOver(line) ==
  lines' = IF ended THEN Append(lines, line)
           ELSE [lines EXCEPT ![Len(lines)] = line]

(* Text that is written: it opens a line, or goes on with the last one.    *)
Put(line) ==
  lines' = IF ended THEN Append(lines, line)
           ELSE [lines EXCEPT ![Len(lines)] = Garbage]

(* How much of a record's line, newline included, reaches the file.        *)
NothingWritten == UNCHANGED <<lines, ended>>
PartWritten == Put(Garbage) /\ ended' = FALSE
NewlineMissing(e) == Put(e) /\ ended' = FALSE

(* Mutant: without the fsync, the line may be lost after all.              *)
LineWritten_Buffered(e) == (Put(e) /\ ended' = TRUE) \/ NothingWritten

LineWritten(e) == Put(e) /\ ended' = TRUE

Written(e) ==
  NothingWritten \/ PartWritten \/ NewlineMissing(e) \/ LineWritten(e)

------------------------------------------------------------------------------
Load(p) ==
  /\ p \notin running
  /\ Accepts(lines)
  /\ running' = running \union {p}
  /\ events' = [events EXCEPT ![p] = lines]
  /\ unresolved' = [unresolved EXCEPT ![p] = UnresolvedOf(lines)]
  /\ UNCHANGED <<lines, ended, answers>>

(* A key the process already has, with the same meaning: append returns    *)
(* the stored event and writes nothing.  A key or an event id that means   *)
(* something else is an error that changes nothing.                        *)
SameSemantics(e, r) ==
  /\ e.trade = r.trade /\ e.state = r.state
  /\ e.type = r.type /\ e.payload = r.payload

AppendRepeats(p, r) ==
  /\ p \in running
  /\ ~IdReused(events[p], r)
  /\ \E i \in DOMAIN events[p] :
       /\ events[p][i].key = r.key /\ SameSemantics(events[p][i], r)
       /\ repeated' = repeated \union {events[p][i]}
  /\ UNCHANGED <<lines, ended, memory, returned>>

(* A new key: the checks of append up to the write.                        *)
Appending(p, r) ==
  /\ p \in running
  /\ Len(lines) < MaxLines
  /\ CanAppend(events[p], r)

AppendReturns(p, r) ==
  LET e == AsEvent(events[p], r) IN
  /\ Appending(p, r)
  /\ LineWritten(e)
  /\ events' = [events EXCEPT ![p] = Append(@, e)]
  /\ unresolved' = [unresolved EXCEPT ![p] = UnresolvedAfter(@, e)]
  /\ returned' = Append(returned, e)
  /\ UNCHANGED <<running, repeated>>

(* Mutant: memory is updated before the file.                              *)
AppendRaises_MemoryFirst(p, r) ==
  LET e == AsEvent(events[p], r) IN
  /\ Appending(p, r)
  /\ Written(e)
  /\ events' = [events EXCEPT ![p] = Append(@, e)]
  /\ unresolved' = [unresolved EXCEPT ![p] = UnresolvedAfter(@, e)]
  /\ UNCHANGED <<running, answers>>

(* open, write, flush or fsync raises OSError: append raises, memory does  *)
(* not follow, and the process goes on.                                    *)
AppendRaises(p, r) ==
  /\ Appending(p, r)
  /\ Written(AsEvent(events[p], r))
  /\ UNCHANGED <<memory, answers>>

Forget(p) ==
  /\ running' = running \ {p}
  /\ events' = [events EXCEPT ![p] = <<>>]
  /\ unresolved' = [unresolved EXCEPT ![p] = {}]
  /\ UNCHANGED answers

AppendDies(p, r) ==
  /\ Appending(p, r)
  /\ Written(AsEvent(events[p], r))
  /\ Forget(p)

Stop(p) ==
  /\ p \in running
  /\ Forget(p)
  /\ UNCHANGED <<lines, ended>>

Next ==
  \E p \in Procs :
    \/ Load(p) \/ Stop(p)
    \/ \E r \in Requests :
         \/ AppendRepeats(p, r) \/ AppendReturns(p, r)
         \/ AppendRaises(p, r) \/ AppendDies(p, r)

Spec == Init /\ [][Next]_vars
------------------------------------------------------------------------------
Recorded(e) == \E i \in DOMAIN lines : lines[i] = e
Intents(log, t) ==
  { i \in DOMAIN log : log[i].trade = t /\ log[i].state = "ORDER_SUBMITTED" }

(* Nothing is lost silently: a file that loads holds every event that      *)
(* append ever returned, written by that call or found to be there,        *)
(* whoever wrote it and whatever was cut short.                            *)
NothingLostSilently ==
  Accepts(lines) =>
    /\ \A i \in DOMAIN returned : Recorded(returned[i])
    /\ \A e \in repeated : Recorded(e)

(* A ledger that was refused is refused for ever: no later append makes a  *)
(* broken file look whole again.                                           *)
RefusalIsFinal == [][~Accepts(lines) => ~Accepts(lines)']_vars

(* While the file loads, what a running process has in memory is how the   *)
(* file begins, and it blocks exactly what that beginning leaves in doubt: *)
(* it may be behind the file, but never beside it.                         *)
MemoryIsPast ==
  Accepts(lines) => \A p \in running :
    /\ Len(events[p]) <= Len(lines)
    /\ events[p] = SubSeq(lines, 1, Len(events[p]))
    /\ unresolved[p] = UnresolvedOf(events[p])

(* The intents of a trade that callers were told are in the ledger.        *)
IntentsTold(t) ==
  { e \in { returned[i] : i \in Intents(returned, t) } \union repeated :
      e.trade = t /\ e.state = "ORDER_SUBMITTED" }

(* A file that loads is proof that at most one append wrote an intent of   *)
(* the trade and returned it, and that every other call which asked for    *)
(* one was given that very event, whoever wrote the file and however often *)
(* they failed and started again.  A caller who acts on an intent only     *)
(* where it found the trade AUTHORIZED, as submit does, is then alone.     *)
OneIntentIfItLoads ==
  Accepts(lines) => \A t \in Trades :
    /\ \A i, j \in Intents(returned, t) : i = j
    /\ \A e, f \in IntentsTold(t) : e = f

(* mt5_execution_adapter_v1.py:9, "ORDER_SUBMITTED is durably recorded     *)
(* before broker I/O": an intent that was returned stays a record of the   *)
(* file.                                                                   *)
IntentIsRecorded ==
  \A t \in Trades : \A i \in Intents(returned, t) : Recorded(returned[i])
==============================================================================
