--------------------------- MODULE LedgerFileProofs ---------------------------
(***************************************************************************)
(* What a failing disk and unlocked writers can do to the ledger, for any  *)
(* number of processes and any requests.                                   *)
(*                                                                         *)
(* Everything rests on one fact about a file that grows (PutAccepted): if  *)
(* the file loads after a write, it loaded before it, and the write added  *)
(* nothing or one record, on a line of its own, numbered as the next one.  *)
(***************************************************************************)
EXTENDS LedgerFile, LedgerOpsProofs

Line == Event \union {Garbage}

(* Only a line that is there can lack its newline.                         *)
HasLast == ended \/ lines # <<>>

(* While the file loads, what was written and returned lies in it in the   *)
(* order of its return.                                                    *)
ReturnedInOrder ==
  Accepts(lines) => \A i, j \in DOMAIN returned :
    i < j => returned[i].seq < returned[j].seq

IInv == /\ TypeOK /\ HasLast /\ NothingLostSilently /\ MemoryIsPast
        /\ ReturnedInOrder

LEMMA AcceptsPrefix ==
  ASSUME NEW file \in Seq(Line), NEW line \in Line, Accepts(Append(file, line))
  PROVE  /\ Accepts(file) /\ line \in Event
         /\ line.seq = Len(file) + 1
<1> DEFINE file2 == Append(file, line)
           n == Len(file) + 1
<1>1. /\ n \in Nat /\ Len(file) \in Nat
      /\ DOMAIN file2 = 1 .. n /\ DOMAIN file = 1 .. Len(file)
      /\ file2[n] = line /\ \A i \in DOMAIN file : file2[i] = file[i]
  OBVIOUS
<1>2. \A i \in DOMAIN file : SubSeq(file2, 1, i - 1) = SubSeq(file, 1, i - 1)
  BY <1>1
<1>3. LoadAccepts(file2) /\ Whole(file2)
  BY DEF Accepts
<1>4. LoadAccepts(file)
  <2>1. ASSUME NEW i \in DOMAIN file
        PROVE  /\ file[i].seq = i
               /\ file[i].prev = LastKey(SubSeq(file, 1, i - 1))
               /\ Moves(StateOf(SubSeq(file, 1, i - 1), file[i].trade), file[i].state)
    <3>1. /\ i \in DOMAIN file2 /\ file2[i] = file[i]
          /\ SubSeq(file2, 1, i - 1) = SubSeq(file, 1, i - 1)
      BY <1>1, <1>2, <2>1
    <3> QED
      BY <1>3, <3>1 DEF LoadAccepts
  <2>2. \A i, j \in DOMAIN file :
          i # j => file[i].key # file[j].key /\ file[i].id # file[j].id
    BY <1>1, <1>3 DEF LoadAccepts
  <2> QED
    BY <2>1, <2>2 DEF LoadAccepts
<1>5. Whole(file) /\ line # Garbage
  BY <1>1, <1>3 DEF Whole
<1>6. line.seq = n
  BY <1>1, <1>3 DEF LoadAccepts
<1> QED
  BY <1>4, <1>5, <1>6 DEF Accepts, Line

LEMMA PutAccepted ==
  ASSUME TypeOK, HasLast, NEW line \in Line, Put(line), Accepts(lines')
  PROVE  /\ Accepts(lines) /\ lines' = Append(lines, line)
         /\ line \in Event /\ line.seq = Len(lines) + 1
<1>0. lines \in Seq(Line)
  BY DEF TypeOK, Line
<1>1. CASE ended
  BY <1>0, <1>1, AcceptsPrefix DEF Put
<1>2. CASE ~ended /\ lines # <<>>
  <2>1. Len(lines) \in DOMAIN lines'  /\ lines'[Len(lines)] = Garbage
    BY <1>0, <1>2 DEF Put
  <2> QED
    BY <2>1 DEF Accepts, Whole
<1> QED
  BY <1>1, <1>2 DEF HasLast

LEMMA PutTyped ==
  ASSUME TypeOK, HasLast, NEW line \in Line, Put(line)
  PROVE  lines' \in Seq(Line) /\ lines' # <<>>
<1>0. lines \in Seq(Line)
  BY DEF TypeOK, Line
<1>1. CASE ended
  BY <1>0, <1>1 DEF Put
<1>2. CASE ~ended /\ lines # <<>>
  <2>1. /\ DOMAIN lines' = DOMAIN lines /\ lines' = [lines EXCEPT ![Len(lines)] = Garbage]
        /\ Garbage \in Line
    BY <1>2 DEF Put, Line
  <2> QED
    BY <1>0, <1>2, <2>1
<1> QED
  BY <1>1, <1>2 DEF HasLast

LEMMA EventTyped ==
  ASSUME TypeOK, NEW p \in Procs, NEW r \in Requests
  PROVE  /\ AsEvent(events[p], r) \in Event
         /\ AsEvent(events[p], r).seq = Len(events[p]) + 1
<1>1. events[p] \in Seq(Event) /\ Len(events[p]) \in Nat
  BY DEF TypeOK
<1>2. LastKey(events[p]) \in Keys \union {<<>>}
  <2>1. CASE events[p] = <<>>
    BY <2>1 DEF LastKey
  <2>2. CASE events[p] # <<>>
    <3>1. events[p][Len(events[p])] \in Event
      BY <1>1, <2>2
    <3> QED
      BY <2>2, <3>1 DEF LastKey, Event
  <2> QED
    BY <2>1, <2>2
<1>3. r \in [id : Keys, trade : Trades, state : STATES \union {NoState},
              type : STRING, key : Keys, payload : STRING]
  BY LedgerFileRequests
<1> QED
  BY <1>1, <1>2, <1>3 DEF AsEvent, Event

LEMMA UnresolvedTyped ==
  ASSUME NEW log \in Seq(Event)
  PROVE  UnresolvedOf(log) \subseteq Trades
<1>1. \A i \in DOMAIN log : log[i].trade \in Trades
  <2> TAKE i \in DOMAIN log
  <2>1. log[i] \in Event
    OBVIOUS
  <2> QED
    BY <2>1 DEF Event
<1> QED
  BY <1>1 DEF UnresolvedOf

(* What any write, cut short or not, does to the file.                     *)
LEMMA WriteStep ==
  ASSUME TypeOK, HasLast, NEW e \in Event, Written(e)
  PROVE  /\ lines' \in Seq(Line) /\ ended' \in BOOLEAN /\ HasLast'
         /\ Accepts(lines') =>
              /\ Accepts(lines)
              /\ \/ lines' = lines
                 \/ lines' = Append(lines, e) /\ e.seq = Len(lines) + 1
<1>1. CASE NothingWritten
  BY <1>1 DEF NothingWritten, TypeOK, HasLast, Line
<1>2. CASE PartWritten
  <2>1. Garbage \in Line /\ Garbage \notin Event /\ Put(Garbage) /\ ended' = FALSE
    BY <1>2, GarbageAssumption DEF PartWritten, Line
  <2> QED
    BY <2>1, PutTyped, PutAccepted DEF HasLast
<1>3. CASE NewlineMissing(e) \/ LineWritten(e)
  <2>1. e \in Line /\ Put(e) /\ ended' \in BOOLEAN
    BY <1>3 DEF NewlineMissing, LineWritten, Line
  <2> QED
    BY <2>1, PutTyped, PutAccepted DEF HasLast
<1> QED
  BY <1>1, <1>2, <1>3 DEF Written

(* A record of the file is still there after a write that leaves a file    *)
(* which loads.                                                            *)
LEMMA RecordStays ==
  ASSUME TypeOK, HasLast, NEW e \in Event, Written(e), Accepts(lines'),
         NEW f, Recorded(f)
  PROVE  Recorded(f)'
<1>1. PICK j \in DOMAIN lines : lines[j] = f
  BY DEF Recorded
<1>2. lines' = lines \/ lines' = Append(lines, e)
  BY WriteStep
<1>3. lines \in Seq(Line)
  BY DEF TypeOK, Line
<1> QED
  BY <1>1, <1>2, <1>3 DEF Recorded

(* A write of which nobody is told keeps what is true of the answers.      *)
LEMMA WriteKeeps ==
  ASSUME TypeOK, HasLast, NothingLostSilently, NEW e \in Event, Written(e),
         UNCHANGED answers
  PROVE  NothingLostSilently'
<1>1. SUFFICES ASSUME Accepts(lines')
               PROVE  /\ \A i \in DOMAIN returned : Recorded(returned[i])'
                      /\ \A f \in repeated : Recorded(f)'
  BY DEF NothingLostSilently, answers
<1>2. /\ \A i \in DOMAIN returned : Recorded(returned[i])
      /\ \A f \in repeated : Recorded(f)
  BY <1>1, WriteStep DEF NothingLostSilently
<1>3. returned' = returned
  BY DEF answers
<1> QED
  BY <1>1, <1>2, <1>3, RecordStays

LEMMA WriteKeepsMemory ==
  ASSUME TypeOK, HasLast, MemoryIsPast, NEW e \in Event, Written(e),
         NEW p \in running, Accepts(lines'),
         events'[p] = events[p], unresolved'[p] = unresolved[p]
  PROVE  /\ Len(events'[p]) <= Len(lines')
         /\ events'[p] = SubSeq(lines', 1, Len(events'[p]))
         /\ unresolved'[p] = UnresolvedOf(events'[p])
<1>1. /\ Len(events[p]) <= Len(lines)
      /\ events[p] = SubSeq(lines, 1, Len(events[p]))
      /\ unresolved[p] = UnresolvedOf(events[p])
  BY WriteStep DEF MemoryIsPast
<1>2. lines' = lines \/ lines' = Append(lines, e)
  BY WriteStep
<1>3. lines \in Seq(Line) /\ events[p] \in Seq(Event)
  BY DEF TypeOK, Line
<1>4. SubSeq(lines', 1, Len(events[p])) = SubSeq(lines, 1, Len(events[p]))
      /\ Len(lines) <= Len(lines')
  BY <1>1, <1>2, <1>3
<1> QED
  BY <1>1, <1>3, <1>4

LEMMA InitIInv == Init => IInv
<1> SUFFICES ASSUME Init PROVE IInv
  OBVIOUS
<1>1. TypeOK /\ HasLast
  BY HistoryAssumption DEF Init, TypeOK, HasLast
<1> QED
  BY <1>1 DEF Init, IInv, NothingLostSilently, MemoryIsPast, ReturnedInOrder

LEMMA AppendReturnsIInv ==
  ASSUME IInv, NEW p \in Procs, NEW r \in Requests, AppendReturns(p, r)
  PROVE  IInv'
<1> DEFINE e == AsEvent(events[p], r)
<1>1. /\ e \in Event /\ e.seq = Len(events[p]) + 1 /\ Written(e)
      /\ lines \in Seq(Line) /\ events[p] \in Seq(Event) /\ p \in running
      /\ TypeOK /\ HasLast /\ returned \in Seq(Event)
  BY EventTyped DEF IInv, AppendReturns, Appending, Written, TypeOK, Line
<1>2. /\ events' = [events EXCEPT ![p] = Append(@, e)]
      /\ unresolved' = [unresolved EXCEPT ![p] = UnresolvedAfter(@, e)]
      /\ returned' = Append(returned, e) /\ running' = running
      /\ repeated' = repeated /\ Put(e)
  BY DEF AppendReturns, LineWritten
<1>3. TypeOK' /\ HasLast'
  <2>1. lines' \in Seq(Line) /\ ended' \in BOOLEAN /\ HasLast'
    BY <1>1, WriteStep
  <2>2. events' \in [Procs -> Seq(Event)] /\ returned' \in Seq(Event)
    BY <1>1, <1>2 DEF TypeOK
  <2>3. unresolved' \in [Procs -> SUBSET Trades]
    <3>1. e.trade \in Trades /\ unresolved[p] \subseteq Trades
      BY <1>1 DEF Event, TypeOK
    <3>2. UnresolvedAfter(unresolved[p], e) \subseteq Trades
      BY <3>1 DEF UnresolvedAfter
    <3> QED
      BY <1>1, <1>2, <3>2 DEF TypeOK
  <2> QED
    BY <1>1, <1>2, <2>1, <2>2, <2>3 DEF TypeOK, Line
<1>4. ASSUME Accepts(lines')
      PROVE  lines' = Append(lines, e) /\ Len(events[p]) = Len(lines) /\ Accepts(lines)
  <2>1. Accepts(lines) /\ lines' = Append(lines, e) /\ e.seq = Len(lines) + 1
    BY <1>1, <1>2, <1>4, PutAccepted DEF Line
  <2> QED
    BY <1>1, <2>1
<1>5. NothingLostSilently'
  <2> DEFINE There(f) == \E j \in DOMAIN lines' : lines'[j] = f
  <2>1. SUFFICES ASSUME Accepts(lines')
                 PROVE  /\ \A i \in DOMAIN returned' : There(returned'[i])
                        /\ \A f \in repeated : There(f)
    BY <1>2 DEF NothingLostSilently, Recorded
  <2>2. lines' = Append(lines, e) /\ Accepts(lines)
    BY <1>4, <2>1
  <2>3. There(e) /\ \A f : Recorded(f) => There(f)
    <3>1. /\ Len(lines) + 1 \in DOMAIN lines' /\ lines'[Len(lines) + 1] = e
          /\ \A j \in DOMAIN lines : j \in DOMAIN lines' /\ lines'[j] = lines[j]
      BY <1>1, <2>2
    <3> QED
      BY <3>1 DEF Recorded
  <2>4. /\ \A i \in DOMAIN returned : There(returned[i])
        /\ \A f \in repeated : There(f)
    BY <2>2, <2>3 DEF IInv, NothingLostSilently
  <2>5. \A i \in DOMAIN returned' :
          \/ returned'[i] = e
          \/ i \in DOMAIN returned /\ returned'[i] = returned[i]
    BY <1>1, <1>2
  <2> HIDE DEF There
  <2> QED
    BY <2>3, <2>4, <2>5
<1>6. MemoryIsPast'
  <2>1. SUFFICES ASSUME Accepts(lines'), NEW q \in running
                 PROVE  /\ Len(events'[q]) <= Len(lines')
                        /\ events'[q] = SubSeq(lines', 1, Len(events'[q]))
                        /\ unresolved'[q] = UnresolvedOf(events'[q])
    BY <1>2 DEF MemoryIsPast
  <2>2. CASE q = p
    <3>1. events[p] = SubSeq(lines, 1, Len(lines)) /\ unresolved[p] = UnresolvedOf(events[p])
      BY <1>1, <1>4, <2>1 DEF IInv, MemoryIsPast
    <3>2. events[p] = lines
      BY <1>1, <3>1
    <3>3. events'[p] = lines' /\ lines' \in Seq(Line)
      BY <1>1, <1>2, <1>3, <1>4, <2>1, <3>2 DEF TypeOK, Line
    <3>4. unresolved'[p] = UnresolvedOf(Append(events[p], e))
      BY <1>1, <1>2, <3>1, UnresolvedOfAppend DEF TypeOK
    <3>5. events'[p] = Append(events[p], e)
      BY <1>1, <1>2 DEF TypeOK
    <3>6. SubSeq(lines', 1, Len(lines')) = lines' /\ Len(lines') \in Nat
      BY <3>3
    <3> QED
      BY <2>2, <3>3, <3>4, <3>5, <3>6
  <2>3. CASE q # p
    <3>1. events'[q] = events[q] /\ unresolved'[q] = unresolved[q]
      BY <1>1, <1>2, <2>1, <2>3 DEF TypeOK
    <3> QED
      BY <1>1, <2>1, <3>1, WriteKeepsMemory DEF IInv
  <2> QED
    BY <2>2, <2>3
<1>7. ReturnedInOrder'
  <2>1. SUFFICES ASSUME Accepts(lines'), NEW i \in DOMAIN returned',
                        NEW j \in DOMAIN returned', i < j
                 PROVE  returned'[i].seq < returned'[j].seq
    BY DEF ReturnedInOrder
  <2>2. /\ i \in DOMAIN returned /\ returned'[i] = returned[i]
        /\ returned[i] \in Event /\ j \in 1 .. Len(returned) + 1
    BY <1>1, <1>2, <2>1
  <2>3. CASE j = Len(returned) + 1
    <3>1. returned'[j] = e /\ e.seq = Len(lines) + 1
      BY <1>1, <1>2, <1>4, <2>1, <2>3
    <3>2. PICK k \in DOMAIN lines : lines[k] = returned[i]
      BY <1>4, <2>1, <2>2 DEF IInv, NothingLostSilently, Recorded
    <3>3. lines[k].seq = k
      BY <1>4, <2>1 DEF Accepts, LoadAccepts
    <3>4. k \in Nat /\ k <= Len(lines) /\ Len(lines) \in Nat
      BY <1>1
    <3> QED
      BY <2>2, <3>1, <3>2, <3>3, <3>4
  <2>4. CASE j \in DOMAIN returned
    BY <1>1, <1>2, <1>4, <2>1, <2>2, <2>4 DEF IInv, ReturnedInOrder
  <2> QED
    BY <1>1, <2>2, <2>3, <2>4
<1> QED
  BY <1>3, <1>5, <1>6, <1>7 DEF IInv

LEMMA AppendFailsIInv ==
  ASSUME IInv, NEW p \in Procs, NEW r \in Requests,
         AppendRaises(p, r) \/ AppendDies(p, r)
  PROVE  IInv'
<1> DEFINE e == AsEvent(events[p], r)
<1>1. /\ e \in Event /\ Written(e) /\ TypeOK /\ HasLast /\ p \in running
      /\ returned' = returned /\ running' \subseteq running
      /\ \A q \in running' : events'[q] = events[q] /\ unresolved'[q] = unresolved[q]
      /\ UNCHANGED answers
  BY EventTyped DEF IInv, AppendRaises, AppendDies, Appending, Forget, memory, answers,
                    TypeOK
<1>2. TypeOK' /\ HasLast'
  <2>1. lines' \in Seq(Line) /\ ended' \in BOOLEAN /\ HasLast'
    BY <1>1, WriteStep
  <2>2. events' \in [Procs -> Seq(Event)] /\ unresolved' \in [Procs -> SUBSET Trades]
    <3>1. CASE AppendRaises(p, r)
      BY <1>1, <3>1 DEF AppendRaises, memory, TypeOK
    <3>2. CASE AppendDies(p, r)
      <4>1. <<>> \in Seq(Event) /\ {} \subseteq Trades
        OBVIOUS
      <4> QED
        BY <1>1, <3>2, <4>1 DEF AppendDies, Forget, TypeOK
    <3> QED
      BY <3>1, <3>2
  <2> QED
    BY <1>1, <2>1, <2>2 DEF TypeOK, Line, answers
<1>3. NothingLostSilently'
  BY <1>1, WriteKeeps DEF IInv
<1>4. MemoryIsPast'
  BY <1>1, WriteKeepsMemory DEF IInv, MemoryIsPast
<1>5. ReturnedInOrder'
  BY <1>1, WriteStep DEF IInv, ReturnedInOrder
<1> QED
  BY <1>2, <1>3, <1>4, <1>5 DEF IInv

(* What append returns for a repeated key is in memory, and so, if the     *)
(* file loads, in the file.                                                *)
LEMMA AppendRepeatsIInv ==
  ASSUME IInv, NEW p \in Procs, NEW r \in Requests, AppendRepeats(p, r)
  PROVE  IInv'
<1>1. PICK i \in DOMAIN events[p] : repeated' = repeated \union {events[p][i]}
  BY DEF AppendRepeats
<1>2. /\ lines' = lines /\ ended' = ended /\ returned' = returned /\ p \in running
      /\ running' = running /\ events' = events /\ unresolved' = unresolved
  BY DEF AppendRepeats, memory
<1>3. events[p] \in Seq(Event) /\ events[p][i] \in Event
  BY <1>1 DEF IInv, TypeOK
<1>4. TypeOK' /\ HasLast' /\ MemoryIsPast' /\ ReturnedInOrder'
  BY <1>1, <1>2, <1>3 DEF IInv, TypeOK, HasLast, MemoryIsPast, ReturnedInOrder
<1>5. ASSUME Accepts(lines) PROVE Recorded(events[p][i])
  <2>1. /\ Len(events[p]) <= Len(lines)
        /\ events[p] = SubSeq(lines, 1, Len(events[p]))
    BY <1>2, <1>5 DEF IInv, MemoryIsPast
  <2>2. lines \in Seq(Line) /\ i \in 1 .. Len(events[p]) /\ Len(events[p]) \in Nat
    BY <1>1, <1>3 DEF IInv, TypeOK, Line
  <2>3. i \in DOMAIN lines /\ lines[i] = SubSeq(lines, 1, Len(events[p]))[i]
    BY <2>1, <2>2
  <2> QED
    BY <2>1, <2>3 DEF Recorded
<1>6. NothingLostSilently'
  BY <1>1, <1>2, <1>5 DEF IInv, NothingLostSilently, Recorded
<1> QED
  BY <1>4, <1>6 DEF IInv

LEMMA NextIInv == IInv /\ [Next]_vars => IInv'
<1> SUFFICES ASSUME IInv, [Next]_vars PROVE IInv'
  OBVIOUS
<1>1. ASSUME NEW p \in Procs, Load(p) PROVE IInv'
  <2>1. lines \in Seq(Event)
    BY <1>1 DEF Load, Accepts, Whole, IInv, TypeOK
  <2>2. UnresolvedOf(lines) \subseteq Trades /\ SubSeq(lines, 1, Len(lines)) = lines
    BY <2>1, UnresolvedTyped
  <2>3. TypeOK' /\ HasLast' /\ NothingLostSilently' /\ ReturnedInOrder'
    BY <1>1, <2>1, <2>2 DEF Load, answers, IInv, TypeOK, HasLast, NothingLostSilently,
                            Recorded, ReturnedInOrder
  <2>4. MemoryIsPast'
    <3>1. SUFFICES ASSUME NEW q \in running'
                   PROVE  /\ Len(events'[q]) <= Len(lines)
                          /\ events'[q] = SubSeq(lines, 1, Len(events'[q]))
                          /\ unresolved'[q] = UnresolvedOf(events'[q])
      BY <1>1 DEF Load, MemoryIsPast
    <3>2. CASE q = p
      BY <1>1, <2>1, <2>2, <3>2 DEF Load, IInv, TypeOK
    <3>3. CASE q # p
      BY <1>1, <3>1, <3>3 DEF Load, IInv, TypeOK, MemoryIsPast
    <3> QED
      BY <3>2, <3>3
  <2> QED
    BY <2>3, <2>4 DEF IInv
<1>2. ASSUME NEW p \in Procs, Stop(p) PROVE IInv'
  <2>1. TypeOK' /\ HasLast' /\ NothingLostSilently' /\ ReturnedInOrder'
    BY <1>2 DEF Stop, Forget, answers, IInv, TypeOK, HasLast, NothingLostSilently,
                Recorded, ReturnedInOrder
  <2>2. MemoryIsPast'
    BY <1>2 DEF Stop, Forget, IInv, TypeOK, MemoryIsPast
  <2> QED
    BY <2>1, <2>2 DEF IInv
<1>3. CASE UNCHANGED vars
  BY <1>3 DEF vars, memory, answers, IInv, TypeOK, HasLast, NothingLostSilently, Recorded,
              MemoryIsPast, ReturnedInOrder
<1> QED
  BY <1>1, <1>2, <1>3, AppendRepeatsIInv, AppendReturnsIInv, AppendFailsIInv DEF Next

(* Together they hold in every state of the disk and the processes.        *)
THEOREM FileInvariant == Spec => []IInv
BY InitIInv, NextIInv, PTL DEF Spec

(* The variables of the file and of its processes keep their types.        *)
THEOREM FileTypeCorrect == Spec => []TypeOK
<1>1. IInv => TypeOK
  BY DEF IInv
<1> QED
  BY <1>1, FileInvariant, PTL

(* Whatever is cut short and however writers overlap, a file that loads    *)
(* holds every event that an append returned, newly written or repeated.   *)
THEOREM NoSilentLoss == Spec => []NothingLostSilently
<1>1. IInv => NothingLostSilently
  BY DEF IInv
<1> QED
  BY <1>1, FileInvariant, PTL

(* While the file loads, every process holds a beginning of it.            *)
THEOREM MemoryNeverBeside == Spec => []MemoryIsPast
<1>1. IInv => MemoryIsPast
  BY DEF IInv
<1> QED
  BY <1>1, FileInvariant, PTL

(* A file that loads proves that one append at most wrote an intent of the *)
(* trade and returned it, and that all who were told of one were told of   *)
(* the same: two would be two records of the file, and it would not load.  *)
THEOREM LoadProvesOneIntent == Spec => []OneIntentIfItLoads
<1>1. ASSUME IInv PROVE OneIntentIfItLoads
  <2>1. SUFFICES ASSUME Accepts(lines), NEW t \in Trades
                 PROVE  /\ \A i, j \in Intents(returned, t) : i = j
                        /\ \A e, f \in IntentsTold(t) : e = f
    BY DEF OneIntentIfItLoads
  <2>2. lines \in Seq(Line) /\ LoadAccepts(lines) /\ returned \in Seq(Event)
    BY <1>1, <2>1 DEF IInv, TypeOK, Line, Accepts
  <2>3. ASSUME NEW e, NEW f, Recorded(e), Recorded(f),
               e.trade = t, e.state = "ORDER_SUBMITTED",
               f.trade = t, f.state = "ORDER_SUBMITTED"
        PROVE  e = f
    <3>1. PICK k \in DOMAIN lines : lines[k] = e
      BY <2>3 DEF Recorded
    <3>2. PICK l \in DOMAIN lines : lines[l] = f
      BY <2>3 DEF Recorded
    <3>3. ~(k < l) /\ ~(l < k)
      BY <2>2, <2>3, <3>1, <3>2, OneIntentInLoadedLog
    <3>4. k \in Nat /\ l \in Nat
      BY <2>2
    <3> QED
      BY <3>1, <3>2, <3>3, <3>4
  <2>4. \A i \in Intents(returned, t) :
          /\ i \in DOMAIN returned /\ Recorded(returned[i])
          /\ returned[i].trade = t /\ returned[i].state = "ORDER_SUBMITTED"
    BY <1>1, <2>1 DEF IInv, NothingLostSilently, Intents
  <2>5. ASSUME NEW i \in Intents(returned, t), NEW j \in Intents(returned, t), i < j
        PROVE  FALSE
    <3>1. returned[i] = returned[j] /\ returned[i].seq < returned[j].seq
      BY <1>1, <2>1, <2>3, <2>4, <2>5 DEF IInv, ReturnedInOrder
    <3>2. returned[i] \in Event
      BY <2>2, <2>4
    <3>3. returned[i].seq \in Nat
      BY <3>2 DEF Event
    <3> QED
      BY <3>1, <3>3
  <2>6. \A i, j \in Intents(returned, t) : i = j
    <3>1. Intents(returned, t) \subseteq Nat
      BY <2>2, <2>4
    <3> QED
      BY <2>5, <3>1
  <2>7. ASSUME NEW e \in IntentsTold(t)
        PROVE  Recorded(e) /\ e.trade = t /\ e.state = "ORDER_SUBMITTED"
    <3>1. \/ e \in repeated
          \/ \E i \in Intents(returned, t) : e = returned[i]
      BY <2>7 DEF IntentsTold
    <3>2. e.trade = t /\ e.state = "ORDER_SUBMITTED"
      BY <2>7 DEF IntentsTold
    <3>3. CASE e \in repeated
      BY <1>1, <2>1, <3>2, <3>3 DEF IInv, NothingLostSilently
    <3>4. CASE \E i \in Intents(returned, t) : e = returned[i]
      BY <2>4, <3>2, <3>4
    <3> QED
      BY <3>1, <3>3, <3>4
  <2> QED
    BY <2>3, <2>6, <2>7
<1> QED
  BY <1>1, FileInvariant, PTL

(* A broken ledger stays broken: nothing written later can hide a gap.     *)
THEOREM RefusedForEver == Spec => RefusalIsFinal
<1>1. IInv /\ [Next]_vars => [~Accepts(lines) => ~Accepts(lines)']_vars
  <2> SUFFICES ASSUME IInv, Next, Accepts(lines') PROVE Accepts(lines)
    OBVIOUS
  <2>1. ASSUME NEW p \in Procs, NEW r \in Requests,
               AppendReturns(p, r) \/ AppendRaises(p, r) \/ AppendDies(p, r)
        PROVE  Accepts(lines)
    <3>1. AsEvent(events[p], r) \in Event /\ Written(AsEvent(events[p], r))
      BY <2>1, EventTyped DEF IInv, AppendReturns, AppendRaises, AppendDies, Written
    <3> QED
      BY <3>1, WriteStep DEF IInv
  <2>2. ASSUME NEW p \in Procs, NEW r \in Requests,
               Load(p) \/ Stop(p) \/ AppendRepeats(p, r)
        PROVE  Accepts(lines)
    BY <2>2 DEF Load, Stop, AppendRepeats
  <2>3. ASSUME NEW p \in Procs, Load(p) \/ Stop(p) PROVE Accepts(lines)
    BY <2>3 DEF Load, Stop
  <2> QED
    BY <2>1, <2>2, <2>3 DEF Next
<1> QED
  BY <1>1, FileInvariant, PTL DEF Spec, RefusalIsFinal
===============================================================================
