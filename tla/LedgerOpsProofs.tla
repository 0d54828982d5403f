--------------------------- MODULE LedgerOpsProofs ---------------------------
(***************************************************************************)
(* Facts about the functions of an event log, for every log: what one      *)
(* append does to the state of a trade, to the set of unresolved trades    *)
(* and to the checks of a load.  The components that keep a log cite them. *)
(***************************************************************************)
EXTENDS LedgerOps, TLAPS, SequenceTheorems, FiniteSetTheorems

(* A non-empty set of positions has a last one.                            *)
LEMMA MaxExists ==
  ASSUME NEW n \in Nat, NEW I \in SUBSET (1 .. n), I # {}
  PROVE  \E i \in I : \A j \in I : j <= i
<1> DEFINE Above(i) == (i + 1) .. n
           R == StrictSubsetOrdering(1 .. n)
           T == { Above(i) : i \in I }
<1>1. IsWellFoundedOn(R, FiniteSubsetsOf(1 .. n))
  BY FS_StrictSubsetOrderingWellFounded
<1>2. \A i \in I : Above(i) \in SUBSET (1 .. n)
  OBVIOUS
<1>3. \A i \in I : IsFiniteSet(Above(i))
  <2> TAKE i \in I
  <2>1. IsFiniteSet(1 .. n)
    BY FS_Interval
  <2> QED
    BY <2>1, <1>2, FS_Subset
<1>4. T \subseteq FiniteSubsetsOf(1 .. n) /\ T # {}
  BY <1>2, <1>3 DEF FiniteSubsetsOf
<1>5. PICK A \in T : \A B \in T : ~ (<<B, A>> \in R)
  <2> HIDE DEF T, R
  <2> QED
    BY <1>1, <1>4, WFMin
<1>6. PICK i \in I : A = Above(i)
  BY <1>5
<1>7. ASSUME NEW j \in I, ~ (j <= i)
      PROVE  FALSE
  <2>1. Above(j) \subseteq Above(i) /\ Above(j) # Above(i)
    BY <1>7
  <2>2. <<Above(j), Above(i)>> \in R
    BY <2>1, <1>2 DEF StrictSubsetOrdering
  <2> QED
    BY <2>2, <1>5, <1>6
<1> QED
  BY <1>7

(* LastStateful returns the last event of t that carries a state.          *)
LEMMA LastStatefulIsLast ==
  ASSUME NEW S, NEW log \in Seq(S), NEW t, StatefulOf(log, t) # {}
  PROVE  /\ LastStateful(log, t) \in StatefulOf(log, t)
         /\ \A j \in StatefulOf(log, t) : j <= LastStateful(log, t)
<1>1. Len(log) \in Nat /\ StatefulOf(log, t) \in SUBSET (1 .. Len(log))
  BY DEF StatefulOf
<1>2. \E i \in StatefulOf(log, t) : \A j \in StatefulOf(log, t) : j <= i
  BY <1>1, MaxExists
<1> QED
  BY <1>2 DEF LastStateful

(* One append moves the state of the event's own trade, and only when the  *)
(* event carries a state.                                                  *)
LEMMA StateOfAppend ==
  ASSUME NEW S, NEW log \in Seq(S), NEW e \in S, NEW t
  PROVE  StateOf(Append(log, e), t) =
           IF e.trade = t /\ e.state # NoState THEN e.state ELSE StateOf(log, t)
<1> DEFINE log2 == Append(log, e)
           n == Len(log) + 1
<1>1. /\ log2 \in Seq(S) /\ Len(log2) = n /\ n \in Nat /\ Len(log) \in Nat
      /\ DOMAIN log2 = 1 .. n /\ DOMAIN log = 1 .. Len(log)
      /\ log2[n] = e /\ \A i \in DOMAIN log : log2[i] = log[i]
  OBVIOUS
<1>2. CASE e.trade = t /\ e.state # NoState
  <2>1. n \in StatefulOf(log2, t) /\ \A j \in StatefulOf(log2, t) : j <= n
    BY <1>1, <1>2 DEF StatefulOf
  <2>2. LastStateful(log2, t) \in StatefulOf(log2, t)
        /\ \A j \in StatefulOf(log2, t) : j <= LastStateful(log2, t)
    BY <1>1, <2>1, LastStatefulIsLast
  <2>3. LastStateful(log2, t) = n
    <3>1. StatefulOf(log2, t) \subseteq Nat
      BY <1>1 DEF StatefulOf
    <3> QED
      BY <2>1, <2>2, <3>1, <1>1
  <2> QED
    BY <1>1, <1>2, <2>1, <2>3 DEF StateOf
<1>3. CASE ~ (e.trade = t /\ e.state # NoState)
  <2>1. StatefulOf(log2, t) = StatefulOf(log, t)
    BY <1>1, <1>3 DEF StatefulOf
  <2>2. LastStateful(log2, t) = LastStateful(log, t)
    BY <2>1 DEF LastStateful
  <2>3. CASE StatefulOf(log, t) = {}
    BY <1>3, <2>1, <2>3 DEF StateOf
  <2>4. CASE StatefulOf(log, t) # {}
    <3>1. LastStateful(log, t) \in DOMAIN log
      BY <2>4, LastStatefulIsLast DEF StatefulOf
    <3> QED
      BY <1>1, <1>3, <2>1, <2>2, <2>4, <3>1 DEF StateOf
  <2> QED
    BY <2>3, <2>4
<1> QED
  BY <1>2, <1>3

(* The rebuild of a load and the update of an append agree: rebuilding the *)
(* longer file is updating the set rebuilt from the shorter one.           *)
LEMMA UnresolvedOfAppend ==
  ASSUME NEW S, NEW log \in Seq(S), NEW e \in S
  PROVE  UnresolvedOf(Append(log, e)) = UnresolvedAfter(UnresolvedOf(log), e)
<1> DEFINE log2 == Append(log, e)
           n == Len(log) + 1
           Open(l, i) == /\ Raises(l[i])
                         /\ \A j \in DOMAIN l :
                              j > i /\ l[j].trade = l[i].trade => ~Clears(l[j])
<1>1. /\ n \in Nat /\ Len(log) \in Nat
      /\ DOMAIN log2 = DOMAIN log \union {n} /\ n \notin DOMAIN log
      /\ \A i \in DOMAIN log : i \in Nat /\ i < n
      /\ log2[n] = e /\ \A i \in DOMAIN log : log2[i] = log[i]
  OBVIOUS
<1>2. \A t : t \in UnresolvedOf(log2) <=>
               \E i \in DOMAIN log2 : Open(log2, i) /\ log2[i].trade = t
  BY DEF UnresolvedOf
<1>3. \A t : t \in UnresolvedOf(log) <=>
               \E i \in DOMAIN log : Open(log, i) /\ log[i].trade = t
  BY DEF UnresolvedOf
<1>4. \A i \in DOMAIN log :
        Open(log2, i) <=> Open(log, i) /\ (e.trade = log[i].trade => ~Clears(e))
  BY <1>1
<1>5. Open(log2, n) <=> Raises(e)
  BY <1>1
<1>6. \A t : t \in UnresolvedOf(log2) <=>
               \/ Raises(e) /\ e.trade = t
               \/ t \in UnresolvedOf(log) /\ (e.trade = t => ~Clears(e))
  <2> HIDE DEF Open
  <2> QED
    BY <1>1, <1>2, <1>3, <1>4, <1>5
<1> QED
  BY <1>6 DEF UnresolvedAfter, Clears

(* A record that append writes is a record that a load accepts.            *)
LEMMA LoadAcceptsAppend ==
  ASSUME NEW S, NEW log \in Seq(S), LoadAccepts(log),
         NEW r, CanAppend(log, r), AsEvent(log, r) \in S
  PROVE  LoadAccepts(Append(log, AsEvent(log, r)))
<1> DEFINE e == AsEvent(log, r)
           log2 == Append(log, e)
           n == Len(log) + 1
<1>1. /\ n \in Nat /\ Len(log) \in Nat /\ log2 \in Seq(S)
      /\ DOMAIN log2 = 1 .. n /\ DOMAIN log = 1 .. Len(log)
      /\ log2[n] = e /\ \A i \in DOMAIN log : log2[i] = log[i]
  OBVIOUS
<1>2. \A i \in DOMAIN log : SubSeq(log2, 1, i - 1) = SubSeq(log, 1, i - 1)
  BY <1>1
<1>3. SubSeq(log2, 1, n - 1) = log
  BY <1>1
<1>4. /\ e.seq = n /\ e.prev = LastKey(log) /\ e.key = r.key /\ e.id = r.id
      /\ e.trade = r.trade /\ e.state = r.state
  BY DEF AsEvent
<1>5. ASSUME NEW i \in DOMAIN log2
      PROVE  /\ log2[i].seq = i
             /\ log2[i].prev = LastKey(SubSeq(log2, 1, i - 1))
             /\ Moves(StateOf(SubSeq(log2, 1, i - 1), log2[i].trade), log2[i].state)
  <2>1. CASE i \in DOMAIN log
    BY <2>1, <1>1, <1>2 DEF LoadAccepts
  <2>2. CASE i = n
    BY <2>2, <1>1, <1>3, <1>4 DEF CanAppend
  <2> QED
    BY <2>1, <2>2, <1>1
<1>6. \A i \in DOMAIN log : log[i].key # e.key /\ log[i].id # e.id
  BY <1>4 DEF CanAppend, HasKey, IdReused
<1>7. ASSUME NEW i \in DOMAIN log2, NEW j \in DOMAIN log2, i # j
      PROVE  log2[i].key # log2[j].key /\ log2[i].id # log2[j].id
  <2>1. CASE i \in DOMAIN log /\ j \in DOMAIN log
    BY <2>1, <1>1, <1>7 DEF LoadAccepts
  <2>2. CASE i = n /\ j \in DOMAIN log
    BY <2>2, <1>1, <1>6
  <2>3. CASE i \in DOMAIN log /\ j = n
    BY <2>3, <1>1, <1>6
  <2> QED
    BY <2>1, <2>2, <2>3, <1>1, <1>7
<1> QED
  BY <1>5, <1>7 DEF LoadAccepts

(* The states a trade can be in after it was submitted.                    *)
AfterSubmission ==
  {"ACCEPTED", "REJECTED", "FILLED", "OPEN", "MANAGED", "CLOSED", "RECONCILED"}

(* And a first one.                                                        *)
LEMMA MinExists ==
  ASSUME NEW n \in Nat, NEW I \in SUBSET (1 .. n), I # {}
  PROVE  \E i \in I : \A j \in I : i <= j
<1> DEFINE Mirror(i) == n + 1 - i
           J == { Mirror(i) : i \in I }
<1>1. J \in SUBSET (1 .. n) /\ J # {}
  <2>1. \A i \in I : Mirror(i) \in 1 .. n
    OBVIOUS
  <2> HIDE DEF Mirror
  <2> QED
    BY <2>1
<1>2. PICK k \in J : \A j \in J : j <= k
  <2> HIDE DEF J
  <2> QED
    BY <1>1, MaxExists
<1>3. PICK i \in I : k = Mirror(i)
  BY <1>2
<1>4. ASSUME NEW j \in I PROVE i <= j
  <2>1. Mirror(j) <= Mirror(i) /\ i \in Nat /\ j \in Nat
    BY <1>2, <1>3
  <2> QED
    BY <2>1
<1> QED
  BY <1>4

(* A file that a load accepts (_load_and_verify) has at most one durable   *)
(* intent of a trade: each record's transition is checked against the last *)
(* state before it, and no legal move leads back to ORDER_SUBMITTED.       *)
THEOREM OneIntentInLoadedLog ==
  ASSUME NEW S, NEW log \in Seq(S), LoadAccepts(log),
         NEW k \in DOMAIN log, NEW l \in DOMAIN log, k < l,
         log[k].trade = log[l].trade, log[k].state = "ORDER_SUBMITTED"
  PROVE  log[l].state # "ORDER_SUBMITTED"
<1> DEFINE t == log[k].trade
           Back == { j \in DOMAIN log : /\ k < j /\ log[j].trade = t
                                        /\ log[j].state # NoState
                                        /\ log[j].state \notin AfterSubmission }
<1> SUFFICES ASSUME log[l].state = "ORDER_SUBMITTED" PROVE FALSE
  OBVIOUS
<1>1. Len(log) \in Nat /\ DOMAIN log = 1 .. Len(log)
  OBVIOUS
<1>2. Back \in SUBSET (1 .. Len(log)) /\ l \in Back
  BY <1>1 DEF AfterSubmission, NoState
<1>3. PICK j \in Back : \A i \in Back : j <= i
  <2> HIDE DEF Back
  <2> QED
    BY <1>1, <1>2, MinExists
<1> DEFINE before == SubSeq(log, 1, j - 1)
           m == LastStateful(before, t)
<1>4. /\ j \in Nat /\ k \in Nat /\ before \in Seq(S) /\ DOMAIN before = 1 .. (j - 1)
      /\ \A i \in DOMAIN before : before[i] = log[i] /\ i \in DOMAIN log /\ i < j
  BY <1>1, <1>3
<1>5. k \in StatefulOf(before, t)
  BY <1>1, <1>3, <1>4 DEF StatefulOf, NoState
<1>6. m \in StatefulOf(before, t) /\ k <= m
  <2> HIDE DEF before
  <2> QED
    BY <1>4, <1>5, LastStatefulIsLast
<1>7. StateOf(before, t) = log[m].state /\ log[m].state # NoState
      /\ m \in DOMAIN log /\ log[m].trade = t /\ m < j
  <2>1. StateOf(before, t) = before[m].state /\ m \in DOMAIN before
        /\ before[m].trade = t /\ before[m].state # NoState
    BY <1>5, <1>6 DEF StateOf, StatefulOf
  <2> QED
    BY <2>1, <1>4
<1>8. log[m].state \in AfterSubmission \union {"ORDER_SUBMITTED"}
  <2>1. CASE m = k
    BY <2>1
  <2>2. CASE k < m
    BY <2>2, <1>1, <1>3, <1>4, <1>7
  <2> QED
    BY <2>1, <2>2, <1>1, <1>6, <1>7
<1>9. Moves(log[m].state, log[j].state)
  BY <1>3, <1>7 DEF LoadAccepts
<1>10. log[j].state # NoState /\ log[j].state \notin AfterSubmission
  BY <1>3
<1> QED
  BY <1>8, <1>9, <1>10 DEF Moves, ALLOWED_TRANSITIONS, AfterSubmission, NoState
==============================================================================
