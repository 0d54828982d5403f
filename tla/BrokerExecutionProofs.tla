------------------------- MODULE BrokerExecutionProofs -------------------------
(***************************************************************************)
(* The safety of the execution path for every set of trades and every      *)
(* order volume.                                                           *)
(*                                                                         *)
(* The properties are not inductive alone: that a verdict is sound rests   *)
(* on what the call in progress may still journal (CallInv), on how the    *)
(* broker's order state and its executed volume go together (BrokerInv),   *)
(* and on a rejection, sound or not, blocking new risk (RejectedBlocks).   *)
(***************************************************************************)
EXTENDS BrokerExecution, TLAPS

(* An event that the journal takes keeps the types and moves its own trade *)
(* only.                                                                   *)
LEMMA JournalTypes ==
  ASSUME JournalTypeOK, NEW t \in Trades, NEW s \in STATES \union {NoState},
         NEW ty, Journal(Ev(t, s, ty))
  PROVE  /\ JournalTypeOK'
         /\ Moves(status[t], s)
         /\ \A u \in Trades : u # t => status'[u] = status[u]
         /\ status'[t] = IF s = NoState THEN status[t] ELSE s
         /\ blocked \ {t} \subseteq blocked'
         /\ s = "REJECTED" => t \in blocked'
         /\ s # "RECONCILED" => blocked \subseteq blocked'
<1>1. /\ status \in [Trades -> STATES \union {NoState}] /\ blocked \subseteq Trades
  BY DEF JournalTypeOK
<1>2. /\ Moves(status[t], s)
      /\ status' = IF s = NoState THEN status ELSE [status EXCEPT ![t] = s]
      /\ blocked' \subseteq blocked \union {t} /\ blocked \ {t} \subseteq blocked'
      /\ s = "REJECTED" => t \in blocked'
      /\ s # "RECONCILED" => blocked \subseteq blocked'
  BY DEF Journal, Ev, UnresolvedAfter, Raises, Clears
<1> QED
  BY <1>1, <1>2 DEF JournalTypeOK

(* A journalled event is a lifecycle step, or none at all.                 *)
LEMMA JournalIsLifecycle ==
  ASSUME JournalTypeOK, NEW t \in Trades, NEW s \in STATES \union {NoState},
         NEW ty, Journal(Ev(t, s, ty))
  PROVE  [Lifecycle!Next]_<<status, blocked>>
<1> DEFINE e == Ev(t, s, ty)
<1>1. /\ Moves(status[t], s) /\ e.trade = t /\ e.state = s
      /\ status' = IF s = NoState THEN status ELSE [status EXCEPT ![t] = s]
      /\ blocked' = UnresolvedAfter(blocked, e)
  BY DEF Journal, Ev
<1>2. CASE s = NoState
  BY <1>1, <1>2 DEF UnresolvedAfter, Raises, Clears, NoState,
                    Lifecycle!Next, Lifecycle!Doubt
<1>3. CASE s # NoState
  <2>1. \/ blocked' = blocked \union {t}
        \/ s = "RECONCILED" /\ blocked' = blocked \ {t}
        \/ s \notin {"REJECTED", "RECONCILED"} /\ blocked' = blocked
    BY <1>1 DEF UnresolvedAfter, Raises, Clears
  <2>2. Lifecycle!Moves(status[t], s)
    BY <1>1 DEF Moves, Lifecycle!Moves, ALLOWED_TRANSITIONS,
                Lifecycle!ALLOWED_TRANSITIONS, NoState, Lifecycle!NoState
  <2>3. Lifecycle!Advance(t, s)
    BY <1>1, <1>3, <2>1, <2>2 DEF Lifecycle!Advance, NoState, Lifecycle!NoState
  <2>4. s \in Lifecycle!STATES
    BY <1>3 DEF STATES, Lifecycle!STATES
  <2> QED
    BY <2>3, <2>4 DEF Lifecycle!Next
<1> QED
  BY <1>2, <1>3

(* What the call in progress knows about its trade.                        *)
CallInv ==
  /\ call # Idle => status[call.trade] = "ORDER_SUBMITTED"
  /\ call.step = "intended" => sends[call.trade] = 0 /\ blocked = {}
  /\ call.step \in {"answered", "observed"} /\ call.answer = "ACCEPTED"
       => Executed(call.trade)
  /\ call.step = "observed" /\ call.answer = "REJECTED"
       => Unexecuted(call.trade)

BrokerInv ==
  \A t \in Trades :
    /\ order[t] = "filled" <=> filled[t] = Volume
    /\ order[t] \in {"none", "transit", "rejected"} => filled[t] = 0
    /\ sends[t] = 0 => order[t] = "none"

AcceptedIsExecuted ==
  \A t \in Trades :
    status[t] \in {"ACCEPTED", "FILLED", "OPEN", "MANAGED", "CLOSED"} => Executed(t)

RejectedBlocks == \A t \in Trades : status[t] = "REJECTED" => t \in blocked

IInv == /\ TypeOK
        /\ CallInv
        /\ BrokerInv
        /\ SendOnce
        /\ IntentBeforeSend
        /\ AcceptedIsExecuted
        /\ RejectedBlocks

LEMMA InitIInv == Init => IInv
BY VolumeAssumption
   DEF Init, IInv, TypeOK, JournalTypeOK, CallInv, BrokerInv, SendOnce, IntentBeforeSend,
       AcceptedIsExecuted, RejectedBlocks, Submitted, Idle, Calls, OrderStates, STATES, NoState

(* The shape of a call that is not idle.                                   *)
LEMMA CallShape ==
  ASSUME TypeOK, call # Idle
  PROVE  /\ call.trade \in Trades
         /\ call.step \in {"intended", "sending", "answered", "observed"}
         /\ call.step = "answered" => call.answer \in Answers
         /\ call.step = "observed" => call.answer \in Verdicts
BY DEF TypeOK, JournalTypeOK, Calls

(* A journalled event that ends a call or happens between calls keeps the  *)
(* invariant when its verdict is true.                                     *)
LEMMA JournalKeepsIInv ==
  ASSUME IInv, NEW t \in Trades, NEW s \in STATES \union {NoState}, NEW ty,
         Journal(Ev(t, s, ty)), Submitted(t),
         s # NoState => s \notin {"PROPOSED", "VALIDATED", "RISK_RESERVED", "AUTHORIZED"},
         s \in {"ACCEPTED", "FILLED", "OPEN", "MANAGED", "CLOSED"} => Executed(t),
         call' = Idle, UNCHANGED <<order, filled, sends>>
  PROVE  IInv'
<1>1. /\ TypeOK' /\ \A u \in Trades : u # t => status'[u] = status[u]
      /\ status'[t] = IF s = NoState THEN status[t] ELSE s
      /\ blocked \ {t} \subseteq blocked'
      /\ s = "REJECTED" => t \in blocked'
      /\ s # "RECONCILED" => blocked \subseteq blocked'
  BY JournalTypes DEF IInv, TypeOK, JournalTypeOK, Calls
<1>2. CallInv'
  BY DEF CallInv, Idle
<1>3. BrokerInv' /\ SendOnce'
  BY DEF IInv, BrokerInv, SendOnce
<1>4. Submitted(t)' /\ \A u \in Trades : u # t => (Submitted(u)' <=> Submitted(u))
  BY <1>1 DEF Submitted
<1>5. IntentBeforeSend'
  BY <1>4 DEF IInv, IntentBeforeSend
<1>6. AcceptedIsExecuted' /\ RejectedBlocks'
  BY <1>1 DEF IInv, AcceptedIsExecuted, RejectedBlocks, Executed, Unexecuted, NoState
<1> QED
  BY <1>1, <1>2, <1>3, <1>5, <1>6 DEF IInv

LEMMA AdapterKeepsIInv ==
  ASSUME IInv, NEW t \in Trades, Adapter(t)
  PROVE  IInv'
<1>1. CASE Intend(t)
  <2>1. status[t] = "AUTHORIZED" /\ ~Submitted(t)
    BY <1>1 DEF Intend, Submittable, RiskAllowed, Submitted
  <2>2. status' = [status EXCEPT ![t] = "ORDER_SUBMITTED"]
    BY <1>1, <2>1 DEF Intend
  <2>3. sends[t] = 0 /\ blocked' = {}
    BY <1>1, <2>1 DEF Intend, Submittable, RiskAllowed, IInv, IntentBeforeSend, TypeOK, JournalTypeOK
  <2>4. TypeOK'
    BY <1>1, <2>2 DEF Intend, IInv, TypeOK, JournalTypeOK, Calls, STATES
  <2>5. CallInv'
    BY <1>1, <2>2, <2>3 DEF Intend, IInv, TypeOK, JournalTypeOK, CallInv
  <2>6. BrokerInv' /\ SendOnce'
    BY <1>1 DEF Intend, IInv, BrokerInv, SendOnce
  <2>7. IntentBeforeSend' /\ AcceptedIsExecuted' /\ RejectedBlocks'
    BY <1>1, <2>2
       DEF Intend, IInv, TypeOK, JournalTypeOK, IntentBeforeSend, AcceptedIsExecuted, RejectedBlocks, Submitted,
           Executed, Unexecuted, NoState
  <2> QED
    BY <2>4, <2>5, <2>6, <2>7 DEF IInv
<1>2. CASE GatewayRefuses(t)
  <2>1. PICK a \in {"RAISED", "REJECTED"} :
          call' = [step |-> "answered", trade |-> t, answer |-> a]
    BY <1>2 DEF GatewayRefuses
  <2>2. status[t] = "ORDER_SUBMITTED"
    BY <1>2 DEF GatewayRefuses, IInv, CallInv, Idle
  <2>3. TypeOK'
    BY <1>2, <2>1 DEF GatewayRefuses, IInv, TypeOK, JournalTypeOK, Calls, Answers
  <2>4. CallInv'
    BY <1>2, <2>1, <2>2 DEF GatewayRefuses, CallInv, Unexecuted
  <2> QED
    BY <1>2, <2>3, <2>4
       DEF GatewayRefuses, IInv, BrokerInv, SendOnce, IntentBeforeSend,
           AcceptedIsExecuted, RejectedBlocks, Executed, Unexecuted, Submitted
<1>3. CASE Send(t)
  <2>1. status[t] = "ORDER_SUBMITTED" /\ sends[t] = 0 /\ filled[t] = 0 /\ order[t] = "none"
    BY <1>3 DEF Send, IInv, CallInv, BrokerInv, Idle
  <2>2. /\ call' = [step |-> "sending", trade |-> t]
        /\ order' = [order EXCEPT ![t] = "transit"]
        /\ sends' = [sends EXCEPT ![t] = 1]
        /\ UNCHANGED <<status, blocked, filled>>
    BY <1>3, <2>1 DEF Send
  <2>3. TypeOK' /\ CallInv'
    BY <2>1, <2>2 DEF IInv, TypeOK, JournalTypeOK, Calls, OrderStates, CallInv
  <2>4. BrokerInv' /\ SendOnce'
    BY <2>1, <2>2, VolumeAssumption DEF IInv, TypeOK, JournalTypeOK, BrokerInv, SendOnce
  <2>5. IntentBeforeSend'
    BY <2>1, <2>2 DEF IInv, TypeOK, JournalTypeOK, IntentBeforeSend, Submitted, NoState
  <2>6. AcceptedIsExecuted' /\ RejectedBlocks'
    BY <2>1, <2>2 DEF IInv, TypeOK, JournalTypeOK, AcceptedIsExecuted, RejectedBlocks, Executed, Unexecuted
  <2> QED
    BY <2>3, <2>4, <2>5, <2>6 DEF IInv
<1>4. CASE Return(t)
  <2>1. PICK a \in GatewayAnswers(t) :
          call' = [step |-> "answered", trade |-> t, answer |-> a]
    BY <1>4 DEF Return
  <2>2. /\ a \in Answers
        /\ a = "ACCEPTED" => Executed(t)
    BY <2>1 DEF GatewayAnswers, Answers, Executed, Unexecuted, IInv, BrokerInv
  <2>3. status[t] = "ORDER_SUBMITTED"
    BY <1>4 DEF Return, IInv, CallInv, Idle
  <2>4. TypeOK'
    BY <1>4, <2>1, <2>2 DEF Return, IInv, TypeOK, JournalTypeOK, Calls
  <2>5. CallInv'
    BY <1>4, <2>1, <2>2, <2>3 DEF Return, CallInv, Executed, Unexecuted
  <2> QED
    BY <1>4, <2>4, <2>5
       DEF Return, IInv, BrokerInv, SendOnce, IntentBeforeSend,
           AcceptedIsExecuted, RejectedBlocks, Executed, Unexecuted, Submitted
<1>5. CASE Conclude(t)
  <2>1. /\ call # Idle /\ call.answer \in Answers /\ call.answer # "INVALID"
        /\ status[t] = "ORDER_SUBMITTED"
        /\ call.answer = "ACCEPTED" => Executed(t)
    BY <1>5, CallShape DEF Conclude, IInv, CallInv, Idle
  <2>2. PICK s \in {"ACCEPTED", "REJECTED", NoState} :
          /\ \E ty : Journal(Ev(t, s, ty))
          /\ s = "ACCEPTED" => Executed(t)
    BY <1>5, <2>1 DEF Conclude, OutcomeEvent, Answers, NoState
  <2>3. s \in STATES \union {NoState} /\ Submitted(t)
    BY <2>1, <2>2 DEF STATES, Submitted, NoState
  <2> QED
    BY <1>5, <2>2, <2>3, JournalKeepsIInv DEF Conclude, NoState
<1>6. CASE ConcludeUnjournalled(t)
  BY <1>6 DEF ConcludeUnjournalled, IInv, TypeOK, JournalTypeOK, Calls, CallInv, Idle, BrokerInv,
              SendOnce, IntentBeforeSend, AcceptedIsExecuted, RejectedBlocks, Executed, Unexecuted, Submitted
<1> QED
  BY <1>1, <1>2, <1>3, <1>4, <1>5, <1>6 DEF Adapter

LEMMA BrokerKeepsIInv ==
  ASSUME IInv, NEW t \in Trades, Broker(t)
  PROVE  IInv'
<1>1. /\ UNCHANGED <<status, blocked, call, sends>>
      /\ order[t] \in {"transit", "live"}
      /\ \E o \in OrderStates : order' = [order EXCEPT ![t] = o]
      /\ \E n \in 0 .. Volume : filled' = [filled EXCEPT ![t] = n]
  <2>0. filled[t] \in 0 .. Volume /\ filled = [filled EXCEPT ![t] = filled[t]]
    BY DEF IInv, TypeOK, JournalTypeOK
  <2>1. CASE Arrive(t)
    <3>1. \E o \in OrderStates : order' = [order EXCEPT ![t] = o]
      BY <2>1 DEF Arrive, OrderStates
    <3> QED
      BY <2>0, <2>1, <3>1 DEF Arrive
  <2>2. CASE Cancel(t)
    BY <2>0, <2>2 DEF Cancel, OrderStates
  <2>3. CASE Fill(t)
    <3>1. filled[t] \in 0 .. Volume /\ filled[t] # Volume
      BY <2>3 DEF Fill, IInv, TypeOK, JournalTypeOK, BrokerInv
    <3>2. filled[t] + 1 \in 0 .. Volume
      BY <3>1, VolumeAssumption
    <3>3. \E o \in OrderStates : order' = [order EXCEPT ![t] = o]
      BY <2>3 DEF Fill, OrderStates
    <3> QED
      BY <2>3, <3>2, <3>3 DEF Fill
  <2> QED
    BY <2>1, <2>2, <2>3 DEF Broker
<1>2. BrokerInv'
  <2>1. CASE Arrive(t)
    BY <2>1, VolumeAssumption DEF Arrive, IInv, TypeOK, JournalTypeOK, BrokerInv
  <2>2. CASE Cancel(t)
    BY <2>2 DEF Cancel, IInv, TypeOK, JournalTypeOK, BrokerInv
  <2>3. CASE Fill(t)
    <3>1. filled[t] \in 0 .. Volume /\ sends[t] # 0
      BY <2>3 DEF Fill, IInv, TypeOK, JournalTypeOK, BrokerInv
    <3>2. filled'[t] = filled[t] + 1
          /\ order'[t] = IF filled[t] + 1 = Volume THEN "filled" ELSE "live"
      BY <2>3 DEF Fill, IInv, TypeOK, JournalTypeOK
    <3>3. \A u \in Trades : u # t => filled'[u] = filled[u] /\ order'[u] = order[u]
      BY <2>3 DEF Fill, IInv, TypeOK, JournalTypeOK
    <3> QED
      BY <1>1, <3>1, <3>2, <3>3 DEF IInv, BrokerInv
  <2> QED
    BY <2>1, <2>2, <2>3 DEF Broker
<1>3. \A u \in Trades : (Executed(u) => Executed(u)') /\ (Unexecuted(u) => Unexecuted(u)')
  <2>1. ~Executed(t) /\ ~Unexecuted(t)
    BY <1>1 DEF Executed, Unexecuted
  <2>2. \A u \in Trades : u # t => filled'[u] = filled[u] /\ order'[u] = order[u]
    BY <1>1 DEF IInv, TypeOK, JournalTypeOK
  <2> QED
    BY <2>1, <2>2 DEF Executed, Unexecuted
<1>4. TypeOK'
  BY <1>1 DEF IInv, TypeOK, JournalTypeOK
<1>5. CallInv'
  <2>1. call # Idle => call.trade \in Trades
    BY CallShape DEF IInv
  <2>2. call.step \in {"answered", "observed"} => call # Idle
    BY DEF Idle
  <2> QED
    BY <1>1, <1>3, <2>1, <2>2 DEF IInv, CallInv
<1>6. SendOnce' /\ AcceptedIsExecuted' /\ RejectedBlocks'
  BY <1>1, <1>3 DEF IInv, SendOnce, AcceptedIsExecuted, RejectedBlocks
<1>7. IntentBeforeSend'
  BY <1>1 DEF IInv, TypeOK, JournalTypeOK, IntentBeforeSend, Submitted
<1> QED
  BY <1>2, <1>4, <1>5, <1>6, <1>7 DEF IInv

LEMMA OtherKeepsIInv ==
  ASSUME IInv, NEW t \in Trades,
         \/ Observe(t) \/ Resolve(t) \/ Reconcile(t)
         \/ \E s \in STATES : Trace(t, s)
  PROVE  IInv'
<1>1. CASE Observe(t)
  <2>1. Observation(t) \in Verdicts
    BY DEF Observation, Verdicts
  <2>2. /\ Observation(t) = "ACCEPTED" => Executed(t)
        /\ Observation(t) = "REJECTED" => Unexecuted(t)
    BY VolumeAssumption
       DEF Observation, Final, IInv, TypeOK, JournalTypeOK, BrokerInv, Executed, Unexecuted
  <2>3. TypeOK'
    BY <1>1, <2>1 DEF Observe, IInv, TypeOK, JournalTypeOK, Calls
  <2>4. CallInv'
    BY <1>1, <2>2 DEF Observe, CallInv, Executed, Unexecuted
  <2> QED
    BY <1>1, <2>3, <2>4
       DEF Observe, IInv, BrokerInv, SendOnce, IntentBeforeSend,
           AcceptedIsExecuted, RejectedBlocks, Executed, Unexecuted, Submitted
<1>2. CASE Resolve(t)
  <2>1. /\ call # Idle /\ call.answer \in Verdicts
        /\ status[t] = "ORDER_SUBMITTED"
        /\ call.answer = "ACCEPTED" => Executed(t)
    BY <1>2, CallShape DEF Resolve, IInv, CallInv, Idle
  <2>2. PICK s \in {"ACCEPTED", "REJECTED", NoState} :
          /\ \E ty : Journal(Ev(t, s, ty))
          /\ s = "ACCEPTED" => Executed(t)
    BY <1>2, <2>1 DEF Resolve, ResolutionEvent, Verdicts, NoState
  <2>3. s \in STATES \union {NoState} /\ Submitted(t)
    BY <2>1, <2>2 DEF STATES, Submitted, NoState
  <2> QED
    BY <1>2, <2>2, <2>3, JournalKeepsIInv DEF Resolve, NoState
<1>3. CASE Reconcile(t)
  <2>1. PICK s \in {"RECONCILED", NoState} : \E ty : Journal(Ev(t, s, ty))
    BY <1>3 DEF Reconcile
  <2>2. s \in STATES \union {NoState} /\ Submitted(t)
    BY <1>3, <2>1 DEF Reconcile, STATES, Submitted, NoState
  <2>3. call' = Idle /\ UNCHANGED <<order, filled, sends>>
    BY <1>3 DEF Reconcile
  <2> QED
    BY <2>1, <2>2, <2>3, JournalKeepsIInv DEF NoState
<1>4. ASSUME NEW s \in STATES, Trace(t, s) PROVE IInv'
  <2>1. Journal(Ev(t, s, s)) /\ s \in {"FILLED", "OPEN", "MANAGED", "CLOSED"}
    BY <1>4 DEF Trace
  <2>2. Moves(status[t], s)
    BY <2>1, JournalTypes DEF IInv, TypeOK
  <2>3. status[t] \in {"ACCEPTED", "FILLED", "OPEN", "MANAGED"}
    BY <2>1, <2>2 DEF Moves, ALLOWED_TRANSITIONS, NoState
  <2>4. Executed(t) /\ Submitted(t)
    BY <2>3 DEF IInv, AcceptedIsExecuted, RejectedBlocks, Submitted, NoState
  <2>5. call' = Idle /\ UNCHANGED <<order, filled, sends>>
    BY <1>4 DEF Trace
  <2> QED
    BY <2>1, <2>4, <2>5, JournalKeepsIInv DEF NoState
<1> QED
  BY <1>1, <1>2, <1>3, <1>4

LEMMA NextIInv == IInv /\ [Next]_vars => IInv'
<1> SUFFICES ASSUME IInv, [Next]_vars PROVE IInv'
  OBVIOUS
<1>1. CASE Crash
  BY <1>1 DEF Crash, IInv, TypeOK, JournalTypeOK, Calls, CallInv, Idle, BrokerInv, SendOnce,
              IntentBeforeSend, AcceptedIsExecuted, RejectedBlocks, Executed, Unexecuted, Submitted
<1>2. CASE UNCHANGED vars
  BY <1>2 DEF vars, IInv, TypeOK, JournalTypeOK, CallInv, BrokerInv, SendOnce,
              IntentBeforeSend, AcceptedIsExecuted, RejectedBlocks, Executed, Unexecuted, Submitted
<1> QED
  BY <1>1, <1>2, AdapterKeepsIInv, BrokerKeepsIInv, OtherKeepsIInv DEF Next

(* Together they hold in every state of every execution.                   *)
THEOREM ExecutionInvariant == Spec => []IInv
BY InitIInv, NextIInv, PTL DEF Spec

(* The variables of the execution path keep their types.                   *)
THEOREM ExecutionTypeCorrect == Spec => []TypeOK
<1>1. IInv => TypeOK
  BY DEF IInv
<1> QED
  BY <1>1, ExecutionInvariant, PTL

(* However often submit is called, answers get lost and the process dies,  *)
(* order_send is called at most once for a trade.                          *)
THEOREM AtMostOneSend == Spec => []SendOnce
<1>1. IInv => SendOnce
  BY DEF IInv
<1> QED
  BY <1>1, ExecutionInvariant, PTL

(* No order is at the broker without its durable ORDER_SUBMITTED intent.   *)
THEOREM DurableIntentFirst == Spec => []IntentBeforeSend
<1>1. IInv => IntentBeforeSend
  BY DEF IInv
<1> QED
  BY <1>1, ExecutionInvariant, PTL

(* An acceptance in the ledger is a full execution at the broker, and so   *)
(* is recovery's rejection the end of an order without any; a rejection    *)
(* that is not true blocks new risk.                                       *)
THEOREM LedgerIsSound == Spec => []VerdictIsSound
<1>1. ASSUME IInv, NEW t \in Trades
      PROVE  call = [step |-> "observed", trade |-> t, answer |-> "REJECTED"]
               => Unexecuted(t)
  BY <1>1 DEF IInv, CallInv
<1>2. IInv => VerdictIsSound
  BY <1>1 DEF IInv, AcceptedIsExecuted, RejectedBlocks, VerdictIsSound
<1> QED
  BY <1>2, ExecutionInvariant, PTL

(* No order goes out while a journalled outcome is in doubt.               *)
THEOREM NoSendInDoubt == Spec => QuietWhileInDoubt
<1>1. ASSUME IInv, Next, NEW u \in Trades, sends'[u] > sends[u]
      PROVE  blocked = {}
  <2>1. CASE \E t \in Trades : Send(t)
    BY <1>1, <2>1 DEF Send, IInv, CallInv
  <2>2. CASE UNCHANGED sends
    BY <1>1, <2>2 DEF IInv, TypeOK, JournalTypeOK
  <2> QED
    BY <1>1, <2>1, <2>2
       DEF Next, Crash, Adapter, Intend, GatewayRefuses, Return, Conclude,
           ConcludeUnjournalled, Broker, Arrive, Fill, Cancel, Observe, Resolve,
           Trace, Reconcile
<1>2. IInv /\ [Next]_vars
        => [\A t \in Trades : sends'[t] > sends[t] => blocked = {}]_vars
  BY <1>1
<1> QED
  BY <1>2, ExecutionInvariant, PTL DEF Spec, QuietWhileInDoubt

(* Everything the execution path journals is a step of the lifecycle that  *)
(* the ledger implements, and only a reconciliation lifts a block.         *)
THEOREM ExecutionFollowsLifecycle == Spec => FollowsLifecycle
<1>1. ASSUME IInv, NEW t \in Trades, Intend(t)
      PROVE  Lifecycle!Next
  <2>1. /\ status[t] = "AUTHORIZED" /\ blocked' = blocked
        /\ status' = [status EXCEPT ![t] = "ORDER_SUBMITTED"]
    BY <1>1 DEF Intend, Submittable, RiskAllowed, Submitted
  <2>2. Lifecycle!Moves(status[t], "ORDER_SUBMITTED")
    BY <2>1 DEF Lifecycle!Moves, Lifecycle!ALLOWED_TRANSITIONS
  <2>3. Lifecycle!Advance(t, "ORDER_SUBMITTED")
    BY <2>1, <2>2 DEF Lifecycle!Advance, Lifecycle!NoState
  <2>4. "ORDER_SUBMITTED" \in Lifecycle!STATES
    BY DEF Lifecycle!STATES
  <2> QED
    BY <2>3, <2>4 DEF Lifecycle!Next
<1>2. ASSUME IInv, NEW t \in Trades, Conclude(t)
      PROVE  [Lifecycle!Next]_<<status, blocked>>
  <2>1. call.answer \in Answers /\ call.answer # "INVALID"
    BY <1>2, CallShape DEF Conclude, IInv, Idle
  <2>2. \E s \in {"ACCEPTED", "REJECTED", NoState} : \E ty : Journal(Ev(t, s, ty))
    BY <1>2, <2>1 DEF Conclude, OutcomeEvent, Answers
  <2> QED
    BY <1>2, <2>2, JournalIsLifecycle DEF IInv, TypeOK, STATES
<1>3. ASSUME IInv, NEW t \in Trades, Resolve(t)
      PROVE  [Lifecycle!Next]_<<status, blocked>>
  <2>1. call.answer \in Verdicts
    BY <1>3, CallShape DEF Resolve, IInv, Idle
  <2>2. \E s \in {"ACCEPTED", "REJECTED", NoState} : \E ty : Journal(Ev(t, s, ty))
    BY <1>3, <2>1 DEF Resolve, ResolutionEvent, Verdicts
  <2> QED
    BY <1>3, <2>2, JournalIsLifecycle DEF IInv, TypeOK, STATES
<1>4. ASSUME IInv, NEW t \in Trades, Reconcile(t)
      PROVE  [Lifecycle!Next]_<<status, blocked>>
  <2>1. \E s \in {"RECONCILED", NoState} : \E ty : Journal(Ev(t, s, ty))
    BY <1>4 DEF Reconcile
  <2> QED
    BY <1>4, <2>1, JournalIsLifecycle DEF IInv, TypeOK, STATES
<1>5. ASSUME IInv, NEW t \in Trades, NEW s \in STATES, Trace(t, s)
      PROVE  [Lifecycle!Next]_<<status, blocked>>
  BY <1>5, JournalIsLifecycle DEF Trace, IInv, TypeOK
<1>6. ASSUME IInv, [Next]_vars
      PROVE  [Lifecycle!Next]_<<status, blocked>>
  <2>1. CASE UNCHANGED <<status, blocked>>
    BY <2>1
  <2> QED
    BY <1>1, <1>2, <1>3, <1>4, <1>5, <1>6, <2>1
       DEF Next, vars, Crash, Adapter, GatewayRefuses, Send, Return,
           ConcludeUnjournalled, Broker, Arrive, Fill, Cancel, Observe
<1> QED
  BY <1>6, ExecutionInvariant, PTL DEF Spec, FollowsLifecycle
==============================================================================
