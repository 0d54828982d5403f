----------------------- MODULE AuthorizationAttemptProofs -----------------------
(* Theorems about AuthorizationAttempt.                                    *)
EXTENDS AuthorizationAttempt, TLAPS

Step(e) ==
  \/ Verify(e) \/ CheckKey(e) \/ ClaimExisting(e) \/ CheckAgain(e)
  \/ Create(e) \/ Claim(e) \/ Flush(e)
  \/ GiveUp(e) \/ Sell(e) \/ Unconfirmed(e)
  \/ MarkConsumed(e) \/ FlushConsumed(e)

(* A key that is on disk is there.                                         *)
KeyOutlives == \A a \in Auths : saved.key[a] # Absent => Exists(a)

(* A chart works on authorizations that are for it.                        *)
Home == \A e \in EAs : pc[e].at \in At => e \in ChartsOf[pc[e].auth]

IInv == TypeOK /\ KeyOutlives /\ Home

LEMMA TypeInit == Init => TypeOK
  BY SendsAssumption DEF Init, TypeOK, Idle, NoAuth, Absent, Free, Taken

(* Every step keeps the types.                                             *)
LEMMA TypeNext == TypeOK /\ [Next]_vars => TypeOK'
<1> SUFFICES ASSUME TypeOK, [Next]_vars PROVE TypeOK'
  OBVIOUS
<1> USE SendsAssumption DEF TypeOK
<1>1. CASE Publish
  BY <1>1 DEF Publish
<1>2. CASE Shutdown
  BY <1>2 DEF Shutdown, Flushed
<1>3. CASE Crash
  <2>1. key' \in [Auths -> {Absent, Free, Taken}] /\ consumed' \subseteq Auths
    BY <1>3 DEF Crash
  <2>2. pc' \in [EAs -> {Idle} \union [at : At, auth : Auths]]
    BY <1>3 DEF Crash
  <2> QED BY <1>3, <2>1, <2>2 DEF Crash
<1>4. ASSUME NEW e \in EAs, Step(e) PROVE TypeOK'
  <2> DEFINE Pcs == {Idle} \union [at : At, auth : Auths]
  <2>1. Return(e) => pc' \in [EAs -> Pcs]
    BY DEF Return
  <2>2. ASSUME NEW at \in At, pc[e].at \in At, Goto(e, at)
        PROVE  pc' \in [EAs -> Pcs]
    <3>1. pc[e] \in [at : At, auth : Auths]
      BY <2>2 DEF Idle, At
    <3>2. [pc[e] EXCEPT !.at = at] \in [at : At, auth : Auths]
      BY <3>1, <2>2
    <3> QED BY <3>2, <2>2 DEF Goto
  <2>3. pc[e].at \in At => pc[e].auth \in Auths
    BY DEF Idle, At
  <2>4. CASE Verify(e)
    <3>1. [at |-> "verified", auth |-> record] \in [at : At, auth : Auths]
      BY <2>4 DEF Verify, At
    <3>2. pc' \in [EAs -> Pcs]
      BY <2>4, <3>1 DEF Verify
    <3> QED BY <2>4, <3>2 DEF Verify
  <2>5. CASE CheckKey(e)
    BY <2>5, <2>1, <2>2 DEF CheckKey, At
  <2>6. CASE ClaimExisting(e)
    <3>1. key' \in [Auths -> {Absent, Free, Taken}]
      BY <2>6 DEF ClaimExisting
    <3>2. pc' \in [EAs -> Pcs]
      BY <2>6, <2>2 DEF ClaimExisting, At
    <3> QED BY <2>6, <3>1, <3>2 DEF ClaimExisting
  <2>7. CASE CheckAgain(e)
    BY <2>7, <2>1, <2>2 DEF CheckAgain, At
  <2>8. CASE Create(e)
    <3>1. key' \in [Auths -> {Absent, Free, Taken}]
      BY <2>8 DEF Create
    <3>2. pc' \in [EAs -> Pcs]
      BY <2>8, <2>1, <2>2 DEF Create, At
    <3> QED BY <2>8, <3>1, <3>2 DEF Create
  <2>9. CASE Claim(e)
    <3>1. key' \in [Auths -> {Absent, Free, Taken}]
      BY <2>9 DEF Claim
    <3>2. pc' \in [EAs -> Pcs]
      BY <2>9, <2>1, <2>2 DEF Claim, At
    <3> QED BY <2>9, <3>1, <3>2 DEF Claim
  <2>10. CASE Flush(e)
    BY <2>10, <2>2 DEF Flush, Flushed, At
  <2>11. CASE GiveUp(e)
    BY <2>11, <2>1 DEF GiveUp
  <2>12. CASE Sell(e)
    <3>1. sends' \in [Auths -> 0 .. MaxSends]
      BY <2>12, <2>3 DEF Sell, At
    <3>2. pc' \in [EAs -> Pcs]
      BY <2>12, <2>2 DEF Sell, At
    <3> QED BY <2>12, <3>1, <3>2 DEF Sell
  <2>13. CASE Unconfirmed(e)
    BY <2>13, <2>1 DEF Unconfirmed
  <2>14. CASE MarkConsumed(e)
    BY <2>14, <2>2, <2>3 DEF MarkConsumed, At
  <2>15. CASE FlushConsumed(e)
    BY <2>15, <2>1 DEF FlushConsumed, Flushed
  <2> QED BY <1>4, <2>4, <2>5, <2>6, <2>7, <2>8, <2>9, <2>10, <2>11, <2>12,
             <2>13, <2>14, <2>15 DEF Step
<1>5. CASE UNCHANGED vars
  BY <1>5 DEF vars
<1> QED BY <1>1, <1>2, <1>3, <1>4, <1>5 DEF Next, Step

(* Nothing removes a key but a crash, and a crash brings back the saved    *)
(* ones.                                                                   *)
LEMMA KeyNext == TypeOK /\ KeyOutlives /\ [Next]_vars => KeyOutlives'
<1> SUFFICES ASSUME TypeOK, KeyOutlives, [Next]_vars, NEW a \in Auths,
                    saved'.key[a] # Absent
             PROVE  key'[a] # Absent
  BY DEF KeyOutlives, Exists
<1> USE DEF TypeOK, KeyOutlives, Exists, Absent, Free, Taken
<1>1. CASE Publish
  BY <1>1 DEF Publish
<1>2. CASE Shutdown
  BY <1>2 DEF Shutdown, Flushed
<1>3. CASE Crash
  BY <1>3 DEF Crash
<1>4. ASSUME NEW e \in EAs, Step(e) PROVE key'[a] # Absent
  <2>1. CASE ClaimExisting(e)
    BY <2>1 DEF ClaimExisting
  <2>2. CASE Create(e)
    BY <2>2 DEF Create
  <2>3. CASE Claim(e)
    BY <2>3 DEF Claim
  <2>4. CASE Flush(e)
    BY <2>4 DEF Flush, Flushed
  <2>5. CASE FlushConsumed(e)
    BY <2>5 DEF FlushConsumed, Flushed
  <2> QED BY <1>4, <2>1, <2>2, <2>3, <2>4, <2>5
          DEF Step, Verify, CheckKey, CheckAgain, GiveUp, Sell, Unconfirmed,
              MarkConsumed
<1>5. CASE UNCHANGED vars
  BY <1>5 DEF vars
<1> QED BY <1>1, <1>2, <1>3, <1>4, <1>5 DEF Next, Step

LEMMA HomeNext == TypeOK /\ Home /\ [Next]_vars => Home'
<1> SUFFICES ASSUME TypeOK, Home, [Next]_vars, NEW d \in EAs, pc'[d].at \in At
             PROVE  d \in ChartsOf[pc'[d].auth]
  BY DEF Home
<1> USE DEF TypeOK, Home
<1>1. CASE Publish \/ Shutdown \/ UNCHANGED vars
  BY <1>1 DEF Publish, Shutdown, vars
<1>2. CASE Crash
  BY <1>2 DEF Crash, Idle, At
<1>3. ASSUME NEW e \in EAs, Step(e) PROVE d \in ChartsOf[pc'[d].auth]
  <2>1. CASE d # e
    <3>1. pc'[d] = pc[d]
      BY <1>3, <2>1
      DEF Step, Verify, CheckKey, ClaimExisting, CheckAgain, Create, Claim,
          Flush, GiveUp, Sell, Unconfirmed, MarkConsumed, FlushConsumed,
          Goto, Return
    <3> QED BY <3>1
  <2>2. CASE d = e
    <3>1. Return(e) => FALSE
      BY <2>2 DEF Return, Idle, At
    <3>2. CASE Verify(e)
      BY <2>2, <3>2 DEF Verify
    <3>3. ASSUME pc[e].at \in At, NEW at \in At, Goto(e, at)
          PROVE  d \in ChartsOf[pc'[d].auth]
      BY <2>2, <3>3 DEF Goto, Idle
    <3> QED BY <1>3, <3>1, <3>2, <3>3
        DEF Step, CheckKey, ClaimExisting, CheckAgain, Create, Claim, Flush,
            GiveUp, Sell, Unconfirmed, MarkConsumed, FlushConsumed, At
  <2> QED BY <2>1, <2>2
<1> QED BY <1>1, <1>2, <1>3 DEF Next, Step

(* The inductive invariant.                                                *)
THEOREM AttemptInvariant == Spec => []IInv
<1>1. Init => IInv
  BY TypeInit DEF IInv, Init, KeyOutlives, Exists, Home, Idle, At
<1>2. IInv /\ [Next]_vars => IInv'
  BY TypeNext, KeyNext, HomeNext DEF IInv
<1> QED BY <1>1, <1>2, PTL DEF Spec

(* The types hold for any charts and authorizations.                       *)
THEOREM AttemptTypeCorrect == Spec => []TypeOK
<1>1. IInv => TypeOK
  BY DEF IInv
<1> QED BY <1>1, AttemptInvariant, PTL

------------------------------------------------------------------------------
(* A settled authorization stays settled, for any number of charts.        *)
LEMMA SettledNext ==
  ASSUME IInv, [Next]_vars, NEW a \in Auths, Settled(a)
  PROVE  Settled(a)' /\ sends'[a] = sends[a]
<1> USE DEF IInv, TypeOK, Settled
<1>k. saved.key[a] # Absent /\ key[a] # Absent
  BY DEF KeyOutlives, Exists
<1>p. ASSUME NEW e \in EAs, pc[e].at \in Past PROVE pc[e].auth # a
  BY <1>p
<1>1. CASE Publish \/ UNCHANGED vars
  BY <1>1 DEF Publish, vars
<1>2. CASE Shutdown
  BY <1>2, <1>k DEF Shutdown, Flushed
<1>3. CASE Crash
  BY <1>3 DEF Crash, Idle, Past, At
<1>4. ASSUME NEW e \in EAs, Step(e)
      PROVE  Settled(a)' /\ sends'[a] = sends[a]
  <2> USE DEF Past, At
  <2>1. saved'.key[a] # Absent
    BY <1>4, <1>k
    DEF Step, Verify, CheckKey, ClaimExisting, CheckAgain, Create, Claim, Flush,
        GiveUp, Sell, Unconfirmed, MarkConsumed, FlushConsumed, Flushed
  <2>2. sends'[a] = sends[a]
    <3>1. CASE Sell(e)
      BY <3>1, <1>p DEF Sell
    <3> QED BY <1>4, <3>1
        DEF Step, Verify, CheckKey, ClaimExisting, CheckAgain, Create, Claim,
            Flush, GiveUp, Unconfirmed, MarkConsumed, FlushConsumed
  <2>3. ASSUME NEW d \in EAs, pc'[d].at \in Past PROVE pc'[d].auth # a
    <3>1. CASE d # e
      <4>1. pc'[d] = pc[d]
        BY <1>4, <3>1
        DEF Step, Verify, CheckKey, ClaimExisting, CheckAgain, Create, Claim,
            Flush, GiveUp, Sell, Unconfirmed, MarkConsumed, FlushConsumed,
            Goto, Return
      <4> QED BY <4>1, <2>3, <1>p
    <3>2. CASE d = e
      <4> USE <2>3, <3>2
      <4>1. Return(e) => FALSE
        BY DEF Return, Idle
      <4>2. CASE Verify(e)
        BY <4>2 DEF Verify
      <4>3. CASE CheckKey(e)
        BY <4>3, <4>1, <1>k DEF CheckKey, Goto, Exists, Idle
      <4>4. ASSUME pc[e].at \in Past, NEW at \in At, Goto(e, at)
            PROVE  pc'[e].auth # a
        <5>1. pc'[e].auth = pc[e].auth
          BY <4>4 DEF Goto, Idle
        <5> QED BY <5>1, <4>4, <1>p
      <4> QED BY <1>4, <4>1, <4>2, <4>3, <4>4
          DEF Step, ClaimExisting, CheckAgain, Create, Claim,
              Flush, GiveUp, Sell, Unconfirmed, MarkConsumed, FlushConsumed
    <3> QED BY <3>1, <3>2
  <2> QED BY <2>1, <2>2, <2>3
<1> QED BY <1>1, <1>2, <1>3, <1>4 DEF Next, Step

(* SettledForEver: once the attempt is on disk and no chart is past the    *)
(* first look at its key, no order leaves under it again.                  *)
THEOREM NoSecondLife == Spec => SettledForEver
<1>1. IInv /\ [Next]_vars
      => [\A a \in Auths :
            Settled(a) => Settled(a)' /\ sends'[a] = sends[a]]_vars
  BY SettledNext
<1> QED BY <1>1, AttemptInvariant, PTL DEF Spec, SettledForEver

------------------------------------------------------------------------------
(* An authorization that one chart answers to.  Before Create its key is   *)
(* not there, up to Sell nothing was sent, and from Flush on the attempt   *)
(* is on disk.                                                             *)
Trying == {"checked", "unset", "creating", "created", "claimed", "attempting"}

Stage(e, a) ==
  /\ pc[e].at \in Trying => sends[a] = 0
  /\ pc[e].at \in {"checked", "unset", "creating"} => ~Exists(a)
  /\ pc[e].at \in {"created", "claimed"} => Exists(a)
  /\ pc[e].at = "attempting" => saved.key[a] # Absent

OneShot(a) ==
  /\ \A e \in EAs : pc[e].auth = a => Stage(e, a)
  /\ sends[a] > 0 => saved.key[a] # Absent
  /\ sends[a] <= 1

OneInv == \A a \in Auths : Alone(a) => OneShot(a)

LEMMA OneInit == Init => OneInv
  BY DEF Init, OneInv, OneShot, Stage, Idle, Trying

(* A step of another authorization leaves it alone.                        *)
LEMMA OthersStep ==
  ASSUME IInv, NEW a \in Auths, OneShot(a), NEW e \in EAs, Step(e),
         ~Verify(e), pc[e].auth # a
  PROVE  OneShot(a)'
<1> USE DEF IInv, TypeOK
<1>1. pc'[e].at = "idle" \/ pc'[e].auth # a
  BY DEF Step, CheckKey, ClaimExisting, CheckAgain, Create, Claim, Flush,
         GiveUp, Sell, Unconfirmed, MarkConsumed, FlushConsumed, Goto, Return,
         Idle
<1>2. \A d \in EAs : d # e => pc'[d] = pc[d]
  BY DEF Step, CheckKey, ClaimExisting, CheckAgain, Create, Claim, Flush,
         GiveUp, Sell, Unconfirmed, MarkConsumed, FlushConsumed, Goto, Return
<1>3. sends'[a] = sends[a]
  BY DEF Step, CheckKey, ClaimExisting, CheckAgain, Create, Claim, Flush,
         GiveUp, Sell, Unconfirmed, MarkConsumed, FlushConsumed
<1>4. key'[a] = key[a]
  BY DEF Step, CheckKey, ClaimExisting, CheckAgain, Create, Claim, Flush,
         GiveUp, Sell, Unconfirmed, MarkConsumed, FlushConsumed
<1>5. saved'.key[a] = saved.key[a] \/ saved'.key[a] = key[a]
  BY DEF Step, CheckKey, ClaimExisting, CheckAgain, Create, Claim, Flush,
         GiveUp, Sell, Unconfirmed, MarkConsumed, FlushConsumed, Flushed
<1>6. saved.key[a] # Absent => saved'.key[a] # Absent
  BY <1>5 DEF KeyOutlives, Exists
<1> QED BY <1>1, <1>2, <1>3, <1>4, <1>6 DEF OneShot, Stage, Trying, Exists

(* A step of its own chart.                                                *)
LEMMA OwnStep ==
  ASSUME IInv, NEW a \in Auths, Alone(a), OneShot(a), NEW e \in EAs, Step(e),
         ~Verify(e), pc[e].auth = a
  PROVE  OneShot(a)'
<1> USE DEF IInv, TypeOK, OneShot, Stage, Trying, Exists
<1>h. pc[e].at \in At
  BY DEF Step, CheckKey, ClaimExisting, CheckAgain, Create, Claim, Flush,
         GiveUp, Sell, Unconfirmed, MarkConsumed, FlushConsumed, At
<1>o. ASSUME NEW d \in EAs, d # e, pc[d].auth = a PROVE pc[d].at = "idle"
  <2>1. CASE pc[d].at \in At
    BY <1>h, <1>o, <2>1 DEF Home, Alone
  <2> QED BY <1>o, <2>1 DEF Idle
<1>p. ASSUME NEW d \in EAs, d # e, pc'[d] = pc[d]
      PROVE  (pc[d].auth = a => Stage(d, a))'
  BY <1>o, <1>p
<1>g. ASSUME NEW at \in At, Goto(e, at)
      PROVE  /\ pc'[e].at = at /\ \A d \in EAs : d # e => pc'[d] = pc[d]
  BY <1>g, <1>h DEF Goto, Idle, At
<1>r. ASSUME Return(e)
      PROVE  /\ pc'[e].at = "idle" /\ \A d \in EAs : d # e => pc'[d] = pc[d]
  BY <1>r DEF Return, Idle
<1>k. sends[a] > 0 => key[a] # Absent
  BY DEF KeyOutlives
<1>1. CASE CheckKey(e)
  <2>1. CASE Exists(a)
    BY <1>1, <2>1, <1>r, <1>p DEF CheckKey
  <2>2. CASE ~Exists(a)
    <3>1. sends[a] = 0
      BY <1>k, <2>2
    <3>2. pc'[e].at = "checked" /\ \A d \in EAs : d # e => pc'[d] = pc[d]
      BY <1>1, <2>2, <1>g DEF CheckKey, At
    <3> QED BY <1>1, <3>1, <3>2, <2>2, <1>p DEF CheckKey
  <2> QED BY <2>1, <2>2
<1>2. CASE ClaimExisting(e)
  <2>1. key[a] = Absent
    BY <1>2 DEF ClaimExisting
  <2>2. key' = key /\ Goto(e, "unset")
    BY <1>2, <2>1 DEF ClaimExisting, Absent, Free
  <2>3. pc'[e].at = "unset" /\ \A d \in EAs : d # e => pc'[d] = pc[d]
    BY <2>2, <1>g DEF At
  <2> QED BY <1>2, <2>1, <2>2, <2>3, <1>p DEF ClaimExisting
<1>3. CASE CheckAgain(e)
  <2>1. Goto(e, "creating")
    BY <1>3 DEF CheckAgain
  <2>2. pc'[e].at = "creating" /\ \A d \in EAs : d # e => pc'[d] = pc[d]
    BY <2>1, <1>g DEF At
  <2> QED BY <1>3, <2>2, <1>p DEF CheckAgain
<1>4. CASE Create(e)
  <2>0. sends[a] = 0
    BY <1>4 DEF Create
  <2>1. CASE key' = [key EXCEPT ![a] = Free] /\ Goto(e, "created")
    <3>1. pc'[e].at = "created" /\ \A d \in EAs : d # e => pc'[d] = pc[d]
      BY <2>1, <1>g DEF At
    <3>2. key'[a] # Absent
      BY <2>1 DEF Absent, Free
    <3> QED BY <1>4, <2>0, <3>1, <3>2, <1>p DEF Create
  <2>2. CASE key' = key /\ Return(e)
    BY <1>4, <2>2, <1>r, <1>p DEF Create
  <2> QED BY <1>4, <2>1, <2>2 DEF Create
<1>5. CASE Claim(e)
  <2>1. CASE key[a] = Free
    <3>1. pc'[e].at = "claimed" /\ \A d \in EAs : d # e => pc'[d] = pc[d]
      BY <1>5, <2>1, <1>g DEF Claim, At
    <3>2. key'[a] # Absent
      BY <1>5, <2>1 DEF Claim, Absent, Taken
    <3> QED BY <1>5, <3>1, <3>2, <1>p DEF Claim
  <2>2. CASE key[a] # Free
    BY <1>5, <2>2, <1>r, <1>p DEF Claim
  <2> QED BY <2>1, <2>2
<1>6. CASE Flush(e)
  <2>1. pc'[e].at = "attempting" /\ \A d \in EAs : d # e => pc'[d] = pc[d]
    BY <1>6, <1>g DEF Flush, At
  <2>2. saved'.key[a] # Absent
    BY <1>6 DEF Flush, Flushed
  <2> QED BY <1>6, <2>1, <2>2, <1>p DEF Flush
<1>7. CASE GiveUp(e)
  BY <1>7, <1>r, <1>p DEF GiveUp
<1>8. CASE Sell(e)
  <2>1. sends[a] = 0 /\ saved.key[a] # Absent
    BY <1>8 DEF Sell
  <2>2. sends'[a] = 1
    BY <1>8, <2>1 DEF Sell
  <2>3. pc'[e].at = "sent" /\ \A d \in EAs : d # e => pc'[d] = pc[d]
    BY <1>8, <1>g DEF Sell, At
  <2> QED BY <1>8, <2>1, <2>2, <2>3, <1>p DEF Sell
<1>9. CASE Unconfirmed(e)
  BY <1>9, <1>r, <1>p DEF Unconfirmed
<1>10. CASE MarkConsumed(e)
  <2>1. pc'[e].at = "marked" /\ \A d \in EAs : d # e => pc'[d] = pc[d]
    BY <1>10, <1>g DEF MarkConsumed, At
  <2> QED BY <1>10, <2>1, <1>p DEF MarkConsumed
<1>11. CASE FlushConsumed(e)
  <2>1. sends[a] > 0 => saved'.key[a] # Absent
    BY <1>11, <1>k DEF FlushConsumed, Flushed
  <2> QED BY <1>11, <2>1, <1>r, <1>p DEF FlushConsumed
<1> QED BY <1>1, <1>2, <1>3, <1>4, <1>5, <1>6, <1>7, <1>8, <1>9, <1>10, <1>11
    DEF Step

LEMMA OneNext ==
  ASSUME IInv, OneInv, [Next]_vars
  PROVE  OneInv'
<1> SUFFICES ASSUME NEW a \in Auths, Alone(a), OneShot(a) PROVE OneShot(a)'
  BY DEF OneInv, Alone
<1> USE DEF IInv, TypeOK, OneShot, Stage, Trying, Exists
<1>1. CASE Publish \/ UNCHANGED vars
  BY <1>1 DEF Publish, vars
<1>2. CASE Shutdown
  BY <1>2 DEF Shutdown, Flushed, KeyOutlives, Idle
<1>3. CASE Crash
  BY <1>3 DEF Crash, Idle
<1>4. ASSUME NEW e \in EAs, Step(e) PROVE OneShot(a)'
  <2>1. CASE Verify(e)
    BY <2>1 DEF Verify
  <2>2. CASE ~Verify(e)
    BY <1>4, <2>2, OthersStep, OwnStep
  <2> QED BY <2>1, <2>2
<1> QED BY <1>1, <1>2, <1>3, <1>4 DEF Next, Step

LEMMA OneInvariant == Spec => []OneInv
<1>1. IInv /\ OneInv /\ [Next]_vars => OneInv'
  BY OneNext
<1> QED BY <1>1, OneInit, AttemptInvariant, PTL DEF Spec

(* SingleAttemptAlone: an authorization that one chart answers to is good  *)
(* for one order, over crashes and records published again.                *)
THEOREM OneChartOneAttempt == Spec => []SingleAttemptAlone
<1>1. OneInv => SingleAttemptAlone
  BY DEF OneInv, OneShot, SingleAttemptAlone
<1> QED BY <1>1, OneInvariant, PTL

(* BurnedBeforeSend: and its attempt is on disk before that order leaves.  *)
THEOREM OneChartBurnsFirst == Spec => []BurnedBeforeSend
<1>1. OneInv => BurnedBeforeSend
  BY DEF OneInv, OneShot, BurnedBeforeSend
<1> QED BY <1>1, OneInvariant, PTL
=================================================================================
