---------------------------- MODULE IssuanceProofs ----------------------------
(***************************************************************************)
(* One grant and one admission request per identity, for every set of      *)
(* grants, packets, issuers, command lines and paths.                      *)
(*                                                                         *)
(* The two registries carry the argument the same way: rows are apart, so  *)
(* what is claimed was not claimed, and one call only is between a claim   *)
(* and the publication it allows.  AttestInv is what connects them: what   *)
(* the attestor has signed was granted, and what the provider signs has    *)
(* been attested.                                                          *)
(***************************************************************************)
EXTENDS Issuance, TLAPS, SequenceTheorems

GrantInv ==
  /\ \A g, h \in granted : g # h => IdsOf[g] \intersect IdsOf[h] = {}
  /\ \A g \in Grants : published[g] # 0 => g \in granted
  /\ \A i \in Issuers : gcall[i].step = "claimed" =>
       /\ gcall[i].grant \in granted
       /\ published[gcall[i].grant] = 0
       /\ \A j \in Issuers :
            j # i /\ gcall[j].step = "claimed" => gcall[j].grant # gcall[i].grant
  /\ \A o \in GrantOuts : gfile[o] # None => gfile[o] \in granted

AdmissionInv ==
  /\ \A p, q \in rows : p # q => AdmissionIds[p] \intersect AdmissionIds[q] = {}
  /\ rows \intersect Junk = {}
  /\ \A p \in Packets : issued[p] # 0 => p \in rows
  /\ \A i \in Callers : call[i].step \in {"signed", "claimed"} =>
       call[i].packet \notin Junk
  /\ \A i \in Callers : call[i].step = "claimed" =>
       /\ call[i].packet \in rows
       /\ issued[call[i].packet] = 0
       /\ \A j \in Callers :
            j # i /\ call[j].step = "claimed" => call[j].packet # call[i].packet

(* Only the service writes under the name of a packet.                     *)
NameInv ==
  /\ \A i \in Callers : call[i].step \in Steps =>
       IF i = Service THEN call[i].out = call[i].packet ELSE call[i].out \in CliOuts
  /\ NameBindsContent

AttestInv ==
  /\ attested \subseteq granted
  /\ \A i \in Callers : call[i].step \in {"signed", "claimed"} =>
       GrantOf[call[i].packet] \in attested
  /\ \A p \in rows : GrantOf[p] \in attested

(* An entry is as old as its place says, and what is not there is older.   *)
MemoryInv ==
  /\ \A k \in DOMAIN seen : since[seen[k]] = Len(seen) - k
  /\ AttemptsAreSpaced

IInv == TypeOK /\ GrantInv /\ AdmissionInv /\ NameInv /\ AttestInv /\ MemoryInv

------------------------------------------------------------------------------
(* The grant registry.                                                     *)

LEMMA GrantTypes ==
  ASSUME GTypeOK, GNext
  PROVE  GTypeOK'
<1> USE DEF GTypeOK, GIdle, GSteps
<1>1. CASE InitializeGrantRegistry
  BY <1>1 DEF InitializeGrantRegistry
<1>2. ASSUME NEW i \in Issuers, NEW g \in Grants, NEW o \in GrantOuts, Build(i, g, o)
      PROVE  GTypeOK'
  BY <1>2 DEF Build
<1>3. ASSUME NEW i \in Issuers, ClaimGrant(i)
      PROVE  GTypeOK'
  <2>1. gcall[i] \in [step : GSteps, grant : Grants, out : GrantOuts]
    BY <1>3 DEF ClaimGrant
  <2> QED
    BY <1>3, <2>1 DEF ClaimGrant
<1>4. ASSUME NEW i \in Issuers, LinkGrant(i)
      PROVE  GTypeOK'
  <2>1. gcall[i] \in [step : GSteps, grant : Grants, out : GrantOuts]
    BY <1>4 DEF LinkGrant
  <2>2. gfile' \in [GrantOuts -> Grants \union {None}]
    BY <1>4, <2>1 DEF LinkGrant
  <2>3. published' \in [Grants -> Nat]
    BY <1>4, <2>1 DEF LinkGrant
  <2> QED
    BY <1>4, <2>1, <2>2, <2>3 DEF LinkGrant
<1>5. ASSUME NEW i \in Issuers, RollBack(i)
      PROVE  GTypeOK'
  BY <1>5 DEF RollBack
<1>6. ASSUME NEW i \in Issuers, GEnd(i)
      PROVE  GTypeOK'
  BY <1>6 DEF GEnd
<1>7. ASSUME NEW o \in GrantOuts, Archive(o)
      PROVE  GTypeOK'
  BY <1>7 DEF Archive
<1> QED
  BY <1>1, <1>2, <1>3, <1>4, <1>5, <1>6, <1>7 DEF GNext

(* Every step of an issuer keeps the registry's invariant, is a claim, an  *)
(* issue or nothing in terms of one-time issuing, and takes no row back.   *)
LEMMA GrantSteps ==
  ASSUME GTypeOK, GrantInv, GNext
  PROVE  /\ GrantInv'
         /\ [OneTimeGrant!Next]_<<granted, published>>
         /\ granted \subseteq granted'
<1> USE DEF GTypeOK, GIdle, GSteps
<1>1. CASE InitializeGrantRegistry
  BY <1>1 DEF InitializeGrantRegistry, GrantInv
<1>2. ASSUME NEW i \in Issuers, NEW g \in Grants, NEW o \in GrantOuts, Build(i, g, o)
      PROVE  GrantInv' /\ UNCHANGED <<granted, published>>
  BY <1>2 DEF Build, GrantInv
<1>3. ASSUME NEW i \in Issuers, ClaimGrant(i)
      PROVE  /\ GrantInv' /\ OneTimeGrant!Claim(gcall[i].grant)
             /\ gcall[i].grant \in Grants /\ granted \subseteq granted'
  <2> DEFINE g == gcall[i].grant
  <2>1. gcall[i] \in [step : GSteps, grant : Grants, out : GrantOuts]
    BY <1>3 DEF ClaimGrant
  <2>2. g \in Grants /\ granted' = granted \union {g}
    BY <1>3, <2>1 DEF ClaimGrant
  <2>3. \A h \in granted : IdsOf[g] \intersect IdsOf[h] = {}
    BY <1>3 DEF ClaimGrant, Unclaimed
  <2>4. g \notin granted
    BY <2>2, <2>3, GrantIdsAssumption
  <2>5. /\ \A j \in Issuers : j # i => gcall'[j] = gcall[j]
        /\ gcall'[i].step = "claimed" /\ gcall'[i].grant = g
        /\ UNCHANGED <<gfile, published>>
    BY <1>3, <2>1 DEF ClaimGrant
  <2>6. GrantInv'
    <3>1. (\A x, y \in granted : x # y => IdsOf[x] \intersect IdsOf[y] = {})'
      BY <2>2, <2>3 DEF GrantInv
    <3>2. (\A x \in Grants : published[x] # 0 => x \in granted)'
      BY <2>2, <2>5 DEF GrantInv
    <3>3. published[g] = 0
      BY <2>2, <2>4 DEF GrantInv
    <3>4. ASSUME NEW j \in Issuers, gcall'[j].step = "claimed"
          PROVE  /\ gcall'[j].grant \in granted'
                 /\ published'[gcall'[j].grant] = 0
                 /\ \A k \in Issuers : k # j /\ gcall'[k].step = "claimed"
                                         => gcall'[k].grant # gcall'[j].grant
      BY <2>2, <2>4, <2>5, <3>3, <3>4 DEF GrantInv
    <3>5. (\A o \in GrantOuts : gfile[o] # None => gfile[o] \in granted)'
      BY <2>2, <2>5 DEF GrantInv
    <3> QED
      BY <3>1, <3>2, <3>4, <3>5 DEF GrantInv
  <2>7. OneTimeGrant!Claim(g)
    BY <2>2, <2>3, <2>5 DEF OneTimeGrant!Claim, OneTimeGrant!Apart
  <2> QED
    BY <2>2, <2>6, <2>7
<1>4. ASSUME NEW i \in Issuers, LinkGrant(i)
      PROVE  /\ GrantInv' /\ OneTimeGrant!Issue(gcall[i].grant)
             /\ gcall[i].grant \in Grants /\ UNCHANGED granted
  <2> DEFINE g == gcall[i].grant
  <2>1. /\ gcall[i] \in [step : GSteps, grant : Grants, out : GrantOuts]
        /\ gcall[i].step = "claimed"
    BY <1>4 DEF LinkGrant
  <2>2. g \in Grants /\ g \in granted /\ published[g] = 0
    BY <2>1 DEF GrantInv
  <2>3. /\ \A j \in Issuers : j # i => gcall'[j] = gcall[j]
        /\ gcall'[i].step = "linked"
        /\ \A o \in GrantOuts : gfile'[o] \in {gfile[o], g}
        /\ published' = [published EXCEPT ![g] = 1]
        /\ UNCHANGED granted
    BY <1>4, <2>1, <2>2 DEF LinkGrant
  <2>4. GrantInv'
    BY <2>1, <2>2, <2>3 DEF GrantInv
  <2>5. OneTimeGrant!Issue(g)
    BY <2>2, <2>3 DEF OneTimeGrant!Issue
  <2> QED
    BY <2>2, <2>3, <2>4, <2>5
<1>5. ASSUME NEW i \in Issuers, RollBack(i)
      PROVE  GrantInv' /\ UNCHANGED <<granted, published>>
  BY <1>5 DEF RollBack, GrantInv
<1>6. ASSUME NEW i \in Issuers, GEnd(i)
      PROVE  GrantInv' /\ UNCHANGED <<granted, published>>
  BY <1>6 DEF GEnd, GrantInv
<1>7. ASSUME NEW o \in GrantOuts, Archive(o)
      PROVE  GrantInv' /\ UNCHANGED <<granted, published>>
  BY <1>7 DEF Archive, GrantInv
<1>8. \/ GrantInv' /\ UNCHANGED <<granted, published>>
      \/ \E i \in Issuers : ClaimGrant(i) \/ LinkGrant(i)
  BY <1>1, <1>2, <1>5, <1>6, <1>7 DEF GNext, InitializeGrantRegistry
<1>9. ASSUME NEW i \in Issuers, ClaimGrant(i) \/ LinkGrant(i)
      PROVE  GrantInv' /\ OneTimeGrant!Next /\ granted \subseteq granted'
  BY <1>3, <1>4, <1>9 DEF OneTimeGrant!Next
<1> QED
  BY <1>8, <1>9

------------------------------------------------------------------------------
(* The admission registry.                                                 *)

(* What the memory holds after one more attempt.                           *)
LEMMA Remembered ==
  ASSUME ATypeOK, NEW p \in Packets
  PROVE  LET shift == IF Len(seen) = MaxSeen THEN 1 ELSE 0 IN
         /\ Remember(p) \in Seq(Packets)
         /\ Len(Remember(p)) = Len(seen) + 1 - shift
         /\ \A k \in 1..Len(Remember(p)) :
              Remember(p)[k] = IF k + shift = Len(seen) + 1 THEN p ELSE seen[k + shift]
<1> DEFINE longer == Append(seen, p)
<1>1. /\ seen \in Seq(Packets) /\ Len(seen) \in Nat /\ Len(seen) <= MaxSeen
      /\ MaxSeen \in Nat
  BY AdmissionAssumption DEF ATypeOK
<1>2. /\ longer \in Seq(Packets) /\ Len(longer) = Len(seen) + 1
      /\ \A k \in 1..Len(longer) : longer[k] = IF k = Len(seen) + 1 THEN p ELSE seen[k]
  BY <1>1
<1>3. /\ Tail(longer) \in Seq(Packets) /\ Len(Tail(longer)) = Len(seen)
      /\ \A k \in 1..Len(seen) : Tail(longer)[k] = longer[k + 1]
  <2> HIDE DEF longer
  <2>1. longer # <<>>
    BY <1>1, <1>2
  <2> QED
    BY <1>1, <1>2, <2>1, HeadTailProperties
<1>4. CASE Len(seen) = MaxSeen
  <2>1. Remember(p) = Tail(longer)
    BY <1>1, <1>2, <1>4 DEF Remember
  <2> HIDE DEF longer
  <2> QED
    BY <1>1, <1>2, <1>3, <1>4, <2>1
<1>5. CASE Len(seen) # MaxSeen
  <2>1. Remember(p) = longer
    BY <1>1, <1>2, <1>5 DEF Remember
  <2> HIDE DEF longer
  <2> QED
    BY <1>1, <1>2, <1>5, <2>1
<1> QED
  BY <1>4, <1>5

LEMMA AdmissionTypes ==
  ASSUME ATypeOK, AdmissionStep
  PROVE  ATypeOK'
<1> USE DEF ATypeOK, Idle, Steps, Reading, Outs
<1> DEFINE Calls == [step : Steps, packet : Packets, out : Outs]
<1>0. /\ Service \in Callers /\ Clis \subseteq Callers
      /\ \A i \in Callers : call[i].step \in Steps => call[i] \in Calls
      /\ \A i \in Callers : call[i].step = "read" => call[i].packet \in Packets
  BY DEF Callers
<1>1. CASE InitializeRegistry
  BY <1>1 DEF InitializeRegistry
<1>2. ASSUME NEW p \in Packets, Arrive(p)
      PROVE  ATypeOK'
  BY <1>2 DEF Arrive
<1>3. ASSUME NEW o \in Outs, Collect(o)
      PROVE  ATypeOK'
  BY <1>3 DEF Collect
<1>4. CASE Start
  BY <1>4 DEF Start
<1>5. CASE StopService
  <2>1. seen' \in Seq(Packets) /\ Len(seen') <= MaxSeen
    BY <1>5, AdmissionAssumption DEF StopService
  <2>2. since' \in [Packets -> 0..MaxSeen]
    BY <1>5, AdmissionAssumption DEF StopService, LongAgo
  <2> QED
    BY <1>5, <1>0, <2>1, <2>2 DEF StopService
<1>6. CASE Read
  BY <1>6, <1>0 DEF Read
<1>7. CASE LeaveAlone
  BY <1>7, <1>0 DEF LeaveAlone
<1>8. CASE Attempt
  <2> DEFINE p == call[Service].packet
  <2>1. p \in Packets
    BY <1>8, <1>0 DEF Attempt
  <2>2. seen' \in Seq(Packets) /\ Len(seen') <= MaxSeen
    <3>1. /\ seen' = Remember(p) /\ Len(seen) \in Nat /\ MaxSeen \in Nat
          /\ Len(seen) <= MaxSeen
      BY <1>8, AdmissionAssumption DEF Attempt
    <3>2. /\ Remember(p) \in Seq(Packets)
          /\ Len(Remember(p)) = Len(seen) + 1 - (IF Len(seen) = MaxSeen THEN 1 ELSE 0)
      BY <2>1, Remembered
    <3> HIDE DEF ATypeOK, p
    <3> QED
      BY <3>1, <3>2
  <2>3. since' \in [Packets -> 0..MaxSeen]
    BY <1>8, AdmissionAssumption DEF Attempt, Attempted
  <2>4. call' = [call EXCEPT ![Service] = call'[Service]]
        /\ call'[Service] \in {Idle} \union Calls
    BY <1>8, <1>0, <2>1 DEF Attempt, Taken
  <2> QED
    BY <1>8, <1>0, <2>2, <2>3, <2>4 DEF Attempt
<1>9. ASSUME NEW c \in Clis, NEW p \in Packets, NEW o \in CliOuts, Invoke(c, p, o)
      PROVE  ATypeOK'
  BY <1>9, <1>0 DEF Invoke, Taken
<1>10. ASSUME NEW i \in Callers, Sign(i)
       PROVE  ATypeOK'
  <2>1. call[i] \in Calls
    BY <1>10, <1>0 DEF Sign
  <2> QED
    BY <1>10, <2>1 DEF Sign
<1>11. ASSUME NEW i \in Callers, Claim(i)
       PROVE  ATypeOK'
  BY <1>11, <1>0 DEF Claim
<1>12. ASSUME NEW i \in Callers, Write(i)
       PROVE  ATypeOK'
  <2>1. call[i] \in Calls
    BY <1>12, <1>0 DEF Write
  <2>2. issued' \in [Packets -> Nat] /\ file' \in [Outs -> Packets \union {None}]
    BY <1>12, <2>1 DEF Write
  <2> QED
    BY <1>12, <2>2 DEF Write
<1>13. ASSUME NEW i \in Callers, Return(i)
       PROVE  ATypeOK'
  BY <1>13 DEF Return
<1> QED
  BY <1>1, <1>2, <1>3, <1>4, <1>5, <1>6, <1>7, <1>8, <1>9, <1>10, <1>11, <1>12, <1>13
     DEF AdmissionStep, AttestedSign

(* A step that is no signature, claim or publication only ends or begins   *)
(* calls.                                                                  *)
QuietStep ==
  /\ UNCHANGED <<rows, issued>>
  /\ \A i \in Callers :
       call'[i] = call[i] \/ call'[i].step \notin {"signed", "claimed"}

LEMMA AdmissionSplit ==
  ASSUME ATypeOK, AdmissionStep
  PROVE  \/ QuietStep
         \/ \E i \in Callers : AttestedSign(i) \/ Claim(i) \/ Write(i)
<1> USE DEF QuietStep, ATypeOK
<1>0. Service \in Callers /\ Clis \subseteq Callers
  BY DEF Callers
<1>1. CASE InitializeRegistry \/ Start
  BY <1>1 DEF InitializeRegistry, Start
<1>2. CASE \/ \E p \in Packets : Arrive(p)
           \/ \E o \in Outs : Collect(o)
  BY <1>2 DEF Arrive, Collect
<1>3. CASE StopService
  BY <1>3, <1>0 DEF StopService, Idle
<1>4. CASE Read
  BY <1>4, <1>0 DEF Read, Reading
<1>5. CASE LeaveAlone
  BY <1>5, <1>0 DEF LeaveAlone, Idle
<1>6. CASE Attempt
  BY <1>6, <1>0 DEF Attempt, Taken, Idle
<1>7. CASE \E c \in Clis, p \in Packets, o \in CliOuts : Invoke(c, p, o)
  BY <1>7, <1>0 DEF Invoke, Taken
<1>8. CASE \E i \in Callers : Return(i)
  BY <1>8 DEF Return, Idle
<1> QED
  BY <1>1, <1>2, <1>3, <1>4, <1>5, <1>6, <1>7, <1>8 DEF AdmissionStep

LEMMA ClaimFacts ==
  ASSUME ATypeOK, AdmissionInv, NEW i \in Callers, Claim(i)
  PROVE  /\ call[i].packet \in Packets \ Junk
         /\ call[i].packet \notin rows
         /\ rows' = rows \union {call[i].packet}
         /\ \A q \in rows :
              AdmissionIds[call[i].packet] \intersect AdmissionIds[q] = {}
         /\ call'[i].step = "claimed" /\ call'[i].packet = call[i].packet
         /\ \A j \in Callers : j # i => call'[j] = call[j]
         /\ issued' = issued
<1> DEFINE p == call[i].packet
<1>1. call[i] \in [step : Steps, packet : Packets, out : Outs]
  BY DEF ATypeOK, Claim, Idle, Reading
<1>2. p \in Packets \ Junk
  BY <1>1 DEF AdmissionInv, Claim
<1>3. AdmissionIds[p] # {}
  BY <1>2, AdmissionAssumption DEF AdmissionIds
<1>4. \A q \in rows : AdmissionIds[p] \intersect AdmissionIds[q] = {}
  BY DEF Claim
<1>5. p \notin rows
  BY <1>3, <1>4
<1>6. /\ call'[i].step = "claimed" /\ call'[i].packet = p
      /\ \A j \in Callers : j # i => call'[j] = call[j]
  BY <1>1 DEF Claim, ATypeOK
<1> QED
  BY <1>2, <1>4, <1>5, <1>6 DEF Claim

LEMMA AdmissionSteps ==
  ASSUME ATypeOK, AdmissionInv, AdmissionStep
  PROVE  AdmissionInv' /\ [OneTimeAdmission!Next]_<<rows, issued>>
<1>1. CASE QuietStep
  <2>1. \A i \in Callers : call'[i].step \in {"signed", "claimed"} => call'[i] = call[i]
    BY <1>1 DEF QuietStep
  <2>2. rows' = rows /\ issued' = issued
    BY <1>1 DEF QuietStep
  <2> QED
    BY <2>1, <2>2 DEF AdmissionInv
<1>2. ASSUME NEW i \in Callers, AttestedSign(i)
      PROVE  AdmissionInv' /\ UNCHANGED <<rows, issued>>
  <2>1. call[i] \in [step : Steps, packet : Packets, out : Outs]
    BY <1>2 DEF AttestedSign, Sign, ATypeOK, Idle, Reading
  <2>2. /\ call'[i].step = "signed" /\ call'[i].packet = call[i].packet
        /\ call[i].packet \notin Junk
        /\ \A j \in Callers : j # i => call'[j] = call[j]
        /\ rows' = rows /\ issued' = issued
    BY <1>2, <2>1 DEF AttestedSign, Sign, ATypeOK
  <2> QED
    BY <2>2 DEF AdmissionInv
<1>3. ASSUME NEW i \in Callers, Claim(i)
      PROVE  AdmissionInv' /\ OneTimeAdmission!Next
  <2> DEFINE p == call[i].packet
  <2>1. /\ p \in Packets \ Junk /\ p \notin rows
        /\ rows' = rows \union {p}
        /\ \A q \in rows : AdmissionIds[p] \intersect AdmissionIds[q] = {}
        /\ call'[i].step = "claimed" /\ call'[i].packet = p
        /\ \A j \in Callers : j # i => call'[j] = call[j]
        /\ issued' = issued
    BY <1>3, ClaimFacts
  <2> HIDE DEF p
  <2>2. issued[p] = 0
    BY <2>1 DEF AdmissionInv
  <2>3. \A x, y \in rows' : x # y => AdmissionIds[x] \intersect AdmissionIds[y] = {}
    BY <2>1 DEF AdmissionInv
  <2>4. ASSUME NEW j \in Callers, call'[j].step \in {"signed", "claimed"}
        PROVE  call'[j].packet \notin Junk
    BY <2>1, <2>4 DEF AdmissionInv
  <2>5. ASSUME NEW j \in Callers, call'[j].step = "claimed"
        PROVE  /\ call'[j].packet \in rows'
               /\ issued'[call'[j].packet] = 0
               /\ \A k \in Callers : k # j /\ call'[k].step = "claimed"
                                       => call'[k].packet # call'[j].packet
    BY <2>1, <2>2, <2>5 DEF AdmissionInv
  <2>6. OneTimeAdmission!Claim(p)
    BY <2>1 DEF OneTimeAdmission!Claim, OneTimeAdmission!Apart
  <2>7. rows' \intersect Junk = {} /\ (\A x \in Packets : issued'[x] # 0 => x \in rows')
    BY <2>1 DEF AdmissionInv
  <2> QED
    BY <2>1, <2>3, <2>4, <2>5, <2>6, <2>7 DEF AdmissionInv, OneTimeAdmission!Next
<1>4. ASSUME NEW i \in Callers, Write(i)
      PROVE  AdmissionInv' /\ OneTimeAdmission!Next
  <2> DEFINE p == call[i].packet
  <2>1. call[i] \in [step : Steps, packet : Packets, out : Outs]
    BY <1>4 DEF Write, ATypeOK, Idle, Reading
  <2>2. /\ p \in Packets /\ p \in rows /\ issued[p] = 0
        /\ \A j \in Callers : j # i /\ call[j].step = "claimed" => call[j].packet # p
    BY <1>4, <2>1 DEF Write, AdmissionInv
  <2>3. /\ rows' = rows /\ issued' = [issued EXCEPT ![p] = 1]
        /\ call'[i].step = "idle"
        /\ \A j \in Callers : j # i => call'[j] = call[j]
    BY <1>4, <2>1, <2>2 DEF Write, ATypeOK, Idle
  <2>4. \A x \in Packets : x # p => issued'[x] = issued[x]
    BY <2>3 DEF ATypeOK
  <2>5. OneTimeAdmission!Issue(p)
    BY <2>2, <2>3 DEF OneTimeAdmission!Issue
  <2> HIDE DEF p
  <2>6. ASSUME NEW j \in Callers, call'[j].step = "claimed"
        PROVE  /\ call'[j].packet \in rows'
               /\ issued'[call'[j].packet] = 0
               /\ \A k \in Callers : k # j /\ call'[k].step = "claimed"
                                       => call'[k].packet # call'[j].packet
    <3>1. j # i /\ call'[j] = call[j] /\ call[j].packet # p
      BY <2>2, <2>3, <2>6
    <3>2. call[j].packet \in rows /\ rows \subseteq Packets
      BY <2>6, <3>1 DEF AdmissionInv, ATypeOK
    <3> QED
      BY <2>3, <2>4, <2>6, <3>1, <3>2 DEF AdmissionInv
  <2>7. AdmissionInv'
    <3>1. \A x, y \in rows' : x # y => AdmissionIds[x] \intersect AdmissionIds[y] = {}
      BY <2>3 DEF AdmissionInv
    <3>2. rows' \intersect Junk = {}
      BY <2>3 DEF AdmissionInv
    <3>3. \A x \in Packets : issued'[x] # 0 => x \in rows'
      BY <2>2, <2>3, <2>4 DEF AdmissionInv
    <3>4. \A j \in Callers : call'[j].step \in {"signed", "claimed"} =>
            call'[j].packet \notin Junk
      BY <2>3 DEF AdmissionInv
    <3> QED
      BY <3>1, <3>2, <3>3, <3>4, <2>6 DEF AdmissionInv
  <2> QED
    BY <2>2, <2>5, <2>7 DEF OneTimeAdmission!Next
<1> QED
  <2>1. CASE QuietStep
    BY <1>1, <2>1 DEF QuietStep
  <2>2. CASE \E i \in Callers : AttestedSign(i) \/ Claim(i) \/ Write(i)
    BY <1>2, <1>3, <1>4, <2>2
  <2> QED
    BY <2>1, <2>2, AdmissionSplit

------------------------------------------------------------------------------
(* Names, attestations and memory.                                         *)

LEMMA NameSteps ==
  ASSUME ATypeOK, NameInv, AdmissionStep
  PROVE  NameInv'
<1> DEFINE Bound(c, i) == c.step \in Steps =>
             IF i = Service THEN c.out = c.packet ELSE c.out \in CliOuts
<1>0. /\ Service \in Callers /\ Clis \subseteq Callers /\ Service \notin Clis
      /\ \A i \in Callers : call[i].step \in Steps =>
           call[i] \in [step : Steps, packet : Packets, out : Outs]
      /\ \A i \in Callers : Bound(call[i], i)
  BY AdmissionAssumption DEF Callers, ATypeOK, NameInv, Idle, Reading, Steps
<1>1. ASSUME \A i \in Callers : call'[i] = call[i] \/ Bound(call'[i], i),
             \A p \in Packets : file'[p] \in {file[p], p, None}
      PROVE  NameInv'
  BY <1>0, <1>1 DEF NameInv, NameBindsContent
<1>2. CASE /\ UNCHANGED file
           /\ \/ InitializeRegistry \/ Start \/ StopService \/ Read \/ LeaveAlone
              \/ Attempt
              \/ \E p \in Packets : Arrive(p)
  <2>1. ASSUME NEW i \in Callers
        PROVE  call'[i] = call[i] \/ Bound(call'[i], i)
    BY <1>2 DEF InitializeRegistry, Start, StopService, Read, LeaveAlone, Attempt,
                Arrive, ATypeOK, Idle, Reading, Taken, Steps
  <2> QED
    BY <1>1, <1>2, <2>1
<1>3. CASE \E o \in Outs : Collect(o)
  <2>1. UNCHANGED call /\ \A p \in Packets : file'[p] \in {file[p], None}
    BY <1>3 DEF Collect, ATypeOK, Outs
  <2> QED
    BY <1>1, <2>1
<1>4. CASE \E c \in Clis, p \in Packets, o \in CliOuts : Invoke(c, p, o)
  <2>1. UNCHANGED file /\ \A i \in Callers : call'[i] = call[i] \/ Bound(call'[i], i)
    BY <1>4, <1>0 DEF Invoke, ATypeOK, Taken
  <2> QED
    BY <1>1, <2>1
<1>5. ASSUME NEW i \in Callers, Sign(i) \/ Claim(i) \/ Return(i)
      PROVE  NameInv'
  <2>1. call[i].step \in Steps
    BY <1>5 DEF Sign, Claim, Return, Steps
  <2>2. call[i] \in [step : Steps, packet : Packets, out : Outs] /\ Bound(call[i], i)
    BY <1>0, <2>1
  <2>3. Bound(call'[i], i)
    BY <1>5, <2>1, <2>2 DEF Sign, Claim, Return, ATypeOK, Idle, Steps
  <2>4. UNCHANGED file /\ \A j \in Callers : j # i => call'[j] = call[j]
    BY <1>5 DEF Sign, Claim, Return, ATypeOK
  <2> QED
    BY <1>1, <2>3, <2>4
<1>6. ASSUME NEW i \in Callers, Write(i)
      PROVE  NameInv'
  <2>1. /\ call[i] \in [step : Steps, packet : Packets, out : Outs]
        /\ Bound(call[i], i) /\ call[i].step \in Steps
    BY <1>0, <1>6 DEF Write, Steps
  <2>2. \A p \in Packets : p = call[i].out => p = call[i].packet
    BY <2>1, AdmissionAssumption
  <2>3. \A p \in Packets : file'[p] \in {file[p], p}
    BY <1>6, <2>1, <2>2 DEF Write, ATypeOK, Outs
  <2>4. \A j \in Callers : call'[j] = call[j] \/ Bound(call'[j], j)
    BY <1>6 DEF Write, ATypeOK, Idle, Steps
  <2> QED
    BY <1>1, <2>3, <2>4
<1> QED
  <2>1. CASE \E i \in Callers : Sign(i) \/ Claim(i) \/ Return(i) \/ Write(i)
    BY <1>5, <1>6, <2>1
  <2>2. CASE \/ InitializeRegistry \/ Start \/ StopService \/ Read \/ LeaveAlone
             \/ Attempt
             \/ \E p \in Packets : Arrive(p)
    <3>1. UNCHANGED file
      BY <2>2 DEF InitializeRegistry, Start, StopService, Read, LeaveAlone,
                  Attempt, Arrive
    <3> QED
      BY <1>2, <2>2, <3>1
  <2> QED
    BY <1>3, <1>4, <2>1, <2>2 DEF AdmissionStep, AttestedSign

LEMMA AttestSteps ==
  ASSUME TypeOK, AdmissionInv, AttestInv, AdmissionStep
  PROVE  AttestInv'
<1>0. ATypeOK /\ UNCHANGED <<attested, granted>>
  BY DEF TypeOK, AdmissionStep, gvars
<1>1. CASE QuietStep
  <2>1. /\ rows' = rows
        /\ \A i \in Callers : call'[i].step \in {"signed", "claimed"} => call'[i] = call[i]
    BY <1>1 DEF QuietStep
  <2> QED
    BY <1>0, <2>1 DEF AttestInv
<1>2. ASSUME NEW i \in Callers, AttestedSign(i)
      PROVE  AttestInv'
  <2>1. call[i] \in [step : Steps, packet : Packets, out : Outs]
    BY <1>0, <1>2 DEF AttestedSign, Sign, ATypeOK, Idle, Reading
  <2>2. /\ call'[i].packet = call[i].packet
        /\ GrantOf[call[i].packet] \in attested
        /\ \A j \in Callers : j # i => call'[j] = call[j]
        /\ rows' = rows
    BY <1>0, <1>2, <2>1 DEF AttestedSign, Sign, ATypeOK
  <2> QED
    BY <1>0, <2>2 DEF AttestInv
<1>3. ASSUME NEW i \in Callers, Claim(i)
      PROVE  AttestInv'
  <2>1. /\ rows' = rows \union {call[i].packet}
        /\ call'[i].packet = call[i].packet
        /\ \A j \in Callers : j # i => call'[j] = call[j]
    BY <1>0, <1>3, ClaimFacts
  <2>2. GrantOf[call[i].packet] \in attested
    BY <1>3 DEF AttestInv, Claim
  <2> QED
    BY <1>0, <2>1, <2>2 DEF AttestInv
<1>4. ASSUME NEW i \in Callers, Write(i)
      PROVE  AttestInv'
  <2>1. /\ rows' = rows /\ call'[i].step = "idle"
        /\ \A j \in Callers : j # i => call'[j] = call[j]
    BY <1>0, <1>4 DEF Write, ATypeOK, Idle
  <2> QED
    BY <1>0, <2>1 DEF AttestInv
<1> QED
  BY <1>0, <1>1, <1>2, <1>3, <1>4, AdmissionSplit

LEMMA MemorySteps ==
  ASSUME ATypeOK, MemoryInv, AdmissionStep
  PROVE  MemoryInv'
<1>1. CASE UNCHANGED <<seen, since>>
  BY <1>1 DEF MemoryInv, AttemptsAreSpaced
<1>2. CASE StopService
  <2>1. seen' = <<>> /\ \A p \in Packets : since'[p] = MaxSeen
    BY <1>2 DEF StopService, LongAgo
  <2>2. DOMAIN seen' = {}
    BY <2>1
  <2> QED
    BY <2>1, <2>2, AdmissionAssumption DEF MemoryInv, AttemptsAreSpaced
<1>3. CASE Attempt
  <2> DEFINE p == call[Service].packet
             n == Len(seen)
             shift == IF n = MaxSeen THEN 1 ELSE 0
  <2>1. p \in Packets
    BY <1>3 DEF Attempt, ATypeOK, Callers, Idle, Reading, Steps
  <2>2. /\ n \in Nat /\ n <= MaxSeen /\ MaxSeen \in Nat \ {0}
        /\ DOMAIN seen = 1..n
        /\ \A k \in 1..n : seen[k] \in Packets /\ seen[k] # p
    BY <1>3, AdmissionAssumption DEF Attempt, ATypeOK
  <2>3. /\ seen' \in Seq(Packets) /\ Len(seen') = n + 1 - shift
        /\ \A k \in 1..Len(seen') :
             seen'[k] = IF k + shift = n + 1 THEN p ELSE seen[k + shift]
    BY <1>3, <2>1, Remembered DEF Attempt
  <2>4. /\ since'[p] = 0
        /\ \A q \in Packets : q # p =>
             since'[q] = IF since[q] < MaxSeen THEN since[q] + 1 ELSE MaxSeen
    BY <1>3, <2>1 DEF Attempt, Attempted
  <2>5. \A q \in Packets : since[q] \in 0..MaxSeen
    BY DEF ATypeOK
  <2>6. DOMAIN seen' = 1..(n + 1 - shift)
    BY <2>3
  <2>7. /\ \A k \in 1..n : since[seen[k]] = n - k
        /\ \A q \in Packets : since[q] < MaxSeen => \E k \in 1..n : seen[k] = q
    BY <2>2 DEF MemoryInv, AttemptsAreSpaced
  <2> HIDE DEF p, n
  <2>8. ASSUME NEW k \in 1..(n + 1 - shift)
        PROVE  since'[seen'[k]] = n + 1 - shift - k
    <3>1. CASE k + shift = n + 1
      BY <2>2, <2>3, <2>4, <3>1
    <3>2. CASE k + shift # n + 1
      <4>1. k + shift \in 1..n /\ seen'[k] = seen[k + shift]
        BY <2>2, <2>3, <3>2
      <4>2. since[seen[k + shift]] = n - (k + shift)
        BY <2>7, <4>1
      <4> QED
        BY <2>2, <2>4, <4>1, <4>2
    <3> QED
      BY <3>1, <3>2
  <2>9. ASSUME NEW q \in Packets, since'[q] < MaxSeen
        PROVE  \E k \in 1..(n + 1 - shift) : seen'[k] = q
    <3>1. CASE q = p
      <4>1. n + 1 - shift \in 1..(n + 1 - shift)
        BY <2>2
      <4> QED
        BY <2>2, <2>3, <3>1, <4>1
    <3>2. CASE q # p
      <4>1. since[q] < MaxSeen /\ since'[q] = since[q] + 1
        BY <2>2, <2>4, <2>5, <2>9, <3>2
      <4>2. PICK k \in 1..n : seen[k] = q
        BY <2>7, <4>1
      <4>3. since[q] = n - k
        BY <2>7, <4>2
      <4>4. k - shift \in 1..(n + 1 - shift)
        BY <2>2, <2>9, <4>1, <4>3
      <4>5. (k - shift) + shift = k /\ k # n + 1
        BY <2>2
      <4> QED
        BY <2>3, <4>2, <4>4, <4>5
    <3> QED
      BY <3>1, <3>2
  <2>10. \A k \in DOMAIN seen' : since'[seen'[k]] = Len(seen') - k
    BY <2>2, <2>3, <2>6, <2>8
  <2>11. AttemptsAreSpaced'
    BY <2>6, <2>9 DEF AttemptsAreSpaced
  <2> QED
    BY <2>10, <2>11 DEF MemoryInv
<1> QED
  BY <1>1, <1>2, <1>3
     DEF AdmissionStep, InitializeRegistry, Arrive, Collect, Start, Read, LeaveAlone,
         Invoke, AttestedSign, Sign, Claim, Write, Return

------------------------------------------------------------------------------
(* The whole.                                                              *)

LEMMA InitialState ==
  Init => IInv
<1>1. Init => TypeOK
  <2>1. Init => GTypeOK
    BY DEF Init, GInit, GTypeOK
  <2>2. Init => ATypeOK
    <3>1. <<>> \in Seq(Packets) /\ Len(<<>>) <= MaxSeen
      BY AdmissionAssumption
    <3>2. LongAgo \in [Packets -> 0..MaxSeen]
      BY AdmissionAssumption DEF LongAgo
    <3> SUFFICES ASSUME AInit PROVE ATypeOK
      BY DEF Init
    <3>3. call \in [Callers -> {Idle}]
      BY DEF AInit
    <3>4. /\ file \in [Outs -> Packets \union {None}]
          /\ issued \in [Packets -> Nat]
          /\ seen \in Seq(Packets) /\ Len(seen) <= MaxSeen
          /\ since \in [Packets -> 0..MaxSeen]
      BY <3>1, <3>2 DEF AInit
    <3> HIDE DEF Idle
    <3> QED
      BY <3>3, <3>4 DEF AInit, ATypeOK
  <2> QED
    BY <2>1, <2>2 DEF Init, TypeOK
<1>2. Init => GrantInv /\ AdmissionInv /\ NameInv /\ AttestInv
  BY DEF Init, GInit, AInit, GrantInv, AdmissionInv, NameInv, NameBindsContent,
         AttestInv, GIdle, Idle, Steps, Outs
<1>3. Init => MemoryInv
  BY AdmissionAssumption DEF Init, AInit, MemoryInv, AttemptsAreSpaced, LongAgo
<1> QED
  BY <1>1, <1>2, <1>3 DEF IInv

(* Each registry sees a step of its own or a stutter.                      *)
LEMMA StepOfBoth ==
  ASSUME IInv, [Next]_vars
  PROVE  /\ IInv'
         /\ [OneTimeGrant!Next]_<<granted, published>>
         /\ [OneTimeAdmission!Next]_<<rows, issued>>
<1> USE DEF IInv
<1>1. CASE GrantStep
  <2>1. GNext /\ UNCHANGED <<avars, attested>>
    BY <1>1 DEF GrantStep
  <2>2. GTypeOK' /\ GrantInv' /\ granted \subseteq granted'
        /\ [OneTimeGrant!Next]_<<granted, published>>
    BY <2>1, GrantTypes, GrantSteps DEF TypeOK
  <2>3. ATypeOK' /\ AdmissionInv' /\ NameInv' /\ MemoryInv'
    BY <2>1 DEF avars, TypeOK, ATypeOK, AdmissionInv, NameInv, NameBindsContent,
                MemoryInv, AttemptsAreSpaced
  <2>4. AttestInv'
    BY <2>1, <2>2 DEF AttestInv, avars
  <2> QED
    BY <2>1, <2>2, <2>3, <2>4 DEF TypeOK, avars
<1>2. ASSUME NEW o \in GrantOuts, Attest(o)
      PROVE  IInv' /\ UNCHANGED <<granted, published, rows, issued>>
  <2>1. UNCHANGED <<gvars, avars>> /\ attested' = attested \union {gfile[o]}
        /\ gfile[o] \in granted /\ granted \subseteq Grants
    BY <1>2 DEF Attest, GrantInv, TypeOK, GTypeOK
  <2>2. GTypeOK' /\ GrantInv'
    BY <2>1 DEF gvars, TypeOK, GTypeOK, GrantInv
  <2>3. ATypeOK' /\ AdmissionInv' /\ NameInv' /\ MemoryInv'
    BY <2>1 DEF avars, TypeOK, ATypeOK, AdmissionInv, NameInv, NameBindsContent,
                MemoryInv, AttemptsAreSpaced
  <2>4. AttestInv'
    BY <2>1 DEF AttestInv, avars, gvars
  <2> QED
    BY <2>1, <2>2, <2>3, <2>4 DEF TypeOK, avars, gvars
<1>3. CASE AdmissionStep
  <2>1. UNCHANGED <<gvars, attested>>
    BY <1>3 DEF AdmissionStep
  <2>2. ATypeOK' /\ AdmissionInv' /\ NameInv' /\ MemoryInv' /\ AttestInv'
        /\ [OneTimeAdmission!Next]_<<rows, issued>>
    BY <1>3, AdmissionTypes, AdmissionSteps, NameSteps, MemorySteps, AttestSteps
       DEF TypeOK
  <2>3. GTypeOK' /\ GrantInv'
    BY <2>1 DEF gvars, TypeOK, GTypeOK, GrantInv
  <2> QED
    BY <2>1, <2>2, <2>3 DEF TypeOK, gvars
<1>4. CASE UNCHANGED vars
  <2>1. UNCHANGED <<gvars, avars, attested>>
    BY <1>4 DEF vars
  <2>2. GTypeOK' /\ GrantInv'
    BY <2>1 DEF gvars, TypeOK, GTypeOK, GrantInv
  <2>3. ATypeOK' /\ AdmissionInv' /\ NameInv' /\ MemoryInv'
    BY <2>1 DEF avars, TypeOK, ATypeOK, AdmissionInv, NameInv, NameBindsContent,
                MemoryInv, AttemptsAreSpaced
  <2>4. AttestInv'
    BY <2>1 DEF AttestInv, avars, gvars
  <2> QED
    BY <2>1, <2>2, <2>3, <2>4 DEF TypeOK, avars, gvars
<1> QED
  BY <1>1, <1>2, <1>3, <1>4 DEF Next

LEMMA IssuanceInvariant ==
  Spec => []IInv
<1>1. IInv /\ [Next]_vars => IInv'
  BY StepOfBoth
<1> QED
  BY <1>1, InitialState, PTL DEF Spec

(* The processes, registries and files keep their types.                   *)
THEOREM IssuanceTypeCorrect ==
  Spec => []TypeOK
<1>1. IInv => TypeOK
  BY DEF IInv
<1> QED
  BY <1>1, IssuanceInvariant, PTL

(* The grant issuer implements one-time issuing: whatever issuers race,    *)
(* fail or die, a grant is published once, after a claim on its            *)
(* identities that excludes every other grant for ever.                    *)
THEOREM IssuerImplementsOneTimeIssue ==
  Spec => GrantsAreOneTime
<1>1. Init => OneTimeGrant!Init
  BY DEF Init, GInit, OneTimeGrant!Init
<1>2. IInv /\ [Next]_vars => [OneTimeGrant!Next]_<<granted, published>>
  BY StepOfBoth
<1> QED
  BY <1>1, <1>2, IssuanceInvariant, PTL DEF Spec, GrantsAreOneTime, OneTimeGrant!Spec

(* So does the provider, over a service that restarts and forgets, command *)
(* lines beside it and paths that become free again.                       *)
THEOREM ProviderImplementsOneTimeIssue ==
  Spec => AdmissionsAreOneTime
<1>1. Init => OneTimeAdmission!Init
  BY DEF Init, AInit, OneTimeAdmission!Init
<1>2. IInv /\ [Next]_vars => [OneTimeAdmission!Next]_<<rows, issued>>
  BY StepOfBoth
<1> QED
  BY <1>1, <1>2, IssuanceInvariant, PTL
     DEF Spec, AdmissionsAreOneTime, OneTimeAdmission!Spec

(* Two requests never share a trade, although only the other tool's        *)
(* registry makes trades unique: packets of one grant exclude each other   *)
(* in the admission registry, and grants that share anything in the grant  *)
(* registry, which every attested grant has passed.                        *)
THEOREM OneTradeOneRequest ==
  Spec => []OneRequestPerTrade
<1>1. ASSUME IInv, NEW p \in Packets, NEW q \in Packets,
             issued[p] > 0, issued[q] > 0, p # q
      PROVE  IdsOf[GrantOf[p]] \intersect IdsOf[GrantOf[q]] = {}
  <2>1. p \in rows /\ q \in rows /\ p \notin Junk /\ q \notin Junk
    BY <1>1 DEF IInv, TypeOK, ATypeOK, AdmissionInv
  <2>2. GrantOf[p] \in granted /\ GrantOf[q] \in granted
    BY <1>1, <2>1 DEF IInv, AttestInv
  <2>3. AdmissionIds[p] \intersect AdmissionIds[q] = {} /\ AdmissionIds[p] # {}
    BY <1>1, <2>1, AdmissionAssumption DEF IInv, AdmissionInv, AdmissionIds
  <2>4. GrantOf[p] # GrantOf[q]
    BY <2>1, <2>3 DEF AdmissionIds
  <2> QED
    BY <1>1, <2>2, <2>4 DEF IInv, GrantInv
<1>2. IInv => OneRequestPerTrade
  BY <1>1 DEF OneRequestPerTrade
<1> QED
  BY <1>2, IssuanceInvariant, PTL

(* However the source file is replaced while it is read, a request the     *)
(* service wrote carries the name of the packet it was made from.          *)
THEOREM NamesBindContent ==
  Spec => []NameBindsContent
<1>1. IInv => NameBindsContent
  BY DEF IInv, NameInv
<1> QED
  BY <1>1, IssuanceInvariant, PTL

(* One service process comes back to a packet after MaxSeen attempts at    *)
(* others, and not before.                                                 *)
THEOREM SpacedAttempts ==
  Spec => []AttemptsAreSpaced
<1>1. IInv => AttemptsAreSpaced
  BY DEF IInv, MemoryInv
<1> QED
  BY <1>1, IssuanceInvariant, PTL
==============================================================================
