------------------------- MODULE AuthorizationAttempt -------------------------
(***************************************************************************)
(* How the generated G13 expert advisor burns an authorization before it   *)
(* sends an order (research/optimization/g13_mql5_generator_v2.py; the     *)
(* hybrid advisor ea/GRK_Hybrid_Regime_EA.mq5 has the same functions).     *)
(* The latch is a global variable of the MetaTrader terminal, shared by    *)
(* every chart the advisor runs on, kept in memory and saved to disk by    *)
(* GlobalVariablesFlush and by an orderly shutdown.                        *)
(*                                                                         *)
(* Each call into the terminal is one step: charts run in threads of their *)
(* own.  The record file names one authorization at a time; its contents   *)
(* and its expiry are the subject of the control plane.                    *)
(***************************************************************************)
EXTENDS Naturals

CONSTANTS
  EAs,        \* the charts an advisor is attached to
  Auths,      \* (trade, authorization, reservation) identities
  ChartsOf,   \* the charts whose symbol and magic number one is for
  MaxSends    \* bound on the orders sent under one authorization

ASSUME ChartsAssumption == ChartsOf \in [Auths -> SUBSET EAs]
ASSUME SendsAssumption == MaxSends \in Nat

Absent == "absent"   \* GlobalVariableCheck says the key is not there
Free == "0.0"        \* the values of a key that is there
Taken == "1.0"
NoAuth == "none"

VARIABLES
  record,     \* the authorization whose fresh record is in the file
  key,        \* the attempt key of each authorization
  consumed,   \* the authorizations whose consumed key is set
  saved,      \* both, as the terminal has them on disk
  pc,         \* where each chart is in OnTick, and for which authorization
  sends       \* how often trade.Sell was called under each authorization

vars == <<record, key, consumed, saved, pc, sends>>

Idle == [at |-> "idle", auth |-> NoAuth]
At == { "verified", "checked", "unset", "creating", "created", "claimed",
        "attempting", "sent", "marked" }

TypeOK ==
  /\ record \in Auths \union {NoAuth}
  /\ key \in [Auths -> {Absent, Free, Taken}]
  /\ consumed \subseteq Auths
  /\ saved \in [key : [Auths -> {Absent, Free, Taken}], consumed : SUBSET Auths]
  /\ pc \in [EAs -> {Idle} \union [at : At, auth : Auths]]
  /\ sends \in [Auths -> 0 .. MaxSends]

Init ==
  /\ record = NoAuth
  /\ key = [a \in Auths |-> Absent]
  /\ consumed = {}
  /\ saved = [key |-> key, consumed |-> {}]
  /\ pc = [e \in EAs |-> Idle]
  /\ sends = [a \in Auths |-> 0]

Exists(a) == key[a] # Absent
Flushed == [key |-> key, consumed |-> consumed]

Goto(e, at) == pc' = [pc EXCEPT ![e].at = at]

(* Mutant: the identities of the tick before are left behind.              *)
Return_Half(e) == Goto(e, "idle")

Return(e) == pc' = [pc EXCEPT ![e] = Idle]

------------------------------------------------------------------------------
(* The control plane publishes a record, or the one there grows too old.   *)
Publish ==
  /\ \E a \in Auths \union {NoAuth} : record' = a
  /\ UNCHANGED <<key, consumed, saved, pc, sends>>

(* VerifyRuntimeAuthorization                                              *)
Verify(e) ==
  /\ pc[e] = Idle
  /\ record # NoAuth /\ e \in ChartsOf[record]
  /\ record \notin consumed /\ ~Exists(record)
  /\ pc' = [pc EXCEPT ![e] = [at |-> "verified", auth |-> record]]
  /\ UNCHANGED <<record, key, consumed, saved, sends>>

------------------------------------------------------------------------------
(* BeginRuntimeAuthorizationAttempt                                        *)

(* Mutant: an existing key is no reason to give up.                        *)
CheckKey_Ignored(e) ==
  /\ pc[e].at = "verified"
  /\ Goto(e, "checked")
  /\ UNCHANGED <<record, key, consumed, saved, sends>>

CheckKey(e) ==
  /\ pc[e].at = "verified"
  /\ IF Exists(pc[e].auth) THEN Return(e) ELSE Goto(e, "checked")
  /\ UNCHANGED <<record, key, consumed, saved, sends>>

(* SetOnCondition(key, 1, 0) on a key that another chart just created.     *)
ClaimExisting(e) ==
  LET a == pc[e].auth IN
  /\ pc[e].at = "checked"
  /\ IF key[a] = Free THEN key' = [key EXCEPT ![a] = Taken] /\ Goto(e, "attempting")
     ELSE key' = key /\ Goto(e, "unset")
  /\ UNCHANGED <<record, consumed, saved, sends>>

CheckAgain(e) ==
  /\ pc[e].at = "unset"
  /\ IF Exists(pc[e].auth) THEN Return(e) ELSE Goto(e, "creating")
  /\ UNCHANGED <<record, key, consumed, saved, sends>>

(* GlobalVariableSet sets the value whether or not the key exists.         *)
Create(e) ==
  /\ pc[e].at = "creating"
  /\ \/ key' = [key EXCEPT ![pc[e].auth] = Free] /\ Goto(e, "created")
     \/ key' = key /\ Return(e)
  /\ UNCHANGED <<record, consumed, saved, sends>>

Claim(e) ==
  LET a == pc[e].auth IN
  /\ pc[e].at = "created"
  /\ IF key[a] = Free THEN key' = [key EXCEPT ![a] = Taken] /\ Goto(e, "claimed")
     ELSE key' = key /\ Return(e)
  /\ UNCHANGED <<record, consumed, saved, sends>>

Flush(e) ==
  /\ pc[e].at = "claimed"
  /\ saved' = Flushed
  /\ Goto(e, "attempting")
  /\ UNCHANGED <<record, key, consumed, sends>>

------------------------------------------------------------------------------
(* The rest of OnTick                                                      *)

(* The order cannot be sized: the attempt stays burned.                    *)
GiveUp(e) ==
  /\ pc[e].at = "attempting"
  /\ Return(e)
  /\ UNCHANGED <<record, key, consumed, saved, sends>>

Sell(e) ==
  /\ pc[e].at = "attempting"
  /\ sends[pc[e].auth] < MaxSends
  /\ sends' = [sends EXCEPT ![pc[e].auth] = @ + 1]
  /\ Goto(e, "sent")
  /\ UNCHANGED <<record, key, consumed, saved>>

(* Mutant: an order that was not confirmed may be tried again.             *)
Unconfirmed_Retried(e) ==
  /\ pc[e].at = "sent"
  /\ key' = [key EXCEPT ![pc[e].auth] = Absent]
  /\ Return(e)
  /\ UNCHANGED <<record, consumed, saved, sends>>

(* Anything but a full execution, or a consumed key that cannot be set.    *)
Unconfirmed(e) ==
  /\ pc[e].at = "sent"
  /\ Return(e)
  /\ UNCHANGED <<record, key, consumed, saved, sends>>

MarkConsumed(e) ==
  /\ pc[e].at = "sent"
  /\ consumed' = consumed \union {pc[e].auth}
  /\ Goto(e, "marked")
  /\ UNCHANGED <<record, key, saved, sends>>

FlushConsumed(e) ==
  /\ pc[e].at = "marked"
  /\ saved' = Flushed
  /\ Return(e)
  /\ UNCHANGED <<record, key, consumed, sends>>

(* The terminal is closed between ticks, or dies at any point; what it had *)
(* on disk is what it starts with.                                         *)
Shutdown ==
  /\ \A e \in EAs : pc[e] = Idle
  /\ saved' = Flushed
  /\ UNCHANGED <<record, key, consumed, pc, sends>>

Crash ==
  /\ key' = saved.key
  /\ consumed' = saved.consumed
  /\ pc' = [e \in EAs |-> Idle]
  /\ UNCHANGED <<record, saved, sends>>

Next ==
  \/ Publish \/ Shutdown \/ Crash
  \/ \E e \in EAs :
       \/ Verify(e) \/ CheckKey(e) \/ ClaimExisting(e) \/ CheckAgain(e)
       \/ Create(e) \/ Claim(e) \/ Flush(e)
       \/ GiveUp(e) \/ Sell(e) \/ Unconfirmed(e)
       \/ MarkConsumed(e) \/ FlushConsumed(e)

Spec == Init /\ [][Next]_vars
------------------------------------------------------------------------------
(* The constitution, mql5_authorization_must_be_single_attempt_before_     *)
(* submission: an authorization is good for one order.                     *)
SingleAttempt == \A a \in Auths : sends[a] <= 1

(* It is, over crashes, restarts and records published again, when one     *)
(* chart answers to it.                                                    *)
Alone(a) == \A d, e \in ChartsOf[a] : d = e
SingleAttemptAlone == \A a \in Auths : Alone(a) => sends[a] <= 1

(* Then, too, an order never leaves before its attempt is on disk, and no  *)
(* crash can make a used authorization look new.                           *)
BurnedBeforeSend ==
  \A a \in Auths : Alone(a) /\ sends[a] > 0 => saved.key[a] # Absent

(* The attempt is on disk and no chart is past the first look at the key.  *)
Past == At \ {"verified"}
Settled(a) ==
  /\ saved.key[a] # Absent
  /\ \A e \in EAs : pc[e].at \in Past => pc[e].auth # a

(* However many charts there are: from then on no tick gets past the key,  *)
(* whatever crashes, and no order leaves under that authorization again.   *)
SettledForEver ==
  [][\A a \in Auths :
       Settled(a) => Settled(a)' /\ sends'[a] = sends[a]]_vars
===============================================================================
