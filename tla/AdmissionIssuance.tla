--------------------------- MODULE AdmissionIssuance ---------------------------
(***************************************************************************)
(* The admission provider: a service that polls one file for packets of    *)
(* signed sources (control_plane_provider_service_v1) and command lines    *)
(* that are run beside it, all through the one-shot issuer                 *)
(* (control_plane_admission_provider_v1), which verifies a packet, claims  *)
(* its identities in a database and writes one signed admission request.   *)
(*                                                                         *)
(* A packet is told from another by its bytes, so it stands for its own    *)
(* SHA-256 and for the name of the output file made from it.               *)
(***************************************************************************)
EXTENDS Naturals, Sequences, GrantIds

CONSTANTS
  Packets,    \* contents the source file may have
  Junk,       \* those that no verification accepts: unfinished or forged
  GrantOf,    \* the grant the promotion source of a packet rests on
  TradeIds,   \* those of them the admission registry does not make unique
  Clis,       \* command lines that may run beside the service
  CliOuts,    \* output paths given to them
  MaxSeen,    \* MAX_SEEN_PACKET_HASHES
  Service     \* the process of the service

ASSUME AdmissionAssumption ==
  /\ Junk \subseteq Packets
  /\ None \notin Packets /\ Service \notin Clis
  /\ CliOuts \intersect Packets = {}
  /\ \A p \in Packets \ Junk :
       GrantOf[p] \in Grants /\ ~ (IdsOf[GrantOf[p]] \subseteq TradeIds)
  /\ MaxSeen \in Nat \ {0}

VARIABLES
  registry,   \* the registry file: not there, unusable, ready
  rows,       \* the packets whose identities are its rows
  source,     \* the packet in the source file
  up,         \* the service is running
  seen,       \* the service's seen_hashes, oldest first
  since,      \* attempts since it last attempted this packet, up to MaxSeen
  call,       \* what the service and the command lines are doing
  file,       \* the request at each output path
  issued      \* how often a request of each packet has been written

avars == <<registry, rows, source, up, seen, since, call, file, issued>>

Callers == Clis \union {Service}
Outs == Packets \union CliOuts
Idle == [step |-> "idle", packet |-> None, out |-> None]
Steps == {"taken", "signed", "claimed"}
Reading(p) == [step |-> "read", packet |-> p, out |-> None]
Taken(p, o) == [step |-> "taken", packet |-> p, out |-> o]

ATypeOK ==
  /\ registry \in {"absent", "broken", "ready"}
  /\ rows \subseteq Packets
  /\ source \in Packets \union {None}
  /\ up \in BOOLEAN
  /\ seen \in Seq(Packets) /\ Len(seen) <= MaxSeen
  /\ since \in [Packets -> 0..MaxSeen]
  /\ call \in [Callers -> {Idle} \union { Reading(p) : p \in Packets }
                 \union [step : Steps, packet : Packets, out : Outs]]
  /\ file \in [Outs -> Packets \union {None}]
  /\ issued \in [Packets -> Nat]

LongAgo == [p \in Packets |-> MaxSeen]

AInit ==
  /\ registry = "absent"
  /\ rows = {}
  /\ source = None
  /\ up = FALSE
  /\ seen = <<>>
  /\ since = LongAgo
  /\ call = [i \in Callers |-> Idle]
  /\ file = [o \in Outs |-> None]
  /\ issued = [p \in Packets |-> 0]
------------------------------------------------------------------------------
(* Around the provider: an operator provisions the registry, once; the     *)
(* source file is written, in pieces and again; requests are carried away  *)
(* to the runner, which frees their paths.                                 *)

InitializeRegistry ==
  /\ registry = "absent"
  /\ registry' \in {"broken", "ready"}
  /\ UNCHANGED <<rows, source, up, seen, since, call, file, issued>>

Arrive(p) ==
  /\ source' = p
  /\ UNCHANGED <<registry, rows, up, seen, since, call, file, issued>>

Collect(o) ==
  /\ file[o] # None
  /\ file' = [file EXCEPT ![o] = None]
  /\ UNCHANGED <<registry, rows, source, up, seen, since, call, issued>>

------------------------------------------------------------------------------
(* The service.                                                            *)

(* main: one instance at a time (single_instance_lock).                    *)
Start ==
  /\ ~up
  /\ up' = TRUE
  /\ UNCHANGED <<registry, rows, source, seen, since, call, file, issued>>

(* It is stopped between two polls, or dies anywhere, and forgets.         *)
StopService ==
  /\ up
  /\ up' = FALSE
  /\ seen' = <<>> /\ since' = LongAgo
  /\ call' = [call EXCEPT ![Service] = Idle]
  /\ UNCHANGED <<registry, rows, source, file, issued>>

(* _read_stable_packet reads the file,                                     *)
Read ==
  /\ up /\ call[Service] = Idle
  /\ source # None
  /\ call' = [call EXCEPT ![Service] = Reading(source)]
  /\ UNCHANGED <<registry, rows, source, up, seen, since, file, issued>>

(* and once more: what changed in between, or was attempted, is left alone.*)
LeaveAlone ==
  /\ call[Service].step = "read"
  /\ \/ source # call[Service].packet
     \/ \E k \in DOMAIN seen : seen[k] = call[Service].packet
  /\ call' = [call EXCEPT ![Service] = Idle]
  /\ UNCHANGED <<registry, rows, source, up, seen, since, file, issued>>

(* Mutant: an entry is evicted as soon as the memory is full.              *)
Remember_Early(p) ==
  LET longer == Append(seen, p)
  IN  IF Len(longer) >= MaxSeen THEN Tail(longer) ELSE longer

(* Mutant: nothing is ever evicted.                                        *)
Remember_Forever(p) == Append(seen, p)

(* seen_hashes with one more hash, without the oldest if it is too long.   *)
Remember(p) ==
  LET longer == Append(seen, p)
  IN  IF Len(longer) > MaxSeen THEN Tail(longer) ELSE longer

Attempted(p) == [q \in Packets |->
  IF q = p THEN 0 ELSE IF since[q] < MaxSeen THEN since[q] + 1 ELSE MaxSeen]

(* The rest of poll_once up to the issuer: a stable packet that is new to  *)
(* this process is remembered, before anything is known about it, and      *)
(* staged as a private copy unless its output exists.                      *)
Attempt ==
  LET p == call[Service].packet IN
  /\ call[Service].step = "read"
  /\ source = p
  /\ \A k \in DOMAIN seen : seen[k] # p
  /\ seen' = Remember(p)
  /\ since' = Attempted(p)
  /\ call' = [call EXCEPT ![Service] = IF file[p] = None THEN Taken(p, p) ELSE Idle]
  /\ UNCHANGED <<registry, rows, source, up, file, issued>>

------------------------------------------------------------------------------
(* The issuer, called by the service or from a command line.               *)

Invoke(c, p, o) ==
  /\ call[c] = Idle
  /\ call' = [call EXCEPT ![c] = Taken(p, o)]
  /\ UNCHANGED <<registry, rows, source, up, seen, since, file, issued>>

(* Mutant: the service hands over the path of the source file, not a copy. *)
Sign_SourcePath(i) ==
  LET p == IF i = Service THEN source ELSE call[i].packet IN
  /\ call[i].step = "taken"
  /\ file[call[i].out] = None
  /\ {p, call[i].packet} \intersect Junk = {}
  /\ call' = [call EXCEPT ![i].step = "signed", ![i].packet = p]
  /\ UNCHANGED <<registry, rows, source, up, seen, since, file, issued>>

(* main and build_admission_request: the output must not exist, the four   *)
(* sources must verify.  That they are too old by now is one of the        *)
(* reasons for which a call may return from any step.                      *)
Sign(i) ==
  /\ call[i].step = "taken"
  /\ file[call[i].out] = None
  /\ call[i].packet \notin Junk
  /\ call' = [call EXCEPT ![i].step = "signed"]
  /\ UNCHANGED <<registry, rows, source, up, seen, since, file, issued>>

(* The columns of issued_admissions that are unique, but for the request's *)
(* own id, which is new each time.                                         *)
AdmissionIds ==
  [p \in Packets |-> IF p \in Junk THEN {} ELSE IdsOf[GrantOf[p]] \ TradeIds]

(* record_issuance                                                         *)
Claim(i) ==
  LET p == call[i].packet IN
  /\ call[i].step = "signed"
  /\ registry = "ready"
  /\ \A q \in rows : AdmissionIds[p] \intersect AdmissionIds[q] = {}
  /\ rows' = rows \union {p}
  /\ call' = [call EXCEPT ![i].step = "claimed"]
  /\ UNCHANGED <<registry, source, up, seen, since, file, issued>>

(* Mutant: the request is written before it is claimed.                    *)
Write_BeforeClaim(i) ==
  LET p == call[i].packet IN
  /\ call[i].step \in {"signed", "claimed"}
  /\ file[call[i].out] = None
  /\ file' = [file EXCEPT ![call[i].out] = p]
  /\ issued' = [issued EXCEPT ![p] = @ + 1]
  /\ call' = [call EXCEPT ![i] = Idle]
  /\ UNCHANGED <<registry, rows, source, up, seen, since>>

(* write_request_new: the hard link needs a free path.  Then the call is   *)
(* over, whether or not the temporary file could be removed.               *)
Write(i) ==
  LET p == call[i].packet IN
  /\ call[i].step = "claimed"
  /\ file[call[i].out] = None
  /\ file' = [file EXCEPT ![call[i].out] = p]
  /\ issued' = [issued EXCEPT ![p] = @ + 1]
  /\ call' = [call EXCEPT ![i] = Idle]
  /\ UNCHANGED <<registry, rows, source, up, seen, since>>

(* The call returns: refused or failed at whatever step.  A command line   *)
(* that dies looks the same.                                               *)
Return(i) ==
  /\ call[i].step \in Steps
  /\ call' = [call EXCEPT ![i] = Idle]
  /\ UNCHANGED <<registry, rows, source, up, seen, since, file, issued>>

ANext ==
  \/ InitializeRegistry
  \/ \E p \in Packets : Arrive(p)
  \/ \E o \in Outs : Collect(o)
  \/ Start \/ StopService \/ Read \/ LeaveAlone \/ Attempt
  \/ \E c \in Clis, p \in Packets, o \in CliOuts : Invoke(c, p, o)
  \/ \E i \in Callers : Sign(i) \/ Claim(i) \/ Write(i) \/ Return(i)

ASpec == AInit /\ [][ANext]_avars
------------------------------------------------------------------------------
OneTimeAdmission == INSTANCE OneTimeIssue WITH
  Items <- Packets, IdsOf <- AdmissionIds, claimed <- rows

(* Over the service, the command lines beside it, restarts that forget     *)
(* what was seen, paths that become free again and calls that die: what is *)
(* written was claimed before, once, and nothing else on its signal,       *)
(* grant, authorization or reservation ever is.                            *)
AdmissionsAreOneTime == OneTimeAdmission!Spec

(* The name of an output is the hash of the packet it was made from, while *)
(* the source file may be replaced at any moment.                          *)
NameBindsContent == \A p \in Packets : file[p] \in {p, None}

(* poll_once promises that a packet is attempted at most once per service  *)
(* process.  It is, until as many other packets as the memory holds came   *)
(* after it; what keeps it from a second request then is the registry.     *)
AttemptsAreSpaced ==
  \A p \in Packets :
    since[p] < MaxSeen => \E k \in DOMAIN seen : seen[k] = p
==============================================================================
