------------------------------ MODULE Evidence ------------------------------
(***************************************************************************)
(* The evidence types and digests that the runtime monitor and the         *)
(* verifier share (runtime-monitor-common/src/evidence.rs).                *)
(*                                                                         *)
(* A digest is modelled as the tuple of what is hashed, tagged with its    *)
(* domain, so that two digests are equal exactly when their inputs are.    *)
(* A hash chain or a PCR is the sequence of what was folded into it:       *)
(* appending is extending, and two heads are equal exactly when the same   *)
(* hashes were folded in the same order.                                   *)
(***************************************************************************)
EXTENDS Naturals, FiniteSets, SequencesExt

CONSTANTS
  Event,      \* what a runtime event can say (its hashed fields, as one value)
  Verdict,    \* Verdict[e]: the class and rule the policy set gives event e
  WorkloadOf, \* WorkloadOf[e]: the workload id of event e, None if unknown
  None        \* the absent value of an optional field

Classes == {"acceptable", "suspicious", "denied"}

LifecycleTypes ==
  {"monitor-start", "policy-loaded", "workload-target-bound", "monitor-stop"}

ASSUME VerdictType ==
  /\ DOMAIN Verdict = Event
  /\ \A e \in Event : Verdict[e].class \in Classes

(* The words a record gives for what it records: an event's classification *)
(* or a lifecycle step.                                                    *)
Reason(what) == <<"reason", what>>

(* event_hash and synthetic_record_hash: each binds session and position;  *)
(* the reason is part of what is hashed of a lifecycle record only.        *)
EventHash(session, seq, e) == <<"event", session, seq, e>>

SyntheticHash(session, seq, type, reason) ==
  <<"synthetic", session, seq, type, reason>>

(* update_software_chain and replay_pcr_extend. *)
UpdateChain(head, hash)     == Append(head, hash)
ReplayPcrExtend(pcr, digest) == Append(pcr, digest)

(* The three digests that are extended into the runtime PCR. *)
SessionStartDigest(session, policyHash, workload, mode) ==
  <<"session-start", session, policyHash, workload, mode>>

ClassifiedDigest(session, seq, hash, verdict) ==
  <<"classified", session, seq, hash, verdict>>

FinalSummaryDigest(session, head, counts, lost, policyHash) ==
  <<"final-summary", session, head, counts, lost, policyHash>>

-----------------------------------------------------------------------------
(* RuntimeEvidenceState: the running sequence number, counts and head. *)
ZeroCounts == [c \in Classes \union {"synthetic"} |-> 0]

NewState == [next |-> 1, counts |-> ZeroCounts, head |-> <<>>]

(* advance_sequence, update_chain and one of the observe functions. *)
Advance(state, what, hash) ==
  [next   |-> state.next + 1,
   counts |-> [state.counts EXCEPT ![what] = @ + 1],
   head   |-> UpdateChain(state.head, hash)]

-----------------------------------------------------------------------------
(* The two kinds of evidence record; index = 0 when tpm_extend_index is    *)
(* absent.                                                                 *)
RuntimeRecord(session, seq, e, hash, head, extended, index) ==
  [kind |-> "runtime-event", session |-> session, seq |-> seq, event |-> e,
   verdict |-> Verdict[e], reason |-> Reason(e), hash |-> hash,
   head |-> head, extended |-> extended, index |-> index]

SyntheticRecord(session, seq, type, hash, head) ==
  [kind |-> "synthetic", session |-> session, seq |-> seq, type |-> type,
   reason |-> Reason(type), hash |-> hash, head |-> head]

IsEvent(r)      == r.kind = "runtime-event"
IsType(r, type) == r.kind = "synthetic" /\ r.type = type

(* What a replay recomputes from the fields of a record. *)
RecordHash(session, r) ==
  IF IsEvent(r) THEN EventHash(session, r.seq, r.event)
  ELSE SyntheticHash(session, r.seq, r.type, r.reason)

ReplayHead(session, log, n) == [i \in 1 .. n |-> RecordHash(session, log[i])]

Tally(log) ==
  [c \in Classes \union {"synthetic"} |->
     Cardinality({i \in DOMAIN log :
       IF IsEvent(log[i]) THEN Verdict[log[i].event].class = c
       ELSE c = "synthetic"})]

(* The digests of the events a log claims were extended, in log order. *)
ExtendedDigest(session, r) ==
  IF IsEvent(r) /\ r.extended
  THEN <<ClassifiedDigest(session, r.seq, RecordHash(session, r),
                          Verdict[r.event])>>
  ELSE <<>>

ExtendedDigests(session, log) ==
  FlattenSeq([i \in DOMAIN log |-> ExtendedDigest(session, log[i])])
=============================================================================
