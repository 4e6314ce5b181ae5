----------------------------- MODULE Attestation -----------------------------
(***************************************************************************)
(* A capture session and the verifier that reads what it left: the files   *)
(* may be read at any moment, also after a crash, and the verifier holds   *)
(* the same policies as the monitor.                                       *)
(***************************************************************************)
EXTENDS EvidenceCapture, Verifier

(* A torn or missing file is not read as a summary, and the values that    *)
(* stand for no value are no session id, no policy hash and no quote.      *)
ASSUME FilesAssumption ==
  /\ {None, Torn} \subseteq Unreadable
  /\ Session # None
  /\ None # "genuine"
  /\ \A s \in Setups : s.policyHash # None

Verification == Verify(setup, file, summaryFile, FALSE)

(* The summary at summary_out is whole and of this session. *)
CurrentSummary ==
  summaryFile \notin Unreadable /\ summaryFile.session = Session

-----------------------------------------------------------------------------
(* An honest session verifies: whatever the TPM, the disk and the ring did *)
(* to it, a session that reports a summary never gets INVALID-EVIDENCE for *)
(* it (write_summary against verify_replay).                               *)
HonestSessionVerifies ==
  CurrentSummary /\ CleanRetries => Verification # InvalidEvidence

(* host_wide_runtime_event_workload_id_is_tolerated: the evidence of a     *)
(* host-wide session is not refused for the workloads it names.            *)
HostWideIsTolerated ==
  setup.mode = "host-wide" /\ CurrentSummary /\ faults = {} =>
    Verification # InvalidEvidence

(* The verifier accepts only a log the capture sealed: after a crash, a    *)
(* failed summary write, or over an earlier session's summary there is no  *)
(* verdict other than INVALID-EVIDENCE.                                    *)
VerdictOnlyWhenSealed ==
  Verification # InvalidEvidence =>
    /\ captureState = "finalized"
    /\ buffer = <<>>
    /\ Len(file) = state.next - 1

(* Monitor and verifier agree: without drops, the attestation_status the   *)
(* monitor writes is the decision the verifier reaches on its own.         *)
DecisionOfStatus ==
  [passed |-> "ACCEPT", warning |-> "ACCEPT-WITH-WARNINGS",
   failed |-> "REJECT"]

StatusMatchesDecision ==
  CurrentSummary /\ CleanRetries /\ summaryFile.dropped = 0 =>
    Verification = DecisionOfStatus[summaryFile.status]

(* A TPM policy is accepted without warnings only when the TPM vouches for *)
(* the log: the PCR holds what it held when the session bound it, and on   *)
(* top of that the digests of the session start, of every event of the log *)
(* the policy names, in order, and of the final summary, and nothing else. *)
AcceptedIsAnchored ==
  LET due == DueRecords(setup, file)
  IN  setup.tpm /\ CleanRetries /\ Verification = "ACCEPT" =>
        /\ tpm.binding # None
        /\ pcr =
             tpm.binding.initial
             \o <<SessionStartDigest(Session, setup.policyHash,
                                     setup.workload, setup.mode)>>
             \o [k \in DOMAIN due |->
                   ClassifiedDigest(Session, due[k].seq, due[k].hash,
                                    due[k].verdict)]
             \o <<FinalSummaryDigest(Session,
                                     ReplayHead(Session, file, Len(file)),
                                     Tally(file), summaryFile.dropped,
                                     setup.policyHash)>>

(* A verifier that requires a quote accepts only what a quote covers: the  *)
(* summary is quoted and claims the PCR as it is now. And it accepts every *)
(* session it would accept without one, if no TPM command failed and the   *)
(* session was configured to quote.                                        *)
RequiredQuoteIsGenuine ==
  LET strict == Verify(setup, file, summaryFile, TRUE)
  IN  /\ strict # InvalidEvidence =>
           /\ strict = Verification
           /\ summaryFile.tpm # None
           /\ summaryFile.tpm.quote = "genuine"
           /\ pcr = summaryFile.tpm.finalPcr
      /\ CurrentSummary /\ setup.quote /\ faults = {} => strict = Verification

-----------------------------------------------------------------------------
(* Damage to the log: a record lost, repeated, out of place or with one    *)
(* field changed: session, position, hash, head, for an event the event,   *)
(* its verdict and its extend, for a lifecycle record its type and reason. *)
Without(log, i) == SubSeq(log, 1, i - 1) \o SubSeq(log, i + 1, Len(log))
Repeated(log, i) == SubSeq(log, 1, i) \o SubSeq(log, i, Len(log))
Swapped(log, i) ==
  [log EXCEPT ![i] = log[i + 1], ![i + 1] = log[i]]

Altered(r) ==
  {[r EXCEPT !.seq = @ + 1], [r EXCEPT !.session = None],
   [r EXCEPT !.head = Append(@, None)], [r EXCEPT !.hash = <<"other">>]}
  \union IF IsEvent(r)
         THEN {[r EXCEPT !.event = e] : e \in Event}
              \union {[r EXCEPT !.verdict = Verdict[e]] : e \in Event}
              \union {[r EXCEPT !.extended = ~@],
                      [r EXCEPT !.index = @ + 1]}
         ELSE {[r EXCEPT !.type = type] : type \in LifecycleTypes}
              \union {[r EXCEPT !.reason = <<"other">>]}

DamagedLogs(log) ==
  ({Without(log, i) : i \in DOMAIN log}
   \union {Repeated(log, i) : i \in DOMAIN log}
   \union {Swapped(log, i) : i \in 1 .. Len(log) - 1}
   \union UNION {{[log EXCEPT ![i] = r] : r \in Altered(log[i])}
                 : i \in DOMAIN log}) \ {log}

(* The one field left: the reason of an event is neither hashed nor        *)
(* compared by the replay.                                                 *)
RewordedLogs(log) ==
  {[log EXCEPT ![i].reason = <<"other">>] :
     i \in {j \in DOMAIN log : IsEvent(log[j])}}

(* Any one damage to the log of a verified session is detected, and what   *)
(* is not is exactly this: other words in the reason of an event leave the *)
(* decision as it was, so nobody may rely on them.                         *)
DamagedLogRejected ==
  CurrentSummary /\ Verification # InvalidEvidence =>
    /\ \A log \in DamagedLogs(file) :
         Verify(setup, log, summaryFile, FALSE) = InvalidEvidence
    /\ \A log \in RewordedLogs(file) :
         Verify(setup, log, summaryFile, FALSE) = Verification

(* Damage to a summary that the replay of the log or the policies p show,  *)
(* TPM or not. A workload is compared only with the ids the policies name. *)
Misstated(p, s) ==
  {[s EXCEPT !.counts[c] = @ + 1] : c \in DOMAIN s.counts}
  \union {[s EXCEPT !.head = Append(@, None)],
          [s EXCEPT !.session = None],
          [s EXCEPT !.policyHash = None],
          [s EXCEPT !.mode = "other"]}
  \union {[s EXCEPT !.workload = w] :
            w \in IF p.policyIds = {} THEN {}
                  ELSE {{}, {None}} \ {s.workload}}

(* Damage that only the TPM section shows: its start digest binds workload *)
(* and mode, its final digest the drop count, and the PCR values both.     *)
Unbound(s) ==
  {[s EXCEPT !.workload = w] : w \in {{}, {None}} \ {s.workload}}
  \union {[s EXCEPT !.mode = m] : m \in {"scoped", "host-wide"} \ {s.mode}}
  \union {[s EXCEPT !.dropped = @ + 1],
          [s EXCEPT !.finalDigest = <<"other">>],
          [s EXCEPT !.tpm = None],
          [s EXCEPT !.tpm.extends = @ + 1],
          [s EXCEPT !.tpm.initial = Append(@, None)],
          [s EXCEPT !.tpm.afterStart = Append(@, None)],
          [s EXCEPT !.tpm.finalPcr = Append(@, None)],
          [s EXCEPT !.tpm.startDigest = <<"other">>],
          [s EXCEPT !.tpm.finalDigest = <<"other">>]}

DamagedSummaries(p, s) ==
  Misstated(p, s) \union (IF s.tpm = None THEN {} ELSE Unbound(s))

(* A changed count, head, session, policy hash or unknown mode in the      *)
(* summary of a verified session is detected; a changed workload, if the   *)
(* policies name theirs or the session has a TPM section; and if it has    *)
(* one, another known mode, drop count or final digest, the lack of the    *)
(* section and its extend count, digests and PCR values (its quote is the  *)
(* matter of RequiredQuoteIsGenuine).                                      *)
(* Not covered: the status and its reasons, and in evidence without a TPM  *)
(* section the mode, the drop count, the final digest and, when the        *)
(* policies name none, the workload, which nothing binds.                  *)
DamagedSummaryRejected ==
  CurrentSummary /\ Verification # InvalidEvidence =>
    \A s \in DamagedSummaries(setup, summaryFile) :
      Verify(setup, file, s, FALSE) = InvalidEvidence
=============================================================================
