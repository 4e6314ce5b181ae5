------------------------------ MODULE Verifier ------------------------------
(***************************************************************************)
(* verify_replay of runtime-verifier/src/main.rs: what the verifier says   *)
(* of an evidence log and a runtime summary, given its own copy p of the   *)
(* policies. The code replays the log record by record and collects        *)
(* structural reasons; a log with none of them is decided by the policy.   *)
(* Each family of reasons is here a predicate on the whole log.            *)
(***************************************************************************)
EXTENDS Evidence

CONSTANT Unreadable  \* the files that do not parse as a runtime summary

InvalidEvidence == "INVALID-EVIDENCE"

-----------------------------------------------------------------------------
(* Mutant: a replay that recomputes the chain and compares nothing the     *)
(* record says of itself but its position.                                 *)
PositionReplays(log, s, i) == log[i].seq = i

(* The replay of the records against the session the summary names: order, *)
(* session, hash, chain head and classification of every record.           *)
RecordReplays(log, s, i) ==
  LET r == log[i]
  IN  /\ r.session = s.session
      /\ r.seq = i
      /\ r.hash = RecordHash(s.session, r)
      /\ r.head = ReplayHead(s.session, log, i)
      /\ IsEvent(r) => r.verdict = Verdict[r.event]

(* Lifecycle: Seen(type) before record i, for the order validate_lifecycle *)
(* and the record loop demand.                                             *)
LifecycleHolds(log, i) ==
  LET r          == log[i]
      Seen(type) == \E j \in 1 .. i - 1 : IsType(log[j], type)
      Passed(S)  == \A type \in S : Seen(type)
  IN  /\ ~Seen("monitor-stop")
      /\ IsEvent(r) => Seen("workload-target-bound")
      /\ ~IsEvent(r) => ~Seen(r.type)
      /\ IsType(r, "monitor-start") => i = 1
      /\ IsType(r, "policy-loaded") =>
           Passed({"monitor-start"}) /\ ~Seen("workload-target-bound")
      /\ IsType(r, "workload-target-bound") =>
           Passed({"monitor-start", "policy-loaded"})
      /\ IsType(r, "monitor-stop") =>
           Passed(LifecycleTypes \ {"monitor-stop"}) /\ i = Len(log)

LifecycleComplete(log) ==
  \A type \in LifecycleTypes : \E i \in DOMAIN log : IsType(log[i], type)

-----------------------------------------------------------------------------
(* Workload identity of the summary and, when scoped, of every event. A    *)
(* policy set without workload ids accepts any.                            *)
SummaryIdentityHolds(p, s) ==
  /\ s.mode \in {"scoped", "host-wide"}
  /\ p.policyIds = {} \/ s.workload = p.policyIds

EventIdentityHolds(p, s, e) ==
  \/ p.policyIds = {}
  \/ s.mode # "scoped"
  \/ WorkloadOf[e] \in p.policyIds

-----------------------------------------------------------------------------
(* Mutant: the extend indexes are not compared. *)
TpmFlagsHold(p, log, s, i) ==
  LET r      == log[i]
      Due(q) == p.tpm /\ Verdict[q.event].class \in p.extendOn
  IN  IsEvent(r) => /\ r.extended => Due(r)
                    /\ s.tpm # None /\ Due(r) => r.extended

(* Per-event TPM metadata: only a policy-triggered TPM policy extends, it  *)
(* extends exactly the classes it names, and the indexes count from one.   *)
(* A session that lost its TPM binding (no summary.tpm) may miss extends.  *)
TpmMetadataHolds(p, log, s, i) ==
  LET r        == log[i]
      Due(q)   == p.tpm /\ Verdict[q.event].class \in p.extendOn
      Earlier  == {j \in 1 .. i : IsEvent(log[j]) /\ log[j].extended}
  IN  IsEvent(r) =>
        /\ r.index # 0 => r.extended
        /\ r.extended => Due(r)
        /\ s.tpm # None /\ Due(r) => r.extended
        /\ r.extended => r.index = Cardinality(Earlier)

(* "TPM binding failed open" stands in the failure reason of a summary     *)
(* without TPM section, and the policy allows to go on without the TPM.    *)
FailOpenSoftwareEvidence(p, s) ==
  /\ p.tpm /\ ~p.failClosed
  /\ s.tpm = None
  /\ "TPM binding failed open" \in s.markers

(* The counts and digests of summary.tpm against those of the replay.      *)
TpmDigestsHold(p, log, s) ==
  LET t == s.tpm
  IN  /\ t.extends = Len(ExtendedDigests(s.session, log))
      /\ s.finalDigest = t.finalDigest
      /\ t.startDigest =
           SessionStartDigest(s.session, p.policyHash, s.workload, s.mode)
      /\ t.finalDigest =
           FinalSummaryDigest(s.session, ReplayHead(s.session, log, Len(log)),
                              Tally(log), s.dropped, p.policyHash)

(* The PCR values of summary.tpm, replayed from the recorded digests.      *)
TpmPcrReplays(log, s) ==
  LET t == s.tpm
  IN  /\ t.afterStart = ReplayPcrExtend(t.initial, t.startDigest)
      /\ t.finalPcr =
           ReplayPcrExtend(t.afterStart \o ExtendedDigests(s.session, log),
                           t.finalDigest)

(* Mutant: a missing quote is never a reason, required or not. *)
TpmReplayHolds(p, log, s, quoteRequired) ==
  IF s.tpm = None THEN p.tpm => FailOpenSoftwareEvidence(p, s)
  ELSE p.tpm /\ TpmDigestsHold(p, log, s) /\ TpmPcrReplays(log, s)

(* validate_tpm_summary. *)
TpmSummaryHolds(p, log, s, quoteRequired) ==
  IF s.tpm = None
  THEN ~quoteRequired /\ (p.tpm => FailOpenSoftwareEvidence(p, s))
  ELSE /\ p.tpm
       /\ TpmDigestsHold(p, log, s)
       /\ TpmPcrReplays(log, s)
       /\ IF s.tpm.quote = None THEN ~quoteRequired
          ELSE s.tpm.quote = "genuine"

-----------------------------------------------------------------------------
(* Mutant: the counts of the summary are trusted. *)
HeadMatchesReplay(p, log, s) ==
  /\ s.policyHash = p.policyHash
  /\ s.head = ReplayHead(s.session, log, Len(log))

(* The summary's own claims about the log. *)
SummaryMatchesReplay(p, log, s) ==
  /\ s.policyHash = p.policyHash
  /\ s.head = ReplayHead(s.session, log, Len(log))
  /\ s.counts = Tally(log)

(* No structural reason. *)
StructurallyValid(p, log, s, quoteRequired) ==
  /\ SummaryIdentityHolds(p, s)
  /\ \A i \in DOMAIN log :
       /\ RecordReplays(log, s, i)
       /\ LifecycleHolds(log, i)
       /\ IsEvent(log[i]) => EventIdentityHolds(p, s, log[i].event)
       /\ TpmMetadataHolds(p, log, s, i)
  /\ LifecycleComplete(log)
  /\ SummaryMatchesReplay(p, log, s)
  /\ TpmSummaryHolds(p, log, s, quoteRequired)

(* Mutant: evidence without a TPM section is decided by its counts alone. *)
DecisionOfCounts(p, s, counts) ==
  IF \/ s.dropped > 0 /\ p.failOnDrops
     \/ counts["denied"] > 0 /\ p.failOnDenied
     \/ counts["suspicious"] > 0 /\ p.failOnSuspicious
  THEN "REJECT"
  ELSE IF counts["suspicious"] + counts["denied"] > 0
  THEN "ACCEPT-WITH-WARNINGS"
  ELSE "ACCEPT"

(* decision_for_valid_evidence, in the order of its early returns. *)
DecisionForValidEvidence(p, s, counts) ==
  IF \/ s.dropped > 0 /\ p.failOnDrops
     \/ counts["denied"] > 0 /\ p.failOnDenied
     \/ counts["suspicious"] > 0 /\ p.failOnSuspicious
  THEN "REJECT"
  ELSE IF \/ FailOpenSoftwareEvidence(p, s)
          \/ "TPM quote generation failed open" \in s.markers
          \/ counts["suspicious"] + counts["denied"] > 0
  THEN "ACCEPT-WITH-WARNINGS"
  ELSE "ACCEPT"

(* verify_from_paths on what the two files hold. *)
Verify(p, log, s, quoteRequired) ==
  IF s \in Unreadable THEN InvalidEvidence
  ELSE IF ~StructurallyValid(p, log, s, quoteRequired) THEN InvalidEvidence
  ELSE DecisionForValidEvidence(p, s, Tally(log))
=============================================================================
