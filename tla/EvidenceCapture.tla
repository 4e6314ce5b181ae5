-------------------------- MODULE EvidenceCapture --------------------------
(***************************************************************************)
(* EvidenceCapture of runtime-monitor/src/main.rs, driven in the order of  *)
(* main: the evidence log, the software hash chain, the runtime PCR and    *)
(* the runtime summary of one monitoring session.                          *)
(*                                                                         *)
(* Everything outside the process can fail: a TPM command may report an    *)
(* error before or after it took effect, a record may stay behind in the   *)
(* writer's buffer, the summary may be refused or torn, and the process    *)
(* may be killed between two calls.                                        *)
(***************************************************************************)
EXTENDS Evidence

CONSTANTS
  Session,         \* the id of this session
  Setups,          \* the policies and collector configs a session can run with
  EarlierSummary,  \* what an earlier session may have left at summary_out
  Torn,            \* a summary file that does not parse
  MaxSamples,      \* bound: ring-buffer samples read in the session
  MaxLost,         \* bound: the eBPF lost-event counter at the end
  MaxSummaryCalls  \* write_summary calls: main makes one, a caller may retry

ASSUME BoundsAssumption ==
  /\ MaxSamples \in Nat
  /\ MaxLost \in Nat
  /\ MaxSummaryCalls \in Nat \ {0}

(* The part of a setup the capture reads. *)
ASSUME SetupAssumption ==
  \A s \in Setups :
    /\ s.tpm \in BOOLEAN /\ s.failClosed \in BOOLEAN
    /\ s.resetPcr \in BOOLEAN /\ s.quote \in BOOLEAN
    /\ s.extendOn \subseteq Classes
    /\ s.quote => s.tpm
    /\ s.extendOn # {} => s.tpm

VARIABLES
  setup,        \* the configuration of the session, fixed
  phase,        \* how far main has got
  captureState, \* EvidenceCaptureState
  state,        \* RuntimeEvidenceState
  malformed,    \* malformed_samples
  samples,      \* samples read from the ring so far (bounds the model)
  file,         \* the records the evidence file holds
  buffer,       \* records the BufWriter still holds after a failed flush
  tpm,          \* the capture's TPM fields
  pcr,          \* the runtime PCR in the TPM
  summaryFile,  \* the file at summary_out
  calls,        \* write_summary calls made
  faults        \* history: the kinds of fault this session has met

vars == <<setup, phase, captureState, state, malformed, samples, file, buffer,
          tpm, pcr, summaryFile, calls, faults>>

logVars == <<file, buffer, state>>
tpmVars == <<tpm, pcr>>

Running == phase \notin {"finished", "aborted"}

-----------------------------------------------------------------------------
(* Writing a record: write_all into the BufWriter, then flush. After a     *)
(* failed flush the writer keeps what it could not write.                  *)
WriteOutcomes(record) ==
  LET pending == Append(buffer, record)
  IN  {[file |-> file \o pending, buffer |-> <<>>, ok |-> TRUE]}
      \union
      {[file   |-> file \o SubSeq(pending, 1, k),
        buffer |-> SubSeq(pending, k + 1, Len(pending)),
        ok     |-> FALSE] : k \in 0 .. Len(buffer)}

(* Mutant: the hash is folded in after the record was made, so the record  *)
(* carries the head before it.                                             *)
StaleHeadSynthetic(type) ==
  SyntheticRecord(Session, state.next, type,
                  SyntheticHash(Session, state.next, type, Reason(type)),
                  state.head)

NextSynthetic(type) ==
  Advance(state, "synthetic",
          SyntheticHash(Session, state.next, type, Reason(type)))

(* The record write_synthetic_record appends. *)
NewSynthetic(type) ==
  SyntheticRecord(Session, state.next, type,
                  SyntheticHash(Session, state.next, type, Reason(type)),
                  NextSynthetic(type).head)

(* What main does with an error of the call: `?` leaves main at once.      *)
Abort(fault) ==
  /\ phase'  = "aborted"
  /\ faults' = faults \union {fault}

(* write_record, then on to phase `then`; met: the faults met before it. *)
WriteRecord(record, then, met) ==
  \E w \in WriteOutcomes(record) :
    /\ file'   = w.file
    /\ buffer' = w.buffer
    /\ phase'  = IF w.ok THEN then ELSE "aborted"
    /\ faults' = faults \union met \union (IF w.ok THEN {} ELSE {"record"})

-----------------------------------------------------------------------------
(* Mutant: failing open only logs, and the next TPM step goes on. *)
ForgetTpmFailure(p) ==
  [pcr |-> p, tpm |-> tpm, err |-> setup.failClosed, fault |-> {"tpm"}]

(* record_tpm_failure: fail closed returns the error; fail open remembers  *)
(* the first one and goes on without the TPM.                              *)
RecordTpmFailure(p) ==
  [pcr |-> p, tpm |-> [tpm EXCEPT !.failed = ~setup.failClosed],
   err |-> setup.failClosed, fault |-> {"tpm"}]

TpmDone(p, t) == [pcr |-> p, tpm |-> t, err |-> FALSE, fault |-> {}]

TpmIdle == ~setup.tpm \/ tpm.failed

(* Mutant: the PCR is not read back after the session-start extend. *)
NoReadBackOutcomes ==
  LET digest == SessionStartDigest(Session, setup.policyHash, setup.workload,
                                   setup.mode)
      bound  == ReplayPcrExtend(pcr, digest)
  IN  {TpmDone(bound, [tpm EXCEPT !.binding =
         [initial |-> pcr, afterStart |-> None, digest |-> digest]])}

(* bind_tpm_session_start: reset, read, extend, read; each may fail, the   *)
(* reset and the extend also after they took effect.                       *)
SessionStartOutcomes ==
  LET digest == SessionStartDigest(Session, setup.policyHash, setup.workload,
                                   setup.mode)
      fresh  == IF setup.resetPcr THEN <<>> ELSE pcr
      bound  == ReplayPcrExtend(fresh, digest)
  IN  IF TpmIdle THEN {TpmDone(pcr, tpm)}
      ELSE {TpmDone(bound, [tpm EXCEPT !.binding =
              [initial |-> fresh, afterStart |-> bound, digest |-> digest]])}
           \union {RecordTpmFailure(p) : p \in {pcr, fresh, bound}}

ShouldExtend(class) == setup.tpm /\ class \in setup.extendOn

(* bind_tpm_runtime_event: the extend comes before the record is written.  *)
EventExtendOutcomes(seq, e) ==
  LET digest == ClassifiedDigest(Session, seq, EventHash(Session, seq, e),
                                 Verdict[e])
      done   == ReplayPcrExtend(pcr, digest)
  IN  IF ~ShouldExtend(Verdict[e].class) \/ tpm.failed
      THEN {TpmDone(pcr, tpm)}
      ELSE IF tpm.binding = None THEN {RecordTpmFailure(pcr)}
      ELSE {TpmDone(done, [tpm EXCEPT !.extends = @ + 1])}
           \union {RecordTpmFailure(p) : p \in {pcr, done}}

(* generate_tpm_quote for a final TPM summary s, when the PCR holds p. The *)
(* capture caches s before it asks for the quote.                          *)
QuoteOutcomes(s, p) ==
  LET With(final, failed) ==
        [tpm EXCEPT !.final = final, !.quoteFailed = failed]
  IN  IF ~setup.quote THEN {TpmDone(p, With(s, tpm.quoteFailed))}
      ELSE {TpmDone(p, With([s EXCEPT !.quote = "genuine"], tpm.quoteFailed)),
            [pcr |-> p, tpm |-> With(s, ~setup.failClosed),
             err |-> setup.failClosed, fault |-> {"tpm"}]}

(* Mutant: every write_summary extends the final digest, cached or not. *)
UncachedFinalizeOutcomes(digest) ==
  LET done  == ReplayPcrExtend(pcr, digest)
      final == [extends    |-> tpm.extends,
                initial    |-> tpm.binding.initial,
                afterStart |-> tpm.binding.afterStart,
                finalPcr   |-> done,
                startDigest |-> tpm.binding.digest,
                finalDigest |-> digest,
                quote      |-> None]
  IN  IF TpmIdle THEN {TpmDone(pcr, tpm)} ELSE QuoteOutcomes(final, done)

(* finalize_tpm_binding, with the final digest of this call. *)
FinalizeOutcomes(digest) ==
  LET done  == ReplayPcrExtend(pcr, digest)
      final == [extends    |-> tpm.extends,
                initial    |-> tpm.binding.initial,
                afterStart |-> tpm.binding.afterStart,
                finalPcr   |-> done,
                startDigest |-> tpm.binding.digest,
                finalDigest |-> digest,
                quote      |-> None]
  IN  IF TpmIdle THEN {TpmDone(pcr, tpm)}
      ELSE IF tpm.final # None THEN
        IF tpm.final.finalDigest # digest
        THEN {[pcr |-> pcr, tpm |-> tpm, err |-> TRUE, fault |-> {"digest"}]}
        ELSE IF tpm.final.quote = None /\ ~tpm.quoteFailed
        THEN QuoteOutcomes(tpm.final, pcr)
        ELSE {TpmDone(pcr, tpm)}
      ELSE IF tpm.binding = None THEN {RecordTpmFailure(pcr)}
      ELSE QuoteOutcomes(final, done)
           \union {RecordTpmFailure(p) : p \in {pcr, done}}

-----------------------------------------------------------------------------
(* Mutant: only a failed quote leaves its reason in the summary. *)
QuoteMarkers(t) ==
  IF t.quoteFailed THEN {"TPM quote generation failed open"} ELSE {}

(* summary_attestation_status_and_reason and the status of the counts. *)
Markers(t) ==
  (IF t.failed THEN {"TPM binding failed open"} ELSE {})
  \union (IF t.quoteFailed THEN {"TPM quote generation failed open"} ELSE {})

(* Mutant: a TPM that failed open does not lower the status. *)
StatusOfCounts(counts, t) ==
  IF \/ counts["denied"] > 0 /\ setup.failOnDenied
     \/ counts["suspicious"] > 0 /\ setup.failOnSuspicious
  THEN "failed"
  ELSE IF counts["suspicious"] + counts["denied"] > 0 THEN "warning"
  ELSE "passed"

AttestationStatus(counts, t) ==
  IF \/ counts["denied"] > 0 /\ setup.failOnDenied
     \/ counts["suspicious"] > 0 /\ setup.failOnSuspicious
  THEN "failed"
  ELSE IF counts["suspicious"] + counts["denied"] > 0 \/ Markers(t) # {}
  THEN "warning"
  ELSE "passed"

(* The RuntimeSummary write_summary builds from the sealed state st. *)
RuntimeSummary(st, lost, t) ==
  LET tpmSummary == IF setup.tpm /\ ~t.failed THEN t.final ELSE None
  IN  [session    |-> Session,
       workload   |-> setup.workload,
       mode       |-> setup.mode,
       policyHash |-> setup.policyHash,
       status     |-> AttestationStatus(st.counts, t),
       markers    |-> Markers(t),
       counts     |-> st.counts,
       dropped    |-> lost,
       head       |-> st.head,
       finalDigest |-> IF tpmSummary = None THEN None
                       ELSE tpmSummary.finalDigest,
       tpm        |-> tpmSummary]

(* write_runtime_summary: File::create may be refused; the JSON goes       *)
(* through a BufWriter that is dropped, not flushed, so a late write error *)
(* tears the file and is reported only if the buffer had already spilled.  *)
SummaryOutcomes(s) ==
  {[file |-> s, ok |-> TRUE], [file |-> Torn, ok |-> TRUE],
   [file |-> Torn, ok |-> FALSE], [file |-> summaryFile, ok |-> FALSE]}

(* Mutants: a stop record for every call that has not finished, and the    *)
(* error of the stop record ignored.                                       *)
RepeatedSealOutcomes ==
  {[state |-> NextSynthetic("monitor-stop"), log |-> w] :
     w \in WriteOutcomes(NewSynthetic("monitor-stop"))}

UncheckedSealOutcomes ==
  {[state |-> NextSynthetic("monitor-stop"), log |-> [w EXCEPT !.ok = TRUE]] :
     w \in WriteOutcomes(NewSynthetic("monitor-stop"))}

(* The monitor-stop record, written by the first call only. *)
SealOutcomes ==
  IF captureState = "open"
  THEN {[state |-> NextSynthetic("monitor-stop"), log |-> w] :
          w \in WriteOutcomes(NewSynthetic("monitor-stop"))}
  ELSE {[state |-> state,
         log   |-> [file |-> file, buffer |-> buffer, ok |-> TRUE]]}

-----------------------------------------------------------------------------
(* with_policies has returned: monitor-start and policy-loaded are in the  *)
(* file. The file at summary_out may still be an earlier session's.        *)
StartState ==
  LET h1 == SyntheticHash(Session, 1, "monitor-start", Reason("monitor-start"))
      h2 == SyntheticHash(Session, 2, "policy-loaded", Reason("policy-loaded"))
  IN  Advance(Advance(NewState, "synthetic", h1), "synthetic", h2)

StartFile ==
  LET h1 == SyntheticHash(Session, 1, "monitor-start", Reason("monitor-start"))
      h2 == SyntheticHash(Session, 2, "policy-loaded", Reason("policy-loaded"))
  IN  <<SyntheticRecord(Session, 1, "monitor-start", h1, <<h1>>),
        SyntheticRecord(Session, 2, "policy-loaded", h2, <<h1, h2>>)>>

Init ==
  /\ setup \in Setups
  /\ phase = "opened"
  /\ captureState = "open"
  /\ state = StartState
  /\ malformed = 0
  /\ samples = 0
  /\ file = StartFile
  /\ buffer = <<>>
  /\ tpm = [binding |-> None, extends |-> 0, final |-> None,
            failed |-> FALSE, quoteFailed |-> FALSE]
  /\ pcr = << <<"boot">> >>
  /\ summaryFile \in {None, EarlierSummary}
  /\ calls = 0
  /\ faults = {}

(* write_workload_target_bound. *)
WriteWorkloadTargetBound ==
  /\ phase = "opened"
  /\ state' = NextSynthetic("workload-target-bound")
  /\ WriteRecord(NewSynthetic("workload-target-bound"), "bound", {})
  /\ UNCHANGED <<setup, captureState, malformed, samples, tpmVars,
                 summaryFile, calls>>

(* bind_tpm_session_start; the probes are attached when it has returned. *)
BindTpmSessionStart ==
  /\ phase = "bound"
  /\ \E o \in SessionStartOutcomes :
       /\ pcr' = o.pcr
       /\ tpm' = o.tpm
       /\ phase' = IF o.err THEN "aborted" ELSE "collecting"
       /\ faults' = faults \union o.fault
  /\ UNCHANGED <<setup, captureState, malformed, samples, logVars,
                 summaryFile, calls>>

(* process_sample of a sample whose size is not that of an Event. *)
ProcessMalformedSample ==
  /\ phase = "collecting"
  /\ samples < MaxSamples
  /\ samples' = samples + 1
  /\ malformed' = malformed + 1
  /\ UNCHANGED <<setup, phase, captureState, logVars, tpmVars, summaryFile,
                 calls, faults>>

(* process_sample of an event whose workload index is not configured. *)
ProcessUnknownIndex ==
  /\ phase = "collecting"
  /\ samples < MaxSamples
  /\ samples' = samples + 1
  /\ Abort("index")
  /\ UNCHANGED <<setup, captureState, malformed, logVars, tpmVars,
                 summaryFile, calls>>

(* process_sample of event e. State and counts advance before the TPM is   *)
(* asked, and the TPM is asked before the record is written.               *)
ProcessSample(e) ==
  LET hash == EventHash(Session, state.next, e)
      next == Advance(state, Verdict[e].class, hash)
  IN  /\ phase = "collecting"
      /\ samples < MaxSamples
      /\ samples' = samples + 1
      /\ state' = next
      /\ \E o \in EventExtendOutcomes(state.next, e) :
           LET extended == o.tpm.extends > tpm.extends
           IN  /\ pcr' = o.pcr
               /\ tpm' = o.tpm
               /\ IF o.err
                  THEN Abort("tpm") /\ UNCHANGED <<file, buffer>>
                  ELSE WriteRecord(
                         RuntimeRecord(Session, state.next, e, hash, next.head,
                           extended, IF extended THEN o.tpm.extends ELSE 0),
                         phase, o.fault)
      /\ UNCHANGED <<setup, captureState, malformed, summaryFile, calls>>

(* write_summary(final_state): seal the log, bind the final digest, write  *)
(* the summary. An error leaves the capture as far as it got; only a       *)
(* caller that retries can call again.                                     *)
WriteSummary(lost) ==
  LET onError == IF calls + 1 < MaxSummaryCalls THEN "retrying" ELSE "aborted"
  IN  /\ phase \in {"collecting", "retrying"}
      /\ calls < MaxSummaryCalls
      /\ calls' = calls + 1
      /\ \E seal \in SealOutcomes :
           /\ state' = seal.state
           /\ file' = seal.log.file
           /\ buffer' = seal.log.buffer
           /\ IF ~seal.log.ok
              THEN /\ phase' = onError
                   /\ faults' = faults \union {"record"}
                   /\ UNCHANGED <<captureState, tpmVars, summaryFile>>
              ELSE \E o \in FinalizeOutcomes(
                          FinalSummaryDigest(Session, seal.state.head,
                            seal.state.counts, lost, setup.policyHash)) :
                   /\ pcr' = o.pcr
                   /\ tpm' = o.tpm
                   /\ IF o.err
                      THEN /\ phase' = onError
                           /\ captureState' = "stop-written"
                           /\ faults' = faults \union o.fault
                           /\ UNCHANGED summaryFile
                      ELSE \E w \in SummaryOutcomes(
                                  RuntimeSummary(seal.state, lost, o.tpm)) :
                           /\ summaryFile' = w.file
                           /\ phase' = IF w.ok THEN "finished" ELSE onError
                           /\ captureState' =
                                IF w.ok THEN "finalized" ELSE "stop-written"
                           /\ faults' = faults \union o.fault \union
                                (IF w.ok THEN {} ELSE {"summary"})
      /\ UNCHANGED <<setup, malformed, samples>>

(* The process is killed between two calls (SIGTERM, SIGKILL, power). *)
Kill ==
  /\ Running
  /\ Abort("kill")
  /\ UNCHANGED <<setup, captureState, state, malformed, samples, file, buffer,
                 tpm, pcr, summaryFile, calls>>

(* main has returned an error: dropping the BufWriter tries once more to   *)
(* write what it holds and ignores the outcome.                            *)
DropWriter ==
  /\ phase = "aborted"
  /\ "kill" \notin faults
  /\ buffer # <<>>
  /\ \E k \in 0 .. Len(buffer) : file' = file \o SubSeq(buffer, 1, k)
  /\ buffer' = <<>>
  /\ UNCHANGED <<setup, phase, captureState, state, malformed, samples, tpmVars,
                 summaryFile, calls, faults>>

Next ==
  \/ WriteWorkloadTargetBound
  \/ BindTpmSessionStart
  \/ ProcessMalformedSample
  \/ ProcessUnknownIndex
  \/ \E e \in Event : ProcessSample(e)
  \/ \E lost \in 0 .. MaxLost : WriteSummary(lost)
  \/ Kill
  \/ DropWriter

Spec == Init /\ [][Next]_vars

-----------------------------------------------------------------------------
(* The types of the digests, the records and the TPM fields. *)
Hash ==
  ({"event"} \X {Session} \X Nat \X Event)
  \union ({"synthetic"} \X {Session} \X Nat \X LifecycleTypes
            \X {Reason(type) : type \in LifecycleTypes})

ChainHead == Seq(Hash)

VerdictSet == {Verdict[e] : e \in Event}

Counts == [Classes \union {"synthetic"} -> Nat]

EvidenceState == [next : Nat \ {0}, counts : Counts, head : ChainHead]

Record ==
  [kind : {"runtime-event"}, session : {Session}, seq : Nat, event : Event,
   verdict : VerdictSet, reason : {Reason(e) : e \in Event}, hash : Hash,
   head : ChainHead, extended : BOOLEAN, index : Nat]
  \union
  [kind : {"synthetic"}, session : {Session}, seq : Nat,
   type : LifecycleTypes, reason : {Reason(type) : type \in LifecycleTypes},
   hash : Hash, head : ChainHead]

StartDigest ==
  {SessionStartDigest(Session, s.policyHash, s.workload, s.mode) :
     s \in Setups}

EventDigest == {"classified"} \X {Session} \X Nat \X Hash \X VerdictSet

FinalDigest ==
  {"final-summary"} \X {Session} \X ChainHead \X Counts \X Nat
    \X {s.policyHash : s \in Setups}

Pcr ==
  Seq({<<"boot">>} \union StartDigest \union FinalDigest \union EventDigest)

TpmBinding == [initial : Pcr, afterStart : Pcr, digest : StartDigest]

TpmFinal ==
  [extends : Nat, initial : Pcr, afterStart : Pcr, finalPcr : Pcr,
   startDigest : StartDigest, finalDigest : FinalDigest,
   quote : {None, "genuine"}]

TpmState ==
  [binding : {None} \union TpmBinding, extends : Nat,
   final : {None} \union TpmFinal, failed : BOOLEAN, quoteFailed : BOOLEAN]

Summary ==
  [session : {Session}, workload : {s.workload : s \in Setups},
   mode : {s.mode : s \in Setups}, policyHash : {s.policyHash : s \in Setups},
   status : {"passed", "warning", "failed"},
   markers : SUBSET {"TPM binding failed open",
                     "TPM quote generation failed open"},
   counts : Counts, dropped : Nat, head : ChainHead,
   finalDigest : {None} \union FinalDigest, tpm : {None} \union TpmFinal]

(* The types of the capture's variables. *)
TypeOK ==
  /\ setup \in Setups
  /\ phase \in {"opened", "bound", "collecting", "retrying", "finished",
                "aborted"}
  /\ captureState \in {"open", "stop-written", "finalized"}
  /\ state \in EvidenceState
  /\ malformed \in Nat
  /\ samples \in Nat
  /\ file \in Seq(Record)
  /\ buffer \in Seq(Record)
  /\ tpm \in TpmState
  /\ pcr \in Pcr
  /\ summaryFile \in {None, Torn, EarlierSummary} \union Summary
  /\ calls \in Nat
  /\ faults \subseteq {"tpm", "record", "summary", "digest", "kill", "index"}

(* An absent value is no record, and a session id is 32 random bytes: a    *)
(* summary left at summary_out by another session has another id.          *)
ASSUME AbsentAssumption ==
  /\ None \notin TpmFinal
  /\ EarlierSummary # None => EarlierSummary.session # Session

-----------------------------------------------------------------------------
(* The records the session has produced so far, those not yet in the file  *)
(* included.                                                               *)
Log == file \o buffer

(* The log replays: every record says where it is and carries the chain    *)
(* head of exactly the records before it, and unless main has given up,    *)
(* the running head and position are those of the log (process_sample and  *)
(* write_synthetic_record advance the state before they write).            *)
LogReplays ==
  /\ \A i \in DOMAIN Log :
       /\ Log[i].seq = i
       /\ Log[i].hash = RecordHash(Session, Log[i])
       /\ Log[i].head = ReplayHead(Session, Log, i)
  /\ phase # "aborted" =>
       /\ state.next = Len(Log) + 1
       /\ state.head = ReplayHead(Session, Log, Len(Log))

(* No record write failed, and no TPM error was returned to a caller that  *)
(* then tried again: what a session without faults, a session failing open *)
(* and a repeated summary write have in common.                            *)
CleanRetries ==
  /\ "record" \notin faults
  /\ "tpm" \in faults => ~setup.failClosed

(* A session still bound to the TPM has in the runtime PCR the start, the  *)
(* extended events of its log in order, and after write_summary the final  *)
(* digest, once, however often the summary had to be written again (the    *)
(* extend precedes the write of the record).                               *)
PcrMatchesLog ==
  tpm.binding # None /\ ~tpm.failed /\ CleanRetries =>
    /\ tpm.extends = Len(ExtendedDigests(Session, Log))
    /\ pcr = Append(tpm.binding.initial, tpm.binding.digest)
              \o ExtendedDigests(Session, Log)
              \o (IF tpm.final = None THEN <<>>
                   ELSE <<tpm.final.finalDigest>>)

(* The records of a log whose event the policies p name for an extend. *)
DueRecord(p, r) ==
  IF IsEvent(r) /\ p.tpm /\ r.verdict.class \in p.extendOn
  THEN <<r>> ELSE <<>>

DueRecords(p, log) == FlattenSeq([i \in DOMAIN log |-> DueRecord(p, log[i])])

(* "A fail-open after some successful event extends must not claim a       *)
(* TPM-bound session": a summary with a TPM section comes from a session   *)
(* whose every due event was extended, with its index and in log order.    *)
TpmClaimCoversLog ==
  LET due == DueRecords(setup, Log)
  IN  summaryFile \notin {None, Torn} /\ summaryFile.session = Session
      /\ summaryFile.tpm # None =>
        /\ ~tpm.failed
        /\ summaryFile.tpm.extends = Len(due)
        /\ \A k \in DOMAIN due : due[k].extended /\ due[k].index = k

(* Where main may be in each capture state (ensure_open and the states of  *)
(* write_summary): only an open capture takes records, a sealed one has    *)
(* nothing left in the writer, and it is finalized exactly when main or    *)
(* the caller has been told so.                                            *)
SealMatchesPhase ==
  /\ phase \in {"opened", "bound", "collecting"} => captureState = "open"
  /\ captureState # "open" => buffer = <<>>
  /\ captureState = "finalized" <=> phase = "finished"

(* Once the log is sealed it stays as it is, however write_summary is      *)
(* repeated; once the summary is written, so do the summary and the PCR.   *)
SealedIsFrozen ==
  [][/\ captureState # "open" => UNCHANGED logVars
     /\ captureState = "finalized" => UNCHANGED <<summaryFile, pcr>>]_vars

(* "Wrote evidence summary": a capture that reports its summary written    *)
(* has left a summary that a verifier can read.                            *)
FinalizedSummaryIsReadable ==
  captureState = "finalized" => summaryFile \notin {None, Torn}

(* What a reader of the two files is promised, and how the capture keeps   *)
(* it: the seal is the first write_summary whose monitor-stop reached the  *)
(* file, and a summary describes a log if it is this session's and has the *)
(* head and the counts that a replay of the log gives.                     *)
EndsInStop(log) == Len(log) > 0 /\ IsType(log[Len(log)], "monitor-stop")

AccountsFor(summary, log) ==
  /\ summary.session = Session
  /\ summary.head = ReplayHead(Session, log, Len(log))
  /\ summary.counts = Tally(log)

Promise == INSTANCE SealedLog WITH
  log          <- file,
  sealed       <- captureState # "open",
  summary      <- summaryFile,
  done         <- captureState = "finalized",
  Start        <- {StartFile},
  Earlier      <- {None, EarlierSummary},
  TornSummary  <- Torn,
  Seals        <- EndsInStop,
  Describes    <- AccountsFor

(* The capture implements the promise: the log only grows until it ends in *)
(* the stop record, an earlier session's summary is left alone until then, *)
(* and from then on every summary written is torn or a true account of the *)
(* log as it is on disk, however often it is written.                      *)
ImplementsSealedLog == Promise!Spec
=============================================================================
