----------------------- MODULE EvidenceCaptureProofs -----------------------
(***************************************************************************)
(* Proofs about EvidenceCapture, for every value of its constants: types,  *)
(* the replay of the log, the seal, and that it implements SealedLog.      *)
(***************************************************************************)
EXTENDS EvidenceCapture, FiniteSetTheorems, SequenceTheorems, TLAPS

-----------------------------------------------------------------------------
(* What write_record leaves behind, written or not: the file and what the  *)
(* writer holds together are the old log and the record, and a write that  *)
(* succeeds leaves nothing in the writer.                                  *)
LEMMA WriteOutcomesAppend ==
  ASSUME NEW S, file \in Seq(S), buffer \in Seq(S), NEW r \in S,
         NEW w \in WriteOutcomes(r)
  PROVE  /\ w.file \in Seq(S) /\ w.buffer \in Seq(S) /\ w.ok \in BOOLEAN
         /\ w.file \o w.buffer = Append(file \o buffer, r)
         /\ w.ok => w.buffer = <<>>
<1> DEFINE pending == Append(buffer, r)
<1>1. pending \in Seq(S) /\ Len(pending) = Len(buffer) + 1
  OBVIOUS
<1>2. file \o pending = Append(file \o buffer, r)
  OBVIOUS
<1>3. CASE w = [file |-> file \o pending, buffer |-> <<>>, ok |-> TRUE]
  BY <1>1, <1>2, <1>3
<1>4. CASE \E k \in 0 .. Len(buffer) :
             w = [file   |-> file \o SubSeq(pending, 1, k),
                  buffer |-> SubSeq(pending, k + 1, Len(pending)),
                  ok     |-> FALSE]
  <2>1. PICK k \in 0 .. Len(buffer) :
             w = [file   |-> file \o SubSeq(pending, 1, k),
                  buffer |-> SubSeq(pending, k + 1, Len(pending)),
                  ok     |-> FALSE]
    BY <1>4
  <2> DEFINE front == SubSeq(pending, 1, k)
             back  == SubSeq(pending, k + 1, Len(pending))
  <2>2. /\ front \in Seq(S) /\ Len(front) = k
        /\ back \in Seq(S) /\ Len(back) = Len(pending) - k
    <3>1. \A i \in 1 .. Len(pending) : pending[i] \in S
      BY <1>1, ElementOfSeq
    <3> HIDE DEF pending
    <3> QED BY <1>1, <2>1, <3>1, SubSeqProperties
  <2>3. front \o back = pending
    <3> HIDE DEF pending
    <3>1. 1 \in 1 .. Len(pending) + 1 /\ k \in 1 - 1 .. Len(pending)
          /\ Len(pending) \in k .. Len(pending)
      BY <1>1, <2>1
    <3> QED BY <1>1, <3>1, ConcatAdjacentSubSeq, SubSeqFull
  <2>4. (file \o front) \o back = file \o (front \o back)
    <3> HIDE DEF front, back
    <3>1. front \in Seq(S) /\ back \in Seq(S)
      BY <2>2
    <3> QED BY <3>1
  <2>5. w.file = file \o front /\ w.buffer = back /\ w.ok = FALSE
    BY <2>1
  <2>6. w.file \in Seq(S)
    <3> HIDE DEF front, back
    <3> QED BY <2>2, <2>5
  <2>7. w.file \o w.buffer = file \o pending
    <3> HIDE DEF front, back, pending
    <3> QED BY <2>3, <2>4, <2>5
  <2> HIDE DEF front, back, pending
  <2> QED BY <2>2, <2>5, <2>6, <2>7, <1>2
<1> QED BY <1>3, <1>4 DEF WriteOutcomes

(* The same, seen by write_summary: sealing with no error leaves the writer *)
(* empty, and sealing again changes nothing.                               *)
LEMMA SealOutcomesSealed ==
  ASSUME NEW seal \in SealOutcomes
  PROVE  /\ captureState = "open" /\ seal.log.ok => seal.log.buffer = <<>>
         /\ captureState # "open" =>
              seal = [state |-> state,
                      log |-> [file |-> file, buffer |-> buffer, ok |-> TRUE]]
<1>1. CASE captureState = "open"
  <2>1. PICK w \in WriteOutcomes(NewSynthetic("monitor-stop")) :
          seal = [state |-> NextSynthetic("monitor-stop"), log |-> w]
    BY <1>1 DEF SealOutcomes
  <2>2. w.ok => w.buffer = <<>>
    BY <2>1 DEF WriteOutcomes
  <2> QED BY <1>1, <2>1, <2>2
<1>2. CASE captureState # "open"
  BY <1>2 DEF SealOutcomes
<1> QED BY <1>1, <1>2

-----------------------------------------------------------------------------
(* SealMatchesPhase is inductive: write_summary is the one action that     *)
(* changes capture_state, and an error leaves phase and capture_state in   *)
(* step.                                                                   *)
LEMMA SealInit == Init => SealMatchesPhase
BY DEF Init, SealMatchesPhase

LEMMA SealStep ==
  ASSUME SealMatchesPhase, [Next]_vars
  PROVE  SealMatchesPhase'
<1> USE DEF SealMatchesPhase
<1>1. CASE WriteWorkloadTargetBound
  BY <1>1 DEF WriteWorkloadTargetBound, WriteRecord
<1>2. CASE BindTpmSessionStart
  BY <1>2 DEF BindTpmSessionStart, logVars
<1>3. CASE ProcessMalformedSample
  BY <1>3 DEF ProcessMalformedSample, logVars
<1>4. CASE ProcessUnknownIndex
  BY <1>4 DEF ProcessUnknownIndex, Abort, logVars
<1>5. ASSUME NEW e \in Event, ProcessSample(e)
      PROVE  SealMatchesPhase'
  <2>1. phase = "collecting" /\ UNCHANGED captureState
    BY <1>5 DEF ProcessSample
  <2>2. phase' \in {"collecting", "aborted"}
    BY <1>5, <2>1 DEF ProcessSample, Abort, WriteRecord
  <2> QED BY <2>1, <2>2
<1>6. ASSUME NEW lost \in 0 .. MaxLost, WriteSummary(lost)
      PROVE  SealMatchesPhase'
  <2>1. phase \in {"collecting", "retrying"} /\ captureState # "finalized"
    BY <1>6 DEF WriteSummary
  <2>2. PICK seal \in SealOutcomes :
          /\ buffer' = seal.log.buffer
          /\ \/ /\ ~seal.log.ok
                /\ phase' \in {"retrying", "aborted"}
                /\ UNCHANGED captureState
             \/ /\ seal.log.ok
                /\ phase' \in {"retrying", "aborted"}
                /\ captureState' = "stop-written"
             \/ /\ seal.log.ok
                /\ phase' = "finished"
                /\ captureState' = "finalized"
    BY <1>6 DEF WriteSummary
  <2>3. /\ captureState = "open" /\ seal.log.ok => seal.log.buffer = <<>>
        /\ captureState # "open" =>
             seal.log.buffer = buffer /\ seal.log.ok = TRUE
    BY SealOutcomesSealed
  <2> QED BY <2>1, <2>2, <2>3
<1>7. CASE Kill
  BY <1>7 DEF Kill, Running, Abort
<1>8. CASE DropWriter
  BY <1>8 DEF DropWriter
<1>9. CASE UNCHANGED vars
  BY <1>9 DEF vars
<1> QED BY <1>1, <1>2, <1>3, <1>4, <1>5, <1>6, <1>7, <1>8, <1>9 DEF Next

(* Only an open capture takes records, and a sealed one is empty-handed.   *)
THEOREM CaptureSealMatchesPhase == Spec => []SealMatchesPhase
BY SealInit, SealStep, PTL DEF Spec

(* A sealed log never changes again, nor do summary and PCR once the       *)
(* capture is finalized: the retry of write_summary cannot append a second *)
(* monitor-stop or extend after it has reported success.                   *)
THEOREM SealedLogStaysFrozen == Spec => SealedIsFrozen
<1> DEFINE Frozen ==
      /\ captureState # "open" => UNCHANGED logVars
      /\ captureState = "finalized" => UNCHANGED <<summaryFile, pcr>>
<1>1. ASSUME SealMatchesPhase, Next PROVE Frozen
  <2> USE DEF SealMatchesPhase
  <2>1. CASE \/ WriteWorkloadTargetBound \/ BindTpmSessionStart
             \/ ProcessMalformedSample \/ ProcessUnknownIndex
             \/ \E e \in Event : ProcessSample(e)
    BY <1>1, <2>1 DEF WriteWorkloadTargetBound, BindTpmSessionStart,
       ProcessMalformedSample, ProcessUnknownIndex, ProcessSample
  <2>2. ASSUME NEW lost \in 0 .. MaxLost, WriteSummary(lost) PROVE Frozen
    <3>1. captureState # "finalized"
      BY <1>1, <2>2 DEF WriteSummary
    <3>2. PICK seal \in SealOutcomes :
            /\ state' = seal.state
            /\ file' = seal.log.file
            /\ buffer' = seal.log.buffer
      BY <2>2 DEF WriteSummary
    <3>3. captureState # "open" =>
            seal = [state |-> state,
                    log |-> [file |-> file, buffer |-> buffer, ok |-> TRUE]]
      BY SealOutcomesSealed
    <3> QED BY <3>1, <3>2, <3>3 DEF logVars
  <2>3. CASE Kill
    BY <2>3 DEF Kill, logVars
  <2>4. CASE DropWriter
    BY <1>1, <2>4 DEF DropWriter
  <2> QED BY <1>1, <2>1, <2>2, <2>3, <2>4 DEF Next
<1>2. SealMatchesPhase /\ [Next]_vars => [Frozen]_vars
  BY <1>1
<1>3. Spec => [][Frozen]_vars
  BY <1>2, CaptureSealMatchesPhase, PTL DEF Spec
<1> QED BY <1>3 DEF SealedIsFrozen

-----------------------------------------------------------------------------
(* Types of the building blocks.                                           *)
LEMMA HashTypes ==
  /\ \A n \in Nat, e \in Event : EventHash(Session, n, e) \in Hash
  /\ \A n \in Nat, type \in LifecycleTypes :
       SyntheticHash(Session, n, type, Reason(type)) \in Hash
BY DEF EventHash, SyntheticHash, Hash

LEMMA VerdictTypes ==
  \A e \in Event : Verdict[e] \in VerdictSet /\ Verdict[e].class \in Classes
BY VerdictType DEF VerdictSet

LEMMA AdvanceType ==
  ASSUME NEW st \in EvidenceState, NEW what \in Classes \union {"synthetic"},
         NEW hash \in Hash
  PROVE  /\ Advance(st, what, hash) \in EvidenceState
         /\ Advance(st, what, hash).next = st.next + 1
         /\ Advance(st, what, hash).head = Append(st.head, hash)
<1>1. st.next \in Nat \ {0} /\ st.counts \in Counts /\ st.head \in ChainHead
  BY DEF EvidenceState
<1>2. [st.counts EXCEPT ![what] = @ + 1] \in Counts
  BY <1>1 DEF Counts
<1>3. Append(st.head, hash) \in ChainHead
  BY <1>1 DEF ChainHead
<1> QED BY <1>1, <1>2, <1>3 DEF Advance, UpdateChain, EvidenceState

LEMMA NewSyntheticType ==
  ASSUME state \in EvidenceState, NEW type \in LifecycleTypes
  PROVE  /\ NextSynthetic(type) \in EvidenceState
         /\ NewSynthetic(type) \in Record
<1>1. SyntheticHash(Session, state.next, type, Reason(type)) \in Hash /\ state.next \in Nat
  BY HashTypes DEF EvidenceState
<1>2. NextSynthetic(type) \in EvidenceState
  BY <1>1, AdvanceType DEF NextSynthetic
<1>3. NextSynthetic(type).head \in ChainHead
  BY <1>2 DEF EvidenceState
<1> QED BY <1>1, <1>2, <1>3 DEF NewSynthetic, SyntheticRecord, Record

(* A step of the log keeps file and buffer sequences of records.           *)
LEMMA WriteRecordType ==
  ASSUME file \in Seq(Record), buffer \in Seq(Record), NEW r \in Record,
         NEW then, NEW met, WriteRecord(r, then, met)
  PROVE  /\ file' \in Seq(Record) /\ buffer' \in Seq(Record)
         /\ phase' \in {then, "aborted"}
         /\ faults' \subseteq faults \union met \union {"record"}
<1>1. PICK w \in WriteOutcomes(r) :
        /\ file' = w.file
        /\ buffer' = w.buffer
        /\ phase' = IF w.ok THEN then ELSE "aborted"
        /\ faults' = faults \union met \union (IF w.ok THEN {} ELSE {"record"})
  BY DEF WriteRecord
<1>2. w.file \in Seq(Record) /\ w.buffer \in Seq(Record)
  BY WriteOutcomesAppend
<1> QED BY <1>1, <1>2

LEMMA ExtendType ==
  ASSUME NEW p \in Pcr,
         NEW d \in StartDigest \union FinalDigest \union EventDigest
  PROVE  ReplayPcrExtend(p, d) \in Pcr
BY DEF ReplayPcrExtend, Pcr

(* What every TPM outcome is: a PCR, a TPM state, an error flag, faults.   *)
TpmOutcome ==
  [pcr : Pcr, tpm : TpmState, err : BOOLEAN, fault : SUBSET {"tpm", "digest"}]

LEMMA TpmBasicOutcomes ==
  ASSUME TypeOK
  PROVE  /\ \A p \in Pcr : RecordTpmFailure(p) \in TpmOutcome
         /\ \A p \in Pcr, t \in TpmState : TpmDone(p, t) \in TpmOutcome
<1>1. setup.failClosed \in BOOLEAN
  BY SetupAssumption DEF TypeOK
<1>2. [tpm EXCEPT !.failed = ~setup.failClosed] \in TpmState
  BY <1>1 DEF TypeOK, TpmState
<1> QED BY <1>1, <1>2 DEF RecordTpmFailure, TpmDone, TpmOutcome, TypeOK

LEMMA SessionStartType ==
  ASSUME TypeOK
  PROVE  SessionStartOutcomes \subseteq TpmOutcome
<1> DEFINE digest == SessionStartDigest(Session, setup.policyHash,
                                        setup.workload, setup.mode)
           fresh  == IF setup.resetPcr THEN <<>> ELSE pcr
           bound  == ReplayPcrExtend(fresh, digest)
<1>1. digest \in StartDigest
  BY DEF TypeOK, StartDigest
<1>2. fresh \in Pcr /\ pcr \in Pcr /\ tpm \in TpmState
  BY DEF TypeOK, Pcr
<1>3. bound \in Pcr
  BY <1>1, <1>2, ExtendType
<1>4. [initial |-> fresh, afterStart |-> bound, digest |-> digest] \in TpmBinding
  BY <1>1, <1>2, <1>3 DEF TpmBinding
<1> HIDE DEF digest, fresh, bound
<1>5. [tpm EXCEPT !.binding =
         [initial |-> fresh, afterStart |-> bound, digest |-> digest]] \in TpmState
  BY <1>2, <1>4 DEF TpmState
<1>6. SessionStartOutcomes \subseteq
        {TpmDone(pcr, tpm),
         TpmDone(bound, [tpm EXCEPT !.binding =
           [initial |-> fresh, afterStart |-> bound, digest |-> digest]])}
        \union {RecordTpmFailure(p) : p \in {pcr, fresh, bound}}
  BY DEF SessionStartOutcomes, digest, fresh, bound
<1> QED BY <1>2, <1>3, <1>5, <1>6, TpmBasicOutcomes

LEMMA EventExtendType ==
  ASSUME TypeOK, NEW seq \in Nat, NEW e \in Event
  PROVE  /\ EventExtendOutcomes(seq, e) \subseteq TpmOutcome
         /\ \A o \in EventExtendOutcomes(seq, e) : o.tpm.extends >= tpm.extends
<1> DEFINE digest == ClassifiedDigest(Session, seq, EventHash(Session, seq, e),
                                      Verdict[e])
           done   == ReplayPcrExtend(pcr, digest)
           more   == [tpm EXCEPT !.extends = @ + 1]
<1>1. digest \in EventDigest
  BY HashTypes, VerdictTypes DEF ClassifiedDigest, EventDigest
<1>2. pcr \in Pcr /\ tpm \in TpmState
  BY DEF TypeOK
<1>3. done \in Pcr
  BY <1>1, <1>2, ExtendType
<1>4. more \in TpmState /\ more.extends = tpm.extends + 1 /\ tpm.extends \in Nat
  BY <1>2 DEF TpmState
<1> HIDE DEF digest, done, more
<1>5. EventExtendOutcomes(seq, e) \subseteq
        {TpmDone(pcr, tpm), TpmDone(done, more)}
        \union {RecordTpmFailure(p) : p \in {pcr, done}}
  BY DEF EventExtendOutcomes, digest, done, more
<1>6. \A p : RecordTpmFailure(p).tpm.extends = tpm.extends
  BY <1>2 DEF RecordTpmFailure, TpmState
<1>7. \A p, t : TpmDone(p, t).tpm = t
  BY DEF TpmDone
<1> QED BY <1>2, <1>3, <1>4, <1>5, <1>6, <1>7, TpmBasicOutcomes

LEMMA QuoteType ==
  ASSUME TypeOK, NEW s \in TpmFinal, NEW p \in Pcr
  PROVE  QuoteOutcomes(s, p) \subseteq TpmOutcome
<1> DEFINE With(final, failed) ==
             [tpm EXCEPT !.final = final, !.quoteFailed = failed]
           quoted == [s EXCEPT !.quote = "genuine"]
<1>1. setup.failClosed \in BOOLEAN
  BY SetupAssumption DEF TypeOK
<1>2. quoted \in TpmFinal
  BY DEF TpmFinal
<1>3. \A final \in TpmFinal, failed \in BOOLEAN : With(final, failed) \in TpmState
  BY DEF TypeOK, TpmState
<1>4. tpm.quoteFailed \in BOOLEAN
  BY DEF TypeOK, TpmState
<1>5. QuoteOutcomes(s, p) \subseteq
        {TpmDone(p, With(s, tpm.quoteFailed)),
         TpmDone(p, With(quoted, tpm.quoteFailed)),
         [pcr |-> p, tpm |-> With(s, ~setup.failClosed),
          err |-> setup.failClosed, fault |-> {"tpm"}]}
  BY DEF QuoteOutcomes
<1> HIDE DEF With, quoted
<1>6. [pcr |-> p, tpm |-> With(s, ~setup.failClosed),
       err |-> setup.failClosed, fault |-> {"tpm"}] \in TpmOutcome
  BY <1>1, <1>3 DEF TpmOutcome
<1> QED BY <1>2, <1>3, <1>4, <1>5, <1>6, TpmBasicOutcomes

LEMMA FinalizeType ==
  ASSUME TypeOK, NEW digest \in FinalDigest
  PROVE  FinalizeOutcomes(digest) \subseteq TpmOutcome
<1> DEFINE done  == ReplayPcrExtend(pcr, digest)
           final == [extends    |-> tpm.extends,
                     initial    |-> tpm.binding.initial,
                     afterStart |-> tpm.binding.afterStart,
                     finalPcr   |-> done,
                     startDigest |-> tpm.binding.digest,
                     finalDigest |-> digest,
                     quote      |-> None]
           stale == [pcr |-> pcr, tpm |-> tpm, err |-> TRUE,
                     fault |-> {"digest"}]
<1>1. pcr \in Pcr /\ tpm \in TpmState
  BY DEF TypeOK
<1>2. done \in Pcr
  BY <1>1, ExtendType
<1>3. stale \in TpmOutcome
  BY <1>1 DEF TpmOutcome
<1>4. tpm.binding # None => final \in TpmFinal
  BY <1>1, <1>2 DEF TpmState, TpmBinding, TpmFinal
<1>5. tpm.final # None => tpm.final \in TpmFinal
  BY <1>1 DEF TpmState
<1> HIDE DEF done, final, stale
<1>6. /\ tpm.binding # None => QuoteOutcomes(final, done) \subseteq TpmOutcome
      /\ tpm.final # None => QuoteOutcomes(tpm.final, pcr) \subseteq TpmOutcome
  BY <1>1, <1>2, <1>4, <1>5, QuoteType
<1>7. FinalizeOutcomes(digest) \subseteq
        {TpmDone(pcr, tpm), stale}
        \union {RecordTpmFailure(p) : p \in {pcr, done}}
        \union (IF tpm.binding # None THEN QuoteOutcomes(final, done) ELSE {})
        \union (IF tpm.final # None THEN QuoteOutcomes(tpm.final, pcr) ELSE {})
  BY DEF FinalizeOutcomes, done, final, stale
<1> QED BY <1>1, <1>2, <1>3, <1>6, <1>7, TpmBasicOutcomes

LEMMA SealOutcomesType ==
  ASSUME TypeOK, NEW seal \in SealOutcomes
  PROVE  /\ seal.state \in EvidenceState
         /\ seal.log.file \in Seq(Record)
         /\ seal.log.buffer \in Seq(Record)
<1>1. "monitor-stop" \in LifecycleTypes
  BY DEF LifecycleTypes
<1>2. /\ NextSynthetic("monitor-stop") \in EvidenceState
      /\ NewSynthetic("monitor-stop") \in Record
  BY <1>1, NewSyntheticType DEF TypeOK
<1>3. file \in Seq(Record) /\ buffer \in Seq(Record) /\ state \in EvidenceState
  BY DEF TypeOK
<1>4. \A w \in WriteOutcomes(NewSynthetic("monitor-stop")) :
        w.file \in Seq(Record) /\ w.buffer \in Seq(Record)
  BY <1>2, <1>3, WriteOutcomesAppend
<1> QED BY <1>2, <1>3, <1>4 DEF SealOutcomes

LEMMA RuntimeSummaryType ==
  ASSUME TypeOK, NEW st \in EvidenceState, NEW lost \in Nat,
         NEW t \in TpmState
  PROVE  RuntimeSummary(st, lost, t) \in Summary
<1>1. Markers(t) \in SUBSET {"TPM binding failed open",
                            "TPM quote generation failed open"}
  BY DEF Markers
<1>2. AttestationStatus(st.counts, t) \in {"passed", "warning", "failed"}
  BY DEF AttestationStatus
<1>3. \A x \in TpmFinal : x.finalDigest \in FinalDigest
  BY DEF TpmFinal
<1>4. t.final \in {None} \union TpmFinal
  BY DEF TpmState
<1>5. st.counts \in Counts /\ st.head \in ChainHead
  BY DEF EvidenceState
<1>6. setup \in Setups
  BY DEF TypeOK
<1> QED BY <1>1, <1>2, <1>3, <1>4, <1>5, <1>6 DEF RuntimeSummary, Summary

-----------------------------------------------------------------------------
(* TypeOK is inductive. *)
LEMMA StartTypes ==
  /\ StartState \in EvidenceState
  /\ StartFile \in Seq(Record)
<1> DEFINE h1 == SyntheticHash(Session, 1, "monitor-start", Reason("monitor-start"))
           h2 == SyntheticHash(Session, 2, "policy-loaded", Reason("policy-loaded"))
<1>1. h1 \in Hash /\ h2 \in Hash
  BY HashTypes DEF LifecycleTypes
<1>2. NewState \in EvidenceState
  BY DEF NewState, EvidenceState, ZeroCounts, Counts, ChainHead
<1>3. StartState \in EvidenceState
  BY <1>1, <1>2, AdvanceType DEF StartState
<1>4. <<h1>> \in ChainHead /\ <<h1, h2>> \in ChainHead
  BY <1>1 DEF ChainHead
<1>5. "monitor-start" \in LifecycleTypes /\ "policy-loaded" \in LifecycleTypes
  BY DEF LifecycleTypes
<1> HIDE DEF h1, h2
<1>6. /\ SyntheticRecord(Session, 1, "monitor-start", h1, <<h1>>) \in Record
      /\ SyntheticRecord(Session, 2, "policy-loaded", h2, <<h1, h2>>) \in Record
  BY <1>1, <1>4, <1>5 DEF SyntheticRecord, Record
<1>7. StartFile \in Seq(Record)
  BY <1>6 DEF StartFile, h1, h2
<1> QED BY <1>3, <1>7

LEMMA TypeInit == Init => TypeOK
<1> SUFFICES ASSUME Init PROVE TypeOK
  OBVIOUS
<1>1. pcr \in Pcr
  BY DEF Init, Pcr
<1>2. tpm \in TpmState
  BY DEF Init, TpmState
<1> QED BY <1>1, <1>2, StartTypes DEF Init, TypeOK

(* The record process_sample makes of an event. *)
LEMMA RuntimeRecordType ==
  ASSUME TypeOK, NEW e \in Event, NEW extended \in BOOLEAN, NEW index \in Nat
  PROVE  LET hash == EventHash(Session, state.next, e)
             next == Advance(state, Verdict[e].class, hash)
         IN  /\ next \in EvidenceState
             /\ RuntimeRecord(Session, state.next, e, hash, next.head, extended,
                              index) \in Record
<1> DEFINE hash == EventHash(Session, state.next, e)
           next == Advance(state, Verdict[e].class, hash)
<1>1. state \in EvidenceState /\ state.next \in Nat
  BY DEF TypeOK, EvidenceState
<1>2. hash \in Hash
  BY <1>1, HashTypes
<1>3. next \in EvidenceState
  BY <1>1, <1>2, VerdictTypes, AdvanceType
<1>4. next.head \in ChainHead
  BY <1>3 DEF EvidenceState
<1> HIDE DEF hash, next
<1>5. RuntimeRecord(Session, state.next, e, hash, next.head, extended, index)
        \in Record
  BY <1>1, <1>2, <1>4, VerdictTypes DEF RuntimeRecord, Record
<1> QED BY <1>3, <1>5 DEF hash, next

LEMMA TypeStep ==
  ASSUME TypeOK, [Next]_vars
  PROVE  TypeOK'
<1> DEFINE Faults == {"tpm", "record", "summary", "digest", "kill", "index"}
<1>0. /\ file \in Seq(Record) /\ buffer \in Seq(Record)
      /\ state \in EvidenceState /\ tpm \in TpmState /\ pcr \in Pcr
      /\ samples \in Nat /\ malformed \in Nat /\ calls \in Nat
      /\ faults \subseteq Faults
  BY DEF TypeOK
<1>1. CASE WriteWorkloadTargetBound
  <2> DEFINE type == "workload-target-bound"
  <2>1. NextSynthetic(type) \in EvidenceState /\ NewSynthetic(type) \in Record
    BY <1>0, NewSyntheticType DEF LifecycleTypes
  <2>2. WriteRecord(NewSynthetic(type), "bound", {})
    BY <1>1 DEF WriteWorkloadTargetBound
  <2>3. /\ file' \in Seq(Record) /\ buffer' \in Seq(Record)
        /\ phase' \in {"bound", "aborted"} /\ faults' \subseteq Faults
    <3> HIDE DEF type
    <3>1. /\ file' \in Seq(Record) /\ buffer' \in Seq(Record)
          /\ phase' \in {"bound", "aborted"}
          /\ faults' \subseteq faults \union {} \union {"record"}
      BY <1>0, <2>1, <2>2, WriteRecordType, Zenon
    <3> QED BY <1>0, <3>1
  <2> QED BY <1>1, <2>1, <2>3 DEF WriteWorkloadTargetBound, TypeOK, tpmVars
<1>2. CASE BindTpmSessionStart
  <2>1. PICK o \in SessionStartOutcomes :
          /\ pcr' = o.pcr
          /\ tpm' = o.tpm
          /\ phase' = IF o.err THEN "aborted" ELSE "collecting"
          /\ faults' = faults \union o.fault
    BY <1>2 DEF BindTpmSessionStart
  <2>2. o \in TpmOutcome
    BY SessionStartType
  <2>3. /\ pcr' \in Pcr /\ tpm' \in TpmState /\ faults' \subseteq Faults
        /\ phase' \in {"aborted", "collecting"}
    BY <1>0, <2>1, <2>2 DEF TpmOutcome
  <2> QED BY <1>2, <2>3 DEF BindTpmSessionStart, TypeOK, logVars
<1>3. CASE ProcessMalformedSample
  BY <1>3 DEF ProcessMalformedSample, TypeOK, logVars, tpmVars
<1>4. CASE ProcessUnknownIndex
  BY <1>4 DEF ProcessUnknownIndex, Abort, TypeOK, logVars, tpmVars
<1>5. ASSUME NEW e \in Event, ProcessSample(e)
      PROVE  TypeOK'
  <2> DEFINE hash == EventHash(Session, state.next, e)
             next == Advance(state, Verdict[e].class, hash)
             Extended(o) == o.tpm.extends > tpm.extends
             Index(o) == IF Extended(o) THEN o.tpm.extends ELSE 0
             NewRecord(o) == RuntimeRecord(Session, state.next, e, hash,
                               next.head, Extended(o), Index(o))
  <2> HIDE DEF hash, next, Extended, Index, NewRecord
  <2>1. PICK o \in EventExtendOutcomes(state.next, e) :
          /\ pcr' = o.pcr
          /\ tpm' = o.tpm
          /\ IF o.err
             THEN Abort("tpm") /\ UNCHANGED <<file, buffer>>
             ELSE WriteRecord(NewRecord(o), phase, o.fault)
    BY <1>5 DEF ProcessSample, hash, next, Extended, Index, NewRecord
  <2>2. o \in TpmOutcome
    BY <1>0, EventExtendType DEF EvidenceState
  <2>3. pcr' \in Pcr /\ tpm' \in TpmState /\ o.fault \subseteq Faults
    BY <2>1, <2>2 DEF TpmOutcome
  <2>4. Extended(o) \in BOOLEAN /\ Index(o) \in Nat
    BY <2>2 DEF TpmOutcome, TpmState, Extended, Index
  <2>5. next \in EvidenceState /\ NewRecord(o) \in Record
    BY <2>4, RuntimeRecordType DEF next, hash, NewRecord
  <2>6. /\ file' \in Seq(Record) /\ buffer' \in Seq(Record)
        /\ phase' \in {phase, "aborted"} /\ faults' \subseteq Faults
    <3>1. CASE o.err
      BY <1>0, <2>1, <3>1 DEF Abort
    <3>2. CASE ~o.err
      BY <1>0, <2>1, <2>3, <2>5, <3>2, WriteRecordType
    <3> QED BY <3>1, <3>2
  <2>7. /\ state' = next /\ samples' = samples + 1
        /\ UNCHANGED <<setup, captureState, malformed, summaryFile, calls>>
    BY <1>5 DEF ProcessSample, next, hash
  <2> QED BY <2>3, <2>5, <2>6, <2>7 DEF TypeOK
<1>6. ASSUME NEW lost \in 0 .. MaxLost, WriteSummary(lost)
      PROVE  TypeOK'
  <2> DEFINE digest(seal) == FinalSummaryDigest(Session, seal.state.head,
                               seal.state.counts, lost, setup.policyHash)
             onError == IF calls + 1 < MaxSummaryCalls THEN "retrying"
                        ELSE "aborted"
  <2>0. PICK seal \in SealOutcomes :
          /\ state' = seal.state
          /\ file' = seal.log.file
          /\ buffer' = seal.log.buffer
          /\ IF ~seal.log.ok
             THEN /\ phase' = onError
                  /\ faults' = faults \union {"record"}
                  /\ UNCHANGED <<captureState, tpmVars, summaryFile>>
             ELSE \E o \in FinalizeOutcomes(digest(seal)) :
                  /\ pcr' = o.pcr
                  /\ tpm' = o.tpm
                  /\ IF o.err
                     THEN /\ phase' = onError
                          /\ captureState' = "stop-written"
                          /\ faults' = faults \union o.fault
                          /\ UNCHANGED summaryFile
                     ELSE \E w \in SummaryOutcomes(
                                 RuntimeSummary(seal.state, lost, o.tpm)) :
                          /\ summaryFile' = w.file
                          /\ phase' = IF w.ok THEN "finished" ELSE onError
                          /\ captureState' =
                               IF w.ok THEN "finalized" ELSE "stop-written"
                          /\ faults' = faults \union o.fault \union
                               (IF w.ok THEN {} ELSE {"summary"})
    BY <1>6 DEF WriteSummary
  <2>1. /\ state' \in EvidenceState
        /\ file' \in Seq(Record) /\ buffer' \in Seq(Record)
    BY <2>0, SealOutcomesType
  <2>2. calls' \in Nat /\ UNCHANGED <<setup, malformed, samples>>
    BY <1>0, <1>6 DEF WriteSummary
  <2>3. onError \in {"retrying", "aborted"}
    OBVIOUS
  <2>4. CASE ~seal.log.ok
    BY <2>0, <2>1, <2>2, <2>3, <2>4 DEF TypeOK, tpmVars
  <2>5. CASE seal.log.ok
    <3>1. seal.state \in EvidenceState /\ lost \in Nat /\ setup \in Setups
      BY BoundsAssumption, SealOutcomesType DEF TypeOK
    <3>2. digest(seal) \in FinalDigest
      BY <3>1 DEF FinalSummaryDigest, FinalDigest, EvidenceState
    <3> HIDE DEF digest, onError
    <3>3. PICK o \in FinalizeOutcomes(digest(seal)) :
            /\ pcr' = o.pcr
            /\ tpm' = o.tpm
            /\ IF o.err
               THEN /\ phase' = onError
                    /\ captureState' = "stop-written"
                    /\ faults' = faults \union o.fault
                    /\ UNCHANGED summaryFile
               ELSE \E w \in SummaryOutcomes(
                           RuntimeSummary(seal.state, lost, o.tpm)) :
                    /\ summaryFile' = w.file
                    /\ phase' = IF w.ok THEN "finished" ELSE onError
                    /\ captureState' =
                         IF w.ok THEN "finalized" ELSE "stop-written"
                    /\ faults' = faults \union o.fault \union
                         (IF w.ok THEN {} ELSE {"summary"})
      BY <2>0, <2>5
    <3>4. o \in TpmOutcome
      BY <3>2, FinalizeType
    <3>5. /\ pcr' \in Pcr /\ tpm' \in TpmState /\ o.tpm \in TpmState
          /\ o.fault \subseteq Faults
      BY <3>3, <3>4 DEF TpmOutcome
    <3>6. CASE o.err
      BY <1>0, <2>1, <2>2, <2>3, <3>3, <3>5, <3>6 DEF TypeOK
    <3>7. CASE ~o.err
      <4> DEFINE summary == RuntimeSummary(seal.state, lost, o.tpm)
      <4>1. summary \in Summary
        BY <3>1, <3>5, RuntimeSummaryType
      <4> HIDE DEF summary
      <4>2. PICK w \in SummaryOutcomes(summary) :
              /\ summaryFile' = w.file
              /\ phase' = IF w.ok THEN "finished" ELSE onError
              /\ captureState' = IF w.ok THEN "finalized" ELSE "stop-written"
              /\ faults' = faults \union o.fault \union
                   (IF w.ok THEN {} ELSE {"summary"})
        BY <3>3, <3>7 DEF summary
      <4>3. w.file \in {summary, Torn, summaryFile}
        BY DEF SummaryOutcomes
      <4>4. summaryFile' \in {None, Torn, EarlierSummary} \union Summary
        BY <4>1, <4>2, <4>3 DEF TypeOK
      <4>5. /\ phase' \in {"finished", "retrying", "aborted"}
            /\ captureState' \in {"finalized", "stop-written"}
            /\ faults' \subseteq Faults
        BY <1>0, <2>3, <3>5, <4>2
      <4> QED BY <2>1, <2>2, <3>5, <4>4, <4>5 DEF TypeOK
    <3> QED BY <3>6, <3>7
  <2> QED BY <2>4, <2>5
<1>7. CASE Kill
  BY <1>7 DEF Kill, Abort, TypeOK
<1>8. CASE DropWriter
  <2>1. PICK k \in 0 .. Len(buffer) : file' = file \o SubSeq(buffer, 1, k)
    BY <1>8 DEF DropWriter
  <2>2. SubSeq(buffer, 1, k) \in Seq(Record)
    BY <1>0, <2>1
  <2>3. file' \in Seq(Record) /\ buffer' \in Seq(Record)
    BY <1>0, <1>8, <2>1, <2>2 DEF DropWriter
  <2> QED BY <1>8, <2>3 DEF DropWriter, TypeOK, tpmVars
<1>9. CASE UNCHANGED vars
  BY <1>9 DEF vars, TypeOK
<1> QED BY <1>1, <1>2, <1>3, <1>4, <1>5, <1>6, <1>7, <1>8, <1>9 DEF Next

(* The variables of the capture keep their types, whatever fails. *)
THEOREM CaptureTypeCorrect == Spec => []TypeOK
BY TypeInit, TypeStep, PTL DEF Spec

-----------------------------------------------------------------------------
(* The log replays. ReplaysTo(log, head) says of any log what LogReplays   *)
(* says of Log while main has not given up: it is the part to carry        *)
(* through the steps.                                                      *)
ReplaysTo(log, head) ==
  /\ \A i \in 1 .. Len(log) :
       /\ log[i].seq = i
       /\ log[i].hash = RecordHash(Session, log[i])
       /\ log[i].head = ReplayHead(Session, log, i)
  /\ head = ReplayHead(Session, log, Len(log))

(* A log and its prefixes have the same heads. *)
LEMMA ReplayHeadOfPrefix ==
  ASSUME NEW log, NEW other, NEW n \in Nat,
         \A i \in 1 .. n : other[i] = log[i]
  PROVE  ReplayHead(Session, other, n) = ReplayHead(Session, log, n)
BY DEF ReplayHead

(* Appending a record that says where it is and carries the extended head. *)
LEMMA AppendReplays ==
  ASSUME NEW log \in Seq(Record), NEW head, ReplaysTo(log, head),
         NEW r \in Record, r.seq = Len(log) + 1,
         r.hash = RecordHash(Session, r), r.head = Append(head, r.hash)
  PROVE  ReplaysTo(Append(log, r), Append(head, r.hash))
<1> DEFINE new == Append(log, r)
           n   == Len(log)
<1>1. n \in Nat /\ Len(new) = n + 1 /\ new[n + 1] = r
  OBVIOUS
<1>2. \A i \in 1 .. n : new[i] = log[i]
  OBVIOUS
<1> HIDE DEF new, n
<1>3. \A i \in 1 .. n : ReplayHead(Session, new, i) = ReplayHead(Session, log, i)
  <2> SUFFICES ASSUME NEW i \in 1 .. n
               PROVE  ReplayHead(Session, new, i) = ReplayHead(Session, log, i)
    OBVIOUS
  <2>1. i \in Nat /\ \A j \in 1 .. i : new[j] = log[j]
    BY <1>1, <1>2
  <2> QED BY <2>1, ReplayHeadOfPrefix
<1>4. head = [i \in 1 .. n |-> RecordHash(Session, log[i])]
  BY DEF ReplaysTo, ReplayHead, n
<1>5. Append(head, r.hash) = ReplayHead(Session, new, n + 1)
  <2> DEFINE H(i) == RecordHash(Session, log[i])
             K(i) == RecordHash(Session, new[i])
  <2>1. \A i \in 1 .. n : K(i) = H(i)
    BY <1>2
  <2>2. K(n + 1) = r.hash
    BY <1>1
  <2>3. head = [i \in 1 .. n |-> H(i)]
    BY <1>4
  <2>4. ReplayHead(Session, new, n + 1) = [i \in 1 .. n + 1 |-> K(i)]
    BY DEF ReplayHead
  <2> HIDE DEF H, K
  <2>5. Len(head) = n /\ \A i \in 1 .. n : head[i] = H(i)
    BY <1>1, <2>3
  <2>6. Append(head, r.hash) = [i \in 1 .. n + 1 |-> K(i)]
    BY <1>1, <2>1, <2>2, <2>3, <2>5
  <2> QED BY <2>4, <2>6
<1>6. \A i \in 1 .. n + 1 :
        /\ new[i].seq = i
        /\ new[i].hash = RecordHash(Session, new[i])
        /\ new[i].head = ReplayHead(Session, new, i)
  <2> SUFFICES ASSUME NEW i \in 1 .. n + 1
               PROVE  /\ new[i].seq = i
                      /\ new[i].hash = RecordHash(Session, new[i])
                      /\ new[i].head = ReplayHead(Session, new, i)
    OBVIOUS
  <2>1. CASE i \in 1 .. n
    BY <1>2, <1>3, <2>1 DEF ReplaysTo, n
  <2>2. CASE i = n + 1
    BY <1>1, <1>5, <2>2 DEF n
  <2> QED BY <1>1, <2>1, <2>2
<1> QED BY <1>1, <1>5, <1>6 DEF ReplaysTo, new

(* LogReplays in terms of ReplaysTo. *)
LEMMA LogReplaysUnfolded ==
  ASSUME Log \in Seq(Record)
  PROVE  /\ phase # "aborted" =>
              (LogReplays <=> ReplaysTo(Log, state.head)
                              /\ state.next = Len(Log) + 1)
         /\ ReplaysTo(Log, ReplayHead(Session, Log, Len(Log))) /\ phase = "aborted"
              => LogReplays
BY DEF LogReplays, ReplaysTo

LEMMA LogType ==
  TypeOK => Log \in Seq(Record)
BY ConcatProperties DEF TypeOK, Log

(* Any step that hands a well-made record to write_record.                 *)
LEMMA WrittenLogReplays ==
  ASSUME TypeOK, LogReplays, phase # "aborted", NEW r \in Record,
         NEW w \in WriteOutcomes(r), file' = w.file, buffer' = w.buffer,
         r.seq = state.next, r.hash = RecordHash(Session, r),
         r.head = Append(state.head, r.hash),
         state'.head = r.head, state'.next = state.next + 1
  PROVE  LogReplays'
<1>1. /\ file \in Seq(Record) /\ buffer \in Seq(Record)
      /\ Log \in Seq(Record)
  BY LogType DEF TypeOK
<1>2. Log' = Append(Log, r)
  BY <1>1, WriteOutcomesAppend DEF Log
<1>3. ReplaysTo(Log, state.head) /\ state.next = Len(Log) + 1
  BY <1>1, LogReplaysUnfolded
<1>4. ReplaysTo(Append(Log, r), Append(state.head, r.hash))
  BY <1>1, <1>3, AppendReplays
<1>5. ReplaysTo(Log', state'.head)
  BY <1>2, <1>4
<1>6. state'.next = Len(Log') + 1 /\ Log' \in Seq(Record)
  BY <1>1, <1>2, <1>3
<1> HIDE DEF Log
<1> QED BY <1>5, <1>6 DEF LogReplays, ReplaysTo

LEMMA SyntheticIsWellMade ==
  ASSUME TypeOK, NEW type \in LifecycleTypes
  PROVE  LET r == NewSynthetic(type)
         IN  /\ r \in Record /\ r.seq = state.next
             /\ r.hash = RecordHash(Session, r)
             /\ r.head = Append(state.head, r.hash)
             /\ NextSynthetic(type).head = r.head
             /\ NextSynthetic(type).next = state.next + 1
<1>1. state \in EvidenceState /\ state.next \in Nat
  BY DEF TypeOK, EvidenceState
<1>2. NewSynthetic(type) \in Record
  BY <1>1, NewSyntheticType
<1> QED BY <1>1, <1>2
        DEF NewSynthetic, SyntheticRecord, NextSynthetic, Advance, UpdateChain,
            RecordHash, IsEvent

LEMMA AppendToSingleton ==
  ASSUME NEW a, NEW b
  PROVE  Append(<<a>>, b) = <<a, b>>
<1> DEFINE s == Append(<<a>>, b)
           t == <<a, b>>
<1>1. <<a>> \in Seq({a, b}) /\ t \in Seq({a, b})
  OBVIOUS
<1>2. s \in Seq({a, b}) /\ Len(s) = 2 /\ s[1] = a /\ s[2] = b
  BY <1>1, AppendProperties
<1>3. Len(t) = 2 /\ t[1] = a /\ t[2] = b
  OBVIOUS
<1> HIDE DEF s, t
<1>4. \A i \in 1 .. Len(s) : s[i] = t[i]
  BY <1>2, <1>3
<1>5. s = t
  BY <1>1, <1>2, <1>3, <1>4, SeqEqual
<1> QED BY <1>5 DEF s, t

LEMMA LogInit == Init => LogReplays
<1> SUFFICES ASSUME Init PROVE LogReplays
  OBVIOUS
<1> DEFINE h1 == SyntheticHash(Session, 1, "monitor-start", Reason("monitor-start"))
           h2 == SyntheticHash(Session, 2, "policy-loaded", Reason("policy-loaded"))
           r1 == SyntheticRecord(Session, 1, "monitor-start", h1, <<h1>>)
           r2 == SyntheticRecord(Session, 2, "policy-loaded", h2, <<h1, h2>>)
<1>1. Log = <<r1, r2>>
  <2>1. file = <<r1, r2>> /\ buffer = <<>>
    BY DEF Init, StartFile
  <2>2. <<r1, r2>> \in Seq({r1, r2})
    OBVIOUS
  <2> HIDE DEF r1, r2
  <2> QED BY <2>1, <2>2, ConcatEmptySeq DEF Log
<1>2. /\ r1.seq = 1 /\ r1.hash = h1 /\ r1.head = <<h1>>
      /\ r2.seq = 2 /\ r2.hash = h2 /\ r2.head = <<h1, h2>>
      /\ RecordHash(Session, r1) = h1 /\ RecordHash(Session, r2) = h2
  BY DEF SyntheticRecord, RecordHash, IsEvent
<1>3. state.next = 3 /\ state.head = <<h1, h2>>
  <2> DEFINE s1 == Advance(NewState, "synthetic", h1)
  <2>1. NewState.next = 1 /\ NewState.head = <<>>
    BY DEF NewState
  <2>2. s1.next = 2 /\ s1.head = Append(<<>>, h1)
    <3> HIDE DEF h1
    <3> QED BY <2>1 DEF Advance, UpdateChain
  <2>3. state = Advance(s1, "synthetic", h2)
    BY DEF Init, StartState
  <2> HIDE DEF s1, h1, h2
  <2>4. state.next = 3 /\ state.head = Append(Append(<<>>, h1), h2)
    BY <2>2, <2>3 DEF Advance, UpdateChain
  <2>5. Append(<<>>, h1) = <<h1>>
    OBVIOUS
  <2> QED BY <2>4, <2>5, AppendToSingleton, Zenon
<1> HIDE DEF h1, h2, r1, r2
<1>4. /\ ReplayHead(Session, Log, 1) = <<h1>>
      /\ ReplayHead(Session, Log, 2) = <<h1, h2>>
  BY <1>1, <1>2 DEF ReplayHead
<1>5. DOMAIN Log = {1, 2} /\ Len(Log) = 2 /\ Log[1] = r1 /\ Log[2] = r2
  BY <1>1
<1> HIDE DEF Log
<1> QED BY <1>2, <1>3, <1>4, <1>5 DEF LogReplays

LEMMA LogStep ==
  ASSUME TypeOK, LogReplays, [Next]_vars
  PROVE  LogReplays'
<1>0. Log \in Seq(Record) /\ state \in EvidenceState
  BY LogType DEF TypeOK
<1>1. ASSUME UNCHANGED <<file, buffer>>,
             phase' = "aborted" \/ (phase # "aborted" /\ UNCHANGED state)
      PROVE  LogReplays'
  <2>1. UNCHANGED Log
    BY <1>1 DEF Log
  <2> HIDE DEF Log
  <2> QED BY <1>1, <2>1 DEF LogReplays
<1>2. CASE WriteWorkloadTargetBound
  <2> DEFINE r == NewSynthetic("workload-target-bound")
  <2>1. PICK w \in WriteOutcomes(r) : file' = w.file /\ buffer' = w.buffer
    BY <1>2 DEF WriteWorkloadTargetBound, WriteRecord
  <2>2. phase # "aborted" /\ state' = NextSynthetic("workload-target-bound")
    BY <1>2 DEF WriteWorkloadTargetBound
  <2>3. "workload-target-bound" \in LifecycleTypes
    BY DEF LifecycleTypes
  <2>4. /\ r \in Record /\ r.seq = state.next
        /\ r.hash = RecordHash(Session, r)
        /\ r.head = Append(state.head, r.hash)
        /\ state'.head = r.head /\ state'.next = state.next + 1
    BY <2>2, <2>3, SyntheticIsWellMade
  <2> HIDE DEF r
  <2> QED BY <2>1, <2>2, <2>4, WrittenLogReplays
<1>3. CASE BindTpmSessionStart \/ ProcessMalformedSample \/ ProcessUnknownIndex
           \/ Kill
  <2>1. /\ UNCHANGED <<file, buffer, state>>
        /\ phase # "aborted"
    BY <1>3 DEF BindTpmSessionStart, ProcessMalformedSample,
       ProcessUnknownIndex, Kill, Running, logVars
  <2> QED BY <1>1, <2>1
<1>4. ASSUME NEW e \in Event, ProcessSample(e)
      PROVE  LogReplays'
  <2> DEFINE hash == EventHash(Session, state.next, e)
             next == Advance(state, Verdict[e].class, hash)
             Extended(o) == o.tpm.extends > tpm.extends
             Index(o) == IF Extended(o) THEN o.tpm.extends ELSE 0
             NewRecord(o) == RuntimeRecord(Session, state.next, e, hash,
                               next.head, Extended(o), Index(o))
  <2>1. PICK o \in EventExtendOutcomes(state.next, e) :
          IF o.err
          THEN Abort("tpm") /\ UNCHANGED <<file, buffer>>
          ELSE WriteRecord(NewRecord(o), phase, o.fault)
    BY <1>4 DEF ProcessSample
  <2>2. phase # "aborted" /\ state' = next
    BY <1>4 DEF ProcessSample
  <2>3. CASE o.err
    BY <1>1, <2>1, <2>3 DEF Abort
  <2>4. CASE ~o.err
    <3>1. o \in TpmOutcome
      BY <1>0, EventExtendType DEF EvidenceState
    <3>2. Extended(o) \in BOOLEAN /\ Index(o) \in Nat
      BY <3>1 DEF TpmOutcome, TpmState
    <3> HIDE DEF Extended, Index
    <3>3. NewRecord(o) \in Record
      BY <3>2, RuntimeRecordType
    <3>4. /\ NewRecord(o).seq = state.next /\ NewRecord(o).hash = hash
          /\ RecordHash(Session, NewRecord(o)) = hash
          /\ NewRecord(o).head = next.head
      BY DEF RuntimeRecord, RecordHash, IsEvent
    <3>5. next.head = Append(state.head, hash) /\ next.next = state.next + 1
      BY DEF Advance, UpdateChain
    <3> HIDE DEF NewRecord, hash, next
    <3>6. PICK w \in WriteOutcomes(NewRecord(o)) :
            file' = w.file /\ buffer' = w.buffer
      BY <2>1, <2>4 DEF WriteRecord
    <3> QED BY <2>2, <3>3, <3>4, <3>5, <3>6, WrittenLogReplays
  <2> QED BY <2>3, <2>4
<1>5. ASSUME NEW lost \in 0 .. MaxLost, WriteSummary(lost)
      PROVE  LogReplays'
  <2>1. PICK seal \in SealOutcomes :
          /\ state' = seal.state
          /\ file' = seal.log.file
          /\ buffer' = seal.log.buffer
    BY <1>5 DEF WriteSummary
  <2>2. phase # "aborted"
    BY <1>5 DEF WriteSummary
  <2>3. CASE captureState = "open"
    <3> DEFINE r == NewSynthetic("monitor-stop")
    <3>1. PICK w \in WriteOutcomes(r) :
            seal = [state |-> NextSynthetic("monitor-stop"), log |-> w]
      BY <2>3 DEF SealOutcomes
    <3>2. "monitor-stop" \in LifecycleTypes
      BY DEF LifecycleTypes
    <3>3. /\ r \in Record /\ r.seq = state.next
          /\ r.hash = RecordHash(Session, r)
          /\ r.head = Append(state.head, r.hash)
          /\ state'.head = r.head /\ state'.next = state.next + 1
      BY <2>1, <3>1, <3>2, SyntheticIsWellMade
    <3> HIDE DEF r
    <3>4. file' = w.file /\ buffer' = w.buffer
      BY <2>1, <3>1
    <3> QED BY <2>2, <3>3, <3>4, WrittenLogReplays
  <2>4. CASE captureState # "open"
    BY <1>1, <2>1, <2>2, <2>4, SealOutcomesSealed
  <2> QED BY <2>3, <2>4
<1>6. CASE DropWriter
  <2>1. PICK k \in 0 .. Len(buffer) : file' = file \o SubSeq(buffer, 1, k)
    BY <1>6 DEF DropWriter
  <2>2. buffer' = <<>> /\ phase' = "aborted"
    BY <1>6 DEF DropWriter
  <2>3. file \in Seq(Record) /\ buffer \in Seq(Record)
    BY DEF TypeOK
  <2> DEFINE front == SubSeq(buffer, 1, k)
  <2>4. /\ front \in Seq(Record) /\ Len(front) = k
        /\ \A i \in 1 .. k : front[i] = buffer[i]
    BY <2>1, <2>3
  <2> HIDE DEF front
  <2>5. Log' = file \o front
    BY <2>1, <2>2, <2>3, <2>4 DEF Log, front
  <2>6. /\ Log' \in Seq(Record) /\ Len(Log') = Len(file) + k
        /\ Len(Log) = Len(file) + Len(buffer) /\ Len(file) \in Nat
        /\ k \in Nat /\ k <= Len(buffer)
    <3>1. Len(file) \in Nat /\ Len(buffer) \in Nat /\ k \in Nat /\ k <= Len(buffer)
      BY <2>1, <2>3
    <3>2. file \o front \in Seq(Record) /\ Len(file \o front) = Len(file) + k
      BY <2>3, <2>4
    <3>3. Len(file \o buffer) = Len(file) + Len(buffer)
      BY <2>3
    <3> QED BY <2>5, <3>1, <3>2, <3>3 DEF Log
  <2>7. \A i \in 1 .. Len(Log') : i \in 1 .. Len(Log) /\ Log'[i] = Log[i]
    BY <2>1, <2>3, <2>4, <2>5 DEF Log
  <2> HIDE DEF Log
  <2>8. \A i \in 1 .. Len(Log') :
          ReplayHead(Session, Log', i) = ReplayHead(Session, Log, i)
    <3> SUFFICES ASSUME NEW i \in 1 .. Len(Log')
                 PROVE  ReplayHead(Session, Log', i) = ReplayHead(Session, Log, i)
      OBVIOUS
    <3>1. i \in Nat /\ \A j \in 1 .. i : Log'[j] = Log[j]
      BY <2>6, <2>7
    <3> QED BY <3>1, ReplayHeadOfPrefix
  <2> QED BY <1>0, <2>2, <2>6, <2>7, <2>8 DEF LogReplays
<1>7. CASE UNCHANGED vars
  <2>1. UNCHANGED <<Log, phase, state>>
    BY <1>7 DEF vars, Log
  <2> HIDE DEF Log
  <2> QED BY <2>1 DEF LogReplays
<1> QED BY <1>2, <1>3, <1>4, <1>5, <1>6, <1>7 DEF Next

(* The evidence log replays at every moment: after a failed write, a crash *)
(* or a retried summary, what is in the file is a prefix of one chain      *)
(* whose records say their own position and head.                          *)
THEOREM CaptureLogReplays == Spec => []LogReplays
<1>1. TypeOK /\ LogReplays /\ [Next]_vars => TypeOK' /\ LogReplays'
  BY TypeStep, LogStep
<1>2. Init => TypeOK /\ LogReplays
  BY TypeInit, LogInit
<1> QED BY <1>1, <1>2, PTL DEF Spec

-----------------------------------------------------------------------------
(* What a record counts as. *)
What(r) == IF IsEvent(r) THEN Verdict[r.event].class ELSE "synthetic"

Count(log, c) == Cardinality({i \in 1 .. Len(log) : What(log[i]) = c})

LEMMA TallyCounts ==
  ASSUME NEW log \in Seq(Record)
  PROVE  Tally(log) = [c \in Classes \union {"synthetic"} |-> Count(log, c)]
<1>1. ASSUME NEW c \in Classes \union {"synthetic"}
      PROVE  {i \in DOMAIN log : IF IsEvent(log[i])
                                 THEN Verdict[log[i].event].class = c
                                 ELSE c = "synthetic"}
             = {i \in 1 .. Len(log) : What(log[i]) = c}
  BY DEF What
<1> QED BY <1>1 DEF Tally, Count

LEMMA CountOfAppend ==
  ASSUME NEW log \in Seq(Record), NEW r \in Record, NEW c
  PROVE  /\ Count(log, c) \in Nat
         /\ Count(Append(log, r), c) =
              IF c = What(r) THEN Count(log, c) + 1 ELSE Count(log, c)
<1> DEFINE n   == Len(log)
           new == Append(log, r)
           S   == {i \in 1 .. n : What(log[i]) = c}
           T   == {i \in 1 .. Len(new) : What(new[i]) = c}
<1>1. /\ n \in Nat /\ Len(new) = n + 1 /\ new[n + 1] = r
      /\ \A i \in 1 .. n : new[i] = log[i]
  OBVIOUS
<1>2. IsFiniteSet(S) /\ Cardinality(S) \in Nat
  <2>1. S \subseteq 1 .. n /\ IsFiniteSet(1 .. n)
    BY <1>1, FS_Interval
  <2> QED BY <2>1, FS_Subset, FS_CardinalityType
<1>3. n + 1 \notin S
  BY <1>1
<1>4. T = IF c = What(r) THEN S \union {n + 1} ELSE S
  <2> HIDE DEF new, n
  <2> QED BY <1>1
<1>5. Count(log, c) = Cardinality(S) /\ Count(new, c) = Cardinality(T)
  BY DEF Count
<1> HIDE DEF S, T, new, n
<1>6. Cardinality(S \union {n + 1}) = Cardinality(S) + 1
  BY <1>2, <1>3, FS_AddElement
<1> QED BY <1>2, <1>4, <1>5, <1>6 DEF new

(* The tally of a longer log. *)
LEMMA TallyOfAppend ==
  ASSUME NEW log \in Seq(Record), NEW r \in Record
  PROVE  Tally(Append(log, r)) = [Tally(log) EXCEPT ![What(r)] = @ + 1]
<1>1. Append(log, r) \in Seq(Record)
  OBVIOUS
<1>2. /\ Tally(log) = [c \in Classes \union {"synthetic"} |-> Count(log, c)]
      /\ Tally(Append(log, r)) =
           [c \in Classes \union {"synthetic"} |-> Count(Append(log, r), c)]
  BY <1>1, TallyCounts
<1> DEFINE D == Classes \union {"synthetic"}
           w == What(r)
           F(c) == Count(log, c)
           G(c) == Count(Append(log, r), c)
<1>3. \A c : G(c) = IF c = w THEN F(c) + 1 ELSE F(c)
  BY CountOfAppend
<1>4. Tally(log) = [c \in D |-> F(c)] /\ Tally(Append(log, r)) = [c \in D |-> G(c)]
  BY <1>2
<1> HIDE DEF D, w, F, G
<1>5. [c \in D |-> G(c)] = [[c \in D |-> F(c)] EXCEPT ![w] = @ + 1]
  BY <1>3
<1> QED BY <1>4, <1>5 DEF w

-----------------------------------------------------------------------------
(* The counts main keeps are those of the log, like the head: they advance *)
(* before the record is written, so only while main has not given up.      *)
CountsMatchLog == phase # "aborted" => state.counts = Tally(Log)

LEMMA WrittenCountsMatch ==
  ASSUME TypeOK, CountsMatchLog, phase # "aborted", NEW r \in Record,
         NEW w \in WriteOutcomes(r), file' = w.file, buffer' = w.buffer,
         state'.counts = [state.counts EXCEPT ![What(r)] = @ + 1]
  PROVE  CountsMatchLog'
<1>1. /\ file \in Seq(Record) /\ buffer \in Seq(Record)
      /\ Log \in Seq(Record)
  BY LogType DEF TypeOK
<1>2. Log' = Append(Log, r)
  BY <1>1, WriteOutcomesAppend DEF Log
<1> HIDE DEF Log
<1>3. Tally(Log') = [Tally(Log) EXCEPT ![What(r)] = @ + 1]
  BY <1>1, <1>2, TallyOfAppend
<1> QED BY <1>3 DEF CountsMatchLog

LEMMA SyntheticCounts ==
  ASSUME NEW type
  PROVE  /\ What(NewSynthetic(type)) = "synthetic"
         /\ NextSynthetic(type).counts =
              [state.counts EXCEPT !["synthetic"] = @ + 1]
BY DEF What, NewSynthetic, SyntheticRecord, IsEvent, NextSynthetic, Advance

LEMMA CountsInit == Init => CountsMatchLog
<1> SUFFICES ASSUME Init PROVE state.counts = Tally(Log)
  BY DEF CountsMatchLog
<1> DEFINE h1 == SyntheticHash(Session, 1, "monitor-start", Reason("monitor-start"))
           h2 == SyntheticHash(Session, 2, "policy-loaded", Reason("policy-loaded"))
           r1 == SyntheticRecord(Session, 1, "monitor-start", h1, <<h1>>)
           r2 == SyntheticRecord(Session, 2, "policy-loaded", h2, <<h1, h2>>)
<1>1. What(r1) = "synthetic" /\ What(r2) = "synthetic"
  BY DEF What, SyntheticRecord, IsEvent
<1>2. state.counts = [[ZeroCounts EXCEPT !["synthetic"] = @ + 1]
                        EXCEPT !["synthetic"] = @ + 1]
  <2> HIDE DEF h1, h2
  <2>1. state = Advance(Advance(NewState, "synthetic", h1), "synthetic", h2)
    BY DEF Init, StartState, h1, h2
  <2> QED BY <2>1 DEF Advance, NewState
<1>3. file = <<r1, r2>> /\ buffer = <<>> /\ file \in Seq(Record)
  BY StartTypes DEF Init, StartFile
<1> HIDE DEF r1, r2
<1>4. r1 \in Record /\ r2 \in Record
  <2>1. 1 \in 1 .. Len(file) /\ 2 \in 1 .. Len(file)
        /\ file[1] = r1 /\ file[2] = r2
    BY <1>3
  <2> QED BY <1>3, <2>1, ElementOfSeq
<1>5. Log = Append(Append(<<>>, r1), r2)
  <2>1. Log = <<r1, r2>>
    BY <1>3, ConcatEmptySeq DEF Log
  <2>2. Append(<<>>, r1) = <<r1>>
    OBVIOUS
  <2> QED BY <2>1, <2>2, AppendToSingleton
<1>6. Tally(<<>>) = ZeroCounts
  <2>1. \A c : {i \in 1 .. Len(<<>>) : What(<<>>[i]) = c} = {}
    OBVIOUS
  <2>2. \A c : Count(<<>>, c) = 0
    BY <2>1, FS_EmptySet DEF Count
  <2>3. <<>> \in Seq(Record)
    OBVIOUS
  <2>4. Tally(<<>>) = [c \in Classes \union {"synthetic"} |-> Count(<<>>, c)]
    BY <2>3, TallyCounts
  <2> QED BY <2>2, <2>4 DEF ZeroCounts
<1>7. <<>> \in Seq(Record) /\ Append(<<>>, r1) \in Seq(Record)
  BY <1>4
<1>8. /\ Tally(Append(<<>>, r1)) = [Tally(<<>>) EXCEPT ![What(r1)] = @ + 1]
      /\ Tally(Append(Append(<<>>, r1), r2)) =
           [Tally(Append(<<>>, r1)) EXCEPT ![What(r2)] = @ + 1]
  BY <1>4, <1>7, TallyOfAppend
<1> HIDE DEF Log
<1> QED BY <1>1, <1>2, <1>5, <1>6, <1>8

LEMMA CountsStep ==
  ASSUME TypeOK, CountsMatchLog, [Next]_vars
  PROVE  CountsMatchLog'
<1>1. ASSUME phase' = "aborted" \/
             (phase # "aborted" /\ UNCHANGED <<file, buffer, state>>)
      PROVE  CountsMatchLog'
  BY <1>1 DEF CountsMatchLog, Log
<1>2. CASE WriteWorkloadTargetBound
  <2> DEFINE r == NewSynthetic("workload-target-bound")
  <2>1. PICK w \in WriteOutcomes(r) : file' = w.file /\ buffer' = w.buffer
    BY <1>2 DEF WriteWorkloadTargetBound, WriteRecord
  <2>2. phase # "aborted" /\ state' = NextSynthetic("workload-target-bound")
    BY <1>2 DEF WriteWorkloadTargetBound
  <2>3. r \in Record
    BY SyntheticIsWellMade DEF LifecycleTypes
  <2>4. state'.counts = [state.counts EXCEPT ![What(r)] = @ + 1]
    BY <2>2, SyntheticCounts
  <2> HIDE DEF r
  <2> QED BY <2>1, <2>2, <2>3, <2>4, WrittenCountsMatch
<1>3. CASE BindTpmSessionStart \/ ProcessMalformedSample \/ ProcessUnknownIndex
           \/ Kill
  <2>1. UNCHANGED <<file, buffer, state>> /\ phase # "aborted"
    BY <1>3 DEF BindTpmSessionStart, ProcessMalformedSample,
       ProcessUnknownIndex, Kill, Running, logVars
  <2> QED BY <1>1, <2>1
<1>4. ASSUME NEW e \in Event, ProcessSample(e)
      PROVE  CountsMatchLog'
  <2> DEFINE hash == EventHash(Session, state.next, e)
             next == Advance(state, Verdict[e].class, hash)
             Extended(o) == o.tpm.extends > tpm.extends
             Index(o) == IF Extended(o) THEN o.tpm.extends ELSE 0
             NewRecord(o) == RuntimeRecord(Session, state.next, e, hash,
                               next.head, Extended(o), Index(o))
  <2>1. PICK o \in EventExtendOutcomes(state.next, e) :
          IF o.err
          THEN Abort("tpm") /\ UNCHANGED <<file, buffer>>
          ELSE WriteRecord(NewRecord(o), phase, o.fault)
    BY <1>4 DEF ProcessSample
  <2>2. phase # "aborted" /\ state' = next
    BY <1>4 DEF ProcessSample
  <2>3. CASE o.err
    BY <1>1, <2>1, <2>3 DEF Abort
  <2>4. CASE ~o.err
    <3>1. state.next \in Nat /\ state \in EvidenceState
      BY DEF TypeOK, EvidenceState
    <3>2. o \in TpmOutcome
      BY <3>1, EventExtendType
    <3>3. Extended(o) \in BOOLEAN /\ Index(o) \in Nat
      BY <3>2 DEF TpmOutcome, TpmState
    <3> HIDE DEF Extended, Index
    <3>4. NewRecord(o) \in Record
      BY <3>3, RuntimeRecordType
    <3>5. What(NewRecord(o)) = Verdict[e].class
      BY DEF RuntimeRecord, What, IsEvent
    <3>6. state'.counts = [state.counts EXCEPT ![Verdict[e].class] = @ + 1]
      <4> HIDE DEF hash
      <4> QED BY <2>2 DEF Advance
    <3> HIDE DEF NewRecord, hash, next
    <3>7. PICK w \in WriteOutcomes(NewRecord(o)) :
            file' = w.file /\ buffer' = w.buffer
      BY <2>1, <2>4 DEF WriteRecord
    <3> QED BY <2>2, <3>4, <3>5, <3>6, <3>7, WrittenCountsMatch
  <2> QED BY <2>3, <2>4
<1>5. ASSUME NEW lost \in 0 .. MaxLost, WriteSummary(lost)
      PROVE  CountsMatchLog'
  <2>1. PICK seal \in SealOutcomes :
          /\ state' = seal.state
          /\ file' = seal.log.file
          /\ buffer' = seal.log.buffer
    BY <1>5 DEF WriteSummary
  <2>2. phase # "aborted"
    BY <1>5 DEF WriteSummary
  <2>3. CASE captureState = "open"
    <3> DEFINE r == NewSynthetic("monitor-stop")
    <3>1. PICK w \in WriteOutcomes(r) :
            seal = [state |-> NextSynthetic("monitor-stop"), log |-> w]
      BY <2>3 DEF SealOutcomes
    <3>2. r \in Record
      BY SyntheticIsWellMade DEF LifecycleTypes
    <3>3. state'.counts = [state.counts EXCEPT ![What(r)] = @ + 1]
      BY <2>1, <3>1, SyntheticCounts
    <3>4. file' = w.file /\ buffer' = w.buffer
      BY <2>1, <3>1
    <3> HIDE DEF r
    <3> QED BY <2>2, <3>2, <3>3, <3>4, WrittenCountsMatch
  <2>4. CASE captureState # "open"
    BY <1>1, <2>1, <2>2, <2>4, SealOutcomesSealed
  <2> QED BY <2>3, <2>4
<1>6. CASE DropWriter
  BY <1>1, <1>6 DEF DropWriter
<1>7. CASE UNCHANGED vars
  BY <1>7 DEF vars, CountsMatchLog, Log
<1> QED BY <1>2, <1>3, <1>4, <1>5, <1>6, <1>7 DEF Next

-----------------------------------------------------------------------------
(* The steps of the capture are steps of the promise.                      *)

LEMMA ConcatExtends ==
  ASSUME NEW log \in Seq(Record), NEW more \in Seq(Record)
  PROVE  Promise!Extends(log \o more, log)
<1>1. /\ 1 \in 1 .. Len(log) + 1 /\ Len(log) \in 1 - 1 .. Len(log)
      /\ Len(log \o more) >= Len(log)
  OBVIOUS
<1>2. SubSeq(log \o more, 1, Len(log)) = log
  BY <1>1, SubSeqOfConcat1, SubSeqFull
<1> QED BY <1>1, <1>2 DEF Promise!Extends

LEMMA WriteOutcomesExtend ==
  ASSUME TypeOK, NEW r \in Record, NEW w \in WriteOutcomes(r)
  PROVE  Promise!Extends(w.file, file)
<1> DEFINE pending == Append(buffer, r)
<1>1. file \in Seq(Record) /\ buffer \in Seq(Record)
  BY DEF TypeOK
<1>2. pending \in Seq(Record) /\ Len(pending) = Len(buffer) + 1
  BY <1>1
<1>3. \A k \in 0 .. Len(buffer) : SubSeq(pending, 1, k) \in Seq(Record)
  <2> HIDE DEF pending
  <2> QED BY <1>1, <1>2, ElementOfSeq, SubSeqProperties
<1>4. \E more \in Seq(Record) : w.file = file \o more
  <2>1. \/ w.file = file \o pending
        \/ \E k \in 0 .. Len(buffer) : w.file = file \o SubSeq(pending, 1, k)
    <3>1. \/ w = [file |-> file \o pending, buffer |-> <<>>, ok |-> TRUE]
          \/ \E k \in 0 .. Len(buffer) :
               w = [file   |-> file \o SubSeq(pending, 1, k),
                    buffer |-> SubSeq(pending, k + 1, Len(pending)),
                    ok     |-> FALSE]
      BY DEF WriteOutcomes
    <3> HIDE DEF pending
    <3>2. CASE w = [file |-> file \o pending, buffer |-> <<>>, ok |-> TRUE]
      BY <3>2
    <3>3. ASSUME NEW k \in 0 .. Len(buffer),
                 w = [file   |-> file \o SubSeq(pending, 1, k),
                      buffer |-> SubSeq(pending, k + 1, Len(pending)),
                      ok     |-> FALSE]
          PROVE  w.file = file \o SubSeq(pending, 1, k)
      BY <3>3
    <3> QED BY <3>1, <3>2, <3>3
  <2> HIDE DEF pending
  <2>2. CASE w.file = file \o pending
    BY <1>2, <2>2
  <2>3. CASE \E k \in 0 .. Len(buffer) : w.file = file \o SubSeq(pending, 1, k)
    BY <1>3, <2>3
  <2> QED BY <2>1, <2>2, <2>3
<1> HIDE DEF pending
<1> QED BY <1>1, <1>4, ConcatExtends

(* While the capture is open a step may only add to the log. *)
LEMMA OpenStepGrows ==
  ASSUME captureState = "open", UNCHANGED <<captureState, summaryFile>>,
         \/ UNCHANGED file
         \/ Promise!Extends(file', file)
  PROVE  [Promise!Next]_(Promise!sealedLogVars)
BY DEF Promise!Next, Promise!Grow, Promise!sealedLogVars

(* What write_summary leaves at summary_out once the log is sealed. *)
LEMMA SummaryIsPublished ==
  ASSUME TypeOK', LogReplays', CountsMatchLog', SealMatchesPhase',
         NEW seal \in SealOutcomes, NEW lost, NEW t,
         state' = seal.state, captureState' # "open",
         NEW w \in SummaryOutcomes(RuntimeSummary(seal.state, lost, t)),
         summaryFile' = w.file,
         captureState' = IF w.ok THEN "finalized" ELSE "stop-written"
  PROVE  Promise!Publish
<1> DEFINE s == RuntimeSummary(seal.state, lost, t)
<1>1. \/ w.file = s /\ w.ok = TRUE
      \/ w.file = Torn
      \/ w.file = summaryFile /\ w.ok = FALSE
  BY DEF SummaryOutcomes
<1>2. /\ s.session = Session /\ s.head = state'.head
      /\ s.counts = state'.counts
  BY DEF RuntimeSummary
<1>3. ASSUME w.ok = TRUE PROVE AccountsFor(s, file')
  <2>1. phase' = "finished" /\ buffer' = <<>>
    BY <1>3 DEF SealMatchesPhase
  <2>2. Log' = file'
    BY <2>1, ConcatEmptySeq DEF Log, TypeOK
  <2>3. /\ state'.head = ReplayHead(Session, Log', Len(Log'))
        /\ state'.counts = Tally(Log')
    BY <2>1 DEF LogReplays, CountsMatchLog
  <2> HIDE DEF s, Log
  <2> QED BY <1>2, <2>2, <2>3 DEF AccountsFor
<1> HIDE DEF s
<1> QED BY <1>1, <1>3 DEF Promise!Publish

(* What the capture knows of itself at every moment. *)
CaptureInv == TypeOK /\ SealMatchesPhase /\ LogReplays /\ CountsMatchLog

LEMMA StepImplements ==
  ASSUME CaptureInv, CaptureInv', [Next]_vars
  PROVE  [Promise!Next]_(Promise!sealedLogVars)
<1>0. /\ file \in Seq(Record) /\ buffer \in Seq(Record)
      /\ TypeOK /\ SealMatchesPhase
  BY DEF CaptureInv, TypeOK
<1>1. CASE WriteWorkloadTargetBound
  <2>1. /\ captureState = "open" /\ UNCHANGED <<captureState, summaryFile>>
        /\ \E w \in WriteOutcomes(NewSynthetic("workload-target-bound")) :
             file' = w.file
    BY <1>0, <1>1 DEF WriteWorkloadTargetBound, WriteRecord, SealMatchesPhase
  <2>2. NewSynthetic("workload-target-bound") \in Record
    BY <1>0, SyntheticIsWellMade DEF LifecycleTypes
  <2> QED BY <1>0, <2>1, <2>2, WriteOutcomesExtend, OpenStepGrows
<1>2. CASE BindTpmSessionStart \/ ProcessMalformedSample \/ ProcessUnknownIndex
           \/ Kill
  BY <1>2 DEF BindTpmSessionStart, ProcessMalformedSample, ProcessUnknownIndex,
     Kill, logVars, Promise!sealedLogVars
<1>3. ASSUME NEW e \in Event, ProcessSample(e)
      PROVE  [Promise!Next]_(Promise!sealedLogVars)
  <2> DEFINE hash == EventHash(Session, state.next, e)
             next == Advance(state, Verdict[e].class, hash)
             Extended(o) == o.tpm.extends > tpm.extends
             Index(o) == IF Extended(o) THEN o.tpm.extends ELSE 0
             NewRecord(o) == RuntimeRecord(Session, state.next, e, hash,
                               next.head, Extended(o), Index(o))
  <2>1. PICK o \in EventExtendOutcomes(state.next, e) :
          IF o.err
          THEN Abort("tpm") /\ UNCHANGED <<file, buffer>>
          ELSE WriteRecord(NewRecord(o), phase, o.fault)
    BY <1>3 DEF ProcessSample
  <2>2. captureState = "open" /\ UNCHANGED <<captureState, summaryFile>>
    BY <1>0, <1>3 DEF ProcessSample, SealMatchesPhase
  <2>3. state.next \in Nat
    BY <1>0 DEF TypeOK, EvidenceState
  <2>4. o \in TpmOutcome
    BY <1>0, <2>3, EventExtendType
  <2>5. Extended(o) \in BOOLEAN /\ Index(o) \in Nat
    BY <2>4 DEF TpmOutcome, TpmState
  <2> HIDE DEF Extended, Index
  <2>6. NewRecord(o) \in Record
    BY <1>0, <2>5, RuntimeRecordType
  <2> HIDE DEF NewRecord
  <2>7. UNCHANGED file \/ \E w \in WriteOutcomes(NewRecord(o)) : file' = w.file
    BY <2>1 DEF WriteRecord
  <2> QED BY <1>0, <2>2, <2>6, <2>7, WriteOutcomesExtend, OpenStepGrows
<1>4. ASSUME NEW lost \in 0 .. MaxLost, WriteSummary(lost)
      PROVE  [Promise!Next]_(Promise!sealedLogVars)
  <2>1. phase \in {"collecting", "retrying"} /\ captureState # "finalized"
    BY <1>0, <1>4 DEF WriteSummary, SealMatchesPhase
  <2>2. PICK seal \in SealOutcomes :
          /\ state' = seal.state
          /\ file' = seal.log.file
          /\ buffer' = seal.log.buffer
          /\ \/ ~seal.log.ok /\ UNCHANGED <<captureState, summaryFile>>
             \/ /\ seal.log.ok
                /\ captureState' = "stop-written" /\ UNCHANGED summaryFile
             \/ /\ seal.log.ok
                /\ \E t : \E w \in SummaryOutcomes(
                                    RuntimeSummary(seal.state, lost, t)) :
                     /\ summaryFile' = w.file
                     /\ captureState' =
                          IF w.ok THEN "finalized" ELSE "stop-written"
    BY <1>4 DEF WriteSummary
  <2>3. ASSUME seal.log.ok
        PROVE  Promise!Publish /\ captureState' # "open"
    <3>1. CASE captureState' = "stop-written" /\ UNCHANGED summaryFile
      BY <3>1 DEF Promise!Publish
    <3>2. ASSUME NEW t,
                 NEW w \in SummaryOutcomes(RuntimeSummary(seal.state, lost, t)),
                 summaryFile' = w.file,
                 captureState' = IF w.ok THEN "finalized" ELSE "stop-written"
          PROVE  Promise!Publish /\ captureState' # "open"
      <4>1. captureState' # "open"
        BY <3>2
      <4> QED BY <2>2, <3>2, <4>1, SummaryIsPublished DEF CaptureInv
    <3> QED BY <2>2, <2>3, <3>1, <3>2
  <2>4. CASE captureState = "open"
    <3> DEFINE r == NewSynthetic("monitor-stop")
    <3>1. PICK w \in WriteOutcomes(r) :
            seal = [state |-> NextSynthetic("monitor-stop"), log |-> w]
      BY <2>4 DEF SealOutcomes
    <3>2. r \in Record /\ IsType(r, "monitor-stop")
      BY <1>0, SyntheticIsWellMade
         DEF LifecycleTypes, NewSynthetic, SyntheticRecord, IsType
    <3> HIDE DEF r
    <3>3. Promise!Extends(file', file)
      BY <1>0, <2>2, <3>1, <3>2, WriteOutcomesExtend
    <3>4. CASE ~seal.log.ok
      BY <2>2, <2>4, <3>3, <3>4, OpenStepGrows
    <3>5. CASE seal.log.ok
      <4>1. w.buffer = <<>> /\ file' = w.file
            /\ w.file \in Seq(Record) /\ w.file \o w.buffer = Append(Log, r)
        BY <1>0, <2>2, <3>1, <3>2, <3>5, WriteOutcomesAppend DEF Log
      <4>2. file' = Append(Log, r) /\ Log \in Seq(Record)
        BY <1>0, <4>1, ConcatEmptySeq, LogType
      <4> HIDE DEF Log
      <4>3. Len(file') > 0 /\ file'[Len(file')] = r
        BY <3>2, <4>2
      <4>4. EndsInStop(file')
        BY <3>2, <4>3 DEF EndsInStop
      <4> QED BY <2>3, <2>4, <3>3, <3>5, <4>4 DEF Promise!Next, Promise!Seal
    <3> QED BY <3>4, <3>5
  <2>5. CASE captureState # "open"
    <3>1. seal.log.ok /\ file' = file
      BY <2>2, <2>5, SealOutcomesSealed
    <3> QED BY <2>1, <2>3, <2>5, <3>1 DEF Promise!Next, Promise!Retry
  <2> QED BY <2>4, <2>5
<1>5. CASE DropWriter
  <2>1. captureState = "open" /\ UNCHANGED <<captureState, summaryFile>>
    BY <1>0, <1>5 DEF DropWriter, SealMatchesPhase
  <2>2. PICK k \in 0 .. Len(buffer) : file' = file \o SubSeq(buffer, 1, k)
    BY <1>5 DEF DropWriter
  <2>3. SubSeq(buffer, 1, k) \in Seq(Record)
    BY <1>0, <2>2
  <2> QED BY <1>0, <2>1, <2>2, <2>3, ConcatExtends, OpenStepGrows
<1>6. CASE UNCHANGED vars
  BY <1>6 DEF vars, Promise!sealedLogVars
<1> QED BY <1>1, <1>2, <1>3, <1>4, <1>5, <1>6 DEF Next

(* The capture implements SealedLog (what write_record and write_summary   *)
(* do to the two files, through failed writes, kills and retries): the log *)
(* only grows, until it ends in the stop record; the summary of an earlier *)
(* session is left alone until then; every summary written after it is     *)
(* torn or gives the head and the counts of exactly this log.              *)
THEOREM CaptureImplementsSealedLog == Spec => ImplementsSealedLog
<1>1. Init => CaptureInv /\ Promise!Init
  BY TypeInit, SealInit, LogInit, CountsInit
     DEF CaptureInv, Init, Promise!Init
<1>2. CaptureInv /\ [Next]_vars => CaptureInv'
  BY TypeStep, SealStep, LogStep, CountsStep DEF CaptureInv
<1>3. CaptureInv /\ CaptureInv' /\ [Next]_vars
        => [Promise!Next]_(Promise!sealedLogVars)
  BY StepImplements
<1> QED BY <1>1, <1>2, <1>3, PTL DEF Spec, ImplementsSealedLog, Promise!Spec
=============================================================================
