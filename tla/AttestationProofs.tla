------------------------- MODULE AttestationProofs -------------------------
(***************************************************************************)
(* Proofs about Attestation, for every value of its constants: what the    *)
(* verifier says of the files of a session, honest or damaged.             *)
(***************************************************************************)
EXTENDS Attestation, TpmBindingProofs

-----------------------------------------------------------------------------
(* What a session that main has not given up knows of its log, its TPM     *)
(* fields and its summary: all that verify_replay will ask for.            *)
Due(r) == IsEvent(r) /\ setup.tpm /\ r.verdict.class \in setup.extendOn

ExtendsUpTo(log, i) ==
  Cardinality({j \in 1 .. i : IsEvent(log[j]) /\ log[j].extended})

(* Every event record is classified by the policies, carries an index iff  *)
(* it was extended, the number of extends so far, and is extended only and *)
(* (until the TPM fails) always when it is due.                            *)
RecordsAreMarked ==
  /\ \A i \in 1 .. Len(Log) : IsEvent(Log[i]) =>
       /\ Log[i].verdict = Verdict[Log[i].event]
       /\ Log[i].index # 0 => Log[i].extended
       /\ Log[i].extended => Due(Log[i]) /\ Log[i].index = ExtendsUpTo(Log, i)
       /\ Due(Log[i]) /\ ~tpm.failed => Log[i].extended
  /\ tpm.extends = ExtendsUpTo(Log, Len(Log))

(* The extended digests are those of the due records, one by one.          *)
DigestsAreDue ==
  ~tpm.failed =>
    LET ed  == ExtendedDigests(Session, Log)
        due == DueRecords(setup, Log)
    IN  /\ Len(ed) = Len(due)
        /\ \A k \in 1 .. Len(due) :
             ed[k] = ClassifiedDigest(Session, due[k].seq, due[k].hash,
                                      due[k].verdict)

(* The order of the records, as long as none was lost.                     *)
LogIsInOrder ==
  "record" \notin faults =>
    /\ Len(Log) >= 2
    /\ IsType(Log[1], "monitor-start")
    /\ IsType(Log[2], "policy-loaded")
    /\ phase = "opened" => Len(Log) = 2
    /\ phase # "opened" => Len(Log) >= 3 /\ IsType(Log[3], "workload-target-bound")
    /\ captureState # "open" =>
         Len(Log) >= 4 /\ IsType(Log[Len(Log)], "monitor-stop")
    /\ \A i \in 4 .. Len(Log) :
         IsEvent(Log[i]) \/ (captureState # "open" /\ i = Len(Log))

SetupStart ==
  SessionStartDigest(Session, setup.policyHash, setup.workload, setup.mode)

(* The TPM fields are those of this setup, and the final summary claims    *)
(* the PCR as it is.                                                       *)
TpmFieldsAgree ==
  /\ tpm.failed => setup.tpm /\ ~setup.failClosed /\ "tpm" \in faults
  /\ tpm.quoteFailed => "tpm" \in faults
  /\ tpm.binding # None =>
       /\ tpm.binding.digest = SetupStart
       /\ tpm.binding.afterStart = Append(tpm.binding.initial, SetupStart)
  /\ tpm.final # None =>
       /\ setup.tpm
       /\ tpm.binding # None
       /\ tpm.final.initial = tpm.binding.initial
       /\ tpm.final.afterStart = tpm.binding.afterStart
       /\ tpm.final.startDigest = tpm.binding.digest
       /\ tpm.final.finalPcr = pcr
       /\ setup.quote /\ "tpm" \notin faults => tpm.final.quote = "genuine"
  /\ phase = "finished" /\ setup.tpm /\ ~tpm.failed => tpm.final # None

(* A summary of this session is written last, and tells the truth.         *)
SummaryIsTrue ==
  /\ captureState # "finalized" => summaryFile \in {None, Torn, EarlierSummary}
  /\ captureState = "finalized" /\ summaryFile # Torn =>
       /\ summaryFile.dropped \in Nat
       /\ summaryFile = RuntimeSummary(state, summaryFile.dropped, tpm)
       /\ tpm.final # None /\ ~tpm.failed =>
            tpm.final.finalDigest =
              FinalSummaryDigest(Session, state.head, state.counts,
                                 summaryFile.dropped, setup.policyHash)

LiveInv ==
  /\ RecordsAreMarked
  /\ DigestsAreDue
  /\ LogIsInOrder
  /\ TpmFieldsAgree

SessionInv == (phase # "aborted" => LiveInv) /\ SummaryIsTrue

(* The invariants of the capture that SessionInv stands on.                *)
KnownInv == CaptureInv /\ BindingInv

-----------------------------------------------------------------------------
(* Counting the extends of a longer log. *)
LEMMA ExtendsOfAppend ==
  ASSUME NEW log \in Seq(Record), NEW r \in Record
  PROVE  /\ \A i \in 0 .. Len(log) :
              /\ ExtendsUpTo(log, i) \in Nat
              /\ ExtendsUpTo(Append(log, r), i) = ExtendsUpTo(log, i)
         /\ ExtendsUpTo(Append(log, r), Len(log) + 1) =
              IF IsEvent(r) /\ r.extended THEN ExtendsUpTo(log, Len(log)) + 1
              ELSE ExtendsUpTo(log, Len(log))
<1> DEFINE n    == Len(log)
           new  == Append(log, r)
           S(i) == {j \in 1 .. i : IsEvent(log[j]) /\ log[j].extended}
           T(i) == {j \in 1 .. i : IsEvent(new[j]) /\ new[j].extended}
<1>1. /\ n \in Nat /\ new[n + 1] = r
      /\ \A i \in 1 .. n : new[i] = log[i]
  BY AppendProperties, LenProperties
<1> HIDE DEF new
<1>2. \A i \in 0 .. n : T(i) = S(i)
  BY <1>1
<1>3. T(n + 1) = IF IsEvent(r) /\ r.extended THEN S(n) \union {n + 1} ELSE S(n)
  BY <1>1
<1>4. \A i \in 0 .. n : IsFiniteSet(S(i)) /\ Cardinality(S(i)) \in Nat
  <2> TAKE i \in 0 .. n
  <2>1. S(i) \subseteq 1 .. i /\ IsFiniteSet(1 .. i)
    BY <1>1, FS_Interval
  <2> HIDE DEF S
  <2> QED BY <2>1, FS_Subset, FS_CardinalityType
<1>5. n + 1 \notin S(n) /\ n \in 0 .. n
  BY <1>1
<1> HIDE DEF S, T, n
<1>6. Cardinality(S(n) \union {n + 1}) = Cardinality(S(n)) + 1
  BY <1>4, <1>5, FS_AddElement
<1>7. /\ \A i : ExtendsUpTo(log, i) = Cardinality(S(i))
      /\ \A i : ExtendsUpTo(new, i) = Cardinality(T(i))
  BY DEF ExtendsUpTo, S, T
<1> QED BY <1>2, <1>3, <1>4, <1>5, <1>6, <1>7 DEF n, new

(* What a quote and a finalization say of the final summary.               *)
Claims(o, s, p) ==
  /\ o.pcr = p
  /\ o.tpm.final \in TpmFinal
  /\ o.tpm.final.initial = s.initial
  /\ o.tpm.final.afterStart = s.afterStart
  /\ o.tpm.final.startDigest = s.startDigest
  /\ o.tpm.final.finalDigest = s.finalDigest
  /\ o.tpm.final.finalPcr = s.finalPcr
  /\ setup.quote /\ "tpm" \notin o.fault => o.tpm.final.quote = "genuine"
  /\ o.tpm.quoteFailed => tpm.quoteFailed \/ "tpm" \in o.fault
  /\ o.tpm.binding = tpm.binding
  /\ o.tpm.extends = tpm.extends
  /\ o.tpm.failed = tpm.failed

LEMMA QuoteClaims ==
  ASSUME TypeOK, NEW s \in TpmFinal, NEW p, NEW o \in QuoteOutcomes(s, p)
  PROVE  Claims(o, s, p)
<1> DEFINE With(final, failed) ==
             [tpm EXCEPT !.final = final, !.quoteFailed = failed]
           quoted == [s EXCEPT !.quote = "genuine"]
<1>1. /\ quoted \in TpmFinal /\ quoted.quote = "genuine"
      /\ quoted.initial = s.initial /\ quoted.afterStart = s.afterStart
      /\ quoted.startDigest = s.startDigest
      /\ quoted.finalDigest = s.finalDigest /\ quoted.finalPcr = s.finalPcr
  BY DEF TpmFinal
<1>2. \A final, failed :
        /\ With(final, failed).final = final
        /\ With(final, failed).quoteFailed = failed
        /\ With(final, failed).binding = tpm.binding
        /\ With(final, failed).extends = tpm.extends
        /\ With(final, failed).failed = tpm.failed
  BY DEF TypeOK, TpmState
<1>3. \/ ~setup.quote /\ o = TpmDone(p, With(s, tpm.quoteFailed))
      \/ o = TpmDone(p, With(quoted, tpm.quoteFailed))
      \/ o = [pcr |-> p, tpm |-> With(s, ~setup.failClosed),
              err |-> setup.failClosed, fault |-> {"tpm"}]
  BY DEF QuoteOutcomes
<1> HIDE DEF With, quoted
<1>4. CASE ~setup.quote /\ o = TpmDone(p, With(s, tpm.quoteFailed))
  BY <1>2, <1>4 DEF TpmDone, Claims
<1>5. CASE o = TpmDone(p, With(quoted, tpm.quoteFailed))
  BY <1>1, <1>2, <1>5 DEF TpmDone, Claims
<1>6. CASE o = [pcr |-> p, tpm |-> With(s, ~setup.failClosed),
                err |-> setup.failClosed, fault |-> {"tpm"}]
  <2>1. o.pcr = p /\ o.tpm = With(s, ~setup.failClosed) /\ o.fault = {"tpm"}
    BY <1>6
  <2> QED BY <1>2, <2>1 DEF Claims
<1> QED BY <1>3, <1>4, <1>5, <1>6

LEMMA FinalizeClaims ==
  ASSUME TypeOK, NEW digest \in FinalDigest,
         NEW o \in FinalizeOutcomes(digest)
  PROVE  \/ Fails(o) /\ tpm.final = None /\ ~TpmIdle
         \/ TpmIdle /\ o.pcr = pcr /\ o.tpm = tpm
         \/ /\ tpm.final # None /\ o.pcr = pcr /\ o.tpm = tpm
            /\ ~o.err => tpm.final.finalDigest = digest
         \/ /\ tpm.final # None /\ tpm.final.finalDigest = digest
            /\ Claims(o, tpm.final, pcr)
         \/ /\ tpm.final = None /\ tpm.binding # None /\ ~TpmIdle
            /\ \E s : /\ s.initial = tpm.binding.initial
                      /\ s.afterStart = tpm.binding.afterStart
                      /\ s.startDigest = tpm.binding.digest
                      /\ s.finalDigest = digest
                      /\ s.finalPcr = o.pcr
                      /\ Claims(o, s, o.pcr)
<1> DEFINE done  == ReplayPcrExtend(pcr, digest)
           final == [extends    |-> tpm.extends,
                     initial    |-> tpm.binding.initial,
                     afterStart |-> tpm.binding.afterStart,
                     finalPcr   |-> done,
                     startDigest |-> tpm.binding.digest,
                     finalDigest |-> digest,
                     quote      |-> None]
           stale == [pcr |-> pcr, tpm |-> tpm, err |-> TRUE,
                     fault |-> {"digest"}]
<1>1. pcr \in Pcr /\ tpm \in TpmState
  BY DEF TypeOK
<1>2. done \in Pcr
  BY <1>1, ExtendType
<1>3. tpm.binding # None => final \in TpmFinal
  BY <1>1, <1>2 DEF TpmState, TpmBinding, TpmFinal
<1>4. /\ final.initial = tpm.binding.initial
      /\ final.afterStart = tpm.binding.afterStart
      /\ final.startDigest = tpm.binding.digest
      /\ final.finalDigest = digest /\ final.finalPcr = done
  OBVIOUS
<1>5. tpm.final # None => tpm.final \in TpmFinal
  BY <1>1 DEF TpmState
<1>6. stale.pcr = pcr /\ stale.tpm = tpm /\ stale.err
  OBVIOUS
<1> HIDE DEF done, final, stale
<1>7. \/ TpmIdle /\ o = TpmDone(pcr, tpm)
      \/ tpm.final # None /\ o = stale
      \/ tpm.final # None /\ tpm.final.finalDigest = digest
         /\ (o = TpmDone(pcr, tpm) \/ o \in QuoteOutcomes(tpm.final, pcr))
      \/ tpm.final = None /\ ~TpmIdle /\ \E p : o = RecordTpmFailure(p)
      \/ tpm.final = None /\ ~TpmIdle /\ tpm.binding # None
         /\ o \in QuoteOutcomes(final, done)
  BY DEF FinalizeOutcomes, done, final, stale
<1>8. CASE \/ TpmIdle /\ o = TpmDone(pcr, tpm)
           \/ /\ tpm.final # None /\ tpm.final.finalDigest = digest
              /\ o = TpmDone(pcr, tpm)
  <2>1. o = TpmDone(pcr, tpm)
    BY <1>8
  <2>2. o.pcr = pcr /\ o.tpm = tpm
    BY <2>1 DEF TpmDone
  <2> QED BY <1>8, <2>2
<1>9. CASE tpm.final # None /\ o = stale
  BY <1>6, <1>9
<1>10. CASE tpm.final # None /\ tpm.final.finalDigest = digest
            /\ o \in QuoteOutcomes(tpm.final, pcr)
  BY <1>5, <1>10, QuoteClaims
<1>11. CASE tpm.final = None /\ ~TpmIdle /\ \E p : o = RecordTpmFailure(p)
  BY <1>11 DEF RecordTpmFailure, Fails
<1>12. CASE /\ tpm.final = None /\ ~TpmIdle /\ tpm.binding # None
            /\ o \in QuoteOutcomes(final, done)
  <2>1. Claims(o, final, done)
    BY <1>3, <1>12, QuoteClaims
  <2>2. o.pcr = done
    BY <2>1 DEF Claims
  <2> QED BY <1>4, <1>12, <2>1, <2>2
<1> QED BY <1>7, <1>8, <1>9, <1>10, <1>11, <1>12

-----------------------------------------------------------------------------
(* SessionInv is inductive. First the marks of the records, when the log   *)
(* stays, grows by a lifecycle record, or grows by an event.               *)
LEMMA SameLogMarked ==
  ASSUME RecordsAreMarked, DigestsAreDue, UNCHANGED <<Log, setup>>,
         tpm'.extends = tpm.extends, ~tpm'.failed => ~tpm.failed
  PROVE  RecordsAreMarked' /\ DigestsAreDue'
<1> HIDE DEF Log
<1> QED BY DEF RecordsAreMarked, DigestsAreDue, Due

LEMMA MarkedAppend ==
  ASSUME RecordsAreMarked, Log \in Seq(Record), NEW r \in Record,
         Log' = Append(Log, r), UNCHANGED setup,
         ~tpm'.failed => ~tpm.failed,
         tpm'.extends = IF IsEvent(r) /\ r.extended THEN tpm.extends + 1
                        ELSE tpm.extends,
         IsEvent(r) =>
           /\ r.verdict = Verdict[r.event]
           /\ r.index # 0 => r.extended
           /\ r.extended => Due(r) /\ r.index = tpm'.extends
           /\ Due(r) /\ ~tpm'.failed => r.extended
  PROVE  RecordsAreMarked'
<1> DEFINE n == Len(Log)
<1>1. /\ n \in Nat /\ Len(Log') = n + 1 /\ Log'[n + 1] = r
      /\ \A i \in 1 .. n : Log'[i] = Log[i]
  BY AppendProperties, LenProperties
<1>2. /\ \A i \in 0 .. n : ExtendsUpTo(Log', i) = ExtendsUpTo(Log, i)
      /\ ExtendsUpTo(Log', n + 1) =
           IF IsEvent(r) /\ r.extended THEN ExtendsUpTo(Log, n) + 1
           ELSE ExtendsUpTo(Log, n)
  BY ExtendsOfAppend
<1> HIDE DEF Log
<1>3. tpm'.extends = ExtendsUpTo(Log', Len(Log'))
  BY <1>1, <1>2 DEF RecordsAreMarked
<1>4. ASSUME NEW i \in 1 .. Len(Log'), IsEvent(Log'[i])
      PROVE  /\ Log'[i].verdict = Verdict[Log'[i].event]
             /\ Log'[i].index # 0 => Log'[i].extended
             /\ Log'[i].extended =>
                  Due(Log[i])' /\ Log'[i].index = ExtendsUpTo(Log', i)
             /\ Due(Log[i])' /\ ~tpm'.failed => Log'[i].extended
  <2>1. CASE i = n + 1
    BY <1>1, <1>3, <1>4, <2>1 DEF Due
  <2>2. CASE i \in 1 .. n
    BY <1>1, <1>2, <1>4, <2>2 DEF RecordsAreMarked, Due
  <2> QED BY <1>1, <2>1, <2>2
<1> QED BY <1>3, <1>4 DEF RecordsAreMarked

LEMMA PlainAppendMarked ==
  ASSUME RecordsAreMarked, DigestsAreDue, Log \in Seq(Record),
         NEW r \in Record, ~IsEvent(r), Log' = Append(Log, r),
         UNCHANGED setup, tpm'.extends = tpm.extends,
         ~tpm'.failed => ~tpm.failed
  PROVE  RecordsAreMarked' /\ DigestsAreDue'
<1>1. RecordsAreMarked'
  BY MarkedAppend
<1> HIDE DEF Log
<1>2. /\ ExtendedDigests(Session, Log') = ExtendedDigests(Session, Log)
      /\ DueRecords(setup, Log') = DueRecords(setup, Log)
  BY PlainRecordAddsNothing
<1> QED BY <1>1, <1>2 DEF DigestsAreDue

LEMMA EventAppendDigests ==
  ASSUME DigestsAreDue, Log \in Seq(Record), NEW r \in Record, IsEvent(r),
         Log' = Append(Log, r), UNCHANGED setup, ~tpm'.failed => ~tpm.failed,
         r.verdict = Verdict[r.event], r.hash = RecordHash(Session, r),
         ~tpm'.failed => (r.extended <=> Due(r))
  PROVE  DigestsAreDue'
<1> DEFINE ed == ExtendedDigests(Session, Log)
           dr == DueRecords(setup, Log)
           D(q) == ClassifiedDigest(Session, q.seq, q.hash, q.verdict)
<1> HIDE DEF Log
<1> SUFFICES ASSUME ~tpm'.failed
             PROVE  /\ Len(ExtendedDigests(Session, Log')) =
                         Len(DueRecords(setup, Log'))
                    /\ \A k \in 1 .. Len(DueRecords(setup, Log')) :
                         ExtendedDigests(Session, Log')[k] =
                           D(DueRecords(setup, Log')[k])
  BY DEF DigestsAreDue
<1>1. /\ ed \in Seq(EventDigest) /\ dr \in Seq(Record)
      /\ ExtendedDigests(Session, Log') = ed \o ExtendedDigest(Session, r)
      /\ DueRecords(setup, Log') = dr \o DueRecord(setup, r)
  BY DigestsOfAppend, DueOfAppend
<1>2. Len(ed) = Len(dr) /\ \A k \in 1 .. Len(dr) : ed[k] = D(dr[k])
  BY DEF DigestsAreDue
<1>3. /\ ExtendedDigest(Session, r) = IF Due(r) THEN <<D(r)>> ELSE <<>>
      /\ DueRecord(setup, r) = IF Due(r) THEN <<r>> ELSE <<>>
  BY DEF ExtendedDigest, DueRecord, Due
<1> HIDE DEF ed, dr, D
<1>4. CASE Due(r)
  <2>1. D(r) \in EventDigest
    <3>1. r.seq \in Nat /\ r.event \in Event
      BY DEF IsEvent, Record
    <3>2. r.hash \in Hash
      BY DEF Record
    <3> QED BY <3>1, <3>2, VerdictTypes DEF ClassifiedDigest, EventDigest, D
  <2>2. /\ ExtendedDigests(Session, Log') = Append(ed, D(r))
        /\ DueRecords(setup, Log') = Append(dr, r)
    BY <1>1, <1>3, <1>4, <2>1
  <2>3. /\ Len(Append(ed, D(r))) = Len(ed) + 1 /\ Len(Append(dr, r)) = Len(dr) + 1
        /\ Append(ed, D(r))[Len(ed) + 1] = D(r)
        /\ Append(dr, r)[Len(dr) + 1] = r
        /\ \A k \in 1 .. Len(ed) : Append(ed, D(r))[k] = ed[k]
        /\ \A k \in 1 .. Len(dr) : Append(dr, r)[k] = dr[k]
        /\ Len(dr) \in Nat
    BY <1>1, <2>1, AppendProperties, LenProperties
  <2>4. ASSUME NEW k \in 1 .. Len(dr) + 1
        PROVE  Append(ed, D(r))[k] = D(Append(dr, r)[k])
    <3>1. k = Len(dr) + 1 \/ k \in 1 .. Len(dr)
      <4>1. Len(dr) \in Nat
        BY <2>3
      <4> QED BY <4>1
    <3>2. CASE k = Len(dr) + 1
      BY <1>2, <2>3, <3>2
    <3>3. CASE k \in 1 .. Len(dr)
      BY <1>2, <2>3, <3>3
    <3> QED BY <3>1, <3>2, <3>3, Zenon
  <2> QED BY <1>2, <2>2, <2>3, <2>4
<1>5. CASE ~Due(r)
  <2>1. /\ ExtendedDigests(Session, Log') = ed
        /\ DueRecords(setup, Log') = dr
    BY <1>1, <1>3, <1>5, ConcatEmptySeq
  <2> QED BY <1>2, <2>1
<1> QED BY <1>4, <1>5

(* The order of the records: a lifecycle record where it belongs, or an    *)
(* event between the third record and the stop.                            *)
LEMMA OrderedAppend ==
  ASSUME LogIsInOrder, Log \in Seq(Record), NEW r \in Record,
         Log' = Append(Log, r), faults \subseteq faults',
         captureState = "open",
         \/ /\ phase = "opened" /\ phase' # "opened" /\ captureState' = "open"
            /\ IsType(r, "workload-target-bound")
         \/ /\ phase \notin {"opened", "bound"} /\ phase' # "opened"
            /\ captureState' = "open" /\ IsEvent(r)
         \/ /\ phase \notin {"opened", "bound"} /\ phase' # "opened"
            /\ IsType(r, "monitor-stop")
            /\ captureState' = "open" => "record" \in faults'
  PROVE  LogIsInOrder'
<1> DEFINE n == Len(Log)
<1>1. /\ n \in Nat /\ Len(Log') = n + 1 /\ Log'[n + 1] = r
      /\ \A i \in 1 .. n : Log'[i] = Log[i]
  BY AppendProperties, LenProperties
<1> HIDE DEF Log
<1> SUFFICES ASSUME "record" \notin faults' PROVE LogIsInOrder'
  BY DEF LogIsInOrder
<1>2. /\ n >= 2 /\ IsType(Log[1], "monitor-start")
      /\ IsType(Log[2], "policy-loaded")
      /\ phase = "opened" => n = 2
      /\ phase # "opened" => n >= 3 /\ IsType(Log[3], "workload-target-bound")
      /\ \A i \in 4 .. n : IsEvent(Log[i])
  BY DEF LogIsInOrder
<1> HIDE DEF n
<1>3. /\ Log'[1] = Log[1] /\ Log'[2] = Log[2]
      /\ n >= 3 => Log'[3] = Log[3]
  BY <1>1, <1>2
<1>4. \A i \in 4 .. n : IsEvent(Log'[i])
  BY <1>1, <1>2
<1> QED BY <1>1, <1>2, <1>3, <1>4 DEF LogIsInOrder


LEMMA SessionInit == Init => SessionInv
<1> SUFFICES ASSUME Init PROVE SessionInv
  OBVIOUS
<1> DEFINE h1 == SyntheticHash(Session, 1, "monitor-start", Reason("monitor-start"))
           h2 == SyntheticHash(Session, 2, "policy-loaded", Reason("policy-loaded"))
           r1 == SyntheticRecord(Session, 1, "monitor-start", h1, <<h1>>)
           r2 == SyntheticRecord(Session, 2, "policy-loaded", h2, <<h1, h2>>)
<1>1. /\ IsType(r1, "monitor-start") /\ IsType(r2, "policy-loaded")
      /\ ~IsEvent(r1) /\ ~IsEvent(r2)
  BY DEF SyntheticRecord, IsEvent, IsType
<1>2. Log = <<r1, r2>>
  <2>1. file = <<r1, r2>> /\ buffer = <<>> /\ file \in Seq(Record)
    BY StartTypes DEF Init, StartFile
  <2> HIDE DEF r1, r2
  <2> QED BY <2>1, ConcatEmptySeq DEF Log
<1> HIDE DEF r1, r2
<1>3. Len(Log) = 2 /\ Log[1] = r1 /\ Log[2] = r2
  BY <1>2
<1>4. /\ phase = "opened" /\ captureState = "open"
      /\ tpm.binding = None /\ tpm.extends = 0 /\ tpm.final = None
      /\ ~tpm.failed /\ ~tpm.quoteFailed
      /\ summaryFile \in {None, EarlierSummary}
  BY DEF Init
<1>5. /\ ExtendedDigests(Session, Log) = <<>>
      /\ Len(DueRecords(setup, Log)) = 0
  BY <1>4, BindingInit DEF BindingInv, EarlyIsUnbound, DueIsExtended
<1> HIDE DEF Log
<1>6. ExtendsUpTo(Log, Len(Log)) = 0
  <2>1. {j \in 1 .. Len(Log) : IsEvent(Log[j]) /\ Log[j].extended} = {}
    BY <1>1, <1>3
  <2> QED BY <2>1, FS_EmptySet DEF ExtendsUpTo
<1>7. RecordsAreMarked
  BY <1>1, <1>3, <1>4, <1>6 DEF RecordsAreMarked
<1>8. DigestsAreDue
  <2>1. Len(<<>>) = 0
    OBVIOUS
  <2> QED BY <1>5, <2>1 DEF DigestsAreDue
<1>9. LogIsInOrder
  BY <1>1, <1>3, <1>4 DEF LogIsInOrder
<1>10. TpmFieldsAgree
  BY <1>4 DEF TpmFieldsAgree
<1>11. SummaryIsTrue
  BY <1>4 DEF SummaryIsTrue
<1> QED BY <1>7, <1>8, <1>9, <1>10, <1>11 DEF SessionInv, LiveInv

(* What leaves the TPM fields and the summary alone. *)
LEMMA TpmFieldsKept ==
  ASSUME TpmFieldsAgree, UNCHANGED <<setup, tpm, pcr>>,
         faults \subseteq faults', phase' # "finished"
  PROVE  TpmFieldsAgree'
BY DEF TpmFieldsAgree, SetupStart

LEMMA SummaryKept ==
  ASSUME SummaryIsTrue, captureState # "finalized", captureState' # "finalized",
         summaryFile' \in {summaryFile, Torn}
  PROVE  SummaryIsTrue'
BY DEF SummaryIsTrue

LEMMA TargetBoundSession ==
  ASSUME KnownInv, SessionInv, WriteWorkloadTargetBound
  PROVE  SessionInv'
<1> DEFINE r == NewSynthetic("workload-target-bound")
<1>0. TypeOK /\ SealMatchesPhase
  BY DEF KnownInv, CaptureInv
<1>1. r \in Record /\ ~IsEvent(r) /\ IsType(r, "workload-target-bound")
  <2>1. r \in Record
    BY <1>0, SyntheticIsWellMade DEF LifecycleTypes
  <2> QED BY <2>1 DEF NewSynthetic, SyntheticRecord, IsEvent, IsType
<1>2. /\ phase = "opened" /\ captureState = "open"
      /\ UNCHANGED <<setup, tpm, pcr, summaryFile, captureState>>
  BY <1>0 DEF WriteWorkloadTargetBound, SealMatchesPhase, tpmVars
<1>3. PICK w \in WriteOutcomes(r) :
        /\ file' = w.file /\ buffer' = w.buffer
        /\ phase' = IF w.ok THEN "bound" ELSE "aborted"
        /\ faults' = faults \union {} \union (IF w.ok THEN {} ELSE {"record"})
  BY DEF WriteWorkloadTargetBound, WriteRecord
<1> HIDE DEF r
<1>4. Log' = Append(Log, r) /\ Log \in Seq(Record)
  BY <1>0, <1>1, <1>3, WriteGrowsLog
<1> HIDE DEF Log
<1>5. SummaryIsTrue'
  BY <1>2, SummaryKept DEF SessionInv
<1>6. LiveInv
  BY <1>2 DEF SessionInv
<1>7. RecordsAreMarked' /\ DigestsAreDue'
  BY <1>1, <1>2, <1>4, <1>6, PlainAppendMarked DEF LiveInv
<1>8. faults \subseteq faults' /\ phase' \notin {"opened", "finished"}
  BY <1>3
<1>9. LogIsInOrder'
  BY <1>1, <1>2, <1>4, <1>6, <1>8, OrderedAppend DEF LiveInv
<1>10. TpmFieldsAgree'
  BY <1>2, <1>6, <1>8, TpmFieldsKept DEF LiveInv
<1> QED BY <1>5, <1>7, <1>9, <1>10 DEF SessionInv, LiveInv

LEMMA SessionStartSession ==
  ASSUME KnownInv, SessionInv, BindTpmSessionStart
  PROVE  SessionInv'
<1>0. TypeOK /\ SealMatchesPhase /\ BindingInv
  BY DEF KnownInv, CaptureInv
<1>1. /\ phase = "bound" /\ captureState = "open"
      /\ UNCHANGED <<setup, file, buffer, summaryFile, captureState>>
  BY <1>0 DEF BindTpmSessionStart, SealMatchesPhase, logVars
<1>2. PICK o \in SessionStartOutcomes :
        /\ pcr' = o.pcr
        /\ tpm' = o.tpm
        /\ phase' = IF o.err THEN "aborted" ELSE "collecting"
        /\ faults' = faults \union o.fault
  BY DEF BindTpmSessionStart
<1>3. UNCHANGED Log
  BY <1>1 DEF Log
<1> HIDE DEF Log
<1>4. LiveInv /\ tpm.final = None
  BY <1>0, <1>1 DEF SessionInv, BindingInv, OpenIsUnfinished
<1>5. SummaryIsTrue'
  BY <1>1, SummaryKept DEF SessionInv
<1> SUFFICES ASSUME ~o.err PROVE LiveInv'
  BY <1>2, <1>5 DEF SessionInv
<1>6. /\ phase' = "collecting" /\ faults \subseteq faults'
      /\ tpm \in TpmState /\ tpm.failed \in BOOLEAN
      /\ setup.failClosed \in BOOLEAN /\ setup.tpm \in BOOLEAN
  BY <1>0, <1>2, SetupAssumption DEF TypeOK, TpmState
<1>7. /\ tpm'.extends = tpm.extends /\ tpm'.final = tpm.final
      /\ tpm'.quoteFailed = tpm.quoteFailed
      /\ \/ /\ tpm'.binding = tpm.binding
            /\ tpm'.failed /\ setup.tpm /\ ~setup.failClosed /\ "tpm" \in faults'
         \/ tpm'.binding = tpm.binding /\ tpm'.failed = tpm.failed
         \/ /\ tpm'.failed = tpm.failed
            /\ tpm'.binding.digest = SetupStart
            /\ tpm'.binding.afterStart = Append(tpm'.binding.initial, SetupStart)
  <2>1. CASE Fails(o) /\ ~TpmIdle
    BY <1>2, <1>6, <2>1 DEF Fails, TpmState, TpmIdle
  <2>2. CASE Rests(o)
    BY <1>2, <2>2 DEF Rests
  <2>3. ASSUME NEW b, o.tpm = [tpm EXCEPT !.binding = b],
               b.afterStart = Append(b.initial, b.digest), b.digest = SetupStart
        PROVE  /\ tpm'.extends = tpm.extends /\ tpm'.final = tpm.final
               /\ tpm'.quoteFailed = tpm.quoteFailed
               /\ tpm'.failed = tpm.failed
               /\ tpm'.binding.digest = SetupStart
               /\ tpm'.binding.afterStart =
                    Append(tpm'.binding.initial, SetupStart)
    BY <1>2, <1>6, <2>3 DEF TpmState
  <2> QED BY <1>0, <2>1, <2>2, <2>3, SessionStartBinds DEF SetupStart
<1>8. RecordsAreMarked' /\ DigestsAreDue'
  BY <1>1, <1>3, <1>4, <1>7, SameLogMarked DEF LiveInv
<1>9. LogIsInOrder'
  BY <1>1, <1>3, <1>4, <1>6 DEF LiveInv, LogIsInOrder
<1>10. TpmFieldsAgree'
  BY <1>1, <1>4, <1>6, <1>7 DEF LiveInv, TpmFieldsAgree, SetupStart
<1> QED BY <1>8, <1>9, <1>10 DEF LiveInv


LEMMA SampleSession ==
  ASSUME KnownInv, SessionInv, NEW e \in Event, ProcessSample(e)
  PROVE  SessionInv'
<1> DEFINE hash == EventHash(Session, state.next, e)
           next == Advance(state, Verdict[e].class, hash)
           Extended(o) == o.tpm.extends > tpm.extends
           Index(o) == IF Extended(o) THEN o.tpm.extends ELSE 0
           NewRecord(o) == RuntimeRecord(Session, state.next, e, hash,
                             next.head, Extended(o), Index(o))
           due    == ShouldExtend(Verdict[e].class)
           digest == ClassifiedDigest(Session, state.next, hash, Verdict[e])
<1>0. TypeOK /\ SealMatchesPhase /\ BindingInv
  BY DEF KnownInv, CaptureInv
<1>1. PICK o \in EventExtendOutcomes(state.next, e) :
        /\ pcr' = o.pcr
        /\ tpm' = o.tpm
        /\ IF o.err
           THEN Abort("tpm") /\ UNCHANGED <<file, buffer>>
           ELSE WriteRecord(NewRecord(o), phase, o.fault)
  <2> HIDE DEF hash, next, Extended, Index, NewRecord
  <2> QED BY DEF ProcessSample, hash, next, Extended, Index, NewRecord
<1>2. /\ phase = "collecting" /\ captureState = "open" /\ tpm.final = None
      /\ UNCHANGED <<setup, captureState, summaryFile>>
  BY <1>0 DEF ProcessSample, SealMatchesPhase, BindingInv, OpenIsUnfinished
<1>3. \/ Fails(o) /\ due /\ ~tpm.failed
      \/ Rests(o) /\ (due => tpm.failed)
      \/ /\ due /\ ~tpm.failed /\ ~o.err /\ o.fault = {}
         /\ o.tpm = [tpm EXCEPT !.extends = @ + 1]
         /\ o.pcr = Append(pcr, digest)
  BY <1>0, EventExtendBinds
<1>4. /\ tpm \in TpmState /\ tpm.extends \in Nat /\ tpm.failed \in BOOLEAN
      /\ setup.failClosed \in BOOLEAN /\ state.next \in Nat
  BY <1>0, SetupAssumption DEF TypeOK, TpmState, EvidenceState
<1>5. SummaryIsTrue'
  BY <1>2, SummaryKept DEF SessionInv
<1> SUFFICES ASSUME phase' # "aborted" PROVE LiveInv'
  BY <1>5 DEF SessionInv
<1>6. ~o.err
  BY <1>1 DEF Abort
<1> DEFINE r == NewRecord(o)
<1>7. o \in TpmOutcome
  BY <1>0, <1>4, EventExtendType
<1>8. Extended(o) \in BOOLEAN /\ Index(o) \in Nat
  BY <1>7 DEF TpmOutcome, TpmState
<1>9. r \in Record
  <2> HIDE DEF Extended, Index
  <2> QED BY <1>0, <1>8, RuntimeRecordType
<1>10. /\ IsEvent(r) /\ r.event = e
       /\ r.verdict = Verdict[r.event]
       /\ r.hash = RecordHash(Session, r)
       /\ r.extended = Extended(o) /\ r.index = Index(o)
  <2> HIDE DEF Extended, Index, next
  <2> QED BY DEF RuntimeRecord, RecordHash, IsEvent
<1>11. PICK w \in WriteOutcomes(r) :
         /\ file' = w.file /\ buffer' = w.buffer
         /\ phase' = IF w.ok THEN phase ELSE "aborted"
         /\ faults' = faults \union o.fault
                        \union (IF w.ok THEN {} ELSE {"record"})
  BY <1>1, <1>6 DEF WriteRecord
<1> HIDE DEF NewRecord, r
<1>12. Log' = Append(Log, r) /\ Log \in Seq(Record)
  BY <1>0, <1>9, <1>11, WriteGrowsLog
<1> HIDE DEF Log
<1>13. phase' = "collecting" /\ faults \subseteq faults' /\ LiveInv
  BY <1>2, <1>11 DEF SessionInv
<1>14. Due(r) <=> due
  BY <1>10 DEF Due, ShouldExtend
<1>15. /\ tpm'.extends = IF r.extended THEN tpm.extends + 1 ELSE tpm.extends
       /\ r.extended => Due(r) /\ r.index = tpm'.extends
       /\ r.index # 0 => r.extended
       /\ Due(r) /\ ~tpm'.failed => r.extended
       /\ ~tpm'.failed => ~tpm.failed
       /\ tpm'.failed => tpm.failed \/
            (setup.tpm /\ ~setup.failClosed /\ "tpm" \in faults')
       /\ tpm'.binding = tpm.binding /\ tpm'.final = tpm.final
       /\ tpm'.quoteFailed = tpm.quoteFailed
  <2>0. /\ tpm' = o.tpm
        /\ tpm'.extends > tpm.extends => r.extended /\ r.index = tpm'.extends
        /\ ~(tpm'.extends > tpm.extends) => ~r.extended /\ r.index = 0
    <3>1. tpm' = o.tpm /\ r.extended = Extended(o) /\ r.index = Index(o)
      BY <1>1, <1>10
    <3> QED BY <3>1
  <2> HIDE DEF due, digest, Extended, Index
  <2>1. CASE Fails(o) /\ due /\ ~tpm.failed
    <3>1. /\ tpm'.extends = tpm.extends /\ tpm'.failed = ~setup.failClosed
          /\ tpm'.binding = tpm.binding /\ tpm'.final = tpm.final
          /\ tpm'.quoteFailed = tpm.quoteFailed
          /\ ~setup.failClosed
      BY <1>1, <1>4, <1>6, <2>1 DEF Fails, TpmState
    <3>2. setup.tpm /\ "tpm" \in faults'
      BY <1>11, <2>1 DEF Fails, ShouldExtend, due
    <3>3. ~(tpm'.extends > tpm.extends)
      BY <1>4, <3>1
    <3>4. ~r.extended /\ r.index = 0
      BY <2>0, <3>3, Zenon
    <3> QED BY <2>1, <3>1, <3>2, <3>4
  <2>2. CASE Rests(o) /\ (due => tpm.failed)
    <3>1. tpm' = tpm
      BY <2>0, <2>2 DEF Rests
    <3>2. ~(tpm'.extends > tpm.extends)
      BY <1>4, <3>1
    <3>3. ~r.extended /\ r.index = 0
      BY <2>0, <3>2, Zenon
    <3> QED BY <1>14, <2>2, <3>1, <3>3
  <2>3. CASE due /\ ~tpm.failed /\ o.tpm = [tpm EXCEPT !.extends = @ + 1]
    <3>1. /\ tpm'.extends = tpm.extends + 1 /\ tpm'.failed = tpm.failed
          /\ tpm'.binding = tpm.binding /\ tpm'.final = tpm.final
          /\ tpm'.quoteFailed = tpm.quoteFailed
      BY <1>4, <2>0, <2>3 DEF TpmState
    <3>2. tpm'.extends > tpm.extends
      BY <1>4, <3>1
    <3>3. r.extended /\ r.index = tpm'.extends
      BY <2>0, <3>2, Zenon
    <3> QED BY <1>14, <2>3, <3>1, <3>3
  <2> QED BY <1>3, <2>1, <2>2, <2>3
<1> HIDE DEF due, digest, hash, next, Extended, Index
<1>16. RecordsAreMarked'
  BY <1>2, <1>9, <1>10, <1>12, <1>13, <1>15, MarkedAppend DEF LiveInv
<1>17. DigestsAreDue'
  <2>1. ~tpm'.failed => (r.extended <=> Due(r))
    BY <1>15
  <2> QED BY <1>2, <1>9, <1>10, <1>12, <1>13, <1>15, <2>1, EventAppendDigests
          DEF LiveInv
<1>18. LogIsInOrder'
  BY <1>2, <1>9, <1>10, <1>12, <1>13, OrderedAppend DEF LiveInv
<1>19. TpmFieldsAgree'
  BY <1>2, <1>13, <1>15 DEF LiveInv, TpmFieldsAgree, SetupStart
<1> QED BY <1>16, <1>17, <1>18, <1>19 DEF LiveInv


(* write_summary: the stop record, if there is one, and the log's marks.   *)
LEMMA SealSession ==
  ASSUME TypeOK, LiveInv, NEW seal \in SealOutcomes,
         phase \in {"collecting", "retrying"},
         file' = seal.log.file, buffer' = seal.log.buffer,
         UNCHANGED setup, phase' # "opened", faults \subseteq faults',
         seal.log.ok => captureState' # "open",
         ~seal.log.ok => captureState' = captureState /\ "record" \in faults',
         tpm'.extends = tpm.extends, ~tpm'.failed => ~tpm.failed
  PROVE  RecordsAreMarked' /\ DigestsAreDue' /\ LogIsInOrder'
<1>1. CASE captureState = "open"
  <2> DEFINE r == NewSynthetic("monitor-stop")
  <2>1. PICK w \in WriteOutcomes(r) :
          seal = [state |-> NextSynthetic("monitor-stop"), log |-> w]
    BY <1>1 DEF SealOutcomes
  <2>2. r \in Record /\ ~IsEvent(r) /\ IsType(r, "monitor-stop")
    <3>1. r \in Record
      BY SyntheticIsWellMade DEF LifecycleTypes
    <3> QED BY <3>1 DEF NewSynthetic, SyntheticRecord, IsEvent, IsType
  <2> HIDE DEF r
  <2>3. file' = w.file /\ buffer' = w.buffer /\ seal.log.ok = w.ok
    BY <2>1
  <2>4. Log' = Append(Log, r) /\ Log \in Seq(Record)
    BY <2>2, <2>3, WriteGrowsLog
  <2> HIDE DEF Log
  <2>5. RecordsAreMarked' /\ DigestsAreDue'
    BY <2>2, <2>4, PlainAppendMarked DEF LiveInv
  <2>6. captureState' = "open" => "record" \in faults'
    BY <1>1
  <2>7. LogIsInOrder'
    BY <1>1, <2>2, <2>4, <2>6, OrderedAppend DEF LiveInv
  <2> QED BY <2>5, <2>7
<1>2. CASE captureState # "open"
  <2>1. file' = file /\ buffer' = buffer /\ seal.log.ok = TRUE
    BY <1>2, SealOutcomesSealed
  <2>2. Log' = Log
    BY <2>1 DEF Log
  <2> HIDE DEF Log
  <2>3. RecordsAreMarked' /\ DigestsAreDue'
    BY <2>2, SameLogMarked DEF LiveInv
  <2>4. captureState' # "open" /\ phase # "opened"
    BY <2>1
  <2>5. LogIsInOrder'
    BY <1>2, <2>2, <2>4 DEF LiveInv, LogIsInOrder
  <2> QED BY <2>3, <2>5
<1> QED BY <1>1, <1>2

(* The TPM fields after finalize_tpm_binding. *)
LEMMA FinalizeFields ==
  ASSUME TypeOK, TpmFieldsAgree, NEW digest \in FinalDigest,
         NEW o \in FinalizeOutcomes(digest), UNCHANGED setup,
         pcr' = o.pcr, tpm' = o.tpm, faults \union o.fault \subseteq faults',
         phase # "finished", phase' = "finished" => ~o.err
  PROVE  /\ TpmFieldsAgree'
         /\ tpm'.extends = tpm.extends
         /\ ~tpm'.failed => ~tpm.failed
         /\ tpm'.final # None /\ ~tpm'.failed /\ ~o.err =>
              tpm'.final.finalDigest = digest
<1>1. /\ tpm \in TpmState /\ tpm.failed \in BOOLEAN
      /\ setup.failClosed \in BOOLEAN
  BY SetupAssumption DEF TypeOK, TpmState
<1>2. CASE Fails(o) /\ tpm.final = None /\ ~TpmIdle
  <2>1. /\ tpm'.binding = tpm.binding /\ tpm'.final = None
        /\ tpm'.extends = tpm.extends /\ tpm'.quoteFailed = tpm.quoteFailed
        /\ tpm'.failed = ~setup.failClosed /\ o.err = setup.failClosed
        /\ "tpm" \in faults' /\ setup.tpm /\ ~tpm.failed
    BY <1>1, <1>2 DEF Fails, TpmState, TpmIdle
  <2> QED BY <1>1, <2>1 DEF TpmFieldsAgree, SetupStart
<1>3. CASE TpmIdle /\ o.pcr = pcr /\ o.tpm = tpm
  BY <1>3 DEF TpmFieldsAgree, SetupStart, TpmIdle
<1>4. CASE /\ tpm.final # None /\ o.pcr = pcr /\ o.tpm = tpm
           /\ ~o.err => tpm.final.finalDigest = digest
  BY <1>4 DEF TpmFieldsAgree, SetupStart
<1>5. CASE /\ tpm.final # None /\ tpm.final.finalDigest = digest
           /\ Claims(o, tpm.final, pcr)
  <2>1. tpm'.final # None
    BY <1>5, AbsentAssumption DEF Claims
  <2> QED BY <1>5, <2>1 DEF Claims, TpmFieldsAgree, SetupStart
<1>6. ASSUME tpm.binding # None, ~TpmIdle, NEW s,
             s.initial = tpm.binding.initial,
             s.afterStart = tpm.binding.afterStart,
             s.startDigest = tpm.binding.digest,
             s.finalDigest = digest, s.finalPcr = o.pcr, Claims(o, s, o.pcr)
      PROVE  /\ TpmFieldsAgree'
             /\ tpm'.extends = tpm.extends
             /\ ~tpm'.failed => ~tpm.failed
             /\ tpm'.final.finalDigest = digest
  <2>1. tpm'.final # None /\ setup.tpm
    BY <1>6, AbsentAssumption DEF Claims, TpmIdle
  <2> QED BY <1>6, <2>1 DEF Claims, TpmFieldsAgree, SetupStart
<1> QED BY <1>2, <1>3, <1>4, <1>5, <1>6, FinalizeClaims


LEMMA SummarySession ==
  ASSUME KnownInv, SessionInv, NEW lost \in 0 .. MaxLost, WriteSummary(lost)
  PROVE  SessionInv'
<1> DEFINE digest(seal) == FinalSummaryDigest(Session, seal.state.head,
                             seal.state.counts, lost, setup.policyHash)
<1>0. TypeOK /\ SealMatchesPhase
  BY DEF KnownInv, CaptureInv
<1>1. /\ phase \in {"collecting", "retrying"} /\ captureState # "finalized"
      /\ UNCHANGED setup /\ lost \in Nat
  BY <1>0, BoundsAssumption DEF WriteSummary, SealMatchesPhase
<1>2. PICK seal \in SealOutcomes :
        /\ state' = seal.state
        /\ file' = seal.log.file
        /\ buffer' = seal.log.buffer
        /\ \/ /\ ~seal.log.ok
              /\ phase' \in {"retrying", "aborted"}
              /\ faults' = faults \union {"record"}
              /\ UNCHANGED <<captureState, tpmVars, summaryFile>>
           \/ /\ seal.log.ok
              /\ \E o \in FinalizeOutcomes(digest(seal)) :
                   /\ pcr' = o.pcr
                   /\ tpm' = o.tpm
                   /\ faults \union o.fault \subseteq faults'
                   /\ \/ /\ phase' \in {"retrying", "aborted"}
                         /\ captureState' = "stop-written"
                         /\ UNCHANGED summaryFile
                      \/ /\ ~o.err
                         /\ \E w \in SummaryOutcomes(
                                  RuntimeSummary(seal.state, lost, o.tpm)) :
                              /\ summaryFile' = w.file
                              /\ \/ /\ w.ok
                                    /\ phase' = "finished"
                                    /\ captureState' = "finalized"
                                 \/ /\ ~w.ok
                                    /\ phase' \in {"retrying", "aborted"}
                                    /\ captureState' = "stop-written"
  BY DEF WriteSummary
<1>3. LiveInv
  BY <1>1 DEF SessionInv
<1>4. CASE ~seal.log.ok
  <2>1. /\ phase' \in {"retrying", "aborted"} /\ faults' = faults \union {"record"}
        /\ UNCHANGED <<captureState, tpm, pcr, summaryFile>>
    BY <1>2, <1>4 DEF tpmVars
  <2>2. SummaryIsTrue'
    BY <1>1, <2>1, SummaryKept DEF SessionInv
  <2>3. RecordsAreMarked' /\ DigestsAreDue' /\ LogIsInOrder'
    BY <1>0, <1>1, <1>2, <1>3, <1>4, <2>1, SealSession
  <2>4. TpmFieldsAgree'
    BY <1>1, <1>3, <2>1, TpmFieldsKept DEF LiveInv
  <2> QED BY <2>2, <2>3, <2>4 DEF SessionInv, LiveInv
<1>5. CASE seal.log.ok
  <2> HIDE DEF digest
  <2>1. PICK o \in FinalizeOutcomes(digest(seal)) :
          /\ pcr' = o.pcr
          /\ tpm' = o.tpm
          /\ faults \union o.fault \subseteq faults'
          /\ \/ /\ phase' \in {"retrying", "aborted"}
                /\ captureState' = "stop-written"
                /\ UNCHANGED summaryFile
             \/ /\ ~o.err
                /\ \E w \in SummaryOutcomes(
                         RuntimeSummary(seal.state, lost, o.tpm)) :
                     /\ summaryFile' = w.file
                     /\ \/ /\ w.ok
                           /\ phase' = "finished"
                           /\ captureState' = "finalized"
                        \/ /\ ~w.ok
                           /\ phase' \in {"retrying", "aborted"}
                           /\ captureState' = "stop-written"
    BY <1>2, <1>5
  <2>2. digest(seal) \in FinalDigest
    <3>1. seal.state \in EvidenceState /\ setup \in Setups
      BY <1>0, SealOutcomesType DEF TypeOK
    <3> QED BY <1>1, <3>1 DEF FinalSummaryDigest, FinalDigest, EvidenceState, digest
  <2>3. phase # "finished" /\ (phase' = "finished" => ~o.err)
    BY <1>1, <2>1
  <2>4. /\ TpmFieldsAgree'
        /\ tpm'.extends = tpm.extends
        /\ ~tpm'.failed => ~tpm.failed
        /\ tpm'.final # None /\ ~tpm'.failed /\ ~o.err =>
             tpm'.final.finalDigest = digest(seal)
    BY <1>0, <1>1, <1>3, <2>1, <2>2, <2>3, FinalizeFields DEF LiveInv
  <2>5. captureState' # "open" /\ phase' # "opened" /\ faults \subseteq faults'
    BY <2>1
  <2>6. RecordsAreMarked' /\ DigestsAreDue' /\ LogIsInOrder'
    BY <1>0, <1>1, <1>2, <1>3, <1>5, <2>4, <2>5, SealSession
  <2>7. SummaryIsTrue'
    <3> DEFINE s == RuntimeSummary(seal.state, lost, o.tpm)
    <3>1. /\ s.dropped = lost
          /\ s = RuntimeSummary(state, lost, tpm)'
          /\ digest(seal) = FinalSummaryDigest(Session, state'.head,
                              state'.counts, lost, setup'.policyHash)
      BY <1>1, <1>2, <2>1
         DEF RuntimeSummary, AttestationStatus, Markers, digest
    <3> HIDE DEF s
    <3>2. \/ captureState' = "stop-written" /\ summaryFile' \in {summaryFile, Torn}
          \/ captureState' = "finalized" /\ ~o.err /\ summaryFile' \in {s, Torn}
      <4>1. CASE captureState' = "stop-written" /\ UNCHANGED summaryFile
        BY <4>1
      <4>2. ASSUME NEW w \in SummaryOutcomes(s), summaryFile' = w.file, ~o.err,
                   \/ w.ok /\ captureState' = "finalized"
                   \/ ~w.ok /\ captureState' = "stop-written"
            PROVE  \/ captureState' = "stop-written"
                      /\ summaryFile' \in {summaryFile, Torn}
                   \/ captureState' = "finalized" /\ ~o.err
                      /\ summaryFile' \in {s, Torn}
        BY <4>2 DEF SummaryOutcomes
      <4> QED BY <2>1, <4>1, <4>2 DEF s
    <3>3. CASE captureState' = "stop-written" /\ summaryFile' \in {summaryFile, Torn}
      BY <1>1, <3>3, SummaryKept DEF SessionInv
    <3>4. CASE captureState' = "finalized" /\ ~o.err /\ summaryFile' \in {s, Torn}
      <4> SUFFICES ASSUME summaryFile' # Torn
                   PROVE  /\ summaryFile'.dropped \in Nat
                          /\ summaryFile' =
                               RuntimeSummary(state, summaryFile.dropped, tpm)'
                          /\ tpm'.final # None /\ ~tpm'.failed =>
                               tpm'.final.finalDigest =
                                 FinalSummaryDigest(Session, state'.head,
                                   state'.counts, summaryFile'.dropped,
                                   setup'.policyHash)
        BY <3>4 DEF SummaryIsTrue
      <4>1. summaryFile' = s
        BY <3>4
      <4> QED BY <1>1, <2>4, <3>1, <3>4, <4>1
    <3> QED BY <3>2, <3>3, <3>4
  <2> QED BY <2>4, <2>6, <2>7 DEF SessionInv, LiveInv
<1> QED BY <1>4, <1>5

LEMMA IdleSession ==
  ASSUME KnownInv, SessionInv,
         \/ ProcessMalformedSample \/ ProcessUnknownIndex \/ Kill \/ DropWriter
         \/ UNCHANGED vars
  PROVE  SessionInv'
<1>1. \/ UNCHANGED <<setup, file, buffer, state, tpm, pcr, phase, captureState,
                     summaryFile, faults>>
      \/ /\ phase' = "aborted"
         /\ UNCHANGED <<setup, state, tpm, captureState, summaryFile>>
  BY DEF ProcessMalformedSample, ProcessUnknownIndex, Kill, DropWriter, Abort,
         vars, logVars, tpmVars
<1>2. UNCHANGED <<setup, state, tpm, captureState, summaryFile>>
  BY <1>1
<1>3. SummaryIsTrue'
  BY <1>2 DEF SessionInv, SummaryIsTrue, RuntimeSummary, AttestationStatus,
              Markers
<1>4. CASE phase' = "aborted"
  BY <1>3, <1>4 DEF SessionInv
<1>5. CASE UNCHANGED <<setup, file, buffer, tpm, pcr, phase, captureState, faults>>
  <2>1. UNCHANGED Log
    BY <1>5 DEF Log
  <2> HIDE DEF Log
  <2> SUFFICES ASSUME phase # "aborted" PROVE LiveInv'
    BY <1>3, <1>5 DEF SessionInv
  <2>2. LiveInv
    BY DEF SessionInv
  <2>3. RecordsAreMarked' /\ DigestsAreDue'
    BY <1>5, <2>1, <2>2, SameLogMarked DEF LiveInv
  <2>4. LogIsInOrder' /\ TpmFieldsAgree'
    BY <1>5, <2>1, <2>2 DEF LiveInv, LogIsInOrder, TpmFieldsAgree, SetupStart
  <2> QED BY <2>3, <2>4 DEF LiveInv
<1> QED BY <1>1, <1>4, <1>5

LEMMA SessionStep ==
  ASSUME KnownInv, SessionInv, [Next]_vars
  PROVE  SessionInv'
<1>1. CASE WriteWorkloadTargetBound
  BY <1>1, TargetBoundSession
<1>2. CASE BindTpmSessionStart
  BY <1>2, SessionStartSession
<1>3. ASSUME NEW e \in Event, ProcessSample(e) PROVE SessionInv'
  BY <1>3, SampleSession
<1>4. ASSUME NEW lost \in 0 .. MaxLost, WriteSummary(lost) PROVE SessionInv'
  BY <1>4, SummarySession
<1>5. CASE \/ ProcessMalformedSample \/ ProcessUnknownIndex \/ Kill
           \/ DropWriter \/ UNCHANGED vars
  BY <1>5, IdleSession
<1> QED BY <1>1, <1>2, <1>3, <1>4, <1>5 DEF Next

LEMMA SessionHolds == Spec => [](KnownInv /\ SessionInv)
<1>1. Init => KnownInv /\ SessionInv
  BY TypeInit, SealInit, LogInit, CountsInit, BindingInit, SessionInit
     DEF KnownInv, CaptureInv
<1>2. KnownInv /\ SessionInv /\ [Next]_vars => KnownInv' /\ SessionInv'
  BY TypeStep, SealStep, LogStep, CountsStep, BindingStep, SessionStep
     DEF KnownInv, CaptureInv
<1> QED BY <1>1, <1>2, PTL DEF Spec


-----------------------------------------------------------------------------
(* What the verifier is given. A summary of this session was written by    *)
(* write_summary as its last act, over the log as it is in the file.       *)
SealedFiles ==
  /\ captureState = "finalized" /\ phase = "finished" /\ buffer = <<>>
  /\ file \in Seq(Record)
  /\ Log = file
  /\ LiveInv
  /\ \A i \in 1 .. Len(file) :
       /\ file[i].seq = i
       /\ file[i].hash = RecordHash(Session, file[i])
       /\ file[i].head = ReplayHead(Session, file, i)
  /\ state.next = Len(file) + 1
  /\ state.head = ReplayHead(Session, file, Len(file))
  /\ state.counts = Tally(file)
  /\ summaryFile \notin {None, Torn}
  /\ summaryFile = RuntimeSummary(state, summaryFile.dropped, tpm)
  /\ summaryFile.dropped \in Nat
  /\ summaryFile.session = Session
  /\ summaryFile.head = state.head
  /\ summaryFile.counts = state.counts

LEMMA CurrentIsSealed ==
  ASSUME KnownInv, SessionInv, CurrentSummary
  PROVE  SealedFiles
<1>0. TypeOK /\ SealMatchesPhase /\ LogReplays /\ CountsMatchLog
  BY DEF KnownInv, CaptureInv
<1>1. /\ summaryFile \notin {None, Torn} /\ summaryFile.session = Session
  BY FilesAssumption DEF CurrentSummary
<1>2. captureState = "finalized"
  BY <1>1, AbsentAssumption DEF SessionInv, SummaryIsTrue
<1>3. phase = "finished" /\ buffer = <<>>
  BY <1>0, <1>2 DEF SealMatchesPhase
<1>4. LiveInv
  BY <1>3 DEF SessionInv
<1>5. Log = file /\ file \in Seq(Record)
  BY <1>0, <1>3, ConcatEmptySeq DEF Log, TypeOK
<1>6. /\ summaryFile = RuntimeSummary(state, summaryFile.dropped, tpm)
      /\ summaryFile.dropped \in Nat
  BY <1>1, <1>2 DEF SessionInv, SummaryIsTrue
<1> HIDE DEF Log
<1>7. /\ \A i \in 1 .. Len(file) :
           /\ file[i].seq = i
           /\ file[i].hash = RecordHash(Session, file[i])
           /\ file[i].head = ReplayHead(Session, file, i)
      /\ state.next = Len(file) + 1
      /\ state.head = ReplayHead(Session, file, Len(file))
      /\ state.counts = Tally(file)
  <2>1. DOMAIN file = 1 .. Len(file)
    BY <1>5
  <2> QED BY <1>0, <1>3, <1>5, <2>1 DEF LogReplays, CountsMatchLog
<1>8. summaryFile.head = state.head /\ summaryFile.counts = state.counts
  <2>1. \A lost : /\ RuntimeSummary(state, lost, tpm).head = state.head
                  /\ RuntimeSummary(state, lost, tpm).counts = state.counts
    BY DEF RuntimeSummary
  <2> QED BY <1>6, <2>1
<1> QED BY <1>1, <1>2, <1>3, <1>4, <1>5, <1>6, <1>7, <1>8 DEF SealedFiles

(* The verifier gives a verdict on files that are structurally valid. They *)
(* have a record, and so the summary is of the session that wrote it.      *)
LEMMA VerdictIsValid ==
  ASSUME NEW p, NEW log, NEW s, NEW required
  PROVE  /\ Verify(p, log, s, required) # InvalidEvidence =>
              s \notin Unreadable /\ StructurallyValid(p, log, s, required)
         /\ s \notin Unreadable /\ StructurallyValid(p, log, s, required) =>
              Verify(p, log, s, required) =
                DecisionForValidEvidence(p, s, Tally(log))
BY DEF Verify

LEMMA ValidIsCurrent ==
  ASSUME TypeOK, NEW required, summaryFile \notin Unreadable,
         StructurallyValid(setup, file, summaryFile, required)
  PROVE  CurrentSummary
<1>1. PICK i \in DOMAIN file : IsType(file[i], "monitor-start")
  BY DEF StructurallyValid, LifecycleComplete, LifecycleTypes
<1>2. file[i].session = summaryFile.session
  BY DEF StructurallyValid, RecordReplays
<1>3. file[i].session = Session
  <2>1. file[i] \in Record
    BY DEF TypeOK
  <2> QED BY <2>1 DEF Record
<1> QED BY <1>2, <1>3 DEF CurrentSummary

(* The verifier accepts, rejects or warns only on a log the capture has    *)
(* sealed and that is whole on disk: never after a crash, never over a     *)
(* torn summary, never over the summary of an earlier session.             *)
THEOREM VerdictNeedsTheSeal == Spec => []VerdictOnlyWhenSealed
<1>1. KnownInv /\ SessionInv => VerdictOnlyWhenSealed
  <2> SUFFICES ASSUME KnownInv, SessionInv, Verification # InvalidEvidence
               PROVE  /\ captureState = "finalized" /\ buffer = <<>>
                      /\ Len(file) = state.next - 1
    BY DEF VerdictOnlyWhenSealed
  <2>1. /\ summaryFile \notin Unreadable
        /\ StructurallyValid(setup, file, summaryFile, FALSE)
    BY VerdictIsValid DEF Verification
  <2>2. SealedFiles
    BY <2>1, ValidIsCurrent, CurrentIsSealed DEF KnownInv, CaptureInv
  <2>3. file \in Seq(Record) /\ state.next = Len(file) + 1
    BY <2>2 DEF SealedFiles
  <2>4. Len(file) = state.next - 1
    BY <2>3
  <2> QED BY <2>2, <2>4 DEF SealedFiles
<1> QED BY <1>1, SessionHolds, PTL


-----------------------------------------------------------------------------
(* An honest session verifies, reason by reason. A log in order has no     *)
(* lifecycle reason:                                                       *)
LEMMA OrderedIsLifecycle ==
  ASSUME NEW log \in Seq(Record), NEW n \in Nat, n = Len(log), n >= 4,
         IsType(log[1], "monitor-start"), IsType(log[2], "policy-loaded"),
         IsType(log[3], "workload-target-bound"),
         IsType(log[n], "monitor-stop"),
         \A i \in 4 .. n - 1 : IsEvent(log[i])
  PROVE  (\A i \in 1 .. n : LifecycleHolds(log, i)) /\ LifecycleComplete(log)
<1> DEFINE Seen(i, type) == \E j \in 1 .. i - 1 : IsType(log[j], type)
<1>1. \A r, type : IsType(r, type) => ~IsEvent(r) /\ r.type = type
  BY DEF IsType, IsEvent
<1>2. /\ log[1].type = "monitor-start" /\ log[2].type = "policy-loaded"
      /\ log[3].type = "workload-target-bound" /\ log[n].type = "monitor-stop"
      /\ ~IsEvent(log[1]) /\ ~IsEvent(log[2]) /\ ~IsEvent(log[3])
      /\ ~IsEvent(log[n])
  BY <1>1
<1>3. ASSUME NEW i \in 1 .. n
      PROVE  i = 1 \/ i = 2 \/ i = 3 \/ i = n \/ i \in 4 .. n - 1
  OBVIOUS
<1>4. ASSUME NEW i \in 1 .. n
      PROVE  /\ IsType(log[i], "monitor-start") => i = 1
             /\ IsType(log[i], "policy-loaded") => i = 2
             /\ IsType(log[i], "workload-target-bound") => i = 3
             /\ IsType(log[i], "monitor-stop") => i = n
  BY <1>1, <1>2, <1>3
<1>5. ASSUME NEW i \in 1 .. n
      PROVE  /\ Seen(i, "monitor-start") <=> i > 1
             /\ Seen(i, "policy-loaded") <=> i > 2
             /\ Seen(i, "workload-target-bound") <=> i > 3
             /\ ~Seen(i, "monitor-stop")
  <2>1. \A j \in 1 .. i - 1 : j \in 1 .. n /\ j < i /\ j # n
    OBVIOUS
  <2>2. /\ i > 1 => 1 \in 1 .. i - 1
        /\ i > 2 => 2 \in 1 .. i - 1
        /\ i > 3 => 3 \in 1 .. i - 1
    OBVIOUS
  <2> QED BY <1>4, <2>1, <2>2
<1>6. ASSUME NEW i \in 1 .. n
      PROVE  LifecycleHolds(log, i)
  <2> DEFINE S(type) == Seen(i, type)
  <2>1. LifecycleHolds(log, i) <=>
          /\ ~S("monitor-stop")
          /\ IsEvent(log[i]) => S("workload-target-bound")
          /\ ~IsEvent(log[i]) => ~S(log[i].type)
          /\ IsType(log[i], "monitor-start") => i = 1
          /\ IsType(log[i], "policy-loaded") =>
               (\A type \in {"monitor-start"} : S(type))
               /\ ~S("workload-target-bound")
          /\ IsType(log[i], "workload-target-bound") =>
               \A type \in {"monitor-start", "policy-loaded"} : S(type)
          /\ IsType(log[i], "monitor-stop") =>
               /\ \A type \in LifecycleTypes \ {"monitor-stop"} : S(type)
               /\ i = Len(log)
    BY DEF LifecycleHolds
  <2>2. /\ S("monitor-start") <=> i > 1
        /\ S("policy-loaded") <=> i > 2
        /\ S("workload-target-bound") <=> i > 3
        /\ ~S("monitor-stop")
    BY <1>5
  <2> HIDE DEF S, Seen
  <2>3. LifecycleTypes \ {"monitor-stop"} =
          {"monitor-start", "policy-loaded", "workload-target-bound"}
    BY DEF LifecycleTypes
  <2>4. IsEvent(log[i]) => i > 3
    BY <1>2, <1>3
  <2>5. ~IsEvent(log[i]) => ~S(log[i].type)
    BY <1>2, <1>3, <2>2
  <2> QED BY <1>4, <2>1, <2>2, <2>3, <2>4, <2>5
<1>7. LifecycleComplete(log)
  <2>1. 1 \in DOMAIN log /\ 2 \in DOMAIN log /\ 3 \in DOMAIN log /\ n \in DOMAIN log
    OBVIOUS
  <2> QED BY <2>1 DEF LifecycleComplete, LifecycleTypes
<1> QED BY <1>6, <1>7

(* A sealed log without a lost record replays, record by record:           *)
LEMMA SealedReplays ==
  ASSUME SealedFiles, "record" \notin faults
  PROVE  /\ \A i \in DOMAIN file :
              /\ RecordReplays(file, summaryFile, i)
              /\ LifecycleHolds(file, i)
              /\ TpmMetadataHolds(setup, file, summaryFile, i)
         /\ LifecycleComplete(file)
<1> DEFINE s == summaryFile
           n == Len(file)
<1>1. file \in Seq(Record) /\ Log = file /\ LiveInv /\ s.session = Session
  BY DEF SealedFiles
<1> HIDE DEF Log, s
<1>2. n \in Nat /\ DOMAIN file = 1 .. n /\ \A i \in 1 .. n : file[i] \in Record
  BY <1>1, LenProperties, ElementOfSeq
<1>3. (\A i \in 1 .. n : LifecycleHolds(file, i)) /\ LifecycleComplete(file)
  <2>1. phase # "opened" /\ captureState # "open"
    BY DEF SealedFiles
  <2>2. /\ n >= 4 /\ IsType(file[1], "monitor-start")
        /\ IsType(file[2], "policy-loaded")
        /\ IsType(file[3], "workload-target-bound")
        /\ IsType(file[n], "monitor-stop")
        /\ \A i \in 4 .. n : IsEvent(file[i]) \/ i = n
    BY <1>1, <2>1 DEF LiveInv, LogIsInOrder
  <2> HIDE DEF n
  <2>3. \A i \in 4 .. n - 1 : IsEvent(file[i])
    <3>1. \A i \in 4 .. n - 1 : i \in 4 .. n /\ i # n
      BY <1>2
    <3> QED BY <2>2, <3>1
  <2> QED BY <1>1, <1>2, <2>2, <2>3, OrderedIsLifecycle DEF n
<1>4. ASSUME NEW i \in 1 .. n
      PROVE  RecordReplays(file, s, i)
  <2>1. /\ file[i].seq = i
        /\ file[i].hash = RecordHash(Session, file[i])
        /\ file[i].head = ReplayHead(Session, file, i)
    BY DEF SealedFiles
  <2>2. file[i].session = Session
    BY <1>2 DEF Record
  <2>3. IsEvent(file[i]) => file[i].verdict = Verdict[file[i].event]
    BY <1>1 DEF LiveInv, RecordsAreMarked
  <2> QED BY <1>1, <2>1, <2>2, <2>3 DEF RecordReplays
<1>5. s.tpm # None => ~tpm.failed
  <2>1. \A lost : RuntimeSummary(state, lost, tpm).tpm # None => ~tpm.failed
    BY DEF RuntimeSummary
  <2> QED BY <2>1 DEF SealedFiles, s
<1>6. ASSUME NEW i \in 1 .. n, IsEvent(file[i])
      PROVE  LET Due2 == setup.tpm
                          /\ Verdict[file[i].event].class \in setup.extendOn
             IN  /\ file[i].index # 0 => file[i].extended
                 /\ file[i].extended => Due2
                 /\ s.tpm # None /\ Due2 => file[i].extended
                 /\ file[i].extended => file[i].index = ExtendsUpTo(file, i)
  BY <1>1, <1>5, <1>6 DEF LiveInv, RecordsAreMarked, Due
<1>7. \A i \in 1 .. n : TpmMetadataHolds(setup, file, s, i)
  BY <1>6 DEF TpmMetadataHolds, ExtendsUpTo
<1> QED BY <1>2, <1>3, <1>4, <1>7 DEF s


(* The session claims the TPM as the PCR and the log have it:              *)
LEMMA SealedTpmHolds ==
  ASSUME KnownInv, SessionInv, SealedFiles, CleanRetries
  PROVE  TpmSummaryHolds(setup, file, summaryFile, FALSE)
<1> DEFINE s  == summaryFile
           ed == ExtendedDigests(Session, file)
<1>1. /\ file \in Seq(Record) /\ Log = file /\ s.session = Session
      /\ TpmFieldsAgree /\ phase = "finished" /\ TypeOK /\ PcrMatchesLog
      /\ FinalCountsExtends
  BY DEF SealedFiles, LiveInv, KnownInv, CaptureInv, BindingInv
<1> HIDE DEF Log
<1>2. /\ s.tpm = IF setup.tpm /\ ~tpm.failed THEN tpm.final ELSE None
      /\ s.finalDigest = IF s.tpm = None THEN None ELSE s.tpm.finalDigest
      /\ s.markers = Markers(tpm)
      /\ s.workload = setup.workload /\ s.mode = setup.mode
      /\ s.policyHash = setup.policyHash
  <2>1. ASSUME NEW lost
        PROVE  LET t == RuntimeSummary(state, lost, tpm)
               IN  /\ t.tpm = IF setup.tpm /\ ~tpm.failed THEN tpm.final
                              ELSE None
                   /\ t.finalDigest = IF t.tpm = None THEN None
                                      ELSE t.tpm.finalDigest
                   /\ t.markers = Markers(tpm)
                   /\ t.workload = setup.workload /\ t.mode = setup.mode
                   /\ t.policyHash = setup.policyHash
    BY DEF RuntimeSummary
  <2> QED BY <2>1 DEF SealedFiles
<1>3. CASE s.tpm = None
  <2> SUFFICES ASSUME setup.tpm PROVE FailOpenSoftwareEvidence(setup, s)
    BY <1>3 DEF TpmSummaryHolds
  <2>1. tpm.failed
    BY <1>1, <1>2, <1>3 DEF TpmFieldsAgree
  <2>2. ~setup.failClosed /\ "TPM binding failed open" \in s.markers
    BY <1>1, <1>2, <2>1 DEF TpmFieldsAgree, Markers
  <2> QED BY <1>3, <2>2 DEF FailOpenSoftwareEvidence
<1>4. CASE s.tpm # None
  <2>1. /\ setup.tpm /\ ~tpm.failed /\ s.tpm = tpm.final /\ tpm.final # None
        /\ tpm.binding # None
    BY <1>1, <1>2, <1>4 DEF TpmFieldsAgree
  <2>2. /\ tpm.extends = Len(ed)
        /\ pcr = Append(tpm.binding.initial, tpm.binding.digest) \o ed
                   \o <<tpm.final.finalDigest>>
    BY <1>1, <2>1 DEF PcrMatchesLog
  <2>3. /\ tpm.final.extends = Len(ed)
        /\ tpm.final.initial = tpm.binding.initial
        /\ tpm.final.startDigest = SetupStart
        /\ tpm.binding.digest = SetupStart
        /\ tpm.final.afterStart = Append(tpm.binding.initial, SetupStart)
        /\ tpm.final.finalPcr = pcr
    BY <1>1, <2>1, <2>2 DEF TpmFieldsAgree, FinalCountsExtends
  <2>4. tpm.final.finalDigest =
          FinalSummaryDigest(Session, ReplayHead(Session, file, Len(file)),
                             Tally(file), s.dropped, setup.policyHash)
    <3>1. tpm.final.finalDigest =
            FinalSummaryDigest(Session, state.head, state.counts, s.dropped,
                               setup.policyHash)
      BY <2>1 DEF SealedFiles, SummaryIsTrue, SessionInv
    <3> QED BY <3>1 DEF SealedFiles
  <2>5. TpmDigestsHold(setup, file, s)
    BY <1>1, <1>2, <1>4, <2>1, <2>3, <2>4 DEF TpmDigestsHold, SetupStart
  <2>6. TpmPcrReplays(file, s)
    <3> DEFINE D == {<<"boot">>} \union StartDigest \union FinalDigest
                      \union EventDigest
               a == tpm.final.afterStart
               d == tpm.final.finalDigest
    <3>1. tpm.final \in TpmFinal
      BY <1>1, <2>1 DEF TypeOK, TpmState
    <3>2. a \in Pcr /\ d \in FinalDigest
      BY <3>1 DEF TpmFinal
    <3>3. ed \in Seq(EventDigest)
      BY <1>1, LogDigestsType
    <3>4. a \in Seq(D) /\ ed \in Seq(D) /\ d \in D
      <4>1. EventDigest \subseteq D /\ FinalDigest \subseteq D /\ Pcr = Seq(D)
        BY DEF Pcr
      <4> HIDE DEF D, ed
      <4> QED BY <3>2, <3>3, <4>1
    <3> HIDE DEF D, ed, a, d
    <3>5. a \o ed \in Seq(D) /\ Append(a \o ed, d) = (a \o ed) \o <<d>>
      BY <3>4
    <3>6. /\ a = ReplayPcrExtend(tpm.final.initial, tpm.final.startDigest)
          /\ tpm.final.finalPcr = ReplayPcrExtend(a \o ed, d)
      BY <2>2, <2>3, <3>5 DEF ReplayPcrExtend, a, d
    <3> QED BY <1>1, <2>1, <3>6 DEF TpmPcrReplays, a, d, ed
  <2>7. s.tpm.quote = None \/ s.tpm.quote = "genuine"
    <3>1. tpm.final \in TpmFinal
      BY <1>1, <2>1 DEF TypeOK, TpmState
    <3> QED BY <2>1, <3>1 DEF TpmFinal
  <2> QED BY <1>4, <2>1, <2>5, <2>6, <2>7 DEF TpmSummaryHolds
<1> QED BY <1>3, <1>4


(* When the identities of a setup agree: its policies name no workload, or *)
(* exactly those the session is about, and the events of a scoped session  *)
(* are theirs. StartUp says when a start-up brings this about.             *)
IdentitiesAgree ==
  \A s \in Setups :
    /\ s.mode \in {"scoped", "host-wide"}
    /\ s.policyIds # {} =>
         /\ s.workload = s.policyIds
         /\ s.mode = "scoped" => \A e \in Event : WorkloadOf[e] \in s.policyIds

LEMMA HonestIsValid ==
  ASSUME IdentitiesAgree, KnownInv, SessionInv, CurrentSummary, CleanRetries
  PROVE  /\ SealedFiles
         /\ StructurallyValid(setup, file, summaryFile, FALSE)
<1>1. SealedFiles /\ "record" \notin faults /\ setup \in Setups
  BY CurrentIsSealed DEF CleanRetries, KnownInv, CaptureInv, TypeOK
<1>2. /\ summaryFile.workload = setup.workload /\ summaryFile.mode = setup.mode
      /\ summaryFile.policyHash = setup.policyHash
      /\ summaryFile.session = Session
      /\ summaryFile.head = ReplayHead(Session, file, Len(file))
      /\ summaryFile.counts = Tally(file)
  <2>1. \A lost : LET t == RuntimeSummary(state, lost, tpm)
                  IN  /\ t.workload = setup.workload /\ t.mode = setup.mode
                      /\ t.policyHash = setup.policyHash
    BY DEF RuntimeSummary
  <2> QED BY <1>1, <2>1 DEF SealedFiles
<1>3. SummaryIdentityHolds(setup, summaryFile)
  BY <1>1, <1>2 DEF IdentitiesAgree, SummaryIdentityHolds
<1>4. \A e \in Event : EventIdentityHolds(setup, summaryFile, e)
  BY <1>1, <1>2 DEF IdentitiesAgree, EventIdentityHolds
<1>5. \A i \in DOMAIN file : IsEvent(file[i]) => file[i].event \in Event
  <2>1. \A i \in DOMAIN file : file[i] \in Record
    BY <1>1, ElementOfSeq DEF SealedFiles
  <2> QED BY <2>1 DEF Record, IsEvent
<1>6. SummaryMatchesReplay(setup, file, summaryFile)
  BY <1>2 DEF SummaryMatchesReplay
<1>7. TpmSummaryHolds(setup, file, summaryFile, FALSE)
  BY <1>1, SealedTpmHolds
<1> QED BY <1>1, <1>3, <1>4, <1>5, <1>6, <1>7, SealedReplays
        DEF StructurallyValid

(* Whatever the TPM, the ring and the disk did to it, a session that main  *)
(* reports as summarised is never INVALID-EVIDENCE to a verifier with the  *)
(* same policies: the files of write_summary pass every check of           *)
(* verify_replay. IdentitiesAgree is needed: host-wide collection with a   *)
(* policy that names its workload is refused.                              *)
THEOREM HonestEvidenceVerifies ==
  ASSUME IdentitiesAgree
  PROVE  Spec => []HonestSessionVerifies
<1>1. KnownInv /\ SessionInv => HonestSessionVerifies
  <2> SUFFICES ASSUME KnownInv, SessionInv, CurrentSummary, CleanRetries
               PROVE  Verification # InvalidEvidence
    BY DEF HonestSessionVerifies
  <2>1. Verification =
          DecisionForValidEvidence(setup, summaryFile, Tally(file))
    BY HonestIsValid, VerdictIsValid DEF Verification, CurrentSummary
  <2> QED BY <2>1 DEF DecisionForValidEvidence, InvalidEvidence
<1> QED BY <1>1, SessionHolds, PTL


(* The fields of a summary the verifier reads besides its claims.          *)
LEMMA SealedSummary ==
  ASSUME SealedFiles
  PROVE  /\ summaryFile.status = AttestationStatus(Tally(file), tpm)
         /\ summaryFile.markers = Markers(tpm)
         /\ summaryFile.tpm = IF setup.tpm /\ ~tpm.failed THEN tpm.final
                              ELSE None
         /\ summaryFile.policyHash = setup.policyHash
<1>1. \A lost : LET t == RuntimeSummary(state, lost, tpm)
                IN  /\ t.status = AttestationStatus(state.counts, tpm)
                    /\ t.markers = Markers(tpm)
                    /\ t.tpm = IF setup.tpm /\ ~tpm.failed THEN tpm.final
                               ELSE None
                    /\ t.policyHash = setup.policyHash
  BY DEF RuntimeSummary
<1> QED BY <1>1 DEF SealedFiles

(* The attestation_status the monitor writes is the decision the verifier  *)
(* reaches on its own replay, whenever no event was dropped.               *)
THEOREM MonitorAndVerifierAgree ==
  ASSUME IdentitiesAgree
  PROVE  Spec => []StatusMatchesDecision
<1>1. KnownInv /\ SessionInv => StatusMatchesDecision
  <2> SUFFICES ASSUME KnownInv, SessionInv, CurrentSummary, CleanRetries,
                      summaryFile.dropped = 0
               PROVE  Verification = DecisionOfStatus[summaryFile.status]
    BY DEF StatusMatchesDecision
  <2> DEFINE counts == Tally(file)
             p      == setup
             Bad    == \/ counts["denied"] > 0 /\ p.failOnDenied
                       \/ counts["suspicious"] > 0 /\ p.failOnSuspicious
             Odd    == counts["suspicious"] + counts["denied"] > 0
             Open   == FailOpenSoftwareEvidence(p, summaryFile)
             Quote  == "TPM quote generation failed open" \in summaryFile.markers
  <2>1. SealedFiles /\ Verification = DecisionForValidEvidence(p, summaryFile, counts)
    BY HonestIsValid, VerdictIsValid DEF Verification, CurrentSummary
  <2>2. TpmFieldsAgree /\ tpm.failed \in BOOLEAN /\ tpm.quoteFailed \in BOOLEAN
    BY <2>1 DEF SealedFiles, LiveInv, KnownInv, CaptureInv, TypeOK, TpmState
  <2> HIDE DEF counts
  <2>3. Open <=> tpm.failed
    BY <2>1, <2>2, SealedSummary
       DEF FailOpenSoftwareEvidence, TpmFieldsAgree, Markers
  <2>4. Quote <=> tpm.quoteFailed
    BY <2>1, <2>2, SealedSummary DEF Markers
  <2>5. Markers(tpm) # {} <=> tpm.failed \/ tpm.quoteFailed
    BY DEF Markers
  <2>6. Verification = IF Bad THEN "REJECT"
                       ELSE IF Open \/ Quote \/ Odd THEN "ACCEPT-WITH-WARNINGS"
                       ELSE "ACCEPT"
    <3>1. ~(summaryFile.dropped > 0)
      OBVIOUS
    <3> QED BY <2>1, <3>1 DEF DecisionForValidEvidence
  <2>7. summaryFile.status = IF Bad THEN "failed"
                             ELSE IF Odd \/ Markers(tpm) # {} THEN "warning"
                             ELSE "passed"
    BY <2>1, SealedSummary DEF AttestationStatus, counts
  <2> HIDE DEF Bad, Odd, Open, Quote
  <2>8. /\ DecisionOfStatus["passed"] = "ACCEPT"
        /\ DecisionOfStatus["warning"] = "ACCEPT-WITH-WARNINGS"
        /\ DecisionOfStatus["failed"] = "REJECT"
    BY DEF DecisionOfStatus
  <2> QED BY <2>3, <2>4, <2>5, <2>6, <2>7, <2>8
<1> QED BY <1>1, SessionHolds, PTL

(* ACCEPT for a TPM policy means the TPM holds what the log says: on top   *)
(* of what the PCR held when the session bound it, the start digest, one   *)
(* digest for every due event of the log, in order and with its own        *)
(* content, and the final digest of this log and summary.                  *)
THEOREM AcceptanceIsAnchored == Spec => []AcceptedIsAnchored
<1>1. KnownInv /\ SessionInv => AcceptedIsAnchored
  <2> DEFINE due == DueRecords(setup, file)
             ed  == ExtendedDigests(Session, file)
             D(r) == ClassifiedDigest(Session, r.seq, r.hash, r.verdict)
             digests == [k \in DOMAIN due |-> D(due[k])]
             last == FinalSummaryDigest(Session,
                       ReplayHead(Session, file, Len(file)), Tally(file),
                       summaryFile.dropped, setup.policyHash)
             a == tpm.binding.initial
             d == tpm.binding.digest
             f == tpm.final.finalDigest
  <2> SUFFICES ASSUME KnownInv, SessionInv, setup.tpm, CleanRetries,
                      Verification = "ACCEPT"
               PROVE  /\ tpm.binding # None
                      /\ pcr = a \o <<SetupStart>> \o digests \o <<last>>
    BY DEF AcceptedIsAnchored, SetupStart
  <2>1. /\ summaryFile \notin Unreadable
        /\ StructurallyValid(setup, file, summaryFile, FALSE)
        /\ DecisionForValidEvidence(setup, summaryFile, Tally(file)) = "ACCEPT"
    BY VerdictIsValid DEF Verification, InvalidEvidence
  <2>2. SealedFiles
    BY <2>1, ValidIsCurrent, CurrentIsSealed DEF KnownInv, CaptureInv
  <2>3. summaryFile.tpm # None
    <3>1. ~FailOpenSoftwareEvidence(setup, summaryFile)
      BY <2>1 DEF DecisionForValidEvidence
    <3> QED BY <2>1, <3>1 DEF StructurallyValid, TpmSummaryHolds
  <2>4. /\ ~tpm.failed /\ tpm.final # None /\ tpm.binding # None
        /\ Log = file /\ file \in Seq(Record) /\ TypeOK /\ PcrMatchesLog
        /\ DigestsAreDue /\ tpm.binding.digest = SetupStart
    BY <2>2, <2>3, SealedSummary DEF SealedFiles, LiveInv, TpmFieldsAgree,
       KnownInv, CaptureInv, BindingInv
  <2>5. f = last
    <3>1. summaryFile.tpm = tpm.final /\ summaryFile.session = Session
      BY <2>2, <2>4, SealedSummary DEF SealedFiles
    <3>2. TpmDigestsHold(setup, file, summaryFile)
      BY <2>1, <2>3 DEF StructurallyValid, TpmSummaryHolds
    <3> QED BY <3>1, <3>2 DEF TpmDigestsHold
  <2> HIDE DEF Log
  <2>6. pcr = Append(a, d) \o ed \o <<f>>
    BY <2>4 DEF PcrMatchesLog
  <2>7. Len(ed) = Len(due) /\ \A k \in 1 .. Len(due) : ed[k] = D(due[k])
    BY <2>4 DEF DigestsAreDue
  <2>8. ed \in Seq(EventDigest)
    BY <2>4, LogDigestsType
  <2>9. due \in Seq(Record)
    <3>1. NewSynthetic("monitor-stop") \in Record
      BY <2>4, SyntheticIsWellMade DEF LifecycleTypes
    <3> QED BY <2>4, <3>1, DueOfAppend
  <2>10. digests = ed
    <3> HIDE DEF ed, due, D
    <3>1. DOMAIN due = 1 .. Len(due) /\ DOMAIN ed = 1 .. Len(ed)
      BY <2>8, <2>9, LenProperties
    <3>2. ed = [k \in 1 .. Len(ed) |-> ed[k]]
      BY <2>8
    <3> QED BY <2>7, <3>1, <3>2
  <2>11. Append(a, d) = a \o <<d>>
    <3>1. a \in Pcr /\ d \in StartDigest
      BY <2>4 DEF TypeOK, TpmState, TpmBinding
    <3> DEFINE S == {<<"boot">>} \union StartDigest \union FinalDigest
                      \union EventDigest
    <3>2. a \in Seq(S) /\ d \in S
      BY <3>1 DEF Pcr
    <3> HIDE DEF S, a, d
    <3> QED BY <3>2, AppendIsConcat
  <2> QED BY <2>4, <2>5, <2>6, <2>10, <2>11
<1> QED BY <1>1, SessionHolds, PTL


(* A verifier that requires a quote gives a verdict only on a quoted       *)
(* summary that claims the PCR as it still is, the same verdict it gives   *)
(* without the requirement; and requiring one refuses no session that was  *)
(* configured to quote and met no fault.                                   *)
THEOREM RequiredQuotesAreGenuine == Spec => []RequiredQuoteIsGenuine
<1>1. KnownInv /\ SessionInv => RequiredQuoteIsGenuine
  <2> DEFINE s == summaryFile
             strict == Verify(setup, file, s, TRUE)
  <2> SUFFICES ASSUME KnownInv, SessionInv
               PROVE  /\ strict # InvalidEvidence =>
                           /\ strict = Verification
                           /\ s.tpm # None /\ s.tpm.quote = "genuine"
                           /\ pcr = s.tpm.finalPcr
                      /\ CurrentSummary /\ setup.quote /\ faults = {} =>
                           strict = Verification
    BY DEF RequiredQuoteIsGenuine
  <2>1. s \notin Unreadable /\ StructurallyValid(setup, file, s, TRUE) =>
          StructurallyValid(setup, file, s, FALSE)
    BY DEF StructurallyValid, TpmSummaryHolds
  <2>2. ASSUME strict # InvalidEvidence
        PROVE  /\ strict = Verification
               /\ s.tpm # None /\ s.tpm.quote = "genuine"
               /\ pcr = s.tpm.finalPcr
    <3>1. s \notin Unreadable /\ StructurallyValid(setup, file, s, TRUE)
      BY <2>2, VerdictIsValid
    <3>2. strict = Verification
      BY <2>1, <3>1, VerdictIsValid DEF Verification
    <3>3. s.tpm # None /\ s.tpm.quote = "genuine"
      BY <3>1 DEF StructurallyValid, TpmSummaryHolds
    <3>4. SealedFiles
      BY <3>1, ValidIsCurrent, CurrentIsSealed DEF KnownInv, CaptureInv
    <3>5. s.tpm = tpm.final /\ tpm.final.finalPcr = pcr
      BY <3>3, <3>4, SealedSummary DEF SealedFiles, LiveInv, TpmFieldsAgree
    <3> QED BY <3>2, <3>3, <3>5
  <2>3. ASSUME CurrentSummary, setup.quote, faults = {}
        PROVE  strict = Verification
    <3>1. SealedFiles /\ setup.tpm /\ s \notin Unreadable
      BY <2>3, CurrentIsSealed, SetupAssumption
         DEF CurrentSummary, KnownInv, CaptureInv, TypeOK
    <3>2. /\ ~tpm.failed /\ tpm.final # None /\ tpm.final.quote = "genuine"
          /\ s.tpm = tpm.final
      BY <2>3, <3>1, SealedSummary DEF SealedFiles, LiveInv, TpmFieldsAgree
    <3>3. s.tpm # None /\ s.tpm.quote # None /\ s.tpm.quote = "genuine"
      BY <3>2, FilesAssumption
    <3>4. TpmSummaryHolds(setup, file, s, TRUE) <=>
            TpmSummaryHolds(setup, file, s, FALSE)
      BY <3>3 DEF TpmSummaryHolds
    <3>5. StructurallyValid(setup, file, s, TRUE) <=>
            StructurallyValid(setup, file, s, FALSE)
      BY <3>4 DEF StructurallyValid
    <3> QED BY <3>5 DEF Verify, Verification
  <2> QED BY <2>2, <2>3
<1> QED BY <1>1, SessionHolds, PTL


-----------------------------------------------------------------------------
(* Damage. A log of another length has another head.                       *)
LEMMA OtherLengthRejected ==
  ASSUME SealedFiles, NEW log, Len(log) \in Nat, Len(log) # Len(file),
         NEW p, NEW required
  PROVE  ~StructurallyValid(p, log, summaryFile, required)
<1> SUFFICES ASSUME StructurallyValid(p, log, summaryFile, required)
             PROVE  FALSE
  OBVIOUS
<1>1. summaryFile.head = ReplayHead(summaryFile.session, log, Len(log))
  BY DEF StructurallyValid, SummaryMatchesReplay
<1>2. summaryFile.head = ReplayHead(Session, file, Len(file))
  BY DEF SealedFiles
<1>3. \A session, q, n : DOMAIN ReplayHead(session, q, n) = 1 .. n
  BY DEF ReplayHead
<1>4. 1 .. Len(log) = 1 .. Len(file)
  <2>1. DOMAIN summaryFile.head = 1 .. Len(log)
    BY <1>1, <1>3, Zenon
  <2>2. DOMAIN summaryFile.head = 1 .. Len(file)
    BY <1>2, <1>3, Zenon
  <2> QED BY <2>1, <2>2
<1>5. Len(file) \in Nat
  BY LenProperties DEF SealedFiles
<1> QED BY <1>4, <1>5

LEMMA LostOrRepeatedLength ==
  ASSUME NEW log \in Seq(Record), NEW i \in DOMAIN log
  PROVE  /\ Len(Without(log, i)) = Len(log) - 1
         /\ Len(Repeated(log, i)) = Len(log) + 1
<1> DEFINE n == Len(log)
           a == SubSeq(log, 1, i - 1)
           b == SubSeq(log, i + 1, n)
           c == SubSeq(log, 1, i)
           d == SubSeq(log, i, n)
<1>1. n \in Nat /\ i \in 1 .. n
  BY LenProperties
<1>2. /\ a \in Seq(Record) /\ Len(a) = i - 1
      /\ b \in Seq(Record) /\ Len(b) = n - i
      /\ c \in Seq(Record) /\ Len(c) = i
      /\ d \in Seq(Record) /\ Len(d) = n - i + 1
  <2> HIDE DEF n
  <2>1. \A j \in 1 .. n : log[j] \in Record
    BY ElementOfSeq DEF n
  <2>2. /\ 1 \in 1 .. n + 1 /\ i + 1 \in 1 .. n + 1 /\ i \in 1 .. n + 1
        /\ i - 1 \in 1 - 1 .. n /\ n \in (i + 1) - 1 .. n
        /\ i \in 1 - 1 .. n /\ n \in i - 1 .. n
    BY <1>1
  <2>3. a \in Seq(Record) /\ Len(a) = i - 1
    BY <1>1, <2>1, SubSeqProperties
  <2>4. b \in Seq(Record) /\ Len(b) = n - i
    BY <1>1, <2>1, SubSeqProperties
  <2>5. c \in Seq(Record) /\ Len(c) = i
    BY <1>1, <2>1, SubSeqProperties
  <2>6. d \in Seq(Record) /\ Len(d) = n - i + 1
    BY <1>1, <2>1, SubSeqProperties
  <2> QED BY <2>3, <2>4, <2>5, <2>6
<1> HIDE DEF a, b, c, d, n
<1>3. Len(a \o b) = Len(a) + Len(b) /\ Len(c \o d) = Len(c) + Len(d)
  BY <1>2, ConcatProperties
<1>4. Without(log, i) = a \o b /\ Repeated(log, i) = c \o d
  BY DEF Without, Repeated, a, b, c, d, n
<1>5. /\ Len(Without(log, i)) = Len(a) + Len(b)
      /\ Len(Repeated(log, i)) = Len(c) + Len(d)
      /\ Len(log) = n
  BY <1>3, <1>4 DEF n
<1>6. Len(a) + Len(b) = n - 1 /\ Len(c) + Len(d) = n + 1
  <2>1. /\ Len(a) = i - 1 /\ Len(b) = n - i
        /\ Len(c) = i /\ Len(d) = n - i + 1
    BY <1>2
  <2>2. n \in Int /\ i \in Int
    BY <1>1
  <2>3. Len(a) + Len(b) = (i - 1) + (n - i) /\ Len(c) + Len(d) = i + (n - i + 1)
    BY <2>1
  <2>4. (i - 1) + (n - i) = n - 1 /\ i + (n - i + 1) = n + 1
    BY <2>2
  <2> QED BY <2>3, <2>4
<1> QED BY <1>5, <1>6

(* A record with one field changed contradicts its hash, its position or   *)
(* the extends before it.                                                  *)
LEMMA AlteredRecordRejected ==
  ASSUME SealedFiles, StructurallyValid(setup, file, summaryFile, FALSE),
         NEW i \in DOMAIN file, NEW r \in Altered(file[i]), r # file[i]
  PROVE  LET log == [file EXCEPT ![i] = r]
         IN  ~StructurallyValid(setup, log, summaryFile, FALSE)
<1> DEFINE q   == file[i]
           log == [file EXCEPT ![i] = r]
           s   == summaryFile
<1> SUFFICES ASSUME StructurallyValid(setup, log, s, FALSE) PROVE FALSE
  OBVIOUS
<1>1. /\ file \in Seq(Record) /\ DOMAIN file = 1 .. Len(file) /\ Len(file) \in Nat
      /\ q \in Record /\ s.session = Session
  BY LenProperties, ElementOfSeq DEF SealedFiles
<1>2. DOMAIN log = DOMAIN file /\ log[i] = r /\ i \in DOMAIN log
      /\ \A j \in DOMAIN file : j # i => log[j] = file[j]
  BY <1>1
<1> HIDE DEF log
<1>3. /\ q.session = Session /\ q.seq = i /\ i \in Nat
      /\ q.hash = RecordHash(Session, q)
      /\ q.head = ReplayHead(Session, file, i)
      /\ IsEvent(q) => q.verdict = Verdict[q.event]
  BY <1>1 DEF StructurallyValid, RecordReplays
<1>4. /\ r.session = Session /\ r.seq = i
      /\ r.hash = RecordHash(Session, r)
      /\ r.head = ReplayHead(Session, log, i)
      /\ IsEvent(r) => r.verdict = Verdict[r.event]
  BY <1>1, <1>2 DEF StructurallyValid, RecordReplays
<1>5. IsEvent(q) => /\ q.index # 0 => q.extended
                    /\ q.extended => q.index = ExtendsUpTo(file, i)
  BY DEF StructurallyValid, TpmMetadataHolds, ExtendsUpTo
<1>6. IsEvent(r) => /\ r.index # 0 => r.extended
                    /\ r.extended => r.index = ExtendsUpTo(log, i)
  BY <1>2 DEF StructurallyValid, TpmMetadataHolds, ExtendsUpTo
<1>7. Len(q.head) = i /\ Len(r.head) = i
  <2>1. \A session, l : Len(ReplayHead(session, l, i)) = i
    BY <1>3 DEF ReplayHead
  <2> QED BY <1>3, <1>4, <2>1
<1>8. CASE \/ r = [q EXCEPT !.seq = @ + 1]
           \/ r = [q EXCEPT !.session = None]
           \/ r = [q EXCEPT !.head = Append(@, None)]
           \/ r = [q EXCEPT !.hash = <<"other">>]
  <2>1. q.head \in Seq(Hash \union {None})
    BY <1>1 DEF Record, ChainHead
  <2>2. CASE r = [q EXCEPT !.seq = @ + 1]
    BY <1>1, <1>3, <1>4, <2>2 DEF Record
  <2>3. CASE r = [q EXCEPT !.session = None]
    BY <1>1, <1>4, <2>3, FilesAssumption DEF Record
  <2>4. CASE r = [q EXCEPT !.head = Append(@, None)]
    <3>1. r.head = Append(q.head, None)
      BY <1>1, <2>4 DEF Record
    <3>2. Len(r.head) = Len(q.head) + 1
      BY <2>1, <3>1
    <3> QED BY <1>3, <1>7, <3>2
  <2>5. CASE r = [q EXCEPT !.hash = <<"other">>]
    <3>1. r.hash = <<"other">>
      BY <1>1, <2>5 DEF Record
    <3>2. Len(RecordHash(Session, r)) \in {4, 5} /\ Len(<<"other">>) = 1
      BY DEF RecordHash, EventHash, SyntheticHash
    <3> QED BY <1>4, <3>1, <3>2
  <2> QED BY <1>8, <2>2, <2>3, <2>4, <2>5
<1>9. ASSUME ~IsEvent(q),
             \/ \E type : r = [q EXCEPT !.type = type]
             \/ r = [q EXCEPT !.reason = <<"other">>]
      PROVE  FALSE
  <2>1. q \in [kind : {"synthetic"}, session : {Session}, seq : Nat,
               type : LifecycleTypes,
               reason : {Reason(type) : type \in LifecycleTypes},
               hash : Hash, head : ChainHead]
    BY <1>1, <1>9 DEF Record, IsEvent
  <2>2. r.hash = q.hash /\ r.seq = q.seq /\ ~IsEvent(r)
    BY <1>9, <2>1 DEF IsEvent
  <2>3. SyntheticHash(Session, i, r.type, r.reason) =
        SyntheticHash(Session, i, q.type, q.reason)
    BY <1>3, <1>4, <1>9, <2>2 DEF RecordHash
  <2>4. r.type = q.type /\ r.reason = q.reason
    BY <2>3 DEF SyntheticHash
  <2>5. ASSUME NEW type, r = [q EXCEPT !.type = type] PROVE FALSE
    <3>1. r.type = type
      BY <2>1, <2>5
    <3> QED BY <2>1, <2>4, <2>5, <3>1
  <2>6. ASSUME r = [q EXCEPT !.reason = <<"other">>] PROVE FALSE
    <3>1. r.reason = <<"other">>
      BY <2>1, <2>6
    <3> QED BY <2>1, <2>4, <2>6, <3>1
  <2> QED BY <1>9, <2>5, <2>6
<1>10. ASSUME IsEvent(q),
              \/ \E e : r = [q EXCEPT !.event = e]
              \/ \E v : r = [q EXCEPT !.verdict = v]
              \/ r = [q EXCEPT !.extended = ~@]
              \/ r = [q EXCEPT !.index = @ + 1]
       PROVE  FALSE
  <2>1. q \in [kind : {"runtime-event"}, session : {Session}, seq : Nat,
               event : Event, verdict : VerdictSet,
               reason : {Reason(e) : e \in Event}, hash : Hash,
               head : ChainHead, extended : BOOLEAN, index : Nat]
    BY <1>1, <1>10 DEF Record, IsEvent
  <2>2. ASSUME NEW e, r = [q EXCEPT !.event = e] PROVE FALSE
    <3>1. r.event = e /\ r.hash = q.hash /\ r.seq = q.seq /\ IsEvent(r)
      BY <1>10, <2>1, <2>2 DEF IsEvent
    <3>2. EventHash(Session, i, e) = EventHash(Session, i, q.event)
      BY <1>3, <1>4, <1>10, <3>1 DEF RecordHash
    <3>3. e = q.event
      BY <3>2 DEF EventHash
    <3> QED BY <2>1, <2>2, <3>3
  <2>3. ASSUME NEW v, r = [q EXCEPT !.verdict = v] PROVE FALSE
    <3>1. r.verdict = v /\ r.event = q.event /\ IsEvent(r)
      BY <1>10, <2>1, <2>3 DEF IsEvent
    <3>2. v = q.verdict
      BY <1>3, <1>4, <1>10, <3>1
    <3> QED BY <2>1, <2>3, <3>2
  <2> DEFINE E(l) == {j \in 1 .. i : IsEvent(l[j]) /\ l[j].extended}
  <2>4. /\ \A l : ExtendsUpTo(l, i) = Cardinality(E(l))
        /\ \A l : IsFiniteSet(E(l)) /\ Cardinality(E(l)) \in Nat
    <3>1. \A l : E(l) \subseteq 1 .. i /\ IsFiniteSet(1 .. i)
      BY <1>3, FS_Interval
    <3>2. \A l : IsFiniteSet(E(l)) /\ Cardinality(E(l)) \in Nat
      <4> HIDE DEF E
      <4> QED BY <3>1, FS_Subset, FS_CardinalityType
    <3> QED BY <3>2 DEF ExtendsUpTo
  <2>5. i \in 1 .. i
    BY <1>1, <1>3
  <2>6. ASSUME NEW l, IsEvent(l[i]), l[i].extended PROVE ExtendsUpTo(l, i) # 0
    <3>1. i \in E(l)
      BY <2>5, <2>6
    <3> HIDE DEF E
    <3> QED BY <2>4, <3>1, FS_EmptySet
  <2>7. ASSUME r = [q EXCEPT !.extended = ~@] PROVE FALSE
    <3>1. r.extended = ~q.extended /\ r.index = q.index /\ IsEvent(r)
          /\ q.extended \in BOOLEAN
      BY <1>10, <2>1, <2>7 DEF IsEvent
    <3>2. CASE q.extended
      BY <1>5, <1>6, <1>10, <2>6, <3>1, <3>2
    <3>3. CASE ~q.extended
      BY <1>2, <1>5, <1>6, <1>10, <2>6, <3>1, <3>3
    <3> QED BY <3>2, <3>3
  <2>8. ASSUME r = [q EXCEPT !.index = @ + 1] PROVE FALSE
    <3>1. r.extended = q.extended /\ r.index = q.index + 1 /\ IsEvent(r)
          /\ q.index \in Nat
      BY <1>10, <2>1, <2>8 DEF IsEvent
    <3>2. E(log) = E(file)
      <4>1. \A j \in 1 .. i : j \in DOMAIN file
        BY <1>1, <1>3
      <4>2. \A j \in 1 .. i : (IsEvent(log[j]) /\ log[j].extended) <=>
                               (IsEvent(file[j]) /\ file[j].extended)
        BY <1>2, <1>10, <3>1, <4>1
      <4> QED BY <4>2
    <3>3. ExtendsUpTo(log, i) = ExtendsUpTo(file, i)
      BY <2>4, <3>2
    <3> QED BY <1>5, <1>6, <1>10, <3>1, <3>3
  <2> QED BY <1>10, <2>2, <2>3, <2>7, <2>8
<1> QED BY <1>8, <1>9, <1>10 DEF Altered


LEMMA SwappedRecordsRejected ==
  ASSUME SealedFiles, NEW i \in 1 .. Len(file) - 1
  PROVE  ~StructurallyValid(setup, Swapped(file, i), summaryFile, FALSE)
<1> DEFINE log == Swapped(file, i)
<1>1. /\ file \in Seq(Record) /\ DOMAIN file = 1 .. Len(file) /\ Len(file) \in Nat
      /\ \A j \in 1 .. Len(file) : file[j].seq = j
  BY LenProperties DEF SealedFiles
<1>2. i \in DOMAIN file /\ i + 1 \in DOMAIN file /\ i + 1 # i
  BY <1>1
<1>3. i \in DOMAIN log /\ log[i] = file[i + 1]
  BY <1>2 DEF Swapped
<1>4. file[i + 1].seq = i + 1
  BY <1>1, <1>2
<1> HIDE DEF log
<1> SUFFICES ASSUME StructurallyValid(setup, log, summaryFile, FALSE)
             PROVE  FALSE
  BY DEF log
<1>5. log[i].seq = i
  BY <1>3 DEF StructurallyValid, RecordReplays
<1> QED BY <1>2, <1>3, <1>4, <1>5

(* The verifier reads every field of a record but the reason of an event:  *)
(* two logs that agree on the others are replayed to the same verdict.     *)
SameButReason(a, b) ==
  /\ a.kind = b.kind /\ a.session = b.session /\ a.seq = b.seq
  /\ a.hash = b.hash /\ a.head = b.head
  /\ IsEvent(a) => /\ a.event = b.event /\ a.verdict = b.verdict
                   /\ a.extended = b.extended /\ a.index = b.index
  /\ ~IsEvent(a) => a.type = b.type /\ a.reason = b.reason

SameButReasons(a, b) ==
  /\ DOMAIN b = DOMAIN a /\ Len(b) = Len(a)
  /\ \A i \in DOMAIN a : SameButReason(a[i], b[i])

LEMMA ReasonIsNotRead ==
  ASSUME NEW a \in Seq(Record), NEW b, NEW p, NEW s, NEW required,
         SameButReasons(a, b)
  PROVE  Verify(p, b, s, required) = Verify(p, a, s, required)
<1>0. /\ DOMAIN b = DOMAIN a /\ Len(b) = Len(a)
      /\ \A i \in DOMAIN a : SameButReason(a[i], b[i])
  BY DEF SameButReasons
<1>1. /\ DOMAIN a = 1 .. Len(a) /\ Len(a) \in Nat
      /\ \A i \in DOMAIN a :
           /\ IsEvent(a[i]) <=> IsEvent(b[i])
           /\ \A type : IsType(a[i], type) <=> IsType(b[i], type)
  BY <1>0, LenProperties DEF SameButReason, IsEvent, IsType
<1>2. \A session : \A i \in DOMAIN a :
        RecordHash(session, b[i]) = RecordHash(session, a[i])
  BY <1>0, <1>1 DEF SameButReason, RecordHash
<1>3. \A session : \A n \in 0 .. Len(a) :
        ReplayHead(session, b, n) = ReplayHead(session, a, n)
  <2> TAKE session
  <2> TAKE n \in 0 .. Len(a)
  <2>1. \A i \in 1 .. n : i \in DOMAIN a
    BY <1>1
  <2> QED BY <1>2, <2>1 DEF ReplayHead
<1>4. Tally(b) = Tally(a)
  <2> DEFINE Is(log, i, c) == IF IsEvent(log[i])
                              THEN Verdict[log[i].event].class = c
                              ELSE c = "synthetic"
             T(log, c) == {i \in DOMAIN log : Is(log, i, c)}
  <2>1. \A c : \A i \in DOMAIN a : Is(b, i, c) <=> Is(a, i, c)
    BY <1>0, <1>1 DEF SameButReason
  <2>2. \A c : T(b, c) = T(a, c)
    <3> HIDE DEF Is
    <3> QED BY <1>0, <2>1
  <2>3. \A log : Tally(log) = [c \in Classes \union {"synthetic"} |->
                                Cardinality(T(log, c))]
    BY DEF Tally
  <2> HIDE DEF T
  <2> QED BY <2>2, <2>3
<1>5. \A session : ExtendedDigests(session, b) = ExtendedDigests(session, a)
  <2> TAKE session
  <2>1. \A i \in DOMAIN a : ExtendedDigest(session, b[i]) =
                             ExtendedDigest(session, a[i])
    BY <1>0, <1>1, <1>2 DEF SameButReason, ExtendedDigest
  <2>2. [i \in DOMAIN b |-> ExtendedDigest(session, b[i])] =
        [i \in DOMAIN a |-> ExtendedDigest(session, a[i])]
    BY <1>0, <2>1
  <2> QED BY <2>2 DEF ExtendedDigests
<1>6. \A i \in DOMAIN a : RecordReplays(b, s, i) <=> RecordReplays(a, s, i)
  <2> TAKE i \in DOMAIN a
  <2>1. ReplayHead(s.session, b, i) = ReplayHead(s.session, a, i)
    BY <1>1, <1>3
  <2> QED BY <1>0, <1>1, <1>2, <2>1 DEF SameButReason, RecordReplays
<1>7. \A i \in DOMAIN a : LifecycleHolds(b, i) <=> LifecycleHolds(a, i)
  <2> TAKE i \in DOMAIN a
  <2> DEFINE Seen(log, type) == \E j \in 1 .. i - 1 : IsType(log[j], type)
  <2>1. \A j \in 1 .. i - 1 : j \in DOMAIN a
    BY <1>1
  <2>2. \A type : Seen(b, type) <=> Seen(a, type)
    BY <1>1, <2>1
  <2>3. ~IsEvent(a[i]) => a[i].type = b[i].type
    BY <1>0 DEF SameButReason
  <2>4. \A log :
          LifecycleHolds(log, i) <=>
            /\ ~Seen(log, "monitor-stop")
            /\ IsEvent(log[i]) => Seen(log, "workload-target-bound")
            /\ ~IsEvent(log[i]) => ~Seen(log, log[i].type)
            /\ IsType(log[i], "monitor-start") => i = 1
            /\ IsType(log[i], "policy-loaded") =>
                 /\ \A type \in {"monitor-start"} : Seen(log, type)
                 /\ ~Seen(log, "workload-target-bound")
            /\ IsType(log[i], "workload-target-bound") =>
                 \A type \in {"monitor-start", "policy-loaded"} :
                   Seen(log, type)
            /\ IsType(log[i], "monitor-stop") =>
                 /\ \A type \in LifecycleTypes \ {"monitor-stop"} :
                      Seen(log, type)
                 /\ i = Len(log)
    BY Zenon DEF LifecycleHolds
  <2> HIDE DEF Seen
  <2> QED BY <1>0, <1>1, <2>2, <2>3, <2>4
<1>8. LifecycleComplete(b) <=> LifecycleComplete(a)
  BY <1>0, <1>1 DEF LifecycleComplete
<1>9. \A i \in DOMAIN a : /\ IsEvent(b[i]) <=> IsEvent(a[i])
                          /\ IsEvent(a[i]) => b[i].event = a[i].event
  BY <1>0, <1>1 DEF SameButReason
<1>10. \A i \in DOMAIN a :
         TpmMetadataHolds(p, b, s, i) <=> TpmMetadataHolds(p, a, s, i)
  <2> TAKE i \in DOMAIN a
  <2> DEFINE E(log) == {j \in 1 .. i : IsEvent(log[j]) /\ log[j].extended}
             Owed(r) == p.tpm /\ Verdict[r.event].class \in p.extendOn
  <2>1. \A j \in 1 .. i : j \in DOMAIN a
    BY <1>1
  <2>2. E(b) = E(a)
    BY <1>0, <1>1, <2>1 DEF SameButReason
  <2>3. \A log :
          TpmMetadataHolds(p, log, s, i) <=>
            (IsEvent(log[i]) =>
               /\ log[i].index # 0 => log[i].extended
               /\ log[i].extended => Owed(log[i])
               /\ s.tpm # None /\ Owed(log[i]) => log[i].extended
               /\ log[i].extended => log[i].index = Cardinality(E(log)))
    BY DEF TpmMetadataHolds
  <2>4. IsEvent(a[i]) => /\ b[i].index = a[i].index
                         /\ b[i].extended = a[i].extended
                         /\ Owed(b[i]) = Owed(a[i])
    BY <1>0 DEF SameButReason
  <2> HIDE DEF E, Owed
  <2> QED BY <1>9, <2>2, <2>3, <2>4
<1>11. SummaryMatchesReplay(p, b, s) <=> SummaryMatchesReplay(p, a, s)
  <2>1. Len(a) \in 0 .. Len(a)
    BY <1>1
  <2> QED BY <1>0, <1>3, <1>4, <2>1 DEF SummaryMatchesReplay
<1>12. TpmSummaryHolds(p, b, s, required) <=> TpmSummaryHolds(p, a, s, required)
  <2>1. Len(a) \in 0 .. Len(a)
    BY <1>1
  <2>2. ReplayHead(s.session, b, Len(b)) = ReplayHead(s.session, a, Len(a))
    BY <1>0, <1>3, <2>1
  <2>3. TpmDigestsHold(p, b, s) <=> TpmDigestsHold(p, a, s)
    BY <1>4, <1>5, <2>2 DEF TpmDigestsHold
  <2>4. TpmPcrReplays(b, s) <=> TpmPcrReplays(a, s)
    BY <1>5 DEF TpmPcrReplays
  <2> QED BY <2>3, <2>4 DEF TpmSummaryHolds
<1>13. StructurallyValid(p, b, s, required) <=> StructurallyValid(p, a, s, required)
  <2> DEFINE Holds(log, i) ==
               /\ RecordReplays(log, s, i)
               /\ LifecycleHolds(log, i)
               /\ IsEvent(log[i]) => EventIdentityHolds(p, s, log[i].event)
               /\ TpmMetadataHolds(p, log, s, i)
  <2>1. \A i \in DOMAIN a : Holds(b, i) <=> Holds(a, i)
    BY <1>6, <1>7, <1>9, <1>10
  <2>2. \A log : StructurallyValid(p, log, s, required) <=>
          /\ SummaryIdentityHolds(p, s)
          /\ \A i \in DOMAIN log : Holds(log, i)
          /\ LifecycleComplete(log)
          /\ SummaryMatchesReplay(p, log, s)
          /\ TpmSummaryHolds(p, log, s, required)
    BY DEF StructurallyValid
  <2> HIDE DEF Holds
  <2> QED BY <1>0, <1>8, <1>11, <1>12, <2>1, <2>2
<1> QED BY <1>4, <1>13 DEF Verify

(* Any one record of a verified log lost, repeated, moved or changed in    *)
(* one field that the verifier reads is INVALID-EVIDENCE: between them     *)
(* update_software_chain, the per-record checks and the TPM metadata leave *)
(* nothing open but the reason of an event, which decides nothing.         *)
THEOREM LogDamageIsDetected == Spec => []DamagedLogRejected
<1>1. KnownInv /\ SessionInv => DamagedLogRejected
  <2> SUFFICES ASSUME KnownInv, SessionInv, CurrentSummary,
                      Verification # InvalidEvidence
               PROVE  /\ \A log \in DamagedLogs(file) :
                           ~StructurallyValid(setup, log, summaryFile, FALSE)
                      /\ \A log \in RewordedLogs(file) :
                           Verify(setup, log, summaryFile, FALSE) =
                             Verification
    BY DEF DamagedLogRejected, Verify
  <2>1. SealedFiles /\ StructurallyValid(setup, file, summaryFile, FALSE)
    BY VerdictIsValid, CurrentIsSealed DEF Verification
  <2>2. /\ file \in Seq(Record) /\ DOMAIN file = 1 .. Len(file)
        /\ Len(file) \in Nat
    BY <2>1, LenProperties DEF SealedFiles
  <2>3. ASSUME NEW log \in DamagedLogs(file)
        PROVE  \/ \E i \in DOMAIN file : log = Without(file, i)
               \/ \E i \in DOMAIN file : log = Repeated(file, i)
               \/ \E i \in 1 .. Len(file) - 1 : log = Swapped(file, i)
               \/ /\ log # file
                  /\ \E i \in DOMAIN file : \E r \in Altered(file[i]) :
                       log = [file EXCEPT ![i] = r]
    BY <2>3 DEF DamagedLogs
  <2>4. ASSUME NEW log, NEW i \in DOMAIN file,
               log = Without(file, i) \/ log = Repeated(file, i)
        PROVE  Len(log) \in Nat /\ Len(log) # Len(file)
    <3>1. /\ Len(Without(file, i)) = Len(file) - 1
          /\ Len(Repeated(file, i)) = Len(file) + 1
      BY <2>2, LostOrRepeatedLength
    <3>2. Len(file) >= 1
      BY <2>2
    <3> QED BY <2>2, <2>4, <3>1, <3>2
  <2>5. ASSUME NEW log, log # file, NEW i \in DOMAIN file,
               NEW r \in Altered(file[i]), log = [file EXCEPT ![i] = r]
        PROVE  ~StructurallyValid(setup, log, summaryFile, FALSE)
    <3>1. r # file[i]
      <4>1. [file EXCEPT ![i] = file[i]] = file
        BY <2>2
      <4> QED BY <2>5, <4>1
    <3> QED BY <2>1, <2>5, <3>1, AlteredRecordRejected
  <2>6. ASSUME NEW log \in DamagedLogs(file)
        PROVE  ~StructurallyValid(setup, log, summaryFile, FALSE)
    <3>1. CASE \E i \in DOMAIN file :
                 log = Without(file, i) \/ log = Repeated(file, i)
      <4>1. Len(log) \in Nat /\ Len(log) # Len(file)
        BY <2>4, <3>1
      <4> QED BY <2>1, <4>1, OtherLengthRejected
    <3>2. CASE \E i \in 1 .. Len(file) - 1 : log = Swapped(file, i)
      BY <2>1, <3>2, SwappedRecordsRejected
    <3>3. CASE /\ log # file
               /\ \E i \in DOMAIN file : \E r \in Altered(file[i]) :
                    log = [file EXCEPT ![i] = r]
      BY <2>5, <3>3
    <3> QED BY <2>3, <2>6, <3>1, <3>2, <3>3
  <2>7. ASSUME NEW log \in RewordedLogs(file)
        PROVE  Verify(setup, log, summaryFile, FALSE) = Verification
    <3>1. PICK i \in DOMAIN file :
            IsEvent(file[i]) /\ log = [file EXCEPT ![i].reason = <<"other">>]
      BY <2>7 DEF RewordedLogs
    <3>2. /\ DOMAIN log = DOMAIN file
          /\ log[i] = [file[i] EXCEPT !.reason = <<"other">>]
          /\ \A j \in DOMAIN file : j # i => log[j] = file[j]
      BY <2>2, <3>1
    <3>3. Len(log) = Len(file)
      BY <2>2, <3>1
    <3>4. file[i] \in Record
      BY <2>2, ElementOfSeq
    <3>5. SameButReason(file[i], log[i])
      BY <3>1, <3>2, <3>4 DEF SameButReason, IsEvent, Record
    <3>6. \A j \in DOMAIN file : SameButReason(file[j], log[j])
      BY <3>2, <3>5 DEF SameButReason
    <3>7. SameButReasons(file, log)
      BY <3>2, <3>3, <3>6 DEF SameButReasons
    <3>8. file \in Seq(Record)
      BY <2>2
    <3>9. \A p, s, required :
            Verify(p, log, s, required) = Verify(p, file, s, required)
      BY <3>7, <3>8, ReasonIsNotRead
    <3> QED BY <3>9, Zenon DEF Verification
  <2> QED BY <2>6, <2>7
<1> QED BY <1>1, SessionHolds, PTL

(* So is a changed count, chain head, session id, policy hash or unknown   *)
(* mode in the summary, a changed workload where the policies name theirs, *)
(* and under a TPM also a changed workload, mode or drop count, and the    *)
(* TPM section dropped or changed in a digest, a count or a PCR value.     *)
THEOREM SummaryDamageIsDetected == Spec => []DamagedSummaryRejected
<1>1. KnownInv /\ SessionInv => DamagedSummaryRejected
  <2> SUFFICES ASSUME KnownInv, SessionInv, CurrentSummary,
                      Verification # InvalidEvidence,
                      NEW s \in DamagedSummaries(setup, summaryFile),
                      StructurallyValid(setup, file, s, FALSE)
               PROVE  FALSE
    BY DEF DamagedSummaryRejected, Verify
  <2> DEFINE t == summaryFile
  <2>1. SealedFiles /\ StructurallyValid(setup, file, t, FALSE)
    BY VerdictIsValid, CurrentIsSealed DEF Verification
  <2>2. t \in Summary /\ setup \in Setups
    <3>1. TypeOK /\ state \in EvidenceState /\ tpm \in TpmState
      BY DEF KnownInv, CaptureInv, TypeOK
    <3> QED BY <2>1, <3>1, RuntimeSummaryType DEF SealedFiles, TypeOK
  <2>3. /\ t.session = Session /\ t.counts = Tally(file)
        /\ t.policyHash = setup.policyHash
        /\ t.head = ReplayHead(Session, file, Len(file))
    BY <2>1, SealedSummary DEF SealedFiles
  <2>4. s.session = Session
    <3>1. \A i \in DOMAIN file : file[i].session = t.session
                                 /\ file[i].session = s.session
      BY <2>1 DEF StructurallyValid, RecordReplays
    <3>2. \E i \in DOMAIN file : IsType(file[i], "monitor-start")
      BY <2>1 DEF StructurallyValid, LifecycleComplete, LifecycleTypes
    <3> QED BY <2>3, <3>1, <3>2
  <2>5. /\ s.policyHash = setup.policyHash
        /\ s.counts = Tally(file)
        /\ s.head = ReplayHead(Session, file, Len(file))
    BY <2>4 DEF StructurallyValid, SummaryMatchesReplay
  <2>6. /\ t.counts \in Counts /\ t.head \in Seq(Hash) /\ t.dropped \in Nat
    BY <2>2 DEF Summary, ChainHead
  <2>7. ASSUME NEW c \in DOMAIN t.counts, s = [t EXCEPT !.counts[c] = @ + 1]
        PROVE  FALSE
    <3>1. s.counts = [t.counts EXCEPT ![c] = @ + 1]
      BY <2>2, <2>7 DEF Summary
    <3>2. s.counts[c] = t.counts[c] + 1 /\ t.counts[c] \in Nat
      BY <2>6, <2>7, <3>1 DEF Counts
    <3> QED BY <2>3, <2>5, <3>2
  <2>8. ASSUME s = [t EXCEPT !.head = Append(@, None)] PROVE FALSE
    <3>1. s.head = Append(t.head, None)
      BY <2>2, <2>8 DEF Summary
    <3>2. t.head \in Seq(Hash \union {None})
      BY <2>6
    <3> QED BY <2>3, <2>5, <3>1, <3>2, AppendProperties, LenProperties
  <2>9. ASSUME s = [t EXCEPT !.session = None] PROVE FALSE
    BY <2>2, <2>4, <2>9, FilesAssumption DEF Summary
  <2>10. ASSUME s = [t EXCEPT !.policyHash = None] PROVE FALSE
    <3>1. s.policyHash = None
      BY <2>2, <2>10 DEF Summary
    <3> QED BY <2>2, <2>5, <3>1, FilesAssumption
  <2>11. /\ t.tpm # None => TpmDigestsHold(setup, file, t) /\ TpmPcrReplays(file, t)
         /\ s.tpm # None => TpmDigestsHold(setup, file, s) /\ TpmPcrReplays(file, s)
    BY <2>1 DEF StructurallyValid, TpmSummaryHolds
  <2>12. t.tpm # None => t.tpm \in TpmFinal
    BY <2>2 DEF Summary
  <2>13. ASSUME t.tpm # None, s = [t EXCEPT !.dropped = @ + 1] PROVE FALSE
    <3>1. s.dropped = t.dropped + 1 /\ s.tpm = t.tpm
      BY <2>2, <2>13 DEF Summary
    <3>2. FinalSummaryDigest(Session, t.head, t.counts, s.dropped,
                             setup.policyHash) =
          FinalSummaryDigest(Session, t.head, t.counts, t.dropped,
                             setup.policyHash)
      BY <2>3, <2>4, <2>11, <2>13, <3>1 DEF TpmDigestsHold
    <3>3. s.dropped = t.dropped
      BY <3>2 DEF FinalSummaryDigest
    <3> QED BY <2>6, <3>1, <3>3
  <2>14. ASSUME t.tpm # None, s.markers = t.markers PROVE s.tpm # None
    <3>1. setup.tpm /\ ~tpm.failed /\ t.markers = Markers(tpm)
      BY <2>1, <2>14, SealedSummary
    <3>2. "TPM binding failed open" \notin Markers(tpm)
      BY <3>1 DEF Markers
    <3>3. ~FailOpenSoftwareEvidence(setup, s)
      BY <2>14, <3>1, <3>2, Zenon DEF FailOpenSoftwareEvidence
    <3> QED BY <3>1, <3>3 DEF StructurallyValid, TpmSummaryHolds
  <2> DEFINE Value == {None, <<"boot">>} \union StartDigest \union FinalDigest
                      \union EventDigest
  <2>15. \A p \in Pcr : p \in Seq(Value) /\ Append(p, None) # p
    <3>1. Pcr \subseteq Seq(Value) /\ None \in Value
      BY DEF Pcr
    <3> HIDE DEF Value
    <3>2. \A p \in Seq(Value) : Len(Append(p, None)) = Len(p) + 1 /\ Len(p) \in Nat
      BY <3>1, AppendProperties, LenProperties
    <3> QED BY <3>1, <3>2
  <2>16. ASSUME t.tpm # None, s = [t EXCEPT !.tpm = None] PROVE FALSE
    <3>1. s.tpm = None /\ s.markers = t.markers
      BY <2>2, <2>16 DEF Summary
    <3> QED BY <2>14, <2>16, <3>1
  <2>17. ASSUME t.tpm # None, NEW u, s = [t EXCEPT !.tpm = u]
         PROVE  /\ s.tpm = u
                /\ u.extends = t.tpm.extends
                /\ u.afterStart = Append(u.initial, u.startDigest)
                /\ u.finalPcr = Append(u.afterStart \o
                                         ExtendedDigests(Session, file),
                                       u.finalDigest)
                /\ t.tpm.afterStart = Append(t.tpm.initial, t.tpm.startDigest)
                /\ t.tpm.finalPcr = Append(t.tpm.afterStart \o
                                             ExtendedDigests(Session, file),
                                           t.tpm.finalDigest)
    <3>1. s.tpm = u /\ s.markers = t.markers
      BY <2>2, <2>17 DEF Summary
    <3>2. s.tpm # None
      BY <2>14, <2>17, <3>1
    <3> QED BY <2>3, <2>4, <2>11, <2>17, <3>1, <3>2
            DEF TpmDigestsHold, TpmPcrReplays, ReplayPcrExtend
  <2>18. ASSUME t.tpm # None,
                \/ s = [t EXCEPT !.tpm.extends = @ + 1]
                \/ s = [t EXCEPT !.tpm.finalPcr = Append(@, None)]
                \/ s = [t EXCEPT !.tpm.initial = Append(@, None)]
                \/ s = [t EXCEPT !.tpm.afterStart = Append(@, None)]
         PROVE  FALSE
    <3> DEFINE f == t.tpm
    <3>1. /\ f \in TpmFinal /\ f.extends \in Nat
          /\ f.initial \in Pcr /\ f.finalPcr \in Pcr
          /\ f.afterStart = Append(f.initial, f.startDigest)
      BY <2>3, <2>12, <2>11, <2>18 DEF TpmFinal, TpmPcrReplays, ReplayPcrExtend
    <3>2. CASE s = [t EXCEPT !.tpm = [f EXCEPT !.extends = @ + 1]]
      <4> DEFINE u == [f EXCEPT !.extends = @ + 1]
      <4>1. u.extends = f.extends + 1
        BY <3>1 DEF TpmFinal
      <4>2. s = [t EXCEPT !.tpm = u]
        BY <3>2
      <4> HIDE DEF u
      <4>3. u.extends = f.extends
        BY <2>17, <2>18, <4>2
      <4> QED BY <3>1, <4>1, <4>3
    <3>3. CASE s = [t EXCEPT !.tpm = [f EXCEPT !.finalPcr = Append(@, None)]]
      <4> DEFINE u == [f EXCEPT !.finalPcr = Append(@, None)]
      <4>1. /\ u.finalPcr = Append(f.finalPcr, None)
            /\ u.afterStart = f.afterStart /\ u.finalDigest = f.finalDigest
        BY <3>1 DEF TpmFinal
      <4>2. s = [t EXCEPT !.tpm = u]
        BY <3>3
      <4> HIDE DEF u
      <4>3. u.finalPcr = f.finalPcr
        BY <2>17, <2>18, <4>1, <4>2
      <4> QED BY <2>15, <3>1, <4>1, <4>3
    <3>4. CASE s = [t EXCEPT !.tpm = [f EXCEPT !.initial = Append(@, None)]]
      <4> DEFINE u == [f EXCEPT !.initial = Append(@, None)]
      <4>1. /\ u.initial = Append(f.initial, None)
            /\ u.afterStart = f.afterStart /\ u.startDigest = f.startDigest
        BY <3>1 DEF TpmFinal
      <4>2. s = [t EXCEPT !.tpm = u]
        BY <3>4
      <4> HIDE DEF u
      <4>3. Append(f.initial, f.startDigest) =
              Append(Append(f.initial, None), f.startDigest)
        BY <2>17, <2>18, <3>1, <4>1, <4>2
      <4>4. /\ f.initial \in Seq(Value) /\ f.startDigest \in Value
            /\ Append(f.initial, None) \in Seq(Value)
            /\ Len(Append(f.initial, None)) = Len(f.initial) + 1
            /\ Len(f.initial) \in Nat
        <5>1. f.initial \in Seq(Value) /\ f.startDigest \in Value /\ None \in Value
          BY <2>15, <3>1 DEF TpmFinal
        <5> HIDE DEF Value
        <5> QED BY <5>1, AppendProperties, LenProperties
      <4> HIDE DEF Value
      <4> QED BY <4>3, <4>4, AppendProperties
    <3>5. CASE s = [t EXCEPT !.tpm = [f EXCEPT !.afterStart = Append(@, None)]]
      <4> DEFINE u == [f EXCEPT !.afterStart = Append(@, None)]
      <4>1. /\ u.afterStart = Append(f.afterStart, None)
            /\ u.initial = f.initial /\ u.startDigest = f.startDigest
            /\ f.afterStart \in Pcr
        BY <3>1 DEF TpmFinal
      <4>2. s = [t EXCEPT !.tpm = u]
        BY <3>5
      <4> HIDE DEF u
      <4>3. u.afterStart = f.afterStart
        BY <2>17, <2>18, <3>1, <4>1, <4>2
      <4> QED BY <2>15, <4>1, <4>3
    <3> QED BY <2>18, <3>2, <3>3, <3>4, <3>5
  <2>19. /\ s.mode \in {"scoped", "host-wide"}
         /\ setup.policyIds = {} \/ s.workload = setup.policyIds
         /\ setup.policyIds = {} \/ t.workload = setup.policyIds
    BY <2>1 DEF StructurallyValid, SummaryIdentityHolds
  <2>20. ASSUME s = [t EXCEPT !.mode = "other"] PROVE FALSE
    <3>1. s.mode = "other"
      BY <2>2, <2>20 DEF Summary
    <3> QED BY <2>19, <3>1
  (* The digests of a TPM section that stays in the summary.               *)
  <2>21. ASSUME t.tpm # None, NEW u, u # None, s.tpm = u
         PROVE  /\ u.startDigest =
                     SessionStartDigest(Session, setup.policyHash, s.workload,
                                        s.mode)
                /\ t.tpm.startDigest =
                     SessionStartDigest(Session, setup.policyHash, t.workload,
                                        t.mode)
                /\ s.finalDigest = u.finalDigest
                /\ t.finalDigest = t.tpm.finalDigest
                /\ u.finalDigest =
                     FinalSummaryDigest(Session, t.head, t.counts, s.dropped,
                                        setup.policyHash)
    BY <2>3, <2>4, <2>11, <2>21 DEF TpmDigestsHold
  <2>22. ASSUME t.tpm # None, s.tpm = t.tpm
         PROVE  s.workload = t.workload /\ s.mode = t.mode
    <3>1. SessionStartDigest(Session, setup.policyHash, s.workload, s.mode) =
          SessionStartDigest(Session, setup.policyHash, t.workload, t.mode)
      BY <2>21, <2>22
    <3> QED BY <3>1 DEF SessionStartDigest
  <2>23. ASSUME NEW w, w # t.workload, s = [t EXCEPT !.workload = w],
                t.tpm # None \/ setup.policyIds # {}
         PROVE  FALSE
    <3>1. s.workload = w /\ s.tpm = t.tpm
      BY <2>2, <2>23 DEF Summary
    <3>2. s.workload = t.workload
      BY <2>19, <2>22, <2>23, <3>1
    <3> QED BY <2>23, <3>1, <3>2
  <2>24. ASSUME NEW m, m # t.mode, s = [t EXCEPT !.mode = m], t.tpm # None
         PROVE  FALSE
    <3>1. s.mode = m /\ s.tpm = t.tpm
      BY <2>2, <2>24 DEF Summary
    <3> QED BY <2>22, <2>24, <3>1
  <2>25. ASSUME t.tpm # None,
                \/ s = [t EXCEPT !.finalDigest = <<"other">>]
                \/ s = [t EXCEPT !.tpm.startDigest = <<"other">>]
                \/ s = [t EXCEPT !.tpm.finalDigest = <<"other">>]
         PROVE  FALSE
    <3>1. \A hash, w, m, head, counts, lost :
            /\ SessionStartDigest(Session, hash, w, m) # <<"other">>
            /\ FinalSummaryDigest(Session, head, counts, lost, hash)
                 # <<"other">>
      BY DEF SessionStartDigest, FinalSummaryDigest
    <3>2. CASE s = [t EXCEPT !.finalDigest = <<"other">>]
      <4>1. s.finalDigest = <<"other">> /\ s.tpm = t.tpm
        BY <2>2, <3>2 DEF Summary
      <4> QED BY <2>21, <2>25, <3>1, <4>1
    <3>3. CASE s = [t EXCEPT !.tpm = [t.tpm EXCEPT !.startDigest = <<"other">>]]
      <4> DEFINE u == [t.tpm EXCEPT !.startDigest = <<"other">>]
      <4>1. u.startDigest = <<"other">>
        BY <2>12, <2>25 DEF TpmFinal
      <4>2. s = [t EXCEPT !.tpm = u]
        BY <3>3
      <4> HIDE DEF u
      <4>3. s.tpm = u /\ s.tpm # None
        <5>1. s.tpm = u /\ s.markers = t.markers
          BY <2>2, <4>2 DEF Summary
        <5> QED BY <2>14, <2>25, <5>1
      <4> QED BY <2>21, <2>25, <3>1, <4>1, <4>3
    <3>4. CASE s = [t EXCEPT !.tpm = [t.tpm EXCEPT !.finalDigest = <<"other">>]]
      <4> DEFINE u == [t.tpm EXCEPT !.finalDigest = <<"other">>]
      <4>1. u.finalDigest = <<"other">>
        BY <2>12, <2>25 DEF TpmFinal
      <4>2. s = [t EXCEPT !.tpm = u]
        BY <3>4
      <4> HIDE DEF u
      <4>3. s.tpm = u /\ s.tpm # None
        <5>1. s.tpm = u /\ s.markers = t.markers
          BY <2>2, <4>2 DEF Summary
        <5> QED BY <2>14, <2>25, <5>1
      <4> QED BY <2>21, <2>25, <3>1, <4>1, <4>3
    <3> QED BY <2>25, <3>2, <3>3, <3>4
  <2>26. s \notin Misstated(setup, t)
    BY <2>7, <2>8, <2>9, <2>10, <2>20, <2>23 DEF Misstated
  <2>27. t.tpm = None \/ s \notin Unbound(t)
    BY <2>13, <2>16, <2>18, <2>23, <2>24, <2>25 DEF Unbound
  <2> QED BY <2>26, <2>27 DEF DamagedSummaries
<1> QED BY <1>1, SessionHolds, PTL
=============================================================================
