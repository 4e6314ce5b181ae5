-------------------------- MODULE TpmBindingProofs --------------------------
(***************************************************************************)
(* Proofs about what EvidenceCapture binds to the TPM, for every value of  *)
(* its constants: the runtime PCR is that of the log, and a summary with a *)
(* TPM section covers the log.                                             *)
(***************************************************************************)
EXTENDS EvidenceCaptureProofs, WellFoundedInduction

-----------------------------------------------------------------------------
(* Induction, as a statement about sets: a set that has 0 and with every   *)
(* number the next one has them all.                                       *)
LEMMA NatSetInduction ==
  ASSUME NEW T, 0 \in T, \A n \in Nat : n \in T => n + 1 \in T
  PROVE  Nat \subseteq T
<1> SUFFICES ASSUME Nat \ T # {} PROVE FALSE
  OBVIOUS
<1> DEFINE R == OpToRel(<, Nat)
<1>1. IsWellFoundedOn(R, Nat)
  BY NatLessThanWellFounded
<1> HIDE DEF R
<1>2. PICK x \in Nat \ T : \A y \in Nat \ T : ~(<<y, x>> \in R)
  BY <1>1, WFMin
<1>3. x - 1 \in Nat \ T /\ x - 1 < x
  OBVIOUS
<1>4. <<x - 1, x>> \in R
  BY <1>3 DEF R, OpToRel
<1> QED BY <1>2, <1>3, <1>4

(* FlattenSeq computes its prefixes one after the other.                   *)
IsFlattening(f, ss, n) ==
  f = [i \in 1 .. n |-> IF i = 1 THEN ss[i] ELSE f[i - 1] \o ss[i]]

LEMMA FlatteningExists ==
  ASSUME NEW ss
  PROVE  \A n \in Nat : \E f : IsFlattening(f, ss, n)
<1> DEFINE T == {n \in Nat : \E f : IsFlattening(f, ss, n)}
<1>1. 0 \in T
  <2>1. IsFlattening([i \in 1 .. 0 |-> i], ss, 0)
    BY DEF IsFlattening
  <2> QED BY <2>1
<1>2. ASSUME NEW n \in Nat, n \in T PROVE n + 1 \in T
  <2>1. PICK f : IsFlattening(f, ss, n)
    BY <1>2
  <2> DEFINE last == IF n = 0 THEN ss[1] ELSE f[n] \o ss[n + 1]
             g    == [i \in 1 .. n + 1 |-> IF i = n + 1 THEN last ELSE f[i]]
             h    == [i \in 1 .. n + 1 |->
                        IF i = 1 THEN ss[i] ELSE g[i - 1] \o ss[i]]
  <2>2. \A i \in 1 .. n : f[i] = IF i = 1 THEN ss[i] ELSE f[i - 1] \o ss[i]
    BY <2>1 DEF IsFlattening
  <2>3. ASSUME NEW i \in 1 .. n + 1 PROVE g[i] = h[i]
    <3>1. CASE i = n + 1
      BY <2>2, <3>1
    <3>2. CASE i # n + 1
      BY <2>2, <3>2
    <3> QED BY <3>1, <3>2
  <2>4. g = h
    BY <2>3
  <2>5. IsFlattening(g, ss, n + 1)
    BY <2>4 DEF IsFlattening
  <2> QED BY <2>5
<1> HIDE DEF T
<1>3. Nat \subseteq T
  BY <1>1, <1>2, NatSetInduction
<1> QED BY <1>3 DEF T

LEMMA FlatteningsAgree ==
  ASSUME NEW S, NEW ss \in Seq(Seq(S)), NEW tt \in Seq(Seq(S)),
         NEW n \in Nat, n <= Len(ss), n <= Len(tt),
         \A i \in 1 .. n : ss[i] = tt[i],
         NEW f, IsFlattening(f, ss, Len(ss)),
         NEW g, IsFlattening(g, tt, Len(tt))
  PROVE  \A i \in 1 .. n : f[i] = g[i] /\ f[i] \in Seq(S)
<1> DEFINE T == {i \in Nat : i \in 1 .. n => f[i] = g[i] /\ f[i] \in Seq(S)}
<1>0. /\ Len(ss) \in Nat /\ Len(tt) \in Nat
      /\ \A i \in 1 .. n : ss[i] \in Seq(S)
  BY LenProperties, ElementOfSeq
<1>1. /\ \A i \in 1 .. n : f[i] = IF i = 1 THEN ss[i] ELSE f[i - 1] \o ss[i]
      /\ \A i \in 1 .. n : g[i] = IF i = 1 THEN tt[i] ELSE g[i - 1] \o tt[i]
  <2>1. \A i \in 1 .. Len(ss) : f[i] = IF i = 1 THEN ss[i] ELSE f[i - 1] \o ss[i]
    BY DEF IsFlattening
  <2>2. \A i \in 1 .. Len(tt) : g[i] = IF i = 1 THEN tt[i] ELSE g[i - 1] \o tt[i]
    BY DEF IsFlattening
  <2> QED BY <1>0, <2>1, <2>2
<1>2. 0 \in T
  OBVIOUS
<1>3. ASSUME NEW i \in Nat, i \in T PROVE i + 1 \in T
  <2> SUFFICES ASSUME i + 1 \in 1 .. n
               PROVE  f[i + 1] = g[i + 1] /\ f[i + 1] \in Seq(S)
    OBVIOUS
  <2>1. CASE i = 0
    BY <1>0, <1>1, <2>1
  <2>2. CASE i # 0
    <3>1. i \in 1 .. n /\ (i + 1) - 1 = i /\ i + 1 # 1
      BY <2>2
    <3>2. f[i] = g[i] /\ f[i] \in Seq(S)
      BY <1>3, <3>1
    <3>3. /\ f[i + 1] = f[i] \o ss[i + 1]
          /\ g[i + 1] = g[i] \o tt[i + 1]
      BY <1>1, <3>1
    <3>4. ss[i + 1] = tt[i + 1] /\ ss[i + 1] \in Seq(S)
      BY <1>0
    <3> QED BY <3>2, <3>3, <3>4, ConcatProperties
  <2> QED BY <2>1, <2>2
<1> HIDE DEF T
<1>4. Nat \subseteq T
  BY <1>2, <1>3, NatSetInduction
<1> QED BY <1>4 DEF T

LEMMA FlattenUnfolds ==
  ASSUME NEW S, NEW ss \in Seq(Seq(S)), ss # <<>>
  PROVE  \E f : IsFlattening(f, ss, Len(ss)) /\ FlattenSeq(ss) = f[Len(ss)]
<1>1. Len(ss) \in Nat /\ Len(ss) # 0
  BY EmptySeq
<1>2. \E f : IsFlattening(f, ss, Len(ss))
  BY <1>1, FlatteningExists
<1> DEFINE f == CHOOSE f : IsFlattening(f, ss, Len(ss))
<1>3. IsFlattening(f, ss, Len(ss))
  BY <1>2
<1>4. FlattenSeq(ss) = f[Len(ss)]
  BY <1>1 DEF FlattenSeq, IsFlattening
<1> QED BY <1>3, <1>4

(* One more part is concatenated at the end.                               *)
LEMMA FlattenAppend ==
  ASSUME NEW S, NEW ss \in Seq(Seq(S)), NEW e \in Seq(S)
  PROVE  /\ FlattenSeq(ss) \in Seq(S)
         /\ FlattenSeq(Append(ss, e)) = FlattenSeq(ss) \o e
<1> DEFINE tt == Append(ss, e)
<1>1. /\ tt \in Seq(Seq(S)) /\ tt # <<>> /\ Len(tt) = Len(ss) + 1
      /\ Len(ss) \in Nat
      /\ \A i \in 1 .. Len(ss) : ss[i] = tt[i]
      /\ tt[Len(ss) + 1] = e
  BY AppendProperties, LenProperties
<1> HIDE DEF tt
<1>2. PICK g : IsFlattening(g, tt, Len(tt)) /\ FlattenSeq(tt) = g[Len(tt)]
  BY <1>1, FlattenUnfolds
<1>3. \A i \in 1 .. Len(tt) : g[i] = IF i = 1 THEN tt[i] ELSE g[i - 1] \o tt[i]
  BY <1>2 DEF IsFlattening
<1>4. CASE Len(ss) = 0
  <2>1. ss = <<>> /\ FlattenSeq(ss) = <<>> /\ <<>> \in Seq(S)
    BY <1>4, EmptySeq DEF FlattenSeq
  <2>2. FlattenSeq(tt) = e
    BY <1>1, <1>2, <1>3, <1>4
  <2>3. <<>> \o e = e
    BY ConcatEmptySeq
  <2> QED BY <2>1, <2>2, <2>3 DEF tt
<1>5. CASE Len(ss) # 0
  <2>1. ss # <<>>
    BY <1>5, EmptySeq
  <2>2. PICK f : IsFlattening(f, ss, Len(ss)) /\ FlattenSeq(ss) = f[Len(ss)]
    BY <2>1, FlattenUnfolds
  <2> DEFINE n == Len(ss)
  <2>3. n \in Nat /\ n <= Len(ss) /\ n <= Len(tt) /\ n \in 1 .. n
    BY <1>1, <1>5
  <2>4. \A i \in 1 .. n : ss[i] = tt[i]
    BY <1>1
  <2> HIDE DEF n
  <2>5. \A i \in 1 .. n : f[i] = g[i] /\ f[i] \in Seq(S)
    <3>1. /\ ss \in Seq(Seq(S)) /\ tt \in Seq(Seq(S)) /\ n \in Nat
          /\ n <= Len(ss) /\ n <= Len(tt)
          /\ IsFlattening(f, ss, Len(ss)) /\ IsFlattening(g, tt, Len(tt))
      BY <1>1, <1>2, <2>2, <2>3
    <3> QED BY <3>1, <2>4, FlatteningsAgree, Zenon
  <2>6. f[n] = g[n] /\ f[n] \in Seq(S)
    BY <2>3, <2>5
  <2>7. n + 1 \in 1 .. Len(tt) /\ n + 1 # 1 /\ (n + 1) - 1 = n
    BY <1>1, <1>5 DEF n
  <2>8. g[n + 1] = g[n] \o tt[n + 1]
    BY <1>3, <2>7
  <2>9. FlattenSeq(tt) = g[n] \o e
    BY <1>1, <1>2, <2>8 DEF n
  <2> QED BY <2>2, <2>6, <2>9 DEF tt, n
<1> QED BY <1>1, <1>4, <1>5
-----------------------------------------------------------------------------
(* What one more record adds to the digests and to the due records of a    *)
(* log.                                                                    *)
LEMMA DigestsOfAppend ==
  ASSUME NEW log \in Seq(Record), NEW r \in Record
  PROVE  /\ ExtendedDigests(Session, log) \in Seq(EventDigest)
         /\ ExtendedDigests(Session, Append(log, r)) =
              ExtendedDigests(Session, log) \o ExtendedDigest(Session, r)
<1> DEFINE new == Append(log, r)
           P(q) == ExtendedDigest(Session, q)
           ss == [i \in DOMAIN log |-> P(log[i])]
           tt == [i \in DOMAIN new |-> P(new[i])]
<1>1. /\ Len(new) = Len(log) + 1 /\ new[Len(log) + 1] = r
      /\ DOMAIN log = 1 .. Len(log) /\ DOMAIN new = 1 .. Len(log) + 1
      /\ \A i \in 1 .. Len(log) : new[i] = log[i] /\ log[i] \in Record
      /\ Len(log) \in Nat
  BY AppendProperties, LenProperties, ElementOfSeq
<1>2. \A q \in Record : P(q) \in Seq(EventDigest)
  <2> SUFFICES ASSUME NEW q \in Record, IsEvent(q), q.extended
               PROVE  P(q) \in Seq(EventDigest)
    BY DEF ExtendedDigest
  <2>1. /\ q.seq \in Nat /\ q.event \in Event
        /\ P(q) = <<ClassifiedDigest(Session, q.seq, RecordHash(Session, q),
                                     Verdict[q.event])>>
    BY DEF ExtendedDigest, IsEvent, Record
  <2>2. RecordHash(Session, q) \in Hash
    BY <2>1, HashTypes DEF RecordHash
  <2>3. ClassifiedDigest(Session, q.seq, RecordHash(Session, q),
                         Verdict[q.event]) \in EventDigest
    BY <2>1, <2>2, VerdictTypes DEF ClassifiedDigest, EventDigest
  <2> QED BY <2>1, <2>3
<1> HIDE DEF new, P
<1>3. ss \in Seq(Seq(EventDigest)) /\ Len(ss) = Len(log)
  BY <1>1, <1>2
<1>4. tt = Append(ss, P(r))
  BY <1>1, <1>3
<1>5. P(r) \in Seq(EventDigest)
  BY <1>2
<1> HIDE DEF ss, tt
<1>6. FlattenSeq(ss) \in Seq(EventDigest) /\ FlattenSeq(tt) = FlattenSeq(ss) \o P(r)
  BY <1>3, <1>4, <1>5, FlattenAppend
<1> QED BY <1>6 DEF ExtendedDigests, ss, tt, P, new

LEMMA DueOfAppend ==
  ASSUME NEW p, NEW log \in Seq(Record), NEW r \in Record
  PROVE  /\ DueRecords(p, log) \in Seq(Record)
         /\ DueRecords(p, Append(log, r)) = DueRecords(p, log) \o DueRecord(p, r)
<1> DEFINE new == Append(log, r)
           P(q) == DueRecord(p, q)
           ss == [i \in DOMAIN log |-> P(log[i])]
           tt == [i \in DOMAIN new |-> P(new[i])]
<1>1. /\ Len(new) = Len(log) + 1 /\ new[Len(log) + 1] = r
      /\ DOMAIN log = 1 .. Len(log) /\ DOMAIN new = 1 .. Len(log) + 1
      /\ \A i \in 1 .. Len(log) : new[i] = log[i] /\ log[i] \in Record
      /\ Len(log) \in Nat
  BY AppendProperties, LenProperties, ElementOfSeq
<1>2. \A q \in Record : P(q) \in Seq(Record)
  BY DEF DueRecord
<1> HIDE DEF new, P
<1>3. ss \in Seq(Seq(Record)) /\ Len(ss) = Len(log)
  BY <1>1, <1>2
<1>4. tt = Append(ss, P(r))
  BY <1>1, <1>3
<1>5. P(r) \in Seq(Record)
  BY <1>2
<1> HIDE DEF ss, tt
<1>6. FlattenSeq(ss) \in Seq(Record) /\ FlattenSeq(tt) = FlattenSeq(ss) \o P(r)
  BY <1>3, <1>4, <1>5, FlattenAppend
<1> QED BY <1>6 DEF DueRecords, ss, tt, P, new

-----------------------------------------------------------------------------
(* The invariant behind both properties. A session is bound after its      *)
(* target record, so before that nothing is extended.                      *)
EarlyIsUnbound ==
  phase \in {"opened", "bound"} =>
    /\ tpm.binding = None
    /\ tpm.extends = 0
    /\ ExtendedDigests(Session, Log) = <<>>

(* Final digest and summary come after the seal.                           *)
OpenIsUnfinished ==
  captureState = "open" =>
    /\ tpm.final = None
    /\ summaryFile \in {None, EarlierSummary}

(* Only a failed write leaves records behind in the writer.                *)
HeldRecordsAreFaults == buffer # <<>> => "record" \in faults

(* The final TPM summary, cached or not, counts the extends.               *)
FinalCountsExtends ==
  tpm.final # None => tpm.final.extends = tpm.extends

(* A summary of this session that claims the TPM is about the TPM as it    *)
(* still is.                                                               *)
ClaimIsCurrent ==
  /\ summaryFile \notin {None, Torn}
  /\ summaryFile.session = Session
  /\ summaryFile.tpm # None
  => /\ ~tpm.failed
     /\ tpm.final # None
     /\ summaryFile.tpm.extends = tpm.extends

(* While no TPM command has failed, every due event of the log was         *)
(* extended, with its index. A main that gave up before the seal may lose  *)
(* the records it holds.                                                   *)
DueIsExtended ==
  ~tpm.failed /\ (phase # "aborted" \/ captureState # "open") =>
    LET due == DueRecords(setup, Log)
    IN  /\ tpm.extends = Len(due)
        /\ \A k \in DOMAIN due : due[k].extended /\ due[k].index = k

BindingInv ==
  /\ EarlyIsUnbound
  /\ OpenIsUnfinished
  /\ HeldRecordsAreFaults
  /\ FinalCountsExtends
  /\ ClaimIsCurrent
  /\ DueIsExtended
  /\ PcrMatchesLog

-----------------------------------------------------------------------------
(* What each TPM step leaves behind. A failed one either returns its error *)
(* or marks the TPM as failed, and leaves the rest of the state alone.     *)
Fails(o) ==
  /\ o.tpm = [tpm EXCEPT !.failed = ~setup.failClosed]
  /\ o.err = setup.failClosed
  /\ o.fault = {"tpm"}

Rests(o) == o.pcr = pcr /\ o.tpm = tpm /\ o.err = FALSE /\ o.fault = {}

LEMMA SessionStartBinds ==
  ASSUME TypeOK, NEW o \in SessionStartOutcomes
  PROVE  \/ Fails(o) /\ ~TpmIdle
         \/ Rests(o)
         \/ /\ ~o.err
            /\ \E b : /\ o.tpm = [tpm EXCEPT !.binding = b]
                      /\ o.pcr = Append(b.initial, b.digest)
                      /\ b.afterStart = Append(b.initial, b.digest)
                      /\ b.digest = SessionStartDigest(Session,
                           setup.policyHash, setup.workload, setup.mode)
<1> DEFINE digest == SessionStartDigest(Session, setup.policyHash,
                                        setup.workload, setup.mode)
           fresh  == IF setup.resetPcr THEN <<>> ELSE pcr
           bound  == ReplayPcrExtend(fresh, digest)
           b == [initial |-> fresh, afterStart |-> bound, digest |-> digest]
<1>1. b.initial = fresh /\ b.afterStart = bound /\ b.digest = digest
  OBVIOUS
<1>2. bound = Append(fresh, digest)
  BY DEF ReplayPcrExtend
<1>3. \/ o = TpmDone(pcr, tpm)
      \/ o = TpmDone(bound, [tpm EXCEPT !.binding = b])
      \/ ~TpmIdle /\ \E p : o = RecordTpmFailure(p)
  <2> HIDE DEF b
  <2> QED BY DEF SessionStartOutcomes, b
<1> HIDE DEF b, bound, fresh
<1>4. CASE o = TpmDone(bound, [tpm EXCEPT !.binding = b])
  <2>1. /\ ~o.err /\ o.tpm = [tpm EXCEPT !.binding = b]
        /\ o.pcr = Append(b.initial, b.digest)
        /\ b.afterStart = Append(b.initial, b.digest)
        /\ b.digest = digest
    BY <1>1, <1>2, <1>4 DEF TpmDone
  <2> QED BY <2>1
<1>5. CASE o = TpmDone(pcr, tpm)
  BY <1>5 DEF TpmDone, Rests
<1>6. CASE ~TpmIdle /\ \E p : o = RecordTpmFailure(p)
  BY <1>6 DEF RecordTpmFailure, Fails
<1> QED BY <1>3, <1>4, <1>5, <1>6

LEMMA EventExtendBinds ==
  ASSUME TypeOK, NEW seq, NEW e, NEW o \in EventExtendOutcomes(seq, e)
  PROVE  \/ Fails(o) /\ ShouldExtend(Verdict[e].class) /\ ~tpm.failed
         \/ Rests(o) /\ (ShouldExtend(Verdict[e].class) => tpm.failed)
         \/ /\ ShouldExtend(Verdict[e].class) /\ ~tpm.failed
            /\ ~o.err /\ o.fault = {}
            /\ o.tpm = [tpm EXCEPT !.extends = @ + 1]
            /\ o.pcr = Append(pcr, ClassifiedDigest(Session, seq,
                                     EventHash(Session, seq, e), Verdict[e]))
<1> DEFINE digest == ClassifiedDigest(Session, seq, EventHash(Session, seq, e),
                                      Verdict[e])
           done   == ReplayPcrExtend(pcr, digest)
           more   == [tpm EXCEPT !.extends = @ + 1]
           due    == ShouldExtend(Verdict[e].class)
<1>1. \/ (~due \/ tpm.failed) /\ o = TpmDone(pcr, tpm)
      \/ due /\ ~tpm.failed /\ o = TpmDone(done, more)
      \/ due /\ ~tpm.failed /\ \E p : o = RecordTpmFailure(p)
  <2> HIDE DEF due, more, done
  <2> QED BY DEF EventExtendOutcomes, due, more, done
<1>2. done = Append(pcr, digest)
  BY DEF ReplayPcrExtend
<1> HIDE DEF digest, done, more, due
<1> QED BY <1>1, <1>2
        DEF TpmDone, RecordTpmFailure, Fails, Rests, digest, more, due

(* A quote changes neither the counts nor the digest of the final summary. *)
LEMMA QuoteKeeps ==
  ASSUME TypeOK, NEW s \in TpmFinal, NEW p, NEW o \in QuoteOutcomes(s, p)
  PROVE  /\ o.pcr = p
         /\ o.tpm.final \in TpmFinal
         /\ o.tpm.final.extends = s.extends
         /\ o.tpm.final.finalDigest = s.finalDigest
         /\ o.tpm.binding = tpm.binding
         /\ o.tpm.extends = tpm.extends
         /\ o.tpm.failed = tpm.failed
         /\ o.err => setup.failClosed /\ o.fault = {"tpm"}
<1> DEFINE With(final, failed) ==
             [tpm EXCEPT !.final = final, !.quoteFailed = failed]
           quoted == [s EXCEPT !.quote = "genuine"]
<1>1. /\ quoted \in TpmFinal /\ quoted.extends = s.extends
      /\ quoted.finalDigest = s.finalDigest
  BY DEF TpmFinal
<1>2. \A final, failed :
        /\ With(final, failed).final = final
        /\ With(final, failed).binding = tpm.binding
        /\ With(final, failed).extends = tpm.extends
        /\ With(final, failed).failed = tpm.failed
  BY DEF TypeOK, TpmState
<1>3. \/ o = TpmDone(p, With(s, tpm.quoteFailed))
      \/ o = TpmDone(p, With(quoted, tpm.quoteFailed))
      \/ o = [pcr |-> p, tpm |-> With(s, ~setup.failClosed),
              err |-> setup.failClosed, fault |-> {"tpm"}]
  <2> QED BY DEF QuoteOutcomes
<1> HIDE DEF With, quoted
<1> QED BY <1>1, <1>2, <1>3 DEF TpmDone

LEMMA FinalizeBinds ==
  ASSUME TypeOK, NEW digest \in FinalDigest,
         NEW o \in FinalizeOutcomes(digest)
  PROVE  \/ Fails(o) /\ tpm.final = None /\ ~tpm.failed
         \/ o.pcr = pcr /\ o.tpm = tpm /\ (o.err => tpm.final # None)
         \/ /\ tpm.final # None
            /\ o.pcr = pcr
            /\ o.tpm.final \in TpmFinal
            /\ o.tpm.final.extends = tpm.final.extends
            /\ o.tpm.final.finalDigest = tpm.final.finalDigest
            /\ o.tpm.binding = tpm.binding
            /\ o.tpm.extends = tpm.extends
            /\ o.tpm.failed = tpm.failed
         \/ /\ tpm.final = None
            /\ o.pcr = Append(pcr, digest)
            /\ o.tpm.final \in TpmFinal
            /\ o.tpm.final.extends = tpm.extends
            /\ o.tpm.final.finalDigest = digest
            /\ o.tpm.binding = tpm.binding
            /\ o.tpm.extends = tpm.extends
            /\ o.tpm.failed = tpm.failed
<1> DEFINE done  == ReplayPcrExtend(pcr, digest)
           final == [extends    |-> tpm.extends,
                     initial    |-> tpm.binding.initial,
                     afterStart |-> tpm.binding.afterStart,
                     finalPcr   |-> done,
                     startDigest |-> tpm.binding.digest,
                     finalDigest |-> digest,
                     quote      |-> None]
           stale == [pcr |-> pcr, tpm |-> tpm, err |-> TRUE,
                     fault |-> {"digest"}]
<1>1. pcr \in Pcr /\ tpm \in TpmState
  BY DEF TypeOK
<1>2. done \in Pcr /\ done = Append(pcr, digest)
  BY <1>1, ExtendType DEF ReplayPcrExtend
<1>3. tpm.binding # None =>
        /\ final \in TpmFinal
        /\ final.extends = tpm.extends /\ final.finalDigest = digest
  BY <1>1, <1>2 DEF TpmState, TpmBinding, TpmFinal
<1>4. tpm.final # None => tpm.final \in TpmFinal
  BY <1>1 DEF TpmState
<1>5. stale.pcr = pcr /\ stale.tpm = tpm
  OBVIOUS
<1> HIDE DEF done, final, stale
<1>6. \/ o = TpmDone(pcr, tpm)
      \/ tpm.final # None /\ o = stale
      \/ tpm.final # None /\ o \in QuoteOutcomes(tpm.final, pcr)
      \/ tpm.final = None /\ ~tpm.failed /\ \E p : o = RecordTpmFailure(p)
      \/ tpm.final = None /\ tpm.binding # None /\ o \in QuoteOutcomes(final, done)
  BY DEF FinalizeOutcomes, TpmIdle, done, final, stale
<1>7. CASE o = TpmDone(pcr, tpm)
  BY <1>7 DEF TpmDone
<1>8. CASE tpm.final # None /\ o = stale
  BY <1>5, <1>8
<1>9. CASE tpm.final # None /\ o \in QuoteOutcomes(tpm.final, pcr)
  BY <1>4, <1>9, QuoteKeeps
<1>10. CASE /\ tpm.final = None /\ ~tpm.failed
            /\ \E p : o = RecordTpmFailure(p)
  BY <1>10 DEF RecordTpmFailure, Fails
<1>11. CASE /\ tpm.final = None /\ tpm.binding # None
            /\ o \in QuoteOutcomes(final, done)
  <2>1. /\ o.pcr = done
        /\ o.tpm.final \in TpmFinal
        /\ o.tpm.final.extends = final.extends
        /\ o.tpm.final.finalDigest = final.finalDigest
        /\ o.tpm.binding = tpm.binding
        /\ o.tpm.extends = tpm.extends
        /\ o.tpm.failed = tpm.failed
    BY <1>3, <1>11, QuoteKeeps
  <2> QED BY <1>2, <1>3, <1>11, <2>1
<1> QED BY <1>6, <1>7, <1>8, <1>9, <1>10, <1>11

-----------------------------------------------------------------------------
(* BindingInv is inductive, beside TypeOK and SealMatchesPhase.            *)
LEMMA PlainRecordAddsNothing ==
  ASSUME NEW p, NEW log \in Seq(Record), NEW r \in Record, ~IsEvent(r)
  PROVE  /\ ExtendedDigests(Session, Append(log, r)) =
              ExtendedDigests(Session, log)
         /\ DueRecords(p, Append(log, r)) = DueRecords(p, log)
<1>1. ExtendedDigest(Session, r) = <<>> /\ DueRecord(p, r) = <<>>
  BY DEF ExtendedDigest, DueRecord
<1>2. /\ ExtendedDigests(Session, log) \in Seq(EventDigest)
      /\ ExtendedDigests(Session, Append(log, r)) =
           ExtendedDigests(Session, log) \o <<>>
      /\ DueRecords(p, log) \in Seq(Record)
      /\ DueRecords(p, Append(log, r)) = DueRecords(p, log) \o <<>>
  BY <1>1, DigestsOfAppend, DueOfAppend
<1> QED BY <1>2, ConcatEmptySeq

(* The digests the log claims, as a sequence. *)
LEMMA LogDigestsType ==
  ASSUME TypeOK
  PROVE  ExtendedDigests(Session, Log) \in Seq(EventDigest)
<1>1. NewSynthetic("monitor-stop") \in Record
  BY NewSyntheticType DEF TypeOK, LifecycleTypes
<1>2. Log \in Seq(Record)
  BY LogType
<1> HIDE DEF Log
<1> QED BY <1>1, <1>2, DigestsOfAppend

(* What every write of a record does to log, writer and faults. *)
LEMMA WriteGrowsLog ==
  ASSUME TypeOK, NEW r \in Record, NEW w \in WriteOutcomes(r),
         file' = w.file, buffer' = w.buffer
  PROVE  /\ Log' = Append(Log, r)
         /\ Log \in Seq(Record)
         /\ w.ok => buffer' = <<>>
<1>1. file \in Seq(Record) /\ buffer \in Seq(Record)
  BY DEF TypeOK
<1> QED BY <1>1, LogType, WriteOutcomesAppend DEF Log

LEMMA BindingInit == Init => BindingInv
<1> SUFFICES ASSUME Init PROVE BindingInv
  OBVIOUS
<1> DEFINE h1 == SyntheticHash(Session, 1, "monitor-start", Reason("monitor-start"))
           h2 == SyntheticHash(Session, 2, "policy-loaded", Reason("policy-loaded"))
           r1 == SyntheticRecord(Session, 1, "monitor-start", h1, <<h1>>)
           r2 == SyntheticRecord(Session, 2, "policy-loaded", h2, <<h1, h2>>)
<1>1. ~IsEvent(r1) /\ ~IsEvent(r2)
  BY DEF SyntheticRecord, IsEvent
<1>2. file = <<r1, r2>> /\ buffer = <<>> /\ file \in Seq(Record)
  BY StartTypes DEF Init, StartFile
<1> HIDE DEF r1, r2
<1>3. r1 \in Record /\ r2 \in Record
  <2>1. file[1] = r1 /\ file[2] = r2 /\ Len(file) = 2
    BY <1>2
  <2> QED BY <1>2, <2>1, ElementOfSeq
<1>4. Log = Append(Append(<<>>, r1), r2)
  <2>1. Append(<<>>, r1) = <<r1>>
    OBVIOUS
  <2>2. Append(<<r1>>, r2) = <<r1, r2>>
    BY AppendToSingleton
  <2>3. file \o <<>> = file
    BY <1>2, ConcatEmptySeq
  <2> QED BY <1>2, <2>1, <2>2, <2>3 DEF Log
<1>5. <<>> \in Seq(Record) /\ Append(<<>>, r1) \in Seq(Record)
  BY <1>3
<1> DEFINE l1 == Append(<<>>, r1)
<1>6. /\ ExtendedDigests(Session, l1) = ExtendedDigests(Session, <<>>)
      /\ DueRecords(setup, l1) = DueRecords(setup, <<>>)
  BY <1>1, <1>3, <1>5, PlainRecordAddsNothing
<1>7. /\ ExtendedDigests(Session, Append(l1, r2)) = ExtendedDigests(Session, l1)
      /\ DueRecords(setup, Append(l1, r2)) = DueRecords(setup, l1)
  <2> HIDE DEF l1
  <2> QED BY <1>1, <1>3, <1>5, PlainRecordAddsNothing DEF l1
<1>8. /\ ExtendedDigests(Session, <<>>) = <<>>
      /\ DueRecords(setup, <<>>) = <<>>
  <2>1. FlattenSeq(<<>>) = <<>>
    BY EmptySeq DEF FlattenSeq
  <2>2. /\ [i \in DOMAIN <<>> |-> ExtendedDigest(Session, <<>>[i])] = <<>>
        /\ [i \in DOMAIN <<>> |-> DueRecord(setup, <<>>[i])] = <<>>
    OBVIOUS
  <2> QED BY <2>1, <2>2 DEF ExtendedDigests, DueRecords
<1>9. ExtendedDigests(Session, Log) = <<>> /\ DueRecords(setup, Log) = <<>>
  BY <1>4, <1>6, <1>7, <1>8
<1>10. /\ tpm.binding = None /\ tpm.extends = 0 /\ tpm.final = None
       /\ captureState = "open" /\ summaryFile \in {None, EarlierSummary}
       /\ buffer = <<>>
  BY DEF Init
<1>11. summaryFile \notin {None, Torn} => summaryFile.session # Session
  BY <1>10, AbsentAssumption
<1> HIDE DEF Log
<1> QED BY <1>9, <1>10, <1>11
        DEF BindingInv, EarlyIsUnbound, OpenIsUnfinished, HeldRecordsAreFaults,
            FinalCountsExtends, ClaimIsCurrent, DueIsExtended, PcrMatchesLog

(* Steps that touch neither the log nor the TPM. *)
LEMMA IdleBindingStep ==
  ASSUME BindingInv, faults \subseteq faults', phase' \in {phase, "aborted"},
         UNCHANGED <<setup, file, buffer, tpm, pcr, summaryFile, captureState>>
  PROVE  BindingInv'
<1>1. UNCHANGED Log
  BY DEF Log
<1> HIDE DEF Log
<1>2. CleanRetries' => CleanRetries
  BY DEF CleanRetries
<1>3. EarlyIsUnbound'
  BY <1>1 DEF BindingInv, EarlyIsUnbound
<1>4. OpenIsUnfinished' /\ HeldRecordsAreFaults' /\ FinalCountsExtends'
      /\ ClaimIsCurrent'
  BY DEF BindingInv, OpenIsUnfinished, HeldRecordsAreFaults,
         FinalCountsExtends, ClaimIsCurrent
<1>5. DueIsExtended'
  BY <1>1 DEF BindingInv, DueIsExtended
<1>6. PcrMatchesLog'
  BY <1>1, <1>2 DEF BindingInv, PcrMatchesLog
<1> QED BY <1>3, <1>4, <1>5, <1>6 DEF BindingInv

LEMMA TargetBoundStep ==
  ASSUME TypeOK, SealMatchesPhase, BindingInv, WriteWorkloadTargetBound
  PROVE  BindingInv'
<1> DEFINE r == NewSynthetic("workload-target-bound")
<1>1. r \in Record /\ ~IsEvent(r)
  <2>1. r \in Record
    BY NewSyntheticType DEF TypeOK, LifecycleTypes
  <2> QED BY <2>1 DEF NewSynthetic, SyntheticRecord, IsEvent
<1>2. /\ phase = "opened" /\ captureState = "open"
      /\ UNCHANGED <<setup, tpm, pcr, summaryFile, captureState>>
  BY DEF WriteWorkloadTargetBound, SealMatchesPhase, tpmVars
<1>3. PICK w \in WriteOutcomes(r) :
        /\ file' = w.file /\ buffer' = w.buffer
        /\ phase' = IF w.ok THEN "bound" ELSE "aborted"
        /\ faults' = faults \union {} \union (IF w.ok THEN {} ELSE {"record"})
  BY DEF WriteWorkloadTargetBound, WriteRecord
<1> HIDE DEF r
<1>4. /\ Log' = Append(Log, r) /\ Log \in Seq(Record)
      /\ w.ok => buffer' = <<>>
  BY <1>1, <1>3, WriteGrowsLog
<1> HIDE DEF Log
<1>5. /\ ExtendedDigests(Session, Log') = ExtendedDigests(Session, Log)
      /\ DueRecords(setup, Log') = DueRecords(setup, Log)
  BY <1>1, <1>4, PlainRecordAddsNothing
<1>6. /\ tpm.binding = None /\ tpm.extends = 0
      /\ ExtendedDigests(Session, Log) = <<>>
  BY <1>2 DEF BindingInv, EarlyIsUnbound
<1>7. EarlyIsUnbound' /\ PcrMatchesLog'
  BY <1>2, <1>5, <1>6 DEF EarlyIsUnbound, PcrMatchesLog
<1>8. OpenIsUnfinished' /\ FinalCountsExtends' /\ ClaimIsCurrent'
  BY <1>2 DEF BindingInv, OpenIsUnfinished, FinalCountsExtends, ClaimIsCurrent
<1>9. HeldRecordsAreFaults'
  BY <1>3, <1>4 DEF HeldRecordsAreFaults
<1>10. DueIsExtended'
  BY <1>2, <1>5 DEF BindingInv, DueIsExtended
<1> QED BY <1>7, <1>8, <1>9, <1>10 DEF BindingInv

LEMMA SessionStartStep ==
  ASSUME TypeOK, TypeOK', SealMatchesPhase, BindingInv, BindTpmSessionStart
  PROVE  BindingInv'
<1>1. /\ phase = "bound" /\ captureState = "open"
      /\ UNCHANGED <<setup, file, buffer, summaryFile, captureState>>
  BY DEF BindTpmSessionStart, SealMatchesPhase, logVars
<1>2. PICK o \in SessionStartOutcomes :
        /\ pcr' = o.pcr
        /\ tpm' = o.tpm
        /\ phase' = IF o.err THEN "aborted" ELSE "collecting"
        /\ faults' = faults \union o.fault
  BY DEF BindTpmSessionStart
<1>3. UNCHANGED Log
  BY <1>1 DEF Log
<1> HIDE DEF Log
<1>4. /\ tpm.binding = None /\ tpm.extends = 0 /\ tpm.final = None
      /\ ExtendedDigests(Session, Log) = <<>>
  BY <1>1 DEF BindingInv, EarlyIsUnbound, OpenIsUnfinished
<1>5. tpm \in TpmState /\ setup.failClosed \in BOOLEAN
  BY SetupAssumption DEF TypeOK
<1>6. /\ tpm'.extends = tpm.extends /\ tpm'.final = tpm.final
      /\ tpm'.failed \in BOOLEAN
      /\ ~tpm'.failed /\ ~o.err => ~tpm.failed
      /\ \/ tpm'.binding = None
         \/ /\ pcr' = Append(tpm'.binding.initial, tpm'.binding.digest)
  <2>1. CASE Fails(o)
    BY <1>2, <1>4, <1>5, <2>1 DEF Fails, TpmState
  <2>2. CASE Rests(o)
    BY <1>2, <1>4, <1>5, <2>2 DEF Rests, TpmState
  <2>3. ASSUME NEW b, ~o.err, o.tpm = [tpm EXCEPT !.binding = b],
               o.pcr = Append(b.initial, b.digest)
        PROVE  /\ tpm'.extends = tpm.extends /\ tpm'.final = tpm.final
               /\ tpm'.failed = tpm.failed /\ tpm'.binding = b
               /\ pcr' = Append(tpm'.binding.initial, tpm'.binding.digest)
    BY <1>2, <1>5, <2>3 DEF TpmState
  <2>4. tpm.failed \in BOOLEAN
    BY <1>5 DEF TpmState
  <2> QED BY <2>1, <2>2, <2>3, <2>4, SessionStartBinds
<1>7. EarlyIsUnbound' /\ HeldRecordsAreFaults'
  BY <1>1, <1>2 DEF EarlyIsUnbound, BindingInv, HeldRecordsAreFaults
<1>8. OpenIsUnfinished' /\ FinalCountsExtends'
  BY <1>1, <1>4, <1>6 DEF BindingInv, OpenIsUnfinished, FinalCountsExtends
<1>9. ClaimIsCurrent'
  BY <1>1, AbsentAssumption DEF BindingInv, OpenIsUnfinished, ClaimIsCurrent
<1>10. DueIsExtended'
  BY <1>1, <1>2, <1>3, <1>6 DEF BindingInv, DueIsExtended
<1>11. PcrMatchesLog'
  <2> SUFFICES ASSUME tpm'.binding # None
               PROVE  /\ tpm'.extends = Len(<<>>)
                      /\ pcr' = Append(tpm'.binding.initial, tpm'.binding.digest)
                                \o <<>> \o <<>>
    BY <1>3, <1>4, <1>6 DEF PcrMatchesLog
  <2>1. pcr' \in Pcr
    BY DEF TypeOK
  <2>2. pcr' \o <<>> = pcr'
    BY <2>1, ConcatEmptySeq DEF Pcr
  <2> QED BY <1>4, <1>6, <2>2
<1> QED BY <1>7, <1>8, <1>9, <1>10, <1>11 DEF BindingInv

LEMMA DropWriterStep ==
  ASSUME SealMatchesPhase, BindingInv, DropWriter
  PROVE  BindingInv'
<1>1. /\ phase = "aborted" /\ buffer # <<>> /\ buffer' = <<>>
      /\ UNCHANGED <<setup, phase, captureState, tpm, pcr, summaryFile, faults>>
  BY DEF DropWriter, tpmVars
<1>2. captureState = "open" /\ "record" \in faults
  BY <1>1 DEF SealMatchesPhase, BindingInv, HeldRecordsAreFaults
<1> HIDE DEF Log
<1>3. EarlyIsUnbound' /\ DueIsExtended' /\ PcrMatchesLog' /\ HeldRecordsAreFaults'
  BY <1>1, <1>2 DEF EarlyIsUnbound, DueIsExtended, PcrMatchesLog, CleanRetries,
                    HeldRecordsAreFaults
<1>4. OpenIsUnfinished' /\ FinalCountsExtends' /\ ClaimIsCurrent'
  BY <1>1 DEF BindingInv, OpenIsUnfinished, FinalCountsExtends, ClaimIsCurrent
<1> QED BY <1>3, <1>4 DEF BindingInv

LEMMA SampleBindingStep ==
  ASSUME TypeOK, TypeOK', SealMatchesPhase, BindingInv,
         NEW e \in Event, ProcessSample(e)
  PROVE  BindingInv'
<1> DEFINE hash == EventHash(Session, state.next, e)
           next == Advance(state, Verdict[e].class, hash)
           Extended(o) == o.tpm.extends > tpm.extends
           Index(o) == IF Extended(o) THEN o.tpm.extends ELSE 0
           NewRecord(o) == RuntimeRecord(Session, state.next, e, hash,
                             next.head, Extended(o), Index(o))
           due    == ShouldExtend(Verdict[e].class)
           digest == ClassifiedDigest(Session, state.next, hash, Verdict[e])
<1>1. PICK o \in EventExtendOutcomes(state.next, e) :
        /\ pcr' = o.pcr
        /\ tpm' = o.tpm
        /\ IF o.err
           THEN Abort("tpm") /\ UNCHANGED <<file, buffer>>
           ELSE WriteRecord(NewRecord(o), phase, o.fault)
  <2> HIDE DEF hash, next, Extended, Index, NewRecord
  <2> QED BY DEF ProcessSample, hash, next, Extended, Index, NewRecord
<1>2. /\ phase = "collecting" /\ captureState = "open" /\ tpm.final = None
      /\ UNCHANGED <<setup, captureState, summaryFile>>
  BY DEF ProcessSample, SealMatchesPhase, BindingInv, OpenIsUnfinished
<1>3. \/ Fails(o) /\ ~tpm.failed
      \/ Rests(o) /\ (due => tpm.failed)
      \/ /\ due /\ ~tpm.failed /\ ~o.err /\ o.fault = {}
         /\ o.tpm = [tpm EXCEPT !.extends = @ + 1]
         /\ o.pcr = Append(pcr, digest)
  BY EventExtendBinds
<1>4. /\ tpm \in TpmState /\ tpm.extends \in Nat /\ tpm.failed \in BOOLEAN
      /\ setup.failClosed \in BOOLEAN /\ state.next \in Nat
  BY SetupAssumption DEF TypeOK, TpmState, EvidenceState
<1>5. /\ tpm'.binding = tpm.binding /\ tpm'.final = tpm.final
      /\ tpm'.failed \in BOOLEAN
  BY <1>1, <1>3, <1>4 DEF Fails, Rests, TpmState
<1>6. OpenIsUnfinished' /\ FinalCountsExtends' /\ ClaimIsCurrent'
  BY <1>2, <1>5, AbsentAssumption
     DEF OpenIsUnfinished, FinalCountsExtends, BindingInv, ClaimIsCurrent
<1>7. phase' \in {"collecting", "aborted"}
  BY <1>1, <1>2 DEF Abort, WriteRecord
<1>8. EarlyIsUnbound'
  BY <1>7 DEF EarlyIsUnbound
<1>9. CASE o.err
  <2>1. Fails(o) /\ setup.failClosed
    BY <1>3, <1>9 DEF Fails, Rests
  <2>2. /\ UNCHANGED <<file, buffer>> /\ phase' = "aborted"
        /\ "tpm" \in faults' /\ faults \subseteq faults'
    BY <1>1, <1>9 DEF Abort
  <2> HIDE DEF Log
  <2>3. DueIsExtended' /\ PcrMatchesLog' /\ HeldRecordsAreFaults'
    BY <1>2, <2>1, <2>2 DEF DueIsExtended, PcrMatchesLog, CleanRetries,
                            BindingInv, HeldRecordsAreFaults
  <2> QED BY <1>6, <1>8, <2>3 DEF BindingInv
<1>10. CASE ~o.err
  <2> DEFINE r == NewRecord(o)
  <2>1. o \in TpmOutcome
    BY <1>4, EventExtendType
  <2>2. Extended(o) \in BOOLEAN /\ Index(o) \in Nat
    BY <2>1 DEF TpmOutcome, TpmState
  <2>3. r \in Record
    <3> HIDE DEF Extended, Index
    <3> QED BY <2>2, RuntimeRecordType
  <2>4. /\ IsEvent(r) /\ r.seq = state.next /\ r.event = e
        /\ r.verdict = Verdict[e] /\ RecordHash(Session, r) = hash
        /\ r.extended = Extended(o) /\ r.index = Index(o)
    <3> HIDE DEF Extended, Index, next
    <3> QED BY DEF RuntimeRecord, RecordHash, IsEvent
  <2>5. /\ ExtendedDigest(Session, r) =
             IF Extended(o) THEN <<digest>> ELSE <<>>
        /\ DueRecord(setup, r) = IF due THEN <<r>> ELSE <<>>
    <3> HIDE DEF Extended, r, hash, digest
    <3> QED BY <2>4 DEF ExtendedDigest, DueRecord, ShouldExtend, digest
  <2>6. PICK w \in WriteOutcomes(r) :
          /\ file' = w.file /\ buffer' = w.buffer
          /\ faults' = faults \union o.fault
                         \union (IF w.ok THEN {} ELSE {"record"})
    BY <1>1, <1>10 DEF WriteRecord
  <2> HIDE DEF NewRecord, r
  <2>7. /\ Log' = Append(Log, r) /\ Log \in Seq(Record)
        /\ w.ok => buffer' = <<>>
    BY <2>3, <2>6, WriteGrowsLog
  <2> HIDE DEF Log
  <2>8. HeldRecordsAreFaults'
    BY <2>6, <2>7 DEF HeldRecordsAreFaults
  <2> DEFINE ed == ExtendedDigests(Session, Log)
             dr == DueRecords(setup, Log)
  <2>9. /\ ed \in Seq(EventDigest) /\ dr \in Seq(Record)
        /\ ExtendedDigests(Session, Log') = ed \o ExtendedDigest(Session, r)
        /\ DueRecords(setup, Log') = dr \o DueRecord(setup, r)
    BY <2>3, <2>7, DigestsOfAppend, DueOfAppend
  <2>10. digest \in EventDigest
    BY <1>4, HashTypes, VerdictTypes DEF ClassifiedDigest, EventDigest
  <2> HIDE DEF ed, dr, digest, hash, due
  <2>11. /\ ~tpm.failed => /\ tpm.extends = Len(dr)
                           /\ \A k \in DOMAIN dr : dr[k].extended /\ dr[k].index = k
    BY <1>2 DEF BindingInv, DueIsExtended, dr
  <2>12. CleanRetries' => CleanRetries
    BY <1>2, <2>6 DEF CleanRetries
  <2>13. tpm.binding # None /\ ~tpm.failed /\ CleanRetries =>
           /\ tpm.extends = Len(ed)
           /\ pcr = Append(tpm.binding.initial, tpm.binding.digest) \o ed \o <<>>
    BY <1>2 DEF BindingInv, PcrMatchesLog, ed
  <2>14. tpm.binding # None =>
           Append(tpm.binding.initial, tpm.binding.digest) \in Pcr
    BY <1>4 DEF TpmState, TpmBinding, Pcr
  <2> DEFINE start == Append(tpm.binding.initial, tpm.binding.digest)
  <2>15. CASE due /\ ~tpm.failed /\ o.tpm = [tpm EXCEPT !.extends = @ + 1]
              /\ o.pcr = Append(pcr, digest) /\ o.fault = {}
    <3>1. /\ tpm'.extends = tpm.extends + 1 /\ tpm'.failed = tpm.failed
          /\ Extended(o) /\ Index(o) = tpm.extends + 1
      BY <1>1, <1>4, <2>15 DEF TpmState
    <3>2. /\ ExtendedDigests(Session, Log') = ed \o <<digest>>
          /\ DueRecords(setup, Log') = dr \o <<r>>
      BY <2>5, <2>9, <2>15, <3>1
    <3>3. DueIsExtended'
      <4>1. /\ Len(dr \o <<r>>) = Len(dr) + 1
            /\ \A k \in 1 .. Len(dr) : (dr \o <<r>>)[k] = dr[k]
            /\ (dr \o <<r>>)[Len(dr) + 1] = r
            /\ DOMAIN (dr \o <<r>>) = 1 .. Len(dr) + 1
            /\ DOMAIN dr = 1 .. Len(dr) /\ Len(dr) \in Nat
        BY <2>3, <2>9
      <4> DEFINE new == dr \o <<r>>
      <4>2. /\ tpm'.extends = Len(new)
            /\ \A k \in DOMAIN new : new[k].extended /\ new[k].index = k
        <5>1. tpm'.extends = Len(new)
          BY <2>11, <2>15, <3>1, <4>1
        <5>2. ASSUME NEW k \in DOMAIN new
              PROVE  new[k].extended /\ new[k].index = k
          <6>1. CASE k = Len(dr) + 1
            BY <2>4, <2>11, <2>15, <3>1, <4>1, <6>1
          <6>2. CASE k \in 1 .. Len(dr)
            BY <2>11, <2>15, <4>1, <6>2
          <6> QED BY <4>1, <6>1, <6>2
        <5> QED BY <5>1, <5>2
      <4> HIDE DEF new
      <4> QED BY <1>2, <3>2, <4>2 DEF DueIsExtended, new
    <3>4. PcrMatchesLog'
      <4> SUFFICES ASSUME tpm'.binding # None, CleanRetries'
                   PROVE  /\ tpm'.extends = Len(ed \o <<digest>>)
                          /\ pcr' = start \o (ed \o <<digest>>) \o <<>>
        BY <1>2, <1>5, <3>2 DEF PcrMatchesLog
      <4>2. start \in Pcr /\ tpm.extends = Len(ed) /\ pcr = start \o ed \o <<>>
        BY <1>5, <2>12, <2>13, <2>14, <2>15
      <4> DEFINE D == {<<"boot">>} \union StartDigest \union FinalDigest
                        \union EventDigest
      <4>3. start \in Seq(D) /\ ed \in Seq(D) /\ digest \in D
        <5>1. EventDigest \subseteq D
          OBVIOUS
        <5>2. ed \in Seq(D)
          <6> HIDE DEF D
          <6> QED BY <2>9, <5>1
        <5> QED BY <2>10, <4>2, <5>1, <5>2 DEF Pcr
      <4> HIDE DEF D, start
      <4>4. Len(ed \o <<digest>>) = Len(ed) + 1
        BY <4>3
      <4>5. pcr = start \o ed
        BY <4>2, <4>3, ConcatProperties, ConcatEmptySeq
      <4>6. Append(start \o ed, digest) = start \o (ed \o <<digest>>)
        <5>1. start \o ed \in Seq(D) /\ <<digest>> \in Seq(D)
          BY <4>3, ConcatProperties
        <5>2. Append(start \o ed, digest) = (start \o ed) \o <<digest>>
          BY <4>3, <5>1, AppendIsConcat
        <5> QED BY <4>3, <5>1, <5>2, ConcatAssociative
      <4>7. start \o (ed \o <<digest>>) \in Seq(D)
        BY <4>3
      <4>8. (start \o (ed \o <<digest>>)) \o <<>> = start \o (ed \o <<digest>>)
        BY <4>7, ConcatEmptySeq
      <4> QED BY <1>1, <2>15, <3>1, <4>2, <4>4, <4>5, <4>6, <4>8
    <3> QED BY <1>6, <1>8, <2>8, <3>3, <3>4 DEF BindingInv
  <2>16. CASE Rests(o) /\ (due => tpm.failed)
    <3>1. tpm' = tpm /\ pcr' = pcr /\ ~Extended(o)
      BY <1>1, <1>4, <2>16 DEF Rests
    <3>2. ExtendedDigests(Session, Log') = ed
      BY <2>5, <2>9, <3>1, ConcatEmptySeq
    <3>3. ~tpm.failed => DueRecords(setup, Log') = dr
      BY <2>5, <2>9, <2>16, ConcatEmptySeq
    <3>4. DueIsExtended'
      BY <1>2, <2>11, <3>1, <3>3 DEF DueIsExtended
    <3>5. PcrMatchesLog'
      BY <1>2, <2>12, <2>13, <3>1, <3>2 DEF PcrMatchesLog
    <3> QED BY <1>6, <1>8, <2>8, <3>4, <3>5 DEF BindingInv
  <2>17. CASE Fails(o)
    <3>1. tpm'.failed
      BY <1>1, <1>4, <1>10, <2>17 DEF Fails, TpmState
    <3>2. DueIsExtended' /\ PcrMatchesLog'
      BY <3>1 DEF DueIsExtended, PcrMatchesLog
    <3> QED BY <1>6, <1>8, <2>8, <3>2 DEF BindingInv
  <2> QED BY <1>3, <2>15, <2>16, <2>17
<1> QED BY <1>9, <1>10

(* Sealing adds no event to the log. *)
LEMMA SealAddsNoEvent ==
  ASSUME TypeOK, NEW seal \in SealOutcomes,
         file' = seal.log.file, buffer' = seal.log.buffer
  PROVE  /\ ExtendedDigests(Session, Log') = ExtendedDigests(Session, Log)
         /\ \A p : DueRecords(p, Log') = DueRecords(p, Log)
         /\ seal.log.ok /\ captureState = "open" => buffer' = <<>>
         /\ captureState # "open" => UNCHANGED buffer
         /\ captureState # "open" => seal.log.ok = TRUE
<1>1. CASE captureState = "open"
  <2> DEFINE r == NewSynthetic("monitor-stop")
  <2>1. PICK w \in WriteOutcomes(r) :
          seal = [state |-> NextSynthetic("monitor-stop"), log |-> w]
    BY <1>1 DEF SealOutcomes
  <2>2. r \in Record /\ ~IsEvent(r)
    <3>1. r \in Record
      BY NewSyntheticType DEF TypeOK, LifecycleTypes
    <3> QED BY <3>1 DEF NewSynthetic, SyntheticRecord, IsEvent
  <2> HIDE DEF r
  <2>3. file' = w.file /\ buffer' = w.buffer /\ seal.log.ok = w.ok
    BY <2>1
  <2>4. /\ Log' = Append(Log, r) /\ Log \in Seq(Record)
        /\ w.ok => buffer' = <<>>
    BY <2>2, <2>3, WriteGrowsLog
  <2> HIDE DEF Log
  <2> QED BY <1>1, <2>2, <2>3, <2>4, PlainRecordAddsNothing
<1>2. CASE captureState # "open"
  <2>1. file' = file /\ buffer' = buffer /\ seal.log.ok = TRUE
    BY <1>2, SealOutcomesSealed
  <2>2. Log' = Log
    BY <2>1 DEF Log
  <2> HIDE DEF Log
  <2> QED BY <1>2, <2>1, <2>2
<1> QED BY <1>1, <1>2

LEMMA SummaryBindingStep ==
  ASSUME TypeOK, TypeOK', SealMatchesPhase, BindingInv,
         NEW lost \in 0 .. MaxLost, WriteSummary(lost)
  PROVE  BindingInv'
<1> DEFINE digest(seal) == FinalSummaryDigest(Session, seal.state.head,
                             seal.state.counts, lost, setup.policyHash)
<1>1. PICK seal \in SealOutcomes :
        /\ file' = seal.log.file
        /\ buffer' = seal.log.buffer
        /\ \/ /\ ~seal.log.ok
              /\ faults' = faults \union {"record"}
              /\ UNCHANGED <<captureState, tpmVars, summaryFile>>
           \/ /\ seal.log.ok
              /\ captureState' # "open"
              /\ \E o \in FinalizeOutcomes(digest(seal)) :
                   /\ pcr' = o.pcr
                   /\ tpm' = o.tpm
                   /\ faults \union o.fault \subseteq faults'
                   /\ \/ UNCHANGED summaryFile
                      \/ /\ ~o.err
                         /\ \E w \in SummaryOutcomes(
                                  RuntimeSummary(seal.state, lost, o.tpm)) :
                              summaryFile' = w.file
  BY DEF WriteSummary
<1>2. /\ phase \in {"collecting", "retrying"} /\ UNCHANGED setup
      /\ phase' \notin {"opened", "bound"}
  BY DEF WriteSummary
<1>3. /\ ExtendedDigests(Session, Log') = ExtendedDigests(Session, Log)
      /\ DueRecords(setup, Log') = DueRecords(setup, Log)
      /\ seal.log.ok /\ captureState = "open" => buffer' = <<>>
      /\ captureState # "open" => buffer' = buffer
      /\ captureState # "open" => seal.log.ok = TRUE
  BY <1>1, SealAddsNoEvent
<1> HIDE DEF Log
<1>4. faults \subseteq faults'
  BY <1>1
<1>5. HeldRecordsAreFaults'
  BY <1>1, <1>3, <1>4 DEF HeldRecordsAreFaults, BindingInv
<1>6. EarlyIsUnbound'
  BY <1>2 DEF EarlyIsUnbound
<1>7. CASE ~seal.log.ok
  <2>1. captureState = "open" /\ "record" \in faults'
        /\ UNCHANGED <<captureState, tpm, pcr, summaryFile>>
    BY <1>1, <1>3, <1>7 DEF tpmVars
  <2>2. OpenIsUnfinished' /\ FinalCountsExtends' /\ ClaimIsCurrent'
    BY <2>1 DEF BindingInv, OpenIsUnfinished, FinalCountsExtends, ClaimIsCurrent
  <2>3. DueIsExtended' /\ PcrMatchesLog'
    BY <1>2, <1>3, <2>1
       DEF BindingInv, DueIsExtended, PcrMatchesLog, CleanRetries
  <2> QED BY <1>5, <1>6, <2>2, <2>3 DEF BindingInv
<1>8. CASE seal.log.ok
  <2> HIDE DEF digest
  <2>1. PICK o \in FinalizeOutcomes(digest(seal)) :
          /\ pcr' = o.pcr
          /\ tpm' = o.tpm
          /\ faults \union o.fault \subseteq faults'
          /\ \/ UNCHANGED summaryFile
             \/ /\ ~o.err
                /\ \E w \in SummaryOutcomes(
                         RuntimeSummary(seal.state, lost, o.tpm)) :
                     summaryFile' = w.file
    BY <1>1, <1>8
  <2>2. captureState' # "open"
    BY <1>1, <1>8
  <2>3. digest(seal) \in FinalDigest
    <3>1. seal.state \in EvidenceState /\ lost \in Nat /\ setup \in Setups
      BY BoundsAssumption, SealOutcomesType DEF TypeOK
    <3> QED BY <3>1 DEF FinalSummaryDigest, FinalDigest, EvidenceState, digest
  <2> DEFINE Kept == /\ tpm'.binding = tpm.binding
                     /\ tpm'.extends = tpm.extends
                     /\ tpm'.failed = tpm.failed
  <2>4. /\ tpm \in TpmState /\ tpm.failed \in BOOLEAN
        /\ setup.failClosed \in BOOLEAN /\ tpm' \in TpmState
    BY SetupAssumption DEF TypeOK, TpmState
  <2>5. \/ Fails(o) /\ tpm.final = None /\ ~tpm.failed
        \/ Kept /\ pcr' = pcr /\ tpm'.final = tpm.final
        \/ Kept /\ tpm.final # None /\ pcr' = pcr /\ tpm'.final # None
           /\ tpm'.final.extends = tpm.final.extends
           /\ tpm'.final.finalDigest = tpm.final.finalDigest
        \/ Kept /\ tpm.final = None /\ pcr' = Append(pcr, digest(seal))
           /\ tpm'.final # None
           /\ tpm'.final.extends = tpm.extends
           /\ tpm'.final.finalDigest = digest(seal)
    BY <2>1, <2>3, FinalizeBinds, AbsentAssumption
  <2>6. CleanRetries' => CleanRetries
    BY <1>2, <1>4 DEF CleanRetries
  <2>7. Fails(o) => /\ tpm'.binding = tpm.binding /\ tpm'.final = tpm.final
                    /\ tpm'.extends = tpm.extends
                    /\ tpm'.failed = ~setup.failClosed
                    /\ o.err = setup.failClosed /\ "tpm" \in faults'
    BY <2>1, <2>4 DEF Fails, TpmState
  <2>8. OpenIsUnfinished'
    BY <2>2 DEF OpenIsUnfinished
  <2>9. FinalCountsExtends'
    BY <2>5, <2>7 DEF BindingInv, FinalCountsExtends
  <2>10. ClaimIsCurrent'
    <3> DEFINE s == RuntimeSummary(seal.state, lost, o.tpm)
    <3>1. summaryFile' \in {summaryFile, Torn} \/ (~o.err /\ summaryFile' = s)
      <4> HIDE DEF s
      <4>1. ASSUME NEW w \in SummaryOutcomes(s), summaryFile' = w.file
            PROVE  summaryFile' \in {summaryFile, Torn, s}
        BY <4>1 DEF SummaryOutcomes
      <4> QED BY <2>1, <4>1 DEF s
    <3>2. CASE summaryFile' = summaryFile
      <4> SUFFICES ASSUME summaryFile \notin {None, Torn},
                          summaryFile.session = Session,
                          summaryFile.tpm # None
                   PROVE  /\ ~tpm'.failed /\ tpm'.final # None
                          /\ summaryFile.tpm.extends = tpm'.extends
        BY <3>2 DEF ClaimIsCurrent
      <4>1. /\ ~tpm.failed /\ tpm.final # None
            /\ summaryFile.tpm.extends = tpm.extends
        BY DEF BindingInv, ClaimIsCurrent
      <4> QED BY <2>5, <4>1
    <3>3. CASE summaryFile' = Torn
      BY <3>3 DEF ClaimIsCurrent
    <3>4. CASE ~o.err /\ summaryFile' = s
      <4>1. s.tpm = IF setup.tpm /\ ~tpm'.failed THEN tpm'.final ELSE None
        BY <2>1 DEF RuntimeSummary
      <4> HIDE DEF s
      <4> QED BY <2>4, <2>9, <3>4, <4>1 DEF ClaimIsCurrent, FinalCountsExtends
    <3> QED BY <3>1, <3>2, <3>3, <3>4
  <2>11. DueIsExtended'
    <3> SUFFICES ASSUME ~tpm'.failed
                 PROVE  LET due == DueRecords(setup, Log)
                        IN  /\ tpm'.extends = Len(due)
                            /\ \A k \in DOMAIN due :
                                 due[k].extended /\ due[k].index = k
      BY <1>2, <1>3 DEF DueIsExtended
    <3>1. CASE ~tpm.failed
      <4>1. tpm'.extends = tpm.extends
        BY <2>5, <2>7
      <4> QED BY <1>2, <3>1, <4>1 DEF BindingInv, DueIsExtended
    <3>2. CASE tpm.failed
      <4> QED BY <2>5, <2>7, <3>2
    <3> QED BY <3>1, <3>2
  <2>12. PcrMatchesLog'
    <3> DEFINE ed    == ExtendedDigests(Session, Log)
               start == Append(tpm.binding.initial, tpm.binding.digest)
               FinalPart(f) == IF f = None THEN <<>> ELSE <<f.finalDigest>>
    <3> SUFFICES ASSUME tpm'.binding # None, ~tpm'.failed, CleanRetries'
                 PROVE  /\ tpm'.extends = Len(ed)
                        /\ pcr' = Append(tpm'.binding.initial,
                                        tpm'.binding.digest)
                                  \o ed \o FinalPart(tpm'.final)
      BY <1>3 DEF PcrMatchesLog
    <3>1. ~Fails(o)
      BY <1>2, <2>7 DEF CleanRetries
    <3>2. /\ tpm'.binding = tpm.binding /\ tpm'.extends = tpm.extends
          /\ ~tpm.failed /\ tpm.binding # None
      BY <2>5, <3>1
    <3>3. /\ tpm.extends = Len(ed)
          /\ pcr = start \o ed \o FinalPart(tpm.final)
      BY <2>6, <3>2 DEF BindingInv, PcrMatchesLog
    <3> HIDE DEF ed, start, FinalPart
    <3>4. CASE tpm.final = None /\ pcr' = Append(pcr, digest(seal))
               /\ tpm'.final # None /\ tpm'.final.finalDigest = digest(seal)
      <4> DEFINE D == {<<"boot">>} \union StartDigest \union FinalDigest
                        \union EventDigest
      <4>1. ed \in Seq(EventDigest)
        BY LogDigestsType DEF ed
      <4>2. start \in Pcr
        BY <2>4, <3>2 DEF start, TpmState, TpmBinding, Pcr
      <4>3. start \in Seq(D) /\ ed \in Seq(D) /\ digest(seal) \in D
        <5>1. EventDigest \subseteq D /\ FinalDigest \subseteq D /\ Pcr = Seq(D)
          BY DEF Pcr
        <5> HIDE DEF D
        <5> QED BY <2>3, <4>1, <4>2, <5>1
      <4> HIDE DEF D
      <4>4. FinalPart(tpm.final) = <<>> /\ FinalPart(tpm'.final) = <<digest(seal)>>
        BY <3>4 DEF FinalPart
      <4>5. start \o ed \in Seq(D)
        BY <4>3
      <4>6. pcr = start \o ed
        BY <3>3, <4>4, <4>5, ConcatEmptySeq
      <4>7. Append(start \o ed, digest(seal)) = (start \o ed) \o <<digest(seal)>>
        BY <4>3, <4>5
      <4> QED BY <3>2, <3>3, <3>4, <4>4, <4>6, <4>7 DEF start
    <3>5. CASE /\ pcr' = pcr
               /\ \/ tpm'.final = tpm.final
                  \/ /\ tpm.final # None /\ tpm'.final # None
                     /\ tpm'.final.finalDigest = tpm.final.finalDigest
      <4>1. FinalPart(tpm'.final) = FinalPart(tpm.final)
        BY <3>5 DEF FinalPart
      <4> QED BY <3>2, <3>3, <3>5, <4>1 DEF start
    <3> QED BY <2>5, <3>1, <3>4, <3>5
  <2> QED BY <1>5, <1>6, <2>8, <2>9, <2>10, <2>11, <2>12 DEF BindingInv
<1> QED BY <1>7, <1>8

LEMMA BindingStep ==
  ASSUME TypeOK, SealMatchesPhase, BindingInv, [Next]_vars
  PROVE  BindingInv'
<1>1. TypeOK'
  BY TypeStep
<1>2. CASE WriteWorkloadTargetBound
  BY <1>2, TargetBoundStep
<1>3. CASE BindTpmSessionStart
  BY <1>1, <1>3, SessionStartStep
<1>4. CASE \/ ProcessMalformedSample \/ ProcessUnknownIndex \/ Kill
           \/ UNCHANGED vars
  <2>1. /\ faults \subseteq faults' /\ phase' \in {phase, "aborted"}
        /\ UNCHANGED <<setup, file, buffer, tpm, pcr, summaryFile, captureState>>
    BY <1>4 DEF ProcessMalformedSample, ProcessUnknownIndex, Kill, Abort, vars,
                logVars, tpmVars
  <2> QED BY <2>1, IdleBindingStep
<1>5. ASSUME NEW e \in Event, ProcessSample(e)
      PROVE  BindingInv'
  BY <1>1, <1>5, SampleBindingStep
<1>6. ASSUME NEW lost \in 0 .. MaxLost, WriteSummary(lost)
      PROVE  BindingInv'
  BY <1>1, <1>6, SummaryBindingStep
<1>7. CASE DropWriter
  BY <1>7, DropWriterStep
<1> QED BY <1>2, <1>3, <1>4, <1>5, <1>6, <1>7 DEF Next

LEMMA BindingHolds == Spec => [](TypeOK /\ SealMatchesPhase /\ BindingInv)
<1>1. Init => TypeOK /\ SealMatchesPhase /\ BindingInv
  BY TypeInit, SealInit, BindingInit
<1>2. TypeOK /\ SealMatchesPhase /\ BindingInv /\ [Next]_vars =>
        TypeOK' /\ SealMatchesPhase' /\ BindingInv'
  BY TypeStep, SealStep, BindingStep
<1> QED BY <1>1, <1>2, PTL DEF Spec

(* A session still bound to the TPM has in the runtime PCR the start, the  *)
(* extended events of its log in order and at most one final digest, over  *)
(* every fail-open error and every repeated write_summary: the extend of   *)
(* an event precedes its record, and the final digest is cached.           *)
THEOREM RuntimePcrMatchesLog == Spec => []PcrMatchesLog
<1>1. BindingInv => PcrMatchesLog
  BY DEF BindingInv
<1> QED BY <1>1, BindingHolds, PTL

(* A summary that claims the TPM comes from a session whose every due      *)
(* event was extended, with its index and in log order: a fail-open in the *)
(* middle of a session never leaves a summary with a TPM section.          *)
THEOREM TpmClaimsCoverTheLog == Spec => []TpmClaimCoversLog
<1>1. SealMatchesPhase /\ BindingInv => TpmClaimCoversLog
  <2> SUFFICES ASSUME BindingInv, summaryFile \notin {None, Torn},
                      summaryFile.session = Session, summaryFile.tpm # None
               PROVE  LET due == DueRecords(setup, Log)
                      IN  /\ ~tpm.failed
                          /\ summaryFile.tpm.extends = Len(due)
                          /\ \A k \in DOMAIN due :
                               due[k].extended /\ due[k].index = k
    BY DEF TpmClaimCoversLog
  <2>1. ~tpm.failed /\ summaryFile.tpm.extends = tpm.extends
    BY DEF BindingInv, ClaimIsCurrent
  <2>2. captureState # "open"
    BY AbsentAssumption DEF BindingInv, OpenIsUnfinished
  <2> QED BY <2>1, <2>2 DEF BindingInv, DueIsExtended
<1> QED BY <1>1, BindingHolds, PTL
=============================================================================
