--------------------------- MODULE PipelineProofs ---------------------------
(***************************************************************************)
(* Proofs about Pipeline, for any tasks, ring, policies and setups: the    *)
(* process drives its capture as EvidenceCapture says, and evidence that   *)
(* the verifier accepts is complete.                                       *)
(***************************************************************************)
EXTENDS Pipeline, CollectorProofs

-----------------------------------------------------------------------------
(* The events in the evidence, and those the ring will hand out next.      *)
Evid ==
  {[task |-> evidence[i].task, type |-> evidence[i].type] :
     i \in DOMAIN evidence}

FreeSlots == {k \in DOMAIN ring : \A j \in 1 .. k : ring[j].submitted}

ReadyEvents ==
  {[task |-> ring[i].task, type |-> ring[i].type] : i \in FreeSlots}

LEMMA StoppingParts == Stopping = dropped \union Evid \union ReadyEvents
BY DEF Stopping, Evid, ReadyEvents, FreeSlots

(* The accounting of Collector does not look at main, so it survives the   *)
(* one step of the process that is no step of Collector.                   *)
LEMMA PipelineStepIsCollectors ==
  ASSUME [PipelineNext]_pipelineVars
  PROVE  [Next]_vars \/ KillProcess
<1>1. CASE Main
  BY <1>1 DEF Main, Prepare, AttachProbes, TakeSample, Wait, ReadCounters,
     Summarize, collectorVars, Next, Monitor
<1>2. CASE Signal \/ LeaveMain \/ UNCHANGED pipelineVars
  BY <1>2 DEF Signal, LeaveMain, pipelineVars, collectorVars, Next
<1>3. ASSUME NEW t \in Task, TaskStep(t) \/ ProbeStep(t) PROVE [Next]_vars
  BY <1>3 DEF TaskStep, ProbeStep, Next
<1> QED BY <1>1, <1>2, <1>3 DEF PipelineNext

LEMMA AccountOfPipeline ==
  ASSUME AccountInv, [PipelineNext]_pipelineVars
  PROVE  AccountInv'
<1>1. CASE [Next]_vars
  BY <1>1, AccountNext
<1>2. CASE KillProcess
  <2>1. /\ monitor' = "killed"
        /\ UNCHANGED <<at, attached, ring, seq, lost, losing, dropped, handler,
                       sigint, evidence, reported>>
    BY <1>2 DEF KillProcess, taskVars, lossVars
  <2>2. TypeInv'
    BY <2>1 DEF AccountInv, TypeInv, TypeOK, SubmittedIsNumbered
  <2>3. History' /\ OnlyTraced' /\ LossesApart' /\ IsFiniteSet(dropped')
    BY <2>1 DEF AccountInv, History, OnlyTraced, LossesApart
  <2>4. EveryEventAccounted'
    BY <2>1 DEF AccountInv, EveryEventAccounted, Recorded, InRing, Losing,
       Dropped
  <2>5. AttemptFirst'
    BY <2>1 DEF AccountInv, AttemptFirst, EvidenceOrdered, RingOrdered, Recorded,
       Dropped
  <2> QED BY <2>2, <2>3, <2>4, <2>5 DEF AccountInv
<1> QED BY <1>1, <1>2, PipelineStepIsCollectors

LEMMA AccountInPipeline == PipelineSpec => []AccountInv
<1>1. PipelineInit => AccountInv
  BY AccountInit DEF PipelineInit
<1> QED BY <1>1, AccountOfPipeline, PTL DEF PipelineSpec

(* What tasks, probes and the reader do to the events: none is taken back, *)
(* and what the ring will hand out stays next or becomes evidence.         *)
LEMMA StoppingGrows ==
  ASSUME TypeInv, [Next]_vars
  PROVE  /\ Evid \subseteq Evid' /\ dropped \subseteq dropped'
         /\ Stopping \subseteq Stopping'
<1>0. Effect
  BY NextEffect DEF TypeInv
<1>1. /\ DOMAIN ring = 1 .. Len(ring) /\ Len(ring) \in Nat
      /\ DOMAIN ring' = 1 .. Len(ring') /\ Len(ring') \in Nat
      /\ DOMAIN evidence = 1 .. Len(evidence) /\ Len(evidence) \in Nat
      /\ DOMAIN evidence' = 1 .. Len(evidence') /\ Len(evidence') \in Nat
  BY <1>0, Positions
<1>2. ASSUME NEW t \in Task, NEW type \in EventTypes, Stores(t, type)
      PROVE  UNCHANGED <<evidence, dropped>> /\ ReadyEvents \subseteq ReadyEvents'
  <2>1. /\ Len(ring') = Len(ring) + 1
        /\ \A i \in 1 .. Len(ring) : ring'[i] = ring[i]
    BY <1>2, StoredRing DEF TypeInv
  <2>2. \A k \in FreeSlots : k \in FreeSlots' /\ ring'[k] = ring[k]
    BY <1>1, <2>1 DEF FreeSlots
  <2> QED BY <1>2, <2>2 DEF ReadyEvents, Stores
<1>3. ASSUME \/ \E t \in Task, type \in EventTypes : Loses(t, type)
             \/ \E e \in losing : Counts(e)
      PROVE  UNCHANGED <<ring, evidence>> /\ dropped \subseteq dropped'
  BY <1>3 DEF Loses, Counts
<1>4. ASSUME NEW i \in DOMAIN ring, Numbers(i) \/ Submits(i)
      PROVE  UNCHANGED <<evidence, dropped>> /\ ReadyEvents \subseteq ReadyEvents'
  <2>1. /\ Len(ring') = Len(ring)
        /\ \A k \in 1 .. Len(ring) :
             /\ k # i => ring'[k] = ring[k]
             /\ ring'[k].task = ring[k].task /\ ring'[k].type = ring[k].type
        /\ Numbers(i) => ~ring[i].submitted
        /\ Submits(i) => ring'[i].submitted
    BY <1>4, TouchedRing DEF TypeInv, Numbers
  <2>2. \A k \in 1 .. Len(ring) : ring[k].submitted => ring'[k].submitted
    BY <1>4, <2>1
  <2>3. \A k \in FreeSlots : k \in FreeSlots'
    BY <1>1, <2>1, <2>2 DEF FreeSlots
  <2>4. \A k \in FreeSlots : /\ ring'[k].task = ring[k].task
                             /\ ring'[k].type = ring[k].type
    BY <1>1, <2>1 DEF FreeSlots
  <2> QED BY <1>4, <2>3, <2>4 DEF ReadyEvents, Numbers, Submits
<1>5. ASSUME Reads
      PROVE  /\ Evid \subseteq Evid' /\ dropped' = dropped
             /\ ReadyEvents \subseteq Evid' \union ReadyEvents'
  <2>1. /\ 1 \in 1 .. Len(ring) /\ Len(ring') = Len(ring) - 1
        /\ \A k \in 1 .. Len(ring') : ring'[k] = ring[k + 1]
        /\ Len(evidence') = Len(evidence) + 1
        /\ \A k \in 1 .. Len(evidence) : evidence'[k] = evidence[k]
        /\ evidence'[Len(evidence) + 1].task = ring[1].task
        /\ evidence'[Len(evidence) + 1].type = ring[1].type
    BY <1>5, ReadRing
  <2>2. Evid \subseteq Evid'
    <3>1. \A k \in DOMAIN evidence :
            k \in DOMAIN evidence' /\ evidence'[k] = evidence[k]
      BY <1>1, <2>1
    <3> QED BY <3>1 DEF Evid
  <2>3. [task |-> ring[1].task, type |-> ring[1].type] \in Evid'
    <3>1. Len(evidence) + 1 \in DOMAIN evidence'
      BY <1>1, <2>1
    <3> QED BY <2>1, <3>1 DEF Evid
  <2>4. ASSUME NEW k \in FreeSlots, k # 1
        PROVE  k - 1 \in FreeSlots' /\ ring'[k - 1] = ring[k]
    <3>1. /\ k \in 2 .. Len(ring) /\ \A j \in 1 .. k : ring[j].submitted
      BY <1>1, <2>4 DEF FreeSlots
    <3>2. ASSUME NEW j \in 1 .. k - 1 PROVE ring'[j].submitted
      <4>1. j \in 1 .. Len(ring') /\ j + 1 \in 1 .. k
        BY <1>1, <2>1, <3>1
      <4> QED BY <2>1, <3>1, <4>1
    <3>3. k - 1 \in 1 .. Len(ring') /\ (k - 1) + 1 = k
      BY <1>1, <2>1, <3>1
    <3> QED BY <1>1, <2>1, <3>2, <3>3 DEF FreeSlots
  <2>5. ASSUME NEW k \in FreeSlots
        PROVE  [task |-> ring[k].task, type |-> ring[k].type]
                 \in Evid' \union ReadyEvents'
    <3>1. CASE k = 1
      BY <2>3, <3>1
    <3>2. CASE k # 1
      BY <2>4, <3>2 DEF ReadyEvents
    <3> QED BY <3>1, <3>2
  <2>6. ReadyEvents \subseteq Evid' \union ReadyEvents'
    BY <2>5 DEF ReadyEvents
  <2> QED BY <1>5, <2>2, <2>6 DEF Reads
<1>6. /\ UNCHANGED evidence => Evid' = Evid
      /\ UNCHANGED ring => ReadyEvents' = ReadyEvents
  BY DEF Evid, ReadyEvents, FreeSlots
<1>7. /\ Evid \subseteq Evid' /\ dropped \subseteq dropped'
      /\ ReadyEvents \subseteq Evid' \union ReadyEvents'
  BY <1>0, <1>2, <1>3, <1>4, <1>5, <1>6 DEF Effect, Passes, Rests
<1>8. Stopping' = dropped' \union Evid' \union ReadyEvents'
  BY DEF Stopping, Evid, ReadyEvents, FreeSlots
<1> QED BY <1>7, <1>8, StoppingParts

-----------------------------------------------------------------------------
(* What the stop must not miss, as main goes on: still on its way, then    *)
(* read or dropped, and in the end read if the counter was 0.              *)
DueInv ==
  /\ monitor = "draining" => due \subseteq Stopping
  /\ monitor = "reading-state" => due \subseteq dropped \union Evid
  /\ monitor = "finished" =>
       /\ lostRead \in Nat /\ reported \in {lostRead, 0}
       /\ lostRead = 0 => due \subseteq Evid

LEMMA NothingReady ==
  ASSUME TypeInv, ~SampleReady
  PROVE  ReadyEvents = {}
<1>1. DOMAIN ring = 1 .. Len(ring) /\ Len(ring) \in Nat
  BY SlotType, LenProperties DEF TypeInv
<1>2. ASSUME NEW k \in FreeSlots PROVE FALSE
  <2>1. k \in 1 .. Len(ring) /\ \A j \in 1 .. k : ring[j].submitted
    BY <1>1, <1>2 DEF FreeSlots
  <2>2. ring # <<>> /\ ring[1].submitted
    BY <1>1, <2>1, EmptySeq
  <2> QED BY <2>2 DEF SampleReady
<1> QED BY <1>2 DEF ReadyEvents

LEMMA SameEvents ==
  ASSUME UNCHANGED <<ring, evidence, dropped>>
  PROVE  Evid' = Evid /\ Stopping' = Stopping
BY DEF Evid, Stopping

LEMMA DueStep ==
  ASSUME AccountInv, DueInv, [PipelineNext]_pipelineVars
  PROVE  DueInv'
<1>0. TypeInv /\ lost \in Nat /\ lost = Cardinality(dropped) /\ IsFiniteSet(dropped)
  BY DEF AccountInv, TypeInv, TypeOK, EveryEventAccounted
<1>1. CASE Prepare \/ Summarize \/ LeaveMain \/ UNCHANGED pipelineVars
  <2>1. UNCHANGED <<ring, evidence, dropped, monitor, reported, due, lostRead>>
    BY <1>1 DEF Prepare, Summarize, LeaveMain, pipelineVars, collectorVars, vars
  <2> QED BY <2>1, SameEvents DEF DueInv
<1>2. CASE AttachProbes
  <2>1. monitor' \in {"attach-attempt", "listening"}
    BY <1>2 DEF AttachProbes, AttachExec, AttachAttempt
  <2> QED BY <2>1 DEF DueInv
<1>3. CASE TakeSample
  <2>1. ReadSample /\ UNCHANGED <<due, lostRead>>
    BY <1>3 DEF TakeSample
  <2>2. monitor' = monitor /\ monitor \in {"listening", "draining"}
    BY <2>1 DEF ReadSample
  <2>3. Stopping \subseteq Stopping'
    BY <1>0, <2>1, StoppingGrows DEF Next, Monitor
  <2> QED BY <2>1, <2>2, <2>3 DEF DueInv
<1>4. CASE Wait
  <2>1. /\ UNCHANGED <<ring, evidence, dropped>>
        /\ due' = IF monitor' = "draining" THEN Stopping ELSE due
    BY <1>4 DEF Wait, Select, WakeByTimer, WakeByCtrlC, EndDrain,
       taskVars, lossVars
  <2>2. \/ monitor' \in {"draining", "sleeping", "listening"}
        \/ monitor' = "reading-state" /\ monitor = "draining" /\ ~SampleReady
    BY <1>4 DEF Wait, Select, WakeByTimer, WakeByCtrlC, EndDrain
  <2>3. CASE monitor' \in {"draining", "sleeping", "listening"}
    BY <2>1, <2>3, SameEvents DEF DueInv
  <2>4. CASE monitor' = "reading-state" /\ monitor = "draining" /\ ~SampleReady
    <3>1. due' = due /\ due \subseteq dropped \union Evid
      BY <1>0, <2>1, <2>4, NothingReady, StoppingParts DEF DueInv
    <3> QED BY <2>1, <2>4, <3>1, SameEvents DEF DueInv
  <2> QED BY <2>2, <2>3, <2>4
<1>5. CASE ReadCounters
  <2>1. /\ monitor = "reading-state" /\ monitor' = "finished"
        /\ lostRead' = lost /\ reported' \in {lost, 0}
        /\ UNCHANGED <<ring, evidence, dropped, due>>
    BY <1>5 DEF ReadCounters, ReadMonitorState, taskVars, lossVars
  <2>2. lost = 0 => dropped = {}
    BY <1>0, FS_EmptySet
  <2>3. due \subseteq dropped \union Evid
    BY <2>1 DEF DueInv
  <2> QED BY <1>0, <2>1, <2>2, <2>3, SameEvents DEF DueInv
<1>6. CASE Signal
  <2>1. /\ monitor' \in {monitor, "killed"}
        /\ UNCHANGED <<ring, evidence, dropped, reported, due, lostRead>>
    BY <1>6 DEF Signal, Interrupt, taskVars, lossVars
  <2> QED BY <2>1, SameEvents DEF DueInv
<1>7. CASE KillProcess
  BY <1>7 DEF KillProcess, DueInv
<1>8. ASSUME NEW t \in Task, TaskStep(t) \/ ProbeStep(t) PROVE DueInv'
  <2>1. UNCHANGED <<evidence, monitor, reported, due, lostRead>>
    BY <1>8 DEF TaskStep, ProbeStep, EnterExecve, EnterExecveat, ProcessExec,
       FailExec, Probe, NumberEvent, Submit, CountLost, monitorVars
  <2>2. dropped \subseteq dropped' /\ Stopping \subseteq Stopping'
    BY <1>0, <1>8, StoppingGrows DEF TaskStep, ProbeStep, Next
  <2>3. Evid' = Evid
    BY <2>1 DEF Evid
  <2> QED BY <2>1, <2>2, <2>3 DEF DueInv
<1> QED BY <1>1, <1>2, <1>3, <1>4, <1>5, <1>6, <1>7, <1>8
        DEF PipelineNext, Main

-----------------------------------------------------------------------------
(* The evidence file, whatever its records are: it only grows.             *)
Sequence(s) == s \in Seq(Range(s))

Continues(old, new) ==
  /\ Sequence(new)
  /\ \A i \in DOMAIN old : i \in DOMAIN new /\ new[i] = old[i]

LEMMA JoinContinues ==
  ASSUME NEW s, NEW t, Sequence(s), Sequence(t)
  PROVE  Continues(s, s \o t) /\ Range(t) \subseteq Range(s \o t)
<1> DEFINE S == Range(s) \union Range(t)
<1>1. s \in Seq(S) /\ t \in Seq(S)
  BY SeqMonotonic DEF Sequence
<1> HIDE DEF S
<1>2. /\ DOMAIN s = 1 .. Len(s) /\ Len(s) \in Nat
      /\ DOMAIN t = 1 .. Len(t) /\ Len(t) \in Nat
  BY <1>1, LenProperties
<1>3. /\ s \o t \in Seq(S) /\ Len(s \o t) = Len(s) + Len(t)
      /\ \A i \in 1 .. Len(s) + Len(t) :
           (s \o t)[i] = IF i <= Len(s) THEN s[i] ELSE t[i - Len(s)]
  BY <1>1, ConcatProperties
<1>4. DOMAIN (s \o t) = 1 .. Len(s) + Len(t)
  BY <1>3, LenProperties
<1>5. Sequence(s \o t)
  BY <1>3, SeqOfRange DEF Sequence
<1>6. \A i \in DOMAIN s : i \in DOMAIN (s \o t) /\ (s \o t)[i] = s[i]
  BY <1>2, <1>3, <1>4
<1>7. Range(t) \subseteq Range(s \o t)
  BY <1>1, <1>3, RangeConcatenation
<1> QED BY <1>5, <1>6, <1>7 DEF Continues

LEMMA Parts ==
  ASSUME NEW s, Sequence(s), NEW m \in 1 .. Len(s) + 1, NEW n \in 0 .. Len(s)
  PROVE  Sequence(SubSeq(s, m, n))
<1>1. \A i \in m .. n : s[i] \in Range(s)
  BY LenProperties, ElementOfSeq DEF Sequence
<1>2. Len(s) \in Nat
  BY LenProperties DEF Sequence
<1>3. SubSeq(s, m, n) \in Seq(Range(s))
  BY <1>1, <1>2, SubSeqProperties
<1> QED BY <1>3, SeqOfRange DEF Sequence

(* write_record: when it succeeds, the record is in the file and nothing   *)
(* is left in the writer.                                                  *)
LEMMA Written ==
  ASSUME Sequence(file), Sequence(buffer), NEW r,
         NEW w \in Capture!WriteOutcomes(r)
  PROVE  /\ Continues(file, w.file) /\ Sequence(w.buffer)
         /\ w.ok => w.buffer = <<>> /\ r \in Range(w.file)
<1> DEFINE pending == Append(buffer, r)
           S == Range(buffer) \union {r}
<1>1. buffer \in Seq(S) /\ r \in S
  BY SeqMonotonic DEF Sequence
<1> HIDE DEF S
<1>2. /\ pending \in Seq(S) /\ Len(pending) = Len(buffer) + 1
      /\ pending[Len(buffer) + 1] = r
      /\ Len(buffer) \in Nat /\ DOMAIN pending = 1 .. Len(buffer) + 1
  BY <1>1, AppendProperties, LenProperties
<1>3. \/ w = [file |-> file \o pending, buffer |-> <<>>, ok |-> TRUE]
      \/ \E k \in 0 .. Len(buffer) :
           w = [file   |-> file \o SubSeq(pending, 1, k),
                buffer |-> SubSeq(pending, k + 1, Len(pending)),
                ok     |-> FALSE]
  BY DEF Capture!WriteOutcomes
<1> HIDE DEF pending
<1>4. Sequence(pending) /\ r \in Range(pending)
  <2>1. Len(buffer) + 1 \in DOMAIN pending
    BY <1>2
  <2>2. r \in Range(pending)
    BY <1>2, <2>1 DEF Range
  <2>3. Sequence(pending)
    BY <1>2, SeqOfRange DEF Sequence
  <2> QED BY <2>2, <2>3
<1>5. Sequence(<<>>)
  BY EmptySeq DEF Sequence
<1>6. CASE w = [file |-> file \o pending, buffer |-> <<>>, ok |-> TRUE]
  BY <1>4, <1>5, <1>6, JoinContinues
<1>7. ASSUME NEW k \in 0 .. Len(buffer),
             w = [file   |-> file \o SubSeq(pending, 1, k),
                  buffer |-> SubSeq(pending, k + 1, Len(pending)),
                  ok     |-> FALSE]
      PROVE  Continues(file, w.file) /\ Sequence(w.buffer) /\ w.ok = FALSE
  <2>1. /\ 1 \in 1 .. Len(pending) + 1 /\ k \in 0 .. Len(pending)
        /\ k + 1 \in 1 .. Len(pending) + 1 /\ Len(pending) \in 0 .. Len(pending)
    BY <1>2
  <2>2. /\ Sequence(SubSeq(pending, 1, k))
        /\ Sequence(SubSeq(pending, k + 1, Len(pending)))
    BY <1>4, <2>1, Parts
  <2> QED BY <1>7, <2>2, JoinContinues
<1> QED BY <1>3, <1>6, <1>7

LEMMA RecordWritten ==
  ASSUME Sequence(file), Sequence(buffer), NEW r, NEW then, NEW met,
         Capture!WriteRecord(r, then, met)
  PROVE  /\ Continues(file, file') /\ Sequence(buffer')
         /\ phase' # "aborted" => buffer' = <<>> /\ r \in Range(file')
<1>1. PICK w \in Capture!WriteOutcomes(r) :
             /\ file' = w.file /\ buffer' = w.buffer
             /\ phase' = IF w.ok THEN then ELSE "aborted"
  BY DEF Capture!WriteRecord
<1> QED BY <1>1, Written

(* write_summary, called once: it ends in success or in an error, and a    *)
(* summary it leaves other than torn says what it was called with.         *)
LEMMA SummaryWritten ==
  ASSUME Sequence(file), Sequence(buffer), calls \in Nat, buffer = <<>>,
         NEW n, Capture!WriteSummary(n)
  PROVE  /\ Continues(file, file') /\ Sequence(buffer') /\ calls' \in Nat
         /\ phase' \in {"finished", "aborted"}
         /\ phase' # "aborted" => buffer' = <<>>
         /\ \/ summaryFile' \in {summaryFile, Torn}
            \/ /\ phase' = "finished"
               /\ summaryFile'.session = Session /\ summaryFile'.dropped = n
<1>1. calls' = calls + 1 /\ ~(calls + 1 < MaxSummaryCalls)
  BY DEF Capture!WriteSummary, MaxSummaryCalls
<1>2. PICK seal \in Capture!SealOutcomes :
        /\ file' = seal.log.file /\ buffer' = seal.log.buffer
        /\ ~seal.log.ok => phase' = "aborted" /\ UNCHANGED summaryFile
        /\ seal.log.ok =>
             \/ phase' = "aborted" /\ UNCHANGED summaryFile
             \/ \E t : \E w \in Capture!SummaryOutcomes(
                                  Capture!RuntimeSummary(seal.state, n, t)) :
                  /\ summaryFile' = w.file
                  /\ phase' = IF w.ok THEN "finished" ELSE "aborted"
  BY <1>1 DEF Capture!WriteSummary
<1>3. /\ Continues(file, file') /\ Sequence(buffer')
      /\ seal.log.ok => buffer' = <<>>
  <2>1. CASE captureState = "open"
    <3>1. PICK w \in Capture!WriteOutcomes(Capture!NewSynthetic("monitor-stop")) :
            seal.log = w
      BY <2>1 DEF Capture!SealOutcomes
    <3> QED BY <1>2, <3>1, Written
  <2>2. CASE captureState # "open"
    <3>1. file' = file /\ buffer' = buffer
      BY <1>2, <2>2 DEF Capture!SealOutcomes
    <3> QED BY <3>1 DEF Continues
  <2> QED BY <2>1, <2>2
<1>4. CASE phase' = "aborted" /\ UNCHANGED summaryFile
  BY <1>1, <1>3, <1>4
<1>5. ASSUME NEW t, NEW w \in Capture!SummaryOutcomes(
                               Capture!RuntimeSummary(seal.state, n, t)),
             seal.log.ok, summaryFile' = w.file,
             phase' = IF w.ok THEN "finished" ELSE "aborted"
      PROVE  /\ phase' \in {"finished", "aborted"}
             /\ phase' # "aborted" => buffer' = <<>>
             /\ \/ summaryFile' \in {summaryFile, Torn}
                \/ /\ phase' = "finished"
                   /\ summaryFile'.session = Session /\ summaryFile'.dropped = n
  <2> DEFINE s == Capture!RuntimeSummary(seal.state, n, t)
  <2>1. s.session = Session /\ s.dropped = n
    BY DEF Capture!RuntimeSummary
  <2>2. w \in Capture!SummaryOutcomes(s)
    OBVIOUS
  <2> HIDE DEF s
  <2>3. w.file \in {summaryFile, Torn} \/ (w.file = s /\ w.ok = TRUE)
    BY <2>2 DEF Capture!SummaryOutcomes
  <2> QED BY <1>3, <1>5, <2>1, <2>3
<1>6. calls' \in Nat
  BY <1>1
<1> QED BY <1>2, <1>3, <1>4, <1>5, <1>6

-----------------------------------------------------------------------------
(* The log never loses its first record, and while main has not given up   *)
(* every event of the evidence is in it; a summary in force is the one     *)
(* main wrote last, with the counter it had read.                          *)
Logged(e) ==
  \E i \in DOMAIN file : Capture!IsEvent(file[i]) /\ file[i].event = e

FileInv ==
  /\ Sequence(file) /\ Sequence(buffer) /\ calls \in Nat
  /\ 1 \in DOMAIN file /\ file[1].session = Session
  /\ phase # "aborted" => buffer = <<>> /\ \A e \in Evid : Logged(e)

SummaryInv ==
  \/ summaryFile \in {None, Torn, EarlierSummary}
  \/ /\ phase = "finished" /\ monitor = "finished"
     /\ summaryFile.session = Session /\ summaryFile.dropped = reported

RunInv == FileInv /\ SummaryInv

LEMMA RunInit == PipelineInit => RunInv
<1> SUFFICES ASSUME PipelineInit PROVE RunInv
  OBVIOUS
<1>1. /\ file = Capture!StartFile /\ buffer = <<>> /\ calls = 0
      /\ summaryFile \in {None, EarlierSummary} /\ evidence = <<>>
  BY DEF PipelineInit, Capture!Init, Init
<1>2. /\ file = <<file[1], file[2]>> /\ file[1].session = Session
      /\ DOMAIN file = 1 .. 2
  BY <1>1 DEF Capture!StartFile, Capture!SyntheticRecord
<1>3. ASSUME NEW x, NEW y PROVE Sequence(<<x, y>>)
  <2>1. <<x, y>> \in Seq({x, y})
    OBVIOUS
  <2> QED BY <2>1, SeqOfRange DEF Sequence
<1>4. Sequence(file)
  <2>1. PICK x, y : file = <<x, y>>
    BY <1>2
  <2> QED BY <1>3, <2>1
<1>6. Sequence(buffer)
  BY <1>1, EmptySeq DEF Sequence
<1>5. Evid = {}
  BY <1>1 DEF Evid
<1> QED BY <1>1, <1>2, <1>4, <1>5, <1>6 DEF RunInv, FileInv, SummaryInv

(* A file that continues the old one keeps what is said of it. *)
LEMMA LogKept ==
  ASSUME FileInv, Continues(file, file')
  PROVE  /\ Sequence(file') /\ 1 \in DOMAIN file' /\ file'[1].session = Session
         /\ \A e : Logged(e) => Logged(e)'
BY DEF FileInv, Continues, Logged

LEMMA SampleLogged ==
  ASSUME TypeInv, RunInv, TakeSample
  PROVE  RunInv'
<1>0. PICK e : e = [task |-> ring[1].task, type |-> ring[1].type]
  OBVIOUS
<1>1. /\ ReadSample /\ Capture!ProcessSample(e) /\ phase = "collecting"
      /\ UNCHANGED <<summaryFile, calls, monitor, reported>>
  BY <1>0 DEF TakeSample, ReadSample, Capture!ProcessSample
<1>2. Evid' = Evid \union {e}
  <2>1. /\ DOMAIN evidence = 1 .. Len(evidence)
        /\ DOMAIN evidence' = 1 .. Len(evidence) + 1
        /\ Len(evidence) \in Nat
        /\ \A k \in 1 .. Len(evidence) : evidence'[k] = evidence[k]
        /\ evidence'[Len(evidence) + 1].task = ring[1].task
        /\ evidence'[Len(evidence) + 1].type = ring[1].type
    <3>1. Reads
      BY <1>1 DEF ReadSample, SampleReady, Reads, lossVars
    <3>2. Effect
      BY <3>1 DEF Effect
    <3> QED BY <3>1, <3>2, ReadRing, Positions
  <2>2. Evid \subseteq Evid'
    <3>1. \A k \in DOMAIN evidence :
            k \in DOMAIN evidence' /\ evidence'[k] = evidence[k]
      BY <2>1
    <3> QED BY <3>1 DEF Evid
  <2>3. e \in Evid'
    <3>1. Len(evidence) + 1 \in DOMAIN evidence'
      BY <2>1
    <3> QED BY <1>0, <2>1, <3>1 DEF Evid
  <2>4. \A k \in DOMAIN evidence' :
          \/ k \in DOMAIN evidence /\ evidence'[k] = evidence[k]
          \/ k = Len(evidence) + 1
    BY <2>1
  <2>5. Evid' \subseteq Evid \union {e}
    BY <1>0, <2>1, <2>4 DEF Evid
  <2> QED BY <2>2, <2>3, <2>5
<1>3. \/ phase' = "aborted" /\ UNCHANGED <<file, buffer>>
      \/ \E r, met : /\ Capture!IsEvent(r) /\ r.event = e
                     /\ Capture!WriteRecord(r, phase, met)
  <2> DEFINE hash == Capture!EventHash(Session, state.next, e)
             head == Capture!Advance(state, Verdict[e].class, hash).head
             R(extended, index) ==
               Capture!RuntimeRecord(Session, state.next, e, hash, head,
                                     extended, index)
  <2>1. \A extended, index : /\ Capture!IsEvent(R(extended, index))
                             /\ R(extended, index).event = e
    BY DEF Capture!RuntimeRecord, Capture!IsEvent
  <2>2. \/ phase' = "aborted" /\ UNCHANGED <<file, buffer>>
        \/ \E extended, index, met :
             Capture!WriteRecord(R(extended, index), phase, met)
    BY <1>1 DEF Capture!ProcessSample, Capture!Abort
  <2> HIDE DEF R
  <2> QED BY <2>1, <2>2
<1>4. CASE phase' = "aborted" /\ UNCHANGED <<file, buffer>>
  BY <1>1, <1>4 DEF RunInv, FileInv, SummaryInv
<1>5. ASSUME NEW r, NEW met, Capture!IsEvent(r), r.event = e,
             Capture!WriteRecord(r, phase, met)
      PROVE  RunInv'
  <2>1. /\ Continues(file, file') /\ Sequence(buffer')
        /\ phase' # "aborted" => buffer' = <<>> /\ r \in Range(file')
    BY <1>5, RecordWritten DEF RunInv, FileInv
  <2>2. r \in Range(file') => Logged(e)'
    BY <1>5 DEF Range, Logged
  <2>3. \A x \in Evid : Logged(x)
    BY <1>1 DEF RunInv, FileInv
  <2>4. /\ Sequence(file') /\ 1 \in DOMAIN file' /\ file'[1].session = Session
        /\ \A x : Logged(x) => Logged(x)'
    BY <2>1, LogKept DEF RunInv
  <2>5. phase' # "aborted" => \A x \in Evid' : Logged(x)'
    BY <1>2, <2>1, <2>2, <2>3, <2>4
  <2>6. FileInv'
    BY <1>1, <2>1, <2>4, <2>5 DEF RunInv, FileInv
  <2> QED BY <1>1, <2>6 DEF RunInv, SummaryInv
<1> QED BY <1>3, <1>4, <1>5

LEMMA RunStep ==
  ASSUME TypeInv, RunInv, [PipelineNext]_pipelineVars
  PROVE  RunInv'
<1>0. UNCHANGED evidence => Evid' = Evid
  BY DEF Evid
<1>1. CASE Prepare
  <2>1. /\ UNCHANGED <<evidence, summaryFile, calls, monitor, reported>>
        /\ phase # "finished" /\ phase # "aborted"
    BY <1>1 DEF Prepare, collectorVars, vars, Capture!WriteWorkloadTargetBound,
       Capture!BindTpmSessionStart
  <2>2. /\ Continues(file, file') /\ Sequence(buffer')
        /\ phase' # "aborted" => buffer' = <<>>
    <3>1. CASE Capture!WriteWorkloadTargetBound
      <4>1. PICK r : Capture!WriteRecord(r, "bound", {})
        BY <3>1 DEF Capture!WriteWorkloadTargetBound
      <4> QED BY <4>1, RecordWritten DEF RunInv, FileInv
    <3>2. CASE Capture!BindTpmSessionStart
      <4>1. UNCHANGED <<file, buffer>>
        BY <3>2 DEF Capture!BindTpmSessionStart, Capture!logVars
      <4> QED BY <2>1, <4>1 DEF RunInv, FileInv, Continues
    <3> QED BY <1>1, <3>1, <3>2 DEF Prepare
  <2>3. FileInv'
    BY <1>0, <2>1, <2>2, LogKept DEF RunInv, FileInv
  <2> QED BY <2>1, <2>3 DEF RunInv, SummaryInv
<1>2. CASE TakeSample
  BY <1>2, SampleLogged
<1>3. CASE Summarize
  <2>1. /\ monitor = "finished" /\ phase = "collecting"
        /\ Capture!WriteSummary(reported)
        /\ UNCHANGED <<evidence, monitor, reported>>
    BY <1>3 DEF Summarize, collectorVars, vars
  <2>2. /\ Continues(file, file') /\ Sequence(buffer') /\ calls' \in Nat
        /\ phase' # "aborted" => buffer' = <<>>
        /\ \/ summaryFile' \in {summaryFile, Torn}
           \/ /\ phase' = "finished"
              /\ summaryFile'.session = Session
              /\ summaryFile'.dropped = reported
    BY <2>1, SummaryWritten DEF RunInv, FileInv
  <2>3. FileInv'
    BY <1>0, <2>1, <2>2, LogKept DEF RunInv, FileInv
  <2> QED BY <2>1, <2>2, <2>3 DEF RunInv, SummaryInv
<1>4. CASE LeaveMain
  <2>1. /\ phase = "aborted" /\ buffer' = <<>>
        /\ \E k \in 0 .. Len(buffer) : file' = file \o SubSeq(buffer, 1, k)
        /\ UNCHANGED <<phase, calls, summaryFile, monitor, reported>>
    BY <1>4 DEF LeaveMain, Capture!DropWriter, collectorVars, vars
  <2>2. PICK k \in 0 .. Len(buffer) : file' = file \o SubSeq(buffer, 1, k)
    BY <2>1
  <2>3. 1 \in 1 .. Len(buffer) + 1
    BY LenProperties DEF RunInv, FileInv, Sequence
  <2>4. Continues(file, file')
    BY <2>2, <2>3, Parts, JoinContinues DEF RunInv, FileInv
  <2>5. Sequence(buffer')
    BY <2>1, EmptySeq DEF Sequence
  <2> QED BY <2>1, <2>4, <2>5, LogKept DEF RunInv, FileInv, SummaryInv
<1>5. CASE AttachProbes \/ Wait \/ ReadCounters
  <2>1. /\ UNCHANGED <<file, buffer, calls, phase, summaryFile, evidence>>
        /\ monitor # "finished"
    BY <1>5 DEF AttachProbes, AttachExec, AttachAttempt, Wait, Select, WakeByTimer,
       WakeByCtrlC, EndDrain, ReadCounters, ReadMonitorState, captureVars, taskVars
  <2> QED BY <1>0, <2>1 DEF RunInv, FileInv, SummaryInv, Logged
<1>6. CASE Signal \/ KillProcess
  <2>1. /\ UNCHANGED <<file, buffer, calls, summaryFile, evidence>>
        /\ phase' \in {phase, "aborted"}
    BY <1>6 DEF Signal, Interrupt, KillProcess, Capture!Kill, Capture!Abort,
       captureVars, taskVars
  <2>2. monitor # "finished" \/ phase # "finished"
    BY <1>6 DEF Signal, Interrupt, KillProcess, Alive
  <2> QED BY <1>0, <2>1, <2>2 DEF RunInv, FileInv, SummaryInv, Logged
<1>7. ASSUME \/ UNCHANGED pipelineVars
             \/ \E t \in Task : TaskStep(t) \/ ProbeStep(t)
      PROVE  RunInv'
  <2>1. UNCHANGED <<file, buffer, calls, phase, summaryFile, evidence, monitor,
                    reported>>
    BY <1>7 DEF TaskStep, ProbeStep, EnterExecve, EnterExecveat, ProcessExec,
       FailExec, Probe, NumberEvent, Submit, CountLost, monitorVars, captureVars,
       pipelineVars, collectorVars, vars
  <2> QED BY <1>0, <2>1 DEF RunInv, FileInv, SummaryInv, Logged
<1> QED BY <1>1, <1>2, <1>3, <1>4, <1>5, <1>6, <1>7 DEF PipelineNext, Main

-----------------------------------------------------------------------------
(* What a decision other than INVALID-EVIDENCE and REJECT says.            *)
LEMMA AcceptanceSays ==
  ASSUME Decision \notin {Verifier!InvalidEvidence, "REJECT"},
         setup.failOnDrops
  PROVE  /\ summaryFile \notin {None, Torn}
         /\ ~(summaryFile.dropped > 0)
         /\ \A i \in DOMAIN file :
              /\ file[i].session = summaryFile.session
              /\ Capture!IsEvent(file[i]) =>
                   file[i].verdict = Verdict[file[i].event]
<1>1. /\ summaryFile \notin Unreadable
      /\ Verifier!StructurallyValid(setup, file, summaryFile, FALSE)
      /\ Verifier!DecisionForValidEvidence(setup, summaryFile,
           Verifier!Tally(file)) # "REJECT"
  BY DEF Decision, Verifier!Verify
<1>2. ~(summaryFile.dropped > 0)
  BY <1>1 DEF Verifier!DecisionForValidEvidence
<1>3. \A i \in DOMAIN file : Verifier!RecordReplays(file, summaryFile, i)
  BY <1>1 DEF Verifier!StructurallyValid
<1>4. \A r : Capture!IsEvent(r) <=> Verifier!IsEvent(r)
  BY DEF Capture!IsEvent, Verifier!IsEvent
<1> QED BY <1>1, <1>2, <1>3, <1>4, PipelineAssumption DEF Verifier!RecordReplays

(* The drain processes the "remaining buffered events" before the summary: *)
(* evidence that is accepted under a policy that tolerates no drops, with  *)
(* the loss counter read, has every event the stop must not miss, with the *)
(* policy's verdict on it, for any tasks, ring, policies and faults.       *)
THEOREM AcceptedEvidenceIsComplete == PipelineSpec => []AcceptedRunIsComplete
<1>1. ASSUME DueInv, RunInv PROVE AcceptedRunIsComplete
  <2> SUFFICES ASSUME setup.failOnDrops, reported = lostRead,
                      Decision \notin {Verifier!InvalidEvidence, "REJECT"},
                      NEW e \in due
               PROVE  \E i \in DOMAIN file :
                        /\ Capture!IsEvent(file[i])
                        /\ file[i].event = e
                        /\ file[i].verdict = Verdict[e]
    BY DEF AcceptedRunIsComplete
  <2>1. /\ summaryFile \notin {None, Torn}
        /\ ~(summaryFile.dropped > 0)
        /\ \A i \in DOMAIN file :
             /\ file[i].session = summaryFile.session
             /\ Capture!IsEvent(file[i]) =>
                  file[i].verdict = Verdict[file[i].event]
    BY AcceptanceSays
  <2>2. summaryFile.session = Session
    BY <1>1, <2>1 DEF RunInv, FileInv
  <2>3. /\ phase = "finished" /\ monitor = "finished"
        /\ summaryFile.dropped = reported
    BY <1>1, <2>1, <2>2, PipelineAssumption DEF RunInv, SummaryInv
  <2>4. lostRead = 0
    BY <1>1, <2>1, <2>3 DEF DueInv
  <2>5. e \in Evid
    BY <1>1, <2>3, <2>4 DEF DueInv
  <2>6. Logged(e)
    BY <1>1, <2>3, <2>5 DEF RunInv, FileInv
  <2> QED BY <2>1, <2>6 DEF Logged
<1>2. PipelineInit => DueInv
  BY DEF PipelineInit, Init, DueInv
<1>3. AccountInv => TypeInv
  BY DEF AccountInv
<1>4. AccountInv /\ DueInv /\ RunInv /\ [PipelineNext]_pipelineVars
        => DueInv' /\ RunInv'
  BY <1>3, DueStep, RunStep
<1> QED BY <1>1, <1>2, <1>4, AccountInPipeline, RunInit, PTL DEF PipelineSpec

-----------------------------------------------------------------------------
(* There are two events per task. *)
LEMMA EventsAreFew ==
  /\ IsFiniteSet(Event) /\ Cardinality(Event) = MaxLost
  /\ MaxLost \in Nat
<1> DEFINE pair == [e \in Event |-> <<e.task, e.type>>]
<1>1. IsFiniteSet(EventTypes) /\ Cardinality(EventTypes) = 2
  <2>1. IsFiniteSet({"attempt"}) /\ Cardinality({"attempt"}) = 1
    BY FS_Singleton
  <2>2. EventTypes = {"attempt"} \union {"exec"} /\ "exec" \notin {"attempt"}
    BY DEF EventTypes
  <2> QED BY <2>1, <2>2, FS_AddElement
<1>2. IsFiniteSet(Task) /\ Cardinality(Task) \in Nat
  BY CollectorAssumption, FS_CardinalityType
<1>3. /\ IsFiniteSet(Task \X EventTypes)
      /\ Cardinality(Task \X EventTypes) = Cardinality(Task) * 2
  BY <1>1, <1>2, FS_Product
<1>4. pair \in Bijection(Event, Task \X EventTypes)
  <2>1. pair \in [Event -> Task \X EventTypes]
    BY DEF Event
  <2>2. \A a, b \in Event : pair[a] = pair[b] => a = b
    BY DEF Event
  <2>3. \A p \in Task \X EventTypes : \E a \in Event : pair[a] = p
    <3> TAKE p \in Task \X EventTypes
    <3>1. [task |-> p[1], type |-> p[2]] \in Event
      BY DEF Event
    <3>2. pair[[task |-> p[1], type |-> p[2]]] = p
      BY <3>1
    <3> QED BY <3>1, <3>2
  <2> HIDE DEF pair
  <2> QED BY <2>1, <2>2, <2>3, Fun_IsBij
<1> HIDE DEF pair
<1>5. pair \in Injection(Event, Task \X EventTypes)
      /\ pair \in Surjection(Event, Task \X EventTypes)
  BY <1>4 DEF Bijection
<1>6. IsFiniteSet(Event) /\ Cardinality(Event) = Cardinality(Task \X EventTypes)
  BY <1>3, <1>5, FS_Injection
<1>7. Cardinality(Task) * 2 = MaxLost /\ MaxLost \in Nat
  BY <1>2 DEF MaxLost
<1> QED BY <1>3, <1>6, <1>7

ReportInv == monitor = "finished" => reported \in 0 .. MaxLost

LEMMA ReportStep ==
  ASSUME AccountInv, ReportInv, [PipelineNext]_pipelineVars
  PROVE  ReportInv'
<1>1. lost \in 0 .. MaxLost
  <2>1. dropped \in SUBSET Event /\ lost = Cardinality(dropped) /\ lost \in Nat
    BY DEF AccountInv, TypeInv, TypeOK, EveryEventAccounted, Event
  <2> QED BY <2>1, EventsAreFew, FS_Subset
<1>2. CASE ReadCounters
  <2>1. reported' \in {lost, 0}
    BY <1>2 DEF ReadCounters, ReadMonitorState
  <2>2. reported' \in 0 .. MaxLost /\ MaxLost' = MaxLost
    BY <1>1, <2>1, EventsAreFew DEF MaxLost
  <2> QED BY <2>2 DEF ReportInv
<1>3. CASE Prepare \/ TakeSample \/ Summarize \/ LeaveMain \/ UNCHANGED pipelineVars
  BY <1>3 DEF Prepare, TakeSample, Summarize, LeaveMain, pipelineVars,
     collectorVars, vars, ReadSample, ReportInv
<1>4. CASE AttachProbes \/ Wait
  BY <1>4 DEF AttachProbes, AttachExec, AttachAttempt, Wait, Select, WakeByTimer,
     WakeByCtrlC, EndDrain, ReportInv
<1>5. CASE Signal \/ KillProcess
  BY <1>5 DEF Signal, Interrupt, KillProcess, ReportInv
<1>6. ASSUME NEW t \in Task, TaskStep(t) \/ ProbeStep(t) PROVE ReportInv'
  BY <1>6 DEF TaskStep, ProbeStep, EnterExecve, EnterExecveat, ProcessExec,
     FailExec, Probe, NumberEvent, Submit, CountLost, monitorVars, ReportInv
<1> QED BY <1>2, <1>3, <1>4, <1>5, <1>6 DEF PipelineNext, Main

(* Every step of the process is a step of its capture or leaves the        *)
(* capture alone: main calls it in its order, feeds it events of the       *)
(* tasks, and reports a counter within the bounds of EvidenceCapture, so   *)
(* that what is proved about EvidenceCapture holds in the process.         *)
THEOREM PipelineDrivesCapture == PipelineSpec => Capture!Spec
<1>1. PipelineInit => Capture!Init /\ ReportInv
  BY DEF PipelineInit, Init, ReportInv
<1>2. ASSUME AccountInv, ReportInv, [PipelineNext]_pipelineVars
      PROVE  [Capture!Next]_(Capture!vars)
  <2>1. UNCHANGED captureVars => UNCHANGED Capture!vars
    BY DEF captureVars, Capture!vars
  <2>2. CASE Prepare
    BY <2>2 DEF Prepare, Capture!Next
  <2>3. CASE TakeSample
    <3>1. ring \in Seq(Slot) /\ ring # <<>>
      <4>1. TypeOK
        BY <1>2 DEF AccountInv, TypeInv
      <4> QED BY <2>3, <4>1, SlotType DEF TakeSample, ReadSample, SampleReady
    <3>2. 1 \in 1 .. Len(ring)
      BY <3>1, EmptySeq
    <3>3. ring[1] \in Slot
      BY <3>1, <3>2, ElementOfSeq
    <3>4. [task |-> ring[1].task, type |-> ring[1].type] \in Event
      BY <3>3 DEF Slot, Event
    <3> QED BY <2>3, <3>4 DEF TakeSample, Capture!Next
  <2>4. CASE Summarize
    BY <1>2, <2>4 DEF Summarize, ReportInv, Capture!Next
  <2>5. CASE Signal \/ KillProcess \/ LeaveMain
    BY <2>1, <2>5 DEF Signal, KillProcess, LeaveMain, Capture!Next
  <2>6. CASE AttachProbes \/ Wait \/ ReadCounters
    BY <2>1, <2>6 DEF AttachProbes, Wait, ReadCounters
  <2>7. CASE UNCHANGED pipelineVars \/ \E t \in Task : TaskStep(t) \/ ProbeStep(t)
    BY <2>1, <2>7 DEF pipelineVars, TaskStep, ProbeStep
  <2> QED BY <1>2, <2>2, <2>3, <2>4, <2>5, <2>6, <2>7 DEF PipelineNext, Main
<1> QED BY <1>1, <1>2, ReportStep, AccountInPipeline, PTL
        DEF PipelineSpec, Capture!Spec
=============================================================================
