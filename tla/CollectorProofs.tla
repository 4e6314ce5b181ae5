--------------------------- MODULE CollectorProofs ---------------------------
(***************************************************************************)
(* Proofs about Collector, for any set of tasks, cgroups, entry points and *)
(* capacity of the ring: types, the accounting of events, their numbers,   *)
(* and the order of attempt and exec.                                      *)
(***************************************************************************)
EXTENDS Collector, FiniteSetTheorems, FunctionTheorems, SequenceTheorems, TLAPS

-----------------------------------------------------------------------------
(* A slot of the ring, and an event read from it. *)
Slot == [task : Task, type : EventTypes, seq : SeqNumbers, submitted : BOOLEAN]
Sample == [task : Task, type : EventTypes, seq : Nat]

NewSlot(t, type) ==
  [task |-> t, type |-> type, seq |-> None, submitted |-> FALSE]

(* A slot is submitted with its number. *)
SubmittedIsNumbered ==
  \A i \in DOMAIN ring : ring[i].submitted => ring[i].seq # None

TypeInv == TypeOK /\ SubmittedIsNumbered

LEMMA SlotType ==
  TypeOK => ring \in Seq(Slot) /\ evidence \in Seq(Sample)
BY DEF TypeOK, Slot, Sample

Stages == {"user", "exec", "done"}

Progress == [Task -> [stage : Stages, attempt : BOOLEAN, exec : BOOLEAN]]

(* Where the exec of a task is before and after the tracepoint of a type.  *)
Before(type) == IF type = "attempt" THEN "user" ELSE "exec"
After(type)  == IF type = "attempt" THEN "exec" ELSE "done"

-----------------------------------------------------------------------------
(* What a step does to tasks, ring, counters and evidence, whichever       *)
(* action it is: a task reaches a tracepoint whose probe stores an event   *)
(* or loses it, or goes on without one; a slot gets its number or is       *)
(* submitted; a loss is counted; the oldest slot is read; or none of this. *)
(* No exec event is stored before its task's lost attempt is counted.      *)
Marks(t, type) ==
  /\ at[t].stage = Before(type)
  /\ \A u \in Task :
       at'[u].stage = IF u = t THEN After(type) ELSE at[u].stage
  /\ \A u \in Task, y \in EventTypes :
       at'[u][y] <=> at[u][y] \/ (u = t /\ y = type)

Stores(t, type) ==
  /\ Marks(t, type)
  /\ type = "exec" => ~Losing(t, "attempt")
  /\ Len(ring) < Capacity
  /\ ring' = Append(ring, NewSlot(t, type))
  /\ UNCHANGED <<seq, lost, losing, dropped, evidence>>

Loses(t, type) ==
  /\ Marks(t, type)
  /\ losing' = losing \union {[task |-> t, type |-> type]}
  /\ UNCHANGED <<ring, seq, lost, dropped, evidence>>

Passes(t) ==
  /\ \/ at[t].stage = "user" /\ at'[t].stage = "exec"
     \/ at[t].stage = "exec" /\ at'[t].stage = "done"
  /\ \A u \in Task : u # t => at'[u].stage = at[u].stage
  /\ \A u \in Task, y \in EventTypes : at'[u][y] = at[u][y]
  /\ UNCHANGED <<ring, seq, lost, losing, dropped, evidence>>

Numbers(i) ==
  /\ ring[i].seq = None /\ ~ring[i].submitted
  /\ ring' = [ring EXCEPT ![i].seq = seq]
  /\ seq' = seq + 1
  /\ UNCHANGED <<at, lost, losing, dropped, evidence>>

Submits(i) ==
  /\ ring[i].seq # None
  /\ ring' = [ring EXCEPT ![i].submitted = TRUE]
  /\ UNCHANGED <<at, seq, lost, losing, dropped, evidence>>

Counts(e) ==
  /\ losing' = losing \ {e}
  /\ dropped' = dropped \union {e}
  /\ lost' = lost + 1
  /\ UNCHANGED <<at, ring, seq, evidence>>

Reads ==
  /\ ring # <<>> /\ ring[1].submitted
  /\ evidence' = Append(evidence, [task |-> ring[1].task,
                          type |-> ring[1].type, seq |-> ring[1].seq])
  /\ ring' = Tail(ring)
  /\ UNCHANGED <<at, seq, lost, losing, dropped>>

Rests == UNCHANGED <<at, ring, seq, lost, losing, dropped, evidence>>

Effect ==
  \/ \E t \in Task, type \in EventTypes : Stores(t, type) \/ Loses(t, type)
  \/ \E t \in Task : Passes(t)
  \/ \E i \in DOMAIN ring : Numbers(i) \/ Submits(i)
  \/ \E e \in losing : Counts(e)
  \/ Reads
  \/ Rests

LEMMA MarksOf ==
  ASSUME NEW t \in Task, NEW type \in EventTypes,
         at[t].stage = Before(type), at'[t].stage = After(type),
         \A u \in Task : u # t => at'[u] = at[u],
         \A y \in EventTypes : at'[t][y] <=> at[t][y] \/ y = type
  PROVE  Marks(t, type)
<1>1. \A u \in Task : at'[u].stage = IF u = t THEN After(type) ELSE at[u].stage
  OBVIOUS
<1>2. \A u \in Task, y \in EventTypes :
        at'[u][y] <=> at[u][y] \/ (u = t /\ y = type)
  OBVIOUS
<1> QED BY <1>1, <1>2 DEF Marks

(* The new value of at when the probe runs and when it does not.           *)
LEMMA MarkedAt ==
  ASSUME TypeOK, NEW t \in Task, NEW type \in EventTypes,
         at[t].stage = Before(type),
         at' = [at EXCEPT ![t].stage = After(type), ![t][type] = TRUE]
  PROVE  Marks(t, type) /\ at' \in Progress
<1>0. at \in Progress /\ After(type) \in Stages
  BY DEF TypeOK, After, Stages, Progress
<1>1. at' \in Progress /\ at'[t].stage = After(type)
  BY <1>0 DEF EventTypes, Stages, Progress
<1>2. \A u \in Task : u # t => at'[u] = at[u]
  BY <1>0 DEF Progress
<1>3. \A y \in EventTypes : at'[t][y] <=> at[t][y] \/ y = type
  <2>1. CASE type = "attempt"
    BY <1>0, <2>1 DEF EventTypes, Progress
  <2>2. CASE type = "exec"
    BY <1>0, <2>2 DEF EventTypes, Progress
  <2> QED BY <2>1, <2>2 DEF EventTypes
<1> QED BY <1>1, <1>2, <1>3, MarksOf

LEMMA MovedAt ==
  ASSUME TypeOK, NEW t \in Task, NEW stage \in Stages,
         at' = [at EXCEPT ![t].stage = stage]
  PROVE  /\ at'[t].stage = stage
         /\ \A u \in Task : u # t => at'[u].stage = at[u].stage
         /\ \A u \in Task, y \in EventTypes : at'[u][y] = at[u][y]
         /\ at' \in Progress
BY DEF TypeOK, EventTypes, Stages, Progress

LEMMA TraceEffect ==
  ASSUME TypeOK, NEW t \in Task, NEW type \in EventTypes,
         at[t].stage = Before(type), Trace(t, type, After(type)),
         type = "exec" => ~InProbe(t), UNCHANGED <<seq, evidence>>
  PROVE  /\ Stores(t, type) \/ Loses(t, type) \/ Passes(t)
         /\ at' \in Progress
<1>1. CASE Probed(t, type)
  <2>1. /\ at' = [at EXCEPT ![t].stage = After(type), ![t][type] = TRUE]
        /\ Reserve(t, type)
    BY <1>1 DEF Trace
  <2>2. type = "exec" => ~Losing(t, "attempt")
    BY DEF InProbe, LossesOf, Losing
  <2> QED BY <2>1, <2>2, MarkedAt DEF Reserve, Stores, Loses, NewSlot, lossVars
<1>2. CASE ~Probed(t, type)
  <2>1. /\ at' = [at EXCEPT ![t].stage = After(type)]
        /\ UNCHANGED <<ring, lost, losing, dropped>>
    BY <1>2 DEF Trace, lossVars
  <2>2. After(type) \in Stages
    BY DEF After, Stages
  <2> QED BY <2>1, <2>2, MovedAt DEF Passes, Before, After, EventTypes
<1> QED BY <1>1, <1>2

LEMMA NextEffect ==
  ASSUME TypeOK, [Next]_vars
  PROVE  Effect /\ at' \in Progress
<1> USE DEF Effect
<1>0. at \in Progress
  BY DEF TypeOK, Stages, Progress
<1>1. ASSUME NEW t \in Task, EnterExecve(t) PROVE Effect /\ at' \in Progress
  BY <1>1, TraceEffect
     DEF EnterExecve, Before, After, monitorVars, EventTypes
<1>2. ASSUME NEW t \in Task, EnterExecveat(t) \/ FailExec(t) PROVE Effect /\ at' \in Progress
  BY <1>2, MovedAt
     DEF EnterExecveat, FailExec, Passes, Stages, monitorVars, lossVars
<1>3. ASSUME NEW t \in Task, ProcessExec(t) PROVE Effect /\ at' \in Progress
  BY <1>3, TraceEffect
     DEF ProcessExec, Before, After, monitorVars, EventTypes
<1>4. ASSUME NEW t \in Task, Probe(t) PROVE Effect /\ UNCHANGED at
  <2>1. CASE NumberEvent(t) \/ Submit(t)
    BY <2>1 DEF NumberEvent, Submit, Slots, Numbers, Submits, monitorVars, lossVars
  <2>2. CASE CountLost(t)
    BY <2>2 DEF CountLost, LossesOf, Counts, monitorVars
  <2> QED BY <1>4, <2>1, <2>2 DEF Probe
<1>5. CASE ReadSample
  BY <1>0, <1>5 DEF ReadSample, SampleReady, Reads, lossVars
<1>6. CASE \/ AttachExec \/ AttachAttempt \/ Select \/ WakeByTimer \/ WakeByCtrlC
           \/ EndDrain \/ ReadMonitorState \/ Interrupt \/ UNCHANGED vars
  BY <1>0, <1>6 DEF AttachExec, AttachAttempt, Select, WakeByTimer, WakeByCtrlC,
     EndDrain, ReadMonitorState, Interrupt, taskVars, lossVars, vars, Rests
<1> QED BY <1>0, <1>1, <1>2, <1>3, <1>4, <1>5, <1>6 DEF Next, Monitor

-----------------------------------------------------------------------------
(* The ring and the evidence after each of these, position by position.    *)
LEMMA StoredRing ==
  ASSUME TypeOK, NEW t \in Task, NEW type \in EventTypes, Stores(t, type)
  PROVE  /\ ring' \in Seq(Slot) /\ Len(ring') = Len(ring) + 1
         /\ Len(ring') <= Capacity
         /\ \A i \in 1 .. Len(ring) : ring'[i] = ring[i]
         /\ ring'[Len(ring) + 1] = NewSlot(t, type)
         /\ NewSlot(t, type).task = t /\ NewSlot(t, type).type = type
         /\ NewSlot(t, type).seq = None /\ ~NewSlot(t, type).submitted
<1>1. /\ NewSlot(t, type) \in Slot
      /\ NewSlot(t, type).task = t /\ NewSlot(t, type).type = type
      /\ NewSlot(t, type).seq = None /\ ~NewSlot(t, type).submitted
  BY DEF NewSlot, Slot, SeqNumbers
<1>2. ring \in Seq(Slot) /\ Len(ring) \in Nat /\ Capacity \in Nat
  BY SlotType, CollectorAssumption
<1> QED BY <1>1, <1>2, AppendProperties DEF Stores

LEMMA TouchedRing ==
  ASSUME TypeOK, NEW i \in DOMAIN ring, Numbers(i) \/ Submits(i)
  PROVE  /\ ring' \in Seq(Slot) /\ Len(ring') = Len(ring)
         /\ \A k \in 1 .. Len(ring) :
              /\ k # i => ring'[k] = ring[k]
              /\ ring'[k].task = ring[k].task
              /\ ring'[k].type = ring[k].type
         /\ i \in 1 .. Len(ring)
         /\ Numbers(i) => ring'[i].seq = seq /\ ~ring'[i].submitted
         /\ Submits(i) => ring'[i].seq = ring[i].seq /\ ring'[i].submitted
<1>1. ring \in Seq(Slot) /\ seq \in Nat /\ i \in 1 .. Len(ring)
  BY SlotType, LenProperties DEF TypeOK
<1>2. ring[i] \in Slot
  BY <1>1, ElementOfSeq
<1>3. CASE Numbers(i)
  <2> DEFINE slot == [ring[i] EXCEPT !.seq = seq]
  <2>1. /\ slot \in Slot /\ slot.seq = seq /\ ~slot.submitted
        /\ slot.task = ring[i].task /\ slot.type = ring[i].type
    BY <1>1, <1>2, <1>3 DEF Slot, SeqNumbers, Numbers
  <2>2. ring' = [ring EXCEPT ![i] = slot] /\ ~Submits(i)
    BY <1>3 DEF Numbers, Submits
  <2> HIDE DEF slot
  <2>3. /\ ring' \in Seq(Slot) /\ Len(ring') = Len(ring) /\ ring'[i] = slot
        /\ \A k \in 1 .. Len(ring) : k # i => ring'[k] = ring[k]
    BY <1>1, <2>1, <2>2, ExceptSeq
  <2> QED BY <1>1, <2>1, <2>2, <2>3
<1>4. CASE Submits(i)
  <2> DEFINE slot == [ring[i] EXCEPT !.submitted = TRUE]
  <2>1. /\ slot \in Slot /\ slot.seq = ring[i].seq /\ slot.submitted
        /\ slot.task = ring[i].task /\ slot.type = ring[i].type
    BY <1>2 DEF Slot
  <2>2. ring' = [ring EXCEPT ![i] = slot] /\ ~Numbers(i)
    BY <1>4 DEF Numbers, Submits
  <2> HIDE DEF slot
  <2>3. /\ ring' \in Seq(Slot) /\ Len(ring') = Len(ring) /\ ring'[i] = slot
        /\ \A k \in 1 .. Len(ring) : k # i => ring'[k] = ring[k]
    BY <1>1, <2>1, <2>2, ExceptSeq
  <2> QED BY <1>1, <2>1, <2>2, <2>3
<1> QED BY <1>3, <1>4

LEMMA ReadRing ==
  ASSUME TypeInv, Reads
  PROVE  /\ ring' \in Seq(Slot) /\ Len(ring) \in Nat /\ 1 \in 1 .. Len(ring)
         /\ Len(ring') = Len(ring) - 1
         /\ \A i \in 1 .. Len(ring') : ring'[i] = ring[i + 1]
         /\ evidence' \in Seq(Sample) /\ Len(evidence') = Len(evidence) + 1
         /\ \A i \in 1 .. Len(evidence) : evidence'[i] = evidence[i]
         /\ evidence'[Len(evidence) + 1] =
              [task |-> ring[1].task, type |-> ring[1].type,
               seq |-> ring[1].seq]
<1>1. ring \in Seq(Slot) /\ evidence \in Seq(Sample)
  BY SlotType DEF TypeInv
<1>2. Len(ring) \in Nat /\ 1 \in 1 .. Len(ring) /\ DOMAIN ring = 1 .. Len(ring)
  BY <1>1, EmptySeq, LenProperties DEF Reads
<1>3. ring[1] \in Slot /\ ring[1].seq # None
  BY <1>1, <1>2, ElementOfSeq DEF TypeInv, SubmittedIsNumbered, Reads
<1>4. [task |-> ring[1].task, type |-> ring[1].type, seq |-> ring[1].seq]
        \in Sample
  BY <1>3 DEF Slot, Sample, SeqNumbers
<1>5. /\ ring' \in Seq(Slot) /\ Len(ring') = Len(ring) - 1
      /\ \A i \in 1 .. Len(ring') : ring'[i] = ring[i + 1]
  BY <1>1, HeadTailProperties DEF Reads
<1> QED BY <1>1, <1>2, <1>4, <1>5, AppendProperties DEF Reads

-----------------------------------------------------------------------------
(* The part of the type invariant an Effect can disturb. *)
RingTypes ==
  /\ ring' \in Seq(Slot) /\ Len(ring') <= Capacity
  /\ evidence' \in Seq(Sample)
  /\ seq' \in Nat /\ lost' \in Nat
  /\ losing' \subseteq [task : Task, type : EventTypes]
  /\ dropped' \subseteq [task : Task, type : EventTypes]
  /\ \A k \in 1 .. Len(ring') : ring'[k].submitted => ring'[k].seq # None

LEMMA EffectTypes ==
  ASSUME TypeInv, Effect
  PROVE  RingTypes
<1>1. /\ ring \in Seq(Slot) /\ evidence \in Seq(Sample)
      /\ DOMAIN ring = 1 .. Len(ring) /\ Len(ring) \in Nat
      /\ seq \in Nat /\ lost \in Nat
      /\ losing \subseteq [task : Task, type : EventTypes]
      /\ dropped \subseteq [task : Task, type : EventTypes]
      /\ Len(ring) <= Capacity /\ Capacity \in Nat /\ TypeOK
  BY SlotType, LenProperties, CollectorAssumption DEF TypeInv, TypeOK
<1>2. \A k \in 1 .. Len(ring) : ring[k].submitted => ring[k].seq # None
  BY <1>1 DEF TypeInv, SubmittedIsNumbered
<1>3. ASSUME NEW t \in Task, NEW type \in EventTypes, Stores(t, type)
      PROVE  RingTypes
  <2>1. /\ ring' \in Seq(Slot) /\ Len(ring') = Len(ring) + 1
        /\ Len(ring') <= Capacity
        /\ \A i \in 1 .. Len(ring) : ring'[i] = ring[i]
        /\ ring'[Len(ring) + 1] = NewSlot(t, type)
        /\ ~NewSlot(t, type).submitted
    BY <1>1, <1>3, StoredRing
  <2>2. UNCHANGED <<seq, lost, losing, dropped, evidence>>
    BY <1>3 DEF Stores
  <2> QED BY <1>1, <1>2, <2>1, <2>2 DEF RingTypes
<1>4. ASSUME NEW t \in Task, NEW type \in EventTypes, Loses(t, type)
      PROVE  RingTypes
  BY <1>1, <1>2, <1>4 DEF Loses, RingTypes
<1>5. ASSUME NEW i \in DOMAIN ring, Numbers(i) \/ Submits(i)
      PROVE  RingTypes
  <2>1. seq # None
    BY <1>1, CollectorAssumption
  <2>2. /\ ring' \in Seq(Slot) /\ Len(ring') = Len(ring) /\ i \in 1 .. Len(ring)
        /\ \A k \in 1 .. Len(ring) : k # i => ring'[k] = ring[k]
        /\ Numbers(i) => ring'[i].seq = seq
        /\ Submits(i) => ring'[i].seq = ring[i].seq /\ ring[i].seq # None
    BY <1>1, <1>5, TouchedRing DEF Submits
  <2>3. ring'[i].seq # None
    BY <1>5, <2>1, <2>2
  <2>4. /\ UNCHANGED <<lost, losing, dropped, evidence>>
        /\ seq' \in Nat
    BY <1>1, <1>5 DEF Numbers, Submits
  <2> QED BY <1>1, <1>2, <2>2, <2>3, <2>4 DEF RingTypes
<1>6. ASSUME Reads PROVE RingTypes
  <2>1. UNCHANGED <<seq, lost, losing, dropped>>
    BY <1>6 DEF Reads
  <2>2. /\ ring' \in Seq(Slot) /\ Len(ring') = Len(ring) - 1
        /\ evidence' \in Seq(Sample)
        /\ \A k \in 1 .. Len(ring') : ring'[k] = ring[k + 1]
    BY <1>6, ReadRing
  <2>3. Len(ring') <= Capacity
    BY <1>1, <2>2
  <2>4. \A k \in 1 .. Len(ring') : ring'[k].submitted => ring'[k].seq # None
    <3>1. \A k \in 1 .. Len(ring') : k + 1 \in 1 .. Len(ring)
      BY <1>1, <2>2
    <3> QED BY <1>2, <2>2, <3>1
  <2> QED BY <1>1, <2>1, <2>2, <2>3, <2>4 DEF RingTypes
<1>7. ASSUME Rests \/ \E t \in Task : Passes(t) PROVE RingTypes
  BY <1>1, <1>2, <1>7 DEF Rests, Passes, RingTypes
<1>8. ASSUME NEW e \in losing, Counts(e) PROVE RingTypes
  BY <1>1, <1>2, <1>8 DEF Counts, RingTypes
<1> QED BY <1>3, <1>4, <1>5, <1>6, <1>7, <1>8 DEF Effect

LEMMA TypeInit == Init => TypeInv
<1> SUFFICES ASSUME Init PROVE TypeInv
  OBVIOUS
<1>1. /\ ring = <<>> /\ evidence = <<>> /\ dropped = {} /\ losing = {}
      /\ Capacity \in Nat \ {0}
  BY CollectorAssumption DEF Init
<1>2. at \in Progress
  BY DEF Init, Progress, Stages
<1>3. /\ ring \in Seq(Slot) /\ Len(ring) <= Capacity
      /\ evidence \in Seq(Sample)
  BY <1>1, EmptySeq
<1>4. SubmittedIsNumbered
  BY <1>1 DEF SubmittedIsNumbered
<1> QED BY <1>1, <1>2, <1>3, <1>4
        DEF Init, TypeInv, TypeOK, SeqNumbers, Progress, Stages, Slot, Sample

LEMMA TypeStep ==
  ASSUME TypeInv, [Next]_vars
  PROVE  TypeInv'
<1>0. TypeOK /\ ring \in Seq(Slot) /\ evidence \in Seq(Sample)
      /\ DOMAIN ring = 1 .. Len(ring) /\ Capacity \in Nat
  BY SlotType, LenProperties, CollectorAssumption DEF TypeInv
<1>1. /\ attached' \subseteq EventTypes
      /\ monitor' \in {"attach-exec", "attach-attempt", "listening", "sleeping",
                       "draining", "reading-state", "finished", "killed"}
      /\ handler' \in BOOLEAN
      /\ sigint' \in {"none", "pending", "taken"}
      /\ reported' \in Nat \union {None}
  <2>1. ASSUME NEW t \in Task,
               EnterExecve(t) \/ EnterExecveat(t) \/ ProcessExec(t) \/ FailExec(t)
                 \/ Probe(t)
        PROVE  UNCHANGED monitorVars
    BY <2>1 DEF EnterExecve, EnterExecveat, ProcessExec, FailExec, Probe,
       NumberEvent, Submit, CountLost
  <2>2. CASE AttachExec \/ AttachAttempt \/ ReadSample \/ Select
    BY <1>0, <2>2 DEF AttachExec, AttachAttempt, ReadSample, Select, TypeOK, EventTypes
  <2>3. CASE WakeByTimer \/ WakeByCtrlC \/ EndDrain \/ ReadMonitorState
    BY <1>0, <2>3 DEF WakeByTimer, WakeByCtrlC, EndDrain, ReadMonitorState, TypeOK
  <2>4. CASE Interrupt \/ UNCHANGED vars
    BY <1>0, <2>4 DEF Interrupt, vars, TypeOK
  <2> QED BY <1>0, <2>1, <2>2, <2>3, <2>4 DEF Next, Monitor, monitorVars, TypeOK
<1>2. Effect /\ at' \in Progress
  BY <1>0, NextEffect
<1>3. RingTypes
  BY <1>2, EffectTypes
<1>4. SubmittedIsNumbered'
  BY <1>3, LenProperties DEF RingTypes, SubmittedIsNumbered
<1> QED BY <1>1, <1>2, <1>3, <1>4
        DEF RingTypes, TypeInv, TypeOK, Slot, Sample, Progress, Stages

(* Every variable of the collection path keeps its type; the ring never    *)
(* holds more than its capacity, and what is read has a number.            *)
THEOREM CollectorTypeCorrect == Spec => []TypeOK
<1>1. TypeInv => TypeOK
  BY DEF TypeInv
<1> QED BY <1>1, TypeInit, TypeStep, PTL DEF Spec

-----------------------------------------------------------------------------
(* The inductive invariant of the accounting: the history flags of a task  *)
(* are set by its tracepoints only, in order; an event in the ring, in the *)
(* evidence or lost comes from a tracepoint its task has passed; a loss is *)
(* counted once; and the attempt of an exec event is ahead of it wherever  *)
(* the two are.                                                            *)
History ==
  \A t \in Task : /\ at[t].stage = "user" => ~at[t].attempt
                  /\ at[t].stage # "done" => ~at[t].exec

OnlyTraced ==
  /\ \A i \in DOMAIN ring : at[ring[i].task][ring[i].type]
  /\ \A i \in DOMAIN evidence : at[evidence[i].task][evidence[i].type]
  /\ \A e \in losing \union dropped : at[e.task][e.type]

LossesApart == losing \cap dropped = {}

EvidenceOrdered(t, j) ==
  evidence[j].task = t /\ evidence[j].type = "exec" /\ at[t].attempt =>
    \/ Dropped(t, "attempt")
    \/ \E i \in 1 .. j - 1 :
         evidence[i].type = "attempt" /\ evidence[i].task = t

RingOrdered(t, j) ==
  ring[j].task = t /\ ring[j].type = "exec" /\ at[t].attempt =>
    \/ Recorded(t, "attempt")
    \/ Dropped(t, "attempt")
    \/ \E i \in 1 .. j - 1 : ring[i].type = "attempt" /\ ring[i].task = t

AttemptFirst ==
  \A t \in Task : /\ \A j \in DOMAIN evidence : EvidenceOrdered(t, j)
                  /\ \A j \in DOMAIN ring : RingOrdered(t, j)

AccountInv ==
  /\ TypeInv
  /\ History
  /\ OnlyTraced
  /\ LossesApart
  /\ IsFiniteSet(dropped)
  /\ EveryEventAccounted
  /\ AttemptFirst

(* Both states of a step, position by position.                            *)
LEMMA Positions ==
  ASSUME TypeInv, Effect
  PROVE  /\ ring \in Seq(Slot) /\ ring' \in Seq(Slot)
         /\ evidence \in Seq(Sample) /\ evidence' \in Seq(Sample)
         /\ DOMAIN ring = 1 .. Len(ring) /\ Len(ring) \in Nat
         /\ DOMAIN ring' = 1 .. Len(ring') /\ Len(ring') \in Nat
         /\ DOMAIN evidence = 1 .. Len(evidence) /\ Len(evidence) \in Nat
         /\ DOMAIN evidence' = 1 .. Len(evidence') /\ Len(evidence') \in Nat
         /\ \A i \in DOMAIN ring : ring[i] \in Slot
         /\ \A i \in DOMAIN evidence : evidence[i] \in Sample
<1>1. /\ ring \in Seq(Slot) /\ evidence \in Seq(Sample)
      /\ ring' \in Seq(Slot) /\ evidence' \in Seq(Sample)
  BY SlotType, EffectTypes DEF TypeInv, RingTypes
<1> QED BY <1>1, LenProperties, ElementOfSeq

(* A tracepoint marks a task that was not marked yet.                      *)
LEMMA FreshMark ==
  ASSUME TypeInv, History, NEW t \in Task, NEW type \in EventTypes,
         Marks(t, type)
  PROVE  /\ ~at[t][type]
         /\ type = "attempt" => ~at[t].exec
         /\ \A u \in Task, y \in EventTypes : at[u][y] => at'[u][y]
BY DEF History, Marks, Before, EventTypes

LEMMA HistoryStep ==
  ASSUME TypeInv, History, Effect
  PROVE  History'
<1>1. ASSUME NEW t \in Task, NEW type \in EventTypes, Marks(t, type)
      PROVE  History'
  <2>1. CASE type = "attempt"
    BY <1>1, <2>1 DEF History, Marks, Before, After, EventTypes
  <2>2. CASE type = "exec"
    BY <1>1, <2>2 DEF History, Marks, Before, After, EventTypes
  <2> QED BY <2>1, <2>2 DEF EventTypes
<1>2. ASSUME NEW t \in Task, Passes(t) PROVE History'
  BY <1>2 DEF History, Passes, EventTypes
<1>3. CASE UNCHANGED at
  BY <1>3 DEF History
<1> QED BY <1>1, <1>2, <1>3
        DEF Effect, Stores, Loses, Numbers, Submits, Counts, Reads, Rests

LEMMA TracedStep ==
  ASSUME TypeInv, History, OnlyTraced, Effect
  PROVE  OnlyTraced'
<1>1. /\ DOMAIN ring = 1 .. Len(ring) /\ DOMAIN ring' = 1 .. Len(ring')
      /\ DOMAIN evidence = 1 .. Len(evidence)
      /\ DOMAIN evidence' = 1 .. Len(evidence')
      /\ Len(ring) \in Nat /\ Len(evidence) \in Nat
      /\ losing \union dropped \subseteq [task : Task, type : EventTypes]
      /\ \A i \in DOMAIN ring : ring[i].task \in Task /\ ring[i].type \in EventTypes
      /\ \A i \in DOMAIN evidence :
           evidence[i].task \in Task /\ evidence[i].type \in EventTypes
  BY Positions DEF TypeInv, TypeOK, Slot, Sample
<1>2. ASSUME NEW t \in Task, NEW type \in EventTypes, Stores(t, type)
      PROVE  OnlyTraced'
  <2>1. /\ \A u \in Task, y \in EventTypes : at[u][y] => at'[u][y]
        /\ at'[t][type]
        /\ UNCHANGED <<evidence, losing, dropped>>
    BY <1>2, FreshMark DEF Stores, Marks
  <2>2. /\ Len(ring') = Len(ring) + 1
        /\ \A i \in 1 .. Len(ring) : ring'[i] = ring[i]
        /\ ring'[Len(ring) + 1].task = t /\ ring'[Len(ring) + 1].type = type
    BY <1>2, StoredRing DEF TypeInv
  <2>3. \A i \in DOMAIN ring' : at'[ring'[i].task][ring'[i].type]
    BY <1>1, <2>1, <2>2 DEF OnlyTraced
  <2>4. /\ \A i \in DOMAIN evidence' : at'[evidence'[i].task][evidence'[i].type]
        /\ \A e \in losing' \union dropped' : at'[e.task][e.type]
    BY <1>1, <2>1 DEF OnlyTraced
  <2> QED BY <2>3, <2>4 DEF OnlyTraced
<1>3. ASSUME NEW t \in Task, NEW type \in EventTypes, Loses(t, type)
      PROVE  OnlyTraced'
  <2>1. /\ \A u \in Task, y \in EventTypes : at[u][y] => at'[u][y]
        /\ at'[t][type]
    BY <1>3, FreshMark DEF Loses, Marks
  <2>2. /\ UNCHANGED <<ring, evidence, dropped>>
        /\ losing' = losing \union {[task |-> t, type |-> type]}
    BY <1>3 DEF Loses
  <2> QED BY <1>1, <2>1, <2>2 DEF OnlyTraced
<1>4. ASSUME NEW i \in DOMAIN ring, Numbers(i) \/ Submits(i) PROVE OnlyTraced'
  <2>1. /\ Len(ring') = Len(ring)
        /\ \A k \in 1 .. Len(ring) : /\ ring'[k].task = ring[k].task
                                     /\ ring'[k].type = ring[k].type
    BY <1>4, TouchedRing DEF TypeInv
  <2>2. UNCHANGED <<at, evidence, losing, dropped>>
    BY <1>4 DEF Numbers, Submits
  <2> QED BY <1>1, <2>1, <2>2 DEF OnlyTraced
<1>5. ASSUME Reads PROVE OnlyTraced'
  <2>1. /\ 1 \in 1 .. Len(ring) /\ Len(ring') = Len(ring) - 1
        /\ \A i \in 1 .. Len(ring') : ring'[i] = ring[i + 1]
        /\ Len(evidence') = Len(evidence) + 1
        /\ \A i \in 1 .. Len(evidence) : evidence'[i] = evidence[i]
        /\ evidence'[Len(evidence) + 1].task = ring[1].task
        /\ evidence'[Len(evidence) + 1].type = ring[1].type
    BY <1>5, ReadRing
  <2>2. UNCHANGED <<at, losing, dropped>>
    BY <1>5 DEF Reads
  <2>3. \A i \in DOMAIN ring' : at'[ring'[i].task][ring'[i].type]
    <3>1. \A i \in DOMAIN ring' : i + 1 \in DOMAIN ring /\ ring'[i] = ring[i + 1]
      BY <1>1, <2>1
    <3> QED BY <2>2, <3>1, <1>1 DEF OnlyTraced
  <2>4. \A i \in DOMAIN evidence' : at'[evidence'[i].task][evidence'[i].type]
    <3>1. \A i \in DOMAIN evidence' :
            \/ i \in DOMAIN evidence /\ evidence'[i] = evidence[i]
            \/ i = Len(evidence) + 1
      BY <1>1, <2>1
    <3>2. 1 \in DOMAIN ring
      BY <1>1, <2>1
    <3> QED BY <1>1, <2>1, <2>2, <3>1, <3>2 DEF OnlyTraced
  <2> QED BY <2>2, <2>3, <2>4 DEF OnlyTraced
<1>6. ASSUME Rests \/ \E t \in Task : Passes(t) PROVE OnlyTraced'
  BY <1>1, <1>6 DEF OnlyTraced, Rests, Passes
<1>7. ASSUME NEW e \in losing, Counts(e) PROVE OnlyTraced'
  BY <1>7 DEF OnlyTraced, Counts
<1> QED BY <1>2, <1>3, <1>4, <1>5, <1>6, <1>7 DEF Effect

-----------------------------------------------------------------------------
(* What is recorded stays, what was counted lost stays counted, and a slot *)
(* leaves the ring for the evidence only.                                  *)
LEMMA EvidenceGrows ==
  ASSUME TypeInv, Effect
  PROVE  /\ Len(evidence) <= Len(evidence')
         /\ \A i \in 1 .. Len(evidence) : evidence'[i] = evidence[i]
         /\ dropped \subseteq dropped'
<1>0. Len(evidence) \in Nat
  BY Positions
<1>1. CASE Reads
  BY <1>0, <1>1, ReadRing DEF Reads
<1>2. CASE evidence' = evidence /\ dropped \subseteq dropped'
  BY <1>0, <1>2
<1> QED BY <1>1, <1>2
        DEF Effect, Stores, Loses, Passes, Numbers, Submits, Counts, Rests

LEMMA AccountKept ==
  ASSUME TypeInv, Effect, NEW t \in Task, NEW type \in EventTypes,
         \/ Recorded(t, type) \/ InRing(t, type)
         \/ Losing(t, type) \/ Dropped(t, type)
  PROVE  \/ Recorded(t, type)' \/ InRing(t, type)'
         \/ Losing(t, type)' \/ Dropped(t, type)'
<1>0. /\ DOMAIN ring = 1 .. Len(ring) /\ DOMAIN ring' = 1 .. Len(ring')
      /\ DOMAIN evidence = 1 .. Len(evidence)
      /\ DOMAIN evidence' = 1 .. Len(evidence')
      /\ Len(ring) \in Nat /\ Len(evidence) \in Nat /\ Len(evidence') \in Nat
  BY Positions
<1>1. CASE Recorded(t, type)
  BY <1>0, <1>1, EvidenceGrows DEF Recorded
<1>2. CASE Dropped(t, type)
  BY <1>2, EvidenceGrows DEF Dropped
<1>3. CASE InRing(t, type)
  <2>1. PICK i \in 1 .. Len(ring) : ring[i].task = t /\ ring[i].type = type
    BY <1>0, <1>3 DEF InRing
  <2>2. ASSUME NEW u \in Task, NEW y \in EventTypes, Stores(u, y)
        PROVE  InRing(t, type)'
    <3>1. Len(ring') = Len(ring) + 1 /\ ring'[i] = ring[i]
      BY <2>1, <2>2, StoredRing DEF TypeInv
    <3> QED BY <1>0, <2>1, <3>1 DEF InRing
  <2>3. ASSUME NEW k \in DOMAIN ring, Numbers(k) \/ Submits(k)
        PROVE  InRing(t, type)'
    <3>1. /\ Len(ring') = Len(ring)
          /\ ring'[i].task = ring[i].task /\ ring'[i].type = ring[i].type
      BY <2>1, <2>3, TouchedRing DEF TypeInv
    <3> QED BY <1>0, <2>1, <3>1 DEF InRing
  <2>4. ASSUME Reads PROVE Recorded(t, type)' \/ InRing(t, type)'
    <3>1. /\ Len(ring') = Len(ring) - 1
          /\ \A k \in 1 .. Len(ring') : ring'[k] = ring[k + 1]
          /\ Len(evidence') = Len(evidence) + 1
          /\ evidence'[Len(evidence) + 1].task = ring[1].task
          /\ evidence'[Len(evidence) + 1].type = ring[1].type
      BY <2>4, ReadRing
    <3>2. CASE i = 1
      BY <1>0, <2>1, <3>1, <3>2 DEF Recorded
    <3>3. CASE i # 1
      <4>1. i - 1 \in 1 .. Len(ring') /\ ring'[i - 1] = ring[i]
        BY <1>0, <3>1, <3>3
      <4> QED BY <1>0, <2>1, <4>1 DEF InRing
    <3> QED BY <3>2, <3>3
  <2>5. ASSUME UNCHANGED ring PROVE InRing(t, type)'
    BY <1>3, <2>5 DEF InRing
  <2> QED BY <2>2, <2>3, <2>4, <2>5 DEF Effect, Loses, Counts, Passes, Rests
<1>4. CASE Losing(t, type)
  <2>1. CASE \E e \in losing : Counts(e)
    BY <1>4, <2>1 DEF Counts, Losing, Dropped
  <2>2. CASE losing \subseteq losing'
    BY <1>4, <2>2 DEF Losing
  <2> QED BY <2>1, <2>2
          DEF Effect, Stores, Loses, Passes, Numbers, Submits, Reads, Rests
<1> QED BY <1>1, <1>2, <1>3, <1>4

LEMMA AccountStep ==
  ASSUME TypeInv, History, OnlyTraced, LossesApart, IsFiniteSet(dropped),
         EveryEventAccounted, Effect
  PROVE  LossesApart' /\ IsFiniteSet(dropped') /\ EveryEventAccounted'
<1>1. LossesApart' /\ IsFiniteSet(dropped') /\ lost' = Cardinality(dropped')
  <2>1. ASSUME NEW t \in Task, NEW type \in EventTypes, Loses(t, type)
        PROVE  LossesApart'
    <3>1. ~at[t][type]
      BY <2>1, FreshMark DEF Loses
    <3>2. [task |-> t, type |-> type] \notin dropped
      BY <3>1 DEF OnlyTraced
    <3> QED BY <2>1, <3>2 DEF Loses, LossesApart
  <2>2. ASSUME NEW e \in losing, Counts(e)
        PROVE  LossesApart' /\ IsFiniteSet(dropped') /\ lost' = Cardinality(dropped')
    <3>1. e \notin dropped
      BY DEF LossesApart
    <3>2. LossesApart'
      BY <2>2 DEF Counts, LossesApart
    <3> QED BY <2>2, <3>1, <3>2, FS_AddElement DEF Counts, EveryEventAccounted
  <2>3. CASE UNCHANGED <<losing, dropped, lost>>
    BY <2>3 DEF EveryEventAccounted, LossesApart
  <2>4. UNCHANGED <<dropped, lost>>
          => IsFiniteSet(dropped') /\ lost' = Cardinality(dropped')
    BY DEF EveryEventAccounted
  <2> QED BY <2>1, <2>2, <2>3, <2>4
          DEF Effect, Stores, Loses, Passes, Numbers, Submits, Reads, Rests
<1>2. ASSUME NEW t \in Task, NEW type \in EventTypes, at'[t][type]
      PROVE  \/ Recorded(t, type)' \/ InRing(t, type)'
             \/ Losing(t, type)' \/ Dropped(t, type)'
  <2>1. CASE at[t][type]
    BY <2>1, AccountKept DEF EveryEventAccounted
  <2>2. CASE ~at[t][type]
    <3>1. PICK u \in Task, y \in EventTypes : Stores(u, y) \/ Loses(u, y)
      BY <1>2, <2>2 DEF Effect, Passes, Numbers, Submits, Counts, Reads, Rests
    <3>2. u = t /\ y = type
      BY <1>2, <2>2, <3>1 DEF Stores, Loses, Marks
    <3>3. CASE Stores(t, type)
      <4>1. /\ Len(ring') = Len(ring) + 1
            /\ ring'[Len(ring) + 1].task = t /\ ring'[Len(ring) + 1].type = type
        BY <3>3, StoredRing DEF TypeInv
      <4>2. DOMAIN ring' = 1 .. Len(ring') /\ Len(ring) \in Nat
        BY Positions
      <4> QED BY <4>1, <4>2 DEF InRing
    <3>4. CASE Loses(t, type)
      BY <3>4 DEF Loses, Losing
    <3> QED BY <3>1, <3>2, <3>3, <3>4
  <2> QED BY <2>1, <2>2
<1> QED BY <1>1, <1>2 DEF EveryEventAccounted

-----------------------------------------------------------------------------
(* An exec event stored now finds its attempt accounted for: it is ahead   *)
(* in the evidence or in the ring, or is counted lost. A task that passes  *)
(* the attempt's tracepoint now has no exec event anywhere yet.            *)
LEMMA OrderStep ==
  ASSUME TypeInv, History, OnlyTraced, EveryEventAccounted, AttemptFirst, Effect
  PROVE  AttemptFirst'
<1> SUFFICES ASSUME NEW t \in Task
             PROVE  /\ \A j \in DOMAIN evidence' : EvidenceOrdered(t, j)'
                    /\ \A j \in DOMAIN ring' : RingOrdered(t, j)'
  BY DEF AttemptFirst
<1>0. /\ DOMAIN ring = 1 .. Len(ring) /\ DOMAIN ring' = 1 .. Len(ring')
      /\ DOMAIN evidence = 1 .. Len(evidence)
      /\ DOMAIN evidence' = 1 .. Len(evidence')
      /\ Len(ring) \in Nat /\ Len(evidence) \in Nat /\ Len(evidence') \in Nat
  BY Positions
<1>1. at[t].exec /\ at'[t].attempt => at[t].attempt
  <2>1. ASSUME NEW u \in Task, NEW y \in EventTypes, Marks(u, y),
               at[t].exec, at'[t].attempt
        PROVE  at[t].attempt
    <3>1. CASE u = t /\ y = "attempt"
      BY <2>1, <3>1, FreshMark
    <3>2. CASE ~(u = t /\ y = "attempt")
      BY <2>1, <3>2 DEF Marks, EventTypes
    <3> QED BY <3>1, <3>2
  <2>2. ASSUME NEW u \in Task, Passes(u), at'[t].attempt PROVE at[t].attempt
    BY <2>2 DEF Passes, EventTypes
  <2>3. ASSUME UNCHANGED at, at'[t].attempt PROVE at[t].attempt
    BY <2>3
  <2> QED BY <2>1, <2>2, <2>3
          DEF Effect, Stores, Loses, Numbers, Submits, Counts, Reads, Rests
<1>2. /\ Dropped(t, "attempt") => Dropped(t, "attempt")'
      /\ Recorded(t, "attempt") => Recorded(t, "attempt")'
  BY <1>0, EvidenceGrows DEF Dropped, Recorded
<1>3. ASSUME NEW j \in 1 .. Len(evidence) PROVE EvidenceOrdered(t, j)'
  <2>1. evidence[j].task = t /\ evidence[j].type = "exec" => at[t].exec
    BY <1>0 DEF OnlyTraced
  <2>2. EvidenceOrdered(t, j)
    BY <1>0 DEF AttemptFirst
  <2>3. \A i \in 1 .. j : evidence'[i] = evidence[i]
    BY <1>0, EvidenceGrows
  <2> QED BY <1>0, <1>1, <1>2, <2>1, <2>2, <2>3 DEF EvidenceOrdered
<1>4. ASSUME NEW j \in 1 .. Len(ring), ring[j].task = t, ring[j].type = "exec",
             at'[t].attempt
      PROVE  \/ Recorded(t, "attempt")' \/ Dropped(t, "attempt")'
             \/ \E i \in 1 .. j - 1 : ring[i].type = "attempt"
                                     /\ ring[i].task = t
  <2>1. at[t].exec
    BY <1>0, <1>4 DEF OnlyTraced
  <2> QED BY <1>0, <1>1, <1>2, <1>4, <2>1 DEF AttemptFirst, RingOrdered
<1>5. ASSUME Len(ring') = Len(ring), evidence' = evidence,
             \A k \in 1 .. Len(ring) : /\ ring'[k].task = ring[k].task
                                       /\ ring'[k].type = ring[k].type
      PROVE  /\ \A j \in DOMAIN evidence' : EvidenceOrdered(t, j)'
             /\ \A j \in DOMAIN ring' : RingOrdered(t, j)'
  <2>1. ASSUME NEW j \in DOMAIN ring' PROVE RingOrdered(t, j)'
    BY <1>0, <1>4, <1>5 DEF RingOrdered
  <2> QED BY <1>0, <1>3, <1>5, <2>1
<1>6. ASSUME NEW u \in Task, NEW type \in EventTypes, Stores(u, type)
      PROVE  /\ \A j \in DOMAIN evidence' : EvidenceOrdered(t, j)'
             /\ \A j \in DOMAIN ring' : RingOrdered(t, j)'
  <2>1. /\ Len(ring') = Len(ring) + 1
        /\ \A i \in 1 .. Len(ring) : ring'[i] = ring[i]
        /\ ring'[Len(ring) + 1].task = u /\ ring'[Len(ring) + 1].type = type
    BY <1>6, StoredRing DEF TypeInv
  <2>2. evidence' = evidence
    BY <1>6 DEF Stores
  <2>3. ASSUME NEW j \in 1 .. Len(ring) PROVE RingOrdered(t, j)'
    BY <1>0, <1>4, <2>1 DEF RingOrdered
  <2>4. RingOrdered(t, Len(ring))'
    <3> SUFFICES ASSUME u = t, type = "exec", at'[t].attempt
                 PROVE  \/ Recorded(t, "attempt")' \/ Dropped(t, "attempt")'
                        \/ \E i \in 1 .. Len(ring) :
                             ring'[i].type = "attempt" /\ ring'[i].task = t
      BY <1>0, <2>1 DEF RingOrdered
    <3>1. at[t].attempt
      BY <1>6 DEF Stores, Marks, EventTypes
    <3>2. \/ Recorded(t, "attempt") \/ InRing(t, "attempt")
          \/ Losing(t, "attempt") \/ Dropped(t, "attempt")
      BY <3>1 DEF EveryEventAccounted, EventTypes
    <3>3. ~Losing(t, "attempt")
      BY <1>6 DEF Stores
    <3> QED BY <1>0, <1>2, <2>1, <3>2, <3>3 DEF InRing
  <2> QED BY <1>0, <1>3, <2>1, <2>2, <2>3, <2>4
<1>7. ASSUME Reads
      PROVE  /\ \A j \in DOMAIN evidence' : EvidenceOrdered(t, j)'
             /\ \A j \in DOMAIN ring' : RingOrdered(t, j)'
  <2>1. /\ 1 \in 1 .. Len(ring) /\ Len(ring') = Len(ring) - 1
        /\ \A k \in 1 .. Len(ring') : ring'[k] = ring[k + 1]
        /\ Len(evidence') = Len(evidence) + 1
        /\ \A i \in 1 .. Len(evidence) : evidence'[i] = evidence[i]
        /\ evidence'[Len(evidence) + 1].task = ring[1].task
        /\ evidence'[Len(evidence) + 1].type = ring[1].type
    BY <1>7, ReadRing
  <2>2. EvidenceOrdered(t, Len(evidence))'
    <3> SUFFICES ASSUME ring[1].task = t, ring[1].type = "exec", at'[t].attempt
                 PROVE  \/ \E i \in 1 .. Len(evidence) :
                             evidence'[i].type = "attempt" /\ evidence'[i].task = t
                        \/ Dropped(t, "attempt")'
      BY <1>0, <2>1 DEF EvidenceOrdered
    <3>1. Recorded(t, "attempt") \/ Dropped(t, "attempt")
      <4>1. at[t].exec
        BY <1>0, <2>1 DEF OnlyTraced
      <4> QED BY <1>0, <1>1, <2>1, <4>1 DEF AttemptFirst, RingOrdered
    <3> QED BY <1>0, <1>2, <2>1, <3>1 DEF Recorded
  <2>3. ASSUME NEW j \in 1 .. Len(ring') PROVE RingOrdered(t, j)'
    <3>1. /\ j + 1 \in 1 .. Len(ring) /\ ring'[j] = ring[j + 1]
          /\ j = (j + 1) - 1
      BY <1>0, <2>1
    <3> SUFFICES ASSUME ring'[j].task = t, ring'[j].type = "exec", at'[t].attempt
                 PROVE  \/ Recorded(t, "attempt")' \/ Dropped(t, "attempt")'
                        \/ \E i \in 1 .. j - 1 :
                             ring'[i].type = "attempt" /\ ring'[i].task = t
      BY DEF RingOrdered
    <3>2. \/ Recorded(t, "attempt")' \/ Dropped(t, "attempt")'
          \/ \E i \in 1 .. j : ring[i].type = "attempt" /\ ring[i].task = t
      BY <1>4, <3>1
    <3>3. ASSUME NEW i \in 1 .. j, ring[i].type = "attempt", ring[i].task = t
          PROVE  \/ Recorded(t, "attempt")'
                 \/ \E k \in 1 .. j - 1 :
                      ring'[k].type = "attempt" /\ ring'[k].task = t
      <4>1. CASE i = 1
        BY <1>0, <2>1, <3>3, <4>1 DEF Recorded
      <4>2. CASE i # 1
        <5>1. i - 1 \in 1 .. j - 1 /\ ring'[i - 1] = ring[i]
          BY <1>0, <2>1, <3>1, <4>2
        <5> QED BY <3>3, <5>1
      <4> QED BY <4>1, <4>2
    <3> QED BY <3>2, <3>3
  <2> QED BY <1>0, <1>3, <2>1, <2>2, <2>3
<1>8. ASSUME UNCHANGED <<ring, evidence>>
      PROVE  /\ \A j \in DOMAIN evidence' : EvidenceOrdered(t, j)'
             /\ \A j \in DOMAIN ring' : RingOrdered(t, j)'
  BY <1>5, <1>8
<1>9. ASSUME NEW i \in DOMAIN ring, Numbers(i) \/ Submits(i)
      PROVE  /\ \A j \in DOMAIN evidence' : EvidenceOrdered(t, j)'
             /\ \A j \in DOMAIN ring' : RingOrdered(t, j)'
  BY <1>5, <1>9, TouchedRing DEF TypeInv, Numbers, Submits
<1> QED BY <1>6, <1>7, <1>8, <1>9 DEF Effect, Loses, Counts, Passes, Rests

LEMMA AccountInit == Init => AccountInv
<1> SUFFICES ASSUME Init PROVE AccountInv
  OBVIOUS
<1>1. ring = <<>> /\ evidence = <<>> /\ losing = {} /\ dropped = {} /\ lost = 0
  BY DEF Init
<1>2. History
  BY DEF Init, History
<1>3. OnlyTraced /\ LossesApart /\ AttemptFirst
  BY <1>1 DEF OnlyTraced, LossesApart, AttemptFirst
<1>4. \A t \in Task, type \in EventTypes : ~at[t][type]
  BY DEF Init, EventTypes
<1>5. IsFiniteSet(dropped) /\ EveryEventAccounted
  BY <1>1, <1>4, FS_EmptySet DEF EveryEventAccounted
<1> QED BY <1>2, <1>3, <1>5, TypeInit DEF AccountInv

LEMMA AccountNext ==
  ASSUME AccountInv, [Next]_vars
  PROVE  AccountInv'
<1>1. TypeInv' /\ Effect
  BY TypeStep, NextEffect DEF AccountInv, TypeInv
<1> QED BY <1>1, HistoryStep, TracedStep, AccountStep, OrderStep DEF AccountInv

LEMMA AccountInvariant == Spec => []AccountInv
BY AccountNext, AccountInit, PTL DEF Spec

(* What a probe saw is never lost in silence: it is in the evidence or in  *)
(* the ring, or one of the events MONITOR_STATE.lost counts exactly, or    *)
(* about to be counted by its probe, for any number of tasks and any       *)
(* capacity of EVENTS.                                                     *)
THEOREM CollectorAccountsEveryEvent == Spec => []EveryEventAccounted
<1>1. AccountInv => EveryEventAccounted
  BY DEF AccountInv
<1> QED BY <1>1, AccountInvariant, PTL

(* An exec event is never read before the attempt that judges it, when the *)
(* probe saw that attempt: else the attempt is dropped and lost is not 0.  *)
THEOREM CollectorOrdersAttempts == Spec => []AttemptPrecedesExec
<1>1. ASSUME AccountInv PROVE AttemptPrecedesExec
  <2>1. \A t \in Task : Dropped(t, "attempt") => lost > 0
    <3>1. dropped # {} => Cardinality(dropped) # 0
      BY <1>1, FS_EmptySet DEF AccountInv
    <3> QED BY <1>1, <3>1
            DEF AccountInv, EveryEventAccounted, Dropped, TypeInv, TypeOK
  <2>2. \A j \in DOMAIN evidence : evidence[j].task \in Task
    <3>1. evidence \in Seq(Sample)
      BY <1>1, SlotType DEF AccountInv, TypeInv
    <3>2. \A j \in DOMAIN evidence : evidence[j] \in Sample
      BY <3>1, LenProperties, ElementOfSeq
    <3> QED BY <3>2 DEF Sample
  <2> QED BY <1>1, <2>1, <2>2
          DEF AccountInv, AttemptFirst, EvidenceOrdered, AttemptPrecedesExec
<1> QED BY <1>1, AccountInvariant, PTL

-----------------------------------------------------------------------------
(* The numbers: those read, those ahead in the ring, and the slots that    *)
(* have none yet. With the types, NumbersAreGapFree is inductive.          *)
ReadNumbers  == {evidence[i].seq : i \in DOMAIN evidence}
AheadNumbers == {ring[i].seq : i \in DOMAIN ring} \ {None}
Unnumbered   == {i \in DOMAIN ring : ring[i].seq = None}

GapFree ==
  /\ ReadNumbers \union AheadNumbers = 0 .. seq - 1
  /\ seq + Cardinality(Unnumbered) = Len(evidence) + Len(ring)

LEMMA NumberingFinite ==
  TypeInv => /\ IsFiniteSet(Unnumbered) /\ Cardinality(Unnumbered) \in Nat
             /\ seq \in Nat /\ seq # None
             /\ Len(ring) \in Nat /\ Len(evidence) \in Nat
             /\ DOMAIN ring = 1 .. Len(ring)
             /\ DOMAIN evidence = 1 .. Len(evidence)
<1> SUFFICES ASSUME TypeInv
             PROVE  /\ IsFiniteSet(Unnumbered) /\ Cardinality(Unnumbered) \in Nat
                    /\ seq \in Nat /\ seq # None
                    /\ Len(ring) \in Nat /\ Len(evidence) \in Nat
                    /\ DOMAIN ring = 1 .. Len(ring)
                    /\ DOMAIN evidence = 1 .. Len(evidence)
  OBVIOUS
<1>1. /\ Len(ring) \in Nat /\ Len(evidence) \in Nat
      /\ DOMAIN ring = 1 .. Len(ring) /\ DOMAIN evidence = 1 .. Len(evidence)
  BY SlotType, LenProperties DEF TypeInv
<1>2. IsFiniteSet(1 .. Len(ring)) /\ Unnumbered \in SUBSET (1 .. Len(ring))
  BY <1>1, FS_Interval DEF Unnumbered
<1>3. IsFiniteSet(Unnumbered)
  BY <1>2, FS_Subset
<1> QED BY <1>1, <1>3, FS_CardinalityType, CollectorAssumption DEF TypeInv, TypeOK

LEMMA GapFreeStep ==
  ASSUME TypeInv, GapFree, Effect
  PROVE  GapFree'
<1>0. /\ IsFiniteSet(Unnumbered) /\ Cardinality(Unnumbered) \in Nat
      /\ seq \in Nat /\ seq # None
      /\ Len(ring) \in Nat /\ Len(evidence) \in Nat
      /\ DOMAIN ring = 1 .. Len(ring) /\ DOMAIN evidence = 1 .. Len(evidence)
      /\ DOMAIN ring' = 1 .. Len(ring')
      /\ DOMAIN evidence' = 1 .. Len(evidence')
  BY NumberingFinite, Positions
<1>1. ASSUME NEW t \in Task, NEW type \in EventTypes, Stores(t, type)
      PROVE  GapFree'
  <2>1. /\ Len(ring') = Len(ring) + 1
        /\ \A i \in 1 .. Len(ring) : ring'[i] = ring[i]
        /\ ring'[Len(ring) + 1].seq = None
    BY <1>1, StoredRing DEF TypeInv
  <2>2. evidence' = evidence /\ seq' = seq
    BY <1>1 DEF Stores
  <2>3. Unnumbered' = Unnumbered \union {Len(ring) + 1}
    BY <1>0, <2>1 DEF Unnumbered
  <2>4. Len(ring) + 1 \notin Unnumbered
    BY <1>0 DEF Unnumbered
  <2>5. Cardinality(Unnumbered') = Cardinality(Unnumbered) + 1
    BY <1>0, <2>3, <2>4, FS_AddElement
  <2>6. AheadNumbers' = AheadNumbers
    BY <1>0, <2>1 DEF AheadNumbers
  <2>7. ReadNumbers' = ReadNumbers
    BY <2>2 DEF ReadNumbers
  <2> QED BY <1>0, <2>1, <2>2, <2>5, <2>6, <2>7 DEF GapFree
<1>2. ASSUME NEW i \in DOMAIN ring, Numbers(i) PROVE GapFree'
  <2>1. /\ Len(ring') = Len(ring) /\ i \in 1 .. Len(ring)
        /\ \A k \in 1 .. Len(ring) : k # i => ring'[k] = ring[k]
        /\ ring'[i].seq = seq
    BY <1>2, TouchedRing DEF TypeInv
  <2>2. evidence' = evidence /\ seq' = seq + 1 /\ ring[i].seq = None
    BY <1>2 DEF Numbers
  <2>3. Unnumbered' = Unnumbered \ {i} /\ i \in Unnumbered
    BY <1>0, <2>1, <2>2 DEF Unnumbered
  <2>4. Cardinality(Unnumbered') = Cardinality(Unnumbered) - 1
    BY <1>0, <2>3, FS_RemoveElement
  <2>5. AheadNumbers' = AheadNumbers \union {seq}
    BY <1>0, <2>1, <2>2 DEF AheadNumbers
  <2>6. ReadNumbers' = ReadNumbers
    BY <2>2 DEF ReadNumbers
  <2>7. 0 .. seq' - 1 = (0 .. seq - 1) \union {seq}
    BY <1>0, <2>2
  <2> QED BY <1>0, <2>1, <2>2, <2>4, <2>5, <2>6, <2>7 DEF GapFree
<1>3. ASSUME NEW i \in DOMAIN ring, Submits(i) PROVE GapFree'
  <2>1. /\ Len(ring') = Len(ring)
        /\ \A k \in 1 .. Len(ring) : ring'[k].seq = ring[k].seq
    BY <1>0, <1>3, TouchedRing DEF TypeInv
  <2>2. evidence' = evidence /\ seq' = seq
    BY <1>3 DEF Submits
  <2>3. Unnumbered' = Unnumbered /\ AheadNumbers' = AheadNumbers
    BY <1>0, <2>1 DEF Unnumbered, AheadNumbers
  <2>4. ReadNumbers' = ReadNumbers
    BY <2>2 DEF ReadNumbers
  <2> QED BY <2>1, <2>2, <2>3, <2>4 DEF GapFree
<1>4. ASSUME Reads PROVE GapFree'
  <2>1. /\ 1 \in 1 .. Len(ring) /\ Len(ring') = Len(ring) - 1
        /\ \A k \in 1 .. Len(ring') : ring'[k] = ring[k + 1]
        /\ Len(evidence') = Len(evidence) + 1
        /\ \A k \in 1 .. Len(evidence) : evidence'[k] = evidence[k]
        /\ evidence'[Len(evidence) + 1].seq = ring[1].seq
    BY <1>4, ReadRing
  <2>2. ring[1].seq # None /\ seq' = seq
    BY <1>0, <1>4, <2>1 DEF TypeInv, SubmittedIsNumbered, Reads
  <2>3. ReadNumbers' = ReadNumbers \union {ring[1].seq}
    <3>1. \A k \in DOMAIN evidence' :
            \/ k \in DOMAIN evidence /\ evidence'[k].seq = evidence[k].seq
            \/ k = Len(evidence) + 1
      BY <1>0, <2>1
    <3>2. Len(evidence) + 1 \in DOMAIN evidence'
      BY <1>0, <2>1
    <3>3. ReadNumbers' \subseteq ReadNumbers \union {ring[1].seq}
      BY <2>1, <3>1 DEF ReadNumbers
    <3>4. ReadNumbers \subseteq ReadNumbers'
      <4>1. \A k \in DOMAIN evidence :
              k \in DOMAIN evidence' /\ evidence'[k].seq = evidence[k].seq
        BY <1>0, <2>1
      <4> QED BY <4>1 DEF ReadNumbers
    <3>5. ring[1].seq \in ReadNumbers'
      BY <2>1, <3>2 DEF ReadNumbers
    <3> QED BY <3>3, <3>4, <3>5
  <2>4. \A k \in 1 .. Len(ring) :
          k = 1 \/ (k - 1 \in 1 .. Len(ring') /\ ring'[k - 1] = ring[k])
    BY <1>0, <2>1
  <2>5. \A k \in 1 .. Len(ring') : k + 1 \in 1 .. Len(ring)
    BY <1>0, <2>1
  <2>6. AheadNumbers = AheadNumbers' \union {ring[1].seq}
    <3>1. \A k \in DOMAIN ring : ring[k].seq \in AheadNumbers' \union {ring[1].seq, None}
      BY <1>0, <2>4 DEF AheadNumbers
    <3>2. \A k \in DOMAIN ring' : ring'[k].seq \in AheadNumbers \union {None}
      BY <1>0, <2>1, <2>5 DEF AheadNumbers
    <3>3. ring[1].seq \in AheadNumbers
      BY <1>0, <2>1, <2>2 DEF AheadNumbers
    <3>4. AheadNumbers \subseteq AheadNumbers' \union {ring[1].seq}
      BY <3>1 DEF AheadNumbers
    <3>5. AheadNumbers' \subseteq AheadNumbers
      BY <3>2 DEF AheadNumbers
    <3> QED BY <3>3, <3>4, <3>5
  <2>7. ExistsBijection(Unnumbered, Unnumbered')
    <3> DEFINE shift == [k \in Unnumbered |-> k - 1]
    <3>1. \A k \in Unnumbered : k \in Nat /\ k - 1 \in Unnumbered'
      BY <1>0, <2>2, <2>4 DEF Unnumbered
    <3>2. \A k \in Unnumbered' : k \in Nat /\ k + 1 \in Unnumbered
      BY <1>0, <2>1, <2>5 DEF Unnumbered
    <3>3. shift \in [Unnumbered -> Unnumbered']
      BY <3>1
    <3>4. \A j, k \in Unnumbered : shift[j] = shift[k] => j = k
      BY <3>1
    <3>5. \A k \in Unnumbered' : \E j \in Unnumbered : shift[j] = k
      <4> TAKE k \in Unnumbered'
      <4>1. k + 1 \in Unnumbered /\ shift[k + 1] = k
        BY <3>2
      <4> QED BY <4>1
    <3> HIDE DEF shift
    <3>6. shift \in Bijection(Unnumbered, Unnumbered')
      BY <3>3, <3>4, <3>5, Fun_IsBij
    <3> QED BY <3>6, Fun_ExistsBij
  <2>8. Cardinality(Unnumbered') = Cardinality(Unnumbered)
    BY <1>0, <2>7, FS_Bijection
  <2> QED BY <1>0, <2>1, <2>2, <2>3, <2>6, <2>8 DEF GapFree
<1>5. ASSUME UNCHANGED <<ring, seq, evidence>> PROVE GapFree'
  BY <1>5 DEF GapFree, ReadNumbers, AheadNumbers, Unnumbered
<1> QED BY <1>1, <1>2, <1>3, <1>4, <1>5 DEF Effect, Loses, Counts, Passes, Rests

LEMMA GapFreeInit == Init => GapFree
<1> SUFFICES ASSUME Init PROVE GapFree
  OBVIOUS
<1>1. ring = <<>> /\ evidence = <<>> /\ seq = 0
  BY DEF Init
<1>2. Unnumbered = {} /\ AheadNumbers = {} /\ ReadNumbers = {} /\ Len(ring) = 0
      /\ Len(evidence) = 0
  BY <1>1, EmptySeq DEF Unnumbered, AheadNumbers, ReadNumbers
<1> QED BY <1>1, <1>2, FS_EmptySet DEF GapFree

(* The atomic add of MONITOR_STATE.seq: the numbers given out so far are   *)
(* exactly those of the events read and of the numbered slots, with no     *)
(* gap and no number used twice, on any number of CPUs.                    *)
THEOREM CollectorNumbersWithoutGap == Spec => []NumbersAreGapFree
<1>1. TypeInv /\ GapFree /\ [Next]_vars => (TypeInv /\ GapFree)'
  BY TypeStep, NextEffect, GapFreeStep DEF TypeInv
<1>2. GapFree => NumbersAreGapFree
  BY DEF GapFree, NumbersAreGapFree, ReadNumbers, AheadNumbers, Unnumbered
<1> QED BY <1>1, <1>2, TypeInit, GapFreeInit, PTL DEF Spec

=============================================================================
