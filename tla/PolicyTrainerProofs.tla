------------------------ MODULE PolicyTrainerProofs ------------------------
(***************************************************************************)
(* Proofs about PolicyTrainer and the Classifier it trains for: whatever   *)
(* the baseline holds, the policy accepts what it was trained on and       *)
(* nothing else, and the exit status tells what became of the files.       *)
(***************************************************************************)
EXTENDS PolicyTrainer, FiniteSetTheorems, TLAPS

Learners ==
  [observed : Nat, executed : SUBSET Strings, types : SUBSET EventTypeNames,
   invocations : SUBSET Invocations, workloads : SUBSET Strings]

TypeInv ==
  /\ filter \in Filters /\ explicit \in BOOLEAN
  /\ pc \in {"session", "records", "policy", "metadata", "done", "failed"}
  /\ baseline \subseteq Events
  /\ learner \in Learners
  /\ summaryIds \subseteq Strings
  /\ IsFiniteSet(learner.workloads) /\ IsFiniteSet(summaryIds)

(* What the learner holds is a function of the events it has learned from. *)
Executions   == {x \in Learned : IsExec(x) /\ ~Blank(x.path)}
WholeAttempts == {x \in Learned : x.type = "exec-attempt" /\ x.whole}
Named        == {x \in Learned : NamesWorkload(x)}

LearnerInv ==
  /\ learner.executed = {Trimmed[e.path] : e \in Executions}
  /\ learner.types = {e.type : e \in Learned}
  /\ learner.invocations =
       {[path |-> Trimmed[e.path], argv |-> e.argv] : e \in WholeAttempts}
  /\ learner.workloads = {Trimmed[e.workload] : e \in Named}

(* The policy is made of the final learner, and the files follow the exit  *)
(* status.                                                                 *)
FileInv ==
  /\ pc \in {"session", "records"} => policy = NoFile
  /\ pc \in {"policy", "metadata", "done"} => policy # NoFile
  /\ policy # NoFile => \E w \in PolicyIds : policy = GeneratedPolicy(w)
  /\ policy = NoFile \/ pc = "policy" => policyFile \in {NoFile, EarlierPolicy}
  /\ pc \in {"metadata", "done"} => policyFile = policy
  /\ pc = "done" /\ explicit => metadataFile = learner

Inv == TypeInv /\ LearnerInv /\ FileInv

-----------------------------------------------------------------------------
(* One more event in the baseline is learned from, or filtered out.        *)
LEMMA LearnedGrows ==
  ASSUME NEW e, baseline' = baseline \union {e}, filter' = filter
  PROVE  Learned' = Learned \union (IF PassesFilter(e) THEN {e} ELSE {})
  BY DEF Learned, PassesFilter

(* The workload ids the policy may get are strings.                        *)
LEMMA PolicyIdsAreStrings ==
  ASSUME TypeInv
  PROVE  PolicyIds \subseteq Strings
<1>1. learner.workloads \subseteq Strings /\ summaryIds \subseteq Strings
  BY DEF TypeInv, Learners
<1>2. filter # NoWorkload => filter \in Strings
  BY TrainerAssumption DEF TypeInv
<1> QED BY <1>1, <1>2 DEF PolicyIds

(* A generated policy is a policy, never a missing file.                   *)
LEMMA PolicyOfFields ==
  ASSUME NEW w \in Strings, NEW paths \in SUBSET Strings,
         NEW types \in SUBSET EventTypeNames, NEW sensitive \in SUBSET Strings,
         NEW invocations \in SUBSET Invocations
  PROVE  [DefaultPolicy(w) EXCEPT !.execPaths = paths, !.eventTypes = types,
            !.sensitive = sensitive, !.invocations = invocations,
            !.unknownExecPath = TRUE] \in TrainedPolicies
<1> DEFINE P == SUBSET Strings
           T == SUBSET EventTypeNames
           I == SUBSET Invocations
<1>1. paths \in P /\ sensitive \in P /\ types \in T /\ invocations \in I
  OBVIOUS
<1>2. TrainedPolicies =
        [workload : Strings, execPaths : P, eventTypes : T, sensitive : P,
         invocations : I, unknownExecPath : BOOLEAN, deniedPaths : {{}},
         deniedComms : {{}}]
  BY DEF TrainedPolicies
<1> HIDE DEF P, T, I
<1> QED BY <1>1, <1>2 DEF DefaultPolicy

LEMMA GeneratedIsPolicy ==
  ASSUME TypeInv, NEW w \in PolicyIds
  PROVE  GeneratedPolicy(w) \in TrainedPolicies /\ GeneratedPolicy(w) # NoFile
<1>1. w \in Strings
  BY PolicyIdsAreStrings
<1>2. learner \in Learners
  BY DEF TypeInv
<1>3. /\ learner.executed \in SUBSET Strings
      /\ learner.types \ {"exec-attempt"} \in SUBSET EventTypeNames
      /\ learner.invocations \in SUBSET Invocations
  BY <1>2 DEF Learners
<1>4. SensitiveInvocations \in SUBSET Invocations
  BY <1>3 DEF SensitiveInvocations
<1>5. {i.path : i \in SensitiveInvocations} \in SUBSET Strings
  BY <1>4 DEF Invocations
<1>6. GeneratedPolicy(w) \in TrainedPolicies
  BY <1>1, <1>3, <1>4, <1>5, PolicyOfFields DEF GeneratedPolicy
<1> QED BY <1>6, TrainerAssumption

-----------------------------------------------------------------------------
LEMMA InitInv == Init => Inv
<1> SUFFICES ASSUME Init PROVE Inv
  OBVIOUS
<1>1. IsFiniteSet({})
  BY FS_EmptySet
<1>2. TypeInv
  BY <1>1 DEF Init, TypeInv, EmptyLearner, Learners
<1>3. Learned = {}
  BY DEF Init, Learned
<1>4. LearnerInv
  BY <1>3 DEF Init, LearnerInv, EmptyLearner, Executions, WholeAttempts, Named
<1>5. FileInv
  BY DEF Init, FileInv
<1> QED BY <1>2, <1>4, <1>5 DEF Inv

(* Learning from one event: the learner's fields gain what it teaches.     *)
LEMMA ObserveKeepsType ==
  ASSUME TypeInv, NEW e \in Events
  PROVE  Observe(e) \in Learners /\ IsFiniteSet(Observe(e).workloads)
<1>1. /\ e.type \in EventTypeNames /\ e.whole \in BOOLEAN
      /\ e.workload \in Strings \union {NoWorkload}
      /\ e.path \in Strings /\ e.argv \in Seq(Strings)
  BY TrainerAssumption
<1>2. /\ Trimmed[e.path] \in Strings
      /\ NamesWorkload(e) => Trimmed[e.workload] \in Strings
  BY <1>1, TrainerAssumption DEF NamesWorkload
<1>3. learner \in Learners
  BY DEF TypeInv
<1>4. /\ learner.observed \in Nat /\ learner.executed \subseteq Strings
      /\ learner.types \subseteq EventTypeNames
      /\ learner.invocations \subseteq Invocations
      /\ learner.workloads \subseteq Strings
  BY <1>3 DEF Learners
<1>5. [path |-> Trimmed[e.path], argv |-> e.argv] \in Invocations
  BY <1>1, <1>2 DEF Invocations
<1>6. learner.observed + 1 \in Nat
  BY <1>4
<1>7. Observe(e) \in Learners
  BY <1>1, <1>2, <1>4, <1>5, <1>6 DEF Observe, Learners
<1>8. IsFiniteSet(learner.workloads)
  BY DEF TypeInv
<1>9. CASE NamesWorkload(e)
  <2>1. Observe(e).workloads = learner.workloads \union {Trimmed[e.workload]}
    BY <1>9 DEF Observe
  <2> QED BY <1>7, <1>8, <2>1, FS_AddElement
<1>10. CASE ~NamesWorkload(e)
  <2>1. Observe(e).workloads = learner.workloads
    BY <1>10 DEF Observe
  <2> QED BY <1>7, <1>8, <2>1
<1> QED BY <1>9, <1>10

LEMMA ObserveKeepsLearner ==
  ASSUME LearnerInv, NEW e, PassesFilter(e), filter' = filter,
         learner' = Observe(e), baseline' = baseline \union {e}
  PROVE  LearnerInv'
<1>1. Learned' = Learned \union {e}
  BY LearnedGrows
<1>2. Executions' = Executions \union
                      (IF IsExec(e) /\ ~Blank(e.path) THEN {e} ELSE {})
  BY <1>1 DEF Executions
<1>3. WholeAttempts' = WholeAttempts \union
                         (IF e.type = "exec-attempt" /\ e.whole THEN {e} ELSE {})
  BY <1>1 DEF WholeAttempts
<1>4. Named' = Named \union (IF NamesWorkload(e) THEN {e} ELSE {})
  BY <1>1 DEF Named
<1>5. learner'.executed = {Trimmed[x.path] : x \in Executions'}
  BY <1>2 DEF Observe, LearnerInv
<1>6. learner'.types = {x.type : x \in Learned'}
  BY <1>1 DEF Observe, LearnerInv
<1>7. learner'.invocations =
        {[path |-> Trimmed[x.path], argv |-> x.argv] : x \in WholeAttempts'}
  BY <1>3 DEF Observe, LearnerInv
<1>8. learner'.workloads = {Trimmed[x.workload] : x \in Named'}
  BY <1>4 DEF Observe, LearnerInv
<1> QED BY <1>5, <1>6, <1>7, <1>8 DEF LearnerInv

-----------------------------------------------------------------------------
(* Steps that leave the learner and the baseline alone keep LearnerInv.    *)
LEMMA LearnerUnchanged ==
  ASSUME LearnerInv, learner' = learner, baseline' = baseline, filter' = filter
  PROVE  LearnerInv'
<1>1. Learned' = Learned
  BY DEF Learned
<1>2. Executions' = Executions /\ WholeAttempts' = WholeAttempts /\ Named' = Named
  BY <1>1 DEF Executions, WholeAttempts, Named
<1> QED BY <1>1, <1>2 DEF LearnerInv

LEMMA NextInv == Inv /\ [Next]_vars => Inv'
<1> SUFFICES ASSUME Inv, [Next]_vars PROVE Inv'
  OBVIOUS
<1>0. TypeInv /\ LearnerInv /\ FileInv
  BY DEF Inv
<1>1. CASE OpenSession
  <2>1. LearnerInv'
    BY <1>0, <1>1, LearnerUnchanged DEF OpenSession, inputVars
  <2>2. PICK w \in SummaryIds :
          summaryIds' = IF Blank(w) THEN summaryIds ELSE summaryIds \union {w}
    BY <1>1 DEF OpenSession
  <2>3. IsFiniteSet(summaryIds') /\ summaryIds' \subseteq Strings
    BY <1>0, <2>2, FS_AddElement, TrainerAssumption DEF TypeInv
  <2>4. TypeInv'
    BY <1>0, <1>1, <2>3 DEF TypeInv, OpenSession, inputVars
  <2>5. FileInv'
    BY <1>0, <1>1 DEF FileInv, OpenSession, inputVars, outputVars
  <2> QED BY <2>1, <2>4, <2>5 DEF Inv
<1>2. CASE ForeignRecord
  <2>1. LearnerInv'
    BY <1>0, <1>2, LearnerUnchanged DEF ForeignRecord, inputVars
  <2>2. TypeInv'
    BY <1>0, <1>2 DEF TypeInv, ForeignRecord, inputVars
  <2>3. FileInv'
    BY <1>0, <1>2 DEF FileInv, ForeignRecord, inputVars, outputVars
  <2> QED BY <2>1, <2>2, <2>3 DEF Inv
<1>3. ASSUME NEW e \in Events, ReadEvent(e) PROVE Inv'
  <2>1. LearnerInv'
    <3>1. CASE PassesFilter(e)
      BY <1>0, <1>3, <3>1, ObserveKeepsLearner DEF ReadEvent, inputVars
    <3>2. CASE ~PassesFilter(e)
      <4>1. Learned' = Learned /\ learner' = learner
        BY <1>3, <3>2, LearnedGrows DEF ReadEvent, inputVars
      <4>2. /\ Executions' = Executions /\ WholeAttempts' = WholeAttempts
            /\ Named' = Named
        BY <4>1 DEF Executions, WholeAttempts, Named
      <4> QED BY <1>0, <4>1, <4>2 DEF LearnerInv
    <3> QED BY <3>1, <3>2
  <2>2. learner' \in Learners /\ IsFiniteSet(learner'.workloads)
    BY <1>0, <1>3, ObserveKeepsType DEF ReadEvent, TypeInv
  <2>3. TypeInv'
    BY <1>0, <1>3, <2>2 DEF TypeInv, ReadEvent, inputVars
  <2>4. FileInv'
    BY <1>0, <1>3 DEF FileInv, ReadEvent, inputVars, outputVars
  <2> QED BY <2>1, <2>3, <2>4 DEF Inv
<1>4. CASE CheckCount
  <2>1. LearnerInv'
    BY <1>0, <1>4, LearnerUnchanged DEF CheckCount, inputVars
  <2>2. TypeInv'
    BY <1>0, <1>4 DEF TypeInv, CheckCount, inputVars
  <2>3. FileInv'
    BY <1>0, <1>4 DEF FileInv, CheckCount, inputVars, outputVars
  <2> QED BY <2>1, <2>2, <2>3 DEF Inv
<1>5. CASE Finish
  <2>1. LearnerInv'
    BY <1>0, <1>5, LearnerUnchanged DEF Finish, inputVars
  <2>2. TypeInv'
    BY <1>0, <1>5 DEF TypeInv, Finish, inputVars
  <2>3. policy = NoFile /\ policyFile \in {NoFile, EarlierPolicy}
    BY <1>0, <1>5 DEF FileInv, Finish
  <2>4. ASSUME pc' = "failed", policy' = policy
        PROVE  FileInv'
    BY <1>0, <1>5, <2>3, <2>4 DEF FileInv, Finish
  <2>5. ASSUME pc' = "policy", \E w \in PolicyIds : policy' = GeneratedPolicy(w)
        PROVE  FileInv'
    <3>1. PICK w \in PolicyIds : policy' = GeneratedPolicy(w)
      BY <2>5
    <3>2. policy' # NoFile
      BY <1>0, <3>1, GeneratedIsPolicy
    <3>3. PolicyIds' = PolicyIds /\ GeneratedPolicy(w)' = GeneratedPolicy(w)
      BY <1>5 DEF Finish, inputVars, PolicyIds, GeneratedPolicy,
                  SensitiveInvocations
    <3>4. policyFile' = policyFile
      BY <1>5 DEF Finish
    <3>5. \E v \in PolicyIds' : policy' = GeneratedPolicy(v)'
      BY <3>1, <3>3
    <3> QED BY <2>3, <2>5, <3>2, <3>4, <3>5 DEF FileInv
  <2>6. FileInv'
    BY <1>5, <2>4, <2>5 DEF Finish
  <2> QED BY <2>1, <2>2, <2>6 DEF Inv
<1>6. CASE WritePolicy
  <2>1. LearnerInv'
    BY <1>0, <1>6, LearnerUnchanged DEF WritePolicy, inputVars
  <2>2. TypeInv'
    BY <1>0, <1>6 DEF TypeInv, WritePolicy, inputVars
  <2>3. PICK o \in WriteJsonOutcomes(policyFile, policy) :
          policyFile' = o.file /\ pc' = IF o.ok THEN "metadata" ELSE "failed"
    BY <1>6 DEF WritePolicy
  <2>4. o.ok => policyFile' = policy
    BY <2>3 DEF WriteJsonOutcomes
  <2>5. policy # NoFile /\ policy' = policy
    BY <1>0, <1>6 DEF FileInv, WritePolicy
  <2>6. PolicyIds' = PolicyIds /\ \A w : GeneratedPolicy(w)' = GeneratedPolicy(w)
    BY <1>6 DEF WritePolicy, inputVars, PolicyIds, GeneratedPolicy,
                SensitiveInvocations
  <2>7. \E w \in PolicyIds' : policy' = GeneratedPolicy(w)'
    BY <1>0, <2>5, <2>6 DEF FileInv
  <2>8. FileInv'
    BY <2>3, <2>4, <2>5, <2>7 DEF FileInv
  <2> QED BY <2>1, <2>2, <2>8 DEF Inv
<1>7. CASE WriteMetadata
  <2>1. LearnerInv'
    BY <1>0, <1>7, LearnerUnchanged DEF WriteMetadata, inputVars
  <2>2. TypeInv'
    BY <1>0, <1>7 DEF TypeInv, WriteMetadata, inputVars
  <2>3. PICK o \in WriteJsonOutcomes(metadataFile, learner) :
          /\ metadataFile' = o.file
          /\ pc' = IF o.ok \/ ~explicit THEN "done" ELSE "failed"
    BY <1>7 DEF WriteMetadata
  <2>4. o.ok => metadataFile' = learner
    BY <2>3 DEF WriteJsonOutcomes
  <2>5. /\ policy # NoFile /\ policyFile = policy
        /\ policy' = policy /\ policyFile' = policyFile
        /\ learner' = learner /\ explicit' = explicit
    BY <1>0, <1>7 DEF FileInv, WriteMetadata, inputVars
  <2>6. PolicyIds' = PolicyIds /\ \A w : GeneratedPolicy(w)' = GeneratedPolicy(w)
    BY <1>7 DEF WriteMetadata, inputVars, PolicyIds, GeneratedPolicy,
                SensitiveInvocations
  <2>7. \E w \in PolicyIds' : policy' = GeneratedPolicy(w)'
    BY <1>0, <2>5, <2>6 DEF FileInv
  <2>8. FileInv'
    BY <2>3, <2>4, <2>5, <2>7 DEF FileInv
  <2> QED BY <2>1, <2>2, <2>8 DEF Inv
<1>8. CASE UNCHANGED vars
  <2>1. LearnerInv'
    BY <1>0, <1>8, LearnerUnchanged DEF vars, inputVars
  <2>2. TypeInv'
    BY <1>0, <1>8 DEF TypeInv, vars, inputVars
  <2>3. FileInv'
    BY <1>0, <1>8 DEF FileInv, vars, inputVars, outputVars, PolicyIds,
                      GeneratedPolicy, SensitiveInvocations
  <2> QED BY <2>1, <2>2, <2>3 DEF Inv
<1> QED BY <1>1, <1>2, <1>3, <1>4, <1>5, <1>6, <1>7, <1>8 DEF Next

(* The trainer keeps its invariant.                                        *)
LEMMA TrainerInvariant == Spec => []Inv
<1>1. Init => Inv
  BY InitInv
<1>2. Inv /\ [Next]_vars => Inv'
  BY NextInv
<1> QED BY <1>1, <1>2, PTL DEF Spec

-----------------------------------------------------------------------------
(* What classify_event reads of a generated policy.                        *)
LEMMA DefaultFields ==
  ASSUME NEW w, NEW paths, NEW types, NEW sensitive, NEW invocations
  PROVE  LET p == [DefaultPolicy(w) EXCEPT !.execPaths = paths,
                     !.eventTypes = types, !.sensitive = sensitive,
                     !.invocations = invocations, !.unknownExecPath = TRUE]
         IN  /\ p.workload = w /\ p.execPaths = paths /\ p.eventTypes = types
             /\ p.sensitive = sensitive /\ p.invocations = invocations
             /\ p.unknownExecPath = TRUE
             /\ p.deniedPaths = {} /\ p.deniedComms = {}
  BY DEF DefaultPolicy

LEMMA GeneratedFields ==
  ASSUME NEW w, policy = GeneratedPolicy(w)
  PROVE  /\ policy.workload = w
         /\ policy.execPaths = learner.executed
         /\ policy.eventTypes = learner.types \ {"exec-attempt"}
         /\ policy.sensitive = {i.path : i \in SensitiveInvocations}
         /\ policy.invocations = SensitiveInvocations
         /\ policy.unknownExecPath = TRUE
         /\ policy.deniedPaths = {} /\ policy.deniedComms = {}
<1> DEFINE P(paths, types, sensitive, invocations) ==
             [DefaultPolicy(w) EXCEPT !.execPaths = paths, !.eventTypes = types,
                !.sensitive = sensitive, !.invocations = invocations,
                !.unknownExecPath = TRUE]
<1>1. \A paths, types, sensitive, invocations :
        LET p == P(paths, types, sensitive, invocations)
        IN  /\ p.workload = w /\ p.execPaths = paths /\ p.eventTypes = types
            /\ p.sensitive = sensitive /\ p.invocations = invocations
            /\ p.unknownExecPath = TRUE
            /\ p.deniedPaths = {} /\ p.deniedComms = {}
  BY DefaultFields
<1>2. policy = P(learner.executed, learner.types \ {"exec-attempt"},
                 {i.path : i \in SensitiveInvocations}, SensitiveInvocations)
  BY DEF GeneratedPolicy
<1> HIDE DEF P
<1> QED BY <1>1, <1>2

(* The invocations a trained policy lists, and the paths it makes          *)
(* argv-sensitive, are those of complete attempts of named interpreters.   *)
LEMMA SensitiveIsLearned ==
  ASSUME LearnerInv, NEW path, NEW argv
  PROVE  [path |-> path, argv |-> argv] \in SensitiveInvocations <=>
           /\ path \in Interpreter /\ Informative(path)
           /\ \E x \in Learned :
                /\ x.type = "exec-attempt" /\ x.whole
                /\ Trimmed[x.path] = path /\ x.argv = argv
<1> DEFINE i == [path |-> path, argv |-> argv]
<1>1. i.path = path
  OBVIOUS
<1>2. i \in learner.invocations <=>
        \E x \in WholeAttempts : [path |-> Trimmed[x.path], argv |-> x.argv] = i
  BY DEF LearnerInv
<1>3. \A x : [path |-> Trimmed[x.path], argv |-> x.argv] = i <=>
               Trimmed[x.path] = path /\ x.argv = argv
  OBVIOUS
<1>4. Informative(path) =>
        (IsInterpreterInvocation(i) <=> path \in Interpreter)
  BY <1>1 DEF IsInterpreterInvocation
<1>5. i \in SensitiveInvocations <=>
        /\ i \in learner.invocations
        /\ IsInterpreterInvocation(i) /\ Informative(path)
  BY <1>1 DEF SensitiveInvocations
<1> HIDE DEF i
<1>6. i \in learner.invocations <=>
        \E x \in WholeAttempts : Trimmed[x.path] = path /\ x.argv = argv
  BY <1>2, <1>3
<1>7. i \in SensitiveInvocations <=>
        /\ path \in Interpreter /\ Informative(path)
        /\ \E x \in WholeAttempts : Trimmed[x.path] = path /\ x.argv = argv
  BY <1>4, <1>5, <1>6
<1>8. (\E x \in WholeAttempts : Trimmed[x.path] = path /\ x.argv = argv) <=>
        \E x \in Learned :
          /\ x.type = "exec-attempt" /\ x.whole
          /\ Trimmed[x.path] = path /\ x.argv = argv
  BY DEF WholeAttempts
<1> QED BY <1>7, <1>8 DEF i

(* Every listed invocation is such a record. *)
LEMMA SensitivePaths ==
  ASSUME LearnerInv, NEW path
  PROVE  path \in {i.path : i \in SensitiveInvocations} <=>
           \E argv : [path |-> path, argv |-> argv] \in SensitiveInvocations
<1>1. ASSUME NEW i \in SensitiveInvocations
      PROVE  i = [path |-> i.path, argv |-> i.argv]
  <2>1. i \in learner.invocations
    BY DEF SensitiveInvocations
  <2>2. PICK x \in WholeAttempts : i = [path |-> Trimmed[x.path], argv |-> x.argv]
    BY <2>1 DEF LearnerInv
  <2> QED BY <2>2
<1>2. \A argv : [path |-> path, argv |-> argv].path = path
  OBVIOUS
<1> QED BY <1>1, <1>2

(* The verdict of a trained policy, rule by rule.                          *)
LEMMA TrainedVerdict ==
  ASSUME NEW w, policy = GeneratedPolicy(w), NEW e
  PROVE  Accepts(e) <=>
           IF e.path \in {i.path : i \in SensitiveInvocations}
           THEN \/ IsExec(e)
                \/ /\ e.whole
                   /\ [path |-> e.path, argv |-> e.argv] \in SensitiveInvocations
           ELSE IF IsExecLike(e) THEN e.path \in learner.executed
           ELSE \/ e.type \in learner.types \ {"exec-attempt"}
                \/ e.path \in learner.executed
<1>1. Len(<<policy>>) = 1 /\ <<policy>>[1] = policy
  OBVIOUS
<1>2. ClassifyEventForWorkload(e, <<policy>>) = ClassifyEvent(e, policy)
  BY <1>1 DEF ClassifyEventForWorkload
<1>3. e.path \notin policy.deniedPaths /\ e.comm \notin policy.deniedComms
  BY GeneratedFields
<1>4. Accepts(e) <=>
        (IF e.path \in policy.sensitive THEN ClassifySensitive(e, policy)
         ELSE IF IsExecLike(e) THEN ClassifyExecLike(e, policy)
         ELSE ClassifyOther(e, policy)).class = "acceptable"
  BY <1>2, <1>3, Zenon DEF Accepts, ClassifyEvent
<1>5. ClassifySensitive(e, policy).class = "acceptable" <=>
        \/ IsExec(e)
        \/ e.whole /\ [path |-> e.path, argv |-> e.argv] \in policy.invocations
  BY DEF ClassifySensitive, AcceptableByInvocation, Result
<1>6. ClassifyExecLike(e, policy).class = "acceptable" <=>
        e.path \in policy.execPaths
  BY GeneratedFields DEF ClassifyExecLike, AcceptableByExecPath, Result
<1>7. ClassifyOther(e, policy).class = "acceptable" <=>
        e.type \in policy.eventTypes \/ e.path \in policy.execPaths
  BY DEF ClassifyOther, AcceptableByExecPath, AcceptableByEventType, Result
<1> QED BY <1>4, <1>5, <1>6, <1>7, GeneratedFields, Zenon

-----------------------------------------------------------------------------
(* A trained policy accepts the baseline it was trained on, within the     *)
(* limits TrainedPolicyAcceptsBaseline names (train_from_paths against     *)
(* classify_event).                                                        *)
THEOREM TrainingAcceptsItsBaseline == Spec => []TrainedPolicyAcceptsBaseline
<1>1. Inv => TrainedPolicyAcceptsBaseline
  <2> SUFFICES ASSUME Inv, policy # NoFile, NEW e \in Learned,
                 \/ IsExec(e) /\ Clean(e.path)
                 \/ e.type = "exec-attempt" /\ Clean(e.path)
                      /\ (e.whole \/ e.path \notin Interpreter)
                      /\ (\/ e.path \in Interpreter /\ Informative(e.path)
                          \/ \E x \in Learned : IsExec(x) /\ x.path = e.path)
                 \/ ~IsExecLike(e) /\ e.path \notin Interpreter
               PROVE  Accepts(e)
    BY DEF TrainedPolicyAcceptsBaseline
  <2>1. LearnerInv
    BY DEF Inv
  <2>2. PICK w \in PolicyIds : policy = GeneratedPolicy(w)
    BY DEF Inv, FileInv
  <2>3. \A x \in Learned : IsExec(x) /\ Clean(x.path) => x.path \in learner.executed
    BY <2>1 DEF LearnerInv, Executions, Clean
  <2>4. e.path \in {i.path : i \in SensitiveInvocations} => e.path \in Interpreter
    BY <2>1, SensitivePaths, SensitiveIsLearned
  <2>5. CASE IsExec(e) /\ Clean(e.path)
    <3>1. e.path \in learner.executed /\ IsExecLike(e)
      BY <2>3, <2>5 DEF IsExec, IsExecLike
    <3> QED BY <2>2, <2>5, <3>1, TrainedVerdict
  <2>6. CASE e.type = "exec-attempt" /\ Clean(e.path)
               /\ (e.whole \/ e.path \notin Interpreter)
               /\ (\/ e.path \in Interpreter /\ Informative(e.path)
                   \/ \E x \in Learned : IsExec(x) /\ x.path = e.path)
    <3>1. IsExecLike(e) /\ Trimmed[e.path] = e.path
      BY <2>6 DEF IsExecLike, Clean
    <3>2. ASSUME e.path \in Interpreter, Informative(e.path), e.whole
          PROVE  [path |-> e.path, argv |-> e.argv] \in SensitiveInvocations
      BY <2>1, <2>6, <3>1, <3>2, SensitiveIsLearned
    <3>3. CASE e.path \in {i.path : i \in SensitiveInvocations}
      <4>1. e.path \in Interpreter /\ Informative(e.path)
        BY <2>1, <3>3, SensitivePaths, SensitiveIsLearned
      <4>2. e.whole
        BY <2>6, <4>1
      <4>3. [path |-> e.path, argv |-> e.argv] \in SensitiveInvocations
        BY <3>2, <4>1, <4>2
      <4> QED BY <2>2, <3>3, <4>2, <4>3, TrainedVerdict
    <3>4. CASE e.path \notin {i.path : i \in SensitiveInvocations}
      <4>1. ~(e.path \in Interpreter /\ Informative(e.path))
        BY <2>1, <2>6, <3>2, <3>4, SensitivePaths
      <4>2. PICK x \in Learned : IsExec(x) /\ x.path = e.path
        BY <2>6, <4>1
      <4>3. e.path \in learner.executed
        BY <2>3, <2>6, <4>2
      <4> QED BY <2>2, <3>1, <3>4, <4>3, TrainedVerdict
    <3> QED BY <3>3, <3>4
  <2>7. CASE ~IsExecLike(e) /\ e.path \notin Interpreter
    <3>1. e.type \in learner.types \ {"exec-attempt"}
      BY <2>1, <2>7 DEF LearnerInv, IsExecLike
    <3> QED BY <2>2, <2>4, <2>7, <3>1, TrainedVerdict
  <2> QED BY <2>5, <2>6, <2>7
<1> QED BY <1>1, TrainerInvariant, PTL

(* And nothing else: a path it accepts was executed, or its very           *)
(* invocation attempted, in the baseline (TrainedPolicyIsTight).           *)
THEOREM TrainingIsTight == Spec => []TrainedPolicyIsTight
<1>1. Inv => TrainedPolicyIsTight
  <2> DEFINE Seen(x, e) == /\ x.type = "exec-attempt" /\ x.whole
                           /\ Trimmed[x.path] = e.path
  <2> SUFFICES ASSUME Inv, policy # NoFile, NEW e \in Events,
                      IsExecLike(e), Accepts(e)
               PROVE  /\ \E x \in Learned :
                           /\ Trimmed[x.path] = e.path
                           /\ \/ IsExec(x)
                              \/ Seen(x, e) /\ e.path \in Interpreter
                                   /\ Informative(e.path)
                      /\ e.type = "exec-attempt" /\ e.path \in Interpreter
                         /\ Informative(e.path)
                         /\ (\E x \in Learned : Seen(x, e)) =>
                           \E x \in Learned : Seen(x, e) /\ x.argv = e.argv
    BY DEF TrainedPolicyIsTight
  <2>1. LearnerInv
    BY DEF Inv
  <2>2. PICK w \in PolicyIds : policy = GeneratedPolicy(w)
    BY DEF Inv, FileInv
  <2>3. CASE e.path \in {i.path : i \in SensitiveInvocations}
    <3>1. PICK argv : [path |-> e.path, argv |-> argv] \in SensitiveInvocations
      BY <2>1, <2>3, SensitivePaths
    <3>2. /\ e.path \in Interpreter /\ Informative(e.path)
          /\ \E x \in Learned : Seen(x, e)
      BY <2>1, <3>1, SensitiveIsLearned
    <3>3. e.type = "exec-attempt" =>
            [path |-> e.path, argv |-> e.argv] \in SensitiveInvocations
      BY <2>2, <2>3, TrainedVerdict DEF IsExec
    <3>4. e.type = "exec-attempt" =>
            \E x \in Learned : Seen(x, e) /\ x.argv = e.argv
      BY <2>1, <3>3, SensitiveIsLearned
    <3> QED BY <3>2, <3>4
  <2>4. CASE e.path \notin {i.path : i \in SensitiveInvocations}
    <3>1. e.path \in learner.executed
      BY <2>2, <2>4, TrainedVerdict
    <3>2. \E x \in Learned : Trimmed[x.path] = e.path /\ IsExec(x)
      BY <2>1, <3>1 DEF LearnerInv, Executions
    <3>3. e.path \in Interpreter /\ Informative(e.path) =>
            \A x \in Learned : ~Seen(x, e)
      <4> SUFFICES ASSUME e.path \in Interpreter, Informative(e.path),
                          NEW x \in Learned, Seen(x, e)
                   PROVE  FALSE
        OBVIOUS
      <4>1. [path |-> e.path, argv |-> x.argv] \in SensitiveInvocations
        BY <2>1, SensitiveIsLearned
      <4> QED BY <2>1, <2>4, <4>1, SensitivePaths
    <3> QED BY <3>2, <3>3
  <2> QED BY <2>3, <2>4
<1> QED BY <1>1, TrainerInvariant, PTL

(* No event that names another workload than the policy's has taught it    *)
(* anything ("pass --workload-id to train one workload").                  *)
THEOREM TrainingIsOfOneWorkload == Spec => []PolicyOfOneWorkload
<1>1. Inv => PolicyOfOneWorkload
  <2> SUFFICES ASSUME Inv, policy # NoFile PROVE PolicyOfOneWorkload
    BY DEF PolicyOfOneWorkload
  <2>1. TypeInv /\ LearnerInv
    BY DEF Inv
  <2>2. PICK w \in PolicyIds : policy = GeneratedPolicy(w)
    BY DEF Inv, FileInv
  <2>3. policy.workload = w /\ policy.execPaths = learner.executed
    BY <2>2, GeneratedFields
  <2>4. policy.execPaths \subseteq {Trimmed[e.path] : e \in Learned}
    BY <2>1, <2>3 DEF LearnerInv, Executions
  <2>5. ASSUME NEW e \in Learned, NamesWorkload(e)
        PROVE  Trimmed[e.workload] = Trimmed[w]
    <3>1. e \in Events /\ e.workload \in Strings
      BY <2>1, <2>5, TrainerAssumption DEF Learned, TypeInv, NamesWorkload
    <3>2. Trimmed[e.workload] \in learner.workloads
      BY <2>1, <2>5 DEF LearnerInv, Named
    <3>3. CASE filter # NoWorkload
      BY <2>2, <3>3 DEF PolicyIds, Learned
    <3>4. CASE filter = NoWorkload
      <4>1. Cardinality(learner.workloads) = 1 /\ w \in learner.workloads
        BY <2>2, <3>2, <3>4 DEF PolicyIds
      <4>2. \E v : learner.workloads = {v}
        BY <2>1, <4>1, FS_Singleton DEF TypeInv
      <4>3. w = Trimmed[e.workload]
        BY <3>2, <4>1, <4>2
      <4> QED BY <3>1, <4>3, TrainerAssumption
    <3> QED BY <3>3, <3>4
  <2> QED BY <2>3, <2>4, <2>5 DEF PolicyOfOneWorkload
<1> QED BY <1>1, TrainerInvariant, PTL

(* The exit status tells what became of the files (main, write_json_pretty *)
(* and the metadata's own error path).                                     *)
THEOREM TrainingStatusTellsFiles == Spec => []StatusTellsFiles
<1>1. Inv => StatusTellsFiles
  BY DEF Inv, FileInv, StatusTellsFiles
<1> QED BY <1>1, TrainerInvariant, PTL
=============================================================================
