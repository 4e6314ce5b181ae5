---------------------------- MODULE PolicyTrainer ----------------------------
(***************************************************************************)
(* runtime-policy-trainer: reads the evidence and summaries of trusted     *)
(* sessions, record by record, and writes a policy and its metadata.       *)
(*                                                                         *)
(* What the files hold is revealed as it is read. Counts that only reach   *)
(* the metadata are left out.                                              *)
(***************************************************************************)
EXTENDS Classifier, FiniteSets

CONSTANTS
  Trimmed,     \* Trimmed[s]: the string s without surrounding white space
  Absolute,    \* the trimmed paths that are absolute
  Interpreter, \* the trimmed strings whose base name is an interpreter's
  Events,      \* the runtime events a baseline may hold
  Sessions,    \* the session ids of the inputs, in order
  SummaryIds,  \* the workload ids a summary may name
  Filters,     \* values of --workload-id; NoWorkload when not given
  MaxRecords,  \* bound: runtime events of one session
  NoFile, Torn, EarlierPolicy  \* what a file may hold besides the output

Strings == DOMAIN Trimmed

Invocations == [path : Strings, argv : Seq(Strings)]

(* What a RuntimePolicy the trainer writes may be. *)
TrainedPolicies ==
  [workload : Strings, execPaths : SUBSET Strings,
   eventTypes : SUBSET EventTypeNames, sensitive : SUBSET Strings,
   invocations : SUBSET Invocations, unknownExecPath : BOOLEAN,
   deniedPaths : {{}}, deniedComms : {{}}]

(* Trimming twice is trimming once, and a missing file is no policy. *)
ASSUME TrainerAssumption ==
  /\ MaxRecords \in Nat
  /\ Trimmed \in [Strings -> Strings]
  /\ \A s \in Strings : Trimmed[Trimmed[s]] = Trimmed[s]
  /\ \A e \in Events :
       /\ e.type \in EventTypeNames /\ e.whole \in BOOLEAN
       /\ e.workload \in Strings \union {NoWorkload}
       /\ e.path \in Strings /\ e.argv \in Seq(Strings)
  /\ SummaryIds \subseteq Strings /\ Filters \subseteq Strings \union {NoWorkload}
  /\ NoFile \notin TrainedPolicies

VARIABLES
  filter,      \* --workload-id
  explicit,    \* --metadata-out is given
  pc,          \* "session", "records", "policy", "metadata", "done", "failed"
  session,     \* the position in Sessions
  summary,     \* the summary of that session
  parsed,      \* parsed_runtime_events
  learner,     \* PolicyLearner
  summaryIds,  \* summary_workload_ids
  policy,      \* the generated policy
  policyFile,  \* the file at --out
  metadataFile,\* the metadata file
  baseline     \* history: the events read

inputVars  == <<filter, explicit>>
outputVars == <<policy, policyFile, metadataFile>>
vars == <<inputVars, pc, session, summary, parsed, learner, summaryIds,
          outputVars, baseline>>

Blank(s)       == Trimmed[s] = ""
Informative(s) == ~Blank(s) /\ s \in Absolute

EmptyLearner ==
  [observed |-> 0, executed |-> {}, types |-> {}, invocations |-> {},
   workloads |-> {}]

NoSummary == [session |-> "none", workload |-> "", count |-> 0]

Init ==
  /\ filter \in Filters
  /\ explicit \in BOOLEAN
  /\ pc = "session"
  /\ session = 1
  /\ summary = NoSummary
  /\ parsed = 0
  /\ learner = EmptyLearner
  /\ summaryIds = {}
  /\ policy = NoFile
  /\ policyFile \in {NoFile, EarlierPolicy}
  /\ metadataFile = NoFile
  /\ baseline = {}

-----------------------------------------------------------------------------
(* The next pair of files: load_json, then load_evidence_records, either   *)
(* of which may fail.                                                      *)
OpenSession ==
  /\ pc = "session"
  /\ session <= Len(Sessions)
  /\ \E w \in SummaryIds, n \in 0 .. MaxRecords :
       /\ summary' = [session |-> Sessions[session], workload |-> w, count |-> n]
       /\ summaryIds' = IF Blank(w) THEN summaryIds ELSE summaryIds \union {w}
  /\ parsed' = 0
  /\ pc' \in {"records", "failed"}
  /\ UNCHANGED <<inputVars, session, learner, outputVars, baseline>>

PassesFilter(e) == filter = NoWorkload \/ e.workload = filter

NamesWorkload(e) == e.workload # NoWorkload /\ ~Blank(e.workload)

(* Mutant: an attempt counts as an execution. *)
ObserveAnyExec(e) ==
  [observed    |-> learner.observed + 1,
   executed    |-> learner.executed \union
                     (IF IsExecLike(e) /\ ~Blank(e.path) THEN {Trimmed[e.path]}
                      ELSE {}),
   types       |-> learner.types \union {e.type},
   invocations |-> learner.invocations \union
                     (IF e.type = "exec-attempt" /\ e.whole
                      THEN {[path |-> Trimmed[e.path], argv |-> e.argv]}
                      ELSE {}),
   workloads   |-> learner.workloads \union
                     (IF NamesWorkload(e) THEN {Trimmed[e.workload]} ELSE {})]

(* observe_runtime_event and observe_exec_attempt_invocation. *)
Observe(e) ==
  [observed    |-> learner.observed + 1,
   executed    |-> learner.executed \union
                     (IF IsExec(e) /\ ~Blank(e.path) THEN {Trimmed[e.path]}
                      ELSE {}),
   types       |-> learner.types \union {e.type},
   invocations |-> learner.invocations \union
                     (IF e.type = "exec-attempt" /\ e.whole
                      THEN {[path |-> Trimmed[e.path], argv |-> e.argv]}
                      ELSE {}),
   workloads   |-> learner.workloads \union
                     (IF NamesWorkload(e) THEN {Trimmed[e.workload]} ELSE {})]

(* A record of another session ends the training; a synthetic one teaches  *)
(* nothing.                                                                *)
ForeignRecord ==
  /\ pc = "records"
  /\ pc' = "failed"
  /\ UNCHANGED <<inputVars, session, summary, parsed, learner, summaryIds,
                 outputVars, baseline>>

ReadEvent(e) ==
  /\ pc = "records"
  /\ parsed < MaxRecords
  /\ parsed' = parsed + 1
  /\ learner' = IF PassesFilter(e) THEN Observe(e) ELSE learner
  /\ baseline' = baseline \union {e}
  /\ UNCHANGED <<inputVars, pc, session, summary, summaryIds, outputVars>>

(* The end of the evidence: the summary must count the same events. *)
CheckCount ==
  /\ pc = "records"
  /\ IF parsed = summary.count
     THEN pc' = "session" /\ session' = session + 1
     ELSE pc' = "failed" /\ UNCHANGED session
  /\ UNCHANGED <<inputVars, summary, parsed, learner, summaryIds, outputVars,
                 baseline>>

-----------------------------------------------------------------------------
(* Mutant: of several workloads one is taken. *)
AnyLearnedIds ==
  IF filter # NoWorkload THEN {filter}
  ELSE IF learner.workloads # {}
  THEN {CHOOSE w \in learner.workloads : TRUE}
  ELSE IF Cardinality(summaryIds) = 1 THEN summaryIds
  ELSE {}

(* The workload ids the policy may get; none when finish gives up. *)
PolicyIds ==
  IF filter # NoWorkload THEN {filter}
  ELSE IF Cardinality(learner.workloads) = 1 THEN learner.workloads
  ELSE IF learner.workloads = {} /\ Cardinality(summaryIds) = 1 THEN summaryIds
  ELSE {}

(* is_interpreter_invocation, and the part of it that a policy can name    *)
(* (argv_sensitive_policy_from_invocations).                               *)
IsInterpreterInvocation(i) ==
  \/ i.path \in Interpreter
  \/ /\ ~Informative(i.path)
     /\ i.argv # <<>> /\ Trimmed[i.argv[1]] \in Interpreter

(* Mutant: only an interpreter that was executed is argv-sensitive.        *)
ExecutedInterpreters ==
  {i \in learner.invocations :
     IsInterpreterInvocation(i) /\ i.path \in learner.executed}

SensitiveInvocations ==
  {i \in learner.invocations :
     IsInterpreterInvocation(i) /\ Informative(i.path)}

GeneratedPolicy(w) ==
  [DefaultPolicy(w) EXCEPT
     !.execPaths       = learner.executed,
     !.eventTypes      = learner.types \ {"exec-attempt"},
     !.sensitive       = {i.path : i \in SensitiveInvocations},
     !.invocations     = SensitiveInvocations,
     !.unknownExecPath = TRUE]

(* PolicyLearner::finish. *)
Finish ==
  /\ pc = "session"
  /\ session > Len(Sessions)
  /\ IF learner.observed = 0 \/ learner.executed = {} \/ PolicyIds = {}
     THEN pc' = "failed" /\ UNCHANGED policy
     ELSE /\ pc' = "policy"
          /\ \E w \in PolicyIds : policy' = GeneratedPolicy(w)
  /\ UNCHANGED <<inputVars, session, summary, parsed, learner, summaryIds,
                 policyFile, metadataFile, baseline>>

(* Mutant: the writer is dropped without a flush, and a late error lost.   *)
UnflushedOutcomes(file, value) ==
  {[file |-> value, ok |-> TRUE], [file |-> file, ok |-> FALSE],
   [file |-> Torn, ok |-> FALSE], [file |-> Torn, ok |-> TRUE]}

(* write_json_pretty: created or not, written and flushed or torn.         *)
WriteJsonOutcomes(file, value) ==
  {[file |-> value, ok |-> TRUE], [file |-> file, ok |-> FALSE],
   [file |-> Torn, ok |-> FALSE]}

WritePolicy ==
  /\ pc = "policy"
  /\ \E o \in WriteJsonOutcomes(policyFile, policy) :
       /\ policyFile' = o.file
       /\ pc' = IF o.ok THEN "metadata" ELSE "failed"
  /\ UNCHANGED <<inputVars, session, summary, parsed, learner, summaryIds,
                 policy, metadataFile, baseline>>

(* A failure is fatal only where the caller named the metadata file. *)
WriteMetadata ==
  /\ pc = "metadata"
  /\ \E o \in WriteJsonOutcomes(metadataFile, learner) :
       /\ metadataFile' = o.file
       /\ pc' = IF o.ok \/ ~explicit THEN "done" ELSE "failed"
  /\ UNCHANGED <<inputVars, session, summary, parsed, learner, summaryIds,
                 policy, policyFile, baseline>>

Next ==
  \/ OpenSession
  \/ ForeignRecord
  \/ \E e \in Events : ReadEvent(e)
  \/ CheckCount
  \/ Finish
  \/ WritePolicy
  \/ WriteMetadata

Spec == Init /\ [][Next]_vars

-----------------------------------------------------------------------------
(* The events the trainer has learned from. *)
Learned == {e \in baseline : filter = NoWorkload \/ e.workload = filter}

Accepts(e) == ClassifyEventForWorkload(e, <<policy>>).class = "acceptable"

Clean(s) == ~Blank(s) /\ Trimmed[s] = s

(* A policy accepts the baseline it was trained on: every execution, every *)
(* attempt of a program that was executed or is a named interpreter, as    *)
(* long as its path is clean and, for an interpreter, its argv complete,   *)
(* and every other kind of event unless it carries an interpreter's path   *)
(* (train_from_paths against classify_event).                              *)
TrainedPolicyAcceptsBaseline ==
  policy # NoFile =>
    \A e \in Learned :
      \/ IsExec(e) /\ Clean(e.path)
      \/ e.type = "exec-attempt" /\ Clean(e.path)
           /\ (e.whole \/ e.path \notin Interpreter)
           /\ (\/ e.path \in Interpreter /\ Informative(e.path)
               \/ \E x \in Learned : IsExec(x) /\ x.path = e.path)
      \/ ~IsExecLike(e) /\ e.path \notin Interpreter
      => Accepts(e)

(* And nothing else: an exec-like event it accepts has a path the baseline *)
(* executed or, for an interpreter, an invocation the baseline holds; once *)
(* a complete invocation of an interpreter was seen, only such invocations *)
(* are accepted as attempts.                                               *)
TrainedPolicyIsTight ==
  policy # NoFile =>
    \A e \in Events :
      LET Seen(x) == /\ x.type = "exec-attempt" /\ x.whole
                     /\ Trimmed[x.path] = e.path
      IN  IsExecLike(e) /\ Accepts(e) =>
            /\ \E x \in Learned :
                 /\ Trimmed[x.path] = e.path
                 /\ IsExec(x) \/ (Seen(x) /\ e.path \in Interpreter
                                       /\ Informative(e.path))
            /\ e.type = "exec-attempt" /\ e.path \in Interpreter
               /\ Informative(e.path) /\ (\E x \in Learned : Seen(x)) =>
                 \E x \in Learned : Seen(x) /\ x.argv = e.argv

(* "pass --workload-id to train one workload": no event that names another *)
(* workload than the policy's has taught it anything.                      *)
PolicyOfOneWorkload ==
  policy # NoFile =>
    /\ \A e \in Learned : NamesWorkload(e) =>
         Trimmed[e.workload] = Trimmed[policy.workload]
    /\ policy.execPaths \subseteq {Trimmed[e.path] : e \in Learned}

(* What the exit status says of the files: success means a whole policy    *)
(* and, where the caller named the file, whole metadata; a training that   *)
(* fails leaves an earlier policy alone.                                   *)
StatusTellsFiles ==
  /\ pc = "done" => policyFile = policy
                    /\ (explicit => metadataFile = learner)
  /\ pc = "failed" /\ policy = NoFile => policyFile \in {NoFile, EarlierPolicy}
=============================================================================
