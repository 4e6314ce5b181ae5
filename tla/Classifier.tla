----------------------------- MODULE Classifier -----------------------------
(***************************************************************************)
(* The policy decision of runtime-monitor-common/src/evidence.rs: the      *)
(* class and the rule a set of runtime policies gives a runtime event.     *)
(* Monitor, verifier and, through the policies it writes, the trainer      *)
(* depend on it. A string is a value; only equality of strings matters     *)
(* here.                                                                   *)
(*                                                                         *)
(* An event is a record                                                    *)
(*   [type, workload, path, comm, argv, whole]                             *)
(* where `whole` stands for the five evidence flags of argv and file name. *)
(***************************************************************************)
EXTENDS Naturals, Sequences

CONSTANT NoWorkload  \* the absent workload id of an event

EventTypeNames == {"fork", "exec", "exec-attempt", "unknown"}

IsExec(e)     == e.type = "exec"
IsExecLike(e) == e.type \in {"exec", "exec-attempt"}

Result(class, rule) == [class |-> class, rule |-> rule]

(* A policy that names nothing: RuntimePolicy::default for workload w. *)
DefaultPolicy(w) ==
  [workload |-> w, execPaths |-> {}, eventTypes |-> {}, sensitive |-> {},
   invocations |-> {}, unknownExecPath |-> FALSE, deniedPaths |-> {},
   deniedComms |-> {}]

-----------------------------------------------------------------------------
AcceptableByExecPath(e, p)   == e.path \in p.execPaths
AcceptableByEventType(e, p)  == e.type \in p.eventTypes
AcceptableByInvocation(e, p) ==
  [path |-> e.path, argv |-> e.argv] \in p.invocations

(* Mutant: an argv-sensitive attempt is compared without asking whether    *)
(* its argv was captured completely.                                       *)
SensitiveByArgv(e, p) ==
  IF IsExec(e) THEN Result("acceptable", "argv-sensitive-confirmed-by-attempt")
  ELSE IF AcceptableByInvocation(e, p)
  THEN Result("acceptable", "acceptable-argv-invocation")
  ELSE Result("suspicious", "argv-sensitive-mismatch")

(* classify_argv_sensitive_invocation, for a path that is argv-sensitive:  *)
(* the attempt is judged, its exec follows it.                             *)
ClassifySensitive(e, p) ==
  IF IsExec(e) THEN Result("acceptable", "argv-sensitive-confirmed-by-attempt")
  ELSE IF ~e.whole
  THEN Result("suspicious", "argv-sensitive-incomplete-evidence")
  ELSE IF AcceptableByInvocation(e, p)
  THEN Result("acceptable", "acceptable-argv-invocation")
  ELSE Result("suspicious", "argv-sensitive-mismatch")

(* Mutant: the event type is enough for any exec-like event. *)
ClassifyExecLikeByType(e, p) ==
  IF AcceptableByExecPath(e, p) THEN Result("acceptable", "acceptable-exec-path")
  ELSE IF AcceptableByEventType(e, p)
  THEN Result("acceptable", "acceptable-event-type")
  ELSE Result("suspicious", "default-suspicious")

(* Exec-like events: by path; by type only for an exec, and only if the    *)
(* policy does not ask for known paths.                                    *)
ClassifyExecLike(e, p) ==
  IF AcceptableByExecPath(e, p) THEN Result("acceptable", "acceptable-exec-path")
  ELSE IF p.unknownExecPath THEN Result("suspicious", "unknown-exec-path")
  ELSE IF IsExec(e) /\ AcceptableByEventType(e, p)
  THEN Result("acceptable", "acceptable-event-type")
  ELSE Result("suspicious", "default-suspicious")

ClassifyOther(e, p) ==
  IF AcceptableByEventType(e, p)
  THEN Result("acceptable", "acceptable-event-type")
  ELSE IF AcceptableByExecPath(e, p)
  THEN Result("acceptable", "acceptable-exec-path")
  ELSE Result("suspicious", "default-suspicious")

(* Mutant: the argv-sensitive rules come before the denied ones. *)
SensitiveFirst(e, p) ==
  IF e.path \in p.sensitive THEN ClassifySensitive(e, p)
  ELSE IF e.path \in p.deniedPaths THEN Result("denied", "deny-exec-path")
  ELSE IF e.comm \in p.deniedComms THEN Result("denied", "deny-comm")
  ELSE IF IsExecLike(e) THEN ClassifyExecLike(e, p)
  ELSE ClassifyOther(e, p)

(* classify_event: the first rule that applies. *)
ClassifyEvent(e, p) ==
  IF e.path \in p.deniedPaths THEN Result("denied", "deny-exec-path")
  ELSE IF e.comm \in p.deniedComms THEN Result("denied", "deny-comm")
  ELSE IF e.path \in p.sensitive THEN ClassifySensitive(e, p)
  ELSE IF IsExecLike(e) THEN ClassifyExecLike(e, p)
  ELSE ClassifyOther(e, p)

(* Mutant: an event without a policy of its own is judged by the first.    *)
BorrowFirstPolicy(e, policies) ==
  LET own == {i \in DOMAIN policies : policies[i].workload = e.workload}
  IN  IF own = {} THEN ClassifyEvent(e, policies[1])
      ELSE ClassifyEvent(e, policies[CHOOSE i \in own : \A j \in own : i <= j])

(* classify_event_for_workload: a single policy judges every event, in a   *)
(* set the event's workload chooses its policy.                            *)
ClassifyEventForWorkload(e, policies) ==
  LET own == {i \in DOMAIN policies : policies[i].workload = e.workload}
  IN  IF Len(policies) = 1 THEN ClassifyEvent(e, policies[1])
      ELSE IF e.workload = NoWorkload \/ own = {}
      THEN Result("suspicious", "no-policy-for-workload")
      ELSE ClassifyEvent(e, policies[CHOOSE i \in own : \A j \in own : i <= j])
=============================================================================
