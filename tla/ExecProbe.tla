------------------------------ MODULE ExecProbe ------------------------------
(***************************************************************************)
(* What an exec call becomes as evidence: the part of emit_event           *)
(* (runtime-monitor-ebpf) that copies file name and argv of one call out   *)
(* of the caller's memory, the RuntimeEvent user space makes of the raw    *)
(* event, and the verdict of the session's policies.                       *)
(*                                                                         *)
(* A string is a sequence of units; the buffers hold PathLen and ArgLen    *)
(* units, the last one a NUL. The caller's memory does not change during   *)
(* the call.                                                               *)
(***************************************************************************)
EXTENDS Classifier

CONSTANTS
  MaxArgs,   \* MAX_ARGS
  ArgLen,    \* ARG_LEN
  PathLen,   \* PATH_LEN
  Readable,  \* the units that are valid UTF-8
  Lossy,     \* what from_utf8_lossy puts in the place of any other unit
  Calls,     \* the calls: [path, args, comm, workload,
             \* unreadable, badArgs], the last two naming what faults
  PolicySets \* the policy sets a session can run with

ASSUME BufferAssumption ==
  MaxArgs \in Nat \ {0} /\ ArgLen \in Nat \ {0} /\ PathLen \in Nat \ {0}

IsSequence(s) == s \in Seq({s[i] : i \in DOMAIN s})

ASSUME CallAssumption ==
  \A c \in Calls :
    /\ IsSequence(c.path)
    /\ IsSequence(c.args) /\ \A i \in DOMAIN c.args : IsSequence(c.args[i])

(* build_workload_policy_set: a primary policy, and one for each further   *)
(* workload id.                                                            *)
ASSUME PolicySetAssumption ==
  \A set \in PolicySets :
    /\ IsSequence(set) /\ set # <<>>
    /\ \A i, j \in DOMAIN set : set[i].workload = set[j].workload => i = j
    /\ \A i \in DOMAIN set : set[i].workload # NoWorkload

VARIABLES
  call,     \* the exec call
  policies, \* the policies of the session
  type,     \* the tracepoint: "exec-attempt" or "exec"
  pc,       \* the probe: "filename", "argv", "beyond", "submit", "done"
  raw,      \* the raw Event
  event,    \* the RuntimeEvent made of it
  verdict   \* its classification

vars == <<call, policies, type, pc, raw, event, verdict>>

(* The event after it was zeroed. *)
ZeroEvent ==
  [filename |-> <<>>, filenameTruncated |-> FALSE, filenameError |-> FALSE,
   argc |-> 0, argv |-> [i \in 1 .. MaxArgs |-> <<>>], complete |-> FALSE,
   truncated |-> FALSE, argvError |-> FALSE]

NoEvent == [type |-> "unknown"]

Init ==
  /\ call \in Calls
  /\ policies \in PolicySets
  /\ type \in {"exec-attempt", "exec"}
  /\ pc = "filename"
  /\ raw = ZeroEvent
  /\ event = NoEvent
  /\ verdict = NoEvent

-----------------------------------------------------------------------------
(* bpf_probe_read_*_str_bytes: as much as fits before the NUL. *)
Copied(string, size) ==
  SubSeq(string, 1, IF Len(string) < size - 1 THEN Len(string) ELSE size - 1)

(* Mutant: a string with a unit to spare is marked too. *)
FillsEarly(string, size) == Len(Copied(string, size)) >= size - 2

(* The copy fills the buffer: it may have been cut. *)
Fills(string, size) == Len(Copied(string, size)) >= size - 1

(* The file name, from kernel memory for an exec and from the caller's for *)
(* an attempt; either read may fail, and the pointer may be null.          *)
ReadFilename ==
  /\ pc = "filename"
  /\ raw' = IF "filename" \in call.unreadable
            THEN [raw EXCEPT !.filenameError = TRUE]
            ELSE [raw EXCEPT
                    !.filename = Copied(call.path, PathLen),
                    !.filenameTruncated = Fills(call.path, PathLen)]
  /\ pc' = IF type = "exec-attempt" THEN "argv" ELSE "submit"
  /\ UNCHANGED <<call, policies, type, event, verdict>>

(* argv is a null pointer. *)
NoArgv ==
  /\ pc = "argv"
  /\ "argv" \in call.unreadable
  /\ raw' = [raw EXCEPT !.argvError = TRUE]
  /\ pc' = "submit"
  /\ UNCHANGED <<call, policies, type, event, verdict>>

(* One turn of the loop over argv: the pointer, then the string behind it. *)
ReadArg ==
  LET i == raw.argc + 1
  IN  /\ pc = "argv"
      /\ "argv" \notin call.unreadable
      /\ i <= MaxArgs
      /\ IF i \in call.badArgs
         THEN raw' = [raw EXCEPT !.argvError = TRUE] /\ pc' = "submit"
         ELSE IF i > Len(call.args)
         THEN raw' = [raw EXCEPT !.complete = TRUE] /\ pc' = "submit"
         ELSE /\ raw' = [raw EXCEPT
                           !.argc = i,
                           !.argv[i] = Copied(call.args[i], ArgLen),
                           !.truncated = @ \/ Fills(call.args[i], ArgLen)]
              /\ pc' = IF i = MaxArgs THEN "beyond" ELSE "argv"
      /\ UNCHANGED <<call, policies, type, event, verdict>>

(* Mutant: a full argv buffer counts as the whole argv. *)
AssumeEnd ==
  /\ pc = "beyond"
  /\ raw' = [raw EXCEPT !.complete = TRUE]
  /\ pc' = "submit"
  /\ UNCHANGED <<call, policies, type, event, verdict>>

(* MAX_ARGS arguments were read: is there another one? *)
LookBeyond ==
  /\ pc = "beyond"
  /\ raw' = IF MaxArgs + 1 \in call.badArgs
            THEN [raw EXCEPT !.argvError = TRUE]
            ELSE IF MaxArgs + 1 > Len(call.args)
            THEN [raw EXCEPT !.complete = TRUE]
            ELSE [raw EXCEPT !.truncated = TRUE]
  /\ pc' = "submit"
  /\ UNCHANGED <<call, policies, type, event, verdict>>

-----------------------------------------------------------------------------
(* bytes_to_lossy_string. *)
LossyString(s) == [i \in DOMAIN s |-> IF s[i] \in Readable THEN s[i] ELSE Lossy]

(* argv_evidence_complete_for_sensitive_match. *)
Whole(r) ==
  /\ r.complete /\ ~r.truncated /\ ~r.argvError
  /\ ~r.filenameTruncated /\ ~r.filenameError

(* RuntimeEvent::from_raw_event. *)
FromRawEvent(r) ==
  [type |-> type, workload |-> call.workload, path |-> LossyString(r.filename),
   comm |-> call.comm, argv |-> [i \in 1 .. r.argc |-> LossyString(r.argv[i])],
   whole |-> Whole(r)]

(* The event is submitted, read and classified (process_sample). *)
Submit ==
  /\ pc = "submit"
  /\ event' = FromRawEvent(raw)
  /\ verdict' = ClassifyEventForWorkload(event', policies)
  /\ pc' = "done"
  /\ UNCHANGED <<call, policies, type, raw>>

Next == ReadFilename \/ NoArgv \/ ReadArg \/ LookBeyond \/ Submit

Spec == Init /\ [][Next]_vars

-----------------------------------------------------------------------------
CallPath == LossyString(call.path)
CallArgv == [i \in DOMAIN call.args |-> LossyString(call.args[i])]

Judged == pc = "done"
Attempt == Judged /\ type = "exec-attempt"

(* "complete argv and filename evidence": evidence that says it is         *)
(* complete is the call's file name and argv, all of it, however many      *)
(* arguments, however long, and whatever of it could not be read.          *)
CompleteEvidenceIsExact ==
  Attempt /\ event.whole =>
    /\ event.path = CallPath
    /\ event.argv = CallArgv

(* And a call that can be read and has room in the event is never called   *)
(* incomplete: up to MAX_ARGS arguments, and strings that leave a unit     *)
(* free beside the NUL.                                                    *)
FittingCallIsComplete ==
  Attempt /\ call.unreadable = {} /\ call.badArgs = {} /\ Len(call.args) <= MaxArgs
  /\ Len(call.path) < PathLen - 1
  /\ (\A i \in DOMAIN call.args : Len(call.args[i]) < ArgLen - 1) =>
    event.whole

(* The policies that may decide about the event: the only one, or those of *)
(* its workload.                                                           *)
Deciding ==
  {p \in {policies[i] : i \in DOMAIN policies} :
     Len(policies) = 1 \/ p.workload = call.workload}

(* An accepted attempt of an argv-sensitive program was a call with        *)
(* exactly the path and the argv of an allowed invocation.                 *)
AcceptedInvocationIsAllowed ==
  Attempt /\ verdict.class = "acceptable" =>
    \A p \in Deciding :
      event.path \in p.sensitive =>
        [path |-> CallPath, argv |-> CallArgv] \in p.invocations

(* "Denied rules always win": a call of a denied program, or by a process  *)
(* with a denied name, is denied by its policy whatever else allows it, as *)
(* long as its path could be read and fits.                                *)
DeniedAlwaysWins ==
  Judged /\ ~raw.filenameError /\ ~raw.filenameTruncated =>
    \A p \in Deciding :
      CallPath \in p.deniedPaths \/ call.comm \in p.deniedComms =>
        verdict.class = "denied"

(* "event-type allowlisting alone must not bless arbitrary exec attempts": *)
(* an accepted attempt has an approved path or an approved invocation.     *)
AttemptNeedsApproval ==
  Attempt /\ verdict.class = "acceptable" =>
    \E p \in Deciding :
      \/ event.path \in p.execPaths
      \/ [path |-> event.path, argv |-> event.argv] \in p.invocations

(* A workload without a policy in a set "fails closed rather than          *)
(* borrowing another workload's allowlist".                                *)
NoBorrowedPolicy ==
  Judged /\ Deciding = {} => verdict.class = "suspicious"
=============================================================================
