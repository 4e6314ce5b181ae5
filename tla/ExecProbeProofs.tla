--------------------------- MODULE ExecProbeProofs ---------------------------
(***************************************************************************)
(* Proofs about ExecProbe and, through it, Classifier: for any sizes of    *)
(* the buffers, any calls and any policy sets, complete evidence is exact  *)
(* and the verdicts keep the promises of the policy language.              *)
(***************************************************************************)
EXTENDS ExecProbe, SequenceTheorems, TLAPS

-----------------------------------------------------------------------------
(* A copy that leaves room beside the NUL is the whole string.             *)
LEMMA CopyIsWhole ==
  ASSUME NEW s, IsSequence(s), NEW size \in Nat \ {0}, ~Fills(s, size)
  PROVE  Copied(s, size) = s
<1> DEFINE S == {s[i] : i \in DOMAIN s}
<1>1. s \in Seq(S) /\ Len(s) \in Nat
  BY LenProperties DEF IsSequence
<1> HIDE DEF S
<1>2. CASE Len(s) < size - 1
  <2>1. Copied(s, size) = SubSeq(s, 1, Len(s))
    BY <1>2 DEF Copied
  <2> QED BY <1>1, <2>1
<1>3. CASE ~(Len(s) < size - 1)
  <2>1. Copied(s, size) = SubSeq(s, 1, size - 1) /\ size - 1 \in 0 .. Len(s)
    BY <1>1, <1>3 DEF Copied
  <2>2. Len(Copied(s, size)) = size - 1
    BY <1>1, <2>1
  <2> QED BY <2>2 DEF Fills
<1> QED BY <1>2, <1>3

(* A string that leaves a unit free is not marked as cut.                  *)
LEMMA FittingCopy ==
  ASSUME NEW s, IsSequence(s), NEW size \in Nat \ {0}, Len(s) < size - 1
  PROVE  ~Fills(s, size)
<1> DEFINE S == {s[i] : i \in DOMAIN s}
<1>1. s \in Seq(S) /\ Len(s) \in Nat
  BY LenProperties DEF IsSequence
<1> HIDE DEF S
<1>2. Copied(s, size) = SubSeq(s, 1, Len(s))
  BY DEF Copied
<1>3. Copied(s, size) = s
  BY <1>1, <1>2
<1> QED BY <1>1, <1>3 DEF Fills

-----------------------------------------------------------------------------
(* The inductive invariant: what the raw event holds at every step of the  *)
(* probe, as a function of the call.                                       *)
Fields ==
  {"filename", "filenameTruncated", "filenameError", "argc", "argv",
   "complete", "truncated", "argvError"}

TypeOK ==
  /\ call \in Calls /\ policies \in PolicySets
  /\ type \in {"exec-attempt", "exec"}
  /\ pc \in {"filename", "argv", "beyond", "submit", "done"}
  /\ DOMAIN raw = Fields
  /\ raw.argc \in Nat /\ raw.argc <= MaxArgs /\ DOMAIN raw.argv = 1 .. MaxArgs
  /\ raw.filenameTruncated \in BOOLEAN /\ raw.filenameError \in BOOLEAN
  /\ raw.complete \in BOOLEAN /\ raw.truncated \in BOOLEAN
  /\ raw.argvError \in BOOLEAN

FilenameCopied ==
  pc # "filename" =>
    IF raw.filenameError
    THEN call.unreadable # {}
    ELSE /\ raw.filename = Copied(call.path, PathLen)
         /\ raw.filenameTruncated <=> Fills(call.path, PathLen)

ArgumentsCopied ==
  /\ raw.argc <= Len(call.args)
  /\ \A i \in 1 .. raw.argc : raw.argv[i] = Copied(call.args[i], ArgLen)
  /\ ~raw.truncated => \A i \in 1 .. raw.argc : ~Fills(call.args[i], ArgLen)
  /\ raw.truncated =>
       \/ Len(call.args) > MaxArgs
       \/ \E i \in 1 .. raw.argc : Fills(call.args[i], ArgLen)
  /\ raw.complete => raw.argc = Len(call.args)
  /\ raw.argvError => call.unreadable # {} \/ call.badArgs # {}

Stage ==
  /\ pc = "filename" => ~raw.filenameError
  /\ pc \in {"filename", "argv"} => raw.argc < MaxArgs
  /\ pc = "beyond" => raw.argc = MaxArgs
  /\ pc \in {"submit", "done"} /\ type = "exec-attempt" =>
       raw.complete \/ raw.argvError \/ Len(call.args) > MaxArgs
  /\ pc = "done" =>
       /\ event = FromRawEvent(raw)
       /\ verdict = ClassifyEventForWorkload(event, policies)

CopyInv == TypeOK /\ FilenameCopied /\ ArgumentsCopied /\ Stage

LEMMA CallShape ==
  ASSUME TypeOK
  PROVE  /\ IsSequence(call.path) /\ Len(call.args) \in Nat
         /\ DOMAIN call.args = 1 .. Len(call.args)
         /\ \A i \in DOMAIN call.args : IsSequence(call.args[i])
<1>1. /\ IsSequence(call.path) /\ IsSequence(call.args)
      /\ \A i \in DOMAIN call.args : IsSequence(call.args[i])
  BY CallAssumption DEF TypeOK
<1> QED BY <1>1, LenProperties DEF IsSequence

LEMMA CopyInit == Init => CopyInv
<1> SUFFICES ASSUME Init PROVE CopyInv
  OBVIOUS
<1>1. TypeOK
  BY BufferAssumption DEF Init, ZeroEvent, TypeOK, Fields
<1>2. Len(call.args) \in Nat
  BY <1>1, CallShape
<1> QED BY <1>1, <1>2, BufferAssumption
        DEF Init, ZeroEvent, CopyInv, FilenameCopied, ArgumentsCopied, Stage

LEMMA CopyStep ==
  ASSUME CopyInv, [Next]_vars
  PROVE  CopyInv'
<1> USE DEF CopyInv
<1>0. /\ Len(call.args) \in Nat /\ MaxArgs \in Nat \ {0}
      /\ DOMAIN call.args = 1 .. Len(call.args)
  BY CallShape, BufferAssumption
<1>1. CASE ReadFilename
  <2>1. /\ UNCHANGED <<call, policies, type>>
        /\ pc = "filename" /\ pc' \in {"argv", "submit"}
        /\ pc' = "submit" <=> type = "exec"
    BY <1>1 DEF ReadFilename, TypeOK
  <2>2. /\ DOMAIN raw' = Fields
        /\ raw'.argc = raw.argc /\ raw'.argv = raw.argv
        /\ raw'.complete = raw.complete /\ raw'.truncated = raw.truncated
        /\ raw'.argvError = raw.argvError
    BY <1>1 DEF ReadFilename, TypeOK, Fields
  <2>3. /\ raw'.filenameError \in BOOLEAN /\ raw'.filenameTruncated \in BOOLEAN
        /\ FilenameCopied'
    <3>1. CASE "filename" \in call.unreadable
      BY <1>1, <2>1, <3>1 DEF ReadFilename, TypeOK, Fields, FilenameCopied
    <3>2. CASE "filename" \notin call.unreadable
      <4>1. ~raw.filenameError
        BY <2>1 DEF Stage
      <4>2. raw' = [raw EXCEPT
                      !.filename = Copied(call.path, PathLen),
                      !.filenameTruncated = Fills(call.path, PathLen)]
        BY <1>1, <3>2 DEF ReadFilename
      <4>3. Fills(call.path, PathLen) \in BOOLEAN
        BY DEF Fills
      <4>4. /\ ~raw'.filenameError /\ raw'.filenameError \in BOOLEAN
            /\ raw'.filename = Copied(call.path, PathLen)
            /\ raw'.filenameTruncated = Fills(call.path, PathLen)
        BY <4>1, <4>2 DEF TypeOK, Fields
      <4> QED BY <2>1, <4>3, <4>4 DEF FilenameCopied
    <3> QED BY <3>1, <3>2
  <2>4. TypeOK'
    BY <2>1, <2>2, <2>3 DEF TypeOK
  <2>5. ArgumentsCopied'
    BY <2>1, <2>2 DEF ArgumentsCopied
  <2> QED BY <2>1, <2>2, <2>3, <2>4, <2>5 DEF Stage
<1>2. CASE NoArgv
  <2>1. /\ UNCHANGED <<call, policies, type>> /\ pc = "argv" /\ pc' = "submit"
        /\ call.unreadable # {}
        /\ DOMAIN raw' = Fields /\ raw'.argvError = TRUE
        /\ \A f \in Fields \ {"argvError"} : raw'[f] = raw[f]
    BY <1>2 DEF NoArgv, TypeOK, Fields
  <2> QED BY <2>1 DEF TypeOK, FilenameCopied, ArgumentsCopied, Stage, Fields
<1>3. CASE ReadArg
  <2> DEFINE i == raw.argc + 1
  <2>0. /\ UNCHANGED <<call, policies, type>> /\ pc = "argv" /\ i \in 1 .. MaxArgs
    BY <1>0, <1>3 DEF ReadArg, TypeOK
  <2>1. CASE i \in call.badArgs
    <3>1. /\ pc' = "submit" /\ call.badArgs # {}
          /\ DOMAIN raw' = Fields /\ raw'.argvError = TRUE
          /\ \A f \in Fields \ {"argvError"} : raw'[f] = raw[f]
      BY <1>3, <2>1 DEF ReadArg, TypeOK, Fields
    <3> QED BY <2>0, <3>1 DEF TypeOK, FilenameCopied, ArgumentsCopied, Stage, Fields
  <2>2. CASE i \notin call.badArgs /\ i > Len(call.args)
    <3>1. /\ pc' = "submit" /\ raw.argc = Len(call.args)
          /\ DOMAIN raw' = Fields /\ raw'.complete = TRUE
          /\ \A f \in Fields \ {"complete"} : raw'[f] = raw[f]
      BY <1>0, <1>3, <2>2 DEF ReadArg, TypeOK, Fields, ArgumentsCopied
    <3> QED BY <2>0, <3>1 DEF TypeOK, FilenameCopied, ArgumentsCopied, Stage, Fields
  <2>3. CASE i \notin call.badArgs /\ ~(i > Len(call.args))
    <3>1. /\ raw' = [raw EXCEPT
                       !.argc = i,
                       !.argv[i] = Copied(call.args[i], ArgLen),
                       !.truncated = @ \/ Fills(call.args[i], ArgLen)]
          /\ pc' = IF i = MaxArgs THEN "beyond" ELSE "argv"
      BY <1>3, <2>3 DEF ReadArg
    <3>2. /\ DOMAIN raw' = Fields /\ raw'.argc = i
          /\ raw'.argv = [raw.argv EXCEPT ![i] = Copied(call.args[i], ArgLen)]
          /\ raw'.truncated <=> raw.truncated \/ Fills(call.args[i], ArgLen)
          /\ raw'.truncated \in BOOLEAN
          /\ \A f \in Fields \ {"argc", "argv", "truncated"} : raw'[f] = raw[f]
      BY <3>1 DEF TypeOK, Fields, Fills
    <3>3. /\ DOMAIN raw'.argv = 1 .. MaxArgs
          /\ \A k \in 1 .. raw.argc : raw'.argv[k] = raw.argv[k]
          /\ raw'.argv[i] = Copied(call.args[i], ArgLen)
      BY <1>0, <2>0, <3>2 DEF TypeOK
    <3>4. TypeOK'
      BY <1>0, <2>0, <3>1, <3>2, <3>3 DEF TypeOK, Fields
    <3>5. FilenameCopied'
      BY <2>0, <3>1, <3>2 DEF FilenameCopied, Fields
    <3>6. 1 .. i = (1 .. raw.argc) \union {i}
      BY <1>0 DEF TypeOK
    <3>7. ArgumentsCopied'
      BY <1>0, <2>0, <2>3, <3>2, <3>3, <3>6 DEF ArgumentsCopied, TypeOK, Fields
    <3>8. Stage'
      BY <1>0, <2>0, <3>1, <3>2 DEF Stage, TypeOK
    <3> QED BY <3>4, <3>5, <3>7, <3>8
  <2> QED BY <2>1, <2>2, <2>3
<1>4. CASE LookBeyond
  <2>0. /\ UNCHANGED <<call, policies, type>> /\ pc = "beyond" /\ pc' = "submit"
        /\ raw.argc = MaxArgs
    BY <1>4 DEF LookBeyond, Stage
  <2>1. CASE MaxArgs + 1 \in call.badArgs
    <3>1. /\ call.badArgs # {}
          /\ DOMAIN raw' = Fields /\ raw'.argvError = TRUE
          /\ \A f \in Fields \ {"argvError"} : raw'[f] = raw[f]
      BY <1>4, <2>1 DEF LookBeyond, TypeOK, Fields
    <3> QED BY <2>0, <3>1 DEF TypeOK, FilenameCopied, ArgumentsCopied, Stage, Fields
  <2>2. CASE MaxArgs + 1 \notin call.badArgs /\ MaxArgs + 1 > Len(call.args)
    <3>1. /\ raw.argc = Len(call.args)
          /\ DOMAIN raw' = Fields /\ raw'.complete = TRUE
          /\ \A f \in Fields \ {"complete"} : raw'[f] = raw[f]
      BY <1>0, <1>4, <2>0, <2>2 DEF LookBeyond, TypeOK, Fields, ArgumentsCopied
    <3> QED BY <2>0, <3>1 DEF TypeOK, FilenameCopied, ArgumentsCopied, Stage, Fields
  <2>3. CASE MaxArgs + 1 \notin call.badArgs /\ ~(MaxArgs + 1 > Len(call.args))
    <3>1. /\ Len(call.args) > MaxArgs
          /\ DOMAIN raw' = Fields /\ raw'.truncated = TRUE
          /\ \A f \in Fields \ {"truncated"} : raw'[f] = raw[f]
      BY <1>0, <1>4, <2>3 DEF LookBeyond, TypeOK, Fields
    <3> QED BY <2>0, <3>1 DEF TypeOK, FilenameCopied, ArgumentsCopied, Stage, Fields
  <2> QED BY <2>1, <2>2, <2>3
<1>5. CASE Submit
  <2>1. /\ UNCHANGED <<call, policies, type, raw>> /\ pc = "submit" /\ pc' = "done"
        /\ event' = FromRawEvent(raw)
        /\ verdict' = ClassifyEventForWorkload(event', policies)
    BY <1>5 DEF Submit
  <2>2. FromRawEvent(raw)' = FromRawEvent(raw)
    BY <2>1 DEF FromRawEvent
  <2> QED BY <2>1, <2>2 DEF TypeOK, FilenameCopied, ArgumentsCopied, Stage
<1>6. CASE UNCHANGED vars
  BY <1>6 DEF vars, TypeOK, FilenameCopied, ArgumentsCopied, Stage, FromRawEvent
<1> QED BY <1>1, <1>2, <1>3, <1>4, <1>5, <1>6 DEF Next

LEMMA CopyInvariant == Spec => []CopyInv
BY CopyInit, CopyStep, PTL DEF Spec

-----------------------------------------------------------------------------
(* Complete evidence of an attempt, once the event is made.                *)
LEMMA WholeIsExact ==
  ASSUME CopyInv, pc = "done", type = "exec-attempt", event.whole
  PROVE  event.path = CallPath /\ event.argv = CallArgv
<1>1. /\ event = FromRawEvent(raw)
      /\ Whole(raw)
  BY DEF CopyInv, Stage, FromRawEvent
<1>2. raw.filename = call.path
  <2>1. raw.filename = Copied(call.path, PathLen) /\ ~Fills(call.path, PathLen)
    BY <1>1 DEF CopyInv, FilenameCopied, Whole
  <2> QED BY <2>1, CallShape, CopyIsWhole, BufferAssumption DEF CopyInv
<1>3. DOMAIN call.args = 1 .. raw.argc
  BY <1>1, CallShape DEF CopyInv, ArgumentsCopied, Whole
<1>4. ASSUME NEW i \in 1 .. raw.argc PROVE raw.argv[i] = call.args[i]
  <2>1. /\ raw.argv[i] = Copied(call.args[i], ArgLen)
        /\ ~Fills(call.args[i], ArgLen) /\ IsSequence(call.args[i])
    BY <1>1, <1>3, CallShape DEF CopyInv, ArgumentsCopied, Whole
  <2> QED BY <2>1, CopyIsWhole, BufferAssumption
<1>5. event.path = LossyString(raw.filename)
      /\ event.argv = [i \in 1 .. raw.argc |-> LossyString(raw.argv[i])]
  BY <1>1 DEF FromRawEvent
<1> QED BY <1>2, <1>3, <1>4, <1>5 DEF CallPath, CallArgv

(* Complete argv and filename evidence is the call's file name and argv,   *)
(* for any sizes of the buffers of the raw event.                          *)
THEOREM ProbeCompleteIsExact == Spec => []CompleteEvidenceIsExact
<1>1. CopyInv => CompleteEvidenceIsExact
  BY WholeIsExact DEF CompleteEvidenceIsExact, Attempt, Judged
<1> QED BY <1>1, CopyInvariant, PTL

(* A call that can be read and fits is never called incomplete.            *)
THEOREM ProbeFittingIsComplete == Spec => []FittingCallIsComplete
<1>1. ASSUME CopyInv, Attempt, call.unreadable = {}, call.badArgs = {},
             Len(call.args) <= MaxArgs, Len(call.path) < PathLen - 1,
             \A i \in DOMAIN call.args : Len(call.args[i]) < ArgLen - 1
      PROVE  event.whole
  <2>1. /\ ~Fills(call.path, PathLen)
        /\ \A i \in DOMAIN call.args : ~Fills(call.args[i], ArgLen)
    BY <1>1, CallShape, FittingCopy, BufferAssumption DEF CopyInv
  <2>2. ~raw.filenameError /\ ~raw.filenameTruncated
    BY <1>1, <2>1 DEF CopyInv, FilenameCopied, Attempt, Judged
  <2>3. raw.complete /\ ~raw.truncated /\ ~raw.argvError
    <3>1. Len(call.args) \in Nat /\ DOMAIN call.args = 1 .. Len(call.args)
      BY <1>1, CallShape DEF CopyInv
    <3>2. 1 .. raw.argc \subseteq DOMAIN call.args
      BY <1>1, <3>1 DEF CopyInv, ArgumentsCopied, TypeOK
    <3> QED BY <1>1, <2>1, <3>1, <3>2, BufferAssumption
            DEF CopyInv, ArgumentsCopied, Stage, Attempt, Judged
  <2>4. event = FromRawEvent(raw)
    BY <1>1 DEF CopyInv, Stage, Attempt, Judged
  <2>5. Whole(raw)
    BY <2>2, <2>3 DEF Whole
  <2> QED BY <2>4, <2>5 DEF FromRawEvent
<1>2. CopyInv => FittingCallIsComplete
  BY <1>1 DEF FittingCallIsComplete
<1> QED BY <1>2, CopyInvariant, PTL

-----------------------------------------------------------------------------
(* The rules of one policy, for any event and policy.                      *)
LEMMA DeniedRulesWin ==
  ASSUME NEW e, NEW p, e.path \in p.deniedPaths \/ e.comm \in p.deniedComms
  PROVE  ClassifyEvent(e, p).class = "denied"
BY DEF ClassifyEvent, Result

LEMMA SensitiveNeedsInvocation ==
  ASSUME NEW e, NEW p, e.type = "exec-attempt", e.path \in p.sensitive,
         ClassifyEvent(e, p).class = "acceptable"
  PROVE  e.whole /\ [path |-> e.path, argv |-> e.argv] \in p.invocations
<1>1. ClassifyEvent(e, p) = ClassifySensitive(e, p)
  BY DEF ClassifyEvent, Result
<1> QED BY <1>1 DEF ClassifySensitive, Result, IsExec, AcceptableByInvocation

LEMMA AttemptIsApproved ==
  ASSUME NEW e, NEW p, e.type = "exec-attempt",
         ClassifyEvent(e, p).class = "acceptable"
  PROVE  \/ e.path \in p.execPaths
         \/ [path |-> e.path, argv |-> e.argv] \in p.invocations
<1>1. CASE e.path \in p.sensitive
  BY <1>1, SensitiveNeedsInvocation
<1>2. CASE e.path \notin p.sensitive
  <2>1. ClassifyEvent(e, p) = ClassifyExecLike(e, p)
    BY <1>2 DEF ClassifyEvent, Result, IsExecLike
  <2> QED BY <2>1
          DEF ClassifyExecLike, Result, IsExec, AcceptableByExecPath
<1> QED BY <1>1, <1>2

(* In a set no two policies of which have the same workload, the policy    *)
(* that may decide does, and without one nothing is accepted.              *)
LEMMA SetShape ==
  ASSUME TypeOK
  PROVE  /\ Len(policies) \in Nat \ {0} /\ DOMAIN policies = 1 .. Len(policies)
         /\ \A i, j \in DOMAIN policies :
              policies[i].workload = policies[j].workload => i = j
         /\ \A i \in DOMAIN policies : policies[i].workload # NoWorkload
<1> DEFINE S == {policies[i] : i \in DOMAIN policies}
<1>1. /\ policies \in Seq(S) /\ policies # <<>>
      /\ \A i, j \in DOMAIN policies :
           policies[i].workload = policies[j].workload => i = j
      /\ \A i \in DOMAIN policies : policies[i].workload # NoWorkload
  BY PolicySetAssumption DEF TypeOK, IsSequence
<1> HIDE DEF S
<1> QED BY <1>1, LenProperties, EmptySeq

LEMMA DecidingDecides ==
  ASSUME CopyInv, pc = "done", NEW p \in Deciding
  PROVE  verdict = ClassifyEvent(event, p)
<1>0. /\ Len(policies) \in Nat \ {0} /\ DOMAIN policies = 1 .. Len(policies)
      /\ \A i, j \in DOMAIN policies :
           policies[i].workload = policies[j].workload => i = j
      /\ \A i \in DOMAIN policies : policies[i].workload # NoWorkload
  BY SetShape DEF CopyInv
<1>1. /\ event.workload = call.workload
      /\ verdict = ClassifyEventForWorkload(event, policies)
  BY DEF CopyInv, Stage, FromRawEvent
<1>2. PICK k \in DOMAIN policies :
        p = policies[k] /\ (Len(policies) = 1 \/ p.workload = call.workload)
  BY DEF Deciding
<1>3. CASE Len(policies) = 1
  <2>1. k = 1
    BY <1>0, <1>2, <1>3
  <2> QED BY <1>1, <1>2, <1>3, <2>1 DEF ClassifyEventForWorkload
<1>4. CASE Len(policies) # 1
  <2> DEFINE own == {i \in DOMAIN policies : policies[i].workload = event.workload}
  <2>1. own = {k}
    BY <1>0, <1>1, <1>2, <1>4
  <2>2. (CHOOSE i \in own : \A j \in own : i <= j) = k
    <3>1. k \in own /\ \A j \in own : k <= j
      BY <1>0, <2>1
    <3> QED BY <2>1, <3>1
  <2>3. event.workload # NoWorkload
    BY <1>0, <1>1, <1>2, <1>4
  <2> QED BY <1>1, <1>2, <1>4, <2>1, <2>2, <2>3 DEF ClassifyEventForWorkload
<1> QED BY <1>3, <1>4

LEMMA NoneDecides ==
  ASSUME CopyInv, pc = "done", Deciding = {}
  PROVE  verdict.class = "suspicious"
<1>0. Len(policies) \in Nat \ {0} /\ DOMAIN policies = 1 .. Len(policies)
  BY SetShape DEF CopyInv
<1>1. /\ event.workload = call.workload
      /\ verdict = ClassifyEventForWorkload(event, policies)
  BY DEF CopyInv, Stage, FromRawEvent
<1>2. Len(policies) # 1
  <2>1. 1 \in DOMAIN policies
    BY <1>0
  <2> QED BY <2>1 DEF Deciding
<1>3. {i \in DOMAIN policies : policies[i].workload = event.workload} = {}
  BY <1>1 DEF Deciding
<1> QED BY <1>1, <1>2, <1>3 DEF ClassifyEventForWorkload, Result

(* An accepted attempt of an argv-sensitive program had exactly the path   *)
(* and the argv of an allowed invocation.                                  *)
THEOREM AcceptedInvocationsAreAllowed == Spec => []AcceptedInvocationIsAllowed
<1>1. ASSUME CopyInv, Attempt, verdict.class = "acceptable",
             NEW p \in Deciding, event.path \in p.sensitive
      PROVE  [path |-> CallPath, argv |-> CallArgv] \in p.invocations
  <2>1. verdict = ClassifyEvent(event, p)
    BY <1>1, DecidingDecides DEF Attempt, Judged
  <2>2. event.type = "exec-attempt"
    BY <1>1 DEF CopyInv, Stage, FromRawEvent, Attempt, Judged
  <2>3. /\ event.whole
        /\ [path |-> event.path, argv |-> event.argv] \in p.invocations
    BY <1>1, <2>1, <2>2, SensitiveNeedsInvocation
  <2>4. event.path = CallPath /\ event.argv = CallArgv
    BY <1>1, <2>3, WholeIsExact DEF Attempt, Judged
  <2> QED BY <2>3, <2>4
<1>2. CopyInv => AcceptedInvocationIsAllowed
  BY <1>1 DEF AcceptedInvocationIsAllowed
<1> QED BY <1>2, CopyInvariant, PTL

(* A call of a denied program, or by a process with a denied name, is      *)
(* denied by its policy whatever else allows it.                           *)
THEOREM DenialsAlwaysWin == Spec => []DeniedAlwaysWins
<1>1. ASSUME CopyInv, Judged, ~raw.filenameError, ~raw.filenameTruncated,
             NEW p \in Deciding,
             CallPath \in p.deniedPaths \/ call.comm \in p.deniedComms
      PROVE  verdict.class = "denied"
  <2>1. verdict = ClassifyEvent(event, p)
    BY <1>1, DecidingDecides DEF Judged
  <2>2. event.comm = call.comm /\ event.path = LossyString(raw.filename)
    BY <1>1 DEF CopyInv, Stage, FromRawEvent, Judged
  <2>3. raw.filename = Copied(call.path, PathLen) /\ ~Fills(call.path, PathLen)
    BY <1>1 DEF CopyInv, FilenameCopied, Judged
  <2>4. raw.filename = call.path
    BY <1>1, <2>3, CallShape, CopyIsWhole, BufferAssumption DEF CopyInv
  <2> QED BY <1>1, <2>1, <2>2, <2>4, DeniedRulesWin DEF CallPath
<1>2. CopyInv => DeniedAlwaysWins
  BY <1>1 DEF DeniedAlwaysWins
<1> QED BY <1>2, CopyInvariant, PTL

(* An accepted attempt has an approved path or an approved invocation in   *)
(* a policy that may decide about it.                                      *)
THEOREM AttemptsNeedApproval == Spec => []AttemptNeedsApproval
<1>1. ASSUME CopyInv, Attempt, verdict.class = "acceptable"
      PROVE  \E p \in Deciding :
               \/ event.path \in p.execPaths
               \/ [path |-> event.path, argv |-> event.argv] \in p.invocations
  <2>1. PICK p \in Deciding : TRUE
    BY <1>1, NoneDecides DEF Attempt, Judged
  <2>2. verdict = ClassifyEvent(event, p)
    BY <1>1, DecidingDecides DEF Attempt, Judged
  <2>3. event.type = "exec-attempt"
    BY <1>1 DEF CopyInv, Stage, FromRawEvent, Attempt, Judged
  <2> QED BY <1>1, <2>2, <2>3, AttemptIsApproved
<1>2. CopyInv => AttemptNeedsApproval
  BY <1>1 DEF AttemptNeedsApproval
<1> QED BY <1>2, CopyInvariant, PTL

(* A workload without a policy in a set borrows no other's.                *)
THEOREM PoliciesAreNotBorrowed == Spec => []NoBorrowedPolicy
<1>1. CopyInv => NoBorrowedPolicy
  BY NoneDecides DEF NoBorrowedPolicy, Judged
<1> QED BY <1>1, CopyInvariant, PTL

=============================================================================
