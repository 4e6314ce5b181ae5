----------------------------- MODULE Collector -----------------------------
(***************************************************************************)
(* The collection path: the eBPF probes of runtime-monitor-ebpf on every   *)
(* CPU, the EVENTS ring buffer and MONITOR_STATE they share with user      *)
(* space, and the loop of runtime-monitor/src/main.rs that attaches the    *)
(* probes, reads the ring and stops on Ctrl-C.                             *)
(*                                                                         *)
(* A probe runs to completion but other CPUs run between its reservation,  *)
(* its sequence number and its submission, or between a reservation that   *)
(* failed and the count of what was lost. The ring hands slots out in      *)
(* reservation order, and the reader stops at a slot not yet submitted.    *)
(* What a sample becomes once read is the subject of EvidenceCapture.      *)
(***************************************************************************)
EXTENDS Naturals, Sequences, FiniteSets

CONSTANTS
  Task,        \* processes that call exec once each
  CgroupOf,    \* CgroupOf[t]: the cgroup of task t
  Targets,     \* the cgroups TARGET_CGROUPS holds
  HostWide,    \* COLLECTION_MODE is host-wide
  CaptureArgv, \* capture_argv of the collector config
  EntryPoints, \* the system calls in use: "execve", "execveat"
  Capacity,    \* the events the ring has room for
  None         \* no sequence number yet

ASSUME CollectorAssumption ==
  /\ IsFiniteSet(Task)
  /\ Targets \subseteq {CgroupOf[t] : t \in Task}
  /\ HostWide \in BOOLEAN /\ CaptureArgv \in BOOLEAN
  /\ EntryPoints \subseteq {"execve", "execveat"}
  /\ Capacity \in Nat \ {0}
  /\ None \notin Nat

VARIABLES
  at,       \* at[t]: how far the exec of task t has got; the fields attempt
            \* and exec are history: that probe has run for t
  attached, \* the attached probes, by the type of event they emit
  ring,     \* EVENTS: the slots from the consumer position on
  seq,      \* MONITOR_STATE.seq
  lost,     \* MONITOR_STATE.lost
  monitor,  \* the program counter of main
  handler,  \* ctrl_c has been polled, so SIGINT no longer kills the process
  sigint,   \* "none", "pending" or "taken"
  evidence, \* the events read from the ring, in order
  reported, \* the lost count main passes to write_summary, None before
  losing,   \* the events that found the ring full and are not counted yet
  dropped   \* history: the events lost counts

vars == <<at, attached, ring, seq, lost, monitor, handler, sigint, evidence,
          reported, losing, dropped>>

lossVars    == <<lost, losing, dropped>>
taskVars    == <<at, ring, seq, lossVars>>
monitorVars == <<attached, monitor, handler, sigint, evidence, reported>>

EventTypes == {"attempt", "exec"}

Alive == monitor \notin {"finished", "killed"}

(* current_scope: a target cgroup, or any cgroup when host-wide. *)
InScope(t) == CgroupOf[t] \in Targets \/ HostWide

Probed(t, type) == type \in attached /\ InScope(t)

Init ==
  /\ at = [t \in Task |-> [stage |-> "user", attempt |-> FALSE, exec |-> FALSE]]
  /\ attached = {}
  /\ ring = <<>>
  /\ seq = 0
  /\ lost = 0
  /\ monitor = "attach-exec"
  /\ handler = FALSE
  /\ sigint = "none"
  /\ evidence = <<>>
  /\ reported = None
  /\ losing = {}
  /\ dropped = {}

-----------------------------------------------------------------------------
(* Mutant: no test for room. *)
ReserveAlways(t, type) ==
  /\ ring' = Append(ring, [task |-> t, type |-> type, seq |-> None,
                           submitted |-> FALSE])
  /\ UNCHANGED lossVars

(* emit_event up to the reservation: without room the event is lost and    *)
(* has yet to be counted, else the slot is the task's until it submits it. *)
Reserve(t, type) ==
  IF Len(ring) < Capacity
  THEN /\ ring' = Append(ring, [task |-> t, type |-> type, seq |-> None,
                                submitted |-> FALSE])
       /\ UNCHANGED lossVars
  ELSE /\ losing' = losing \union {[task |-> t, type |-> type]}
       /\ UNCHANGED <<ring, lost, dropped>>

(* The slots task t has reserved and not submitted, and its losses that    *)
(* are not counted: it is in a probe while it has one of either.           *)
Slots(t)    == {i \in DOMAIN ring : ring[i].task = t /\ ~ring[i].submitted}
LossesOf(t) == {e \in losing : e.task = t}
InProbe(t)  == Slots(t) # {} \/ LossesOf(t) # {}

(* A tracepoint on the way of t to the next stage: its probe runs if it is *)
(* attached and t in scope.                                                *)
Trace(t, type, stage) ==
  IF Probed(t, type)
  THEN /\ at' = [at EXCEPT ![t].stage = stage, ![t][type] = TRUE]
       /\ Reserve(t, type)
  ELSE /\ at' = [at EXCEPT ![t].stage = stage]
       /\ UNCHANGED <<ring, lossVars>>

(* execve passes the sys_enter_execve tracepoint, execveat does not. *)
EnterExecve(t) ==
  /\ "execve" \in EntryPoints
  /\ at[t].stage = "user"
  /\ Trace(t, "attempt", "exec")
  /\ UNCHANGED <<seq, monitorVars>>

EnterExecveat(t) ==
  /\ "execveat" \in EntryPoints
  /\ at[t].stage = "user"
  /\ at' = [at EXCEPT ![t].stage = "exec"]
  /\ UNCHANGED <<ring, seq, lossVars, monitorVars>>

(* The new image is in place: the sched_process_exec tracepoint. *)
ProcessExec(t) ==
  /\ at[t].stage = "exec"
  /\ ~InProbe(t)
  /\ Trace(t, "exec", "done")
  /\ UNCHANGED <<seq, monitorVars>>

(* The exec fails (no such file, no permission): nothing more is traced. *)
FailExec(t) ==
  /\ at[t].stage = "exec"
  /\ ~InProbe(t)
  /\ at' = [at EXCEPT ![t].stage = "done"]
  /\ UNCHANGED <<ring, seq, lossVars, monitorVars>>

(* Mutant: load and store instead of one atomic add; another CPU has added *)
(* in between.                                                             *)
NumberEventRacy(t) ==
  /\ \E i \in Slots(t) :
       /\ ring[i].seq = None
       /\ \E stale \in {seq, IF seq = 0 THEN 0 ELSE seq - 1} :
            /\ ring' = [ring EXCEPT ![i].seq = stale]
            /\ seq' = stale + 1
  /\ UNCHANGED <<at, lossVars, monitorVars>>

(* The atomic fetch-and-add of MONITOR_STATE.seq. *)
NumberEvent(t) ==
  /\ \E i \in Slots(t) :
       /\ ring[i].seq = None
       /\ ring' = [ring EXCEPT ![i].seq = seq]
       /\ seq' = seq + 1
  /\ UNCHANGED <<at, lossVars, monitorVars>>

(* The event is filled in and submitted. *)
Submit(t) ==
  /\ \E i \in Slots(t) :
       /\ ring[i].seq # None
       /\ ring' = [ring EXCEPT ![i].submitted = TRUE]
  /\ UNCHANGED <<at, seq, lossVars, monitorVars>>

(* Mutant: a full ring returns without counting the event. *)
CountNothing(t) ==
  /\ \E e \in LossesOf(t) : losing' = losing \ {e}
  /\ UNCHANGED <<at, ring, seq, lost, dropped, monitorVars>>

(* The atomic add of MONITOR_STATE.lost, and the probe is done. *)
CountLost(t) ==
  /\ \E e \in LossesOf(t) :
       /\ losing' = losing \ {e}
       /\ dropped' = dropped \union {e}
       /\ lost' = lost + 1
  /\ UNCHANGED <<at, ring, seq, monitorVars>>

-----------------------------------------------------------------------------
(* attach_tracepoint_programs: exec first, then the attempt probe. *)
AttachExec ==
  /\ monitor = "attach-exec"
  /\ attached' = {"exec"}
  /\ monitor' = IF CaptureArgv THEN "attach-attempt" ELSE "listening"
  /\ UNCHANGED <<taskVars, handler, sigint, evidence, reported>>

AttachAttempt ==
  /\ monitor = "attach-attempt"
  /\ attached' = attached \union {"attempt"}
  /\ monitor' = "listening"
  /\ UNCHANGED <<taskVars, handler, sigint, evidence, reported>>

(* Mutant: the ring is read only when it is full. *)
FullRingReady == Len(ring) = Capacity /\ ring[1].submitted

(* Mutant: the reader takes any submitted slot, not the oldest. *)
ReadAnySubmitted ==
  /\ monitor \in {"listening", "draining"}
  /\ \E i \in DOMAIN ring :
       /\ ring[i].submitted
       /\ evidence' = Append(evidence, [task |-> ring[i].task,
                               type |-> ring[i].type, seq |-> ring[i].seq])
       /\ ring' = SubSeq(ring, 1, i - 1) \o SubSeq(ring, i + 1, Len(ring))
  /\ UNCHANGED <<at, seq, lossVars, attached, monitor, handler, sigint,
                 reported>>

(* ring.next() returns a sample; its room is free once it is processed. *)
SampleReady == ring # <<>> /\ ring[1].submitted

ReadSample ==
  /\ monitor \in {"listening", "draining"}
  /\ SampleReady
  /\ evidence' = Append(evidence, [task |-> ring[1].task,
                          type |-> ring[1].type, seq |-> ring[1].seq])
  /\ ring' = Tail(ring)
  /\ UNCHANGED <<at, seq, lossVars, attached, monitor, handler, sigint,
                 reported>>

(* Mutant: the select waits for the timer before it looks at ctrl_c. *)
SelectTimer ==
  /\ monitor = "listening"
  /\ ~SampleReady
  /\ handler' = TRUE
  /\ monitor' = "sleeping"
  /\ UNCHANGED <<taskVars, attached, evidence, reported, sigint>>

(* No sample: the select polls ctrl_c, which installs the handler the      *)
(* first time, and stops at once when a signal is pending.                 *)
Select ==
  /\ monitor = "listening"
  /\ ~SampleReady
  /\ handler' = TRUE
  /\ IF sigint = "pending"
     THEN monitor' = "draining" /\ sigint' = "taken"
     ELSE monitor' = "sleeping" /\ UNCHANGED sigint
  /\ UNCHANGED <<taskVars, attached, evidence, reported>>

(* In the select: 50 ms have passed, or the signal arrives. *)
WakeByTimer ==
  /\ monitor = "sleeping"
  /\ monitor' = "listening"
  /\ UNCHANGED <<taskVars, attached, handler, sigint, evidence, reported>>

WakeByCtrlC ==
  /\ monitor = "sleeping"
  /\ sigint = "pending"
  /\ sigint' = "taken"
  /\ monitor' = "draining"
  /\ UNCHANGED <<taskVars, attached, handler, evidence, reported>>

(* Mutant: no drain, the counters are read at once. *)
EndDrainAtOnce ==
  /\ monitor = "draining"
  /\ monitor' = "reading-state"
  /\ UNCHANGED <<taskVars, attached, handler, sigint, evidence, reported>>

(* The drain ends at the first ring.next() that returns nothing. *)
EndDrain ==
  /\ monitor = "draining"
  /\ ~SampleReady
  /\ monitor' = "reading-state"
  /\ UNCHANGED <<taskVars, attached, handler, sigint, evidence, reported>>

(* read_monitor_state, or fallback_monitor_state, whose lost count is the  *)
(* largest one seen in an event: emit_event always writes zero there.      *)
ReadMonitorState ==
  /\ monitor = "reading-state"
  /\ reported' \in {lost, 0}
  /\ monitor' = "finished"
  /\ UNCHANGED <<taskVars, attached, handler, sigint, evidence>>

(* A SIGINT: taken by the handler, or by the default action, which ends    *)
(* the process. *)
Interrupt ==
  /\ sigint = "none"
  /\ Alive
  /\ IF handler THEN sigint' = "pending" /\ UNCHANGED monitor
     ELSE sigint' = "taken" /\ monitor' = "killed"
  /\ UNCHANGED <<taskVars, attached, handler, evidence, reported>>

Probe(t) == NumberEvent(t) \/ Submit(t) \/ CountLost(t)

Monitor ==
  \/ AttachExec \/ AttachAttempt \/ ReadSample \/ Select \/ WakeByTimer
  \/ WakeByCtrlC \/ EndDrain \/ ReadMonitorState

Next ==
  \/ \E t \in Task :
       EnterExecve(t) \/ EnterExecveat(t) \/ ProcessExec(t) \/ FailExec(t)
         \/ Probe(t)
  \/ Monitor
  \/ Interrupt

Spec == Init /\ [][Next]_vars

(* A probe that has started runs to its end, and main is scheduled. No     *)
(* task has to exec and nobody has to press Ctrl-C.                        *)
FairSpec == Spec /\ (\A t \in Task : WF_vars(Probe(t))) /\ WF_vars(Monitor)

-----------------------------------------------------------------------------
SeqNumbers == Nat \union {None}

TypeOK ==
  /\ at \in [Task -> [stage : {"user", "exec", "done"}, attempt : BOOLEAN,
                      exec : BOOLEAN]]
  /\ attached \subseteq EventTypes
  /\ ring \in Seq([task : Task, type : EventTypes, seq : SeqNumbers,
                   submitted : BOOLEAN])
  /\ Len(ring) <= Capacity
  /\ seq \in Nat /\ lost \in Nat
  /\ monitor \in {"attach-exec", "attach-attempt", "listening", "sleeping",
                  "draining", "reading-state", "finished", "killed"}
  /\ handler \in BOOLEAN
  /\ sigint \in {"none", "pending", "taken"}
  /\ evidence \in Seq([task : Task, type : EventTypes, seq : Nat])
  /\ reported \in Nat \union {None}
  /\ losing \subseteq [task : Task, type : EventTypes]
  /\ dropped \subseteq [task : Task, type : EventTypes]

Recorded(t, type) ==
  \E i \in DOMAIN evidence : evidence[i].task = t /\ evidence[i].type = type

InRing(t, type) ==
  \E i \in DOMAIN ring : ring[i].task = t /\ ring[i].type = type

Losing(t, type)  == [task |-> t, type |-> type] \in losing
Dropped(t, type) == [task |-> t, type |-> type] \in dropped

(* What a probe saw is never lost in silence: it is evidence, or in the    *)
(* ring, or one of the events MONITOR_STATE.lost counts, or its probe is   *)
(* still running and about to count it (emit_event).                       *)
EveryEventAccounted ==
  /\ lost = Cardinality(dropped)
  /\ \A t \in Task, type \in EventTypes :
       at[t][type] =>
         \/ Recorded(t, type) \/ InRing(t, type)
         \/ Losing(t, type) \/ Dropped(t, type)

(* Probes on several CPUs never share a sequence number, and no number is  *)
(* skipped: reservations that failed do not use one up, so a gap in the    *)
(* numbers user space has read is an event still in the ring.              *)
NumbersAreGapFree ==
  LET read  == {evidence[i].seq : i \in DOMAIN evidence}
      ahead == {ring[i].seq : i \in DOMAIN ring} \ {None}
      unnumbered == {i \in DOMAIN ring : ring[i].seq = None}
  IN  /\ read \union ahead = 0 .. seq - 1
      /\ seq + Cardinality(unnumbered) = Len(evidence) + Len(ring)

(* The exec event of an argv-sensitive program is judged by its attempt    *)
(* (classify_argv_sensitive_invocation): when the probe saw the attempt,   *)
(* the evidence has it before the exec, or the attempt was counted lost.   *)
AttemptPrecedesExec ==
  \A j \in DOMAIN evidence :
    evidence[j].type = "exec" /\ at[evidence[j].task].attempt =>
      \/ \E i \in 1 .. j - 1 : evidence[i].type = "attempt"
                              /\ evidence[i].task = evidence[j].task
      \/ Dropped(evidence[j].task, "attempt") /\ lost > 0

(* "a lost attempt is surfaced by drop/sequence accounting": a finished    *)
(* session with argv capture that reports no loss has, for every exec in   *)
(* its evidence, the attempt that judges it.                               *)
LostAttemptSurfaces ==
  CaptureArgv /\ monitor = "finished" /\ reported = lost /\ lost = 0 =>
    \A t \in Task : Recorded(t, "exec") => Recorded(t, "attempt")

Ready == attached = IF CaptureArgv THEN EventTypes ELSE {"exec"}

(* "SIGINT triggers graceful shutdown": a monitor that has announced that  *)
(* it listens is not ended by SIGINT without its drain and summary.        *)
SigintIsGraceful == monitor = "killed" => ~Ready

(* A submitted event is read, whoever else holds a slot before it, unless  *)
(* the monitor has been stopped.                                           *)
EverySubmittedEventRead ==
  \A t \in Task, type \in EventTypes :
    InRing(t, type) ~>
      (Recorded(t, type) \/ monitor \notin {"listening", "sleeping"})

(* A SIGINT that reaches the handler ends in a finished session: the ring  *)
(* runs empty because the tasks exec a bounded number of times.            *)
SigintFinishes == sigint = "pending" ~> monitor = "finished"
=============================================================================
