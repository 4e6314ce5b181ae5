------------------------------ MODULE Pipeline ------------------------------
(***************************************************************************)
(* The monitor as one process: the collection path of Collector feeds the  *)
(* capture of EvidenceCapture sample by sample, an error of the capture    *)
(* ends the loop, and the counter read after the drain goes into the       *)
(* summary the verifier decides on.                                        *)
(***************************************************************************)
EXTENDS Collector

CONSTANTS
  Verdict, WorkloadOf, Session, Setups, EarlierSummary, Torn, Unreadable

(* What an earlier session left has another id; a file that is not there   *)
(* or torn is none the verifier can read.                                  *)
ASSUME PipelineAssumption ==
  /\ {None, Torn} \subseteq Unreadable
  /\ EarlierSummary # None => EarlierSummary.session # Session

VARIABLES
  setup, phase, captureState, state, malformed, samples, file, buffer, tpm,
  pcr, summaryFile, calls, faults,  \* those of EvidenceCapture
  due,      \* history: the events the stop must not miss, None before it
  lostRead  \* history: MONITOR_STATE.lost when main tried to read it

(* An event says which task made it, and whether it is the attempt. *)
Event == [task : Task, type : EventTypes]

(* main writes one summary; a session has at most all events of all tasks. *)
MaxSamples      == 2 * Cardinality(Task)
MaxLost         == 2 * Cardinality(Task)
MaxSummaryCalls == 1

Capture  == INSTANCE EvidenceCapture
Verifier == INSTANCE Verifier

captureVars   == <<setup, phase, captureState, state, malformed, samples, file,
                   buffer, tpm, pcr, summaryFile, calls, faults>>
collectorVars == vars
pipelineVars  == <<collectorVars, captureVars, due, lostRead>>

PipelineInit == Init /\ Capture!Init /\ due = None /\ lostRead = None

(* main has not returned an error. *)
Up == phase # "aborted" /\ Alive

-----------------------------------------------------------------------------
(* Before the probes are attached. *)
Prepare ==
  /\ Up /\ monitor = "attach-exec"
  /\ Capture!WriteWorkloadTargetBound \/ Capture!BindTpmSessionStart
  /\ UNCHANGED <<collectorVars, due, lostRead>>

AttachProbes ==
  /\ Up /\ phase = "collecting"
  /\ AttachExec \/ AttachAttempt
  /\ UNCHANGED <<captureVars, due, lostRead>>

(* A sample is taken from the ring and processed: on an error main is done.*)
TakeSample ==
  /\ Up
  /\ ReadSample
  /\ Capture!ProcessSample([task |-> ring[1].task, type |-> ring[1].type])
  /\ UNCHANGED <<due, lostRead>>

(* What a stop must not miss: the events read or counted lost, and those   *)
(* in the ring that no unfinished slot stands in front of; an event that   *)
(* its probe has yet to count is none of them.                             *)
Stopping ==
  dropped
  \union {[task |-> evidence[i].task, type |-> evidence[i].type] :
            i \in DOMAIN evidence}
  \union {[task |-> ring[i].task, type |-> ring[i].type] :
            i \in {k \in DOMAIN ring : \A j \in 1 .. k : ring[j].submitted}}

(* The loop with nothing to read, until the drain has ended. *)
Wait ==
  /\ Up
  /\ Select \/ WakeByTimer \/ WakeByCtrlC \/ EndDrain
  /\ due' = IF monitor' = "draining" THEN Stopping ELSE due
  /\ UNCHANGED <<captureVars, lostRead>>

ReadCounters ==
  /\ Up
  /\ ReadMonitorState
  /\ lostRead' = lost
  /\ UNCHANGED <<captureVars, due>>

(* write_summary with the counter as it was read. *)
Summarize ==
  /\ monitor = "finished" /\ phase = "collecting"
  /\ Capture!WriteSummary(reported)
  /\ UNCHANGED <<collectorVars, due, lostRead>>

Main ==
  \/ Prepare \/ AttachProbes \/ TakeSample \/ Wait \/ ReadCounters \/ Summarize

(* A SIGINT without handler ends the process, and so does any other signal.*)
Signal ==
  /\ phase # "aborted"
  /\ Interrupt
  /\ IF monitor' = "killed" THEN Capture!Kill ELSE UNCHANGED captureVars
  /\ UNCHANGED <<due, lostRead>>

KillProcess ==
  /\ phase \notin {"aborted", "finished"}
  /\ Capture!Kill
  /\ monitor' = "killed"
  /\ UNCHANGED <<taskVars, attached, handler, sigint, evidence, reported, due,
                 lostRead>>

LeaveMain ==
  Capture!DropWriter /\ UNCHANGED <<collectorVars, due, lostRead>>

(* The tasks and their probes; they go on whatever main does. *)
TaskStep(t) ==
  /\ EnterExecve(t) \/ EnterExecveat(t) \/ ProcessExec(t) \/ FailExec(t)
  /\ UNCHANGED <<captureVars, due, lostRead>>

ProbeStep(t) == Probe(t) /\ UNCHANGED <<captureVars, due, lostRead>>

PipelineNext ==
  \/ Main
  \/ Signal
  \/ KillProcess
  \/ LeaveMain
  \/ \E t \in Task : TaskStep(t) \/ ProbeStep(t)

PipelineSpec ==
  /\ PipelineInit /\ [][PipelineNext]_pipelineVars
  /\ \A t \in Task : WF_pipelineVars(ProbeStep(t))
  /\ WF_pipelineVars(Main)

-----------------------------------------------------------------------------
Decision == Verifier!Verify(setup, file, summaryFile, FALSE)

(* The drain processes the "remaining buffered events" before the summary: *)
(* evidence that the verifier accepts under a policy that does not         *)
(* tolerate drops has every event that was in the ring or counted lost     *)
(* when the monitor took the Ctrl-C, unless a probe was still filling a    *)
(* slot in front of it or the loss counter could not be read; and what it  *)
(* says of a task's exec or attempt is the policy's verdict on it.         *)
AcceptedRunIsComplete ==
  setup.failOnDrops /\ reported = lostRead /\ due # None
    /\ Decision \notin {Verifier!InvalidEvidence, "REJECT"} =>
      \A e \in due :
        \E i \in DOMAIN file :
          /\ Capture!IsEvent(file[i])
          /\ file[i].event = e
          /\ file[i].verdict = Verdict[e]

(* A Ctrl-C that reaches the handler ends in a summary or an error, also   *)
(* when processing a sample can fail while the ring is drained.            *)
StopEndsInSummary == sigint = "pending" ~> phase \in {"finished", "aborted"}
=============================================================================
