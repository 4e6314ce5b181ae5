# A formal model of runtime-custodian

runtime-custodian watches the `exec` calls of containers from eBPF, writes what
it sees into a hash-chained evidence log that a TPM can anchor, and lets a
verifier decide later, from the log, the run's summary and the policies, whether
to accept the run. A trainer proposes policies from the logs of trusted runs.
This directory holds TLA+ modules of these programs, the TLC configurations that
check them, and TLAPS proofs of their safety properties.

## 1. The system

| component | code (`runtime-monitor/`) | state | operations |
|---|---|---|---|
| probes | `runtime-monitor-ebpf/src/main.rs` | the maps `EVENTS` (ring buffer), `MONITOR_STATE` (seq, lost), `TARGET_CGROUPS`, `COLLECTION_MODE`; one raw event per call | `sys_enter_execve`, `sched_process_exec`, `emit_event`, the copy of file name and argv |
| configuration | `runtime-monitor/src/main.rs`, `tpm.rs` | config, policy set, `TpmConfig`, `TpmQuoteConfig` | load, validate, merge policies, configure the quote |
| workload discovery | `runtime-monitor/src/main.rs` | `TARGET_CGROUPS` | `docker inspect`, `/proc/<pid>/cgroup`, cgroup id, insert |
| collection loop | `runtime-monitor/src/main.rs`, `main` | attached probes, the Ctrl-C future | attach, read the ring, stop, drain, read the counters |
| capture | `runtime-monitor/src/main.rs`, `EvidenceCapture` | capture state, sequence/counts/chain head, the writer, the TPM fields | lifecycle records, `process_sample`, TPM binding, `write_summary` |
| TPM layer | `runtime-monitor/src/tpm.rs` | none of its own; the PCR is in the TPM | reset, read, extend, quote through `tpm2` tools |
| classifier | `runtime-monitor-common/src/evidence.rs` | none | `classify_event_for_workload`, `classify_event` |
| shared types | `runtime-monitor-common/src/evidence.rs`, `lib.rs`, `io.rs` | `RuntimeEvidenceState` | digests, chain, `from_raw_event`, JSON files |
| verifier | `runtime-verifier/src/main.rs` | none between runs | replay of log and summary, its own reading of policies, decision |
| policy trainer | `runtime-policy-trainer/src/main.rs` | `PolicyLearner` | reads baselines, writes a policy and its metadata |
| harness | `scripts/` | processes it started | start, INT/TERM/KILL, verify, measure |

How they interact. Before it attaches anything the monitor validates its config
and looks its containers up, while Docker may stop and restart them. The probes
and the loop then share the ring and the counters, and run on different CPUs;
the loop hands every sample to the capture, which classifies it, extends the PCR
if the policy asks for it and appends a record; at the end the capture seals the
log, extends the final digest and writes the summary. The verifier sees only the
two files and its own copy of the policies; the trainer sees such files and
writes what the classifier later reads.

What is hard here, and what makes each component correct:

* **probes and loop** (concurrency, a bounded buffer, signals): an event a probe
  saw is read, waiting or counted lost; sequence numbers are unique; what is
  submitted is eventually read; a Ctrl-C ends in a finished session.
* **one exec call as evidence** (fixed buffers, faulting memory, rule order):
  evidence that calls itself complete is the whole call; a denied program is
  denied whatever else allows it; no workload is judged by another's policy.
* **configuration** (rules written twice, in two programs): a session the monitor
  agrees to start is one whose policies the verifier reads the same way.
* **workload discovery** (stale look-ups, a bounded map): when the log or a probe
  speaks of the workloads, every one of them has a cgroup and no two share one.
* **capture** (partial failure, retries, crashes): the log replays at every
  moment; the PCR matches the log as long as the session claims a TPM binding;
  sealing happens once; a summary appears only over a sealed log and is true of it.
* **verifier** (protocol rules written twice): it never refuses an honest
  session, it gives a verdict only over a sealed log, it agrees with the status
  the monitor computed, and single damage to the files is found wherever a hash, a
  replay, the policies or the TPM section binds what was damaged (section 3 says
  where none does).
* **trainer** (rules mirrored from the classifier, mixed inputs, two writes): its
  policy accepts the baseline and little more, belongs to one workload, and the
  exit status tells what the files hold.
* **all together**: accepted evidence holds what was in the ring at the stop.

`PROJECT.json` lists the places in the code where these can go wrong, with the
properties that would notice.

## 2. The modules

| module | models | built on |
|---|---|---|
| `Evidence` | record kinds, digests, chain, counts | |
| `EvidenceCapture` | one monitoring session in the order of `main` | `Evidence`, `SealedLog` |
| `SealedLog` | abstract: what a capture promises to a reader of its files | |
| `Verifier` | `verify_from_paths` as operators on a log and a summary | `Evidence` |
| `Attestation` | a session and the verifier reading its files at any moment; the end-to-end properties | `EvidenceCapture`, `Verifier` |
| `Collector` | probes, ring, counters, collection loop, SIGINT | |
| `Pipeline` | the monitor as one process: collection path, capture, verifier | `Collector`, instances of `EvidenceCapture` and `Verifier` |
| `Classifier` | policies, events and the classification rules | |
| `ExecProbe` | one exec call from the caller's memory to its verdict | `Classifier` |
| `PolicyTrainer` | a training, from the first record to the exit status | `Classifier` |
| `Configuration` | the validation rules of the monitor and of the verifier, as operators | |
| `StartUp` | `main` from the config to the attached probes, with Docker beside it | `Configuration` |
| `MCAttestation`, `MCCollector`, `MCExecProbe`, `MCPolicyTrainer`, `MCStartUp`, `MCPipeline` | small instances for TLC | |
| `EvidenceCaptureProofs` | proofs about `EvidenceCapture`, and that it implements `SealedLog` | `EvidenceCapture` |
| `TpmBindingProofs` | proofs about PCR, extends and the summary's TPM section | `EvidenceCaptureProofs` |
| `AttestationProofs` | proofs about session and verifier | `Attestation`, `TpmBindingProofs` |
| `CollectorProofs` | proofs about the collection path | `Collector` |
| `PipelineProofs` | proofs about the whole process | `Pipeline`, `CollectorProofs` |
| `ExecProbeProofs`, `PolicyTrainerProofs`, `StartUpProofs` | proofs about the modules of these names | those |

**Digests.** A digest is the tagged tuple of what the code hashes, a chain head
or a PCR the sequence of what was folded into it. Equality of digests is then
equality of inputs: SHA-256 is taken as collision-free, and nothing else about it.

**Records.** A record has the fields of `EvidenceEvent` or
`EvidenceSyntheticRecord`, the reason among them: it is hashed for a lifecycle
record and neither hashed nor compared for an event.

**Events and policies in a session.** In `EvidenceCapture`, `Attestation` and
`Pipeline` an event is one value of the constant `Event`; its class and rule are
`Verdict[e]`, its workload `WorkloadOf[e]`. Monitor and verifier call the same
classifier on the same policies, so one function stands for both; the rules
themselves are in `Classifier`.

**`EvidenceCapture`.** `phase` is how far `main` has got, `captureState` is
`EvidenceCaptureState`, `state` is `RuntimeEvidenceState`, `tpm` collects the TPM
fields (`tpm_binding`, `tpm_event_extend_count`, `tpm_final_summary`, the two
failure reasons). `file` is what the evidence file holds, `buffer` what the
`BufWriter` still holds after a failed flush. Every action is one call of `main`
with everything it does; what can fail in it is a choice of outcome:

* a TPM command succeeds, or reports an error before or after it took effect;
* a record write succeeds, or fails with the new record (and perhaps earlier
  ones) still in the buffer; dropping the writer when `main` gives up may still
  write them (`DropWriter`). Records are whole: a record cut in the middle makes
  the log unreadable to the verifier, which is the same verdict as a log without
  its end;
* the summary file is written, torn with or without an error, or refused;
* the process is killed between two calls (`Kill`).

`faults` is history: which kinds of fault the session met. `main` calls
`write_summary` once, and so does the run `attestation`; the code and its tests
provide for a caller that calls it again after an error (`StopWritten`, the
cached TPM summary), which is what `MaxSummaryCalls > 1` lets happen.

**`SealedLog`** says what all of this amounts to for somebody who has the two
files: a log that grows until it is sealed and never changes again, and beside it
a summary that is an earlier session's until the seal, and from then on torn or a
true account of exactly this log. It knows nothing of TPMs, buffers or failures.
The refinement mapping (`Promise`, at the end of `EvidenceCapture`) is
`log <- file`, `sealed <- captureState # "open"`, `summary <- summaryFile`,
`done <- captureState = "finalized"`; a log is sealed by the `monitor-stop`
record, and a summary is a true account when it is this session's and its head
and counts are those a replay of the file gives.

**`Verifier`.** Each family of the verifier's structural reasons is a predicate
on the whole log, where the code keeps running state; the decision keeps the
order of the code's early returns. A quote is genuine or absent: what
`tpm2_checkquote` says of a quote the TPM made is taken to be true.

**`Collector`.** A process in scope passes the two tracepoints. The probe of one
reserves a slot, draws a sequence number and submits the slot in three steps,
between which other CPUs and the reader run. When the ring is full the event is
lost in one step (`Reserve`) and counted in another (`CountLost`): between the two
it is in `losing`, and main may read the counter without it.
`execveat` has no attempt probe (the code says so). The reader takes slots in
reservation order and stops at one that is not submitted. `handler` says whether
the Ctrl-C future has been polled.

**`Pipeline`** puts the two together as `main` does: taking a sample from the
ring and processing it is one step, an error of the capture ends the loop, the
counter read after the drain goes into the summary, and a signal without handler
is a kill of the capture. The tasks and their probes go on whatever `main` does.
`due` is history: the events the stop must not miss.

**`Classifier` and `ExecProbe`.** The rules of `classify_event` are tried in the
code's order. `ExecProbe` follows one call: a read of the file name (which may
fail for an attempt and for an exec), a turn of the argv loop, the look beyond the last argument and the submission are an action
each. A string is a sequence of units, so that filling a buffer, being cut and
being lossy UTF-8 are told apart; what faults when it is read is part of the call.
The caller's memory does not change during the call.

**`PolicyTrainer`** reads its sessions record by record, with what the files hold
revealed as it is read, then finishes the policy and writes the two files, each
of which may fail or tear. A string has a trimmed form and is absolute, an
interpreter's, or neither.

**`Configuration` and `StartUp`.** `Configuration` holds the same rules twice:
as the monitor applies them before it starts (`validate_collector_config`,
`TpmConfig::from_policy_and_local_options`, `configure_tpm_quote`) and as the
verifier applies them to the evidence (`tpm_event_policy`, the TPM summary, the
quote summary, workload ids). Strings are values with a normal form, given by
constants. `StartUp` is `main` up to the attached probes; between the look-up of
a container's pid, of that pid's cgroup path and of the path's id, `Stop` and
`Start` may happen to any container, and a pid may be taken again by another
container or by the host.

## 3. The runs

| run | configuration | what it shows |
|---|---|---|
| `attestation` | `MCAttestation.cfg` | under six setups (software only, host-wide, TPM fail-closed and fail-open, with and without quote, three sets of extended classes) and every fault, the end-to-end properties of `Attestation` |
| `summary_retries` | `MCRetries.cfg` | the capture's own invariants, action properties and refinement with up to three `write_summary` calls |
| `collector` | `MCCollector.cfg` | the safety and liveness of the collection path |
| `pipeline` | `MCPipeline.cfg` | collection path, capture and verifier together, with failures during the drain |
| `exec_probe` | `MCExecProbe.cfg` | what an exec call becomes as evidence, and its verdict |
| `policy_trainer` | `MCPolicyTrainer.cfg` | what a trained policy accepts, and what the exit status says |
| `start_up` | `MCStartUp.cfg` | what the monitor binds, and that the verifier reads the same policies the same way |
| `summary_flush` | `MCReadable.cfg` | a swallowed write error leaves a finalized capture with a torn summary |
| `host_wide` | `MCHostWide.cfg` | host-wide evidence under a policy with a workload id is INVALID-EVIDENCE |
| `lost_attempt` | `MCLostAttempt.cfg` | an exec without its attempt and without any trace in the counters |
| `early_sigint` | `MCSigint.cfg` | a SIGINT after "Listening for events" that kills the monitor |
| `same_policy_files` | `MCSameFiles.cfg` | the verifier refuses two policy files with the same content, which the monitor merges |

The last five runs end in a violation on purpose: each checks a sentence of the
repository's docs, comments, output or tests that the code does not keep;
`PROJECT.json` quotes it under `findings`.

**Properties.**

* Of a session and its verifier: `HonestSessionVerifies`, `VerdictOnlyWhenSealed`,
  `StatusMatchesDecision`, `AcceptedIsAnchored`, `RequiredQuoteIsGenuine`,
  `DamagedLogRejected`, `DamagedSummaryRejected`.
* Of the capture: `LogReplays`, `PcrMatchesLog`, `TpmClaimCoversLog`,
  `SealMatchesPhase`, `SealedIsFrozen`, `ImplementsSealedLog`.
* Of the collection path: `EveryEventAccounted`, `NumbersAreGapFree`,
  `AttemptPrecedesExec`, `EverySubmittedEventRead`, `SigintFinishes`.
* Of both together: `AcceptedRunIsComplete`, `StopEndsInSummary`.
* Of one call and its verdict: `CompleteEvidenceIsExact`, `FittingCallIsComplete`,
  `AcceptedInvocationIsAllowed`, `DeniedAlwaysWins`, `AttemptNeedsApproval`,
  `NoBorrowedPolicy`.
* Of the trainer: `TrainedPolicyAcceptsBaseline`, `TrainedPolicyIsTight`,
  `PolicyOfOneWorkload`, `StatusTellsFiles`.
* Of the start: `BoundTargetsAreWhole`, `EventsNameTheirWorkload`,
  `VerifierSharesTpmPolicy`, `QuoteIsFound`, `IdentityVerifies`.

Each is stated in words above its definition. Conditions a reader should know of:

* `AcceptedIsAnchored` gives the PCR in full: what it held when the session bound
  it, the start digest, the digests of the due events, and the final digest of
  exactly this log with the drop count of the summary.
* `DamagedLogRejected` covers a record lost, repeated or swapped with the next, and
  a change of every field of a record but the reason of an event. Nothing binds
  that reason, and the property's second part says so: a log in which the reason of
  an event reads otherwise (`RewordedLogs`) gets the decision it had.
* `DamagedSummaryRejected` covers what the replay or the policies show (counts,
  head, session, policy hash, an unknown mode, and the workload when the policies
  name theirs) and, when the summary has a TPM section, what that binds (workload,
  mode, drop count, final digest and the section's own digests, PCR values and
  extend count). The status with its reasons is bound by nothing, and in
  software-only evidence neither are the drop count, the final digest, which known
  mode it was and, when the policies name none, the workload.
* Some need `CleanRetries`: after a failed record write, or in fail-closed mode
  after a TPM error that a caller ignored and tried again, the code promises
  nothing but an error (the comment above `pcr_extend` in
  `bind_tpm_runtime_event` says so of the first).
* `EventsNameTheirWorkload` is stated with the containers at rest: the code does
  not look again for a container that is restarted, and says nothing about it.
* `QuoteIsFound` leaves out a quote directory whose name begins with white space:
  the monitor keeps it, the verifier trims it.
* `IdentityVerifies` is an equivalence, because the config check lets through
  workload ids (with commas or white space) that the verifier cannot match.
* `TrainedPolicyAcceptsBaseline` lists what is not covered: paths with surrounding
  white space, attempts of programs never executed, interpreters without a
  complete argv.
* `AcceptedRunIsComplete` speaks of the slots of the ring that no unfinished slot
  stands in front of (the drain ends at the first unfinished one), of losses that
  were counted when the Ctrl-C was taken, of policies
  that do not tolerate drops, and of sessions in which the lost counter could be
  read: a read that fails reports no drops.

Every property of a passing run has a mutant: a changed definition, kept beside
the original in its module and marked *Mutant*, under which TLC finds the
property violated. A mutant is a plausible slip in that code (an uncached final
digest, a failed stop record ignored, rules in another order, a missing check for
the argument beyond the last, a non-atomic counter).

**Bounds.**

* Sessions: `MaxSamples` (3, or 2 with retries) allows an event of each class in
  one session, or the same class twice, which is what indexes, counts and order
  can confuse; `MaxLost = 1` distinguishes drops from none; three summary calls
  let a retry fail and be retried; a log has at most eight records. Classes and
  failure outcomes are enumerated in full; the six setups are chosen so that every
  branch on the configuration is taken by one of them.
* `Collector`: a ring of two slots and three processes (one out of scope) is
  enough to fill the ring with one process's events while the other is in a probe,
  and to have a slot not submitted in front of one that is.
* `Pipeline`: two tasks and the same ring, under one setup that extends suspicious
  events and fails closed, so that each sample may end `main`, also in the drain.
* `ExecProbe`: `MaxArgs = 2` with calls of up to three arguments, `ArgLen = 3` and
  `PathLen = 4` with strings one short of, at and beyond what fits, every
  unreadable place, and four policy sets (one policy, a stricter one, a set with
  the event's workload, a set with another order).
* `PolicyTrainer`: two sessions of up to two events out of events of two
  workloads, none, and one written with white space; every filter; failing reads
  and writes. Two events are what a rule can relate (an attempt and an
  exec, two workloads, two invocations).
* `StartUp`: every backend, mode, extend list, PCR and bank the validation tells
  apart; every kind of quote option; one, two and three workloads with plain and
  unusual ids, containers of one or two names; two containers, two pids,
  `MaxTargets = 2`, each container started at most twice.

State counts are about 28 000 (`attestation`), 48 000, 41 000, 115 000
(`pipeline`), 31 000 (`exec_probe`), 1.3 million (`policy_trainer`) and 344 000
(`start_up`).

Deadlock is not checked: a session ends (`finished`, `aborted`, `killed`), a
training or a start is over, and processes exec once.

**Fairness** (`Collector` and `Pipeline`): a probe that has started runs to its
end, as the kernel guarantees for a BPF program (`WF` on each task's probe step),
and `main` is scheduled (`WF` on `Monitor`, `Main`). No fairness is assumed of the
processes, of SIGINT or of Docker. `SigintFinishes` and `StopEndsInSummary` rely
on the processes calling exec a bounded number of times: under a load that never
lets the ring run empty the loop does not look at Ctrl-C.

## 4. The proofs

Every safety invariant and every action property of a passing run is proved, for
every value of the constants that satisfies the named assumptions, and so are the
refinement of `SealedLog` and that `Pipeline` drives the capture as
`EvidenceCapture` says:

| module | theorem | states `Spec =>` |
|---|---|---|
| `EvidenceCaptureProofs` | `CaptureTypeCorrect` | `[]TypeOK` |
| | `CaptureLogReplays` | `[]LogReplays` |
| | `CaptureSealMatchesPhase` | `[]SealMatchesPhase` |
| | `SealedLogStaysFrozen` | `SealedIsFrozen` |
| | `CaptureImplementsSealedLog` | `ImplementsSealedLog`, the refinement |
| `TpmBindingProofs` | `RuntimePcrMatchesLog` | `[]PcrMatchesLog` |
| | `TpmClaimsCoverTheLog` | `[]TpmClaimCoversLog` |
| `AttestationProofs` | `VerdictNeedsTheSeal` | `[]VerdictOnlyWhenSealed` |
| | `HonestEvidenceVerifies` (*) | `[]HonestSessionVerifies` |
| | `MonitorAndVerifierAgree` (*) | `[]StatusMatchesDecision` |
| | `AcceptanceIsAnchored` | `[]AcceptedIsAnchored` |
| | `RequiredQuotesAreGenuine` | `[]RequiredQuoteIsGenuine` |
| | `LogDamageIsDetected` | `[]DamagedLogRejected` |
| | `SummaryDamageIsDetected` | `[]DamagedSummaryRejected` |
| `CollectorProofs` | `CollectorTypeCorrect` | `[]TypeOK` |
| | `CollectorAccountsEveryEvent` | `[]EveryEventAccounted` |
| | `CollectorNumbersWithoutGap` | `[]NumbersAreGapFree` |
| | `CollectorOrdersAttempts` | `[]AttemptPrecedesExec` |
| `PipelineProofs` | `AcceptedEvidenceIsComplete` | `[]AcceptedRunIsComplete` |
| | `PipelineDrivesCapture` | `Capture!Spec` |
| `ExecProbeProofs` | `ProbeCompleteIsExact` | `[]CompleteEvidenceIsExact` |
| | `ProbeFittingIsComplete` | `[]FittingCallIsComplete` |
| | `AcceptedInvocationsAreAllowed` | `[]AcceptedInvocationIsAllowed` |
| | `DenialsAlwaysWin` | `[]DeniedAlwaysWins` |
| | `AttemptsNeedApproval` | `[]AttemptNeedsApproval` |
| | `PoliciesAreNotBorrowed` | `[]NoBorrowedPolicy` |
| `PolicyTrainerProofs` | `TrainingAcceptsItsBaseline` | `[]TrainedPolicyAcceptsBaseline` |
| | `TrainingIsTight` | `[]TrainedPolicyIsTight` |
| | `TrainingIsOfOneWorkload` | `[]PolicyOfOneWorkload` |
| | `TrainingStatusTellsFiles` | `[]StatusTellsFiles` |
| `StartUpProofs` | `TargetsAreWhole` | `[]BoundTargetsAreWhole` |
| | `EventsAreAttributed` | `[]EventsNameTheirWorkload` |
| | `TpmPolicyIsShared` | `[]VerifierSharesTpmPolicy` |
| | `QuotesAreFound` | `[]QuoteIsFound` |
| | `IdentityIsDecided` | `[]IdentityVerifies` |

(*) under the hypothesis `IdentitiesAgree`, see below. `Spec` is `PipelineSpec`
in `PipelineProofs`.

**Assumptions.** TLC evaluates each in every run whose module extends the one
that declares it.

* `VerdictType`: every verdict has one of the three classes.
* `BoundsAssumption`, `CollectorAssumption`, `BufferAssumption`: bounds and sizes
  are numbers; tasks are finitely many; a target cgroup is that of some task.
* `SetupAssumption`: the fields of a setup are typed; a quote or a class to
  extend implies the TPM (that the config validation lets no other setup through
  is part of `VerifierSharesTpmPolicy`).
* `AbsentAssumption`, `FilesAssumption`, `PipelineAssumption`: the value for
  "absent" is none of the values that can be present, a missing or torn summary
  is unreadable, and an earlier summary is another session's (session ids
  are 32 random bytes, `generate_session_id`).
* `CallAssumption`, `PolicySetAssumption`: a call's path and arguments are
  sequences; a policy set is not empty and has one policy per workload, as
  `build_workload_policy_set` makes it.
* `TrainerAssumption`, `StartUpAssumption`: typing of the inputs, and that
  trimming and parsing a list of ids change nothing when done a second time.

`IdentitiesAgree` is a hypothesis and not an assumption, since the code does not
see to it: the policies of a setup name no workload, or exactly the session's,
and events of a scoped session are theirs. `IdentityVerifies` says which configs
bring it about. The setups of the runs `attestation`, `summary_retries` and
`pipeline` satisfy it; the one of `host_wide` does not, and that run shows
honest evidence failing to verify.

**The capture.** `SealMatchesPhase` is inductive by itself: a record is
written only while the capture is open, a seal whose write succeeds empties the
writer, and only the last step of `write_summary` finalizes. With it, a step from
a sealed state can only be `WriteSummary` (whose `SealOutcomes` is then a
stutter), `Kill`, or `DropWriter` (which needs a non-empty buffer), and each
leaves the sealed log alone; a finalized capture is in phase `finished`, where no
action is enabled: that is `SealedIsFrozen`. `LogReplays` is not inductive alone:
that a new record carries the right head needs the running head to be that of the
log, which is why its second conjunct ties `state` to the log in every phase where
another record can still be written, and it needs `TypeOK` for the sequences to be
sequences. The lemma `AppendReplays` (appending a well-made record to a log that
replays gives one that does) carries the step, and `WriteOutcomesAppend`
(whatever a write's outcome, file and buffer together gain exactly that record)
connects it to the failing writer. `TypeOK` is inductive alone; most of its proof
types the outcomes of the TPM operations.

**The refinement.** That a summary is a true account needs one more invariant,
`CountsMatchLog`: the running counts are the tally of the log, as long as `main`
has not given up. It is inductive beside `TypeOK`; `TallyOfAppend` (one more
record adds one to the count of its kind) is a fact about cardinalities. Under
`CaptureInv`, the conjunction of the four, every step of the capture is a step of
`SealedLog` or a stutter (`StepImplements`): the actions that write records
`Grow`, because each outcome of a write extends the file (`WriteOutcomesExtend`);
`WriteSummary` is a `Seal` when it gets the stop record to disk and a `Retry` when
that had happened before, in both cases with an empty writer, so that head and
counts, which follow file and buffer together, are those of the file
(`SummaryIsPublished`); a failing stop record and `DropWriter` are `Grow`; all
other steps leave the four mapped variables alone.

**The TPM binding.** `BindingInv` adds to `PcrMatchesLog` what it takes to be
inductive: nothing is extended before the PCR is bound; records still in the
writer are a fault of the session; as long as the TPM has not failed, the records
due for extension are the extended ones, in order, and their number is the
monitor's count; a final summary held back for a retry counts the extends there
were. The extended digests and the due records are each concatenated over the log
(`FlattenSeq`), so each step needs that a longer log gives what the log gave and
then what the new record adds. That lemma, `FlattenAppend`, is by induction on the
length of a sequence. The library's induction theorems take the
statement to prove as an operator and cannot be used here; `NatSetInduction`
takes a set instead (a set that has 0 and with every number the next has them
all), and the set is given by comprehension for each use.

**The verifier.** `SessionInv` is what a session that `main` has not given up
knows about its own files, in the words of the verifier: each event record is
classified by the policies and carries an index exactly when it was extended, the
number of extends so far (`RecordsAreMarked`); the extended digests are those of
the due records; lifecycle records and events are in order; the TPM fields agree;
and a readable summary of this session is the one these fields give. With it an
honest log meets every predicate of `Verifier` (`HonestIsValid`), which gives
completeness and, because the summary's counts are the log's, the agreement of
status and decision. The damage theorems take the log of a session for which there
is a verdict: each damage contradicts a hash, a head, a count or a TPM claim that
the other records or the summary still make; that another reason of an event
changes nothing holds because no predicate of `Verifier` reads it
(`ReasonIsNotRead`).

**The collection path.** `EveryEventAccounted` needs to know that an exec has
not passed a tracepoint ahead of it (`History`), that whatever is in the ring, in
the evidence or lost was traced (`OnlyTraced`), so that a probe's new event is
none of these, that no event is counted twice (`LossesApart`), and that the counted
events are finitely many, for the counter to be their number. The
order of attempt and exec is an invariant on the evidence and the ring
(`AttemptFirst`) that the number drawn later does not disturb. `GapFree` counts:
the numbers read and those in the ring are `0 .. seq - 1`, and with the slots that
have none yet they are as many as there are events. `AccountInv` does not look at
`main`.

**The process.** That is why `AccountInv` also holds in `Pipeline`, where the
kill of the process is the one step that is no step of `Collector`. Beside it,
`DueInv` follows the events a stop must not miss: while `main` drains they are
read, dropped or ready in the ring; once the ring is empty they are read or
dropped; and with a counter of 0 all are read. `RunInv` brings them into the file:
until `main` gives up, every event read is in it, and a summary in force is the
one `main` wrote last, with the counter it had read. `PipelineDrivesCapture` maps
each step of the process to a step of the capture or a stutter, so what is proved
of `EvidenceCapture` holds of the process.

**One call and its verdict.** `CopyInv` says at each program counter how much of
the call has been copied: the file name, the arguments before the current one,
and which flags tell of what was cut or could not be read. `CompleteEvidenceIsExact`
follows from it at the end; the properties of the verdict follow from the order
of the rules in `Classifier` once the event is known to be that of the call.

**The trainer.** What the learner holds is a function of the set of events it
has learned from (`LearnerInv`), independent of their order; the policy is made of
the final learner; and the files follow the exit status (`FileInv`). That the
policy accepts its baseline and nothing else is then about one event and the
rules of `Classifier`.

**The start.** `PolicyInv`: the primary policy stays the first, and the TPM and
quote configuration are those made from it. `TargetInv`: each workload
looked up so far has one cgroup of its own, and `main` runs only with all of them. `WorldInv`: no two running containers have
the same pid, and while the containers are at rest every look-up is about the
container the workload names.

**Only model-checked.** The liveness properties `EverySubmittedEventRead`,
`SigintFinishes` and `StopEndsInSummary`: liveness under fairness is beyond the
prover. The five violations are TLC's as well. No module uses a recursive
operator; what recursion there is comes with the community modules.

## 5. Not modelled, and the plan

Not modelled, and why:

* byte encodings behind the digests, hex and JSON: a digest determines its inputs,
  and a file is readable or not;
* the parsing of what `tpm2` tools, `docker` and `/proc` print: each is an outcome;
* report text, log output, and counters that only reach the trainer's metadata;
* the Python harness except as the source of signals, and build scripts, images,
  example policies and plots: no behaviour of the running system;
* a verifier that holds other policies than the monitor, except for a changed
  policy hash; memory that a process changes while the probe copies it; a load
  under which the ring never runs empty.

Planned, in this order:

1. `Verdict` of `EvidenceCapture` as an instance of `Classifier`, so that one
   theorem goes from the call to the decision.
2. An earlier session's summary in the instance of `Pipeline` too (the proof
   covers it, the run starts without one).
3. The setups of `EvidenceCapture` as those that `StartUp` ends in, which would
   turn `IdentitiesAgree` and `SetupAssumption` into theorems.
4. The trainer reading the logs that `SealedLog` promises.
