------------------------------- MODULE StartUp -------------------------------
(***************************************************************************)
(* The start of the monitor, in the order of main: the config and the      *)
(* policies are read and validated, the evidence file is opened, the       *)
(* workloads' containers are looked up one by one while Docker may stop    *)
(* and restart them, and the probes are attached. Then the verifier is     *)
(* given the policies.                                                     *)
(*                                                                         *)
(* A container has an init process and a cgroup, both new at every start,  *)
(* while the path of its cgroup stays; a pid may be taken again by another *)
(* container's or the host's processes.                                    *)
(***************************************************************************)
EXTENDS Configuration

CONSTANTS
  Configs,     \* the collector configs: [workloads, evidenceOut, primary,
               \* hostWide, captureArgv, reset, quote]
  PolicyFile,  \* PolicyFile[f]: the policy in file f; other files do not parse
  DefaultPolicyFile, \* a file that holds RuntimePolicy::default
  Container,   \* the containers of the host
  NamedBy,     \* NamedBy[n]: the container with name (or id) n
  Pid,         \* the process ids
  MaxTargets,  \* max_entries of TARGET_CGROUPS
  MaxStarts    \* bound: starts of one container

Host == "host"  \* the host's own cgroup, beside those of the containers

Paths == Seq(DOMAIN TrimStart \union QuoteFiles)

(* A config is either form of CollectorConfig; a single one has no policy  *)
(* of the workload's own and always an evidence file.                      *)
WellFormed(c) ==
  /\ c.workloads \in Seq(Range(c.workloads))
  /\ \A i \in DOMAIN c.workloads :
       /\ DOMAIN c.workloads[i] = {"id", "container", "policy"}
       /\ c.workloads[i].id \in DOMAIN IdSet
  /\ {c.evidenceOut, c.hostWide, c.captureArgv, c.reset, c.quote.enabled}
       \subseteq BOOLEAN
  /\ c.quote.nonce \in DOMAIN NonceOf \union {None}
  /\ c.quote.outDir = None \/ c.quote.outDir \in Paths

WellFormedPolicy(p) ==
  /\ p.attestation.extendOn \in Seq(Range(p.attestation.extendOn))
  /\ p.attestation.pcr \in Nat \union {None}

(* A normal nonce, and each id of a list of ids, is read as itself.        *)
ASSUME StartUpAssumption ==
  /\ \A c \in Configs : WellFormed(c)
  /\ \A f \in DOMAIN PolicyFile : WellFormedPolicy(PolicyFile[f])
  /\ DefaultPolicyFile \in DOMAIN PolicyFile
  /\ MaxTargets \in Nat /\ MaxStarts \in Nat
  /\ MaxPcr \in Nat /\ MaxPcr <= 23
  /\ 0 \notin Pid /\ Host \notin Container
  /\ \A n \in DOMAIN NamedBy : NamedBy[n] \in Container
  /\ \A s \in DOMAIN NonceOf : NonceOf[s] # None =>
       NonceOf[s] \in DOMAIN NonceOf /\ NonceOf[NonceOf[s]] = NonceOf[s]
  /\ \A s \in DOMAIN IdSet : \A id \in IdSet[s] :
       id \in DOMAIN IdSet /\ IdSet[id] = {id}
  /\ None \notin Paths /\ <<"tpm_quote">> \in Paths

VARIABLES
  config,    \* the collector config
  pc,        \* how far main has got
  policies,  \* the policy set, the primary policy first
  tpmConfig, \* TpmConfig
  quote,     \* TpmQuoteConfig
  evidence,  \* the file at evidence_out: "earlier", "opened" or "bound"
  index,     \* the workload whose policy or cgroup is looked for
  pid,       \* the pid docker inspect gave for it
  cgroupOf,  \* whose cgroup path /proc/<pid>/cgroup gave
  targets,   \* TARGET_CGROUPS: from cgroup ids to workload indexes
  attached,  \* the attached probes
  initPid,   \* initPid[c]: the init process of container c, 0 when stopped
  starts,    \* starts[c]: how often it has been started
  moved      \* history: a container was stopped or started meanwhile

mainVars    == <<pc, policies, tpmConfig, quote, evidence, index, pid,
                 cgroupOf, targets, attached>>
policyVars  == <<policies, tpmConfig>>
lookUpVars  == <<pid, cgroupOf, targets>>
worldVars   == <<initPid, starts, moved>>
vars        == <<config, mainVars, worldVars>>

LookingUp == pc \in {"inspect", "cgroup-path", "cgroup-id"}

(* A cgroup id is that of one start of a container; the host's own cgroup  *)
(* counts as that of a container that is never restarted.                  *)
Cgroup(c) == <<c, IF c = Host THEN 0 ELSE starts[c]>>

Init ==
  /\ config \in Configs
  /\ pc = "config"
  /\ policies = <<>>
  /\ tpmConfig = None
  /\ quote = None
  /\ evidence = "earlier"
  /\ index = 1
  /\ pid = 0
  /\ cgroupOf = None
  /\ targets = <<>>
  /\ attached = {}
  /\ initPid \in {f \in [Container -> Pid \union {0}] :
                    \A c, d \in Container : f[c] = f[d] => c = d \/ f[c] = 0}
  /\ starts = [c \in Container |-> 1]
  /\ moved = FALSE

(* A step of main that may be refused: go to `then`, or give up. *)
GoOn(ok, then) == pc' = IF ok THEN then ELSE "failed"

-----------------------------------------------------------------------------
(* load_collector_config and the accessors main calls at once. *)
LoadConfig ==
  /\ pc = "config"
  /\ GoOn(ValidCollectorConfig(config) /\ config.evidenceOut, "primary")
  /\ UNCHANGED <<config, policyVars, quote, evidence, index, lookUpVars,
                 attached, worldVars>>

(* The primary policy, or RuntimePolicy::default; then its TpmConfig. *)
LoadPrimaryPolicy ==
  LET file == IF config.primary = None THEN DefaultPolicyFile
              ELSE config.primary
      ok   == /\ file \in DOMAIN PolicyFile
              /\ TpmConfigAccepts(PolicyFile[file].attestation)
  IN  /\ pc = "primary"
      /\ GoOn(ok, "policies")
      /\ IF ok
         THEN /\ policies' = <<PolicyFile[file]>>
              /\ tpmConfig' = TpmConfig(PolicyFile[file].attestation,
                                        config.reset)
         ELSE UNCHANGED policyVars
      /\ UNCHANGED <<config, quote, evidence, index, lookUpVars, attached,
                     worldVars>>

(* The set with policy p: identical duplicates are merged, another policy  *)
(* for the same workload id is an error.                                   *)
WithPolicy(p) ==
  LET same == {i \in DOMAIN policies : policies[i].workload = p.workload}
  IN  IF same = {} THEN Append(policies, p)
      ELSE IF \A i \in same : policies[i] = p THEN policies
      ELSE None

(* One turn of the loop of build_workload_policy_set. *)
AddWorkloadPolicy ==
  LET file == config.workloads[index].policy
      next == IF file = None THEN policies
              ELSE IF file \in DOMAIN PolicyFile
              THEN WithPolicy(PolicyFile[file])
              ELSE None
  IN  /\ pc = "policies"
      /\ index <= Len(config.workloads)
      /\ index' = index + 1
      /\ GoOn(next # None, "policies")
      /\ policies' = IF next = None THEN policies ELSE next
      /\ UNCHANGED <<config, tpmConfig, quote, evidence, lookUpVars, attached,
                     worldVars>>

(* with_policies truncates the evidence file and writes its first records. *)
OpenEvidence ==
  /\ pc = "policies"
  /\ index > Len(config.workloads)
  /\ pc' \in {"quote", "failed"}
  /\ evidence' \in IF pc' = "quote" THEN {"opened"} ELSE {"earlier", "opened"}
  /\ index' = 1
  /\ UNCHANGED <<config, policyVars, quote, lookUpVars, attached, worldVars>>

ConfigureTpmQuote ==
  LET q == QuoteConfig(config.quote, tpmConfig)
  IN  /\ pc = "quote"
      /\ GoOn(q # None, "load")
      /\ quote' = q
      /\ UNCHANGED <<config, policyVars, evidence, index, lookUpVars, attached,
                     worldVars>>

(* The kernel takes the programs and maps, the ring with its size, or not. *)
LoadPrograms ==
  /\ pc = "load"
  /\ pc' \in {"inspect", "failed"}
  /\ UNCHANGED <<config, policyVars, quote, evidence, index, lookUpVars,
                 attached, worldVars>>

-----------------------------------------------------------------------------
(* docker_container_pid of the workload's container. *)
InspectContainer ==
  LET name  == config.workloads[index].container
      known == name \in DOMAIN NamedBy /\ initPid[NamedBy[name]] # 0
  IN  /\ pc = "inspect"
      /\ index <= Len(config.workloads)
      /\ GoOn(known, "cgroup-path")
      /\ pid' = IF known THEN initPid[NamedBy[name]] ELSE pid
      /\ UNCHANGED <<config, policyVars, quote, evidence, index, cgroupOf,
                     targets, attached, worldVars>>

(* cgroup_v2_path_for_pid: of whoever has that pid now, if anyone has. *)
ReadCgroupPath ==
  LET owners == {c \in Container : initPid[c] = pid}
  IN  /\ pc = "cgroup-path"
      /\ \/ pc' = "cgroup-id"
            /\ cgroupOf' \in IF owners = {} THEN {Host} ELSE owners
         \/ pc' = "failed" /\ owners = {} /\ UNCHANGED cgroupOf
      /\ UNCHANGED <<config, policyVars, quote, evidence, index, pid, targets,
                     attached, worldVars>>

(* Mutant: a second workload in a cgroup overwrites the first. *)
FreeForAny(id) == Cardinality(DOMAIN targets) < MaxTargets

(* The id is new and TARGET_CGROUPS has room for it. *)
FreeFor(id) ==
  id \notin DOMAIN targets /\ Cardinality(DOMAIN targets) < MaxTargets

(* cgroup_id_from_path, the check for duplicates, the insert. *)
InsertTarget ==
  LET id == Cgroup(cgroupOf)
      ok == /\ cgroupOf # Host => initPid[cgroupOf] # 0
            /\ FreeFor(id)
  IN  /\ pc = "cgroup-id"
      /\ GoOn(ok, "inspect")
      /\ index' = IF ok THEN index + 1 ELSE index
      /\ targets' = IF ok
                    THEN [g \in DOMAIN targets \union {id} |->
                            IF g = id THEN index ELSE targets[g]]
                    ELSE targets
      /\ UNCHANGED <<config, policyVars, quote, evidence, pid, cgroupOf,
                     attached, worldVars>>

(* set_collection_mode, write_workload_target_bound and                    *)
(* bind_tpm_session_start, each of which may fail.                         *)
BindWorkloads ==
  /\ pc = "inspect"
  /\ index > Len(config.workloads)
  /\ pc' \in {"attach", "failed"}
  /\ evidence' \in IF pc' = "attach" THEN {"bound"} ELSE {"opened", "bound"}
  /\ UNCHANGED <<config, policyVars, quote, index, lookUpVars, attached,
                 worldVars>>

(* attach_tracepoint_programs; what was attached goes with the process. *)
Attach ==
  /\ pc = "attach"
  /\ pc' \in {"running", "failed"}
  /\ attached' = IF pc' = "failed" THEN {}
                 ELSE IF config.captureArgv THEN {"exec", "attempt"}
                 ELSE {"exec"}
  /\ UNCHANGED <<config, policyVars, quote, evidence, index, lookUpVars,
                 worldVars>>

-----------------------------------------------------------------------------
(* Docker, while main looks the containers up. *)
Stop(c) ==
  /\ LookingUp
  /\ initPid[c] # 0
  /\ initPid' = [initPid EXCEPT ![c] = 0]
  /\ moved' = TRUE
  /\ UNCHANGED <<config, mainVars, starts>>

Start(c) ==
  /\ LookingUp
  /\ initPid[c] = 0
  /\ starts[c] < MaxStarts
  /\ starts' = [starts EXCEPT ![c] = @ + 1]
  /\ \E p \in Pid \ Range(initPid) : initPid' = [initPid EXCEPT ![c] = p]
  /\ moved' = TRUE
  /\ UNCHANGED <<config, mainVars>>

Next ==
  \/ LoadConfig
  \/ LoadPrimaryPolicy
  \/ AddWorkloadPolicy
  \/ OpenEvidence
  \/ ConfigureTpmQuote
  \/ LoadPrograms
  \/ InspectContainer
  \/ ReadCgroupPath
  \/ InsertTarget
  \/ BindWorkloads
  \/ Attach
  \/ \E c \in Container : Stop(c) \/ Start(c)

Spec == Init /\ [][Next]_vars

-----------------------------------------------------------------------------
(* Mutant: the index is not stored in the map. *)
WorkloadOfIndexZero(cgroup) ==
  IF cgroup \in DOMAIN targets THEN config.workloads[1].id ELSE None

(* current_scope and workload_id_for_index: whether an exec in a cgroup is *)
(* an event, and the workload id it gets.                                  *)
InScope(cgroup) == cgroup \in DOMAIN targets \/ config.hostWide

EventWorkload(cgroup) ==
  IF cgroup \in DOMAIN targets THEN config.workloads[targets[cgroup]].id
  ELSE None

Running  == pc = "running"
Contains(c) ==
  {i \in DOMAIN config.workloads : NamedBy[config.workloads[i].container] = c}

(* What TARGET_CGROUPS says is complete before a workload-target-bound     *)
(* record or a probe speaks of it: one cgroup for every workload, whatever *)
(* Docker does meanwhile, and no cgroup for two                            *)
(* (populate_target_cgroups: "refusing to overwrite").                     *)
BoundTargetsAreWhole ==
  evidence = "bound" \/ attached # {} =>
    /\ Range(targets) = DOMAIN config.workloads
    /\ IsInjective(targets)

(* With the containers at rest, an exec in a container is an event exactly *)
(* if a workload names the container, or the collection is host-wide, and  *)
(* carries that workload's id (populate_target_cgroups, current_scope,     *)
(* workload_id_for_index).                                                 *)
EventsNameTheirWorkload ==
  Running /\ ~moved =>
    \A c \in Container : initPid[c] # 0 =>
      /\ InScope(Cgroup(c)) <=> Contains(c) # {} \/ config.hostWide
      /\ \A i \in Contains(c) :
           EventWorkload(Cgroup(c)) = config.workloads[i].id

(* The verifier reads the TPM policy of a session that started as the      *)
(* monitor does: it finds no fault in it, expects the extends of the same  *)
(* classes, and the bank and PCR the summary will name; and the monitor is *)
(* never asked for a quote or an extend without a TPM                      *)
(* (from_policy_and_local_options against tpm_event_policy).               *)
VerifierSharesTpmPolicy ==
  Running =>
    LET a == policies[1].attestation
    IN  /\ TpmEventPolicyAccepts(a)
        /\ \A class \in ClassNames :
             ShouldExtend(tpmConfig, class) <=> class \in ExpectedExtendOn(a)
        /\ IF tpmConfig.enabled
           THEN TpmSummaryFieldsHold(a, tpmConfig.bank, tpmConfig.pcr)
           ELSE tpmConfig.extendOn = {} /\ ~quote.enabled

(* The verifier checks the quote a session that started will write: with   *)
(* the nonce, PCR selection and files the monitor asked the TPM for,       *)
(* unless the directory's name starts with white space, which the verifier *)
(* trims (configure_tpm_quote against validate_tpm_quote_summary).         *)
QuoteIsFound ==
  Running /\ quote.enabled /\ Trimmed(quote.outDir) = quote.outDir =>
    LET s == QuoteSummary(quote, tpmConfig)
    IN  QuoteRequest(s, tpmConfig.bank, policies[1].attestation.pcr) = s

(* A scoped session has the workload identity the verifier asks for        *)
(* exactly if its policies name no workload at all, or if they name        *)
(* exactly the config's workloads and each id is a plain one, without      *)
(* commas or white space around it (the config check does not ask for      *)
(* that).                                                                  *)
IdentityVerifies ==
  LET ids == {config.workloads[i].id : i \in DOMAIN config.workloads}
      all == SummaryIds(config.workloads, FALSE)
  IN  Running /\ ~config.hostWide =>
        ((/\ SummaryIdentityHolds(policies, all)
          /\ \A id \in ids : EventIdentityHolds(policies, FALSE, id))
         <=> (\/ ExpectedIds(policies) = {}
              \/ /\ ExpectedIds(policies) = all
                 /\ \A id \in ids : IdSet[id] = {id}))

(* "the verifier must be given the same policy files": given every policy  *)
(* file the config names, each once, the verifier loads them and computes  *)
(* the session's policy hash.                                              *)
PolicyFilesNamed ==
  ({config.primary} \union {config.workloads[i].policy :
                             i \in DOMAIN config.workloads}) \ {None}

SamePolicyFilesLoad ==
  Running /\ config.primary # None =>
    LET files == CHOOSE s \in [1 .. Cardinality(PolicyFilesNamed) ->
                                PolicyFilesNamed] : IsInjective(s)
        given == [i \in DOMAIN files |-> PolicyFile[files[i]]]
    IN  LoadsPolicies(given) /\ CombinedHash(given) = CombinedHash(policies)
=============================================================================
