---------------------------- MODULE StartUpProofs ----------------------------
(***************************************************************************)
(* Proofs about StartUp and Configuration: for any configs, policy files,  *)
(* containers and process ids, what the monitor has set up when it runs    *)
(* fits what the collector config says and what the verifier will read.    *)
(***************************************************************************)
EXTENDS StartUp, SequenceTheorems, TLAPS

LoadedPolicies == {PolicyFile[f] : f \in DOMAIN PolicyFile}

AfterPolicies ==
  {"quote", "load", "inspect", "cgroup-path", "cgroup-id", "attach", "running"}
AfterPrimary == {"policies"} \union AfterPolicies
AfterQuote   == AfterPolicies \ {"quote"}
BeforeLookUp == {"config", "primary", "policies", "quote", "load"}
Places       == {"config", "primary", "failed"} \union AfterPrimary

(* The primary policy stays the first, accepted by the monitor, and the    *)
(* TPM and quote configs are those made from it.                           *)
PolicyInv ==
  /\ config \in Configs /\ pc \in Places
  /\ pc \in AfterPrimary =>
       /\ policies \in Seq(LoadedPolicies) /\ policies # <<>>
       /\ TpmConfigAccepts(policies[1].attestation)
       /\ tpmConfig = TpmConfig(policies[1].attestation, config.reset)
  /\ pc \in AfterQuote =>
       quote = QuoteConfig(config.quote, tpmConfig) /\ quote # None

(* TARGET_CGROUPS has one cgroup for each workload looked up so far.       *)
TargetInv ==
  /\ pc \in BeforeLookUp => targets = <<>> /\ evidence # "bound"
  /\ pc \in {"quote", "load"} => index = 1
  /\ LookingUp =>
       /\ index \in 1 .. Len(config.workloads) + 1
       /\ Range(targets) = 1 .. index - 1 /\ IsInjective(targets)
       /\ evidence # "bound"
  /\ pc \in {"cgroup-path", "cgroup-id"} => index <= Len(config.workloads)
  /\ pc \in {"attach", "running"} \/ evidence = "bound" =>
       Range(targets) = DOMAIN config.workloads /\ IsInjective(targets)
  /\ attached # {} => pc = "running"

(* The container of workload i, and that it was found running.             *)
Target(i) == NamedBy[config.workloads[i].container]

Found(i) ==
  /\ config.workloads[i].container \in DOMAIN NamedBy
  /\ initPid[Target(i)] # 0

(* While Docker leaves the containers alone, each look-up has found the    *)
(* container the workload names.                                           *)
WorldInv ==
  /\ initPid \in [Container -> Pid \union {0}]
  /\ \A c, d \in Container : initPid[c] = initPid[d] => c = d \/ initPid[c] = 0
  /\ pc \in BeforeLookUp => targets = <<>>
  /\ ~moved =>
       /\ \A g \in DOMAIN targets :
            Found(targets[g]) /\ g = Cgroup(Target(targets[g]))
       /\ pc = "cgroup-path" => Found(index) /\ pid = initPid[Target(index)]
       /\ pc = "cgroup-id" => Found(index) /\ cgroupOf = Target(index)

Inv == PolicyInv /\ TargetInv /\ WorldInv

-----------------------------------------------------------------------------
(* A config's workloads are a sequence.                                    *)
LEMMA WorkloadsAreSequence ==
  ASSUME config \in Configs
  PROVE  /\ config.workloads \in Seq(Range(config.workloads))
         /\ Len(config.workloads) \in Nat
         /\ DOMAIN config.workloads = 1 .. Len(config.workloads)
<1>1. config.workloads \in Seq(Range(config.workloads))
  BY StartUpAssumption DEF WellFormed
<1> QED BY <1>1, LenProperties

LEMMA InitInv == Init => Inv
<1> SUFFICES ASSUME Init PROVE Inv
  OBVIOUS
<1>1. PolicyInv
  BY DEF Init, PolicyInv, Places, AfterPrimary, AfterPolicies, AfterQuote
<1>2. TargetInv
  BY DEF Init, TargetInv, LookingUp
<1>3. DOMAIN targets = {}
  BY DEF Init
<1>4. WorldInv
  BY <1>3 DEF Init, WorldInv
<1> QED BY <1>1, <1>2, <1>4 DEF Inv

-----------------------------------------------------------------------------
(* PolicyInv: the steps that change the policies, and the others.          *)
LEMMA PoliciesKept ==
  ASSUME PolicyInv, config' = config, policies' = policies,
         tpmConfig' = tpmConfig, quote' = quote, pc' \in Places,
         pc' \in AfterPrimary => pc \in AfterPrimary,
         pc' \in AfterQuote => pc \in AfterQuote
  PROVE  PolicyInv'
  BY DEF PolicyInv

LEMMA PrimaryPolicyStep ==
  ASSUME PolicyInv, LoadPrimaryPolicy
  PROVE  PolicyInv'
<1> DEFINE file == IF config.primary = None THEN DefaultPolicyFile
                   ELSE config.primary
           ok == /\ file \in DOMAIN PolicyFile
                 /\ TpmConfigAccepts(PolicyFile[file].attestation)
<1>1. /\ pc' = IF ok THEN "policies" ELSE "failed"
      /\ ok => /\ policies' = <<PolicyFile[file]>>
               /\ tpmConfig' = TpmConfig(PolicyFile[file].attestation,
                                         config.reset)
      /\ config' = config
  BY DEF LoadPrimaryPolicy, GoOn
<1>2. CASE ok
  <2>1. PolicyFile[file] \in LoadedPolicies
    BY <1>2 DEF LoadedPolicies
  <2>2. ASSUME NEW p \in LoadedPolicies
        PROVE  <<p>> \in Seq(LoadedPolicies) /\ <<p>> # <<>> /\ <<p>>[1] = p
    OBVIOUS
  <2>3. policies' = <<PolicyFile[file]>>
    BY <1>1, <1>2
  <2>4. policies' \in Seq(LoadedPolicies) /\ policies' # <<>>
        /\ policies'[1] = PolicyFile[file]
    BY <2>2, <2>3, <2>1, Zenon
  <2>5. pc' = "policies" /\ config' \in Configs
    BY <1>1, <1>2 DEF PolicyInv
  <2> QED BY <1>1, <1>2, <2>4, <2>5
          DEF PolicyInv, Places, AfterPrimary, AfterPolicies, AfterQuote
<1>3. CASE ~ok
  <2>1. pc' = "failed" /\ config' \in Configs
    BY <1>1, <1>3 DEF PolicyInv
  <2> QED BY <2>1
          DEF PolicyInv, Places, AfterPrimary, AfterPolicies, AfterQuote
<1> QED BY <1>2, <1>3

LEMMA AddPolicyStep ==
  ASSUME PolicyInv, AddWorkloadPolicy
  PROVE  PolicyInv'
<1> DEFINE file == config.workloads[index].policy
           next == IF file = None THEN policies
                   ELSE IF file \in DOMAIN PolicyFile
                   THEN WithPolicy(PolicyFile[file])
                   ELSE None
<1>1. /\ pc = "policies" /\ pc' = IF next # None THEN "policies" ELSE "failed"
      /\ policies' = IF next = None THEN policies ELSE next
      /\ config' = config /\ tpmConfig' = tpmConfig /\ quote' = quote
  BY DEF AddWorkloadPolicy, GoOn
<1>2. /\ policies \in Seq(LoadedPolicies) /\ policies # <<>>
      /\ TpmConfigAccepts(policies[1].attestation)
      /\ tpmConfig = TpmConfig(policies[1].attestation, config.reset)
      /\ config \in Configs
  BY <1>1 DEF PolicyInv, AfterPrimary
<1>3. next \in {None, policies}
      \/ \E p \in LoadedPolicies : next = Append(policies, p)
  BY DEF WithPolicy, LoadedPolicies
<1> HIDE DEF next
<1>4. policies' = policies \/ \E p \in LoadedPolicies : policies' = Append(policies, p)
  BY <1>1, <1>3
<1>5. /\ policies' \in Seq(LoadedPolicies) /\ policies' # <<>>
      /\ policies'[1] = policies[1]
  BY <1>2, <1>4, AppendProperties, LenProperties, EmptySeq
<1> QED BY <1>1, <1>2, <1>5
        DEF PolicyInv, Places, AfterPrimary, AfterPolicies, AfterQuote

LEMMA PolicyStep ==
  ASSUME PolicyInv, [Next]_vars
  PROVE  PolicyInv'
<1> USE DEF AfterPrimary, AfterPolicies, AfterQuote, Places, GoOn, LookingUp
<1>1. CASE LoadConfig
  BY <1>1, PoliciesKept DEF LoadConfig, policyVars, worldVars
<1>2. CASE LoadPrimaryPolicy
  BY <1>2, PrimaryPolicyStep
<1>3. CASE AddWorkloadPolicy
  BY <1>3, AddPolicyStep
<1>4. CASE OpenEvidence
  BY <1>4, PoliciesKept DEF OpenEvidence, policyVars
<1>5. CASE ConfigureTpmQuote
  BY <1>5 DEF ConfigureTpmQuote, policyVars, PolicyInv
<1>6. CASE LoadPrograms
  BY <1>6, PoliciesKept DEF LoadPrograms, policyVars
<1>7. CASE InspectContainer
  BY <1>7, PoliciesKept DEF InspectContainer, policyVars
<1>8. CASE ReadCgroupPath
  BY <1>8, PoliciesKept DEF ReadCgroupPath, policyVars
<1>9. CASE InsertTarget
  BY <1>9, PoliciesKept DEF InsertTarget, policyVars
<1>10. CASE BindWorkloads
  BY <1>10, PoliciesKept DEF BindWorkloads, policyVars
<1>11. CASE Attach
  BY <1>11, PoliciesKept DEF Attach, policyVars
<1>12. CASE \E c \in Container : Stop(c) \/ Start(c)
  BY <1>12, PoliciesKept DEF Stop, Start, mainVars, PolicyInv
<1>13. CASE UNCHANGED vars
  BY <1>13, PoliciesKept DEF vars, mainVars, PolicyInv
<1> QED BY <1>1, <1>2, <1>3, <1>4, <1>5, <1>6, <1>7, <1>8, <1>9, <1>10, <1>11,
           <1>12, <1>13 DEF Next

-----------------------------------------------------------------------------
(* TargetInv: the insert of a new cgroup, and the other steps.             *)
LEMMA RangeGrows ==
  ASSUME NEW f, NEW id, id \notin DOMAIN f, NEW n \in Nat \ {0},
         Range(f) = 1 .. n - 1, IsInjective(f), NEW h,
         DOMAIN h = DOMAIN f \union {id}, h[id] = n, \A g \in DOMAIN f : h[g] = f[g]
  PROVE  Range(h) = 1 .. n /\ IsInjective(h)
<1>1. Range(h) = Range(f) \union {n}
  BY DEF Range
<1>2. (1 .. n - 1) \union {n} = 1 .. n
  OBVIOUS
<1>3. \A g \in DOMAIN f : f[g] # n
  <2>1. \A g \in DOMAIN f : f[g] \in 1 .. n - 1
    BY DEF Range
  <2> QED BY <2>1
<1>4. IsInjective(h)
  BY <1>3 DEF IsInjective
<1> QED BY <1>1, <1>2, <1>4

LEMMA InsertStep ==
  ASSUME PolicyInv, TargetInv, InsertTarget
  PROVE  TargetInv'
<1> DEFINE id == Cgroup(cgroupOf)
           ok == (cgroupOf # Host => initPid[cgroupOf] # 0) /\ FreeFor(id)
<1>1. /\ pc = "cgroup-id" /\ pc' = IF ok THEN "inspect" ELSE "failed"
      /\ index' = IF ok THEN index + 1 ELSE index
      /\ targets' = IF ok
                    THEN [g \in DOMAIN targets \union {id} |->
                            IF g = id THEN index ELSE targets[g]]
                    ELSE targets
      /\ config' = config /\ evidence' = evidence /\ attached' = attached
  BY DEF InsertTarget, GoOn
<1>2. /\ index \in 1 .. Len(config.workloads) + 1
      /\ index <= Len(config.workloads)
      /\ Range(targets) = 1 .. index - 1 /\ IsInjective(targets)
      /\ evidence # "bound" /\ attached = {}
  BY <1>1 DEF TargetInv, LookingUp
<1>3. Len(config.workloads) \in Nat
  BY WorkloadsAreSequence DEF PolicyInv
<1>4. ok => id \notin DOMAIN targets
  BY DEF FreeFor
<1> HIDE DEF id, ok
<1>5. CASE ok
  <2>1. index \in Nat \ {0} /\ index' = index + 1
        /\ index + 1 \in 1 .. Len(config.workloads) + 1 /\ index + 1 - 1 = index
    BY <1>1, <1>2, <1>3, <1>5
  <2>2. targets' = [g \in DOMAIN targets \union {id} |->
                      IF g = id THEN index ELSE targets[g]]
    BY <1>1, <1>5
  <2>3. /\ index \in Nat \ {0} /\ id \notin DOMAIN targets
        /\ Range(targets) = 1 .. index - 1 /\ IsInjective(targets)
    BY <1>2, <1>4, <1>5, <2>1
  <2>4. /\ DOMAIN targets' = DOMAIN targets \union {id} /\ targets'[id] = index
        /\ \A g \in DOMAIN targets : targets'[g] = targets[g]
    BY <2>2, <2>3
  <2>5. Range(targets') = 1 .. index /\ IsInjective(targets')
    BY <2>3, <2>4, RangeGrows
  <2> QED BY <1>1, <1>2, <1>5, <2>1, <2>5 DEF TargetInv, LookingUp, BeforeLookUp
<1>6. CASE ~ok
  BY <1>1, <1>2, <1>6 DEF TargetInv, LookingUp, BeforeLookUp
<1> QED BY <1>5, <1>6

LEMMA BindStep ==
  ASSUME PolicyInv, TargetInv, BindWorkloads
  PROVE  TargetInv'
<1>1. /\ pc = "inspect" /\ index > Len(config.workloads)
      /\ pc' \in {"attach", "failed"} /\ evidence' \in {"opened", "bound"}
      /\ targets' = targets /\ config' = config /\ attached' = attached
  BY DEF BindWorkloads, lookUpVars
<1>2. /\ index \in 1 .. Len(config.workloads) + 1
      /\ Range(targets) = 1 .. index - 1 /\ IsInjective(targets)
      /\ attached = {}
  BY <1>1 DEF TargetInv, LookingUp
<1>3. /\ Len(config.workloads) \in Nat
      /\ DOMAIN config.workloads = 1 .. Len(config.workloads)
  BY WorkloadsAreSequence DEF PolicyInv
<1>4. Range(targets) = DOMAIN config.workloads
  BY <1>1, <1>2, <1>3
<1> QED BY <1>1, <1>2, <1>4 DEF TargetInv, LookingUp, BeforeLookUp

LEMMA TargetStep ==
  ASSUME PolicyInv, TargetInv, [Next]_vars
  PROVE  TargetInv'
<1> USE DEF LookingUp, BeforeLookUp, GoOn, TargetInv
<1>1. CASE LoadConfig
  BY <1>1 DEF LoadConfig, lookUpVars
<1>2. CASE LoadPrimaryPolicy
  BY <1>2 DEF LoadPrimaryPolicy, lookUpVars
<1>3. CASE AddWorkloadPolicy
  BY <1>3 DEF AddWorkloadPolicy, lookUpVars
<1>4. CASE OpenEvidence
  BY <1>4 DEF OpenEvidence, lookUpVars
<1>5. CASE ConfigureTpmQuote
  BY <1>5 DEF ConfigureTpmQuote, lookUpVars
<1>6. CASE LoadPrograms
  <2>1. /\ pc = "load" /\ pc' \in {"inspect", "failed"} /\ config' = config
        /\ index' = index /\ targets' = targets /\ evidence' = evidence
        /\ attached' = attached
    BY <1>6 DEF LoadPrograms, lookUpVars
  <2>2. /\ targets = <<>> /\ index = 1 /\ evidence # "bound" /\ attached = {}
    BY <2>1
  <2>3. Range(targets) = {} /\ IsInjective(targets)
    BY <2>2 DEF Range, IsInjective
  <2>4. 1 .. index - 1 = {} /\ index \in 1 .. Len(config.workloads) + 1
    BY <2>2, WorkloadsAreSequence DEF PolicyInv
  <2> QED BY <2>1, <2>2, <2>3, <2>4
<1>7. CASE InspectContainer
  <2>1. /\ pc = "inspect" /\ pc' \in {"cgroup-path", "failed"}
        /\ index <= Len(config.workloads) /\ config' = config
        /\ index' = index /\ targets' = targets /\ evidence' = evidence
        /\ attached' = attached
    BY <1>7 DEF InspectContainer
  <2> QED BY <2>1
<1>8. CASE ReadCgroupPath
  <2>1. /\ pc = "cgroup-path" /\ pc' \in {"cgroup-id", "failed"}
        /\ config' = config
        /\ index' = index /\ targets' = targets /\ evidence' = evidence
        /\ attached' = attached
    BY <1>8 DEF ReadCgroupPath
  <2> QED BY <2>1
<1>9. CASE InsertTarget
  BY <1>9, InsertStep
<1>10. CASE BindWorkloads
  BY <1>10, BindStep
<1>11. CASE Attach
  BY <1>11 DEF Attach, lookUpVars
<1>12. CASE \E c \in Container : Stop(c) \/ Start(c)
  BY <1>12 DEF Stop, Start, mainVars
<1>13. CASE UNCHANGED vars
  BY <1>13 DEF vars, mainVars
<1> QED BY <1>1, <1>2, <1>3, <1>4, <1>5, <1>6, <1>7, <1>8, <1>9, <1>10, <1>11,
           <1>12, <1>13 DEF Next

-----------------------------------------------------------------------------
(* WorldInv: the look-ups, Docker, and the other steps.                    *)
LEMMA WorldKept ==
  ASSUME WorldInv, initPid' = initPid, starts' = starts, moved' = moved,
         config' = config, targets' = targets, 
         pc' \in BeforeLookUp => pc \in BeforeLookUp,
         pc' # "cgroup-path", pc' # "cgroup-id"
  PROVE  WorldInv'
<1>1. \A i : (Found(i)' <=> Found(i)) /\ Target(i)' = Target(i)
  BY DEF Found, Target
<1>2. \A c : Cgroup(c)' = Cgroup(c)
  BY DEF Cgroup
<1> QED BY <1>1, <1>2 DEF WorldInv

LEMMA InspectStep ==
  ASSUME WorldInv, InspectContainer
  PROVE  WorldInv'
<1>1. /\ pc = "inspect" /\ config' = config /\ index' = index
      /\ targets' = targets /\ initPid' = initPid /\ starts' = starts
      /\ moved' = moved /\ pc' \in {"cgroup-path", "failed"}
  BY DEF InspectContainer, worldVars, GoOn
<1>2. pc' = "cgroup-path" => Found(index) /\ pid' = initPid[Target(index)]
  BY DEF InspectContainer, GoOn, Found, Target
<1>3. \A i : (Found(i)' <=> Found(i)) /\ Target(i)' = Target(i)
  BY <1>1 DEF Found, Target
<1>4. \A c : Cgroup(c)' = Cgroup(c)
  BY <1>1 DEF Cgroup
<1> QED BY <1>1, <1>2, <1>3, <1>4 DEF WorldInv, BeforeLookUp

LEMMA CgroupPathStep ==
  ASSUME WorldInv, ReadCgroupPath
  PROVE  WorldInv'
<1> DEFINE owners == {c \in Container : initPid[c] = pid}
<1>1. /\ pc = "cgroup-path" /\ config' = config /\ index' = index
      /\ targets' = targets /\ initPid' = initPid /\ starts' = starts
      /\ moved' = moved /\ pc' \in {"cgroup-id", "failed"}
      /\ pc' = "cgroup-id" => cgroupOf' \in IF owners = {} THEN {Host} ELSE owners
  BY DEF ReadCgroupPath, worldVars
<1>2. ~moved => owners = {Target(index)} /\ Found(index)
  <2> SUFFICES ASSUME ~moved PROVE owners = {Target(index)} /\ Found(index)
    OBVIOUS
  <2>1. Found(index) /\ pid = initPid[Target(index)] /\ pid # 0
    BY <1>1 DEF WorldInv, Found
  <2>2. Target(index) \in Container
    BY <2>1, StartUpAssumption DEF Found, Target
  <2> QED BY <2>1, <2>2 DEF WorldInv
<1> HIDE DEF owners
<1>3. \A i : (Found(i)' <=> Found(i)) /\ Target(i)' = Target(i)
  BY <1>1 DEF Found, Target
<1>4. \A c : Cgroup(c)' = Cgroup(c)
  BY <1>1 DEF Cgroup
<1> QED BY <1>1, <1>2, <1>3, <1>4 DEF WorldInv, BeforeLookUp

LEMMA InsertWorldStep ==
  ASSUME WorldInv, InsertTarget
  PROVE  WorldInv'
<1>1. /\ pc = "cgroup-id" /\ config' = config
      /\ initPid' = initPid /\ starts' = starts /\ moved' = moved
      /\ pc' \in {"inspect", "failed"}
  BY DEF InsertTarget, worldVars, GoOn
<1>2. \A g \in DOMAIN targets' :
        \/ g \in DOMAIN targets /\ targets'[g] = targets[g]
        \/ g = Cgroup(cgroupOf) /\ targets'[g] = index
  BY DEF InsertTarget
<1>3. \A i : (Found(i)' <=> Found(i)) /\ Target(i)' = Target(i)
  BY <1>1 DEF Found, Target
<1>4. \A c : Cgroup(c)' = Cgroup(c)
  BY <1>1 DEF Cgroup
<1>5. ~moved => Found(index) /\ cgroupOf = Target(index)
  BY <1>1 DEF WorldInv
<1>6. ASSUME ~moved, NEW g \in DOMAIN targets'
      PROVE  Found(targets'[g]) /\ g = Cgroup(Target(targets'[g]))
  BY <1>2, <1>5, <1>6 DEF WorldInv
<1> QED BY <1>1, <1>3, <1>4, <1>6 DEF WorldInv, BeforeLookUp

LEMMA DockerStep ==
  ASSUME WorldInv, NEW c \in Container, Stop(c) \/ Start(c)
  PROVE  WorldInv'
<1>1. moved' = TRUE /\ pc' = pc /\ targets' = targets
  BY DEF Stop, Start, mainVars
<1>2. /\ initPid \in [Container -> Pid \union {0}]
      /\ \A b, d \in Container :
           initPid[b] = initPid[d] => b = d \/ initPid[b] = 0
      /\ pc \in BeforeLookUp => targets = <<>>
  BY DEF WorldInv
<1>3. \/ initPid' = [initPid EXCEPT ![c] = 0]
      \/ \E p \in Pid \ Range(initPid) : initPid' = [initPid EXCEPT ![c] = p]
  BY DEF Stop, Start
<1>4. /\ initPid' \in [Container -> Pid \union {0}]
      /\ \A b, d \in Container :
           initPid'[b] = initPid'[d] => b = d \/ initPid'[b] = 0
  BY <1>2, <1>3 DEF Range
<1> QED BY <1>1, <1>2, <1>4 DEF WorldInv

LEMMA WorldStep ==
  ASSUME WorldInv, TargetInv, [Next]_vars
  PROVE  WorldInv'
<1> USE DEF BeforeLookUp, GoOn
<1>1. CASE LoadConfig
  BY <1>1, WorldKept DEF LoadConfig, lookUpVars, worldVars
<1>2. CASE LoadPrimaryPolicy
  BY <1>2, WorldKept DEF LoadPrimaryPolicy, lookUpVars, worldVars
<1>3. CASE AddWorkloadPolicy
  BY <1>3, WorldKept DEF AddWorkloadPolicy, lookUpVars, worldVars
<1>4. CASE OpenEvidence
  BY <1>4, WorldKept DEF OpenEvidence, lookUpVars, worldVars
<1>5. CASE ConfigureTpmQuote
  BY <1>5, WorldKept DEF ConfigureTpmQuote, lookUpVars, worldVars
<1>6. CASE LoadPrograms
  BY <1>6, WorldKept DEF LoadPrograms, lookUpVars, worldVars
<1>7. CASE InspectContainer
  BY <1>7, InspectStep
<1>8. CASE ReadCgroupPath
  BY <1>8, CgroupPathStep
<1>9. CASE InsertTarget
  BY <1>9, InsertWorldStep
<1>10. CASE BindWorkloads
  BY <1>10, WorldKept DEF BindWorkloads, lookUpVars, worldVars
<1>11. CASE Attach
  BY <1>11, WorldKept DEF Attach, lookUpVars, worldVars
<1>12. CASE \E c \in Container : Stop(c) \/ Start(c)
  BY <1>12, DockerStep
<1>13. CASE UNCHANGED vars
  <2>1. \A i : (Found(i)' <=> Found(i)) /\ Target(i)' = Target(i)
    BY <1>13 DEF Found, Target, vars, worldVars
  <2>2. \A c : Cgroup(c)' = Cgroup(c)
    BY <1>13 DEF Cgroup, vars, worldVars
  <2> QED BY <1>13, <2>1, <2>2 DEF WorldInv, vars, mainVars, worldVars
<1> QED BY <1>1, <1>2, <1>3, <1>4, <1>5, <1>6, <1>7, <1>8, <1>9, <1>10, <1>11,
           <1>12, <1>13 DEF Next

(* The start-up keeps its invariant.                                       *)
LEMMA StartUpInvariant == Spec => []Inv
<1>1. Init => Inv
  BY InitInv
<1>2. Inv /\ [Next]_vars => Inv'
  BY PolicyStep, TargetStep, WorldStep DEF Inv
<1> QED BY <1>1, <1>2, PTL DEF Spec

-----------------------------------------------------------------------------
(* Whatever Docker does meanwhile, the records and probes that speak of    *)
(* TARGET_CGROUPS find one cgroup for every workload in it, and no cgroup  *)
(* for two (populate_target_cgroups).                                      *)
THEOREM TargetsAreWhole == Spec => []BoundTargetsAreWhole
<1>1. Inv => BoundTargetsAreWhole
  BY DEF Inv, TargetInv, BoundTargetsAreWhole
<1> QED BY <1>1, StartUpInvariant, PTL

(* With the containers at rest, the events of a container are those of the *)
(* workload that names it (current_scope, workload_id_for_index).          *)
THEOREM EventsAreAttributed == Spec => []EventsNameTheirWorkload
<1>1. Inv => EventsNameTheirWorkload
  <2> SUFFICES ASSUME Inv, Running, ~moved, NEW c \in Container, initPid[c] # 0
               PROVE  /\ InScope(Cgroup(c)) <=> Contains(c) # {} \/ config.hostWide
                      /\ \A i \in Contains(c) :
                           EventWorkload(Cgroup(c)) = config.workloads[i].id
    BY DEF EventsNameTheirWorkload
  <2>1. Range(targets) = DOMAIN config.workloads /\ IsInjective(targets)
    BY DEF Inv, TargetInv, Running
  <2>2. \A g \in DOMAIN targets :
          Found(targets[g]) /\ g = Cgroup(Target(targets[g]))
    BY DEF Inv, WorldInv
  <2>3. \A d : Cgroup(c) = Cgroup(d) => c = d
    BY DEF Cgroup
  <2>4. \A i : i \in Contains(c) <=> i \in DOMAIN config.workloads /\ Target(i) = c
    BY DEF Contains, Target
  <2>5. ASSUME NEW i \in Contains(c)
        PROVE  Cgroup(c) \in DOMAIN targets /\ targets[Cgroup(c)] = i
    <3>1. PICK g \in DOMAIN targets : targets[g] = i
      BY <2>1, <2>4 DEF Range
    <3>2. g = Cgroup(c)
      BY <2>2, <2>4, <3>1
    <3> QED BY <3>1, <3>2
  <2>6. ASSUME Cgroup(c) \in DOMAIN targets
        PROVE  targets[Cgroup(c)] \in Contains(c)
    <3>1. Target(targets[Cgroup(c)]) = c
      BY <2>2, <2>3, <2>6
    <3>2. targets[Cgroup(c)] \in DOMAIN config.workloads
      BY <2>1, <2>6 DEF Range
    <3> QED BY <2>4, <3>1, <3>2
  <2>7. Cgroup(c) \in DOMAIN targets <=> Contains(c) # {}
    BY <2>5, <2>6
  <2>8. config.hostWide \in BOOLEAN
    BY StartUpAssumption DEF Inv, PolicyInv, WellFormed
  <2>9. InScope(Cgroup(c)) <=> Contains(c) # {} \/ config.hostWide
    BY <2>7, <2>8 DEF InScope
  <2>10. \A i \in Contains(c) : EventWorkload(Cgroup(c)) = config.workloads[i].id
    BY <2>5 DEF EventWorkload
  <2> QED BY <2>9, <2>10
<1> QED BY <1>1, StartUpInvariant, PTL

-----------------------------------------------------------------------------
(* What the monitor accepts of the TPM policy the verifier accepts too     *)
(* (from_policy_and_local_options against tpm_event_policy).               *)
LEMMA EmptyRange ==
  ASSUME NEW f
  PROVE  Range(f) = {} <=> DOMAIN f = {}
<1>1. \A x \in DOMAIN f : f[x] \in Range(f)
  BY DEF Range
<1>2. DOMAIN f = {} => Range(f) = {}
  BY DEF Range
<1> QED BY <1>1, <1>2

LEMMA EmptyExtendOn ==
  ASSUME NEW seq, seq \in Seq(Range(seq))
  PROVE  Range(Normalized(seq)) = {} <=> Normalized(seq) = <<>>
<1>1. DOMAIN seq = 1 .. Len(seq) /\ Len(seq) \in Nat
  BY LenProperties
<1>2. Normalized(seq) = [i \in 1 .. Len(seq) |-> Normal[seq[i]]]
  BY <1>1 DEF Normalized
<1>3. Range(Normalized(seq)) = {} <=> Len(seq) = 0
  <2>1. DOMAIN Normalized(seq) = 1 .. Len(seq)
    BY <1>2
  <2>2. 1 .. Len(seq) = {} <=> Len(seq) = 0
    <3>1. Len(seq) # 0 => 1 \in 1 .. Len(seq)
      BY <1>1
    <3>2. Len(seq) = 0 => 1 .. Len(seq) = {}
      BY <1>1
    <3> QED BY <3>1, <3>2
  <2>3. Range(Normalized(seq)) = {} <=> DOMAIN Normalized(seq) = {}
    BY EmptyRange
  <2> QED BY <2>1, <2>2, <2>3
<1>4. Normalized(seq) \in Seq({Normal[seq[i]] : i \in 1 .. Len(seq)})
  BY <1>1, <1>2
<1>5. Len(Normalized(seq)) = Len(seq)
  BY <1>1, <1>2
<1> QED BY <1>3, <1>4, <1>5, EmptySeq, LenProperties

LEMMA MonitorPolicyFitsVerifier ==
  ASSUME NEW p, WellFormedPolicy(p), TpmConfigAccepts(p.attestation), NEW reset
  PROVE  LET a == p.attestation
             t == TpmConfig(a, reset)
         IN  /\ TpmEventPolicyAccepts(a)
             /\ \A class \in ClassNames :
                  ShouldExtend(t, class) <=> class \in ExpectedExtendOn(a)
             /\ t.enabled => TpmSummaryFieldsHold(a, t.bank, t.pcr)
             /\ ~t.enabled => t.extendOn = {}
<1> DEFINE a == p.attestation
           t == TpmConfig(a, reset)
           on == Normalized(a.extendOn)
           backend == Normal[a.backend]
           mode == Normal[a.mode]
<1>1. /\ backend \in {"software-chain", "tpm"}
      /\ ValidMode(mode, backend) /\ ValidExtendOn(on, mode, backend)
      /\ backend = "tpm" => ValidHashBank(a.bank) /\ ValidPcr(a.pcr)
  BY DEF TpmConfigAccepts
<1>2. /\ t.enabled <=> backend = "tpm"
      /\ t.bank = DefaultHashBank(a.bank) /\ t.extendOn = Range(on)
      /\ t.pcr = IF t.enabled THEN a.pcr ELSE None
  BY DEF TpmConfig
<1>3. a.pcr \in Nat \union {None}
  BY DEF WellFormedPolicy
<1>4. Range(on) = {} <=> on = <<>>
  BY EmptyExtendOn DEF WellFormedPolicy
<1>5. ExpectedExtendOn(a) = Range(on)
  BY <1>1 DEF ValidExtendOn, ExpectedExtendOn
<1> HIDE DEF on, t
<1>6. Range(on) \subseteq ClassNames /\ IsInjective(on)
      /\ (on # <<>> <=> backend = "tpm" /\ mode = "policy-triggered")
  BY <1>1 DEF ValidExtendOn
<1>7. TpmEventPolicyAccepts(a)
  BY <1>1, <1>4, <1>5, <1>6, Zenon DEF TpmEventPolicyAccepts, ValidMode, on
<1>8. \A class \in ClassNames :
        ShouldExtend(t, class) <=> class \in ExpectedExtendOn(a)
  BY <1>2, <1>4, <1>5, <1>6 DEF ShouldExtend
<1>9. ASSUME t.enabled PROVE TpmSummaryFieldsHold(a, t.bank, t.pcr)
  <2>1. ValidHashBank(a.bank) /\ ValidPcr(a.pcr) /\ t.pcr = a.pcr
    BY <1>1, <1>2, <1>9
  <2>2. t.bank = DefaultHashBank(a.bank) /\ t.bank = "sha256"
    BY <1>2, <2>1 DEF ValidHashBank, DefaultHashBank
  <2>3. a.pcr <= 23
    BY <1>3, <2>1, StartUpAssumption DEF ValidPcr
  <2> QED BY <1>2, <1>9, <2>1, <2>2, <2>3 DEF TpmSummaryFieldsHold
<1>10. ~t.enabled => t.extendOn = {}
  BY <1>2, <1>4, <1>6
<1> QED BY <1>7, <1>8, <1>9, <1>10 DEF t

LEMMA PrimaryIsWellFormed ==
  ASSUME policies \in Seq(LoadedPolicies), policies # <<>>
  PROVE  WellFormedPolicy(policies[1])
<1>1. policies[1] \in LoadedPolicies
  BY LenProperties, EmptySeq, ElementOfSeq
<1> QED BY <1>1, StartUpAssumption DEF LoadedPolicies

(* The verifier reads the TPM policy of a session as the monitor does.     *)
THEOREM TpmPolicyIsShared == Spec => []VerifierSharesTpmPolicy
<1>1. Inv => VerifierSharesTpmPolicy
  <2> SUFFICES ASSUME Inv, Running PROVE VerifierSharesTpmPolicy
    BY DEF VerifierSharesTpmPolicy
  <2> DEFINE a == policies[1].attestation
  <2>1. /\ policies \in Seq(LoadedPolicies) /\ policies # <<>>
        /\ TpmConfigAccepts(a) /\ tpmConfig = TpmConfig(a, config.reset)
        /\ quote = QuoteConfig(config.quote, tpmConfig) /\ quote # None
        /\ config \in Configs
    BY DEF Inv, PolicyInv, Running, AfterPrimary, AfterPolicies, AfterQuote
  <2>2. /\ TpmEventPolicyAccepts(a)
        /\ \A class \in ClassNames :
             ShouldExtend(tpmConfig, class) <=> class \in ExpectedExtendOn(a)
        /\ tpmConfig.enabled => TpmSummaryFieldsHold(a, tpmConfig.bank, tpmConfig.pcr)
        /\ ~tpmConfig.enabled => tpmConfig.extendOn = {}
    BY <2>1, PrimaryIsWellFormed, MonitorPolicyFitsVerifier
  <2>3. ~tpmConfig.enabled => ~quote.enabled
    BY <2>1 DEF QuoteConfig
  <2> QED BY <2>2, <2>3 DEF VerifierSharesTpmPolicy
<1> QED BY <1>1, StartUpInvariant, PTL

-----------------------------------------------------------------------------
(* The path of a file below a directory, as the verifier reads it.         *)
LEMMA PathsResolve ==
  ASSUME NEW outDir \in Paths, SafeRelativePath(outDir),
         Trimmed(outDir) = outDir, NEW f \in QuoteFiles
  PROVE  ResolvesTo(Append(outDir, f)) = Append(outDir, f)
         /\ Append(outDir, f) # None
<1> DEFINE S == DOMAIN TrimStart \union QuoteFiles
           path == Append(outDir, f)
<1>1. outDir \in Seq(S) /\ outDir # <<>> /\ f \in S
  BY DEF Paths, SafeRelativePath
<1> HIDE DEF S
<1>2. /\ path \in Seq(S) /\ path # <<>> /\ path[1] = outDir[1]
      /\ Len(outDir) \in Nat \ {0} /\ Len(path) = Len(outDir) + 1
      /\ path[Len(path)] = f
      /\ \A i \in 1 .. Len(outDir) : path[i] = outDir[i]
  BY <1>1, AppendProperties, LenProperties, EmptySeq
<1>3. TrimStart[outDir[1]] = outDir[1]
  <2>1. Trimmed(outDir) = <<TrimStart[outDir[1]]>> \o Tail(outDir)
    BY <1>1 DEF Trimmed
  <2>2. (<<TrimStart[outDir[1]]>> \o Tail(outDir))[1] = TrimStart[outDir[1]]
    OBVIOUS
  <2> QED BY <2>1, <2>2
<1>4. Trimmed(path) = path
  <2>1. Trimmed(path) = <<path[1]>> \o Tail(path)
    BY <1>2, <1>3 DEF Trimmed
  <2>2. <<path[1]>> \o Tail(path) = path
    <3>1. path[1] \in S
      BY <1>1, <1>2
    <3>2. /\ Tail(path) \in Seq(S) /\ Len(Tail(path)) = Len(path) - 1
          /\ \A i \in 1 .. Len(Tail(path)) : Tail(path)[i] = path[i + 1]
      BY <1>2, HeadTailProperties
    <3>3. <<path[1]>> \in Seq(S) /\ Len(<<path[1]>>) = 1
      BY <3>1
    <3> DEFINE whole == <<path[1]>> \o Tail(path)
    <3>4. /\ whole \in Seq(S) /\ Len(whole) = Len(path)
          /\ \A i \in 1 .. Len(path) : whole[i] = path[i]
      BY <1>2, <3>2, <3>3, ConcatProperties
    <3> HIDE DEF whole
    <3>5. whole = path
      BY <1>2, <3>4, SeqEqual
    <3> QED BY <3>5 DEF whole
  <2> QED BY <2>1, <2>2
<1>5. ".." \notin Range(path)
  <2>1. f # ".."
    BY DEF QuoteFiles
  <2>2. ".." \notin Range(outDir)
    BY DEF SafeRelativePath
  <2>3. \A i \in 1 .. Len(outDir) : path[i] # ".."
    BY <1>1, <1>2, <2>2, LenProperties DEF Range
  <2>4. \A i \in DOMAIN path : i \in 1 .. Len(outDir) \/ i = Len(path)
    BY <1>2, LenProperties
  <2> QED BY <1>2, <2>1, <2>3, <2>4 DEF Range
<1>6. SafeSummaryPath(path)
  BY <1>2, <1>5 DEF SafeSummaryPath, SafeRelativePath
<1>7. ResolvesTo(path) = path
  BY <1>4, <1>6 DEF ResolvesTo
<1>8. path \in Paths
  BY <1>2 DEF Paths, S
<1> QED BY <1>7, <1>8, StartUpAssumption

(* The verifier checks the very quote the session asked the TPM for        *)
(* (configure_tpm_quote against validate_tpm_quote_summary).               *)
THEOREM QuotesAreFound == Spec => []QuoteIsFound
<1>1. Inv => QuoteIsFound
  <2> SUFFICES ASSUME Inv, Running, quote.enabled,
                      Trimmed(quote.outDir) = quote.outDir
               PROVE  LET s == QuoteSummary(quote, tpmConfig)
                      IN  QuoteRequest(s, tpmConfig.bank,
                                       policies[1].attestation.pcr) = s
    BY DEF QuoteIsFound
  <2> DEFINE s == QuoteSummary(quote, tpmConfig)
             q == config.quote
             outDir == IF q.outDir = None THEN <<"tpm_quote">> ELSE q.outDir
  <2>1. /\ tpmConfig = TpmConfig(policies[1].attestation, config.reset)
        /\ quote = QuoteConfig(q, tpmConfig) /\ quote # None
        /\ config \in Configs
    BY DEF Inv, PolicyInv, Running, AfterPrimary, AfterPolicies, AfterQuote
  <2>2. /\ q.nonce \in DOMAIN NonceOf \union {None}
        /\ q.outDir = None \/ q.outDir \in Paths
    BY <2>1, StartUpAssumption DEF WellFormed
  <2>3. /\ tpmConfig.enabled /\ q.nonce # None /\ NonceOf[q.nonce] # None
        /\ SafeRelativePath(outDir)
        /\ quote = [enabled |-> TRUE, nonce |-> NonceOf[q.nonce],
                    outDir |-> outDir]
    BY <2>1 DEF QuoteConfig
  <2>4. outDir \in Paths
    BY <2>2, StartUpAssumption
  <2>5. quote.nonce = NonceOf[q.nonce] /\ quote.outDir = outDir
    BY <2>3
  <2> HIDE DEF outDir
  <2>6. NonceOf[quote.nonce] = quote.nonce /\ quote.nonce # None
    BY <2>2, <2>3, <2>5, StartUpAssumption
  <2>7. tpmConfig.pcr = policies[1].attestation.pcr
    BY <2>1, <2>3 DEF TpmConfig
  <2>8. /\ s.nonce = quote.nonce
        /\ s.selection = PcrSelection(tpmConfig.bank, policies[1].attestation.pcr)
        /\ s.paths = [f \in QuoteFiles |-> Append(quote.outDir, f)]
        /\ s = [nonce |-> s.nonce, selection |-> s.selection, paths |-> s.paths]
    BY <2>7 DEF QuoteSummary
  <2> HIDE DEF s
  <2>9. [f \in QuoteFiles |-> ResolvesTo(s.paths[f])] = s.paths
    <3>1. \A f \in QuoteFiles : ResolvesTo(s.paths[f]) = s.paths[f]
      BY <2>3, <2>4, <2>5, <2>8, PathsResolve
    <3> QED BY <2>8, <3>1
  <2>10. None \notin Range(s.paths)
    BY <2>3, <2>4, <2>5, <2>8, PathsResolve DEF Range
  <2>11. QuoteRequest(s, tpmConfig.bank, policies[1].attestation.pcr) =
           [nonce |-> s.nonce, selection |-> s.selection, paths |-> s.paths]
    BY <2>6, <2>8, <2>9, <2>10, Zenon DEF QuoteRequest
  <2> QED BY <2>8, <2>11 DEF s
<1> QED BY <1>1, StartUpInvariant, PTL

(* When a scoped session has the workload identity the verifier asks for   *)
(* (workload_summary_id against validate_summary_workload_identity).       *)
THEOREM IdentityIsDecided == Spec => []IdentityVerifies
<1>1. Inv => IdentityVerifies
  <2> SUFFICES ASSUME Inv, Running, ~config.hostWide PROVE IdentityVerifies
    BY DEF IdentityVerifies
  <2> DEFINE ids == {config.workloads[i].id : i \in DOMAIN config.workloads}
             all == SummaryIds(config.workloads, FALSE)
             expected == ExpectedIds(policies)
  <2>1. all = UNION {IdSet[id] : id \in ids}
    BY DEF SummaryIds
  <2>2. \A id \in ids : id \in DOMAIN IdSet
    BY StartUpAssumption DEF Inv, PolicyInv, WellFormed
  <2>3. \A x \in DOMAIN IdSet : \A id \in IdSet[x] : IdSet[id] = {id}
    BY StartUpAssumption
  <2> HIDE DEF ids, all, expected
  <2>4. expected = all =>
          ((\A id \in ids : id \in expected) <=> (\A id \in ids : IdSet[id] = {id}))
    BY <2>1, <2>2, <2>3
  <2>5. /\ SummaryIdentityHolds(policies, all) <=> expected = {} \/ all = expected
        /\ \A id : EventIdentityHolds(policies, FALSE, id) <=>
                     expected = {} \/ id \in expected
    BY DEF SummaryIdentityHolds, EventIdentityHolds, expected
  <2>6. (/\ SummaryIdentityHolds(policies, all)
         /\ \A id \in ids : EventIdentityHolds(policies, FALSE, id))
        <=> (\/ expected = {}
             \/ expected = all /\ \A id \in ids : IdSet[id] = {id})
    BY <2>4, <2>5
  <2> QED BY <2>6 DEF IdentityVerifies, ids, all, expected
<1> QED BY <1>1, StartUpInvariant, PTL
=============================================================================
