----------------------------- MODULE MCPipeline -----------------------------
(* Small instances of Pipeline for TLC. *)
EXTENDS Pipeline, TLC

CONSTANTS t1, t2

MCTask == {t1, t2}

MCCgroupOf == t1 :> "shop" @@ t2 :> "shop"

MCTargets == {"shop"}

MCVerdict ==
  [e \in [task : MCTask, type : {"attempt", "exec"}] |->
     IF e.task = t1 THEN [class |-> "acceptable", rule |-> "exec-path"]
     ELSE [class |-> "suspicious", rule |-> "unknown-path"]]

MCWorkloadOf == [e \in DOMAIN MCVerdict |-> "shop"]

(* The TPM extends suspicious events and must not fail.                    *)
MCSetups ==
  {[mode |-> "scoped", workload |-> {"shop"}, policyIds |-> {"shop"},
    policyHash |-> "policy", tpm |-> TRUE, extendOn |-> {"suspicious"},
    failClosed |-> TRUE, resetPcr |-> TRUE, quote |-> FALSE,
    failOnDenied |-> TRUE, failOnSuspicious |-> FALSE, failOnDrops |-> TRUE]}

MCEarlierSummary == None
=============================================================================
