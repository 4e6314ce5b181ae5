---------------------------- MODULE MCAttestation ----------------------------
(* Small instances of Attestation for TLC. *)
EXTENDS Attestation

MCEvent == {"approved", "unknown", "forbidden"}

MCVerdict ==
  [e \in MCEvent |->
     CASE e = "approved"  -> [class |-> "acceptable", rule |-> "exec-path"]
       [] e = "unknown"   -> [class |-> "suspicious", rule |-> "unknown-path"]
       [] e = "forbidden" -> [class |-> "denied", rule |-> "deny-path"]]

MCWorkloadOf == [e \in MCEvent |-> "shop"]

(* A software-chain setup; the others change some of its fields. *)
Software ==
  [mode |-> "scoped", workload |-> {"shop"}, policyIds |-> {"shop"},
   policyHash |-> "policy", tpm |-> FALSE, extendOn |-> {},
   failClosed |-> FALSE, resetPcr |-> FALSE, quote |-> FALSE,
   failOnDenied |-> TRUE, failOnSuspicious |-> FALSE, failOnDrops |-> TRUE]

Tpm(extendOn, failClosed, quote) ==
  [Software EXCEPT !.tpm = TRUE, !.extendOn = extendOn,
                   !.failClosed = failClosed, !.quote = quote]

MCSetups ==
  {Software,
   [Software EXCEPT !.mode = "host-wide", !.workload = {"host-wide"},
                    !.policyIds = {}, !.failOnSuspicious = TRUE,
                    !.failOnDrops = FALSE],
   Tpm({}, TRUE, TRUE),
   [Tpm({"suspicious", "denied"}, TRUE, TRUE) EXCEPT !.resetPcr = TRUE],
   [Tpm({"suspicious", "denied"}, FALSE, TRUE) EXCEPT
      !.failOnDenied = FALSE, !.resetPcr = TRUE],
   Tpm(Classes, FALSE, FALSE)}

MCSoftwareSetups == {Software}

(* Host-wide collection with a policy that names its workload. *)
MCHostWideSetups ==
  {[Software EXCEPT !.mode = "host-wide", !.workload = {"host-wide"}]}

(* An earlier session's summary: same policies, stopped with no events. *)
MCEarlierSummary ==
  LET types == <<"monitor-start", "policy-loaded", "workload-target-bound",
                 "monitor-stop">>
      h     == [i \in 1 .. 4 |->
                  SyntheticHash("s0", i, types[i], Reason(types[i]))]
  IN  [session |-> "s0", workload |-> {"shop"}, mode |-> "scoped",
       policyHash |-> "policy", status |-> "passed", markers |-> {},
       counts |-> [ZeroCounts EXCEPT !["synthetic"] = 4], dropped |-> 0,
       head |-> h, finalDigest |-> None, tpm |-> None]
=============================================================================
