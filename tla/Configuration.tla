---------------------------- MODULE Configuration ----------------------------
(***************************************************************************)
(* The rules a collector config and its runtime policies must satisfy,     *)
(* written twice: in the monitor (main.rs and tpm.rs), which refuses to    *)
(* start, and in the verifier, which refuses the evidence.                 *)
(*                                                                         *)
(* A policy is a record [workload, rest, attestation]; `rest` is all that  *)
(* classifies events. The fields of attestation are those of               *)
(* AttestationPolicy that concern the TPM.                                 *)
(***************************************************************************)
EXTENDS Naturals, Sequences, FiniteSets, Functions

CONSTANTS
  None,       \* an optional field that is not set
  Normal,     \* Normal[s]: s trimmed, in lower case
  IdSet,      \* IdSet[s]: the trimmed, non-empty parts of s between commas
  NonceOf,    \* NonceOf[s]: the 64 hex digits of s in lower case, or None
  TrimStart,  \* TrimStart[p]: path component p without leading white space,
              \* "/" when nothing is left of it
  MaxPcr      \* MAX_PCR_INDEX

ClassNames == {"acceptable", "suspicious", "denied"}
TpmModes   == {"final-summary", "policy-triggered"}

Blank(s) == Normal[s] = ""

Normalized(seq) == [i \in DOMAIN seq |-> Normal[seq[i]]]

-----------------------------------------------------------------------------
(* The monitor: TpmConfig::from_policy_and_local_options.                  *)
ValidMode(mode, backend) ==
  /\ mode # "software-chain"
  /\ backend = "software-chain" => mode = ""
  /\ backend = "tpm" => mode \in TpmModes

ValidExtendOn(extendOn, mode, backend) ==
  /\ Range(extendOn) \subseteq ClassNames
  /\ IsInjective(extendOn)
  /\ extendOn # <<>> <=> backend = "tpm" /\ mode = "policy-triggered"

ValidHashBank(bank) == bank = None \/ Normal[bank] = "sha256"

ValidPcr(pcr) == pcr # None /\ pcr <= MaxPcr

TpmConfigAccepts(a) ==
  LET backend == Normal[a.backend]
  IN  /\ backend \in {"software-chain", "tpm"}
      /\ ValidMode(Normal[a.mode], backend)
      /\ ValidExtendOn(Normalized(a.extendOn), Normal[a.mode], backend)
      /\ backend = "tpm" => ValidHashBank(a.bank) /\ ValidPcr(a.pcr)

DefaultHashBank(bank) ==
  IF bank = None \/ Blank(bank) THEN "sha256" ELSE Normal[bank]

TpmConfig(a, reset) ==
  LET enabled == Normal[a.backend] = "tpm"
  IN  [enabled    |-> enabled,
       bank       |-> DefaultHashBank(a.bank),
       pcr        |-> IF enabled THEN a.pcr ELSE None,
       reset      |-> reset,
       extendOn   |-> Range(Normalized(a.extendOn)),
       failClosed |-> IF a.failOnTpmError = None THEN enabled
                      ELSE a.failOnTpmError]

(* should_extend_classification: extendOn is empty in the other mode. *)
ShouldExtend(config, class) == config.enabled /\ class \in config.extendOn

PcrSelection(bank, pcr) == <<bank, pcr>>

-----------------------------------------------------------------------------
(* validate_collector_config. Duplicates are found by the raw string. *)
ValidCollectorConfig(c) ==
  /\ c.workloads # <<>>
  /\ \A i \in DOMAIN c.workloads :
       ~Blank(c.workloads[i].id) /\ ~Blank(c.workloads[i].container)
  /\ IsInjective([i \in DOMAIN c.workloads |-> c.workloads[i].id])
  /\ IsInjective([i \in DOMAIN c.workloads |-> c.workloads[i].container])

(* workload_summary_id, as the ids that stand in it. *)
SummaryIds(workloads, hostWide) ==
  IF hostWide THEN {"host-wide"}
  ELSE UNION {IdSet[workloads[i].id] : i \in DOMAIN workloads}

(* Mutant: ".." is not looked for. *)
RelativePath(path) == path # <<>> /\ path[1] \notin {"/", "."}

(* validate_safe_relative_path; a "." inside a path is no component. *)
SafeRelativePath(path) ==
  path # <<>> /\ path[1] \notin {"/", "."} /\ ".." \notin Range(path)

(* configure_tpm_quote: the outcome, None for an error. *)
QuoteConfig(q, config) ==
  LET outDir == IF q.outDir = None THEN <<"tpm_quote">> ELSE q.outDir
  IN  IF ~q.enabled THEN [enabled |-> FALSE]
      ELSE IF /\ config.enabled
              /\ q.nonce # None /\ NonceOf[q.nonce] # None
              /\ q.akContext \notin {None, ""}
              /\ q.akPublic \notin {None, ""}
              /\ SafeRelativePath(outDir)
      THEN [enabled |-> TRUE, nonce |-> NonceOf[q.nonce], outDir |-> outDir]
      ELSE None

(* The files of a quote, relative to the summary: three written by         *)
(* tpm2_quote and the copy of the AK's public key.                         *)
QuoteFiles == {"quote.msg", "quote.sig", "quote.pcrs", "akpub.pem"}

(* The TpmQuoteSummary a session with quote q and TPM config t will write. *)
QuoteSummary(q, t) ==
  [nonce     |-> q.nonce,
   selection |-> PcrSelection(t.bank, t.pcr),
   paths     |-> [f \in QuoteFiles |-> Append(q.outDir, f)]]

-----------------------------------------------------------------------------
(* Mutant: the verifier takes the names of the classes as they are. *)
RawExtendOn(a) == Range(a.extendOn) \intersect ClassNames

(* The verifier: the classes it expects to be extended, unknown values     *)
(* left out (tpm_event_policy).                                            *)
ExpectedExtendOn(a) == Range(Normalized(a.extendOn)) \intersect ClassNames

(* tpm_event_policy reports no problem. *)
TpmEventPolicyAccepts(a) ==
  LET backend == Normal[a.backend]
      mode    == Normal[a.mode]
      triggered == backend = "tpm" /\ mode = "policy-triggered"
  IN  /\ backend \in {"software-chain", "tpm"}
      /\ mode # "software-chain"
      /\ backend = "software-chain" => mode = ""
      /\ backend = "tpm" => mode \in TpmModes
      /\ Range(Normalized(a.extendOn)) \subseteq ClassNames
      /\ IsInjective(Normalized(a.extendOn))
      /\ ExpectedExtendOn(a) # {} <=> triggered

(* The fields of summary.tpm that only repeat the policy. *)
TpmSummaryFieldsHold(a, bank, pcr) ==
  /\ Normal[a.backend] = "tpm"
  /\ bank = DefaultHashBank(a.bank) /\ bank = "sha256"
  /\ a.pcr = pcr /\ pcr <= 23

(* validate_summary_relative_path trims the string first. *)
Trimmed(path) ==
  IF path = <<>> THEN path ELSE <<TrimStart[path[1]]>> \o Tail(path)

SafeSummaryPath(path) ==
  path # <<>> /\ path[1] \notin {"/", "."} /\ ".." \notin Range(path)

ResolvesTo(path) ==
  IF SafeSummaryPath(Trimmed(path)) THEN Trimmed(path) ELSE None

(* validate_tpm_quote_summary: what tpm2_checkquote is asked about quote   *)
(* summary s beside a TPM summary with this bank and PCR; None when a      *)
(* field is refused.                                                       *)
QuoteRequest(s, bank, pcr) ==
  LET paths == [f \in QuoteFiles |-> ResolvesTo(s.paths[f])]
  IN  IF \/ NonceOf[s.nonce] = None
         \/ s.selection # PcrSelection(bank, pcr)
         \/ None \in Range(paths)
      THEN None
      ELSE [nonce     |-> NonceOf[s.nonce],
            selection |-> s.selection,
            paths     |-> paths]

(* expected_workload_ids. *)
ExpectedIds(policies) ==
  UNION {IdSet[policies[i].workload] : i \in DOMAIN policies}

(* Mutant: an event's workload must be the primary policy's. *)
EventOfPrimary(policies, hostWide, id) ==
  ExpectedIds(policies) = {} \/ hostWide \/ id = policies[1].workload

(* validate_summary_workload_identity, and of an event of workload id. *)
SummaryIdentityHolds(policies, ids) ==
  ExpectedIds(policies) = {} \/ ids = ExpectedIds(policies)

EventIdentityHolds(policies, hostWide, id) ==
  ExpectedIds(policies) = {} \/ hostWide \/ id \in ExpectedIds(policies)

(* load_runtime_policies, of policies already parsed. *)
LoadsPolicies(policies) ==
  IsInjective([i \in DOMAIN policies |-> policies[i].workload])

(* combined_policy_hash: the set, whatever its order. *)
CombinedHash(policies) == Range(policies)
=============================================================================
