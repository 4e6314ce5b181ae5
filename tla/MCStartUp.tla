------------------------------ MODULE MCStartUp ------------------------------
(* Small instances of StartUp for TLC. *)
EXTENDS StartUp

CONSTANT Missing  \* a policy file that does not exist or does not parse

MCNormal ==
  [s \in {"", " ", "shop", "bank", " shop", "shop,bank", "web", "web-id", "db",
          "gone", "software-chain", "Software-Chain", "tpm", " TPM", "none",
          "final-summary", "Policy-Triggered", "denied", "Denied ",
          "suspicious", "all", "SHA256", "sha1"} |->
     CASE s = " " -> "" [] s = " shop" -> "shop"
       [] s = "Software-Chain" -> "software-chain" [] s = " TPM" -> "tpm"
       [] s = "Policy-Triggered" -> "policy-triggered"
       [] s = "Denied " -> "denied" [] s = "SHA256" -> "sha256"
       [] OTHER -> s]

MCIdSet ==
  [s \in {"", " ", "shop", "bank", " shop", "shop,bank"} |->
     CASE s \in {"", " "} -> {} [] s = "shop,bank" -> {"shop", "bank"}
       [] s = " shop" -> {"shop"} [] OTHER -> {s}]

MCNonceOf ==
  [s \in {"0xAB", "ab", "xyz"} |-> IF s = "xyz" THEN None ELSE "ab"]

MCTrimStart ==
  [s \in {"/", ".", "..", "d", "e", " d", " ", "tpm_quote"} |->
     CASE s = " d" -> "d" [] s = " " -> "/" [] OTHER -> s]

MCNamedBy ==
  [n \in {"web", "web-id", "db"} |-> IF n = "db" THEN "c2" ELSE "c1"]

Policy(workload, rest, attestation) ==
  [workload |-> workload, rest |-> rest, attestation |-> attestation]

Attestations ==
  [backend : {"software-chain", "Software-Chain", "tpm", " TPM", "none", ""},
   mode : {"", "final-summary", "Policy-Triggered", "software-chain"},
   extendOn : {<<>>, <<"Denied ">>, <<"denied", "Denied ">>,
               <<"suspicious", "denied">>, <<"all">>},
   pcr : {23}, bank : {None}, failOnTpmError : {None}]
  \union
  [backend : {"software-chain", " TPM"}, mode : {"", "final-summary"},
   extendOn : {<<>>}, pcr : {None, 0, 23, 24},
   bank : {None, "SHA256", "sha1", ""}, failOnTpmError : {None, FALSE}]

Software ==
  [backend |-> "software-chain", mode |-> "", extendOn |-> <<>>, pcr |-> None,
   bank |-> None, failOnTpmError |-> None]

Tpm ==
  [Software EXCEPT !.backend = "tpm", !.mode = "Policy-Triggered",
                   !.extendOn = <<"Denied ">>, !.pcr = 0,
                   !.failOnTpmError = FALSE]

MCDefault == Policy("", "rest", Software)
Shop      == Policy("shop", "rest", Software)
Shop2     == Policy("shop", "other", Software)
Bank      == Policy("bank", "rest", Software)
Both      == Policy("shop,bank", "rest", Software)
ShopTpm   == Policy("shop", "rest", Tpm)

(* A file is named by the policy it holds; one more file is a copy. *)
ShopCopy == Policy("shop", "copy", Software)

MCPolicyFile ==
  [p \in {MCDefault, Shop, ShopCopy, Shop2, Bank, Both, ShopTpm}
           \union {Policy("shop", "rest", a) : a \in Attestations} |->
     IF p = ShopCopy THEN Shop ELSE p]

NoQuote ==
  [enabled |-> FALSE, nonce |-> None, akContext |-> None, akPublic |-> None,
   outDir |-> None]

GoodQuote ==
  [enabled |-> TRUE, nonce |-> "0xAB", akContext |-> "ak", akPublic |-> "ak",
   outDir |-> None]

Workload(id, container, policy) ==
  [id |-> id, container |-> container, policy |-> policy]

Config(workloads, primary, quoteOptions) ==
  [workloads |-> workloads, evidenceOut |-> TRUE, primary |-> primary,
   hostWide |-> FALSE, captureArgv |-> TRUE, reset |-> FALSE,
   quote |-> quoteOptions]

OneShop == <<Workload("shop", "web", None)>>

(* Every policy of the sweep, with and without a quote; every quote; one   *)
(* workload and two, with names of one or two containers.                  *)
AttestationConfigs ==
  {Config(OneShop, Policy("shop", "rest", a), q) :
     a \in Attestations, q \in {NoQuote, GoodQuote}}

QuoteConfigs ==
  {Config(OneShop, ShopTpm, q) :
     q \in [enabled : {TRUE}, nonce : {None, "0xAB", "ab", "xyz"},
            akContext : {None, "", "ak"}, akPublic : {None, "", "ak"},
            outDir : {None, <<>>, <<"/", "d">>, <<"..", "d">>, <<"d", "..">>,
                      <<".", "d">>, <<" d">>, <<" ">>, <<"d", "e">>}]}

SingleConfigs ==
  {Config(<<Workload(id, name, policy)>>, primary, NoQuote) :
     id \in {"shop", " shop", "shop,bank", " "}, name \in {"web", "gone", " "},
     policy \in {None, Bank, Shop2, Missing},
     primary \in {None, Shop, Both, Missing}}

PairConfigs ==
  {Config(<<Workload(i1, n[1], p1), Workload(i2, n[2], p2)>>, primary, NoQuote) :
     i1 \in {"shop", " shop"}, i2 \in {"shop", "bank"},
     n \in {<<"web", "db">>, <<"web", "web-id">>, <<"web", "web">>},
     p1 \in {None, Shop, Shop2}, p2 \in {None, Shop, Bank},
     primary \in {None, Shop, Both}}

OtherConfigs ==
  {[Config(OneShop, Shop, NoQuote) EXCEPT !.evidenceOut = FALSE],
   [Config(OneShop, Shop, NoQuote) EXCEPT !.hostWide = TRUE,
                                          !.captureArgv = FALSE],
   Config(<<>>, Shop, NoQuote),
   Config(<<Workload("shop", "web", ShopCopy)>>, Shop, NoQuote),
   [Config(<<Workload("shop", "web", None), Workload("bank", "db", Bank),
             Workload(" shop", "web-id", None)>>, Shop, NoQuote)
      EXCEPT !.reset = TRUE]}

MCConfigs ==
  AttestationConfigs \union QuoteConfigs \union SingleConfigs
    \union PairConfigs \union OtherConfigs
=============================================================================
