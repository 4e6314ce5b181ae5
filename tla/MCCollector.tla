----------------------------- MODULE MCCollector -----------------------------
(* Small instances of Collector for TLC. *)
EXTENDS Collector, TLC

CONSTANTS t1, t2, t3

MCTask == {t1, t2, t3}

(* t3 runs outside the targeted container. *)
MCCgroupOf == t1 :> "shop" @@ t2 :> "shop" @@ t3 :> "other"

MCTargets == {"shop"}
=============================================================================
