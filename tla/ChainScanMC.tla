----------------------------- MODULE ChainScanMC -----------------------------
(* Small instances of ChainScan. *)
EXTENDS ChainScan, TLC

CONSTANTS b, e, xb, xt, xe

MatchesEach == b :> {xb} @@ e :> {xt, xe}
RequiredEach == b :> 1 @@ e :> 2
TipEach == "bitcoin" :> 2 @@ "ethereum" :> 6
=============================================================================
