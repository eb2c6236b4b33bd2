---------------------------- MODULE SettlementsMC ----------------------------
(* Small instances of Settlements. *)
EXTENDS Settlements, TLC

CONSTANTS p1, p2, p3, b1, b2, b3

\* b1 and b2 ask for two locations; b3 for everything.
AskedApart == b1 :> {p1, p2} @@ b2 :> {p3} @@ b3 :> {p1, p2, p3}
=============================================================================
