--------------------------- MODULE PaymentSystemMC ---------------------------
(* Small instances of PaymentSystem. *)
EXTENDS PaymentSystem, TLC

CONSTANTS p1, p2, i1, t1, x1, x2, b1, b2, s1, s2

HostSole == t1 :> i1

\* A live payment and a test payment, which only the sandbox pays.
MatchesLive == p1 :> {x1} @@ p2 :> {}
RequiredOne == p1 :> 1 @@ p2 :> 1

\* Both batches ask for all payments.
AskedBoth == b1 :> {p1, p2} @@ b2 :> {p1, p2}

Alike == Permutations({b1, b2})
=============================================================================
