-------------------------- MODULE PaymentMonitorMC --------------------------
(* Small instances of PaymentMonitor. *)
EXTENDS PaymentMonitor, TLC

CONSTANTS p1, p2, i1, t1, t2, x1, x2

\* Two slots for ticks on one instance, or one.
HostOne == t1 :> i1 @@ t2 :> i1
HostSole == t1 :> i1

\* One transaction has the address and the amount of both payments.
MatchesShared == p1 :> {x2} @@ p2 :> {x2}
MatchesOne == p1 :> {x1}

RequiredTwo == p1 :> 2 @@ p2 :> 1
RequiredOne == p1 :> 2
=============================================================================
