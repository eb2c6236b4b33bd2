-------------------------- MODULE PaymentLifecycle --------------------------
(***************************************************************************)
(* What the platform promises about the status of a payment, without       *)
(* saying how it is tracked: the order in which the PaymentStatus values   *)
(* of payment.entity.ts may follow one another, and that a merchant is     *)
(* told of a confirmation at most once and only after it happened.         *)
(*                                                                         *)
(*     pending --> detected --> confirming --> confirmed                   *)
(*        |            |                                                   *)
(*        +------------+-----> expired                                     *)
(*                                                                         *)
(* A payment may skip detected and confirming: the monitor may first see   *)
(* its transaction when it is already in a block.                          *)
(***************************************************************************)
EXTENDS Naturals

CONSTANT Payments       \* payment ids

VARIABLES
    status,             \* status[p]: the payment's status, "none" before it exists
    confirmedEvents     \* confirmedEvents[p]: payment.confirmed events sent

vars == <<status, confirmedEvents>>

\* The values of PaymentStatus, and "none" for a payment not created yet.
Status == {"none", "pending", "detected", "confirming",
           "confirmed", "expired", "failed", "refunded"}

\* Statuses a payment rests in: nothing in the monitor moves it again.
Final == {"confirmed", "expired", "failed", "refunded"}

\* The statuses that may directly follow s.
Successors(s) ==
    CASE s = "none"       -> {"pending"}
      [] s = "pending"    -> {"detected", "confirming", "confirmed", "expired"}
      [] s = "detected"   -> {"confirming", "confirmed", "expired"}
      [] s = "confirming" -> {"confirmed"}
      [] s \in Final      -> {}

Init ==
    /\ status = [p \in Payments |-> "none"]
    /\ confirmedEvents = [p \in Payments |-> 0]

\* The payment moves on to a status that may follow the one it has.
Advance(p) ==
    /\ \E s \in Successors(status[p]) : status' = [status EXCEPT ![p] = s]
    /\ UNCHANGED confirmedEvents

\* The merchant is told, once, that a confirmed payment is confirmed.
Announce(p) ==
    /\ status[p] = "confirmed"
    /\ confirmedEvents[p] = 0
    /\ confirmedEvents' = [confirmedEvents EXCEPT ![p] = 1]
    /\ UNCHANGED status

Next == \E p \in Payments : Advance(p) \/ Announce(p)

Spec == Init /\ [][Next]_vars
=============================================================================
