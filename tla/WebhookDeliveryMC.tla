-------------------------- MODULE WebhookDeliveryMC --------------------------
(* Small instances of WebhookDelivery. *)
EXTENDS WebhookDelivery, TLC

CONSTANTS v1, e1

ListensOne == v1 :> {e1}
=============================================================================
