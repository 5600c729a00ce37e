-------------------------- MODULE WebhookDeliveryMC --------------------------
(* One endpoint, the workers that deliver to it, and an operator.           *)
EXTENDS WebhookDelivery, TLC
=============================================================================
