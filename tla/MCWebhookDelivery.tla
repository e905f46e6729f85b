-------------------------- MODULE MCWebhookDelivery --------------------------
(* An instance of WebhookDelivery for TLC: a worker with two deliveries at once, and one
   with a single delivery. *)
EXTENDS WebhookDelivery, TLC

CONSTANTS w1, w2, r1, r2, r3

TwoAndOne == (r1 :> w1) @@ (r2 :> w1) @@ (r3 :> w2)
==============================================================================
