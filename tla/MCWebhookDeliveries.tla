-------------------------- MODULE MCWebhookDeliveries --------------------------
(* Instances of WebhookDeliveries for TLC. *)
EXTENDS WebhookDeliveries, TLC

CONSTANTS h1, l1, c1

OneHandler == {h1}
OneLoop == {l1}
OneRecovery == {c1}
None == {}
================================================================================
