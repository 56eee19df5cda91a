----------------------------- MODULE MCWebhook -----------------------------
(* Webhook on small instances: requests for the same and for other groups  *)
(* beside a queue that can be full.                                        *)
EXTENDS Webhook
=============================================================================
