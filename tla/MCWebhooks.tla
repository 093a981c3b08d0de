----------------------------- MODULE MCWebhooks -----------------------------
(* Instances of Webhooks for TLC; every constant is given by the cfg.      *)
EXTENDS Webhooks
=============================================================================
