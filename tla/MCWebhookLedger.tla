--------------------------- MODULE MCWebhookLedger ---------------------------
(* Instances of WebhookLedger for TLC.  The kinds are interchangeable.     *)
EXTENDS WebhookLedger, TLC

KindSymmetry == Permutations(Kinds)
=============================================================================
