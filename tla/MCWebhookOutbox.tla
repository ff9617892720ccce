--------------------------- MODULE MCWebhookOutbox ---------------------------
(* Model-checking instance of WebhookOutbox: workers are interchangeable. *)
EXTENDS WebhookOutbox, TLC

Symmetry == Permutations(Workers)
=============================================================================
