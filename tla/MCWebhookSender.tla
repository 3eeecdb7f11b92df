--------------------------- MODULE MCWebhookSender --------------------------
(* Finite instances of WebhookSender: the constants are numbers and sets   *)
(* of strings, so the configurations give them directly.                   *)
EXTENDS WebhookSender
=============================================================================
