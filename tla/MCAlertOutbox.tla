--------------------------- MODULE MCAlertOutbox ---------------------------
(* Small instances of AlertOutbox. *)
EXTENDS AlertOutbox
CONSTANTS modelA, email
=============================================================================
