--------------------------- MODULE MCCredential ---------------------------
(* The instance of Credential: see the configuration. *)
EXTENDS Credential
=============================================================================
