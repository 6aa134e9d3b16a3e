----------------------------- MODULE MCStartup ------------------------------
(* Startup has no constants: the environments it quantifies over are all there are. *)
EXTENDS Startup
=============================================================================
