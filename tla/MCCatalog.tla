--------------------------- MODULE MCCatalog ---------------------------
(* The instance of Catalog: see the configuration. *)
EXTENDS Catalog
=============================================================================
