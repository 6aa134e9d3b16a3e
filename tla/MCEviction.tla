----------------------------- MODULE MCEviction -----------------------------
(* Two pods: one of each kind that is evicted.  The critical one may be bound just *)
(* before a list.                                                                  *)
EXTENDS Eviction

MCPods == {"web", "dns"}
MCKind == [web |-> "plain", dns |-> "critical"]
=============================================================================
