----------------------------- MODULE Ownership ------------------------------
(***************************************************************************)
(* What gpu-provisioner promises about agent pools, without saying how:    *)
(* a pool is made for a machine that exists and has no instance yet, and a *)
(* machine is let go without a pool.  A machine may also be abandoned      *)
(* (given up by force, or after a launch that cannot succeed), and then    *)
(* nothing is promised about its pool except that it belongs to no other.  *)
(***************************************************************************)
CONSTANT Names

VARIABLES
    phase,      \* "none", "owned", "released" or "abandoned"
    pools,      \* machines that have a pool
    bound       \* machines that have their instance

ownVars == <<phase, pools, bound>>

\* Machines may be there already.
OwnInit ==
    /\ phase \in [Names -> {"none", "owned"}]
    /\ pools = {} /\ bound = {}

Claim(m) ==
    /\ phase[m] = "none" /\ phase' = [phase EXCEPT ![m] = "owned"]
    /\ UNCHANGED <<pools, bound>>

Make(m) ==
    /\ phase[m] \in {"owned", "abandoned"} /\ m \notin pools \union bound
    /\ pools' = pools \union {m}
    /\ UNCHANGED <<phase, bound>>

Unmake(m) ==
    /\ pools' = pools \ {m}
    /\ UNCHANGED <<phase, bound>>

\* The instance of a machine is recorded once and for all.
BindInstance(m) ==
    /\ phase[m] = "owned" /\ bound' = bound \union {m}
    /\ UNCHANGED <<phase, pools>>

Release(m) ==
    /\ phase[m] = "owned" /\ m \notin pools
    /\ phase' = [phase EXCEPT ![m] = "released"]
    /\ bound' = bound \ {m}
    /\ UNCHANGED pools

Abandon(m) ==
    /\ phase[m] = "owned" /\ phase' = [phase EXCEPT ![m] = "abandoned"]
    /\ bound' = bound \ {m}
    /\ UNCHANGED pools

OwnNext ==
    \E m \in Names :
        Claim(m) \/ Make(m) \/ Unmake(m) \/ BindInstance(m) \/ Release(m) \/ Abandon(m)

OwnSpec == OwnInit /\ [][OwnNext]_ownVars
=============================================================================
