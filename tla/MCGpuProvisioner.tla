-------------------------- MODULE MCGpuProvisioner --------------------------
(* Instances of GpuProvisioner for TLC. *)
EXTENDS GpuProvisioner

\* Every machine is launched on its first pool, and its node either registered or
\* about to be registered again after a failed patch: two states that Spec reaches.
ReadyConds ==
    [launched |-> "True", registered |-> "True", initialized |-> "True",
     ready |-> "True", regOld |-> FALSE, readyOld |-> FALSE]

UnregisteredConds == RecomputeHappiness([ReadyConds EXCEPT !.registered = "Nil"])

LaunchedInit ==
    \E synced \in BOOLEAN :
        /\ machine = [m \in Names |->
                        [phase |-> "present", fin |-> TRUE, del |-> "no",
                         pid |-> 1, link |-> 1,
                         cond |-> IF synced THEN ReadyConds ELSE UnregisteredConds]]
        /\ node = [m \in Names |->
                     [g \in Gens |-> IF g = 1 THEN [there |-> TRUE, ready |-> TRUE,
                                                    fin |-> synced, del |-> FALSE]
                                     ELSE NoNode]]
        /\ pool = [m \in Names |-> [st |-> "up", gen |-> 1]]
        /\ faults = 0
        /\ LifecycleInit
        /\ MachineTerminationInit
        /\ NodeTerminationInit
        /\ GarbageCollectionInit

LaunchedSpec == LaunchedInit /\ [][Next]_vars /\ Fairness
=============================================================================
