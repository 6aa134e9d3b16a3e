-------------------------- MODULE NodeTermination ---------------------------
(***************************************************************************)
(* The node termination controller: Finalize of a node that is being       *)
(* deleted.  It deletes the machines with the node's provider ID, cordons  *)
(* and drains the node, deletes the agent pool and removes the finalizer.  *)
(*                                                                         *)
(*   idle -> drained -> poll -> (node gone)                                *)
(***************************************************************************)
EXTENDS Cluster

CONSTANT Undrainable    \* pools whose nodes run pods that cannot be evicted

ASSUME UndrainableAssumption == Undrainable \subseteq Names

VARIABLE nt     \* the finalization of each node

NtStates == [at: {"idle", "drained", "poll"}, gen: IDs]
NtIdle   == [at |-> "idle", gen |-> 0]

NodeTerminationTypeOK == nt \in [Names -> [Gens -> NtStates]]
NodeTerminationInit   == nt = [m \in Names |-> [g \in Gens |-> NtIdle]]

FinalizingNode(m, g) ==
    nt[m][g].at = "idle" /\ node[m][g].there /\ node[m][g].del

\* deleteAllMachines: the machine whose status has the node's provider ID.
DeleteAllMachines(m, g) ==
    machine' = [machine EXCEPT ![m] = IF @.pid = g THEN Deleted(@) ELSE @]

NtDrain(m, g) ==
    /\ FinalizingNode(m, g) /\ m \notin Undrainable
    /\ DeleteAllMachines(m, g)
    /\ nt' = [nt EXCEPT ![m][g].at = "drained"]
    /\ UNCHANGED <<node, pool, faults>>

\* Pods are left.  Finalize then asks the provider for the instance, which never
\* answers MachineNotFoundError, so the finalizer stays and Finalize is retried.
NtNotDrained(m, g) ==
    /\ FinalizingNode(m, g)
    /\ DeleteAllMachines(m, g)
    /\ UNCHANGED <<node, pool, faults, nt>>

NtDelete(m, g) ==
    /\ nt[m][g].at = "drained"
    /\ BeginDelete(m)
    /\ nt' = [nt EXCEPT ![m][g] = [at |-> "poll", gen |-> pool[m].gen]]
    /\ UNCHANGED <<machine, node, faults>>

\* The pool is gone, at once or when the poller returns: removeFinalizer.
NtRemove(m, g) ==
    /\ \/ nt[m][g].at = "drained" /\ pool[m].st = "absent"
       \/ nt[m][g].at = "poll" /\ DeletePolled(m, nt[m][g].gen)
    /\ node' = [node EXCEPT ![m][g] = NoNode]
    /\ nt' = [nt EXCEPT ![m][g] = NtIdle]
    /\ UNCHANGED <<machine, pool, faults>>

\* DELETE or its poller returns an error: Finalize is retried.
NtDeleteFails(m, g) ==
    /\ nt[m][g].at \in {"drained", "poll"}
    /\ nt' = [nt EXCEPT ![m][g] = NtIdle]
    /\ UNCHANGED clusterVars

NodeTermination(m, g) ==
    \/ NtDrain(m, g) \/ NtNotDrained(m, g)
    \/ NtDelete(m, g) \/ NtRemove(m, g) \/ NtDeleteFails(m, g)
=============================================================================
