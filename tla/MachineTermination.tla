------------------------- MODULE MachineTermination -------------------------
(***************************************************************************)
(* The machine termination controller: Finalize of a machine that is being *)
(* deleted.  It deletes the machine's nodes, waits until they are gone,    *)
(* deletes the agent pool, waits for AKS, and removes the finalizer.       *)
(*                                                                         *)
(*   idle -> delete -> poll -> remove        idle -> abandon               *)
(***************************************************************************)
EXTENDS Cluster

VARIABLE mt     \* the finalization of each machine

MtStates == [at: {"idle", "delete", "poll", "remove", "abandon"}, gen: IDs]
MtIdle   == [at |-> "idle", gen |-> 0]

MachineTerminationTypeOK == mt \in [Names -> MtStates]
MachineTerminationInit   == mt = [m \in Names |-> MtIdle]

\* The provider ID that AllNodesForMachine looks up.
NodeID(o) == IF o.pid # NoID THEN o.pid ELSE o.link

Finalizing(m) == mt[m].at = "idle" /\ Present(m) /\ machine[m].del # "no"

\* The machine has nodes: delete them and return.
MtDeleteNodes(m) ==
    LET g == NodeID(machine[m]) IN
    /\ Finalizing(m) /\ g # NoID
    /\ node[m][g].there /\ ~node[m][g].del
    /\ node' = [node EXCEPT ![m][g] = DeletedNode(@)]
    /\ UNCHANGED <<machine, pool, faults, mt>>

\* The machine has no nodes (any more).  A machine that is linked but has no
\* provider ID in its status stops here: Delete parses the empty ID and fails.
MtNoNodes(m) ==
    LET g == NodeID(machine[m]) IN
    /\ Finalizing(m) /\ g # NoID
    /\ ~node[m][g].there
    /\ machine[m].pid # NoID
    /\ mt' = [mt EXCEPT ![m].at = "delete"]
    /\ UNCHANGED clusterVars

\* A machine without provider ID is an error unless its launch failed for good.
MtNeverLaunched(m) ==
    /\ Finalizing(m) /\ NodeID(machine[m]) = NoID
    /\ machine[m].cond.launched = "Blocked"
    /\ mt' = [mt EXCEPT ![m].at = "abandon"]
    /\ UNCHANGED clusterVars

\* Variant: the operation of AKS is not awaited.
MtDeleteNoWait(m) ==
    /\ mt[m].at = "delete"
    /\ BeginDelete(m)
    /\ mt' = [mt EXCEPT ![m].at = "remove"]
    /\ UNCHANGED <<machine, node, faults>>

MtDelete(m) ==
    /\ mt[m].at = "delete"
    /\ BeginDelete(m)
    /\ mt' = [mt EXCEPT ![m] = [at |-> "poll", gen |-> pool[m].gen]]
    /\ UNCHANGED <<machine, node, faults>>

\* deleteAgentPool takes NotFound for success.
MtNotFound(m) ==
    /\ mt[m].at = "delete" /\ pool[m].st = "absent"
    /\ mt' = [mt EXCEPT ![m].at = "remove"]
    /\ UNCHANGED clusterVars

MtPoll(m) ==
    /\ mt[m].at = "poll" /\ DeletePolled(m, mt[m].gen)
    /\ mt' = [mt EXCEPT ![m] = [at |-> "remove", gen |-> 0]]
    /\ UNCHANGED clusterVars

\* DELETE or its poller returns another error: Finalize is retried.
MtDeleteFails(m) ==
    /\ mt[m].at \in {"delete", "poll"}
    /\ mt' = [mt EXCEPT ![m] = MtIdle]
    /\ UNCHANGED clusterVars

\* RemoveFinalizer and Patch; a machine that is gone already is ignored.
MtRemove(m) ==
    /\ mt[m].at \in {"remove", "abandon"}
    /\ machine' = IF Present(m)
                  THEN [machine EXCEPT ![m] =
                          Blank(IF mt[m].at = "remove" THEN "finalized" ELSE "abandoned")]
                  ELSE machine
    /\ mt' = [mt EXCEPT ![m] = MtIdle]
    /\ UNCHANGED <<node, pool, faults>>

MachineTermination(m) ==
    \/ MtDeleteNodes(m) \/ MtNoNodes(m) \/ MtNeverLaunched(m)
    \/ MtDelete(m) \/ MtNotFound(m) \/ MtPoll(m) \/ MtDeleteFails(m) \/ MtRemove(m)
=============================================================================
