------------------------- MODULE GarbageCollection --------------------------
(***************************************************************************)
(* The garbage collection controller, every two minutes: reconcileMachines *)
(* (forced removal of finalizers, heartbeats, deletion of machines that    *)
(* were not ready for too long) and reconcileNodes.                        *)
(*                                                                         *)
(* A pass lists the machines, then the instances of the cloud, then treats *)
(* all machines in parallel.  What it does to one machine depends on no    *)
(* other, so the pass is modelled machine by machine:                      *)
(*                                                                         *)
(*   idle -> listed -> (force | beat -> doomed)                            *)
(***************************************************************************)
EXTENDS Cluster

VARIABLE gc     \* the pass over each machine: what it read, what it will write

GcStates == [at: {"idle", "listed", "force", "beat", "doomed"},
             overdue: BOOLEAN, pid: IDs, stored: Conds, updated: Conds]
GcIdle   == [at |-> "idle", overdue |-> FALSE, pid |-> NoID,
             stored |-> NoConds, updated |-> NoConds]

GarbageCollectionTypeOK == gc \in [Names -> GcStates]
GarbageCollectionInit   == gc = [m \in Names |-> GcIdle]

\* Variant: machines that are being deleted are filtered out.
GcListLive(m) ==
    LET o == machine[m] IN
    /\ gc[m].at = "idle" /\ Present(m)
    /\ o.del = "no" /\ o.cond.launched = "True"
    /\ gc' = [gc EXCEPT ![m] = [at |-> "listed", overdue |-> FALSE, pid |-> o.pid,
                                stored |-> o.cond, updated |-> NoConds]]
    /\ UNCHANGED clusterVars

\* List of the machines; only these two kinds are looked at.
GcList(m) ==
    LET o == machine[m] IN
    /\ gc[m].at = "idle" /\ Present(m)
    /\ \/ /\ o.del = "overdue"
          /\ gc' = [gc EXCEPT ![m] = [GcIdle EXCEPT !.at = "listed", !.overdue = TRUE]]
       \/ /\ o.del = "no" /\ o.cond.launched = "True"
          /\ gc' = [gc EXCEPT ![m] = [at |-> "listed", overdue |-> FALSE, pid |-> o.pid,
                                      stored |-> o.cond, updated |-> NoConds]]
    /\ UNCHANGED clusterVars

\* The provider's List: pools whose node is Ready, at a later time.
Listed(m, g) == pool[m].st # "absent" /\ g \in InstanceIDs(m) \ {NoID}

NotReadyForLong(c) == c.ready # "True" /\ c.readyOld

\* The heartbeat of a machine with the conditions u: without a change of the list
\* only the annotation is written, which nobody reads.
Beat(m, u) ==
    gc' = [gc EXCEPT ![m] = IF u # @.stored \/ NotReadyForLong(u)
                            THEN [@ EXCEPT !.at = "beat", !.updated = u] ELSE GcIdle]

GcCloudList(m) ==
    /\ gc[m].at = "listed"
    /\ \/ /\ gc[m].overdue
          /\ gc' = [gc EXCEPT ![m].at = "force"]
       \/ /\ ~gc[m].overdue /\ Listed(m, gc[m].pid)
          /\ Beat(m, MarkReady(gc[m].stored))
       \/ /\ ~gc[m].overdue
          /\ \/ pool[m].st = "absent"
             \/ \E g \in InstanceIDs(m) : g # gc[m].pid
          /\ Beat(m, MarkNotReady(gc[m].stored))
    /\ UNCHANGED clusterVars

\* One instance that cannot be described, or no pool at all, fails the whole List.
GcCloudListFails(m) ==
    /\ gc[m].at = "listed"
    /\ gc' = [gc EXCEPT ![m] = GcIdle]
    /\ UNCHANGED clusterVars

\* batchDeleteMachines with removeFinalizer.
GcForce(m) ==
    /\ gc[m].at = "force"
    /\ machine' = IF Present(m) THEN [machine EXCEPT ![m] = Blank("forced")] ELSE machine
    /\ gc' = [gc EXCEPT ![m] = GcIdle]
    /\ UNCHANGED <<node, pool, faults>>

\* The two patches: heartbeat annotation, then the whole list of conditions if it
\* changed.
WriteBeat(m) ==
    /\ gc[m].at = "beat"
    /\ machine' = IF Present(m) /\ gc[m].updated # gc[m].stored
                  THEN [machine EXCEPT ![m].cond = Overwrite(@, gc[m].updated)]
                  ELSE machine
    /\ UNCHANGED <<node, pool, faults>>

GcBeat(m) ==
    /\ WriteBeat(m)
    /\ gc' = [gc EXCEPT ![m] = IF Present(m) /\ NotReadyForLong(gc[m].updated)
                               THEN [GcIdle EXCEPT !.at = "doomed"] ELSE GcIdle]

\* The workers append to deletedNotReadyMachines without a lock: an entry may be
\* overwritten by the one that another worker appends for its machine.
GcBeatRace(m) ==
    /\ WriteBeat(m)
    /\ Present(m) /\ NotReadyForLong(gc[m].updated)
    /\ gc' = [gc EXCEPT ![m] = GcIdle]

\* batchDeleteMachines without removeFinalizer.
GcDelete(m) ==
    /\ gc[m].at = "doomed"
    /\ machine' = [machine EXCEPT ![m] = Deleted(@)]
    /\ gc' = [gc EXCEPT ![m] = GcIdle]
    /\ UNCHANGED <<node, pool, faults>>

\* Variant: Ready nodes are kept.
GcNodeNotReady(m, g) ==
    /\ node[m][g].there /\ ~node[m][g].del /\ ~Present(m) /\ ~node[m][g].ready
    /\ node' = [node EXCEPT ![m][g] = DeletedNode(@)]
    /\ UNCHANGED <<machine, pool, faults, gc>>

\* reconcileNodes: nodes of a pool whose machine does not exist.
GcNode(m, g) ==
    /\ node[m][g].there /\ ~node[m][g].del /\ ~Present(m)
    /\ node' = [node EXCEPT ![m][g] = DeletedNode(@)]
    /\ UNCHANGED <<machine, pool, faults, gc>>

GarbageCollection(m) ==
    \/ GcList(m) \/ GcCloudList(m) \/ GcCloudListFails(m)
    \/ GcForce(m) \/ GcBeat(m) \/ GcBeatRace(m) \/ GcDelete(m)
    \/ \E g \in Gens : GcNode(m, g)
=============================================================================
