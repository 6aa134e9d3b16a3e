--------------------------- MODULE GpuProvisioner ---------------------------
(***************************************************************************)
(* gpu-provisioner: the four controllers that move machines, nodes and     *)
(* agent pools, running in one process on the shared cluster.              *)
(***************************************************************************)
EXTENDS Lifecycle, MachineTermination, NodeTermination, GarbageCollection

vars == <<clusterVars, lc, cache, mt, nt, gc>>

TypeOK ==
    /\ ClusterTypeOK
    /\ LifecycleTypeOK
    /\ MachineTerminationTypeOK
    /\ NodeTerminationTypeOK
    /\ GarbageCollectionTypeOK

Init ==
    /\ ClusterInit
    /\ LifecycleInit
    /\ MachineTerminationInit
    /\ NodeTerminationInit
    /\ GarbageCollectionInit

\* The process stops and is started again: reconciliations and the launch cache
\* are lost, what AKS and the API server hold stays.
Crash ==
    /\ Fault
    /\ lc' = [m \in Names |-> LcIdle]
    /\ cache' = [m \in Names |-> NoID]
    /\ mt' = [m \in Names |-> MtIdle]
    /\ nt' = [m \in Names |-> [g \in Gens |-> NtIdle]]
    /\ gc' = [m \in Names |-> GcIdle]
    /\ UNCHANGED <<machine, node, pool>>

Next ==
    \/ \E m \in Names :
         \/ Environment(m) /\ UNCHANGED <<lc, cache, mt, nt, gc>>
         \/ Lifecycle(m) /\ UNCHANGED <<mt, nt, gc>>
         \/ MachineTermination(m) /\ UNCHANGED <<lc, cache, nt, gc>>
         \/ GarbageCollection(m) /\ UNCHANGED <<lc, cache, mt, nt>>
         \/ \E g \in Gens : NodeTermination(m, g) /\ UNCHANGED <<lc, cache, mt, gc>>
    \/ Crash

Spec == Init /\ [][Next]_vars


\* The fairness of the parts that a liveness property needs, machine by machine.
\* Weak fairness of steps that the work queue or the two-minute period repeat, of
\* operations that AKS has accepted, and of the clock; strong fairness where a
\* step may fail and is tried again: the cloud's List, AKS's DELETE, the drain of a
\* node and the racy append do not fail forever.
ClockFairness(m) ==
    /\ WF_vars(DeletionOverdue(m) /\ UNCHANGED <<lc, cache, mt, nt, gc>>)
    /\ WF_vars(RegistrationExpires(m) /\ UNCHANGED <<lc, cache, mt, nt, gc>>)
    /\ WF_vars(NotReadyTooLong(m) /\ UNCHANGED <<lc, cache, mt, nt, gc>>)

CloudFairness(m) ==
    WF_vars((CreateEnds(m) \/ DeleteEnds(m)) /\ UNCHANGED <<lc, cache, mt, nt, gc>>)

CollectorFairness(m) ==
    /\ WF_vars((GcList(m) \/ GcForce(m) \/ GcDelete(m)) /\ UNCHANGED <<lc, cache, mt, nt>>)
    /\ SF_vars(GcCloudList(m) /\ UNCHANGED <<lc, cache, mt, nt>>)
    /\ SF_vars(GcBeat(m) /\ UNCHANGED <<lc, cache, mt, nt>>)
    /\ \A g \in Gens : WF_vars(GcNode(m, g) /\ UNCHANGED <<lc, cache, mt, nt>>)

LifecycleFairness(m) ==
    WF_vars((\/ LcStart(m) \/ InformerSync(m) \/ LcCreateRefused(m) \/ LcCreate(m)
             \/ LcPoll(m) \/ LcNodeFound(m) \/ LcNodeTimeout(m) \/ LcGet(m)
             \/ LcRegister(m) \/ LcPatch(m) \/ LcStatus(m)) /\ UNCHANGED <<mt, nt, gc>>)

NodeTerminationFairness(m) ==
    \A g \in Gens :
        /\ SF_vars(NtDrain(m, g) /\ UNCHANGED <<lc, cache, mt, gc>>)
        /\ SF_vars(NtDelete(m, g) /\ UNCHANGED <<lc, cache, mt, gc>>)
        /\ SF_vars(NtRemove(m, g) /\ UNCHANGED <<lc, cache, mt, gc>>)

Fairness ==
    \A m \in Names :
        /\ ClockFairness(m) /\ CloudFairness(m) /\ CollectorFairness(m)
        /\ LifecycleFairness(m) /\ NodeTerminationFairness(m)

FairSpec == Spec /\ Fairness

-----------------------------------------------------------------------------
(* Safety. *)

\* The finalizer is on the machine before the first request for its agent pool
\* leaves the program, and stays there as long as the machine exists: deleting
\* a machine can not bypass Finalize and leave its pool behind.
FinalizerGuardsPool ==
    \A m \in Names :
        (Present(m) /\ ~machine[m].fin) =>
            /\ pool[m].gen = 0
            /\ lc[m].at = "idle"

\* Finalize never lets go of a machine while its pool exists, and nobody creates
\* the pool again afterwards: whatever reconciliation was under way when the
\* machine was deleted, and whether its copy of the machine was current or not.
CleanExit ==
    \A m \in Names :
        machine[m].phase = "finalized" =>
            /\ pool[m].st = "absent"
            /\ lc[m].at \notin {"create", "poll"}

\* Once the machine has a provider ID, it is also linked to it, although the two
\* are written by separate patches between which the process may stop.
LinkedBeforeLaunched ==
    \A m \in Names :
        Present(m) =>
            /\ machine[m].pid # NoID => machine[m].link = machine[m].pid
            /\ machine[m].cond.launched = "True" <=> machine[m].pid # NoID

\* The two writers of the list of conditions, which overwrite each other's
\* updates, never leave a list that says Ready while a dependent is not True.
ReadyMeansReady ==
    \A m \in Names :
        machine[m].cond.ready = "True" => AllTrue(machine[m].cond)

\* The node of a registered machine can only disappear through the finalization
\* of the node, which drains it and deletes the pool.
RegisteredNodeIsGuarded ==
    \A m \in Names :
        LET o == machine[m] IN
        (Present(m) /\ o.cond.registered = "True" /\ node[m][o.pid].there)
            => node[m][o.pid].fin

\* A machine that has its provider ID never asks for another pool, neither from a
\* copy that is older than the ID nor after a restart without the launch cache.
OnePoolPerMachine ==
    [][\A m \in Names :
         pool'[m].gen # pool[m].gen => machine[m].pid = NoID]_vars

-----------------------------------------------------------------------------
(* What the program promises, and that it keeps the promise. *)

OwnPhase(p) ==
    CASE p = "none"    -> "none"
      [] p = "present" -> "owned"
      [] p \in {"finalized", "unguarded"} -> "released"
      [] p \in {"abandoned", "forced"}    -> "abandoned"

Own == INSTANCE Ownership WITH
    phase <- [m \in Names |-> OwnPhase(machine[m].phase)],
    pools <- {m \in Names : pool[m].st # "absent"},
    bound <- {m \in Names : machine[m].pid # NoID}

\* The four controllers together implement the contract of Ownership: every step of
\* any of them, of the environment or of a restart is a step of the contract or
\* leaves machines, pools and instances alone.
ImplementsOwnership == Own!OwnSpec

-----------------------------------------------------------------------------
(* Liveness. *)

\* A machine that is being deleted goes away, in the worst case by the collector's
\* forced removal of the finalizer, whatever the other controllers do.
DeletionCompletes ==
    \A m \in Names : (Present(m) /\ machine[m].del # "no") ~> ~Present(m)

\* A machine does not stay without an instance for ever: it is launched or, once
\* registrationTTL has passed, deleted.
LaunchedOrDeleted ==
    \A m \in Names :
        Live(m) ~> (machine[m].cond.launched = "True" \/ ~Live(m))

\* A launched machine whose pool is gone is noticed by the missing heartbeat and
\* deleted.
LostPoolIsNoticed ==
    \A m \in Names :
        (Live(m) /\ machine[m].cond.launched = "True" /\ pool[m].st = "absent")
            ~> ~Live(m)

\* The pool of a machine that no longer exists is deleted, if its node had been
\* registered: the collector deletes the node and the node's finalization the pool.
GuardedOrphanIsCollected ==
    \A m \in Names :
        (/\ machine[m].phase = "forced"
         /\ pool[m].st = "up"
         /\ \E g \in Gens : g = pool[m].gen /\ node[m][g].fin)
            ~> pool[m].st = "absent"

\* The collector may write back a list of conditions that it read before the
\* machine was registered, and undo the registration, even several times.  While
\* machine and node stay, the machine is registered again every time.
RegistrationHeals ==
    \A m \in Names :
        LET o == machine[m] IN
        <>[](/\ Live(m) /\ o.cond.launched = "True"
             /\ node[m][o.pid].there)
            => []<>(o.cond.registered = "True")

\* "The node gc will cover any problems caused by this force deletion": the pool of
\* a machine that the collector removed by force is deleted.
ForcedRemovalIsCovered ==
    \A m \in Names :
        (machine[m].phase = "forced" /\ pool[m].st = "up") ~> pool[m].st = "absent"

\* "If the underlying machine no longer exists", Finalize of a node that cannot be
\* drained removes the finalizer: the node does not outlive its instance for ever.
VanishedInstanceFreesNode ==
    \A m \in Names : \A g \in Gens :
        (node[m][g].del /\ pool[m].st = "absent") ~> ~node[m][g].there
=============================================================================
