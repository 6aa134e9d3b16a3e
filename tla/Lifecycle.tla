----------------------------- MODULE Lifecycle ------------------------------
(***************************************************************************)
(* The machine lifecycle controller.  One reconciliation per machine at a  *)
(* time (the work queue's guarantee); a reconciliation works on a copy of  *)
(* the machine read at its start, and writes the copy back at its end in   *)
(* two patches, first the metadata (the linked annotation), then the       *)
(* status (provider ID and the whole list of conditions).                  *)
(*                                                                         *)
(*   idle -> [get | create -> poll -> await] -> register -> patch -> status *)
(*                                                                         *)
(* "lagging" is idle while the informer has not yet delivered the status   *)
(* that the controller wrote last: the next reconciliation then starts     *)
(* from the same old copy.                                                 *)
(***************************************************************************)
EXTENDS Cluster

VARIABLES
    lc,         \* the reconciliation of each machine
    cache       \* the launch cache: provider ID of the created machine, NoID if none

Copies == [pid: IDs, link: IDs, cond: Conds]
NoCopy == [pid |-> NoID, link |-> NoID, cond |-> NoConds]

LcSteps == {"idle", "lagging", "get", "create", "poll", "await",
            "register", "patch", "status"}

LcStates == [at: LcSteps, stored: Copies, copy: Copies]
LcIdle   == [at |-> "idle", stored |-> NoCopy, copy |-> NoCopy]

LifecycleTypeOK ==
    /\ lc \in [Names -> LcStates]
    /\ cache \in [Names -> IDs]

LifecycleInit ==
    /\ lc = [m \in Names |-> LcIdle]
    /\ cache = [m \in Names |-> NoID]

-----------------------------------------------------------------------------
\* Variant: the linked annotation is forgotten.
WithDetailsUnlinked(copy, g) ==
    [pid |-> g, link |-> copy.link, cond |-> MarkLaunched(copy.cond)]

\* PopulateMachineDetails and MarkTrue(MachineLaunched).
WithDetails(copy, g) ==
    [pid |-> g, link |-> g, cond |-> MarkLaunched(copy.cond)]

\* Variant: no launch cache.
LaunchStepUncached(m, c) ==
    IF c.cond.launched = "True" THEN "register"
    ELSE IF c.link # NoID THEN "get"
    ELSE "create"

\* Where Launch.Reconcile goes with a copy of the machine.
LaunchStep(m, c) ==
    IF c.cond.launched = "True" \/ cache[m] # NoID THEN "register"
    ELSE IF c.link # NoID THEN "get"
    ELSE "create"

\* Reconcile up to the call of the cloud provider, from copy c.
Begin(m, c) ==
    lc' = [lc EXCEPT ![m] =
             [at |-> LaunchStep(m, c), stored |-> c,
              copy |-> IF c.cond.launched # "True" /\ cache[m] # NoID
                       THEN WithDetails(c, cache[m]) ELSE c]]

\* Variant: the TTL is applied to launched machines only.
ExpiredLaunched(c) ==
    c.cond.launched = "True" /\ c.cond.registered # "True" /\ c.cond.regOld

\* The machine did not register within registrationTTL.
Expired(c) == c.cond.registered # "True" /\ c.cond.regOld

\* Variant: node events are not watched, failed registrations not retried.
TriggeredByLaunch(m) ==
    LET o == machine[m] IN
    ~AllTrue(o.cond) /\ (o.cond.launched # "True" \/ Expired(o))

\* What puts a machine in the work queue: its creation and failed launches and
\* registrations (retried with backoff), events of its node, the end of the TTL.  With all
\* three conditions True a reconciliation changes nothing that is modelled.
Triggered(m) ==
    LET o == machine[m] IN
    /\ ~AllTrue(o.cond)
    /\ \/ o.cond.launched # "True" \/ o.cond.registered = "Nil"
       \/ o.pid # NoID /\ node[m][o.pid].there
       \/ Expired(o)

\* Variant: launches without adding the finalizer.
LcStartUnguarded(m) ==
    /\ lc[m].at = "idle" /\ Live(m) /\ Triggered(m)
    /\ Begin(m, [pid |-> machine[m].pid, link |-> machine[m].link,
                 cond |-> machine[m].cond])
    /\ UNCHANGED <<clusterVars, cache>>

\* Reconcile of a machine that is not being deleted; adds the finalizer.
LcStart(m) ==
    /\ lc[m].at = "idle" /\ Live(m) /\ Triggered(m)
    /\ Begin(m, [pid |-> machine[m].pid, link |-> machine[m].link,
                 cond |-> machine[m].cond])
    /\ machine' = [machine EXCEPT ![m].fin = TRUE]
    /\ UNCHANGED <<node, pool, faults, cache>>

\* The same, started before the informer has seen the last status patch.
LcStartStale(m) ==
    /\ lc[m].at = "lagging"
    /\ Begin(m, lc[m].stored)
    /\ UNCHANGED <<clusterVars, cache>>

InformerSync(m) ==
    /\ lc[m].at = "lagging"
    /\ lc' = [lc EXCEPT ![m] = LcIdle]
    /\ UNCHANGED <<clusterVars, cache>>

\* The launch cache expires one minute after the launch: by then the patches of
\* that reconciliation are done and the informer has delivered them.
LcCacheExpires(m) ==
    /\ cache[m] # NoID /\ lc[m].at = "idle"
    /\ cache' = [cache EXCEPT ![m] = NoID]
    /\ UNCHANGED <<clusterVars, lc>>

-----------------------------------------------------------------------------
(* Launch. *)

LaunchSucceeds(m, g) ==
    /\ cache' = [cache EXCEPT ![m] = g]
    /\ lc' = [lc EXCEPT ![m].at = "register", ![m].copy = WithDetails(@, g)]

LaunchFails(m) ==
    /\ \E v \in {"False", "Blocked"} :
         lc' = [lc EXCEPT ![m].at = "register",
                          ![m].copy.cond = MarkNotLaunched(@, v)]
    /\ UNCHANGED cache

LcCreate(m) ==
    /\ lc[m].at = "create"
    /\ BeginCreateOrUpdate(m)
    /\ lc' = [lc EXCEPT ![m].at = "poll"]
    /\ UNCHANGED <<machine, node, faults, cache>>

\* A bad name or no instance type, or AKS refuses the request.
LcCreateRefused(m) ==
    /\ lc[m].at = "create"
    /\ LaunchFails(m)
    /\ UNCHANGED clusterVars

\* PollUntilDone of the agent pool.
LcPoll(m) ==
    /\ lc[m].at = "poll" /\ pool[m].st # "creating"
    /\ IF pool[m].st = "up"
       THEN lc' = [lc EXCEPT ![m].at = "await"] /\ UNCHANGED cache
       ELSE LaunchFails(m)
    /\ UNCHANGED clusterVars

\* Create looks for the node of the pool, at most 15 more times.
LcNodeFound(m) ==
    /\ lc[m].at = "await"
    /\ \E g \in InstanceIDs(m) \ {NoID} : LaunchSucceeds(m, g)
    /\ UNCHANGED clusterVars

LcNodeTimeout(m) ==
    /\ lc[m].at = "await"
    /\ lc' = [lc EXCEPT ![m].at = "register",
                        ![m].copy.cond = MarkNotLaunched(@, "False")]
    /\ UNCHANGED <<clusterVars, cache>>

\* linkMachine: Get of the linked instance.  Get reports a pool or node that is
\* missing as an ordinary error, so the branch for MachineNotFoundError is dead.
LcGet(m) ==
    /\ lc[m].at = "get"
    /\ \/ /\ pool[m].st # "absent"
          /\ \E g \in InstanceIDs(m) \ {NoID} : LaunchSucceeds(m, g)
       \/ /\ lc' = [lc EXCEPT ![m].at = "register",
                              ![m].copy.cond = MarkNotLaunched(@, "False")]
          /\ UNCHANGED cache
    /\ UNCHANGED clusterVars

-----------------------------------------------------------------------------
(* Registration and initialization, both on the node with the copy's ID. *)

NodeFound(m, c) == c.pid # NoID /\ node[m][c.pid].there

Registration(m, c) ==
    IF c.cond.registered = "True" THEN c.cond
    ELSE IF c.cond.launched # "True" THEN MarkNotRegistered(c.cond, "NotLaunched")
    ELSE IF NodeFound(m, c) THEN MarkRegistered(c.cond)
    ELSE MarkNotRegistered(c.cond, "NodeNotFound")

\* The possible results of initialization on a copy with conditions cond: taints
\* and resources of the node decide between the last two.
Initialization(m, c, cond) ==
    IF cond.initialized = "True" THEN {cond}
    ELSE IF cond.launched # "True" \/ ~NodeFound(m, c)
         THEN {MarkNotInitialized(cond, "False")}
    ELSE IF ~node[m][c.pid].ready THEN {MarkNotInitialized(cond, "NotReady")}
    ELSE {MarkNotInitialized(cond, "False"), MarkInitialized(cond)}

\* Variant: only a Ready node is synced.
SyncsReadyNode(m, c) ==
    /\ c.cond.registered # "True" /\ c.cond.launched = "True" /\ NodeFound(m, c)
    /\ node[m][c.pid].ready

\* syncNode: the node gets the termination finalizer before the machine is
\* marked registered.
SyncsNode(m, c) ==
    c.cond.registered # "True" /\ c.cond.launched = "True" /\ NodeFound(m, c)

\* Reconcile goes on with liveness and patches, if they have anything to do.
ToPatch(m, cond) ==
    LET l == [lc[m] EXCEPT !.at = "patch", !.copy.cond = cond] IN
    lc' = [lc EXCEPT ![m] = IF l.copy # l.stored \/ Expired(l.copy) THEN l ELSE LcIdle]

LcRegister(m) ==
    LET c == lc[m].copy IN
    /\ lc[m].at = "register"
    /\ node' = IF SyncsNode(m, c) THEN [node EXCEPT ![m][c.pid].fin = TRUE] ELSE node
    /\ \E cond \in Initialization(m, c, Registration(m, c)) : ToPatch(m, cond)
    /\ UNCHANGED <<machine, pool, faults, cache>>

\* The patch of the node fails: registration returns without touching conditions.
LcSyncFails(m) ==
    LET c == lc[m].copy IN
    /\ lc[m].at = "register" /\ SyncsNode(m, c)
    /\ \E cond \in Initialization(m, c, c.cond) : ToPatch(m, cond)
    /\ Fault
    /\ UNCHANGED <<machine, node, pool, cache>>

-----------------------------------------------------------------------------
(* Liveness and the two patches. *)

\* Liveness.Reconcile deletes a machine that did not register in time; then the
\* metadata patch, if the copy was changed at all.
LcPatch(m) ==
    LET c == lc[m].copy
        o == IF Expired(c) THEN Deleted(machine[m]) ELSE machine[m]
        wrote == c # lc[m].stored /\ Present(m)
    IN
    /\ lc[m].at = "patch"
    /\ machine' = [machine EXCEPT ![m] =
                     IF wrote /\ c.link # lc[m].stored.link
                     THEN [o EXCEPT !.link = c.link] ELSE o]
    /\ lc' = [lc EXCEPT ![m] = IF wrote THEN [@ EXCEPT !.at = "status"] ELSE LcIdle]
    /\ UNCHANGED <<node, pool, faults, cache>>

\* Variant: the status is applied, whether the machine still exists or not.
WriteStatusApply(m) ==
    /\ lc[m].at = "status"
    /\ machine' = [machine EXCEPT ![m].pid = lc[m].copy.pid, ![m].cond = lc[m].copy.cond]
    /\ UNCHANGED <<node, pool>>

\* The status patch carries what changed in the copy; conditions go as one list.
WriteStatus(m) ==
    LET c == lc[m].copy
        stored == lc[m].stored
        o == [machine[m] EXCEPT
                !.pid = IF c.pid # stored.pid THEN c.pid ELSE @,
                !.cond = IF c.cond # stored.cond THEN Overwrite(@, c.cond) ELSE @]
    IN
    /\ lc[m].at = "status"
    /\ machine' = IF Present(m) THEN [machine EXCEPT ![m] = o] ELSE machine
    /\ UNCHANGED <<node, pool>>

\* A machine that is known to be launched is not looked up in the cache again.
LcStatus(m) ==
    /\ WriteStatus(m)
    /\ lc' = [lc EXCEPT ![m] = LcIdle]
    /\ cache' = [cache EXCEPT ![m] = NoID]
    /\ UNCHANGED faults

\* The informer is slow to deliver a status that says the machine was launched.
LcStatusLag(m) ==
    /\ WriteStatus(m)
    /\ Present(m) /\ lc[m].copy.pid # lc[m].stored.pid
    /\ lc' = [lc EXCEPT ![m] = [LcIdle EXCEPT !.at = "lagging", !.stored = lc[m].stored]]
    /\ Fault
    /\ UNCHANGED cache

\* A patch fails: the reconciliation is retried from the start.
LcPatchFails(m) ==
    /\ lc[m].at \in {"patch", "status"}
    /\ lc' = [lc EXCEPT ![m] = LcIdle]
    /\ Fault
    /\ UNCHANGED <<machine, node, pool, cache>>

Lifecycle(m) ==
    \/ LcStart(m) \/ LcStartStale(m) \/ InformerSync(m) \/ LcCacheExpires(m)
    \/ LcCreate(m) \/ LcCreateRefused(m) \/ LcPoll(m)
    \/ LcNodeFound(m) \/ LcNodeTimeout(m) \/ LcGet(m)
    \/ LcRegister(m) \/ LcSyncFails(m)
    \/ LcPatch(m) \/ LcStatus(m) \/ LcStatusLag(m) \/ LcPatchFails(m)
=============================================================================
