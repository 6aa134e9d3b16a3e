---------------------------- MODULE SafetyProofs ----------------------------
(***************************************************************************)
(* Proofs about GpuProvisioner, for every set of machines and all bounds:  *)
(* type correctness; the finalizer, the clean exit, the link and the       *)
(* single pool, from one inductive invariant; and that the controllers     *)
(* implement the contract of Ownership.                                    *)
(***************************************************************************)
EXTENDS GpuProvisioner, TLAPS

-----------------------------------------------------------------------------
(* What the operations on conditions do to the field launched. *)

\* Conditions marked True keep the other dependents; only MarkLaunched makes a
\* machine launched.
LEMMA MarkTrueFacts ==
    ASSUME NEW c \in Conds
    PROVE  /\ MarkLaunched(c) \in Conds /\ MarkLaunched(c).launched = "True"
           /\ MarkRegistered(c) \in Conds /\ MarkRegistered(c).launched = c.launched
           /\ MarkInitialized(c) \in Conds /\ MarkInitialized(c).launched = c.launched
           /\ MarkReady(c) \in Conds /\ MarkReady(c).launched = c.launched
  <1>1. ASSUME NEW d \in Conds, NEW v \in Ready
        PROVE  /\ SetReady(d, v) \in Conds /\ SetReady(d, v).launched = d.launched
    BY DEF SetReady, Conds
  <1>2. ASSUME NEW d \in Conds
        PROVE  /\ RecomputeHappiness(d) \in Conds /\ RecomputeHappiness(d).launched = d.launched
    BY <1>1 DEF RecomputeHappiness, Ready
  <1>3. /\ [c EXCEPT !.launched = "True"] \in Conds
        /\ [c EXCEPT !.launched = "True"].launched = "True"
    BY DEF Conds, Launched
  <1>4. /\ SetRegistered(c, "True") \in Conds /\ SetRegistered(c, "True").launched = c.launched
    BY DEF SetRegistered, Conds, Registered
  <1>5. /\ [c EXCEPT !.initialized = "True"] \in Conds
        /\ [c EXCEPT !.initialized = "True"].launched = c.launched
    BY DEF Conds, Initialized
  <1>6. "True" \in Ready
    BY DEF Ready
  <1>7. MarkLaunched(c) \in Conds /\ MarkLaunched(c).launched = "True"
    BY <1>2, <1>3 DEF MarkLaunched
  <1>8. MarkRegistered(c) \in Conds /\ MarkRegistered(c).launched = c.launched
    BY <1>2, <1>4 DEF MarkRegistered
  <1>9. MarkInitialized(c) \in Conds /\ MarkInitialized(c).launched = c.launched
    BY <1>2, <1>5 DEF MarkInitialized
  <1>10. MarkReady(c) \in Conds /\ MarkReady(c).launched = c.launched
    BY <1>1, <1>2, <1>6 DEF MarkReady
  <1> QED BY <1>7, <1>8, <1>9, <1>10

\* Marking a condition False.
LEMMA MarkFalseFacts ==
    ASSUME NEW c \in Conds
    PROVE  /\ \A v \in {"False", "Blocked"} :
                MarkNotLaunched(c, v) \in Conds /\ MarkNotLaunched(c, v).launched = v
           /\ \A v \in {"NotLaunched", "NodeNotFound"} :
                MarkNotRegistered(c, v) \in Conds
                /\ MarkNotRegistered(c, v).launched = c.launched
           /\ \A v \in {"False", "NotReady"} :
                MarkNotInitialized(c, v) \in Conds
                /\ MarkNotInitialized(c, v).launched = c.launched
           /\ MarkNotReady(c) \in Conds /\ MarkNotReady(c).launched = c.launched
  BY DEF MarkNotLaunched, MarkNotRegistered, MarkNotInitialized, MarkNotReady,
         SetReady, SetRegistered, Conds, Launched, Registered, Initialized, Ready

\* A patched list of conditions is the new list, up to the age of one entry.
LEMMA OverwriteFacts ==
    ASSUME NEW c \in Conds, NEW d \in Conds
    PROVE  Overwrite(c, d) \in Conds /\ Overwrite(c, d).launched = d.launched
  BY DEF Overwrite, Conds, Launched, Registered, Initialized, Ready

\* Deletion of machines and nodes.
LEMMA DeleteFacts ==
    /\ \A p \in Phases : Blank(p) \in MachineObjects
    /\ \A o \in MachineObjects : Deleted(o) \in MachineObjects
    /\ NoNode \in NodeObjects
    /\ \A n \in NodeObjects : DeletedNode(n) \in NodeObjects
  <1>1. NoID \in IDs
    BY BoundsAssumption DEF NoID, IDs
  <1>2. NoConds \in Conds
    BY DEF NoConds, Conds, Launched, Registered, Initialized, Ready
  <1>3. ASSUME NEW p \in Phases PROVE Blank(p) \in MachineObjects
    BY <1>1, <1>2 DEF Blank, MachineObjects
  <1>4. ASSUME NEW o \in MachineObjects PROVE Deleted(o) \in MachineObjects
    <2>1. Blank("unguarded") \in MachineObjects
      BY <1>3 DEF Phases
    <2>2. [o EXCEPT !.del = IF @ = "no" THEN "yes" ELSE @] \in MachineObjects
      BY DEF MachineObjects
    <2> QED BY <2>1, <2>2 DEF Deleted
  <1>5. NoNode \in NodeObjects
    BY DEF NoNode, NodeObjects
  <1>6. ASSUME NEW n \in NodeObjects PROVE DeletedNode(n) \in NodeObjects
    BY <1>5 DEF DeletedNode, NodeObjects
  <1> QED BY <1>3, <1>4, <1>5, <1>6

-----------------------------------------------------------------------------
(* Type correctness. *)

\* The objects are of the right type after a step of the environment.
LEMMA EnvironmentType ==
    ASSUME ClusterTypeOK, NEW m \in Names, Environment(m)
    PROVE  ClusterTypeOK'
  <1> USE DeleteFacts DEF ClusterTypeOK
  <1>0. machine[m] \in MachineObjects /\ pool[m] \in Pools /\ node[m] \in [Gens -> NodeObjects]
    OBVIOUS
  <1>1. CASE UserCreate(m)
    BY <1>1 DEF UserCreate, Phases
  <1>2. CASE UserDelete(m)
    BY <1>0, <1>2 DEF UserDelete
  <1>3. CASE PoolLost(m)
    <2>1. [pool[m] EXCEPT !.st = "absent"] \in Pools
      BY <1>0 DEF Pools
    <2>2. faults' \in 0..MaxFaults
      BY <1>3, BoundsAssumption DEF PoolLost, Fault
    <2> QED BY <1>3, <2>1, <2>2 DEF PoolLost
  <1>4. CASE CreateEnds(m)
    <2>1. \A st \in {"up", "failed"} : [pool[m] EXCEPT !.st = st] \in Pools
      BY <1>0 DEF Pools
    <2> QED BY <1>4, <2>1 DEF CreateEnds
  <1>5. CASE DeleteEnds(m)
    <2>1. [pool[m] EXCEPT !.st = "absent"] \in Pools
      BY <1>0 DEF Pools
    <2> QED BY <1>5, <2>1 DEF DeleteEnds
  <1>6. CASE NodeJoin(m)
    <2>1. [NoNode EXCEPT !.there = TRUE] \in NodeObjects
      BY DEF NodeObjects
    <2> QED BY <1>0, <1>6, <2>1 DEF NodeJoin
  <1>7. CASE DeletionOverdue(m)
    <2>1. [machine[m] EXCEPT !.del = "overdue"] \in MachineObjects
      BY <1>0 DEF MachineObjects
    <2> QED BY <1>7, <2>1 DEF DeletionOverdue
  <1>8. CASE RegistrationExpires(m)
    <2>1. [machine[m].cond EXCEPT !.regOld = TRUE] \in Conds
      BY <1>0 DEF MachineObjects, Conds
    <2>2. [machine[m] EXCEPT !.cond.regOld = TRUE] \in MachineObjects
      BY <1>0, <2>1 DEF MachineObjects
    <2> QED BY <1>8, <2>2 DEF RegistrationExpires
  <1>9. CASE NotReadyTooLong(m)
    <2>1. [machine[m].cond EXCEPT !.readyOld = TRUE] \in Conds
      BY <1>0 DEF MachineObjects, Conds
    <2>2. [machine[m] EXCEPT !.cond.readyOld = TRUE] \in MachineObjects
      BY <1>0, <2>1 DEF MachineObjects
    <2> QED BY <1>9, <2>2 DEF NotReadyTooLong
  <1>10. ASSUME NEW g \in Gens, UserDeleteNode(m, g) PROVE ClusterTypeOK'
    <2>1. faults' \in 0..MaxFaults
      BY <1>10, BoundsAssumption DEF UserDeleteNode, Fault
    <2> QED BY <1>0, <1>10, <2>1 DEF UserDeleteNode
  <1>11. ASSUME NEW g \in Gens, NodeReady(m, g) PROVE ClusterTypeOK'
    <2>1. [node[m][g] EXCEPT !.ready = TRUE] \in NodeObjects
      BY <1>0 DEF NodeObjects
    <2> QED BY <1>0, <1>11, <2>1 DEF NodeReady
  <1>12. ASSUME NEW g \in Gens, NodeNotReady(m, g) PROVE ClusterTypeOK'
    <2>1. [node[m][g] EXCEPT !.ready = FALSE] \in NodeObjects
      BY <1>0 DEF NodeObjects
    <2> QED BY <1>0, <1>12, <2>1 DEF NodeNotReady
  <1>13. ASSUME NEW g \in Gens, NodeLost(m, g) PROVE ClusterTypeOK'
    BY <1>0, <1>13 DEF NodeLost
  <1> QED
    BY <1>1, <1>2, <1>3, <1>4, <1>5, <1>6, <1>7, <1>8, <1>9, <1>10, <1>11, <1>12, <1>13
    DEF Environment, Clock

\* Provider IDs.
LEMMA IDFacts ==
    /\ NoID \in IDs /\ Gens \subseteq IDs
    /\ \A i \in IDs : i # NoID => i \in Gens
  BY BoundsAssumption DEF NoID, IDs, Gens

\* The IDs that the instance provider can answer.
LEMMA InstanceIDsType ==
    ASSUME NEW m \in Names
    PROVE  InstanceIDs(m) \subseteq IDs
  BY IDFacts DEF InstanceIDs, NodesOf

\* A fault stays within the budget.
LEMMA FaultType ==
    ASSUME faults \in 0..MaxFaults, Fault
    PROVE  faults' \in 0..MaxFaults
  BY BoundsAssumption DEF Fault

\* Registration and initialization leave MachineLaunched alone.
LEMMA RegistrationFacts ==
    ASSUME NEW m \in Names, NEW c \in Copies
    PROVE  /\ Registration(m, c) \in Conds
           /\ Registration(m, c).launched = c.cond.launched
           /\ \A cond \in Conds : \A d \in Initialization(m, c, cond) :
                d \in Conds /\ d.launched = cond.launched
  <1>1. c.cond \in Conds
    BY DEF Copies
  <1>2. Registration(m, c) \in Conds /\ Registration(m, c).launched = c.cond.launched
    BY <1>1, MarkTrueFacts, MarkFalseFacts DEF Registration
  <1>3. ASSUME NEW cond \in Conds, NEW d \in Initialization(m, c, cond)
        PROVE  d \in Conds /\ d.launched = cond.launched
    BY <1>3, MarkTrueFacts, MarkFalseFacts DEF Initialization
  <1> QED BY <1>2, <1>3

\* The copies that a reconciliation works on.
LEMMA CopyFacts ==
    /\ NoCopy \in Copies /\ LcIdle \in LcStates
    /\ \A c \in Copies : \A g \in IDs :
         /\ WithDetails(c, g) \in Copies
         /\ WithDetails(c, g).pid = g /\ WithDetails(c, g).link = g
         /\ WithDetails(c, g).cond.launched = "True"
  <1>1. NoConds \in Conds
    BY DEF NoConds, Conds, Launched, Registered, Initialized, Ready
  <1>2. NoCopy \in Copies
    BY <1>1, IDFacts DEF NoCopy, Copies
  <1>3. LcIdle \in LcStates
    BY <1>2 DEF LcIdle, LcStates, LcSteps
  <1>4. ASSUME NEW c \in Copies, NEW g \in IDs
        PROVE  /\ WithDetails(c, g) \in Copies
               /\ WithDetails(c, g).pid = g /\ WithDetails(c, g).link = g
               /\ WithDetails(c, g).cond.launched = "True"
    BY MarkTrueFacts DEF WithDetails, Copies
  <1> QED BY <1>2, <1>3, <1>4

\* Begin starts a reconciliation from any copy.
LEMMA BeginType ==
    ASSUME LifecycleTypeOK, NEW m \in Names, NEW c \in Copies, Begin(m, c)
    PROVE  lc' \in [Names -> LcStates]
  <1>1. LaunchStep(m, c) \in LcSteps
    BY DEF LaunchStep, LcSteps
  <1>2. cache[m] \in IDs
    BY DEF LifecycleTypeOK
  <1>3. (IF c.cond.launched # "True" /\ cache[m] # NoID
         THEN WithDetails(c, cache[m]) ELSE c) \in Copies
    BY <1>2, CopyFacts
  <1>4. [at |-> LaunchStep(m, c), stored |-> c,
         copy |-> IF c.cond.launched # "True" /\ cache[m] # NoID
                  THEN WithDetails(c, cache[m]) ELSE c] \in LcStates
    BY <1>1, <1>3 DEF LcStates
  <1> QED BY <1>4 DEF Begin, LifecycleTypeOK

\* Launch, in its two outcomes.
LEMMA LaunchType ==
    ASSUME LifecycleTypeOK, NEW m \in Names
    PROVE  /\ \A g \in IDs : LaunchSucceeds(m, g) => LifecycleTypeOK'
           /\ \A v \in {"False", "Blocked"} :
                [lc[m] EXCEPT !.at = "register", !.copy.cond = MarkNotLaunched(@, v)] \in LcStates
           /\ LaunchFails(m) => LifecycleTypeOK'
  <1>0. lc[m] \in LcStates /\ lc[m].copy \in Copies /\ lc[m].copy.cond \in Conds
    BY DEF LifecycleTypeOK, LcStates, Copies
  <1>1. ASSUME NEW g \in IDs, LaunchSucceeds(m, g) PROVE LifecycleTypeOK'
    <2>1. [lc[m] EXCEPT !.at = "register", !.copy = WithDetails(@, g)] \in LcStates
      BY <1>0, CopyFacts DEF LcStates, LcSteps
    <2> QED BY <1>1, <2>1 DEF LaunchSucceeds, LifecycleTypeOK
  <1>2. ASSUME NEW v \in {"False", "Blocked"}
        PROVE  [lc[m] EXCEPT !.at = "register", !.copy.cond = MarkNotLaunched(@, v)] \in LcStates
    <2>1. MarkNotLaunched(lc[m].copy.cond, v) \in Conds
      BY <1>0, MarkFalseFacts
    <2>2. [lc[m].copy EXCEPT !.cond = MarkNotLaunched(@, v)] \in Copies
      BY <1>0, <2>1 DEF Copies
    <2> QED BY <1>0, <2>2 DEF LcStates, LcSteps
  <1>3. ASSUME LaunchFails(m) PROVE LifecycleTypeOK'
    BY <1>2, <1>3 DEF LaunchFails, LifecycleTypeOK
  <1> QED BY <1>1, <1>2, <1>3

\* ToPatch keeps the reconciliation well formed.
LEMMA ToPatchType ==
    ASSUME LifecycleTypeOK, NEW m \in Names, NEW cond \in Conds, ToPatch(m, cond)
    PROVE  lc' \in [Names -> LcStates]
  <1>1. lc[m] \in LcStates /\ lc[m].copy \in Copies
    BY DEF LifecycleTypeOK, LcStates
  <1>2. [lc[m].copy EXCEPT !.cond = cond] \in Copies
    BY <1>1 DEF Copies
  <1>3. [lc[m] EXCEPT !.at = "patch", !.copy.cond = cond] \in LcStates
    BY <1>1, <1>2 DEF LcStates, LcSteps
  <1> QED BY <1>3, CopyFacts DEF ToPatch, LifecycleTypeOK

\* The objects and the reconciliations are of the right type after a step of the
\* lifecycle controller.
LEMMA LifecycleType ==
    ASSUME ClusterTypeOK, LifecycleTypeOK, NEW m \in Names, Lifecycle(m)
    PROVE  ClusterTypeOK' /\ LifecycleTypeOK'
  <1>0. /\ machine[m] \in MachineObjects /\ machine[m].cond \in Conds
        /\ machine[m].pid \in IDs /\ machine[m].link \in IDs
        /\ pool[m] \in Pools /\ node[m] \in [Gens -> NodeObjects]
        /\ lc[m] \in LcStates /\ lc[m].stored \in Copies /\ lc[m].copy \in Copies
        /\ lc[m].copy.pid \in IDs /\ lc[m].copy.link \in IDs /\ lc[m].copy.cond \in Conds
    BY DEF ClusterTypeOK, LifecycleTypeOK, MachineObjects, LcStates, Copies
  <1>1. CASE LcStart(m)
    <2>1. [machine[m] EXCEPT !.fin = TRUE] \in MachineObjects
      BY <1>0 DEF MachineObjects
    <2>2. [pid |-> machine[m].pid, link |-> machine[m].link, cond |-> machine[m].cond] \in Copies
      BY <1>0 DEF Copies
    <2>3. lc' \in [Names -> LcStates]
      BY <1>1, <2>2, BeginType DEF LcStart
    <2> QED BY <1>1, <2>1, <2>3 DEF LcStart, ClusterTypeOK, LifecycleTypeOK
  <1>2. CASE LcStartStale(m)
    <2>1. lc' \in [Names -> LcStates]
      BY <1>0, <1>2, BeginType DEF LcStartStale
    <2> QED BY <1>2, <2>1 DEF LcStartStale, clusterVars, ClusterTypeOK, LifecycleTypeOK
  <1>3. CASE InformerSync(m)
    BY <1>3, CopyFacts DEF InformerSync, clusterVars, ClusterTypeOK, LifecycleTypeOK
  <1>4. CASE LcCacheExpires(m)
    BY <1>4, IDFacts DEF LcCacheExpires, clusterVars, ClusterTypeOK, LifecycleTypeOK
  <1>5. CASE LcCreate(m)
    <2>1. [lc[m] EXCEPT !.at = "poll"] \in LcStates
      BY <1>0 DEF LcStates, LcSteps
    <2>2. pool' \in [Names -> Pools]
      <3>1. pool[m].gen < MaxGen => [st |-> "creating", gen |-> pool[m].gen + 1] \in Pools
        BY <1>0, BoundsAssumption DEF Pools, IDs
      <3>2. [pool[m] EXCEPT !.st = "creating"] \in Pools
        BY <1>0 DEF Pools
      <3> QED BY <1>5, <3>1, <3>2 DEF LcCreate, BeginCreateOrUpdate, ClusterTypeOK
    <2> QED BY <1>5, <2>1, <2>2 DEF LcCreate, ClusterTypeOK, LifecycleTypeOK
  <1>6. CASE LcCreateRefused(m)
    BY <1>6, LaunchType DEF LcCreateRefused, clusterVars, ClusterTypeOK
  <1>7. CASE LcPoll(m)
    <2>1. [lc[m] EXCEPT !.at = "await"] \in LcStates
      BY <1>0 DEF LcStates, LcSteps
    <2>2. LifecycleTypeOK'
      BY <1>7, <2>1, LaunchType DEF LcPoll, LifecycleTypeOK
    <2> QED BY <1>7, <2>2 DEF LcPoll, clusterVars, ClusterTypeOK
  <1>8. CASE LcNodeFound(m)
    BY <1>8, LaunchType, InstanceIDsType DEF LcNodeFound, clusterVars, ClusterTypeOK
  <1>9. CASE LcNodeTimeout(m)
    BY <1>9, LaunchType DEF LcNodeTimeout, clusterVars, ClusterTypeOK, LifecycleTypeOK
  <1>10. CASE LcGet(m)
    <2>1. LifecycleTypeOK'
      BY <1>10, LaunchType, InstanceIDsType DEF LcGet, LifecycleTypeOK
    <2> QED BY <1>10, <2>1 DEF LcGet, clusterVars, ClusterTypeOK
  <1>11. CASE LcRegister(m)
    <2>1. node' \in [Names -> [Gens -> NodeObjects]]
      <3>1. CASE SyncsNode(m, lc[m].copy)
        <4>1. lc[m].copy.pid \in Gens
          BY <1>0, <3>1, IDFacts DEF SyncsNode, NodeFound
        <4>2. [node[m][lc[m].copy.pid] EXCEPT !.fin = TRUE] \in NodeObjects
          BY <1>0, <4>1 DEF NodeObjects
        <4> QED BY <1>0, <1>11, <3>1, <4>1, <4>2 DEF LcRegister, ClusterTypeOK
      <3>2. CASE ~SyncsNode(m, lc[m].copy)
        BY <1>11, <3>2 DEF LcRegister, ClusterTypeOK
      <3> QED BY <3>1, <3>2
    <2>2. lc' \in [Names -> LcStates]
      BY <1>0, <1>11, RegistrationFacts, ToPatchType DEF LcRegister
    <2> QED BY <1>11, <2>1, <2>2 DEF LcRegister, ClusterTypeOK, LifecycleTypeOK
  <1>12. CASE LcSyncFails(m)
    <2>1. lc' \in [Names -> LcStates]
      BY <1>0, <1>12, RegistrationFacts, ToPatchType DEF LcSyncFails
    <2> QED BY <1>12, <2>1, FaultType DEF LcSyncFails, ClusterTypeOK, LifecycleTypeOK
  <1>13. CASE LcPatch(m)
    <2>1. \A o \in MachineObjects : [o EXCEPT !.link = lc[m].copy.link] \in MachineObjects
      BY <1>0 DEF MachineObjects
    <2>2. Deleted(machine[m]) \in MachineObjects
      BY <1>0, DeleteFacts
    <2>3. machine' \in [Names -> MachineObjects]
      BY <1>0, <1>13, <2>1, <2>2 DEF LcPatch, ClusterTypeOK
    <2>4. [lc[m] EXCEPT !.at = "status"] \in LcStates
      BY <1>0 DEF LcStates, LcSteps
    <2> QED BY <1>13, <2>3, <2>4, CopyFacts DEF LcPatch, ClusterTypeOK, LifecycleTypeOK
  <1>14. ASSUME WriteStatus(m) PROVE machine' \in [Names -> MachineObjects]
    <2>1. Overwrite(machine[m].cond, lc[m].copy.cond) \in Conds
      BY <1>0, OverwriteFacts
    <2>2. [machine[m] EXCEPT
             !.pid = IF lc[m].copy.pid # lc[m].stored.pid THEN lc[m].copy.pid ELSE @,
             !.cond = IF lc[m].copy.cond # lc[m].stored.cond
                      THEN Overwrite(@, lc[m].copy.cond) ELSE @] \in MachineObjects
      BY <1>0, <2>1 DEF MachineObjects
    <2> QED BY <1>14, <2>2 DEF WriteStatus, ClusterTypeOK
  <1>15. CASE LcStatus(m)
    BY <1>14, <1>15, CopyFacts, IDFacts
    DEF LcStatus, WriteStatus, ClusterTypeOK, LifecycleTypeOK
  <1>16. CASE LcStatusLag(m)
    <2>1. [LcIdle EXCEPT !.at = "lagging", !.stored = lc[m].stored] \in LcStates
      BY <1>0, CopyFacts DEF LcStates, LcSteps
    <2>2. machine' \in [Names -> MachineObjects]
      BY <1>14, <1>16 DEF LcStatusLag
    <2>3. UNCHANGED <<node, pool, cache>>
      BY <1>16 DEF LcStatusLag, WriteStatus
    <2> QED BY <1>16, <2>1, <2>2, <2>3, FaultType DEF LcStatusLag, ClusterTypeOK, LifecycleTypeOK
  <1>17. CASE LcPatchFails(m)
    BY <1>17, FaultType, CopyFacts DEF LcPatchFails, ClusterTypeOK, LifecycleTypeOK
  <1> QED
    BY <1>1, <1>2, <1>3, <1>4, <1>5, <1>6, <1>7, <1>8, <1>9, <1>10, <1>11, <1>12, <1>13,
       <1>15, <1>16, <1>17
    DEF Lifecycle

\* The same for the machine termination controller.
LEMMA MachineTerminationType ==
    ASSUME ClusterTypeOK, MachineTerminationTypeOK, NEW m \in Names, MachineTermination(m)
    PROVE  ClusterTypeOK' /\ MachineTerminationTypeOK'
  <1> USE DEF ClusterTypeOK, MachineTerminationTypeOK, clusterVars
  <1>0. /\ machine[m] \in MachineObjects /\ pool[m] \in Pools /\ pool[m].gen \in IDs
        /\ node[m] \in [Gens -> NodeObjects] /\ mt[m] \in MtStates
        /\ NodeID(machine[m]) \in IDs
    BY DEF MachineObjects, Pools, NodeID
  <1>a. MtIdle \in MtStates /\ \A i \in IDs : [at |-> "poll", gen |-> i] \in MtStates
    BY IDFacts DEF MtIdle, MtStates, NoID
  <1>b. \A at \in {"delete", "remove", "abandon"} : [mt[m] EXCEPT !.at = at] \in MtStates
    BY <1>0 DEF MtStates
  <1>1. CASE MtDeleteNodes(m)
    BY <1>0, <1>1, IDFacts, DeleteFacts DEF MtDeleteNodes
  <1>2. CASE MtNoNodes(m)
    BY <1>b, <1>2 DEF MtNoNodes
  <1>3. CASE MtNeverLaunched(m)
    BY <1>b, <1>3 DEF MtNeverLaunched
  <1>4. CASE MtDelete(m)
    <2>1. [pool[m] EXCEPT !.st = "deleting"] \in Pools
      BY <1>0 DEF Pools
    <2> QED BY <1>0, <1>a, <1>4, <2>1 DEF MtDelete, BeginDelete
  <1>5. CASE MtNotFound(m)
    BY <1>b, <1>5 DEF MtNotFound
  <1>6. CASE MtPoll(m)
    <2>1. [at |-> "remove", gen |-> 0] \in MtStates
      BY IDFacts DEF MtStates, NoID
    <2> QED BY <1>6, <2>1 DEF MtPoll
  <1>7. CASE MtDeleteFails(m)
    BY <1>a, <1>7 DEF MtDeleteFails
  <1>8. CASE MtRemove(m)
    <2>1. machine' \in [Names -> MachineObjects]
      BY <1>8, DeleteFacts DEF MtRemove, Phases
    <2> QED BY <1>a, <1>8, <2>1 DEF MtRemove
  <1> QED
    BY <1>1, <1>2, <1>3, <1>4, <1>5, <1>6, <1>7, <1>8 DEF MachineTermination

\* The same for the node termination controller.
LEMMA NodeTerminationType ==
    ASSUME ClusterTypeOK, NodeTerminationTypeOK, NEW m \in Names, NEW g \in Gens,
           NodeTermination(m, g)
    PROVE  ClusterTypeOK' /\ NodeTerminationTypeOK'
  <1> USE DEF ClusterTypeOK, NodeTerminationTypeOK, clusterVars
  <1>0. /\ machine[m] \in MachineObjects /\ pool[m] \in Pools /\ pool[m].gen \in IDs
        /\ node[m] \in [Gens -> NodeObjects] /\ nt[m] \in [Gens -> NtStates]
    BY DEF Pools
  <1>a. NtIdle \in NtStates /\ \A i \in IDs : [at |-> "poll", gen |-> i] \in NtStates
    BY IDFacts DEF NtIdle, NtStates, NoID
  <1>b. DeleteAllMachines(m, g) => machine' \in [Names -> MachineObjects]
    BY <1>0, DeleteFacts DEF DeleteAllMachines
  <1>1. CASE NtDrain(m, g)
    <2>1. [nt[m][g] EXCEPT !.at = "drained"] \in NtStates
      BY <1>0 DEF NtStates
    <2> QED BY <1>0, <1>b, <1>1, <2>1 DEF NtDrain
  <1>2. CASE NtNotDrained(m, g)
    BY <1>b, <1>2 DEF NtNotDrained
  <1>3. CASE NtDelete(m, g)
    <2>1. [pool[m] EXCEPT !.st = "deleting"] \in Pools
      BY <1>0 DEF Pools
    <2> QED BY <1>0, <1>a, <1>3, <2>1 DEF NtDelete, BeginDelete
  <1>4. CASE NtRemove(m, g)
    BY <1>0, <1>a, <1>4, DeleteFacts DEF NtRemove
  <1>5. CASE NtDeleteFails(m, g)
    BY <1>0, <1>a, <1>5 DEF NtDeleteFails
  <1> QED BY <1>1, <1>2, <1>3, <1>4, <1>5 DEF NodeTermination

\* The same for the garbage collection controller.
LEMMA GarbageCollectionType ==
    ASSUME ClusterTypeOK, GarbageCollectionTypeOK, NEW m \in Names, GarbageCollection(m)
    PROVE  ClusterTypeOK' /\ GarbageCollectionTypeOK'
  <1> USE DEF ClusterTypeOK, GarbageCollectionTypeOK, clusterVars
  <1>0. /\ machine[m] \in MachineObjects /\ node[m] \in [Gens -> NodeObjects]
        /\ machine[m].pid \in IDs /\ machine[m].cond \in Conds
        /\ gc[m] \in GcStates /\ gc[m].stored \in Conds /\ gc[m].updated \in Conds
    BY DEF MachineObjects, GcStates
  <1>a. NoConds \in Conds
    BY DEF NoConds, Conds, Launched, Registered, Initialized, Ready
  <1>b. /\ GcIdle \in GcStates
        /\ [GcIdle EXCEPT !.at = "listed", !.overdue = TRUE] \in GcStates
        /\ [GcIdle EXCEPT !.at = "doomed"] \in GcStates
    BY <1>a, IDFacts DEF GcIdle, GcStates
  <1>c. \A u \in Conds : Beat(m, u) => gc' \in [Names -> GcStates]
    <2>1. \A u \in Conds : [gc[m] EXCEPT !.at = "beat", !.updated = u] \in GcStates
      BY <1>0 DEF GcStates
    <2> QED BY <1>b, <2>1 DEF Beat
  <1>d. WriteBeat(m) => machine' \in [Names -> MachineObjects]
    <2>1. Overwrite(machine[m].cond, gc[m].updated) \in Conds
      BY <1>0, OverwriteFacts
    <2>2. [machine[m] EXCEPT !.cond = Overwrite(@, gc[m].updated)] \in MachineObjects
      BY <1>0, <2>1 DEF MachineObjects
    <2> QED BY <2>2 DEF WriteBeat
  <1>1. CASE GcList(m)
    <2>1. [at |-> "listed", overdue |-> FALSE, pid |-> machine[m].pid,
           stored |-> machine[m].cond, updated |-> NoConds] \in GcStates
      BY <1>0, <1>a DEF GcStates
    <2> QED BY <1>b, <1>1, <2>1 DEF GcList
  <1>2. CASE GcCloudList(m)
    <2>1. [gc[m] EXCEPT !.at = "force"] \in GcStates
      BY <1>0 DEF GcStates
    <2>2. MarkReady(gc[m].stored) \in Conds /\ MarkNotReady(gc[m].stored) \in Conds
      BY <1>0, MarkTrueFacts, MarkFalseFacts
    <2>3. gc' \in [Names -> GcStates]
      BY <1>c, <1>2, <2>1, <2>2 DEF GcCloudList
    <2> QED BY <1>2, <2>3 DEF GcCloudList
  <1>3. CASE GcCloudListFails(m)
    BY <1>b, <1>3 DEF GcCloudListFails
  <1>4. CASE GcForce(m)
    BY <1>b, <1>4, DeleteFacts DEF GcForce, Phases
  <1>5. CASE GcBeat(m)
    BY <1>b, <1>d, <1>5 DEF GcBeat, WriteBeat
  <1>6. CASE GcBeatRace(m)
    BY <1>b, <1>d, <1>6 DEF GcBeatRace, WriteBeat
  <1>7. CASE GcDelete(m)
    BY <1>0, <1>b, <1>7, DeleteFacts DEF GcDelete
  <1>8. ASSUME NEW g \in Gens, GcNode(m, g) PROVE ClusterTypeOK' /\ GarbageCollectionTypeOK'
    BY <1>0, <1>8, DeleteFacts DEF GcNode
  <1> QED
    BY <1>1, <1>2, <1>3, <1>4, <1>5, <1>6, <1>7, <1>8 DEF GarbageCollection

\* TypeOK holds initially.
LEMMA InitType == Init => TypeOK
  <1> SUFFICES ASSUME Init PROVE TypeOK
    OBVIOUS
  <1>1. NoConds \in Conds
    BY DEF NoConds, Conds, Launched, Registered, Initialized, Ready
  <1>2. ClusterTypeOK
    BY DeleteFacts, IDFacts, BoundsAssumption
    DEF Init, ClusterInit, ClusterTypeOK, Phases, Pools, NoID
  <1>3. LifecycleTypeOK
    BY CopyFacts, IDFacts DEF Init, LifecycleInit, LifecycleTypeOK
  <1>4. MachineTerminationTypeOK /\ NodeTerminationTypeOK
    BY IDFacts DEF Init, MachineTerminationInit, MachineTerminationTypeOK, MtIdle, MtStates,
                   NodeTerminationInit, NodeTerminationTypeOK, NtIdle, NtStates, NoID
  <1>5. GarbageCollectionTypeOK
    BY <1>1, IDFacts DEF Init, GarbageCollectionInit, GarbageCollectionTypeOK, GcIdle, GcStates
  <1> QED BY <1>2, <1>3, <1>4, <1>5 DEF TypeOK

\* Every step keeps TypeOK.
LEMMA NextType == TypeOK /\ [Next]_vars => TypeOK'
  <1> SUFFICES ASSUME TypeOK, [Next]_vars PROVE TypeOK'
    OBVIOUS
  <1> USE DEF TypeOK
  <1>1. ASSUME NEW m \in Names, Environment(m), UNCHANGED <<lc, cache, mt, nt, gc>>
        PROVE  TypeOK'
    BY <1>1, EnvironmentType
    DEF LifecycleTypeOK, MachineTerminationTypeOK, NodeTerminationTypeOK, GarbageCollectionTypeOK
  <1>2. ASSUME NEW m \in Names, Lifecycle(m), UNCHANGED <<mt, nt, gc>>
        PROVE  TypeOK'
    BY <1>2, LifecycleType
    DEF MachineTerminationTypeOK, NodeTerminationTypeOK, GarbageCollectionTypeOK
  <1>3. ASSUME NEW m \in Names, MachineTermination(m), UNCHANGED <<lc, cache, nt, gc>>
        PROVE  TypeOK'
    BY <1>3, MachineTerminationType
    DEF LifecycleTypeOK, NodeTerminationTypeOK, GarbageCollectionTypeOK
  <1>4. ASSUME NEW m \in Names, GarbageCollection(m), UNCHANGED <<lc, cache, mt, nt>>
        PROVE  TypeOK'
    BY <1>4, GarbageCollectionType
    DEF LifecycleTypeOK, MachineTerminationTypeOK, NodeTerminationTypeOK
  <1>5. ASSUME NEW m \in Names, NEW g \in Gens, NodeTermination(m, g),
               UNCHANGED <<lc, cache, mt, gc>>
        PROVE  TypeOK'
    BY <1>5, NodeTerminationType
    DEF LifecycleTypeOK, MachineTerminationTypeOK, GarbageCollectionTypeOK
  <1>6. CASE Crash
    <2>1. LifecycleTypeOK'
      BY <1>6, CopyFacts, IDFacts DEF Crash, LifecycleTypeOK
    <2>2. MachineTerminationTypeOK' /\ NodeTerminationTypeOK'
      BY <1>6, IDFacts DEF Crash, MachineTerminationTypeOK, MtIdle, MtStates,
                           NodeTerminationTypeOK, NtIdle, NtStates, NoID
    <2>3. GarbageCollectionTypeOK'
      <3>1. NoConds \in Conds
        BY DEF NoConds, Conds, Launched, Registered, Initialized, Ready
      <3> QED BY <1>6, <3>1, IDFacts DEF Crash, GarbageCollectionTypeOK, GcIdle, GcStates
    <2>4. ClusterTypeOK'
      BY <1>6, FaultType DEF Crash, ClusterTypeOK
    <2> QED BY <2>1, <2>2, <2>3, <2>4
  <1>7. CASE UNCHANGED vars
    BY <1>7 DEF vars, clusterVars, ClusterTypeOK, LifecycleTypeOK, MachineTerminationTypeOK,
                NodeTerminationTypeOK, GarbageCollectionTypeOK
  <1> QED BY <1>1, <1>2, <1>3, <1>4, <1>5, <1>6, <1>7 DEF Next

\* Every object, copy and reconciliation of the four controllers is always of its
\* type: no reconciliation reads a field that no code path has given a value.
THEOREM TypeCorrect == Spec => []TypeOK
  BY InitType, NextType, PTL DEF Spec

-----------------------------------------------------------------------------
(* The inductive invariant. *)

Launching == {"get", "create", "poll", "await"}
Finishing == {"register", "patch", "status"}

\* A copy or an object is launched exactly when it has a provider ID.
Consistent(c) == c.cond.launched = "True" <=> c.pid # NoID

\* The finalizer precedes everything that the lifecycle controller does.
Guarded(m) ==
    /\ (lc[m].at # "idle" \/ pool[m].gen # 0) => (Present(m) => machine[m].fin)
    /\ machine[m].phase = "none" =>
         lc[m].at = "idle" /\ mt[m].at = "idle" /\ gc[m].at = "idle" /\ pool[m].gen = 0

\* What the API server holds.
Recorded(m) ==
    /\ ~Present(m) => machine[m].pid = NoID
    /\ Present(m) => /\ Consistent(machine[m])
                     /\ machine[m].pid # NoID => machine[m].link = machine[m].pid

\* A reconciliation that talks to the cloud does so for a machine without ID.
CallsCloud(m) ==
    lc[m].at \in Launching =>
        /\ lc[m].copy = lc[m].stored /\ lc[m].stored.pid = NoID
        /\ machine[m].pid = NoID
        /\ Present(m) => machine[m].link = lc[m].stored.link

\* A reconciliation that is about to write: what it adds is what the launch cache
\* holds, and no other than what the API server may have already.
Writes(m) ==
    lc[m].at \in Finishing =>
        /\ Consistent(lc[m].copy)
        /\ lc[m].stored.pid # NoID => lc[m].copy.pid = lc[m].stored.pid
        /\ IF lc[m].copy.pid = lc[m].stored.pid
           THEN lc[m].copy.link = lc[m].stored.link
           ELSE cache[m] = lc[m].copy.pid /\ lc[m].copy.link = lc[m].copy.pid
        /\ machine[m].pid # NoID => lc[m].copy.pid = machine[m].pid
        /\ Present(m) => \/ machine[m].link = lc[m].copy.link
                         \/ machine[m].link = lc[m].stored.link /\ lc[m].at # "status"

\* While the informer lags, the launch cache stands in for the status.
Lags(m) ==
    lc[m].at = "lagging" =>
        /\ cache[m] # NoID /\ lc[m].stored.pid = NoID
        /\ Present(m) => machine[m].pid = cache[m]

\* What a reconciliation has read.
Read(m) ==
    lc[m].at # "idle" =>
        /\ Consistent(lc[m].stored)
        /\ (Present(m) /\ lc[m].stored.pid # NoID) => machine[m].pid = lc[m].stored.pid

\* The collector only writes conditions of launched machines.
Collects(m) ==
    (gc[m].at \in {"listed", "beat"} /\ ~gc[m].overdue) =>
        /\ gc[m].stored.launched = "True"
        /\ gc[m].at = "beat" => gc[m].updated.launched = "True"
        /\ Present(m) => machine[m].pid # NoID

\* Finalize is past the nodes only for a machine with ID, whose pool is not
\* replaced by another; when it removes the finalizer, the pool is gone.
Finalizes(m) ==
    /\ (mt[m].at \in {"delete", "poll", "remove"} /\ Present(m)) =>
         /\ machine[m].pid # NoID
         /\ mt[m].at = "poll" => pool[m].gen = mt[m].gen
         /\ mt[m].at = "remove" => pool[m].st = "absent"
    /\ machine[m].phase = "finalized" => pool[m].st = "absent" /\ lc[m].at \notin Launching

OverdueIsForced(m) == gc[m].at = "beat" => ~gc[m].overdue

MachineInv(m) ==
    /\ Guarded(m) /\ Recorded(m) /\ CallsCloud(m) /\ Writes(m) /\ Lags(m) /\ Read(m)
    /\ Collects(m) /\ OverdueIsForced(m) /\ Finalizes(m)

Inv == TypeOK /\ \A m \in Names : MachineInv(m)

-----------------------------------------------------------------------------
(* A step for one machine leaves the others alone. *)

\* What the invariant says of the machine object and of its reconciliation stays
\* true while phase, ID, link, launch, the reconciliation and the cache stay.
LEMMA WorkKept ==
    ASSUME NEW m \in Names, MachineInv(m),
           machine'[m].phase = machine[m].phase, machine'[m].pid = machine[m].pid,
           machine'[m].link = machine[m].link,
           machine'[m].cond.launched = machine[m].cond.launched,
           lc'[m] = lc[m], cache'[m] = cache[m]
    PROVE  Recorded(m)' /\ CallsCloud(m)' /\ Writes(m)' /\ Lags(m)' /\ Read(m)'
  <1>0. Present(m)' <=> Present(m)
    BY DEF Present
  <1>1. Recorded(m)'
    BY <1>0 DEF MachineInv, Recorded, Consistent
  <1>2. CallsCloud(m)'
    BY <1>0 DEF MachineInv, CallsCloud
  <1>3. Writes(m)'
    BY <1>0 DEF MachineInv, Writes, Consistent
  <1>4. Lags(m)'
    BY <1>0 DEF MachineInv, Lags
  <1>5. Read(m)'
    BY <1>0 DEF MachineInv, Read, Consistent
  <1> QED BY <1>1, <1>2, <1>3, <1>4, <1>5

\* A machine object changes in fields that the invariant does not mention and its
\* pool does not come into being, by a step that leaves the work on it alone.
LEMMA Kept ==
    ASSUME NEW m \in Names, MachineInv(m),
           machine'[m].phase = machine[m].phase, machine'[m].pid = machine[m].pid,
           machine'[m].link = machine[m].link, machine[m].fin => machine'[m].fin,
           machine'[m].cond.launched = machine[m].cond.launched,
           pool'[m].gen = pool[m].gen, pool[m].st = "absent" => pool'[m].st = "absent",
           lc'[m] = lc[m], cache'[m] = cache[m], mt'[m] = mt[m],
           gc'[m].at # "idle" => gc'[m] = gc[m]
    PROVE  MachineInv(m)'
  <1>0. Present(m)' <=> Present(m)
    BY DEF Present
  <1>1. Guarded(m)'
    BY <1>0 DEF MachineInv, Guarded
  <1>2. Collects(m)'
    BY <1>0 DEF MachineInv, Collects
  <1>3. OverdueIsForced(m)'
    BY DEF MachineInv, OverdueIsForced
  <1>4. Finalizes(m)'
    BY <1>0 DEF MachineInv, Finalizes
  <1> QED BY <1>1, <1>2, <1>3, <1>4, WorkKept DEF MachineInv

\* What the invariant says of a machine depends on its own state only.
LEMMA Frame ==
    ASSUME NEW n \in Names, MachineInv(n),
           machine'[n] = machine[n], pool'[n] = pool[n], lc'[n] = lc[n],
           cache'[n] = cache[n], mt'[n] = mt[n], gc'[n] = gc[n]
    PROVE  MachineInv(n)'
  BY Kept

\* DELETE of a machine with finalizer only marks it.
LEMMA DeletedKeeps ==
    ASSUME NEW o \in MachineObjects, o.fin \/ o.phase # "present"
    PROVE  /\ Deleted(o).phase = o.phase /\ Deleted(o).fin = o.fin
           /\ Deleted(o).pid = o.pid /\ Deleted(o).link = o.link /\ Deleted(o).cond = o.cond
  BY DEF Deleted, MachineObjects

\* An object that is gone, or not there yet, has no instance.
LEMMA BlankFields ==
    ASSUME NEW phase
    PROVE  Blank(phase).phase = phase /\ Blank(phase).pid = NoID
  BY DEF Blank

\* A machine that disappears, by a step that leaves the work on it alone.
LEMMA Disappears ==
    ASSUME TypeOK, NEW m \in Names, MachineInv(m), NEW phase \in Phases \ {"none", "present"},
           phase = "finalized" => pool[m].st = "absent" /\ lc[m].at \notin Launching,
           machine'[m] = Blank(phase), pool'[m] = pool[m], lc'[m] = lc[m],
           cache'[m] = cache[m], mt'[m].at \in {mt[m].at, "idle"}, gc'[m].at \in {gc[m].at, "idle"},
           gc'[m].at # "idle" => gc'[m] = gc[m]
    PROVE  MachineInv(m)'
  <1>1. /\ machine'[m].phase = phase /\ machine'[m].pid = NoID
        /\ phase # "none" /\ ~Present(m)'
    BY BlankFields DEF Present
  <1>2. Guarded(m)' /\ Recorded(m)'
    BY <1>1 DEF Guarded, Recorded
  <1>3. CallsCloud(m)'
    BY <1>1 DEF MachineInv, CallsCloud
  <1>4. Writes(m)'
    BY <1>1 DEF MachineInv, Writes, Consistent
  <1>5. Lags(m)' /\ Read(m)'
    BY <1>1 DEF MachineInv, Lags, Read, Consistent
  <1>6. Collects(m)' /\ OverdueIsForced(m)'
    BY <1>1 DEF MachineInv, Collects, OverdueIsForced
  <1>7. Finalizes(m)'
    BY <1>1 DEF Finalizes
  <1> QED BY <1>2, <1>3, <1>4, <1>5, <1>6, <1>7 DEF MachineInv

\* A machine object changes in fields that the invariant does not mention, by a
\* step that leaves the work on it alone.
LEMMA Touched ==
    ASSUME NEW m \in Names, MachineInv(m),
           machine'[m].phase = machine[m].phase, machine'[m].pid = machine[m].pid,
           machine'[m].link = machine[m].link, machine[m].fin => machine'[m].fin,
           machine'[m].cond.launched = machine[m].cond.launched,
           pool'[m] = pool[m], lc'[m] = lc[m], cache'[m] = cache[m], mt'[m] = mt[m],
           gc'[m].at # "idle" => gc'[m] = gc[m]
    PROVE  MachineInv(m)'
  BY Kept

\* A pool changes its state, by a step that leaves the machine and the work on it
\* alone, and does not come into being.
LEMMA PoolMoves ==
    ASSUME NEW m \in Names, MachineInv(m),
           machine'[m] = machine[m], lc'[m] = lc[m], cache'[m] = cache[m],
           mt'[m] = mt[m], gc'[m] = gc[m],
           pool'[m].gen = pool[m].gen, pool[m].st = "absent" => pool'[m].st = "absent"
    PROVE  MachineInv(m)'
  BY Kept

-----------------------------------------------------------------------------
(* One lemma per controller, one step per action. *)

\* DELETE of a machine, by whoever.
LEMMA DeletionStep ==
    ASSUME TypeOK, NEW m \in Names, MachineInv(m),
           machine'[m] \in {machine[m], Deleted(machine[m])},
           pool'[m] = pool[m], lc'[m] = lc[m], cache'[m] = cache[m], mt'[m] = mt[m],
           gc'[m].at # "idle" => gc'[m] = gc[m]
    PROVE  MachineInv(m)'
  <1>0. machine[m] \in MachineObjects
    BY DEF TypeOK, ClusterTypeOK
  <1>1. CASE machine'[m] = machine[m]
    BY <1>1, Touched
  <1>2. CASE machine'[m] = Deleted(machine[m]) /\ (machine[m].fin \/ ~Present(m))
    <2>1. /\ machine'[m].phase = machine[m].phase /\ machine'[m].fin = machine[m].fin
          /\ machine'[m].pid = machine[m].pid /\ machine'[m].link = machine[m].link
          /\ machine'[m].cond = machine[m].cond
      BY <1>0, <1>2, DeletedKeeps DEF Present
    <2> QED BY <2>1, Touched
  <1>3. CASE machine'[m] = Deleted(machine[m]) /\ Present(m) /\ ~machine[m].fin
    <2>1. machine'[m] = Blank("unguarded")
      BY <1>3 DEF Deleted, Present
    <2>2. gc'[m].at \in {gc[m].at, "idle"}
      OBVIOUS
    <2> QED BY <2>1, <2>2, Disappears DEF Phases
  <1> QED BY <1>1, <1>2, <1>3

\* Users, AKS, kubelets and the clock.
LEMMA EnvironmentInv ==
    ASSUME TypeOK, NEW m \in Names, MachineInv(m), Environment(m),
           UNCHANGED <<lc, cache, mt, nt, gc>>
    PROVE  MachineInv(m)'
  <1> USE DEF TypeOK, ClusterTypeOK
  <1>0. machine[m] \in MachineObjects /\ machine[m].cond \in Conds /\ pool[m] \in Pools
    BY DEF MachineObjects
  <1>1. CASE UserCreate(m)
    <2>1. /\ machine'[m] = Blank("present") /\ pool' = pool
          /\ lc[m].at = "idle" /\ mt[m].at = "idle" /\ gc[m].at = "idle" /\ pool[m].gen = 0
      BY <1>1 DEF UserCreate, MachineInv, Guarded
    <2>2. /\ Blank("present").phase = "present" /\ Blank("present").pid = NoID
          /\ Blank("present").cond = NoConds /\ NoConds.launched = "Nil"
      BY DEF Blank, NoConds
    <2>3. /\ machine'[m].phase = "present" /\ machine'[m].pid = NoID
          /\ machine'[m].cond.launched # "True"
      BY <2>1, <2>2
    <2>4. Guarded(m)' /\ Recorded(m)'
      BY <2>1, <2>3 DEF Guarded, Recorded, Consistent
    <2>5. CallsCloud(m)' /\ Writes(m)' /\ Lags(m)' /\ Read(m)'
      BY <2>1 DEF CallsCloud, Writes, Lags, Read, Launching, Finishing
    <2>6. Collects(m)' /\ OverdueIsForced(m)' /\ Finalizes(m)'
      BY <2>1, <2>3 DEF Collects, OverdueIsForced, Finalizes
    <2> QED BY <2>4, <2>5, <2>6 DEF MachineInv
  <1>2. CASE UserDelete(m)
    BY <1>2, DeletionStep DEF UserDelete
  <1>3. CASE PoolLost(m)
    BY <1>0, <1>3, PoolMoves DEF PoolLost, Pools
  <1>4. CASE CreateEnds(m)
    BY <1>0, <1>4, PoolMoves DEF CreateEnds, Pools
  <1>5. CASE DeleteEnds(m)
    BY <1>0, <1>5, PoolMoves DEF DeleteEnds, Pools
  <1>6. CASE NodeJoin(m)
    BY <1>6, Frame DEF NodeJoin
  <1>7. CASE DeletionOverdue(m)
    BY <1>0, <1>7, Touched DEF DeletionOverdue, MachineObjects
  <1>8. CASE RegistrationExpires(m)
    <2>1. machine'[m] = [machine[m] EXCEPT !.cond.regOld = TRUE]
      BY <1>8 DEF RegistrationExpires
    <2>2. machine'[m].cond.launched = machine[m].cond.launched
      BY <1>0, <2>1 DEF MachineObjects, Conds
    <2> QED BY <1>0, <1>8, <2>1, <2>2, Touched DEF RegistrationExpires, MachineObjects
  <1>9. CASE NotReadyTooLong(m)
    <2>1. machine'[m] = [machine[m] EXCEPT !.cond.readyOld = TRUE]
      BY <1>9 DEF NotReadyTooLong
    <2>2. machine'[m].cond.launched = machine[m].cond.launched
      BY <1>0, <2>1 DEF MachineObjects, Conds
    <2> QED BY <1>0, <1>9, <2>1, <2>2, Touched DEF NotReadyTooLong, MachineObjects
  <1>10. ASSUME NEW g \in Gens,
                \/ UserDeleteNode(m, g) \/ NodeReady(m, g)
                \/ NodeNotReady(m, g) \/ NodeLost(m, g)
         PROVE  MachineInv(m)'
    BY <1>10, Frame DEF UserDeleteNode, NodeReady, NodeNotReady, NodeLost
  <1> QED
    BY <1>1, <1>2, <1>3, <1>4, <1>5, <1>6, <1>7, <1>8, <1>9, <1>10 DEF Environment, Clock

\* The finalization of nodes: it deletes machines and pools.
LEMMA NodeTerminationInv ==
    ASSUME TypeOK, NEW m \in Names, MachineInv(m), NEW g \in Gens, NodeTermination(m, g),
           UNCHANGED <<lc, cache, mt, gc>>
    PROVE  MachineInv(m)'
  <1> USE DEF TypeOK, ClusterTypeOK
  <1>1. CASE NtDrain(m, g) \/ NtNotDrained(m, g)
    BY <1>1, DeletionStep DEF NtDrain, NtNotDrained, DeleteAllMachines
  <1>2. CASE NtDelete(m, g)
    BY <1>2, PoolMoves DEF NtDelete, BeginDelete, Pools
  <1>3. CASE NtRemove(m, g) \/ NtDeleteFails(m, g)
    BY <1>3, Frame DEF NtRemove, NtDeleteFails, clusterVars
  <1> QED BY <1>1, <1>2, <1>3 DEF NodeTermination

\* The finalization of machines.
LEMMA MachineTerminationInv ==
    ASSUME TypeOK, NEW m \in Names, MachineInv(m), MachineTermination(m),
           UNCHANGED <<lc, cache, nt, gc>>
    PROVE  MachineInv(m)'
  <1> USE DEF TypeOK, ClusterTypeOK, MachineTerminationTypeOK
  <1>0. pool[m] \in Pools /\ pool[m].gen \in IDs /\ mt[m] \in MtStates
    BY DEF Pools
  <1>a. ASSUME machine'[m] = machine[m],
               pool'[m].gen = pool[m].gen, pool[m].st = "absent" => pool'[m].st = "absent",
               mt'[m].at # "idle" => machine[m].phase # "none",
               (mt'[m].at \in {"delete", "poll", "remove"} /\ Present(m)) =>
                   /\ machine[m].pid # NoID
                   /\ mt'[m].at = "poll" => pool[m].gen = mt'[m].gen
                   /\ mt'[m].at = "remove" => pool'[m].st = "absent"
        PROVE  MachineInv(m)'
    <2>0. Present(m)' <=> Present(m)
      BY <1>a DEF Present
    <2>1. Guarded(m)'
      BY <1>a, <2>0 DEF MachineInv, Guarded
    <2>2. Collects(m)' /\ OverdueIsForced(m)'
      BY <1>a, <2>0 DEF MachineInv, Collects, OverdueIsForced
    <2>3. Finalizes(m)'
      BY <1>a, <2>0 DEF MachineInv, Finalizes
    <2> QED BY <1>a, <2>1, <2>2, <2>3, WorkKept DEF MachineInv
  <1>b. /\ mt[m].at # "idle" => machine[m].phase # "none"
        /\ (mt[m].at \in {"delete", "poll", "remove"} /\ Present(m)) => machine[m].pid # NoID
        /\ (mt[m].at = "poll" /\ Present(m)) => pool[m].gen = mt[m].gen
    BY DEF MachineInv, Guarded, Finalizes
  <1>1. CASE MtDeleteNodes(m)
    BY <1>1, Frame DEF MtDeleteNodes
  <1>2. CASE MtNoNodes(m)
    BY <1>0, <1>a, <1>2 DEF MtNoNodes, MtStates, clusterVars, Finalizing, Present
  <1>3. CASE MtNeverLaunched(m)
    BY <1>0, <1>a, <1>3 DEF MtNeverLaunched, MtStates, clusterVars, Finalizing, Present
  <1>4. CASE MtDelete(m)
    BY <1>0, <1>a, <1>b, <1>4 DEF MtDelete, BeginDelete, Pools
  <1>5. CASE MtNotFound(m)
    BY <1>0, <1>a, <1>b, <1>5 DEF MtNotFound, MtStates, clusterVars
  <1>6. CASE MtPoll(m)
    \* Nobody has replaced the pool, so the poller has seen it disappear.
    <2>1. Present(m) => pool[m].st = "absent"
      BY <1>0, <1>b, <1>6 DEF MtPoll, DeletePolled, IDs
    <2> QED BY <1>0, <1>a, <1>b, <1>6, <2>1 DEF MtPoll, clusterVars
  <1>7. CASE MtDeleteFails(m)
    BY <1>0, <1>a, <1>7 DEF MtDeleteFails, MtIdle, clusterVars
  <1>8. CASE MtRemove(m)
    <2>1. CASE Present(m) /\ mt[m].at = "remove"
      <3>1. pool[m].st = "absent" /\ machine[m].pid # NoID
        BY <2>1 DEF MachineInv, Finalizes
      <3>2. lc[m].at \notin Launching
        BY <3>1 DEF MachineInv, CallsCloud
      <3>3. machine'[m] = Blank("finalized") /\ mt'[m] = MtIdle /\ pool' = pool
        BY <1>8, <2>1 DEF MtRemove
      <3>4. mt'[m].at = "idle"
        BY <3>3 DEF MtIdle
      <3>5. "finalized" \in Phases \ {"none", "present"}
        BY DEF Phases
      <3> QED BY <3>1, <3>2, <3>3, <3>4, <3>5, Disappears
    <2>2. CASE Present(m) /\ mt[m].at = "abandon"
      <3>1. machine'[m] = Blank("abandoned") /\ mt'[m] = MtIdle /\ pool' = pool
        BY <1>8, <2>2 DEF MtRemove
      <3>2. mt'[m].at = "idle"
        BY <3>1 DEF MtIdle
      <3>3. "abandoned" \in Phases \ {"none", "present"}
        BY DEF Phases
      <3> QED BY <3>1, <3>2, <3>3, Disappears
    <2>3. CASE ~Present(m)
      BY <1>0, <1>a, <1>8, <2>3 DEF MtRemove, MtIdle
    <2> QED BY <1>8, <2>1, <2>2, <2>3 DEF MtRemove
  <1> QED
    BY <1>1, <1>2, <1>3, <1>4, <1>5, <1>6, <1>7, <1>8 DEF MachineTermination

\* What the collector remembers of a launched machine that it has listed.
LEMMA ListedFields ==
    ASSUME NEW p, NEW c, NEW d
    PROVE  LET r == [at |-> "listed", overdue |-> FALSE, pid |-> p, stored |-> c, updated |-> d]
           IN  r.at = "listed" /\ r.stored = c
  OBVIOUS

\* The collector: it writes conditions, and removes machines.
LEMMA GarbageCollectionInv ==
    ASSUME TypeOK, NEW m \in Names, MachineInv(m), GarbageCollection(m),
           UNCHANGED <<lc, cache, mt, nt>>
    PROVE  MachineInv(m)'
  <1> USE DEF TypeOK, ClusterTypeOK, GarbageCollectionTypeOK
  <1>0. /\ machine[m] \in MachineObjects /\ machine[m].cond \in Conds /\ gc[m] \in GcStates
        /\ gc[m].stored \in Conds /\ gc[m].updated \in Conds
    BY DEF MachineObjects, GcStates
  <1>a. ASSUME machine'[m] = machine[m], pool'[m] = pool[m],
               gc'[m].at # "idle" => machine[m].phase # "none",
               (gc'[m].at \in {"listed", "beat"} /\ ~gc'[m].overdue) =>
                   /\ gc'[m].stored.launched = "True"
                   /\ gc'[m].at = "beat" => gc'[m].updated.launched = "True"
                   /\ Present(m) => machine[m].pid # NoID,
               gc'[m].at = "beat" => ~gc'[m].overdue
        PROVE  MachineInv(m)'
    <2>0. Present(m)' <=> Present(m)
      BY <1>a DEF Present
    <2>1. Guarded(m)'
      BY <1>a, <2>0 DEF MachineInv, Guarded
    <2>2. Collects(m)' /\ OverdueIsForced(m)'
      BY <1>a, <2>0 DEF Collects, OverdueIsForced
    <2>3. Finalizes(m)'
      BY <1>a, <2>0 DEF MachineInv, Finalizes
    <2> QED BY <1>a, <2>1, <2>2, <2>3, WorkKept DEF MachineInv
  <1>b. GcIdle.at = "idle"
    BY DEF GcIdle
  <1>c. ASSUME gc[m].at = "listed", ~gc[m].overdue, NEW u \in Conds,
               u.launched = gc[m].stored.launched, Beat(m, u), UNCHANGED clusterVars
        PROVE  MachineInv(m)'
    <2>1. /\ gc[m].stored.launched = "True" /\ machine[m].phase # "none"
          /\ Present(m) => machine[m].pid # NoID
      BY <1>c DEF MachineInv, Collects, Guarded
    <2>2. CASE gc'[m] = GcIdle
      BY <1>a, <1>b, <1>c, <2>2 DEF clusterVars
    <2>3. CASE gc'[m] = [gc[m] EXCEPT !.at = "beat", !.updated = u]
      <3>1. /\ gc'[m].at = "beat" /\ gc'[m].updated = u /\ gc'[m].overdue = gc[m].overdue
            /\ gc'[m].stored = gc[m].stored
        BY <1>0, <2>3 DEF GcStates
      <3> QED BY <1>a, <1>c, <2>1, <3>1 DEF clusterVars
    <2> QED BY <1>c, <2>2, <2>3 DEF Beat
  <1>d. WriteBeat(m) =>
           /\ machine'[m].phase = machine[m].phase /\ machine'[m].fin = machine[m].fin
           /\ machine'[m].pid = machine[m].pid /\ machine'[m].link = machine[m].link
           /\ machine'[m].cond.launched = machine[m].cond.launched
    <2>1. SUFFICES ASSUME WriteBeat(m), Present(m), gc[m].updated # gc[m].stored
                   PROVE  /\ machine'[m].phase = machine[m].phase
                          /\ machine'[m].fin = machine[m].fin
                          /\ machine'[m].pid = machine[m].pid
                          /\ machine'[m].link = machine[m].link
                          /\ machine'[m].cond.launched = machine[m].cond.launched
      BY DEF WriteBeat
    <2>2. gc[m].updated.launched = "True" /\ machine[m].pid # NoID
      BY <2>1 DEF WriteBeat, MachineInv, Collects, OverdueIsForced
    <2>3. machine[m].cond.launched = "True"
      BY <2>1, <2>2 DEF MachineInv, Recorded, Consistent
    <2>4. machine'[m] = [machine[m] EXCEPT !.cond = Overwrite(@, gc[m].updated)]
      BY <2>1 DEF WriteBeat
    <2> QED BY <1>0, <2>2, <2>3, <2>4, OverwriteFacts DEF MachineObjects
  <1>1. CASE GcList(m)
    <2>1. machine' = machine /\ pool' = pool /\ Present(m) /\ machine[m].phase # "none"
      BY <1>1 DEF GcList, clusterVars, Present
    <2>2. CASE gc'[m] = [GcIdle EXCEPT !.at = "listed", !.overdue = TRUE]
      BY <1>a, <2>1, <2>2 DEF GcIdle
    <2>3. CASE /\ machine[m].cond.launched = "True"
               /\ gc'[m] = [at |-> "listed", overdue |-> FALSE, pid |-> machine[m].pid,
                            stored |-> machine[m].cond, updated |-> NoConds]
      <3>1. machine[m].pid # NoID
        BY <2>1, <2>3 DEF MachineInv, Recorded, Consistent
      <3>2. gc'[m].at = "listed" /\ gc'[m].stored = machine[m].cond
        BY <2>3, ListedFields
      <3> QED BY <1>a, <2>1, <2>3, <3>1, <3>2
    <2> QED BY <1>1, <2>2, <2>3 DEF GcList
  <1>2. CASE GcCloudList(m)
    <2>1. CASE gc[m].overdue
      <3>1. gc'[m] = [gc[m] EXCEPT !.at = "force"] /\ machine' = machine /\ pool' = pool
        BY <1>2, <2>1 DEF GcCloudList, clusterVars
      <3>2. machine[m].phase # "none"
        BY <1>2 DEF GcCloudList, MachineInv, Guarded
      <3> QED BY <1>0, <1>a, <3>1, <3>2 DEF GcStates
    <2>2. CASE ~gc[m].overdue
      <3>1. \E u \in {MarkReady(gc[m].stored), MarkNotReady(gc[m].stored)} : Beat(m, u)
        BY <1>2, <2>2 DEF GcCloudList
      <3>2. \A u \in {MarkReady(gc[m].stored), MarkNotReady(gc[m].stored)} :
              u \in Conds /\ u.launched = gc[m].stored.launched
        <4>1. /\ MarkReady(gc[m].stored) \in Conds
              /\ MarkReady(gc[m].stored).launched = gc[m].stored.launched
          BY <1>0, MarkTrueFacts
        <4>2. /\ MarkNotReady(gc[m].stored) \in Conds
              /\ MarkNotReady(gc[m].stored).launched = gc[m].stored.launched
          BY <1>0, MarkFalseFacts
        <4> QED BY <4>1, <4>2
      <3> QED BY <1>c, <1>2, <2>2, <3>1, <3>2 DEF GcCloudList
    <2> QED BY <2>1, <2>2
  <1>3. CASE GcCloudListFails(m)
    BY <1>a, <1>b, <1>3 DEF GcCloudListFails, clusterVars
  <1>4. CASE GcForce(m)
    <2>1. CASE Present(m)
      <3>1. machine'[m] = Blank("forced") /\ gc'[m].at = "idle" /\ pool' = pool
        BY <1>b, <1>4, <2>1 DEF GcForce
      <3>2. "forced" \in Phases \ {"none", "present"} /\ "forced" # "finalized"
        BY DEF Phases
      <3> QED BY <3>1, <3>2, Disappears
    <2>2. CASE ~Present(m)
      BY <1>a, <1>b, <1>4, <2>2 DEF GcForce
    <2> QED BY <2>1, <2>2
  <1>5. ASSUME WriteBeat(m), gc'[m].at \in {"idle", "doomed"},
               gc'[m].at = "idle" \/ Present(m)
        PROVE  MachineInv(m)'
    <2>0. (Present(m)' <=> Present(m)) /\ pool' = pool
      BY <1>d, <1>5 DEF WriteBeat, Present
    <2>1. Guarded(m)'
      BY <1>d, <1>5, <2>0 DEF MachineInv, Guarded, Present
    <2>2. Collects(m)' /\ OverdueIsForced(m)'
      BY <1>5 DEF Collects, OverdueIsForced
    <2>3. Finalizes(m)'
      BY <1>d, <1>5, <2>0 DEF MachineInv, Finalizes
    <2> QED BY <1>d, <1>5, <2>1, <2>2, <2>3, WorkKept DEF MachineInv
  <1>6. CASE GcBeat(m) \/ GcBeatRace(m)
    <2>1. gc'[m] = GcIdle \/ (gc'[m] = [GcIdle EXCEPT !.at = "doomed"] /\ Present(m))
      BY <1>6 DEF GcBeat, GcBeatRace
    <2>2. gc'[m].at = "idle" \/ (gc'[m].at = "doomed" /\ Present(m))
      BY <2>1 DEF GcIdle
    <2> QED BY <1>5, <1>6, <2>2 DEF GcBeat, GcBeatRace
  <1>7. CASE GcDelete(m)
    BY <1>b, <1>7, DeletionStep DEF GcDelete
  <1>8. ASSUME NEW g \in Gens, GcNode(m, g) PROVE MachineInv(m)'
    BY <1>8, Frame DEF GcNode
  <1> QED
    BY <1>1, <1>2, <1>3, <1>4, <1>6, <1>7, <1>8 DEF GarbageCollection

\* A step of the lifecycle controller that leaves the machine's ID, link and launch
\* alone keeps the invariant if it keeps the four conjuncts about reconciliations.
LEMMA LifecycleFrame ==
    ASSUME TypeOK, NEW m \in Names, MachineInv(m),
           machine'[m].phase = machine[m].phase, machine'[m].pid = machine[m].pid,
           machine'[m].link = machine[m].link,
           machine'[m].cond.launched = machine[m].cond.launched,
           (lc'[m].at # "idle" \/ pool'[m].gen # 0) => (Present(m) => machine'[m].fin),
           pool'[m].gen # pool[m].gen => machine[m].pid = NoID,
           pool[m].st = "absent" =>
               pool'[m].st = "absent" \/ (machine[m].pid = NoID /\ machine[m].phase # "finalized"),
           machine[m].phase = "none" => lc'[m].at = "idle" /\ pool'[m].gen = 0,
           mt'[m] = mt[m], gc'[m] = gc[m],
           machine[m].phase = "finalized" => lc'[m].at \notin Launching,
           CallsCloud(m)', Writes(m)', Lags(m)', Read(m)'
    PROVE  MachineInv(m)'
  <1>0. Present(m)' <=> Present(m)
    BY DEF Present
  <1>1. Guarded(m)'
    BY <1>0 DEF MachineInv, Guarded
  <1>2. Recorded(m)'
    BY <1>0 DEF MachineInv, Recorded, Consistent
  <1>3. Collects(m)' /\ OverdueIsForced(m)'
    BY <1>0 DEF MachineInv, Collects, OverdueIsForced
  <1>4. Finalizes(m)'
    BY <1>0 DEF MachineInv, Finalizes
  <1> QED BY <1>1, <1>2, <1>3, <1>4 DEF MachineInv

\* A reconciliation ends without having written anything.
LEMMA ToIdle ==
    ASSUME TypeOK, NEW m \in Names, MachineInv(m), lc'[m] = LcIdle,
           machine'[m] = machine[m], pool'[m] = pool[m], mt'[m] = mt[m], gc'[m] = gc[m]
    PROVE  MachineInv(m)'
  <1>1. lc'[m].at = "idle"
    <2>1. LcIdle.at = "idle"
      BY Zenon DEF LcIdle
    <2> QED BY <2>1, Zenon
  <1>2. CallsCloud(m)' /\ Writes(m)' /\ Lags(m)' /\ Read(m)'
    BY <1>1 DEF CallsCloud, Writes, Lags, Read, Launching, Finishing
  <1>3. /\ (lc'[m].at # "idle" \/ pool'[m].gen # 0) => (Present(m) => machine'[m].fin)
        /\ machine[m].phase = "none" => pool'[m].gen = 0
    BY <1>1 DEF MachineInv, Guarded
  <1> QED BY <1>1, <1>2, <1>3, LifecycleFrame DEF Launching

\* The start of a reconciliation: calls the cloud, or goes on with a copy that has
\* its ID, or gets it from the launch cache.
LEMMA BeginFacts ==
    ASSUME TypeOK, NEW m \in Names, NEW c \in Copies, Begin(m, c)
    PROVE  /\ lc'[m].stored = c
           /\ \/ /\ lc'[m].at \in {"get", "create"} /\ lc'[m].copy = c
                 /\ c.cond.launched # "True" /\ cache[m] = NoID
              \/ /\ lc'[m].at = "register" /\ lc'[m].copy = c
                 /\ c.cond.launched = "True"
              \/ /\ lc'[m].at = "register" /\ lc'[m].copy = WithDetails(c, cache[m])
                 /\ c.cond.launched # "True" /\ cache[m] # NoID
  <1>1. lc'[m] = [at |-> LaunchStep(m, c), stored |-> c,
                  copy |-> IF c.cond.launched # "True" /\ cache[m] # NoID
                           THEN WithDetails(c, cache[m]) ELSE c]
    BY DEF Begin, TypeOK, LifecycleTypeOK
  <1>2. /\ lc'[m].stored = c /\ lc'[m].at = LaunchStep(m, c)
        /\ lc'[m].copy = IF c.cond.launched # "True" /\ cache[m] # NoID
                         THEN WithDetails(c, cache[m]) ELSE c
    BY <1>1
  <1>3. /\ c.cond.launched = "True" => LaunchStep(m, c) = "register"
        /\ cache[m] # NoID => LaunchStep(m, c) = "register"
        /\ (c.cond.launched # "True" /\ cache[m] = NoID) => LaunchStep(m, c) \in {"get", "create"}
    BY DEF LaunchStep
  <1> QED BY <1>2, <1>3

\* The lifecycle controller up to the cloud's answer.
LEMMA LaunchInv ==
    ASSUME TypeOK, NEW m \in Names, MachineInv(m), UNCHANGED <<mt, nt, gc>>,
           \/ LcStart(m) \/ LcStartStale(m) \/ InformerSync(m) \/ LcCacheExpires(m)
           \/ LcCreate(m) \/ LcCreateRefused(m) \/ LcPoll(m)
           \/ LcNodeFound(m) \/ LcNodeTimeout(m) \/ LcGet(m)
    PROVE  MachineInv(m)'
  <1> USE DEF TypeOK, ClusterTypeOK, LifecycleTypeOK
  <1>0. /\ machine[m] \in MachineObjects /\ machine[m].cond \in Conds
        /\ machine[m].pid \in IDs /\ machine[m].link \in IDs /\ pool[m] \in Pools
        /\ lc[m] \in LcStates /\ lc[m].stored \in Copies /\ lc[m].copy \in Copies
        /\ lc[m].copy.cond \in Conds /\ cache[m] \in IDs
    BY DEF MachineObjects, LcStates, Copies
  <1>1. CASE LcStart(m)
    <2> DEFINE c == [pid |-> machine[m].pid, link |-> machine[m].link, cond |-> machine[m].cond]
    <2>1. c \in Copies /\ Begin(m, c)
      BY <1>0, <1>1 DEF Copies, LcStart
    <2>2. /\ machine'[m] = [machine[m] EXCEPT !.fin = TRUE] /\ Present(m)
          /\ pool' = pool /\ cache' = cache
      BY <1>1 DEF LcStart, Live
    <2>3. /\ machine'[m].phase = "present" /\ machine'[m].fin
          /\ machine'[m].pid = machine[m].pid /\ machine'[m].link = machine[m].link
          /\ machine'[m].cond = machine[m].cond
      BY <1>0, <2>2 DEF MachineObjects, Present
    <2>4. Consistent(c)
      BY <2>2 DEF MachineInv, Recorded, Consistent
    <2>5. /\ c.pid = machine[m].pid /\ c.link = machine[m].link
          /\ machine[m].pid # NoID => machine[m].link = machine[m].pid
      BY <2>2 DEF MachineInv, Recorded
    <2> HIDE DEF c
    <2>a. cache[m] # NoID => /\ WithDetails(c, cache[m]).pid = cache[m]
                             /\ WithDetails(c, cache[m]).link = cache[m]
                             /\ WithDetails(c, cache[m]).cond.launched = "True"
      BY <1>0, <2>1, CopyFacts
    <2>b. /\ lc'[m].stored = c
          /\ \/ /\ lc'[m].at \in {"get", "create"} /\ lc'[m].copy = c
                /\ c.cond.launched # "True" /\ cache[m] = NoID
             \/ /\ lc'[m].at = "register" /\ lc'[m].copy = c
                /\ c.cond.launched = "True"
             \/ /\ lc'[m].at = "register" /\ lc'[m].copy = WithDetails(c, cache[m])
                /\ c.cond.launched # "True" /\ cache[m] # NoID
      BY <2>1, BeginFacts
    <2>6. /\ lc'[m].stored = c
          /\ \/ /\ lc'[m].at \in {"get", "create"} /\ lc'[m].copy = c
                /\ c.cond.launched # "True"
             \/ lc'[m].at = "register" /\ lc'[m].copy = c
             \/ /\ lc'[m].at = "register" /\ c.cond.launched # "True" /\ cache[m] # NoID
                /\ lc'[m].copy.pid = cache[m] /\ lc'[m].copy.link = cache[m]
                /\ lc'[m].copy.cond.launched = "True"
      BY <2>a, <2>b
    <2>7. CallsCloud(m)' /\ Read(m)' /\ Lags(m)'
      BY <2>3, <2>4, <2>5, <2>6 DEF CallsCloud, Lags, Read, Consistent, Launching
    <2>8. Writes(m)'
      BY <2>2, <2>3, <2>4, <2>5, <2>6 DEF Writes, Consistent, Finishing
    <2> QED BY <2>2, <2>3, <2>7, <2>8, LifecycleFrame DEF Present
  <1>2. CASE LcStartStale(m)
    <2>1. /\ lc[m].at = "lagging" /\ cache[m] # NoID /\ lc[m].stored.pid = NoID
          /\ machine' = machine /\ pool' = pool /\ cache' = cache
          /\ machine[m].pid \in {NoID, cache[m]}
          /\ Present(m) => machine[m].link = cache[m]
          /\ lc[m].stored.cond.launched # "True"
      BY <1>2 DEF LcStartStale, clusterVars, MachineInv, Lags, Recorded, Read, Consistent
    <2>2. /\ lc'[m].stored = lc[m].stored /\ lc'[m].at = "register"
          /\ lc'[m].copy = WithDetails(lc[m].stored, cache[m])
      BY <1>0, <1>2, <2>1, BeginFacts DEF LcStartStale
    <2>a. /\ lc'[m].copy.pid = cache[m] /\ lc'[m].copy.link = cache[m]
          /\ lc'[m].copy.cond.launched = "True"
      <3>1. /\ WithDetails(lc[m].stored, cache[m]).pid = cache[m]
            /\ WithDetails(lc[m].stored, cache[m]).link = cache[m]
            /\ WithDetails(lc[m].stored, cache[m]).cond.launched = "True"
        BY <1>0, CopyFacts
      <3> QED BY <2>2, <3>1
    <2>b. Present(m)' <=> Present(m)
      BY <2>1 DEF Present
    <2>c. CallsCloud(m)' /\ Lags(m)'
      BY <2>2 DEF CallsCloud, Lags, Launching
    <2>d. Read(m)'
      BY <2>1, <2>2, <2>b DEF Read, MachineInv, Consistent
    <2>e. Writes(m)'
      BY <2>1, <2>2, <2>a, <2>b DEF Writes, Consistent, Finishing
    <2>3. CallsCloud(m)' /\ Writes(m)' /\ Lags(m)' /\ Read(m)'
      BY <2>c, <2>d, <2>e
    <2>4. machine[m].phase # "none" /\ (Present(m) => machine[m].fin)
      BY <2>1 DEF MachineInv, Guarded
    <2> QED BY <2>1, <2>2, <2>3, <2>4, LifecycleFrame DEF Launching
  <1>3. CASE InformerSync(m)
    BY <1>3, ToIdle DEF InformerSync, clusterVars
  <1>4. CASE LcCacheExpires(m)
    BY <1>4 DEF LcCacheExpires, clusterVars, MachineInv, Guarded, Recorded, CallsCloud, Writes,
                Lags, Read, Collects, OverdueIsForced, Finalizes, Consistent, Present,
                Launching, Finishing
  <1>5. ASSUME lc[m].at \in Launching, UNCHANGED clusterVars,
               lc'[m].stored = lc[m].stored,
               \/ lc'[m].at \in Launching /\ lc'[m].copy = lc[m].copy /\ cache' = cache
               \/ /\ lc'[m].at = "register" /\ cache' = cache
                  /\ lc'[m].copy.pid = lc[m].copy.pid /\ lc'[m].copy.link = lc[m].copy.link
                  /\ lc'[m].copy.cond.launched # "True"
               \/ \E g \in Gens :
                    /\ lc'[m].at = "register" /\ cache'[m] = g
                    /\ lc'[m].copy.pid = g /\ lc'[m].copy.link = g
                    /\ lc'[m].copy.cond.launched = "True"
        PROVE  MachineInv(m)'
    <2>1. /\ lc[m].copy = lc[m].stored /\ lc[m].stored.pid = NoID /\ machine[m].pid = NoID
          /\ Present(m) => machine[m].link = lc[m].stored.link
          /\ Consistent(lc[m].stored)
          /\ machine[m].phase \notin {"none", "finalized"} /\ (Present(m) => machine[m].fin)
      BY <1>5 DEF MachineInv, CallsCloud, Read, Guarded, Finalizes, Launching
    <2>2. \A g \in Gens : g # NoID
      BY DEF Gens, NoID
    <2>a. CallsCloud(m)' /\ Lags(m)' /\ Read(m)'
      BY <1>5, <2>1, <2>2 DEF CallsCloud, Lags, Read, Consistent, Launching, Present, clusterVars
    <2>3. CallsCloud(m)' /\ Writes(m)' /\ Lags(m)' /\ Read(m)'
      BY <1>5, <2>1, <2>2, <2>a DEF Writes, Consistent, Launching, Finishing, Present, clusterVars
    <2> QED BY <1>5, <2>1, <2>3, LifecycleFrame DEF clusterVars
  <1>a. \A g \in Gens : LaunchSucceeds(m, g) =>
           /\ lc'[m].stored = lc[m].stored /\ lc'[m].at = "register" /\ cache'[m] = g
           /\ lc'[m].copy.pid = g /\ lc'[m].copy.link = g
           /\ lc'[m].copy.cond.launched = "True"
    <2> SUFFICES ASSUME NEW g \in Gens, LaunchSucceeds(m, g)
                 PROVE  /\ lc'[m].stored = lc[m].stored /\ lc'[m].at = "register"
                        /\ cache'[m] = g /\ lc'[m].copy.pid = g /\ lc'[m].copy.link = g
                        /\ lc'[m].copy.cond.launched = "True"
      OBVIOUS
    <2>1. /\ lc'[m] = [lc[m] EXCEPT !.at = "register", !.copy = WithDetails(@, g)]
          /\ cache'[m] = g
      BY DEF LaunchSucceeds
    <2>2. /\ lc'[m].stored = lc[m].stored /\ lc'[m].at = "register"
          /\ lc'[m].copy = WithDetails(lc[m].copy, g)
      BY <1>0, <2>1 DEF LcStates
    <2>3. /\ WithDetails(lc[m].copy, g).pid = g /\ WithDetails(lc[m].copy, g).link = g
          /\ WithDetails(lc[m].copy, g).cond.launched = "True"
      BY <1>0, CopyFacts, IDFacts
    <2> QED BY <2>1, <2>2, <2>3
  <1>b. \A v \in {"False", "Blocked"} :
          lc' = [lc EXCEPT ![m].at = "register", ![m].copy.cond = MarkNotLaunched(@, v)] =>
             /\ lc'[m].stored = lc[m].stored /\ lc'[m].at = "register"
             /\ lc'[m].copy.pid = lc[m].copy.pid /\ lc'[m].copy.link = lc[m].copy.link
             /\ lc'[m].copy.cond.launched # "True"
    <2> SUFFICES ASSUME NEW v \in {"False", "Blocked"},
                        lc' = [lc EXCEPT ![m].at = "register",
                                         ![m].copy.cond = MarkNotLaunched(@, v)]
                 PROVE  /\ lc'[m].stored = lc[m].stored /\ lc'[m].at = "register"
                        /\ lc'[m].copy.pid = lc[m].copy.pid
                        /\ lc'[m].copy.link = lc[m].copy.link
                        /\ lc'[m].copy.cond.launched # "True"
      OBVIOUS
    <2>1. /\ lc'[m].stored = lc[m].stored /\ lc'[m].at = "register"
          /\ lc'[m].copy = [lc[m].copy EXCEPT !.cond = MarkNotLaunched(@, v)]
      BY <1>0 DEF LcStates
    <2>2. MarkNotLaunched(lc[m].copy.cond, v).launched # "True"
      BY <1>0, MarkFalseFacts
    <2> QED BY <1>0, <2>1, <2>2 DEF Copies
  <1>c. InstanceIDs(m) \ {NoID} \subseteq Gens
    BY InstanceIDsType, IDFacts
  <1>6. CASE LcCreate(m)
    <2>1. /\ lc[m].at = "create" /\ machine' = machine /\ cache' = cache
          /\ lc' = [lc EXCEPT ![m].at = "poll"]
      BY <1>6 DEF LcCreate
    <2>2. /\ lc'[m].at = "poll" /\ lc'[m].stored = lc[m].stored /\ lc'[m].copy = lc[m].copy
      BY <1>0, <2>1 DEF LcStates
    <2>3. /\ machine[m].pid = NoID /\ machine[m].phase \notin {"none", "finalized"}
          /\ Present(m) => machine[m].fin
      BY <2>1 DEF MachineInv, CallsCloud, Guarded, Finalizes, Launching
    <2>4. CallsCloud(m)' /\ Writes(m)' /\ Lags(m)' /\ Read(m)'
      BY <2>1, <2>2, <2>3 DEF MachineInv, CallsCloud, Writes, Lags, Read, Consistent,
                              Launching, Finishing, Present
    <2>5. /\ machine[m].phase # "none" /\ machine[m].phase # "finalized"
          /\ machine'[m] = machine[m] /\ mt'[m] = mt[m] /\ gc'[m] = gc[m]
      BY <2>1, <2>3
    <2> QED BY <2>3, <2>4, <2>5, LifecycleFrame
  <1>7. CASE LcCreateRefused(m)
    BY <1>b, <1>5, <1>7 DEF LcCreateRefused, LaunchFails, Launching
  <1>8. CASE LcPoll(m)
    <2>1. CASE pool[m].st = "up"
      <3>1. lc' = [lc EXCEPT ![m].at = "await"] /\ cache' = cache
        BY <1>8, <2>1 DEF LcPoll
      <3>2. lc'[m].at = "await" /\ lc'[m].stored = lc[m].stored /\ lc'[m].copy = lc[m].copy
        BY <1>0, <3>1 DEF LcStates
      <3> QED BY <1>5, <1>8, <3>1, <3>2 DEF LcPoll, Launching
    <2>2. CASE pool[m].st # "up"
      BY <1>b, <1>5, <1>8, <2>2 DEF LcPoll, LaunchFails, Launching
    <2> QED BY <2>1, <2>2
  <1>9. CASE LcNodeFound(m)
    BY <1>a, <1>c, <1>5, <1>9 DEF LcNodeFound, Launching
  <1>10. CASE LcNodeTimeout(m)
    BY <1>b, <1>5, <1>10 DEF LcNodeTimeout, Launching
  <1>11. CASE LcGet(m)
    BY <1>a, <1>b, <1>c, <1>5, <1>11 DEF LcGet, Launching
  <1> QED BY <1>1, <1>2, <1>3, <1>4, <1>6, <1>7, <1>8, <1>9, <1>10, <1>11

\* The lifecycle controller from registration to the two patches.
LEMMA FinishInv ==
    ASSUME TypeOK, NEW m \in Names, MachineInv(m), UNCHANGED <<mt, nt, gc>>,
           \/ LcRegister(m) \/ LcSyncFails(m) \/ LcPatch(m)
           \/ LcStatus(m) \/ LcStatusLag(m) \/ LcPatchFails(m)
    PROVE  MachineInv(m)'
  <1> USE DEF TypeOK, ClusterTypeOK, LifecycleTypeOK
  <1>0. /\ machine[m] \in MachineObjects /\ machine[m].cond \in Conds
        /\ lc[m] \in LcStates /\ lc[m].stored \in Copies /\ lc[m].copy \in Copies
        /\ lc[m].copy.cond \in Conds
    BY DEF MachineObjects, LcStates, Copies
  <1>a. lc[m].at # "idle" => machine[m].phase # "none" /\ (Present(m) => machine[m].fin)
    BY DEF MachineInv, Guarded
  <1>b. \A d \in Initialization(m, lc[m].copy, lc[m].copy.cond) :
          d \in Conds /\ d.launched = lc[m].copy.cond.launched
    <2>1. \A cond \in Conds : \A d \in Initialization(m, lc[m].copy, cond) :
            d \in Conds /\ d.launched = cond.launched
      BY <1>0, RegistrationFacts, Zenon
    <2> QED BY <1>0, <2>1, Zenon
  <1>1. ASSUME lc[m].at = "register", NEW cond \in Conds, ToPatch(m, cond),
               cond.launched = lc[m].copy.cond.launched,
               UNCHANGED <<machine, pool, cache>>
        PROVE  MachineInv(m)'
    <2>1. CASE lc'[m] = LcIdle
      BY <1>1, <2>1, ToIdle
    <2>2. CASE lc'[m] = [lc[m] EXCEPT !.at = "patch", !.copy.cond = cond]
      <3>1. /\ lc'[m].at = "patch" /\ lc'[m].stored = lc[m].stored
            /\ lc'[m].copy = [lc[m].copy EXCEPT !.cond = cond]
        BY <1>0, <2>2 DEF LcStates
      <3>2. /\ lc'[m].copy.pid = lc[m].copy.pid /\ lc'[m].copy.link = lc[m].copy.link
            /\ lc'[m].copy.cond.launched = lc[m].copy.cond.launched
        BY <1>0, <1>1, <3>1 DEF Copies
      <3>3. Writes(m)'
        BY <1>1, <3>1, <3>2 DEF MachineInv, Writes, Consistent, Finishing, Present
      <3>4. CallsCloud(m)' /\ Lags(m)' /\ Read(m)'
        BY <1>1, <3>1 DEF MachineInv, CallsCloud, Lags, Read, Consistent, Launching, Present
      <3> QED BY <1>a, <1>1, <3>1, <3>3, <3>4, LifecycleFrame DEF Launching
    <2> QED BY <1>1, <2>1, <2>2 DEF ToPatch
  <1>2. CASE LcRegister(m)
    BY <1>0, <1>1, <1>2, RegistrationFacts DEF LcRegister
  <1>3. CASE LcSyncFails(m)
    <2>1. PICK cond \in Initialization(m, lc[m].copy, lc[m].copy.cond) : ToPatch(m, cond)
      BY <1>3 DEF LcSyncFails
    <2>2. cond \in Conds /\ cond.launched = lc[m].copy.cond.launched
      BY <1>b, <2>1, Zenon
    <2>3. lc[m].at = "register" /\ UNCHANGED <<machine, pool, cache>>
      BY <1>3 DEF LcSyncFails
    <2> QED BY <1>1, <2>1, <2>2, <2>3
  <1>4. CASE LcPatchFails(m)
    BY <1>4, ToIdle DEF LcPatchFails
  <1>5. CASE LcPatch(m)
    <2> DEFINE o == IF Expired(lc[m].copy) THEN Deleted(machine[m]) ELSE machine[m]
               wrote == lc[m].copy # lc[m].stored /\ Present(m)
    <2>1. /\ lc[m].at = "patch" /\ pool' = pool /\ cache' = cache
          /\ machine'[m] = IF wrote /\ lc[m].copy.link # lc[m].stored.link
                           THEN [o EXCEPT !.link = lc[m].copy.link] ELSE o
          /\ lc'[m] = IF wrote THEN [lc[m] EXCEPT !.at = "status"] ELSE LcIdle
      BY <1>5 DEF LcPatch
    <2>2. /\ o \in MachineObjects /\ o.phase = machine[m].phase /\ o.fin = machine[m].fin
          /\ o.pid = machine[m].pid /\ o.link = machine[m].link /\ o.cond = machine[m].cond
      BY <1>0, <1>a, <2>1, DeletedKeeps, DeleteFacts DEF Present
    <2> HIDE DEF o
    <2>3. /\ machine'[m].phase = machine[m].phase /\ machine'[m].fin = machine[m].fin
          /\ machine'[m].pid = machine[m].pid /\ machine'[m].cond = machine[m].cond
          /\ machine'[m].link = IF wrote /\ lc[m].copy.link # lc[m].stored.link
                                THEN lc[m].copy.link ELSE machine[m].link
      BY <2>1, <2>2 DEF MachineObjects
    <2>4. /\ Writes(m) /\ Recorded(m) /\ Read(m)
      BY DEF MachineInv
    <2>5. Present(m)' <=> Present(m)
      BY <2>3 DEF Present
    \* A link that the patch adds is the ID that the machine has, if it has one.
    <2>6. Recorded(m)'
      BY <2>1, <2>3, <2>4, <2>5 DEF Recorded, Writes, Consistent, Finishing
    <2>7. CASE wrote
      <3>1. /\ lc'[m].at = "status" /\ lc'[m].stored = lc[m].stored /\ lc'[m].copy = lc[m].copy
        BY <1>0, <2>1, <2>7 DEF LcStates
      <3>2. Present(m) => machine'[m].link = lc[m].copy.link
        BY <2>1, <2>3, <2>4, <2>7 DEF Writes, Finishing
      <3>3. Writes(m)'
        BY <2>1, <2>3, <2>4, <2>5, <3>1, <3>2 DEF Writes, Consistent, Finishing
      <3>4. CallsCloud(m)' /\ Lags(m)' /\ Read(m)'
        BY <2>1, <2>3, <2>4, <2>5, <3>1 DEF CallsCloud, Lags, Read, Consistent, Launching
      <3>5. Guarded(m)'
        BY <1>a, <2>1, <2>3, <2>5 DEF Guarded
      <3>6. Collects(m)' /\ OverdueIsForced(m)' /\ Finalizes(m)'
        BY <2>1, <2>3, <2>5, <3>1 DEF MachineInv, Collects, OverdueIsForced, Finalizes, Launching
      <3> QED BY <2>6, <3>3, <3>4, <3>5, <3>6 DEF MachineInv
    <2>8. CASE ~wrote
      <3>1. lc'[m].at = "idle" /\ machine'[m].link = machine[m].link
        BY <2>1, <2>3, <2>8 DEF LcIdle
      <3>2. CallsCloud(m)' /\ Writes(m)' /\ Lags(m)' /\ Read(m)'
        BY <3>1 DEF CallsCloud, Writes, Lags, Read, Launching, Finishing
      <3> QED BY <1>a, <2>1, <2>3, <3>1, <3>2, LifecycleFrame DEF Launching
    <2> QED BY <2>7, <2>8
  <1>6. ASSUME WriteStatus(m),
               UNCHANGED pool,
               \/ lc'[m].at = "idle"
               \/ /\ lc'[m].at = "lagging" /\ Present(m) /\ cache' = cache
                  /\ lc'[m].stored = lc[m].stored /\ lc[m].copy.pid # lc[m].stored.pid
        PROVE  MachineInv(m)'
    <2>1. lc[m].at = "status" /\ Writes(m) /\ Recorded(m) /\ Read(m)
      BY <1>6 DEF WriteStatus, MachineInv
    <2>2. CASE ~Present(m)
      <3>1. machine' = machine /\ lc'[m].at = "idle"
        BY <1>6, <2>2 DEF WriteStatus
      <3>2. CallsCloud(m)' /\ Writes(m)' /\ Lags(m)' /\ Read(m)'
        BY <3>1 DEF CallsCloud, Writes, Lags, Read, Launching, Finishing
      <3> QED BY <1>a, <1>6, <2>1, <2>2, <3>1, <3>2, LifecycleFrame DEF Launching
    <2>3. CASE Present(m)
      <3>1. machine'[m] = [machine[m] EXCEPT
               !.pid = IF lc[m].copy.pid # lc[m].stored.pid THEN lc[m].copy.pid ELSE @,
               !.cond = IF lc[m].copy.cond # lc[m].stored.cond
                        THEN Overwrite(@, lc[m].copy.cond) ELSE @]
        BY <1>6, <2>3 DEF WriteStatus
      <3>2. /\ machine'[m].phase = "present" /\ machine'[m].fin = machine[m].fin
            /\ machine'[m].link = machine[m].link
            /\ machine'[m].pid = IF lc[m].copy.pid # lc[m].stored.pid
                                 THEN lc[m].copy.pid ELSE machine[m].pid
            /\ machine'[m].cond = IF lc[m].copy.cond # lc[m].stored.cond
                                  THEN Overwrite(machine[m].cond, lc[m].copy.cond)
                                  ELSE machine[m].cond
        BY <1>0, <2>3, <3>1 DEF MachineObjects, Present
      <3>3. machine'[m].cond.launched = IF lc[m].copy.cond # lc[m].stored.cond
                                        THEN lc[m].copy.cond.launched
                                        ELSE machine[m].cond.launched
        <4>1. Overwrite(machine[m].cond, lc[m].copy.cond).launched = lc[m].copy.cond.launched
          BY <1>0, OverwriteFacts
        <4>2. CASE lc[m].copy.cond # lc[m].stored.cond
          BY <3>2, <4>1, <4>2
        <4>3. CASE lc[m].copy.cond = lc[m].stored.cond
          BY <3>2, <4>3
        <4> QED BY <4>2, <4>3
      <3>4. /\ machine[m].pid # NoID => machine'[m].pid = machine[m].pid
            /\ lc[m].copy.pid # lc[m].stored.pid => machine'[m].link = machine'[m].pid
            /\ machine'[m].pid = lc[m].copy.pid
        BY <2>1, <2>3, <3>2 DEF Writes, Read, Finishing
      <3>5. Recorded(m)'
        BY <2>1, <2>3, <3>2, <3>3, <3>4 DEF Recorded, Writes, Read, Consistent, Finishing, Present
      <3>6. CallsCloud(m)' /\ Writes(m)' /\ Lags(m)' /\ Read(m)'
        BY <1>6, <2>1, <2>3, <3>2, <3>4
        DEF CallsCloud, Writes, Lags, Read, Consistent, Launching, Finishing, Present
      <3>7. Guarded(m)' /\ Collects(m)' /\ OverdueIsForced(m)' /\ Finalizes(m)'
        BY <1>a, <1>6, <2>1, <2>3, <3>2, <3>4
        DEF MachineInv, Guarded, Collects, OverdueIsForced, Finalizes, Present
      <3> QED BY <3>5, <3>6, <3>7 DEF MachineInv
    <2> QED BY <2>2, <2>3
  <1>7. CASE LcStatus(m)
    BY <1>6, <1>7 DEF LcStatus, WriteStatus, LcIdle
  <1>8. CASE LcStatusLag(m)
    <2>1. lc'[m].at = "lagging" /\ lc'[m].stored = lc[m].stored
      BY <1>8 DEF LcStatusLag, LcIdle
    <2> QED BY <1>6, <1>8, <2>1 DEF LcStatusLag, WriteStatus
  <1> QED BY <1>2, <1>3, <1>4, <1>5, <1>7, <1>8

\* A step for one machine changes nothing of the others that the invariant mentions.
LEMMA OthersUnchanged ==
    ASSUME TypeOK, NEW m \in Names, NEW n \in Names \ {m},
           \/ Environment(m) /\ UNCHANGED <<lc, cache, mt, nt, gc>>
           \/ Lifecycle(m) /\ UNCHANGED <<mt, nt, gc>>
           \/ MachineTermination(m) /\ UNCHANGED <<lc, cache, nt, gc>>
           \/ GarbageCollection(m) /\ UNCHANGED <<lc, cache, mt, nt>>
           \/ \E g \in Gens : NodeTermination(m, g) /\ UNCHANGED <<lc, cache, mt, gc>>
    PROVE  /\ machine'[n] = machine[n] /\ pool'[n] = pool[n] /\ lc'[n] = lc[n]
           /\ cache'[n] = cache[n] /\ mt'[n] = mt[n] /\ gc'[n] = gc[n]
  <1> USE DEF TypeOK, ClusterTypeOK, LifecycleTypeOK, MachineTerminationTypeOK,
              GarbageCollectionTypeOK, clusterVars
  <1>1. ASSUME Environment(m), UNCHANGED <<lc, cache, mt, nt, gc>>
        PROVE  machine'[n] = machine[n] /\ pool'[n] = pool[n]
    BY <1>1 DEF Environment, UserCreate, UserDelete, PoolLost, CreateEnds, DeleteEnds, NodeJoin,
                Clock, DeletionOverdue, RegistrationExpires, NotReadyTooLong, UserDeleteNode,
                NodeReady, NodeNotReady, NodeLost
  <1>2. ASSUME Lifecycle(m)
        PROVE  /\ machine'[n] = machine[n] /\ pool'[n] = pool[n]
               /\ lc'[n] = lc[n] /\ cache'[n] = cache[n]
    <2>1. CASE LcStart(m) \/ LcStartStale(m) \/ InformerSync(m) \/ LcCacheExpires(m)
      BY <2>1 DEF LcStart, LcStartStale, InformerSync, LcCacheExpires, Begin
    <2>2. CASE LcCreate(m)
      BY <2>2 DEF LcCreate, BeginCreateOrUpdate
    <2>3. CASE LcCreateRefused(m) \/ LcPoll(m) \/ LcNodeFound(m) \/ LcNodeTimeout(m) \/ LcGet(m)
      BY <2>3 DEF LcCreateRefused, LcPoll, LcNodeFound, LcNodeTimeout, LcGet,
                  LaunchSucceeds, LaunchFails
    <2>4. CASE LcRegister(m) \/ LcSyncFails(m)
      BY <2>4 DEF LcRegister, LcSyncFails, ToPatch
    <2>5. CASE LcPatch(m) \/ LcStatus(m) \/ LcStatusLag(m) \/ LcPatchFails(m)
      BY <2>5 DEF LcPatch, LcStatus, LcStatusLag, LcPatchFails, WriteStatus
    <2> QED BY <1>2, <2>1, <2>2, <2>3, <2>4, <2>5 DEF Lifecycle
  <1>3. ASSUME MachineTermination(m)
        PROVE  machine'[n] = machine[n] /\ pool'[n] = pool[n] /\ mt'[n] = mt[n]
    BY <1>3 DEF MachineTermination, MtDeleteNodes, MtNoNodes, MtNeverLaunched, MtDelete,
                BeginDelete, MtNotFound, MtPoll, MtDeleteFails, MtRemove
  <1>4. ASSUME GarbageCollection(m)
        PROVE  machine'[n] = machine[n] /\ pool'[n] = pool[n] /\ gc'[n] = gc[n]
    BY <1>4 DEF GarbageCollection, GcList, GcCloudList, Beat, GcCloudListFails, GcForce,
                WriteBeat, GcBeat, GcBeatRace, GcDelete, GcNode
  <1>5. ASSUME NEW g \in Gens, NodeTermination(m, g)
        PROVE  machine'[n] = machine[n] /\ pool'[n] = pool[n]
    BY <1>5 DEF NodeTermination, NtDrain, NtNotDrained, DeleteAllMachines, NtDelete,
                BeginDelete, NtRemove, NtDeleteFails
  <1> QED BY <1>1, <1>2, <1>3, <1>4, <1>5

\* A restart forgets reconciliations, and the invariant asks nothing of idle ones.
LEMMA CrashInv ==
    ASSUME TypeOK, NEW m \in Names, MachineInv(m), Crash
    PROVE  MachineInv(m)'
  <1>1. /\ lc'[m].at = "idle" /\ mt'[m].at = "idle" /\ gc'[m].at = "idle"
        /\ machine' = machine /\ pool' = pool
    BY DEF Crash, LcIdle, MtIdle, GcIdle
  <1> QED
    BY <1>1 DEF MachineInv, Guarded, Recorded, CallsCloud, Writes, Lags, Read, Collects,
                OverdueIsForced, Finalizes, Consistent, Present, Launching, Finishing

\* The invariant holds initially.
LEMMA InitInv == Init => Inv
  <1> SUFFICES ASSUME Init, NEW m \in Names PROVE MachineInv(m)
    BY InitType DEF Inv
  <1>1. /\ lc[m].at = "idle" /\ mt[m].at = "idle" /\ gc[m].at = "idle" /\ pool[m].gen = 0
    BY DEF Init, ClusterInit, LifecycleInit, MachineTerminationInit, GarbageCollectionInit,
           LcIdle, MtIdle, GcIdle
  <1>2. machine[m].phase = "none" /\ machine[m].pid = NoID
    BY DEF Init, ClusterInit, Blank
  <1> QED
    BY <1>1, <1>2 DEF MachineInv, Guarded, Recorded, CallsCloud, Writes, Lags, Read, Collects,
                      OverdueIsForced, Finalizes, Present, Launching, Finishing

\* Every step keeps the invariant.
LEMMA NextInv == Inv /\ [Next]_vars => Inv'
  <1> SUFFICES ASSUME Inv, [Next]_vars, NEW n \in Names PROVE MachineInv(n)'
    BY NextType DEF Inv
  <1>0. TypeOK /\ \A m \in Names : MachineInv(m)
    BY DEF Inv
  <1>1. ASSUME NEW m \in Names,
               \/ Environment(m) /\ UNCHANGED <<lc, cache, mt, nt, gc>>
               \/ Lifecycle(m) /\ UNCHANGED <<mt, nt, gc>>
               \/ MachineTermination(m) /\ UNCHANGED <<lc, cache, nt, gc>>
               \/ GarbageCollection(m) /\ UNCHANGED <<lc, cache, mt, nt>>
               \/ \E g \in Gens : NodeTermination(m, g) /\ UNCHANGED <<lc, cache, mt, gc>>
        PROVE  MachineInv(n)'
    <2>1. CASE n = m
      <3>1. Lifecycle(m) /\ UNCHANGED <<mt, nt, gc>> => MachineInv(m)'
        BY <1>0, LaunchInv, FinishInv DEF Lifecycle
      <3> QED
        BY <1>0, <1>1, <2>1, <3>1, EnvironmentInv, MachineTerminationInv, GarbageCollectionInv,
           NodeTerminationInv
    <2>2. CASE n # m
      <3>1. n \in Names \ {m}
        BY <2>2
      <3>2. /\ machine'[n] = machine[n] /\ pool'[n] = pool[n] /\ lc'[n] = lc[n]
            /\ cache'[n] = cache[n] /\ mt'[n] = mt[n] /\ gc'[n] = gc[n]
        BY <1>0, <1>1, <3>1, OthersUnchanged
      <3> QED BY <1>0, <3>2, Frame
    <2> QED BY <2>1, <2>2
  <1>2. CASE Crash
    BY <1>0, <1>2, CrashInv
  <1>3. CASE UNCHANGED vars
    BY <1>0, <1>3, Frame DEF vars, clusterVars
  <1> QED BY <1>1, <1>2, <1>3 DEF Next

\* Inv is an invariant.
THEOREM Invariance == Spec => []Inv
  BY InitInv, NextInv, PTL DEF Spec

-----------------------------------------------------------------------------
(* What follows from it. *)

\* No request for a machine's pool is sent, and no pool of it is made, before its
\* finalizer is stored; no step takes the finalizer off a machine that exists.
THEOREM FinalizerFirst == Spec => []FinalizerGuardsPool
  <1>1. Inv => FinalizerGuardsPool
    BY DEF Inv, MachineInv, Guarded, FinalizerGuardsPool
  <1> QED BY <1>1, Invariance, PTL

\* When Finalize has let a machine go, its pool is gone and nobody makes it again.
THEOREM ExitIsClean == Spec => []CleanExit
  <1>1. Inv => CleanExit
    BY DEF Inv, MachineInv, Finalizes, CleanExit, Launching
  <1> QED BY <1>1, Invariance, PTL

\* Provider ID, linked annotation and MachineLaunched agree in spite of the two
\* patches, stale copies and restarts.
THEOREM LinkIsSound == Spec => []LinkedBeforeLaunched
  <1>1. Inv => LinkedBeforeLaunched
    BY DEF Inv, MachineInv, Recorded, Consistent, LinkedBeforeLaunched
  <1> QED BY <1>1, Invariance, PTL

\* Only LcCreate makes a pool, and it runs for machines without ID.
LEMMA OnlyCreateMakesPools ==
    ASSUME TypeOK, NEW m \in Names, MachineInv(m), pool'[m].gen # pool[m].gen,
           \/ Environment(m) \/ Lifecycle(m) \/ MachineTermination(m) \/ GarbageCollection(m)
           \/ \E g \in Gens : NodeTermination(m, g)
    PROVE  machine[m].pid = NoID
  <1> USE DEF TypeOK, ClusterTypeOK, clusterVars
  <1>0. pool[m] \in Pools
    OBVIOUS
  <1>a. pool'[m] # pool[m] /\ pool' # pool
    OBVIOUS
  <1>b. \A st : [pool EXCEPT ![m].st = st][m].gen = pool[m].gen
    BY <1>0 DEF Pools
  <1>1. ~Environment(m)
    <2>1. ~PoolLost(m) /\ ~CreateEnds(m) /\ ~DeleteEnds(m)
      BY <1>b DEF PoolLost, CreateEnds, DeleteEnds
    <2>2. ~UserCreate(m) /\ ~UserDelete(m) /\ ~NodeJoin(m) /\ ~Clock(m)
      BY <1>a DEF UserCreate, UserDelete, NodeJoin, Clock, DeletionOverdue,
                  RegistrationExpires, NotReadyTooLong
    <2>3. \A g \in Gens : /\ ~UserDeleteNode(m, g) /\ ~NodeReady(m, g)
                          /\ ~NodeNotReady(m, g) /\ ~NodeLost(m, g)
      BY <1>a DEF UserDeleteNode, NodeReady, NodeNotReady, NodeLost
    <2> QED BY <2>1, <2>2, <2>3 DEF Environment
  <1>c. ~BeginDelete(m)
    BY <1>b DEF BeginDelete
  <1>2. ~MachineTermination(m) /\ ~\E g \in Gens : NodeTermination(m, g)
    <2>1. ~MachineTermination(m)
      BY <1>a, <1>c DEF MachineTermination, MtDeleteNodes, MtNoNodes, MtNeverLaunched, MtDelete,
                        MtNotFound, MtPoll, MtDeleteFails, MtRemove
    <2>2. \A g \in Gens : ~NodeTermination(m, g)
      BY <1>a, <1>c DEF NodeTermination, NtDrain, NtNotDrained, NtDelete, NtRemove, NtDeleteFails
    <2> QED BY <2>1, <2>2
  <1>3. ~GarbageCollection(m)
    BY DEF GarbageCollection, GcList, GcCloudList, GcCloudListFails, GcForce,
           WriteBeat, GcBeat, GcBeatRace, GcDelete, GcNode
  <1>4. Lifecycle(m) => LcCreate(m)
    BY DEF Lifecycle, LcStart, LcStartStale, InformerSync, LcCacheExpires, LcCreateRefused,
           LcPoll, LcNodeFound, LcNodeTimeout, LcGet, LcRegister, LcSyncFails, LcPatch,
           WriteStatus, LcStatus, LcStatusLag, LcPatchFails
  <1>5. LcCreate(m) => machine[m].pid = NoID
    BY DEF LcCreate, MachineInv, CallsCloud, Launching
  <1> QED BY <1>1, <1>2, <1>3, <1>4, <1>5

\* A machine that has its provider ID never asks for another pool.
THEOREM PoolIsOnly == Spec => OnePoolPerMachine
  <1>1. ASSUME Inv, [Next]_vars, NEW n \in Names, pool'[n].gen # pool[n].gen
        PROVE  machine[n].pid = NoID
    <2>1. PICK m \in Names :
            \/ Environment(m) /\ UNCHANGED <<lc, cache, mt, nt, gc>>
            \/ Lifecycle(m) /\ UNCHANGED <<mt, nt, gc>>
            \/ MachineTermination(m) /\ UNCHANGED <<lc, cache, nt, gc>>
            \/ GarbageCollection(m) /\ UNCHANGED <<lc, cache, mt, nt>>
            \/ \E g \in Gens : NodeTermination(m, g) /\ UNCHANGED <<lc, cache, mt, gc>>
      BY <1>1 DEF Next, Crash, vars, clusterVars
    <2>2. TypeOK /\ MachineInv(n)
      BY <1>1 DEF Inv
    <2>3. n = m
      BY <1>1, <2>1, <2>2, OthersUnchanged
    <2> QED BY <1>1, <2>1, <2>2, <2>3, OnlyCreateMakesPools
  <1>2. Inv /\ [Next]_vars =>
          [\A m \in Names : pool'[m].gen # pool[m].gen => machine[m].pid = NoID]_vars
    BY <1>1
  <1>3. Spec => []Inv /\ [][Next]_vars
    BY Invariance, PTL DEF Spec
  <1>4. []Inv /\ [][Next]_vars => OnePoolPerMachine
    BY <1>2, PTL DEF OnePoolPerMachine
  <1> QED BY <1>3, <1>4

-----------------------------------------------------------------------------
(* The contract of Ownership. *)

\* A pool that was never made is absent; a machine that was deleted before it had its
\* finalizer never had a pool, and nobody works on it.
NeverMade(m) ==
    /\ pool[m].gen = 0 => pool[m].st = "absent"
    /\ machine[m].phase = "unguarded" => lc[m].at = "idle" /\ pool[m].gen = 0

Same(m) ==
    /\ machine'[m].phase = machine[m].phase
    /\ machine'[m].pid = NoID <=> machine[m].pid = NoID
    /\ pool'[m].st = "absent" <=> pool[m].st = "absent"

Claimed(m) ==
    /\ machine[m].phase = "none" /\ machine'[m].phase = "present"
    /\ machine[m].pid = NoID /\ machine'[m].pid = NoID /\ pool'[m] = pool[m]

Made(m) ==
    /\ machine'[m] = machine[m] /\ machine[m].phase \in {"present", "abandoned", "forced"}
    /\ machine[m].pid = NoID /\ pool[m].st = "absent" /\ pool'[m].st # "absent"

Unmade(m) == machine'[m] = machine[m] /\ pool'[m].st = "absent"

Bound(m) ==
    /\ machine[m].phase = "present" /\ machine'[m].phase = "present"
    /\ machine'[m].pid # NoID /\ pool'[m] = pool[m]

Gone(m) ==
    /\ machine[m].phase = "present" /\ machine'[m].pid = NoID /\ pool'[m] = pool[m]
    /\ \/ machine'[m].phase \in {"finalized", "unguarded"} /\ pool[m].st = "absent"
       \/ machine'[m].phase \in {"abandoned", "forced"}

\* What a step may do to one machine and its pool.
Moves(m) == Same(m) \/ Claimed(m) \/ Made(m) \/ Unmade(m) \/ Bound(m) \/ Gone(m)

-----------------------------------------------------------------------------
(* Each controller moves machines and pools in these ways. *)

\* A step that leaves object and pool alone.
LEMMA Untouched ==
    ASSUME NEW m \in Names, MachineInv(m), NeverMade(m), machine'[m] = machine[m],
           pool'[m] = pool[m], lc'[m].at = lc[m].at \/ lc'[m].at = "idle" \/ lc[m].at # "idle"
    PROVE  Moves(m) /\ NeverMade(m)'
  BY DEF Moves, Same, NeverMade

\* DELETE of a machine.
LEMMA DeletionMoves ==
    ASSUME TypeOK, NEW m \in Names, MachineInv(m), NeverMade(m),
           machine'[m] \in {machine[m], Deleted(machine[m])},
           pool'[m] = pool[m], lc'[m] = lc[m]
    PROVE  Moves(m) /\ NeverMade(m)'
  <1>0. machine[m] \in MachineObjects
    BY DEF TypeOK, ClusterTypeOK
  <1>1. CASE machine'[m] = machine[m]
    BY <1>1, Untouched
  <1>2. CASE machine'[m] = Deleted(machine[m]) /\ (machine[m].fin \/ ~Present(m))
    <2>1. machine'[m].phase = machine[m].phase /\ machine'[m].pid = machine[m].pid
      BY <1>0, <1>2, DeletedKeeps DEF Present
    <2> QED BY <2>1 DEF Moves, Same, NeverMade
  <1>3. CASE machine'[m] = Deleted(machine[m]) /\ Present(m) /\ ~machine[m].fin
    <2>1. machine'[m].phase = "unguarded" /\ machine'[m].pid = NoID
      BY <1>3 DEF Deleted, Present, Blank
    <2>2. lc[m].at = "idle" /\ pool[m].gen = 0 /\ pool[m].st = "absent"
      BY <1>3 DEF MachineInv, Guarded, NeverMade
    <2> QED BY <1>3, <2>1, <2>2 DEF Moves, Gone, NeverMade, Present
  <1> QED BY <1>1, <1>2, <1>3

\* A pool changes its state without coming into being.
LEMMA PoolStateMoves ==
    ASSUME TypeOK, NEW m \in Names, MachineInv(m), NeverMade(m),
           machine'[m] = machine[m], lc'[m] = lc[m],
           pool[m].st # "absent", pool'[m].gen = pool[m].gen
    PROVE  Moves(m) /\ NeverMade(m)'
  BY DEF Moves, Same, Unmade, NeverMade

\* Users, AKS, kubelets and the clock.
LEMMA EnvironmentMoves ==
    ASSUME TypeOK, NEW m \in Names, MachineInv(m), NeverMade(m), Environment(m),
           UNCHANGED <<lc, cache, mt, nt, gc>>
    PROVE  Moves(m) /\ NeverMade(m)'
  <1> USE DEF TypeOK, ClusterTypeOK
  <1>0. machine[m] \in MachineObjects /\ pool[m] \in Pools
    OBVIOUS
  <1>1. CASE UserCreate(m)
    <2>1. machine[m].phase = "none" /\ machine'[m] = Blank("present") /\ pool' = pool
      BY <1>1 DEF UserCreate
    <2>2. machine'[m].phase = "present" /\ machine'[m].pid = NoID
      BY <2>1, BlankFields
    <2>3. machine[m].pid = NoID
      BY <2>1 DEF MachineInv, Recorded, Present
    <2> QED BY <2>1, <2>2, <2>3 DEF Moves, Claimed, NeverMade
  <1>2. CASE UserDelete(m)
    BY <1>2, DeletionMoves DEF UserDelete
  <1>3. CASE PoolLost(m)
    BY <1>0, <1>3, PoolStateMoves DEF PoolLost, Pools
  <1>4. CASE CreateEnds(m)
    BY <1>0, <1>4, PoolStateMoves DEF CreateEnds, Pools
  <1>5. CASE DeleteEnds(m)
    BY <1>0, <1>5, PoolStateMoves DEF DeleteEnds, Pools
  <1>6. CASE Clock(m)
    <2>1. machine'[m].phase = machine[m].phase /\ machine'[m].pid = machine[m].pid /\ pool' = pool
      BY <1>0, <1>6 DEF Clock, DeletionOverdue, RegistrationExpires, NotReadyTooLong, MachineObjects
    <2> QED BY <2>1 DEF Moves, Same, NeverMade
  <1>7. CASE NodeJoin(m) \/ \E g \in Gens : \/ UserDeleteNode(m, g) \/ NodeReady(m, g)
                                           \/ NodeNotReady(m, g) \/ NodeLost(m, g)
    BY <1>7, Untouched DEF NodeJoin, UserDeleteNode, NodeReady, NodeNotReady, NodeLost
  <1> QED BY <1>1, <1>2, <1>3, <1>4, <1>5, <1>6, <1>7 DEF Environment

\* The two finalizers and the collector.
LEMMA TerminationMoves ==
    ASSUME TypeOK, NEW m \in Names, MachineInv(m), NeverMade(m), UNCHANGED lc,
           \/ MachineTermination(m) \/ GarbageCollection(m)
           \/ \E g \in Gens : NodeTermination(m, g)
    PROVE  Moves(m) /\ NeverMade(m)'
  <1> USE DEF TypeOK, ClusterTypeOK, clusterVars
  <1>0. machine[m] \in MachineObjects /\ pool[m] \in Pools
    OBVIOUS
  <1>1. ASSUME BeginDelete(m), machine' = machine PROVE Moves(m) /\ NeverMade(m)'
    BY <1>0, <1>1, PoolStateMoves DEF BeginDelete, Pools
  <1>2. ASSUME NEW phase \in {"finalized", "abandoned", "forced"}, machine'[m] = Blank(phase),
               Present(m), pool' = pool, phase = "finalized" => pool[m].st = "absent"
        PROVE  Moves(m) /\ NeverMade(m)'
    <2>1. machine'[m].phase = phase /\ machine'[m].pid = NoID
      BY <1>2, BlankFields
    <2> QED BY <1>2, <2>1 DEF Moves, Gone, NeverMade, Present
  <1>3. CASE MachineTermination(m)
    <2>1. CASE MtDelete(m)
      BY <1>1, <2>1 DEF MtDelete
    <2>2. CASE MtRemove(m) /\ Present(m)
      <3>1. /\ machine'[m] = Blank(IF mt[m].at = "remove" THEN "finalized" ELSE "abandoned")
            /\ pool' = pool /\ (mt[m].at = "remove" => pool[m].st = "absent")
        BY <2>2 DEF MtRemove, MachineInv, Finalizes
      <3> QED BY <1>2, <2>2, <3>1
    <2>3. CASE MtRemove(m) /\ ~Present(m)
      BY <2>3, Untouched DEF MtRemove
    <2>4. CASE \/ MtDeleteNodes(m) \/ MtNoNodes(m) \/ MtNeverLaunched(m)
               \/ MtNotFound(m) \/ MtPoll(m) \/ MtDeleteFails(m)
      BY <2>4, Untouched DEF MtDeleteNodes, MtNoNodes, MtNeverLaunched, MtNotFound,
                             MtPoll, MtDeleteFails
    <2> QED BY <1>3, <2>1, <2>2, <2>3, <2>4 DEF MachineTermination
  <1>4. CASE GarbageCollection(m)
    <2>1. CASE GcForce(m) /\ Present(m)
      BY <1>2, <2>1 DEF GcForce
    <2>2. CASE GcForce(m) /\ ~Present(m)
      BY <2>2, Untouched DEF GcForce
    <2>3. CASE GcDelete(m)
      BY <2>3, DeletionMoves DEF GcDelete
    <2>4. CASE WriteBeat(m)
      <3>1. machine'[m].phase = machine[m].phase /\ machine'[m].pid = machine[m].pid /\ pool' = pool
        BY <1>0, <2>4 DEF WriteBeat, MachineObjects
      <3> QED BY <3>1 DEF Moves, Same, NeverMade
    <2>5. CASE GcList(m) \/ GcCloudList(m) \/ GcCloudListFails(m) \/ \E g \in Gens : GcNode(m, g)
      BY <2>5, Untouched DEF GcList, GcCloudList, GcCloudListFails, GcNode
    <2> QED BY <1>4, <2>1, <2>2, <2>3, <2>4, <2>5 DEF GarbageCollection, GcBeat, GcBeatRace
  <1>5. ASSUME NEW g \in Gens, NodeTermination(m, g) PROVE Moves(m) /\ NeverMade(m)'
    <2>1. CASE NtDrain(m, g) \/ NtNotDrained(m, g)
      BY <2>1, DeletionMoves DEF NtDrain, NtNotDrained, DeleteAllMachines
    <2>2. CASE NtDelete(m, g)
      BY <1>1, <2>2 DEF NtDelete
    <2>3. CASE NtRemove(m, g) \/ NtDeleteFails(m, g)
      BY <2>3, Untouched DEF NtRemove, NtDeleteFails
    <2> QED BY <1>5, <2>1, <2>2, <2>3 DEF NodeTermination
  <1> QED BY <1>3, <1>4, <1>5

\* A pool that is made has a generation of its own.
LEMMA MadeFields ==
    ASSUME NEW k \in Nat
    PROVE  /\ [st |-> "creating", gen |-> k + 1].st = "creating"
           /\ [st |-> "creating", gen |-> k + 1].gen # 0
  OBVIOUS

\* The lifecycle controller.
LEMMA LifecycleMoves ==
    ASSUME TypeOK, NEW m \in Names, MachineInv(m), NeverMade(m), Lifecycle(m)
    PROVE  Moves(m) /\ NeverMade(m)'
  <1> USE DEF TypeOK, ClusterTypeOK, LifecycleTypeOK, clusterVars
  <1>0. /\ machine[m] \in MachineObjects /\ pool[m] \in Pools /\ lc[m] \in LcStates
        /\ pool[m].gen \in Nat
    BY BoundsAssumption DEF Pools, IDs
  <1>a. lc[m].at # "idle" => /\ machine[m].phase \notin {"none", "unguarded"}
                             /\ Present(m) => machine[m].fin
    BY DEF MachineInv, Guarded, NeverMade
  <1>1. CASE LcStart(m)
    <2>1. /\ machine'[m].phase = machine[m].phase /\ machine'[m].pid = machine[m].pid
          /\ machine[m].phase = "present" /\ pool' = pool
      BY <1>0, <1>1 DEF LcStart, Live, Present, MachineObjects
    <2> QED BY <2>1 DEF Moves, Same, NeverMade
  <1>2. CASE LcCreate(m)
    <2>1. /\ lc[m].at = "create" /\ machine' = machine /\ machine[m].pid = NoID
          /\ machine[m].phase \in {"present", "abandoned", "forced"}
      BY <1>0, <1>2, <1>a
      DEF LcCreate, MachineInv, CallsCloud, Finalizes, Launching, MachineObjects, Phases
    <2>2. CASE /\ pool[m].st = "absent"
               /\ pool' = [pool EXCEPT ![m] = [st |-> "creating", gen |-> @.gen + 1]]
      <3>0. pool'[m] = [st |-> "creating", gen |-> pool[m].gen + 1]
        BY <2>2
      <3>1. pool'[m].st = "creating" /\ pool'[m].gen # 0
        BY <1>0, <3>0, MadeFields
      <3> QED BY <2>1, <2>2, <3>1 DEF Moves, Made, NeverMade
    <2>3. CASE pool[m].st = "failed" /\ pool' = [pool EXCEPT ![m].st = "creating"]
      <3>1. pool'[m].st = "creating" /\ pool'[m].gen = pool[m].gen
        BY <1>0, <2>3 DEF Pools
      <3> QED BY <2>1, <2>3, <3>1 DEF Moves, Same, NeverMade
    <2>4. CASE pool' = pool
      BY <2>1, <2>4 DEF Moves, Same, NeverMade
    <2> QED BY <1>2, <2>2, <2>3, <2>4 DEF LcCreate, BeginCreateOrUpdate
  <1>3. CASE LcPatch(m)
    <2> DEFINE o == IF Expired(lc[m].copy) THEN Deleted(machine[m]) ELSE machine[m]
    <2>1. /\ lc[m].at = "patch" /\ pool' = pool
          /\ machine'[m] \in {o, [o EXCEPT !.link = lc[m].copy.link]}
      BY <1>3 DEF LcPatch
    <2>2. /\ o \in MachineObjects /\ o.phase = machine[m].phase /\ o.pid = machine[m].pid
      BY <1>0, <1>a, <2>1, DeletedKeeps, DeleteFacts DEF Present
    <2> HIDE DEF o
    <2>3. machine'[m].phase = machine[m].phase /\ machine'[m].pid = machine[m].pid
      BY <2>1, <2>2 DEF MachineObjects
    <2> QED BY <1>a, <2>1, <2>3 DEF Moves, Same, NeverMade
  <1>4. CASE WriteStatus(m) /\ Present(m)
    <2>1. /\ machine'[m].phase = "present"
          /\ machine'[m].pid = IF lc[m].copy.pid # lc[m].stored.pid
                               THEN lc[m].copy.pid ELSE machine[m].pid
          /\ pool' = pool /\ lc[m].at = "status"
      BY <1>0, <1>4 DEF WriteStatus, MachineObjects, Present
    <2>2. lc[m].copy.pid # lc[m].stored.pid => lc[m].copy.pid # NoID
      BY <2>1 DEF MachineInv, Writes, Finishing
    <2> QED BY <1>4, <2>1, <2>2 DEF Moves, Same, Bound, NeverMade, Present
  <1>5. CASE machine' = machine /\ pool' = pool /\ (lc[m].at # "idle" \/ lc' = lc)
    BY <1>5, Untouched
  <1>6. CASE WriteStatus(m) /\ ~Present(m)
    BY <1>5, <1>6 DEF WriteStatus
  <1>7. CASE \/ LcStartStale(m) \/ InformerSync(m) \/ LcCacheExpires(m)
             \/ LcCreateRefused(m) \/ LcPoll(m) \/ LcNodeFound(m) \/ LcNodeTimeout(m)
             \/ LcGet(m) \/ LcRegister(m) \/ LcSyncFails(m) \/ LcPatchFails(m)
    <2>1. machine' = machine /\ pool' = pool
      BY <1>7 DEF LcStartStale, InformerSync, LcCacheExpires, LcCreateRefused, LcPoll,
                  LcNodeFound, LcNodeTimeout, LcGet, LcRegister, LcSyncFails, LcPatchFails
    <2>2. lc[m].at # "idle" \/ lc' = lc
      BY <1>7 DEF LcStartStale, InformerSync, LcCacheExpires, LcCreateRefused, LcPoll,
                  LcNodeFound, LcNodeTimeout, LcGet, LcRegister, LcSyncFails, LcPatchFails
    <2> QED BY <1>5, <2>1, <2>2
  <1> QED BY <1>1, <1>2, <1>3, <1>4, <1>6, <1>7 DEF Lifecycle, LcStatus, LcStatusLag

-----------------------------------------------------------------------------
(* Moves are steps of the contract. *)

OwnPhases == [m \in Names |-> OwnPhase(machine[m].phase)]
OwnPools  == {m \in Names : pool[m].st # "absent"}
OwnBound  == {m \in Names : machine[m].pid # NoID}

\* The variables of the contract change for m only.
OnlyFor(m) ==
    /\ OwnPhases' = [OwnPhases EXCEPT ![m] = OwnPhase(machine'[m].phase)]
    /\ OwnPools' = IF pool'[m].st # "absent" THEN OwnPools \union {m} ELSE OwnPools \ {m}
    /\ OwnBound' = IF machine'[m].pid # NoID THEN OwnBound \union {m} ELSE OwnBound \ {m}
    /\ OwnPhases[m] = OwnPhase(machine[m].phase)
    /\ m \in OwnPools <=> pool[m].st # "absent"
    /\ m \in OwnBound <=> machine[m].pid # NoID

\* They do, if the step leaves the other machines and their pools alone.
LEMMA OwnFrame ==
    ASSUME NEW m \in Names,
           \A n \in Names \ {m} : machine'[n] = machine[n] /\ pool'[n] = pool[n]
    PROVE  OnlyFor(m)
  <1>1. OwnPhases' = [OwnPhases EXCEPT ![m] = OwnPhase(machine'[m].phase)]
    BY DEF OwnPhases
  <1>2. OwnPools' = IF pool'[m].st # "absent" THEN OwnPools \union {m} ELSE OwnPools \ {m}
    BY DEF OwnPools
  <1>3. OwnBound' = IF machine'[m].pid # NoID THEN OwnBound \union {m} ELSE OwnBound \ {m}
    BY DEF OwnBound
  <1> QED BY <1>1, <1>2, <1>3 DEF OnlyFor, OwnPhases, OwnPools, OwnBound

\* The images of the phases.
LEMMA PhaseImages ==
    /\ OwnPhase("none") = "none" /\ OwnPhase("present") = "owned"
    /\ OwnPhase("finalized") = "released" /\ OwnPhase("unguarded") = "released"
    /\ OwnPhase("abandoned") = "abandoned" /\ OwnPhase("forced") = "abandoned"
  BY DEF OwnPhase

\* A move of one machine is a step of the contract, or nothing in its terms.
LEMMA MoveIsStep ==
    ASSUME NEW m \in Names, Moves(m),
           \A n \in Names \ {m} : machine'[n] = machine[n] /\ pool'[n] = pool[n]
    PROVE  Own!OwnNext \/ UNCHANGED <<OwnPhases, OwnPools, OwnBound>>
  <1>0. OnlyFor(m)
    BY OwnFrame
  <1>a. OwnPhases = [OwnPhases EXCEPT ![m] = OwnPhases[m]]
    BY DEF OwnPhases
  <1>1. CASE Same(m)
    <2>1. OwnPhases' = OwnPhases
      BY <1>0, <1>a, <1>1, PhaseImages DEF OnlyFor, Same
    <2>2. OwnPools' = OwnPools /\ OwnBound' = OwnBound
      BY <1>0, <1>a, <1>1, PhaseImages DEF OnlyFor, Same
    <2> QED BY <2>1, <2>2
  <1>2. CASE Claimed(m)
    <2>1. /\ OwnPhases[m] = "none" /\ OwnPhases' = [OwnPhases EXCEPT ![m] = "owned"]
          /\ OwnPools' = OwnPools /\ OwnBound' = OwnBound
      BY <1>0, <1>a, <1>2, PhaseImages DEF OnlyFor, Claimed
    <2> QED BY <2>1 DEF Own!OwnNext, Own!Claim, OwnPhases, OwnPools, OwnBound
  <1>3. CASE Made(m)
    <2>1. /\ OwnPhases[m] \in {"owned", "abandoned"} /\ m \notin OwnPools \union OwnBound
          /\ OwnPools' = OwnPools \union {m} /\ OwnPhases' = OwnPhases /\ OwnBound' = OwnBound
      BY <1>0, <1>a, <1>3, PhaseImages DEF OnlyFor, Made
    <2> QED BY <2>1 DEF Own!OwnNext, Own!Make, OwnPhases, OwnPools, OwnBound
  <1>4. CASE Unmade(m)
    <2>1. OwnPools' = OwnPools \ {m} /\ OwnPhases' = OwnPhases /\ OwnBound' = OwnBound
      BY <1>0, <1>a, <1>4, PhaseImages DEF OnlyFor, Unmade
    <2> QED BY <2>1 DEF Own!OwnNext, Own!Unmake, OwnPhases, OwnPools, OwnBound
  <1>5. CASE Bound(m)
    <2>1. /\ OwnPhases[m] = "owned" /\ OwnBound' = OwnBound \union {m}
          /\ OwnPhases' = OwnPhases /\ OwnPools' = OwnPools
      BY <1>0, <1>a, <1>5, PhaseImages DEF OnlyFor, Bound
    <2> QED BY <2>1 DEF Own!OwnNext, Own!BindInstance, OwnPhases, OwnPools, OwnBound
  <1>6. CASE Gone(m)
    <2>1. /\ OwnPhases[m] = "owned" /\ OwnBound' = OwnBound \ {m} /\ OwnPools' = OwnPools
      BY <1>0, <1>a, <1>6, PhaseImages DEF OnlyFor, Gone
    <2>2. \/ m \notin OwnPools /\ OwnPhases' = [OwnPhases EXCEPT ![m] = "released"]
          \/ OwnPhases' = [OwnPhases EXCEPT ![m] = "abandoned"]
      BY <1>0, <1>a, <1>6, PhaseImages DEF OnlyFor, Gone
    <2> QED BY <2>1, <2>2 DEF Own!OwnNext, Own!Release, Own!Abandon, OwnPhases, OwnPools, OwnBound
  <1> QED BY <1>1, <1>2, <1>3, <1>4, <1>5, <1>6 DEF Moves

OwnInv == Inv /\ \A m \in Names : NeverMade(m)

\* Every step keeps OwnInv and is a step of the contract.
LEMMA NextOwns ==
    OwnInv /\ [Next]_vars => OwnInv' /\ [Own!OwnNext]_(Own!ownVars)
  <1> SUFFICES ASSUME OwnInv, [Next]_vars
               PROVE  /\ \A n \in Names : NeverMade(n)'
                      /\ Own!OwnNext \/ UNCHANGED <<OwnPhases, OwnPools, OwnBound>>
    BY NextInv DEF OwnInv, Own!ownVars, OwnPhases, OwnPools, OwnBound
  <1>0. TypeOK /\ \A m \in Names : MachineInv(m) /\ NeverMade(m)
    BY DEF OwnInv, Inv
  <1>1. ASSUME NEW m \in Names,
               \/ Environment(m) /\ UNCHANGED <<lc, cache, mt, nt, gc>>
               \/ Lifecycle(m) /\ UNCHANGED <<mt, nt, gc>>
               \/ MachineTermination(m) /\ UNCHANGED <<lc, cache, nt, gc>>
               \/ GarbageCollection(m) /\ UNCHANGED <<lc, cache, mt, nt>>
               \/ \E g \in Gens : NodeTermination(m, g) /\ UNCHANGED <<lc, cache, mt, gc>>
        PROVE  /\ \A n \in Names : NeverMade(n)'
               /\ Own!OwnNext \/ UNCHANGED <<OwnPhases, OwnPools, OwnBound>>
    <2>1. Moves(m) /\ NeverMade(m)'
      BY <1>0, <1>1, EnvironmentMoves, TerminationMoves, LifecycleMoves
    <2>2. \A n \in Names \ {m} :
            machine'[n] = machine[n] /\ pool'[n] = pool[n] /\ lc'[n] = lc[n]
      BY <1>0, <1>1, OthersUnchanged
    <2>3. \A n \in Names \ {m} : NeverMade(n)'
      BY <1>0, <2>2 DEF NeverMade
    <2> QED BY <2>1, <2>2, <2>3, MoveIsStep
  <1>2. CASE Crash
    <2>1. machine' = machine /\ pool' = pool /\ \A n \in Names : lc'[n].at = "idle"
      BY <1>2 DEF Crash, LcIdle
    <2> QED BY <1>0, <2>1 DEF NeverMade, OwnPhases, OwnPools, OwnBound
  <1>3. CASE UNCHANGED vars
    BY <1>0, <1>3 DEF vars, clusterVars, NeverMade, OwnPhases, OwnPools, OwnBound
  <1> QED BY <1>1, <1>2, <1>3 DEF Next

\* The controllers, the environment and restarts together implement Ownership: pools are
\* made only for machines that have none and no instance, and a machine that is released
\* has no pool and never gets one.
THEOREM ControllersOwn == Spec => ImplementsOwnership
  <1>1. Init => OwnInv /\ Own!OwnInit
    <2> SUFFICES ASSUME Init PROVE (\A m \in Names : NeverMade(m)) /\ Own!OwnInit
      BY InitInv DEF OwnInv
    <2>1. \A m \in Names : /\ machine[m].phase = "none" /\ machine[m].pid = NoID
                           /\ pool[m].st = "absent"
      BY DEF Init, ClusterInit, Blank
    <2>2. /\ OwnPhases \in [Names -> {"none", "owned"}]
          /\ OwnPools = {} /\ OwnBound = {}
      BY <2>1, PhaseImages DEF OwnPhases, OwnPools, OwnBound
    <2> QED BY <2>1, <2>2 DEF NeverMade, Own!OwnInit, OwnPhases, OwnPools, OwnBound
  <1> QED BY <1>1, NextOwns, PTL DEF Spec, ImplementsOwnership, Own!OwnSpec
=============================================================================
