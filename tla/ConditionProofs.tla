-------------------------- MODULE ConditionProofs ---------------------------
(***************************************************************************)
(* What the lists of conditions say is true, although two controllers and  *)
(* stale copies overwrite each other's lists: Ready and Registered.        *)
(***************************************************************************)
EXTENDS SafetyProofs

\* The node of generation g can not be there without its finalizer any more: it has
\* it, or its pool is gone and the node with it.
Shielded(m, g) ==
    IF node[m][g].there THEN node[m][g].fin
    ELSE pool[m].gen > g \/ (pool[m].gen = g /\ pool[m].st = "absent")

NodeInv(m, g) ==
    /\ node[m][g].there => g <= pool[m].gen
    /\ node[m][g].del => node[m][g].fin
    /\ node[m][g].fin => node[m][g].there
    /\ nt[m][g].at # "idle" => node[m][g].fin
    /\ nt[m][g].at = "poll" => g <= nt[m][g].gen

\* What a list of conditions says of the machine with ID p.
Honest(m, p, c) ==
    /\ c.ready = "True" => AllTrue(c)
    /\ c.registered = "True" => p \in Gens /\ Shielded(m, p)

\* Every list that anybody holds is honest, for the ID that goes with it.
Lists(m) ==
    /\ Honest(m, machine[m].pid, machine[m].cond)
    /\ Honest(m, lc[m].stored.pid, lc[m].stored.cond)
    /\ Honest(m, lc[m].copy.pid, lc[m].copy.cond)
    /\ Honest(m, gc[m].pid, gc[m].stored)
    /\ Honest(m, gc[m].pid, gc[m].updated)
    /\ (gc[m].at \in {"listed", "beat"} /\ ~gc[m].overdue /\ Present(m)) =>
         machine[m].pid = gc[m].pid

-----------------------------------------------------------------------------
(* The operations on conditions. *)

\* Top-level Ready is True only when the dependents are, after every operation; and
\* MachineRegistered changes only when it is marked.
LEMMA MarksAreHonest ==
    ASSUME NEW c \in Conds
    PROVE  /\ \A d \in {MarkLaunched(c), MarkRegistered(c), MarkInitialized(c), MarkReady(c)} :
                d.ready = "True" => AllTrue(d)
           /\ \A d \in {MarkLaunched(c), MarkInitialized(c), MarkReady(c), MarkNotReady(c)} :
                d.registered = c.registered
           /\ \A v : MarkNotLaunched(c, v).ready # "True"
           /\ \A v : MarkNotLaunched(c, v).registered = c.registered
           /\ \A v : MarkNotRegistered(c, v).ready # "True"
           /\ \A v : MarkNotRegistered(c, v).registered = v
           /\ \A v : MarkNotInitialized(c, v).ready # "True"
           /\ \A v : MarkNotInitialized(c, v).registered = c.registered
           /\ MarkNotReady(c).ready # "True"
  <1>1. ASSUME NEW d \in Conds, NEW v
        PROVE  /\ SetReady(d, v).ready = v /\ SetReady(d, v).launched = d.launched
               /\ SetReady(d, v).registered = d.registered
               /\ SetReady(d, v).initialized = d.initialized
    BY DEF SetReady, Conds
  <1>2. ASSUME NEW d \in Conds
        PROVE  /\ RecomputeHappiness(d).ready = "True" => AllTrue(RecomputeHappiness(d))
               /\ RecomputeHappiness(d).registered = d.registered
    <2>1. CASE AllTrue(d)
      BY <1>1, <2>1 DEF RecomputeHappiness, AllTrue
    <2>2. CASE ~AllTrue(d)
      BY <1>1, <2>2 DEF RecomputeHappiness
    <2> QED BY <2>1, <2>2
  <1>3. /\ [c EXCEPT !.launched = "True"] \in Conds
        /\ [c EXCEPT !.launched = "True"].registered = c.registered
        /\ [c EXCEPT !.initialized = "True"] \in Conds
        /\ [c EXCEPT !.initialized = "True"].registered = c.registered
    BY DEF Conds, Launched, Initialized
  <1>4. SetRegistered(c, "True") \in Conds
    BY DEF SetRegistered, Conds, Registered
  <1>5. SetReady(c, "True") \in Conds /\ SetReady(c, "True").registered = c.registered
    BY DEF SetReady, Conds, Ready
  <1>6. /\ MarkLaunched(c).ready = "True" => AllTrue(MarkLaunched(c))
        /\ MarkLaunched(c).registered = c.registered
    BY <1>2, <1>3 DEF MarkLaunched
  <1>7. MarkRegistered(c).ready = "True" => AllTrue(MarkRegistered(c))
    BY <1>2, <1>4 DEF MarkRegistered
  <1>8. /\ MarkInitialized(c).ready = "True" => AllTrue(MarkInitialized(c))
        /\ MarkInitialized(c).registered = c.registered
    BY <1>2, <1>3 DEF MarkInitialized
  <1>9. /\ MarkReady(c).ready = "True" => AllTrue(MarkReady(c))
        /\ MarkReady(c).registered = c.registered
    BY <1>2, <1>5 DEF MarkReady
  <1>10. MarkNotReady(c).ready # "True" /\ MarkNotReady(c).registered = c.registered
    BY <1>1 DEF MarkNotReady
  <1>11. ASSUME NEW v
         PROVE  /\ MarkNotLaunched(c, v).ready # "True"
                /\ MarkNotLaunched(c, v).registered = c.registered
                /\ MarkNotRegistered(c, v).ready # "True"
                /\ MarkNotRegistered(c, v).registered = v
                /\ MarkNotInitialized(c, v).ready # "True"
                /\ MarkNotInitialized(c, v).registered = c.registered
    BY DEF MarkNotLaunched, MarkNotRegistered, MarkNotInitialized, SetReady, SetRegistered, Conds
  <1> QED BY <1>6, <1>7, <1>8, <1>9, <1>10, <1>11

\* The list that a patch writes says what the new list says.
LEMMA OverwriteSays ==
    ASSUME NEW c \in Conds, NEW d \in Conds
    PROVE  /\ Overwrite(c, d).ready = d.ready /\ Overwrite(c, d).registered = d.registered
           /\ AllTrue(Overwrite(c, d)) <=> AllTrue(d)
  BY DEF Overwrite, Conds, AllTrue

-----------------------------------------------------------------------------
(* Nodes. *)

\* What a step does to the node of generation g.
Keeps(m, g) == NodeInv(m, g)' /\ (Shielded(m, g) => Shielded(m, g)')

\* Pools are made with a new generation, and an absent one comes back only so.
Grows(m) ==
    /\ pool'[m].gen >= pool[m].gen
    /\ (pool'[m].gen = pool[m].gen /\ pool[m].st = "absent") => pool'[m].st = "absent"

\* Pools, and generations of nodes, as numbers.
LEMMA GenFacts ==
    ASSUME TypeOK, NEW m \in Names
    PROVE  /\ pool[m] \in Pools /\ pool[m].gen \in Nat
           /\ \A g \in Gens : /\ g \in Nat /\ node[m][g] \in NodeObjects
                              /\ nt[m][g] \in NtStates /\ nt[m][g].gen \in Nat
  <1>1. \A i \in IDs : i \in Nat
    BY BoundsAssumption DEF IDs
  <1>2. pool[m] \in Pools /\ pool[m].gen \in IDs
    BY DEF TypeOK, ClusterTypeOK, Pools
  <1>3. ASSUME NEW g \in Gens
        PROVE  /\ g \in IDs /\ node[m][g] \in NodeObjects
               /\ nt[m][g] \in NtStates /\ nt[m][g].gen \in IDs
    BY IDFacts DEF TypeOK, ClusterTypeOK, NodeTerminationTypeOK, NtStates
  <1> QED BY <1>1, <1>2, <1>3

\* The generation of a pool after a step.
LEMMA NewGen ==
    ASSUME TypeOK', NEW m \in Names
    PROVE  pool'[m].gen \in Nat
  BY BoundsAssumption DEF TypeOK, ClusterTypeOK, Pools, IDs

\* A node that stays.
LEMMA NodeStays ==
    ASSUME TypeOK, TypeOK', NEW m \in Names, NEW g \in Gens, NodeInv(m, g), Grows(m),
           node'[m][g].there = node[m][g].there,
           node[m][g].fin => node'[m][g].fin, node'[m][g].fin => node[m][g].there,
           node'[m][g].del => node'[m][g].fin,
           nt'[m][g].at # "idle" => node[m][g].fin,
           nt'[m][g].at = "poll" => g <= nt'[m][g].gen
    PROVE  Keeps(m, g)
  <1>1. pool[m].gen \in Nat /\ pool'[m].gen \in Nat /\ g \in Nat
    BY GenFacts, NewGen
  <1>2. NodeInv(m, g)'
    BY <1>1 DEF NodeInv, Grows
  <1>3. Shielded(m, g) => Shielded(m, g)'
    BY <1>1 DEF NodeInv, Shielded, Grows
  <1> QED BY <1>2, <1>3 DEF Keeps

\* A step that changes no node and no finalization of a node.
LEMMA NodesSame ==
    ASSUME TypeOK, TypeOK', NEW m \in Names, \A g \in Gens : NodeInv(m, g), Grows(m),
           node'[m] = node[m], nt'[m] = nt[m] \/ \A g \in Gens : nt'[m][g] = NtIdle
    PROVE  \A g \in Gens : Keeps(m, g)
  <1> SUFFICES ASSUME NEW g \in Gens PROVE Keeps(m, g)
    OBVIOUS
  <1>1. NtIdle.at = "idle"
    BY DEF NtIdle
  <1>2. nt'[m][g] = nt[m][g] \/ nt'[m][g].at = "idle"
    BY <1>1
  <1>3. NodeInv(m, g) /\ node'[m][g] = node[m][g]
    OBVIOUS
  <1>4. /\ nt'[m][g].at # "idle" => node[m][g].fin
        /\ nt'[m][g].at = "poll" => g <= nt'[m][g].gen
        /\ node[m][g].fin => node[m][g].there
        /\ node[m][g].del => node[m][g].fin
    BY <1>2, <1>3 DEF NodeInv
  <1> QED BY <1>3, <1>4, NodeStays

\* A node with finalizer outlives its DELETE.
LEMMA DeletedFields ==
    ASSUME NEW n \in NodeObjects, n.fin
    PROVE  DeletedNode(n).there = n.there /\ DeletedNode(n).fin = n.fin
  BY DEF DeletedNode, NodeObjects

\* A node that is not there has neither finalizer nor deletion timestamp.
LEMMA NoNodeFields == ~NoNode.there /\ ~NoNode.del /\ ~NoNode.fin
  BY DEF NoNode

\* DELETE of a node.
LEMMA NodeDeleted ==
    ASSUME TypeOK, TypeOK', NEW m \in Names, \A g \in Gens : NodeInv(m, g), NEW h \in Gens,
           node[m][h].there, node' = [node EXCEPT ![m][h] = DeletedNode(@)],
           pool' = pool, nt' = nt
    PROVE  \A g \in Gens : Keeps(m, g)
  <1> SUFFICES ASSUME NEW g \in Gens PROVE Keeps(m, g)
    OBVIOUS
  <1>0. /\ node[m][g] \in NodeObjects /\ NodeInv(m, g) /\ Grows(m)
    BY GenFacts DEF Grows
  <1>1. node'[m][g] = IF g = h THEN DeletedNode(node[m][g]) ELSE node[m][g]
    BY DEF TypeOK, ClusterTypeOK
  <1>2. CASE g # h \/ node[m][g].fin
    <2>1. /\ node'[m][g].there = node[m][g].there /\ node'[m][g].fin = node[m][g].fin
          /\ node'[m][g].del => node[m][g].fin
      <3>1. CASE g # h
        BY <1>0, <1>1, <3>1 DEF NodeInv
      <3>2. CASE node[m][g].fin
        <4>1. node'[m][g] = DeletedNode(node[m][g]) \/ node'[m][g] = node[m][g]
          BY <1>1
        <4> QED BY <1>0, <3>2, <4>1, DeletedFields
      <3> QED BY <1>2, <3>1, <3>2
    <2> QED BY <1>0, <2>1, NodeStays DEF NodeInv
  <1>3. CASE g = h /\ ~node[m][g].fin
    <2>1. ~node'[m][g].there /\ ~node'[m][g].fin /\ ~node'[m][g].del
      BY <1>1, <1>3 DEF DeletedNode, NoNode
    <2> QED BY <1>0, <1>3, <2>1 DEF Keeps, NodeInv, Shielded
  <1> QED BY <1>2, <1>3

-----------------------------------------------------------------------------
(* What each controller does to nodes. *)

\* Users, AKS, kubelets and the clock.
LEMMA EnvironmentNodes ==
    ASSUME TypeOK, TypeOK', NEW m \in Names, \A g \in Gens : NodeInv(m, g), Environment(m),
           UNCHANGED <<lc, cache, mt, nt, gc>>
    PROVE  \A g \in Gens : Keeps(m, g)
  <1>0. pool[m] \in Pools /\ pool[m].gen \in Nat /\ node[m] \in [Gens -> NodeObjects]
    BY GenFacts DEF TypeOK, ClusterTypeOK
  <1>1. CASE UserCreate(m) \/ UserDelete(m) \/ Clock(m)
    <2>1. Grows(m) /\ node' = node
      BY <1>0, <1>1 DEF UserCreate, UserDelete, Clock, DeletionOverdue, RegistrationExpires,
                        NotReadyTooLong, Grows
    <2> QED BY <2>1, NodesSame
  <1>2. CASE PoolLost(m) \/ CreateEnds(m) \/ DeleteEnds(m)
    <2>1. pool'[m].gen = pool[m].gen /\ pool[m].st # "absent" /\ node' = node
      BY <1>0, <1>2 DEF PoolLost, CreateEnds, DeleteEnds, Pools, TypeOK, ClusterTypeOK
    <2>2. Grows(m)
      BY <1>0, <2>1 DEF Grows
    <2> QED BY <2>1, <2>2, NodesSame
  <1>3. CASE NodeJoin(m)
    <2>1. PICK h \in Gens :
            /\ h = pool[m].gen /\ ~node[m][h].there
            /\ node' = [node EXCEPT ![m][h] = [NoNode EXCEPT !.there = TRUE]]
      BY <1>3 DEF NodeJoin
    <2>2. pool' = pool /\ pool[m].st # "absent" /\ Grows(m)
      BY <1>0, <1>3 DEF NodeJoin, Grows
    <2> SUFFICES ASSUME NEW g \in Gens PROVE Keeps(m, g)
      OBVIOUS
    <2>3. NodeInv(m, g) /\ g \in Nat
      BY GenFacts
    <2>4. CASE g = h
      <3>1. node'[m][g].there /\ ~node'[m][g].fin /\ ~node'[m][g].del
        <4>1. node'[m][g] = [NoNode EXCEPT !.there = TRUE]
          BY <2>1, <2>4 DEF TypeOK, ClusterTypeOK
        <4> QED BY <4>1 DEF NoNode
      <3>2. ~Shielded(m, g)
        BY <1>0, <2>1, <2>2, <2>4 DEF Shielded
      <3>3. NodeInv(m, g)'
        <4>1. nt'[m][g].at = "idle" /\ g <= pool'[m].gen
          <5>1. nt' = nt /\ ~node[m][g].there
            BY <2>1, <2>4
          <5>2. nt[m][g].at = "idle"
            BY <2>3, <5>1 DEF NodeInv
          <5> QED BY <1>0, <2>1, <2>2, <2>4, <5>1, <5>2
        <4> QED BY <3>1, <4>1 DEF NodeInv
      <3> QED BY <3>2, <3>3 DEF Keeps
    <2>5. CASE g # h
      <3>1. node'[m][g] = node[m][g]
        BY <2>1, <2>5 DEF TypeOK, ClusterTypeOK
      <3> QED BY <2>2, <2>3, <3>1, NodeStays DEF NodeInv
    <2> QED BY <2>4, <2>5
  <1>4. ASSUME NEW h \in Gens, UserDeleteNode(m, h) \/ NodeLost(m, h)
        PROVE  \A g \in Gens : Keeps(m, g)
    BY <1>4, NodeDeleted DEF UserDeleteNode, NodeLost
  <1>5. ASSUME NEW h \in Gens, NodeReady(m, h) \/ NodeNotReady(m, h), NEW g \in Gens
        PROVE  Keeps(m, g)
    <2>1. /\ node'[m][g].there = node[m][g].there /\ node'[m][g].fin = node[m][g].fin
          /\ node'[m][g].del = node[m][g].del /\ pool' = pool
      <3>1. /\ \E v \in BOOLEAN : node' = [node EXCEPT ![m][h].ready = v]
            /\ pool' = pool
        BY <1>5 DEF NodeReady, NodeNotReady
      <3>2. PICK v \in BOOLEAN : node' = [node EXCEPT ![m][h].ready = v]
        BY <3>1
      <3>3. node'[m][g] = IF g = h THEN [node[m][g] EXCEPT !.ready = v] ELSE node[m][g]
        BY <3>2 DEF TypeOK, ClusterTypeOK
      <3>4. node[m][g] \in NodeObjects
        BY GenFacts
      <3> QED BY <3>1, <3>3, <3>4 DEF NodeObjects
    <2>2. Grows(m) /\ NodeInv(m, g)
      BY <1>0, <2>1 DEF Grows
    <2> QED BY <2>1, <2>2, NodeStays DEF NodeInv
  <1> QED BY <1>1, <1>2, <1>3, <1>4, <1>5 DEF Environment

\* The lifecycle controller: it adds finalizers.
LEMMA LifecycleNodes ==
    ASSUME TypeOK, TypeOK', NEW m \in Names, \A g \in Gens : NodeInv(m, g), Lifecycle(m),
           UNCHANGED nt
    PROVE  \A g \in Gens : Keeps(m, g)
  <1>0. pool[m] \in Pools /\ pool[m].gen \in Nat /\ lc[m].copy \in Copies
    BY GenFacts DEF TypeOK, ClusterTypeOK, LifecycleTypeOK, LcStates
  <1>1. CASE LcCreate(m)
    <2>1. node' = node /\ BeginCreateOrUpdate(m)
      BY <1>1 DEF LcCreate
    <2>2. \/ pool'[m].gen = pool[m].gen + 1
          \/ pool'[m].gen = pool[m].gen /\ pool[m].st # "absent"
      <3>1. CASE pool' = [pool EXCEPT ![m] = [st |-> "creating", gen |-> @.gen + 1]]
        BY <3>1 DEF TypeOK, ClusterTypeOK
      <3>2. CASE pool[m].st = "failed" /\ pool' = [pool EXCEPT ![m].st = "creating"]
        BY <1>0, <3>2 DEF TypeOK, ClusterTypeOK, Pools
      <3>3. CASE pool[m].st = "up" /\ pool' = pool
        BY <3>3
      <3> QED BY <2>1, <3>1, <3>2, <3>3 DEF BeginCreateOrUpdate
    <2>3. Grows(m)
      BY <1>0, <2>2 DEF Grows
    <2> QED BY <2>1, <2>3, NodesSame
  <1>2. CASE LcRegister(m) /\ SyncsNode(m, lc[m].copy)
    <2> DEFINE h == lc[m].copy.pid
    <2>1. /\ h \in Gens /\ node[m][h].there
          /\ node' = [node EXCEPT ![m][h].fin = TRUE] /\ pool' = pool
      BY <1>0, <1>2, IDFacts DEF LcRegister, SyncsNode, NodeFound, Copies
    <2> HIDE DEF h
    <2>2. Grows(m)
      BY <1>0, <2>1 DEF Grows
    <2> SUFFICES ASSUME NEW g \in Gens PROVE Keeps(m, g)
      OBVIOUS
    <2>3. node[m][g] \in NodeObjects /\ NodeInv(m, g)
      BY GenFacts
    <2>4. node'[m][g] = IF g = h THEN [node[m][g] EXCEPT !.fin = TRUE] ELSE node[m][g]
      BY <2>1 DEF TypeOK, ClusterTypeOK
    <2>5. /\ node'[m][g].there = node[m][g].there /\ node'[m][g].del = node[m][g].del
          /\ node'[m][g].fin = (g = h \/ node[m][g].fin)
      BY <2>3, <2>4 DEF NodeObjects
    <2> QED BY <2>1, <2>2, <2>3, <2>5, NodeStays DEF NodeInv
  <1>3. CASE node' = node /\ pool' = pool
    <2>1. Grows(m)
      BY <1>0, <1>3 DEF Grows
    <2> QED BY <1>3, <2>1, NodesSame
  <1>4. CASE ~LcCreate(m) /\ ~(LcRegister(m) /\ SyncsNode(m, lc[m].copy))
    <2>1. node' = node /\ pool' = pool
      BY <1>4 DEF Lifecycle, LcStart, LcStartStale, InformerSync, LcCacheExpires,
                  LcCreateRefused, LcPoll, LcNodeFound, LcNodeTimeout, LcGet, LcRegister,
                  LcSyncFails, LcPatch, WriteStatus, LcStatus, LcStatusLag, LcPatchFails, clusterVars
    <2> QED BY <1>3, <2>1
  <1> QED BY <1>1, <1>2, <1>4

\* The finalization of machines and the collector: they delete nodes and pools.
LEMMA DeletionNodes ==
    ASSUME TypeOK, TypeOK', NEW m \in Names, \A g \in Gens : NodeInv(m, g), UNCHANGED nt,
           MachineTermination(m) \/ GarbageCollection(m)
    PROVE  \A g \in Gens : Keeps(m, g)
  <1>0. pool[m] \in Pools /\ pool[m].gen \in Nat /\ machine[m] \in MachineObjects
    BY GenFacts DEF TypeOK, ClusterTypeOK
  <1>1. CASE MtDelete(m)
    <2>1. node' = node /\ pool[m].st # "absent" /\ pool' = [pool EXCEPT ![m].st = "deleting"]
      BY <1>1 DEF MtDelete, BeginDelete
    <2>2. pool'[m].gen = pool[m].gen
      BY <1>0, <2>1 DEF Pools, TypeOK, ClusterTypeOK
    <2>3. Grows(m)
      BY <1>0, <2>1, <2>2 DEF Grows
    <2> QED BY <2>1, <2>3, NodesSame
  <1>2. CASE MtDeleteNodes(m)
    <2>1. NodeID(machine[m]) \in Gens
      BY <1>0, <1>2, IDFacts DEF MtDeleteNodes, NodeID, MachineObjects
    <2> QED BY <1>2, <2>1, NodeDeleted DEF MtDeleteNodes
  <1>3. ASSUME NEW h \in Gens, GcNode(m, h) PROVE \A g \in Gens : Keeps(m, g)
    BY <1>3, NodeDeleted DEF GcNode
  <1>4. CASE node' = node /\ pool' = pool
    <2>1. Grows(m)
      BY <1>0, <1>4 DEF Grows
    <2> QED BY <1>4, <2>1, NodesSame
  <1>5. CASE ~MtDelete(m) /\ ~MtDeleteNodes(m) /\ MachineTermination(m)
    <2>1. node' = node /\ pool' = pool
      BY <1>5 DEF MachineTermination, MtNoNodes, MtNeverLaunched, MtNotFound, MtPoll,
                  MtDeleteFails, MtRemove, clusterVars
    <2> QED BY <1>4, <2>1
  <1>6. CASE GarbageCollection(m) /\ ~\E h \in Gens : GcNode(m, h)
    <2>1. node' = node /\ pool' = pool
      BY <1>6 DEF GarbageCollection, GcList, GcCloudList, GcCloudListFails, GcForce, WriteBeat,
                  GcBeat, GcBeatRace, GcDelete, clusterVars
    <2> QED BY <1>4, <2>1
  <1> QED BY <1>1, <1>2, <1>3, <1>5, <1>6

\* The finalization of nodes: a node loses its finalizer when its pool is gone.
LEMMA NodeTerminationNodes ==
    ASSUME TypeOK, TypeOK', NEW m \in Names, \A g \in Gens : NodeInv(m, g), NEW h \in Gens,
           NodeTermination(m, h)
    PROVE  \A g \in Gens : Keeps(m, g)
  <1> SUFFICES ASSUME NEW g \in Gens PROVE Keeps(m, g)
    OBVIOUS
  <1>0. /\ pool[m] \in Pools /\ pool[m].gen \in Nat /\ g \in Nat /\ NodeInv(m, g)
        /\ node[m][g] \in NodeObjects /\ nt[m][g] \in NtStates /\ nt[m][g].gen \in Nat
    BY GenFacts
  <1>a. ASSUME Grows(m), node' = node,
               nt'[m][g].at # "idle" => node[m][g].fin,
               nt'[m][g].at = "poll" => g <= nt'[m][g].gen
        PROVE  Keeps(m, g)
    BY <1>0, <1>a, NodeStays DEF NodeInv
  <1>b. pool' = pool => Grows(m)
    BY <1>0 DEF Grows
  <1>1. CASE NtDrain(m, h)
    <2>1. node' = node /\ pool' = pool /\ node[m][h].del /\ nt' = [nt EXCEPT ![m][h].at = "drained"]
      BY <1>1 DEF NtDrain, FinalizingNode
    <2>2. nt'[m][g] = IF g = h THEN [nt[m][g] EXCEPT !.at = "drained"] ELSE nt[m][g]
      BY <2>1 DEF TypeOK, NodeTerminationTypeOK
    <2>3. nt'[m][g].at = IF g = h THEN "drained" ELSE nt[m][g].at
      BY <1>0, <2>2 DEF NtStates
    <2> QED BY <1>0, <1>a, <1>b, <2>1, <2>2, <2>3 DEF NodeInv
  <1>2. CASE NtNotDrained(m, h)
    BY <1>0, <1>a, <1>b, <1>2 DEF NtNotDrained, NodeInv
  <1>3. CASE NtDelete(m, h)
    <2>1. /\ node' = node /\ nt[m][h].at = "drained" /\ pool[m].st # "absent"
          /\ pool' = [pool EXCEPT ![m].st = "deleting"]
          /\ nt' = [nt EXCEPT ![m][h] = [at |-> "poll", gen |-> pool[m].gen]]
      BY <1>3 DEF NtDelete, BeginDelete
    <2>2. pool'[m].gen = pool[m].gen
      BY <1>0, <2>1 DEF Pools, TypeOK, ClusterTypeOK
    <2>3. Grows(m)
      BY <1>0, <2>1, <2>2 DEF Grows
    <2>4. nt'[m][g] = IF g = h THEN [at |-> "poll", gen |-> pool[m].gen] ELSE nt[m][g]
      BY <2>1 DEF TypeOK, NodeTerminationTypeOK
    <2>5. g = h => node[m][g].fin /\ g <= pool[m].gen
      BY <1>0, <2>1 DEF NodeInv
    <2> QED BY <1>0, <1>a, <2>1, <2>3, <2>4, <2>5 DEF NodeInv
  <1>4. CASE NtRemove(m, h)
    <2>1. /\ node' = [node EXCEPT ![m][h] = NoNode] /\ pool' = pool
          /\ nt' = [nt EXCEPT ![m][h] = NtIdle]
      BY <1>4 DEF NtRemove
    <2>2. /\ node'[m][g] = IF g = h THEN NoNode ELSE node[m][g]
          /\ nt'[m][g] = IF g = h THEN NtIdle ELSE nt[m][g]
      BY <2>1 DEF TypeOK, ClusterTypeOK, NodeTerminationTypeOK
    <2>3. CASE g = h
      <3>1. /\ ~node'[m][g].there /\ ~node'[m][g].fin /\ ~node'[m][g].del
            /\ nt'[m][g].at = "idle"
        BY <2>2, <2>3 DEF NoNode, NtIdle
      <3>2. g <= pool[m].gen
        BY <1>0, <1>4, <2>3 DEF NtRemove, NodeInv
      <3>3. pool[m].st = "absent" \/ pool[m].gen > g
        <4>1. CASE nt[m][h].at = "poll" /\ DeletePolled(m, nt[m][h].gen)
          <5>1. g <= nt[m][g].gen /\ nt[m][g].gen \in Nat
            BY <1>0, <2>3, <4>1, GenFacts DEF NodeInv
          <5>2. pool[m].st = "absent" \/ pool[m].gen > nt[m][g].gen
            BY <2>3, <4>1 DEF DeletePolled
          <5> QED BY <1>0, <5>1, <5>2
        <4> QED BY <1>4, <4>1 DEF NtRemove
      <3>4. Shielded(m, g)'
        BY <1>0, <2>1, <3>1, <3>2, <3>3 DEF Shielded
      <3> QED BY <3>1, <3>4 DEF Keeps, NodeInv
    <2>4. CASE g # h
      <3>1. node'[m][g] = node[m][g] /\ nt'[m][g] = nt[m][g] /\ Grows(m)
        BY <1>b, <2>1, <2>2, <2>4
      <3> QED BY <1>0, <3>1, NodeStays DEF NodeInv
    <2> QED BY <2>3, <2>4
  <1>5. CASE NtDeleteFails(m, h)
    <2>1. node' = node /\ pool' = pool /\ nt' = [nt EXCEPT ![m][h] = NtIdle]
      BY <1>5 DEF NtDeleteFails, clusterVars
    <2>2. nt'[m][g] = NtIdle \/ nt'[m][g] = nt[m][g]
      BY <2>1 DEF TypeOK, NodeTerminationTypeOK
    <2>3. NtIdle.at = "idle"
      BY DEF NtIdle
    <2> QED BY <1>0, <1>a, <1>b, <2>1, <2>2, <2>3 DEF NodeInv
  <1> QED BY <1>1, <1>2, <1>3, <1>4, <1>5 DEF NodeTermination

-----------------------------------------------------------------------------
(* Lists of conditions. *)

\* Shielded and Honest after a step, of an ID and a list that are given.
ShieldedNext(m, g) ==
    IF node'[m][g].there THEN node'[m][g].fin
    ELSE pool'[m].gen > g \/ (pool'[m].gen = g /\ pool'[m].st = "absent")

HonestNext(m, p, c) ==
    /\ c.ready = "True" => AllTrue(c)
    /\ c.registered = "True" => p \in Gens /\ ShieldedNext(m, p)

Mono(m) == \A g \in Gens : Shielded(m, g) => ShieldedNext(m, g)

\* c says no more than d.
SaysNoMore(c, d) ==
    /\ c.ready = "True" => AllTrue(c) \/ (d.ready = "True" /\ (AllTrue(d) => AllTrue(c)))
    /\ c.registered = "True" => d.registered = "True"

\* The three ways to know that a list is honest after a step.
LEMMA HonestOn ==
    ASSUME NEW m \in Names, Mono(m), NEW p, NEW c, Honest(m, p, c)
    PROVE  HonestNext(m, p, c)
  BY DEF Mono, Honest, HonestNext

\* An empty list is honest.
LEMMA HonestNothing ==
    ASSUME NEW m \in Names, NEW p
    PROVE  HonestNext(m, p, NoConds)
  BY DEF HonestNext, NoConds

\* A list that says no more than an honest one is honest.
LEMMA HonestLess ==
    ASSUME NEW m \in Names, NEW p, NEW c, NEW d, SaysNoMore(c, d), HonestNext(m, p, d)
    PROVE  HonestNext(m, p, c)
  BY DEF SaysNoMore, HonestNext

\* A list that overwrites another says no more than it did.
LEMMA OverwriteSaysNoMore ==
    ASSUME NEW c \in Conds, NEW d \in Conds
    PROVE  SaysNoMore(Overwrite(c, d), d)
  BY OverwriteSays DEF SaysNoMore

\* What the lists that are held idle are.
LEMMA IdleLists ==
    /\ GcIdle.at = "idle" /\ GcIdle.pid = NoID /\ GcIdle.stored = NoConds
    /\ GcIdle.updated = NoConds
    /\ LcIdle.at = "idle" /\ LcIdle.stored = NoCopy /\ LcIdle.copy = NoCopy
    /\ NoCopy.pid = NoID /\ NoCopy.cond = NoConds
  BY DEF GcIdle, LcIdle, NoCopy

\* The lists of the machine object, of the reconciliation, and of the collector.
MachineList(m) == HonestNext(m, machine'[m].pid, machine'[m].cond)

WorkLists(m) ==
    /\ HonestNext(m, lc'[m].stored.pid, lc'[m].stored.cond)
    /\ HonestNext(m, lc'[m].copy.pid, lc'[m].copy.cond)

PassLists(m) ==
    /\ HonestNext(m, gc'[m].pid, gc'[m].stored)
    /\ HonestNext(m, gc'[m].pid, gc'[m].updated)

PassAgrees(m) ==
    (gc'[m].at \in {"listed", "beat"} /\ ~gc'[m].overdue /\ machine'[m].phase = "present") =>
        machine'[m].pid = gc'[m].pid

\* Together they are all.
LEMMA AllLists ==
    ASSUME NEW m \in Names, MachineList(m), WorkLists(m), PassLists(m), PassAgrees(m)
    PROVE  Lists(m)'
  BY DEF MachineList, WorkLists, PassLists, PassAgrees, Lists, Honest, HonestNext,
         Shielded, ShieldedNext, Present

\* A reconciliation that stays as it is, or is forgotten.
LEMMA WorkStays ==
    ASSUME NEW m \in Names, Mono(m), Lists(m), lc'[m] \in {lc[m], LcIdle}
    PROVE  WorkLists(m)
  <1>1. CASE lc'[m] = lc[m]
    BY <1>1, HonestOn DEF Lists, WorkLists
  <1>2. CASE lc'[m] = LcIdle
    BY <1>2, IdleLists, HonestNothing DEF WorkLists
  <1> QED BY <1>1, <1>2

\* So for a pass of the collector.
LEMMA PassStays ==
    ASSUME NEW m \in Names, Mono(m), Lists(m), gc'[m] \in {gc[m], GcIdle}
    PROVE  PassLists(m)
  <1>1. CASE gc'[m] = gc[m]
    BY <1>1, HonestOn DEF Lists, PassLists
  <1>2. CASE gc'[m] = GcIdle
    BY <1>2, IdleLists, HonestNothing DEF PassLists
  <1> QED BY <1>1, <1>2

\* A machine object whose list says no more than before.
LEMMA ObjectStays ==
    ASSUME NEW m \in Names, Mono(m), Lists(m),
           machine'[m].phase = machine[m].phase, machine'[m].pid = machine[m].pid,
           SaysNoMore(machine'[m].cond, machine[m].cond), gc'[m] \in {gc[m], GcIdle}
    PROVE  MachineList(m) /\ PassLists(m) /\ PassAgrees(m)
  <1>1. HonestNext(m, machine[m].pid, machine[m].cond)
    BY HonestOn DEF Lists
  <1>2. MachineList(m)
    BY <1>1, HonestLess DEF MachineList
  <1>3. PassAgrees(m)
    BY IdleLists DEF PassAgrees, Lists, Present
  <1> QED BY <1>2, <1>3, PassStays

\* A list says no more than itself.
LEMMA SaysSame ==
    ASSUME NEW c
    PROVE  SaysNoMore(c, c)
  BY DEF SaysNoMore

\* A machine object that appears, or disappears.
LEMMA ObjectBlank ==
    ASSUME NEW m \in Names, Mono(m), Lists(m), NEW phase, machine'[m] = Blank(phase),
           phase # "present" \/ gc[m].at = "idle", gc'[m] \in {gc[m], GcIdle}
    PROVE  MachineList(m) /\ PassLists(m) /\ PassAgrees(m)
  <1>1. machine'[m].phase = phase /\ machine'[m].cond = NoConds
    BY DEF Blank
  <1>2. MachineList(m)
    BY <1>1, HonestNothing DEF MachineList
  <1>3. PassAgrees(m)
    BY <1>1, IdleLists DEF PassAgrees
  <1> QED BY <1>2, <1>3, PassStays

\* DELETE of a machine.
LEMMA ObjectDeleted ==
    ASSUME TypeOK, NEW m \in Names, Mono(m), Lists(m),
           machine'[m] \in {machine[m], Deleted(machine[m])}, gc'[m] \in {gc[m], GcIdle}
    PROVE  MachineList(m) /\ PassLists(m) /\ PassAgrees(m)
  <1>0. machine[m] \in MachineObjects
    BY DEF TypeOK, ClusterTypeOK
  <1>1. CASE machine'[m] = machine[m]
    BY <1>1, SaysSame, ObjectStays
  <1>2. CASE machine'[m] = Deleted(machine[m]) /\ (machine[m].fin \/ ~Present(m))
    <2>1. /\ machine'[m].phase = machine[m].phase /\ machine'[m].pid = machine[m].pid
          /\ machine'[m].cond = machine[m].cond
      BY <1>0, <1>2, DeletedKeeps DEF Present
    <2> QED BY <2>1, SaysSame, ObjectStays
  <1>3. CASE machine'[m] = Deleted(machine[m]) /\ Present(m) /\ ~machine[m].fin
    <2>1. machine'[m] = Blank("unguarded")
      BY <1>3 DEF Deleted, Present
    <2> QED BY <2>1, ObjectBlank
  <1> QED BY <1>1, <1>2, <1>3

\* Users, AKS, kubelets and the clock.
LEMMA EnvironmentLists ==
    ASSUME TypeOK, NEW m \in Names, MachineInv(m), Lists(m), Mono(m), Environment(m),
           UNCHANGED <<lc, cache, mt, nt, gc>>
    PROVE  Lists(m)'
  <1> SUFFICES MachineList(m) /\ PassLists(m) /\ PassAgrees(m)
    BY WorkStays, AllLists
  <1>0. machine[m] \in MachineObjects /\ machine[m].cond \in Conds /\ gc'[m] = gc[m]
    BY DEF TypeOK, ClusterTypeOK, MachineObjects
  <1>a. machine' = machine => MachineList(m) /\ PassLists(m) /\ PassAgrees(m)
    BY <1>0, SaysSame, ObjectStays
  <1>1. CASE UserCreate(m)
    <2>1. machine'[m] = Blank("present") /\ gc[m].at = "idle"
      BY <1>1 DEF UserCreate, MachineInv, Guarded, TypeOK, ClusterTypeOK
    <2> QED BY <1>0, <2>1, ObjectBlank
  <1>2. CASE UserDelete(m)
    <2>1. machine'[m] = Deleted(machine[m])
      BY <1>2 DEF UserDelete, TypeOK, ClusterTypeOK
    <2> QED BY <1>0, <2>1, ObjectDeleted
  <1>3. CASE Clock(m)
    <2>1. \/ machine'[m] = [machine[m] EXCEPT !.del = "overdue"]
          \/ machine'[m] = [machine[m] EXCEPT !.cond = [machine[m].cond EXCEPT !.regOld = TRUE]]
          \/ machine'[m] = [machine[m] EXCEPT !.cond = [machine[m].cond EXCEPT !.readyOld = TRUE]]
      BY <1>3 DEF Clock, DeletionOverdue, RegistrationExpires, NotReadyTooLong, TypeOK, ClusterTypeOK
    <2>2. /\ machine'[m].phase = machine[m].phase /\ machine'[m].pid = machine[m].pid
          /\ \/ machine'[m].cond = machine[m].cond
             \/ machine'[m].cond = [machine[m].cond EXCEPT !.regOld = TRUE]
             \/ machine'[m].cond = [machine[m].cond EXCEPT !.readyOld = TRUE]
      BY <1>0, <2>1 DEF MachineObjects
    <2>3. SaysNoMore(machine'[m].cond, machine[m].cond)
      BY <1>0, <2>2 DEF SaysNoMore, AllTrue, Conds
    <2> QED BY <1>0, <2>2, <2>3, ObjectStays
  <1>4. CASE \/ PoolLost(m) \/ CreateEnds(m) \/ DeleteEnds(m) \/ NodeJoin(m)
             \/ \E g \in Gens : \/ UserDeleteNode(m, g) \/ NodeReady(m, g)
                                \/ NodeNotReady(m, g) \/ NodeLost(m, g)
    BY <1>a, <1>4 DEF PoolLost, CreateEnds, DeleteEnds, NodeJoin, UserDeleteNode, NodeReady,
                      NodeNotReady, NodeLost
  <1> QED BY <1>1, <1>2, <1>3, <1>4 DEF Environment

\* The two finalizers.
LEMMA TerminationLists ==
    ASSUME TypeOK, NEW m \in Names, Lists(m), Mono(m), UNCHANGED <<lc, gc>>,
           MachineTermination(m) \/ \E g \in Gens : NodeTermination(m, g)
    PROVE  Lists(m)'
  <1> SUFFICES MachineList(m) /\ PassLists(m) /\ PassAgrees(m)
    BY WorkStays, AllLists
  <1>a. machine'[m] = machine[m] => MachineList(m) /\ PassLists(m) /\ PassAgrees(m)
    BY SaysSame, ObjectStays
  <1>1. CASE MtRemove(m) /\ Present(m)
    <2>1. machine'[m] = Blank(IF mt[m].at = "remove" THEN "finalized" ELSE "abandoned")
      BY <1>1 DEF MtRemove, TypeOK, ClusterTypeOK
    <2> QED BY <2>1, ObjectBlank
  <1>2. CASE MachineTermination(m) /\ ~(MtRemove(m) /\ Present(m))
    <2>1. machine' = machine
      BY <1>2 DEF MachineTermination, MtDeleteNodes, MtNoNodes, MtNeverLaunched, MtDelete,
                  MtNotFound, MtPoll, MtDeleteFails, MtRemove, clusterVars
    <2> QED BY <1>a, <2>1
  <1>3. ASSUME NEW g \in Gens, NodeTermination(m, g)
        PROVE  MachineList(m) /\ PassLists(m) /\ PassAgrees(m)
    <2>1. machine'[m] \in {machine[m], Deleted(machine[m])}
      BY <1>3 DEF NodeTermination, NtDrain, NtNotDrained, DeleteAllMachines, NtDelete,
                  NtRemove, NtDeleteFails, clusterVars, TypeOK, ClusterTypeOK
    <2> QED BY <2>1, ObjectDeleted
  <1> QED BY <1>1, <1>2, <1>3

\* The collector: what it writes is honest of the machine that it finds, because the
\* provider ID is still the one it has read.
LEMMA CollectorLists ==
    ASSUME TypeOK, NEW m \in Names, MachineInv(m), Lists(m), Mono(m), GarbageCollection(m),
           UNCHANGED lc
    PROVE  Lists(m)'
  <1>w. WorkLists(m)
    BY WorkStays
  <1>0. /\ machine[m] \in MachineObjects /\ machine[m].cond \in Conds /\ gc[m] \in GcStates
        /\ gc[m].stored \in Conds /\ gc[m].updated \in Conds
    BY DEF TypeOK, ClusterTypeOK, GarbageCollectionTypeOK, MachineObjects, GcStates
  <1>s. HonestNext(m, gc[m].pid, gc[m].stored) /\ HonestNext(m, gc[m].pid, gc[m].updated)
    BY HonestOn DEF Lists
  <1>o. HonestNext(m, machine[m].pid, machine[m].cond)
    BY HonestOn DEF Lists
  <1>1. CASE GcList(m)
    <2>1. machine' = machine
      BY <1>1 DEF GcList, clusterVars
    <2>2. MachineList(m)
      BY <1>o, <2>1 DEF MachineList
    <2>3. CASE gc'[m] = [GcIdle EXCEPT !.at = "listed", !.overdue = TRUE]
      <3>1. gc'[m].overdue /\ gc'[m].stored = NoConds /\ gc'[m].updated = NoConds
        BY <2>3 DEF GcIdle
      <3>2. PassLists(m) /\ PassAgrees(m)
        BY <3>1, HonestNothing DEF PassLists, PassAgrees
      <3> QED BY <1>w, <2>2, <3>2, AllLists
    <2>4. CASE gc'[m] = [at |-> "listed", overdue |-> FALSE, pid |-> machine[m].pid,
                         stored |-> machine[m].cond, updated |-> NoConds]
      <3>1. /\ gc'[m].pid = machine[m].pid /\ gc'[m].stored = machine[m].cond
            /\ gc'[m].updated = NoConds
        BY <2>4
      <3>2. PassLists(m) /\ PassAgrees(m)
        BY <1>o, <2>1, <3>1, HonestNothing DEF PassLists, PassAgrees
      <3> QED BY <1>w, <2>2, <3>2, AllLists
    <2> QED BY <1>1, <2>3, <2>4 DEF GcList, TypeOK, GarbageCollectionTypeOK
  <1>2. CASE GcCloudList(m)
    <2>1. machine' = machine /\ gc[m].at = "listed"
      BY <1>2 DEF GcCloudList, clusterVars
    <2>2. MachineList(m)
      BY <1>o, <2>1 DEF MachineList
    <2>3. CASE gc[m].overdue
      <3>1. gc'[m] = [gc[m] EXCEPT !.at = "force"]
        BY <1>2, <2>3 DEF GcCloudList, TypeOK, GarbageCollectionTypeOK
      <3>2. /\ gc'[m].at = "force" /\ gc'[m].pid = gc[m].pid /\ gc'[m].stored = gc[m].stored
            /\ gc'[m].updated = gc[m].updated
        BY <1>0, <3>1 DEF GcStates
      <3>3. PassLists(m) /\ PassAgrees(m)
        BY <1>s, <3>2 DEF PassLists, PassAgrees
      <3> QED BY <1>w, <2>2, <3>3, AllLists
    <2>4. CASE ~gc[m].overdue
      <3>1. PICK u \in {MarkReady(gc[m].stored), MarkNotReady(gc[m].stored)} : Beat(m, u)
        BY <1>2, <2>4 DEF GcCloudList
      <3>2. u.ready = "True" => AllTrue(u)
        BY <1>0, MarksAreHonest
      <3>3. u.registered = gc[m].stored.registered
        BY <1>0, MarksAreHonest
      <3>4. HonestNext(m, gc[m].pid, u)
        BY <1>s, <3>2, <3>3 DEF HonestNext
      <3>5. CASE gc'[m] = GcIdle
        <4>1. PassLists(m) /\ PassAgrees(m)
          BY <3>5, IdleLists, PassStays DEF PassAgrees
        <4> QED BY <1>w, <2>2, <4>1, AllLists
      <3>6. CASE gc'[m] = [gc[m] EXCEPT !.at = "beat", !.updated = u]
        <4>1. /\ gc'[m].at = "beat" /\ gc'[m].pid = gc[m].pid /\ gc'[m].stored = gc[m].stored
              /\ gc'[m].updated = u
          BY <1>0, <3>6 DEF GcStates
        <4>2. PassLists(m)
          BY <1>s, <3>4, <4>1 DEF PassLists
        <4>3. PassAgrees(m)
          BY <2>1, <2>4, <4>1 DEF PassAgrees, Lists, Present
        <4> QED BY <1>w, <2>2, <4>2, <4>3, AllLists
      <3> QED BY <3>1, <3>5, <3>6 DEF Beat, TypeOK, GarbageCollectionTypeOK
    <2> QED BY <2>3, <2>4
  <1>3. CASE GcForce(m) \/ GcDelete(m) \/ GcCloudListFails(m)
    <2>1. gc'[m] = GcIdle
      BY <1>3 DEF GcForce, GcDelete, GcCloudListFails, TypeOK, GarbageCollectionTypeOK
    <2>2. machine'[m] \in {machine[m], Deleted(machine[m]), Blank("forced")}
      BY <1>3 DEF GcForce, GcDelete, GcCloudListFails, clusterVars, TypeOK, ClusterTypeOK
    <2>3. CASE machine'[m] = Blank("forced")
      BY <1>w, <2>1, <2>3, ObjectBlank, AllLists
    <2>4. CASE machine'[m] \in {machine[m], Deleted(machine[m])}
      BY <1>w, <2>1, <2>4, ObjectDeleted, AllLists
    <2> QED BY <2>2, <2>3, <2>4
  <1>4. CASE WriteBeat(m) /\ gc'[m] \in {GcIdle, [GcIdle EXCEPT !.at = "doomed"]}
    <2>1. /\ gc'[m].at \notin {"listed", "beat"}
          /\ gc'[m].stored = NoConds /\ gc'[m].updated = NoConds
      BY <1>4 DEF GcIdle
    <2>2. PassLists(m) /\ PassAgrees(m)
      BY <2>1, HonestNothing DEF PassLists, PassAgrees
    <2>3. CASE machine' = machine
      BY <1>o, <1>w, <2>2, <2>3, AllLists DEF MachineList
    <2>4. CASE machine' # machine
      <3>1. Present(m) /\ gc[m].at = "beat" /\ ~gc[m].overdue
        BY <1>4, <2>4 DEF WriteBeat, MachineInv, OverdueIsForced
      <3>2. machine[m].pid = gc[m].pid
        BY <3>1 DEF Lists
      <3>3. machine'[m] = [machine[m] EXCEPT !.cond = Overwrite(@, gc[m].updated)]
        BY <1>4, <2>4 DEF WriteBeat, TypeOK, ClusterTypeOK
      <3>4. /\ machine'[m].pid = machine[m].pid
            /\ machine'[m].cond = Overwrite(machine[m].cond, gc[m].updated)
        BY <1>0, <3>3 DEF MachineObjects
      <3>5. SaysNoMore(machine'[m].cond, gc[m].updated)
        BY <1>0, <3>4, OverwriteSaysNoMore
      <3>6. MachineList(m)
        BY <1>s, <3>2, <3>4, <3>5, HonestLess DEF MachineList
      <3> QED BY <1>w, <2>2, <3>6, AllLists
    <2> QED BY <2>3, <2>4
  <1>5. CASE GcBeat(m) \/ GcBeatRace(m)
    BY <1>4, <1>5 DEF GcBeat, GcBeatRace, TypeOK, GarbageCollectionTypeOK
  <1>6. ASSUME NEW g \in Gens, GcNode(m, g) PROVE Lists(m)'
    BY <1>w, <1>6, SaysSame, ObjectStays, AllLists DEF GcNode
  <1> QED BY <1>1, <1>2, <1>3, <1>5, <1>6 DEF GarbageCollection

-----------------------------------------------------------------------------
(* The lifecycle controller. *)

\* A copy without ID says nothing of registration, so that it may be given any ID.
LEMMA DetailsAreHonest ==
    ASSUME NEW m \in Names, NEW c \in Copies, NEW g \in IDs, c.pid = NoID,
           Honest(m, c.pid, c.cond)
    PROVE  HonestNext(m, WithDetails(c, g).pid, WithDetails(c, g).cond)
  <1>1. c.cond \in Conds /\ NoID \notin Gens
    BY DEF Copies, NoID, Gens
  <1>2. WithDetails(c, g).cond = MarkLaunched(c.cond)
    BY DEF WithDetails
  <1>3. c.cond.registered # "True"
    BY <1>1 DEF Honest
  <1>4. /\ MarkLaunched(c.cond).ready = "True" => AllTrue(MarkLaunched(c.cond))
        /\ MarkLaunched(c.cond).registered = c.cond.registered
    BY <1>1, MarksAreHonest
  <1> QED BY <1>2, <1>3, <1>4 DEF HonestNext

\* The start of a reconciliation from an honest copy.
LEMMA BeginLists ==
    ASSUME TypeOK, NEW m \in Names, Mono(m), NEW c \in Copies, Begin(m, c),
           Honest(m, c.pid, c.cond), Consistent(c)
    PROVE  WorkLists(m)
  <1>1. HonestNext(m, c.pid, c.cond)
    BY HonestOn
  <1>2. /\ lc'[m].stored = c
        /\ lc'[m].copy = c \/ (lc'[m].copy = WithDetails(c, cache[m]) /\ c.cond.launched # "True")
    BY BeginFacts
  <1>3. CASE lc'[m].copy = c
    BY <1>1, <1>2, <1>3 DEF WorkLists
  <1>4. CASE lc'[m].copy = WithDetails(c, cache[m]) /\ c.cond.launched # "True"
    <2>1. c.pid = NoID /\ cache[m] \in IDs
      BY <1>4 DEF Consistent, TypeOK, LifecycleTypeOK
    <2>2. HonestNext(m, WithDetails(c, cache[m]).pid, WithDetails(c, cache[m]).cond)
      BY <2>1, DetailsAreHonest
    <2> QED BY <1>1, <1>2, <1>4, <2>2 DEF WorkLists
  <1> QED BY <1>2, <1>3, <1>4

\* Registration marks a machine only when its node has the finalizer.
LEMMA RegistrationHonest ==
    ASSUME NEW m \in Names, Mono(m), NEW c \in Copies, Honest(m, c.pid, c.cond),
           SyncsNode(m, c) => c.pid \in Gens /\ ShieldedNext(m, c.pid)
    PROVE  HonestNext(m, c.pid, Registration(m, c))
  <1>0. c.cond \in Conds
    BY DEF Copies
  <1>1. CASE c.cond.registered = "True"
    BY <1>1, HonestOn DEF Registration
  <1>2. CASE SyncsNode(m, c)
    <2>1. Registration(m, c) = MarkRegistered(c.cond)
      BY <1>2 DEF Registration, SyncsNode
    <2>2. MarkRegistered(c.cond).ready = "True" => AllTrue(MarkRegistered(c.cond))
      BY <1>0, MarksAreHonest
    <2> QED BY <1>2, <2>1, <2>2 DEF HonestNext
  <1>3. CASE c.cond.registered # "True" /\ ~SyncsNode(m, c)
    <2>1. PICK v \in {"NotLaunched", "NodeNotFound"} :
            Registration(m, c) = MarkNotRegistered(c.cond, v)
      BY <1>3 DEF Registration, SyncsNode
    <2>2. MarkNotRegistered(c.cond, v).ready # "True" /\ MarkNotRegistered(c.cond, v).registered = v
      BY <1>0, MarksAreHonest
    <2> QED BY <2>1, <2>2 DEF HonestNext
  <1> QED BY <1>1, <1>2, <1>3

\* Initialization keeps a list honest.
LEMMA InitializationHonest ==
    ASSUME NEW m \in Names, NEW c \in Copies, NEW cond \in Conds, HonestNext(m, c.pid, cond),
           NEW d \in Initialization(m, c, cond)
    PROVE  HonestNext(m, c.pid, d)
  <1>1. CASE d = cond
    BY <1>1
  <1>2. CASE d = MarkInitialized(cond)
    <2>1. /\ MarkInitialized(cond).ready = "True" => AllTrue(MarkInitialized(cond))
          /\ MarkInitialized(cond).registered = cond.registered
      BY MarksAreHonest
    <2> QED BY <1>2, <2>1 DEF HonestNext
  <1>3. ASSUME NEW v \in {"False", "NotReady"}, d = MarkNotInitialized(cond, v)
        PROVE  HonestNext(m, c.pid, d)
    <2>1. /\ MarkNotInitialized(cond, v).ready # "True"
          /\ MarkNotInitialized(cond, v).registered = cond.registered
      BY MarksAreHonest
    <2> QED BY <1>3, <2>1 DEF HonestNext
  <1> QED BY <1>1, <1>2, <1>3 DEF Initialization

\* The lifecycle controller up to the cloud's answer.
LEMMA LaunchLists ==
    ASSUME TypeOK, NEW m \in Names, MachineInv(m), Lists(m), Mono(m), UNCHANGED gc,
           \/ LcStart(m) \/ LcStartStale(m) \/ InformerSync(m) \/ LcCacheExpires(m)
           \/ LcCreate(m) \/ LcCreateRefused(m) \/ LcPoll(m)
           \/ LcNodeFound(m) \/ LcNodeTimeout(m) \/ LcGet(m)
    PROVE  Lists(m)'
  <1> USE DEF TypeOK, ClusterTypeOK, LifecycleTypeOK
  <1>0. /\ machine[m] \in MachineObjects /\ lc[m] \in LcStates /\ lc[m].stored \in Copies
        /\ lc[m].copy \in Copies /\ lc[m].copy.cond \in Conds
    BY DEF MachineObjects, LcStates, Copies
  <1>o. machine'[m] = machine[m] => MachineList(m) /\ PassLists(m) /\ PassAgrees(m)
    BY SaysSame, ObjectStays
  <1>1. CASE LcStart(m)
    <2> DEFINE c == [pid |-> machine[m].pid, link |-> machine[m].link, cond |-> machine[m].cond]
    <2>1. /\ c \in Copies /\ Begin(m, c) /\ Present(m)
          /\ machine'[m] = [machine[m] EXCEPT !.fin = TRUE]
      BY <1>0, <1>1 DEF Copies, LcStart, Live, MachineObjects
    <2>2. Consistent(c) /\ Honest(m, c.pid, c.cond)
      BY <2>1 DEF MachineInv, Recorded, Consistent, Lists
    <2> HIDE DEF c
    <2>3. WorkLists(m)
      BY <2>1, <2>2, BeginLists
    <2>4. /\ machine'[m].phase = machine[m].phase /\ machine'[m].pid = machine[m].pid
          /\ machine'[m].cond = machine[m].cond
      BY <1>0, <2>1 DEF MachineObjects
    <2> QED BY <2>3, <2>4, SaysSame, ObjectStays, AllLists
  <1>2. CASE LcStartStale(m)
    <2>1. Begin(m, lc[m].stored) /\ machine' = machine
      BY <1>2 DEF LcStartStale, clusterVars
    <2>2. Consistent(lc[m].stored) /\ Honest(m, lc[m].stored.pid, lc[m].stored.cond)
      BY <1>2 DEF LcStartStale, MachineInv, Read, Lists
    <2>3. WorkLists(m)
      BY <1>0, <2>1, <2>2, BeginLists
    <2> QED BY <1>o, <2>1, <2>3, AllLists
  <1>3. CASE InformerSync(m) \/ LcCacheExpires(m)
    <2>1. machine' = machine /\ lc'[m] \in {lc[m], LcIdle}
      BY <1>3 DEF InformerSync, LcCacheExpires, clusterVars
    <2> QED BY <1>o, <2>1, WorkStays, AllLists
  <1>a. HonestNext(m, lc[m].stored.pid, lc[m].stored.cond)
    BY HonestOn DEF Lists
  <1>b. HonestNext(m, lc[m].copy.pid, lc[m].copy.cond)
    BY HonestOn DEF Lists
  <1>4. ASSUME NEW at \in LcSteps, lc' = [lc EXCEPT ![m].at = at] PROVE WorkLists(m)
    <2>1. lc'[m].stored = lc[m].stored /\ lc'[m].copy = lc[m].copy
      BY <1>0, <1>4 DEF LcStates
    <2> QED BY <1>a, <1>b, <2>1 DEF WorkLists
  <1>5. ASSUME NEW v \in {"False", "Blocked"},
               lc' = [lc EXCEPT ![m].at = "register", ![m].copy.cond = MarkNotLaunched(@, v)]
        PROVE  WorkLists(m)
    <2>1. /\ lc'[m].stored = lc[m].stored
          /\ lc'[m].copy = [lc[m].copy EXCEPT !.cond = MarkNotLaunched(@, v)]
      BY <1>0, <1>5 DEF LcStates
    <2>2. /\ lc'[m].copy.pid = lc[m].copy.pid
          /\ lc'[m].copy.cond = MarkNotLaunched(lc[m].copy.cond, v)
      BY <1>0, <2>1 DEF Copies
    <2>3. /\ MarkNotLaunched(lc[m].copy.cond, v).ready # "True"
          /\ MarkNotLaunched(lc[m].copy.cond, v).registered = lc[m].copy.cond.registered
      BY <1>0, MarksAreHonest
    <2>4. HonestNext(m, lc[m].copy.pid, lc'[m].copy.cond)
      BY <1>b, <2>2, <2>3 DEF HonestNext
    <2> QED BY <1>a, <2>1, <2>2, <2>4 DEF WorkLists
  <1>6. ASSUME lc[m].at \in Launching, NEW g \in InstanceIDs(m) \ {NoID}, LaunchSucceeds(m, g)
        PROVE  WorkLists(m)
    <2>1. lc'[m] = [lc[m] EXCEPT !.at = "register", !.copy = WithDetails(@, g)]
      BY <1>6 DEF LaunchSucceeds
    <2>2. lc'[m].stored = lc[m].stored /\ lc'[m].copy = WithDetails(lc[m].copy, g)
      BY <1>0, <2>1 DEF LcStates
    <2>3. lc[m].copy.pid = NoID /\ Honest(m, lc[m].copy.pid, lc[m].copy.cond)
      BY <1>6 DEF MachineInv, CallsCloud, Lists
    <2>4. g \in IDs
      BY InstanceIDsType
    <2>5. HonestNext(m, WithDetails(lc[m].copy, g).pid, WithDetails(lc[m].copy, g).cond)
      BY <1>0, <2>3, <2>4, DetailsAreHonest
    <2> QED BY <1>a, <2>2, <2>5 DEF WorkLists
  <1>7. CASE LcCreate(m) \/ LcCreateRefused(m) \/ LcPoll(m)
    <2>1. machine' = machine
      BY <1>7 DEF LcCreate, LcCreateRefused, LcPoll, clusterVars
    <2>2. WorkLists(m)
      BY <1>4, <1>5, <1>7 DEF LcCreate, LcCreateRefused, LcPoll, LaunchFails, LcSteps
    <2> QED BY <1>o, <2>1, <2>2, AllLists
  <1>8. CASE LcNodeFound(m) \/ LcNodeTimeout(m) \/ LcGet(m)
    <2>1. machine' = machine /\ lc[m].at \in Launching
      BY <1>8 DEF LcNodeFound, LcNodeTimeout, LcGet, clusterVars, Launching
    <2>2. \/ \E g \in InstanceIDs(m) \ {NoID} : LaunchSucceeds(m, g)
          \/ lc' = [lc EXCEPT ![m].at = "register", ![m].copy.cond = MarkNotLaunched(@, "False")]
      BY <1>8 DEF LcNodeFound, LcNodeTimeout, LcGet
    <2>3. WorkLists(m)
      BY <1>5, <1>6, <2>1, <2>2
    <2> QED BY <1>o, <2>1, <2>3, AllLists
  <1> QED BY <1>1, <1>2, <1>3, <1>7, <1>8

\* The lifecycle controller from registration to the two patches.
LEMMA FinishLists ==
    ASSUME TypeOK, NEW m \in Names, MachineInv(m), Lists(m), Mono(m), UNCHANGED gc,
           \/ LcRegister(m) \/ LcSyncFails(m) \/ LcPatch(m)
           \/ LcStatus(m) \/ LcStatusLag(m) \/ LcPatchFails(m)
    PROVE  Lists(m)'
  <1> USE DEF TypeOK, ClusterTypeOK, LifecycleTypeOK
  <1>0. /\ machine[m] \in MachineObjects /\ machine[m].cond \in Conds /\ lc[m] \in LcStates
        /\ lc[m].stored \in Copies /\ lc[m].copy \in Copies /\ lc[m].copy.cond \in Conds
    BY DEF MachineObjects, LcStates, Copies
  <1>o. machine'[m] = machine[m] => MachineList(m) /\ PassLists(m) /\ PassAgrees(m)
    BY SaysSame, ObjectStays
  <1>a. HonestNext(m, lc[m].stored.pid, lc[m].stored.cond)
    BY HonestOn DEF Lists
  <1>b. HonestNext(m, lc[m].copy.pid, lc[m].copy.cond)
    BY HonestOn DEF Lists
  <1>1. ASSUME NEW cond, ToPatch(m, cond), HonestNext(m, lc[m].copy.pid, cond) PROVE WorkLists(m)
    <2>1. CASE lc'[m] = LcIdle
      BY <2>1, WorkStays
    <2>2. CASE lc'[m] = [lc[m] EXCEPT !.at = "patch", !.copy.cond = cond]
      <3>1. lc'[m].stored = lc[m].stored /\ lc'[m].copy = [lc[m].copy EXCEPT !.cond = cond]
        BY <1>0, <2>2 DEF LcStates
      <3>2. lc'[m].copy.pid = lc[m].copy.pid /\ lc'[m].copy.cond = cond
        BY <1>0, <3>1 DEF Copies
      <3> QED BY <1>1, <1>a, <3>1, <3>2 DEF WorkLists
    <2> QED BY <1>1, <2>1, <2>2 DEF ToPatch
  <1>2. CASE LcRegister(m)
    <2> DEFINE c == lc[m].copy
    <2>1. /\ machine' = machine
          /\ node' = IF SyncsNode(m, c) THEN [node EXCEPT ![m][c.pid].fin = TRUE] ELSE node
      BY <1>2 DEF LcRegister
    <2>2. SyncsNode(m, c) => c.pid \in Gens /\ node[m][c.pid].there
      BY <1>0, IDFacts DEF SyncsNode, NodeFound, Copies
    <2>3. SyncsNode(m, c) => c.pid \in Gens /\ ShieldedNext(m, c.pid)
      <3> SUFFICES ASSUME SyncsNode(m, c) PROVE ShieldedNext(m, c.pid)
        BY <2>2
      <3>1. node'[m][c.pid] = [node[m][c.pid] EXCEPT !.fin = TRUE]
        BY <2>1, <2>2
      <3>2. node[m][c.pid] \in NodeObjects
        BY <2>2
      <3>3. node'[m][c.pid].there /\ node'[m][c.pid].fin
        BY <2>2, <3>1, <3>2 DEF NodeObjects
      <3> QED BY <3>3 DEF ShieldedNext
    <2>4. PICK d \in Initialization(m, c, Registration(m, c)) : ToPatch(m, d)
      BY <1>2 DEF LcRegister
    <2>5. c \in Copies /\ Honest(m, c.pid, c.cond)
      BY <1>0 DEF Lists
    <2>6. Registration(m, c) \in Conds /\ HonestNext(m, c.pid, Registration(m, c))
      BY <2>3, <2>5, RegistrationFacts, RegistrationHonest
    <2>7. HonestNext(m, c.pid, d)
      BY <2>4, <2>5, <2>6, InitializationHonest
    <2> QED BY <1>o, <1>1, <2>1, <2>4, <2>7, AllLists
  <1>3. CASE LcSyncFails(m)
    <2>1. machine' = machine
      BY <1>3 DEF LcSyncFails
    <2>2. PICK d \in Initialization(m, lc[m].copy, lc[m].copy.cond) : ToPatch(m, d)
      BY <1>3 DEF LcSyncFails
    <2>3. HonestNext(m, lc[m].copy.pid, d)
      BY <1>0, <1>b, <2>2, InitializationHonest
    <2> QED BY <1>o, <1>1, <2>1, <2>2, <2>3, AllLists
  <1>4. CASE LcPatchFails(m)
    <2>1. machine' = machine /\ lc'[m] = LcIdle
      BY <1>4 DEF LcPatchFails
    <2> QED BY <1>o, <2>1, WorkStays, AllLists
  <1>5. CASE LcPatch(m)
    <2> DEFINE o == IF Expired(lc[m].copy) THEN Deleted(machine[m]) ELSE machine[m]
    <2>1. /\ lc[m].at = "patch"
          /\ machine'[m] \in {o, [o EXCEPT !.link = lc[m].copy.link]}
          /\ lc'[m] \in {[lc[m] EXCEPT !.at = "status"], LcIdle}
      BY <1>5 DEF LcPatch
    <2>2. machine[m].fin \/ ~Present(m)
      BY <2>1 DEF MachineInv, Guarded
    <2>3. /\ o \in MachineObjects /\ o.phase = machine[m].phase /\ o.pid = machine[m].pid
          /\ o.cond = machine[m].cond
      BY <1>0, <2>2, DeletedKeeps, DeleteFacts DEF Present
    <2> HIDE DEF o
    <2>4. /\ machine'[m].phase = machine[m].phase /\ machine'[m].pid = machine[m].pid
          /\ machine'[m].cond = machine[m].cond
      BY <2>1, <2>3 DEF MachineObjects
    <2>5. MachineList(m) /\ PassLists(m) /\ PassAgrees(m)
      BY <2>4, SaysSame, ObjectStays
    <2>6. CASE lc'[m] = LcIdle
      BY <2>5, <2>6, WorkStays, AllLists
    <2>7. CASE lc'[m] = [lc[m] EXCEPT !.at = "status"]
      <3>1. lc'[m].stored = lc[m].stored /\ lc'[m].copy = lc[m].copy
        BY <1>0, <2>7 DEF LcStates
      <3>2. WorkLists(m)
        BY <1>a, <1>b, <3>1 DEF WorkLists
      <3> QED BY <2>5, <3>2, AllLists
    <2> QED BY <2>1, <2>6, <2>7
  <1>6. ASSUME WriteStatus(m), WorkLists(m) PROVE Lists(m)'
    <2>1. CASE ~Present(m)
      <3>1. machine' = machine
        BY <1>6, <2>1 DEF WriteStatus
      <3> QED BY <1>o, <1>6, <3>1, AllLists
    <2>2. CASE Present(m)
      <3>1. machine'[m] = [machine[m] EXCEPT
               !.pid = IF lc[m].copy.pid # lc[m].stored.pid THEN lc[m].copy.pid ELSE @,
               !.cond = IF lc[m].copy.cond # lc[m].stored.cond
                        THEN Overwrite(@, lc[m].copy.cond) ELSE @]
        BY <1>6, <2>2 DEF WriteStatus
      <3>2. /\ machine'[m].pid = IF lc[m].copy.pid # lc[m].stored.pid
                                 THEN lc[m].copy.pid ELSE machine[m].pid
            /\ \/ machine'[m].cond = Overwrite(machine[m].cond, lc[m].copy.cond)
               \/ machine'[m].cond = machine[m].cond
        BY <1>0, <3>1 DEF MachineObjects
      <3>3. /\ lc[m].at = "status" /\ Writes(m) /\ Read(m)
        BY <1>6 DEF WriteStatus, MachineInv
      <3>4. /\ machine[m].pid # NoID => machine'[m].pid = machine[m].pid
            /\ machine'[m].pid = lc[m].copy.pid
        BY <2>2, <3>2, <3>3 DEF Writes, Read, Finishing
      <3>5. MachineList(m)
        <4>1. CASE machine'[m].cond = Overwrite(machine[m].cond, lc[m].copy.cond)
          <5>1. SaysNoMore(machine'[m].cond, lc[m].copy.cond)
            BY <1>0, <4>1, OverwriteSaysNoMore
          <5> QED BY <1>b, <3>4, <5>1, HonestLess DEF MachineList
        <4>2. CASE machine'[m].cond = machine[m].cond
          \* A registered machine has its ID, which the patch does not change.
          <5>1. HonestNext(m, machine[m].pid, machine[m].cond)
            BY HonestOn DEF Lists
          <5>2. NoID \notin Gens
            BY DEF NoID, Gens
          <5> QED BY <3>4, <4>2, <5>1, <5>2 DEF MachineList, HonestNext
        <4> QED BY <3>2, <4>1, <4>2
      <3>6. PassAgrees(m)
        <4>1. (gc[m].at \in {"listed", "beat"} /\ ~gc[m].overdue) =>
                machine[m].pid # NoID /\ machine[m].pid = gc[m].pid
          BY <2>2 DEF MachineInv, Collects, Lists
        <4> QED BY <3>4, <4>1 DEF PassAgrees
      <3>7. PassLists(m)
        BY PassStays
      <3> QED BY <1>6, <3>5, <3>6, <3>7, AllLists
    <2> QED BY <2>1, <2>2
  <1>7. CASE LcStatus(m)
    BY <1>6, <1>7, WorkStays DEF LcStatus
  <1>8. CASE LcStatusLag(m)
    <2>1. lc'[m] = [LcIdle EXCEPT !.at = "lagging", !.stored = lc[m].stored]
      BY <1>8 DEF LcStatusLag
    <2>2. lc'[m].stored = lc[m].stored /\ lc'[m].copy = NoCopy
      BY <2>1 DEF LcIdle
    <2>3. WorkLists(m)
      BY <1>a, <2>2, IdleLists, HonestNothing DEF WorkLists
    <2> QED BY <1>6, <1>8, <2>3 DEF LcStatusLag
  <1> QED BY <1>2, <1>3, <1>4, <1>5, <1>7, <1>8

-----------------------------------------------------------------------------
(* All steps. *)

\* A step for one machine leaves the nodes of the others alone.
LEMMA OtherNodes ==
    ASSUME TypeOK, NEW m \in Names, NEW n \in Names \ {m},
           \/ Environment(m) /\ UNCHANGED <<lc, cache, mt, nt, gc>>
           \/ Lifecycle(m) /\ UNCHANGED <<mt, nt, gc>>
           \/ MachineTermination(m) /\ UNCHANGED <<lc, cache, nt, gc>>
           \/ GarbageCollection(m) /\ UNCHANGED <<lc, cache, mt, nt>>
           \/ \E g \in Gens : NodeTermination(m, g) /\ UNCHANGED <<lc, cache, mt, gc>>
    PROVE  node'[n] = node[n] /\ nt'[n] = nt[n]
  <1> USE DEF TypeOK, ClusterTypeOK, NodeTerminationTypeOK, clusterVars
  <1>1. Environment(m) => node'[n] = node[n]
    BY DEF Environment, UserCreate, UserDelete, PoolLost, CreateEnds, DeleteEnds, NodeJoin,
           Clock, DeletionOverdue, RegistrationExpires, NotReadyTooLong, UserDeleteNode,
           NodeReady, NodeNotReady, NodeLost
  <1>2. Lifecycle(m) => node'[n] = node[n]
    BY DEF Lifecycle, LcStart, LcStartStale, InformerSync, LcCacheExpires, LcCreate,
           LcCreateRefused, LcPoll, LcNodeFound, LcNodeTimeout, LcGet, LcRegister,
           LcSyncFails, LcPatch, WriteStatus, LcStatus, LcStatusLag, LcPatchFails
  <1>3. MachineTermination(m) => node'[n] = node[n]
    BY DEF MachineTermination, MtDeleteNodes, MtNoNodes, MtNeverLaunched, MtDelete,
           MtNotFound, MtPoll, MtDeleteFails, MtRemove
  <1>4. GarbageCollection(m) => node'[n] = node[n]
    BY DEF GarbageCollection, GcList, GcCloudList, GcCloudListFails, GcForce,
           WriteBeat, GcBeat, GcBeatRace, GcDelete, GcNode
  <1>5. \A g \in Gens : NodeTermination(m, g) => node'[n] = node[n] /\ nt'[n] = nt[n]
    BY DEF NodeTermination, NtDrain, NtNotDrained, NtDelete, NtRemove, NtDeleteFails
  <1> QED BY <1>1, <1>2, <1>3, <1>4, <1>5

MachineCond(m) == (\A g \in Gens : NodeInv(m, g)) /\ Lists(m)

CondInv == Inv /\ \A m \in Names : MachineCond(m)

\* What is shielded stays so, in terms of the step.
LEMMA KeepsMono ==
    ASSUME NEW m \in Names, \A g \in Gens : Keeps(m, g)
    PROVE  (\A g \in Gens : NodeInv(m, g)') /\ Mono(m)
  BY DEF Keeps, Mono, Shielded, ShieldedNext

\* A step that leaves the machine, its pool and nodes and the work on them alone, or
\* forgets that work.
LEMMA CondFrame ==
    ASSUME TypeOK, TypeOK', NEW m \in Names, MachineCond(m), machine'[m] = machine[m],
           pool'[m] = pool[m], node'[m] = node[m],
           nt'[m] = nt[m] \/ \A g \in Gens : nt'[m][g] = NtIdle,
           lc'[m] \in {lc[m], LcIdle}, gc'[m] \in {gc[m], GcIdle}
    PROVE  MachineCond(m)'
  <1>1. Grows(m)
    <2>1. pool[m].gen \in Nat
      BY GenFacts
    <2>2. pool'[m].gen = pool[m].gen /\ pool'[m].st = pool[m].st
      OBVIOUS
    <2>3. \A k \in Nat : k >= k
      OBVIOUS
    <2>4. pool'[m].gen >= pool[m].gen
      BY <2>1, <2>2, <2>3, Zenon
    <2> QED BY <2>2, <2>4 DEF Grows
  <1>2. \A g \in Gens : NodeInv(m, g)
    BY DEF MachineCond
  <1>3. \A g \in Gens : Keeps(m, g)
    BY <1>1, <1>2, NodesSame
  <1>4. (\A g \in Gens : NodeInv(m, g)') /\ Mono(m)
    BY <1>3, KeepsMono
  <1>5. Lists(m)
    BY DEF MachineCond
  <1>6. Lists(m)'
    BY <1>4, <1>5, SaysSame, ObjectStays, WorkStays, AllLists
  <1> QED BY <1>4, <1>6 DEF MachineCond

\* A step for a machine keeps what is said of it.
LEMMA StepCond ==
    ASSUME TypeOK, TypeOK', NEW m \in Names, MachineInv(m), MachineCond(m),
           \/ Environment(m) /\ UNCHANGED <<lc, cache, mt, nt, gc>>
           \/ Lifecycle(m) /\ UNCHANGED <<mt, nt, gc>>
           \/ MachineTermination(m) /\ UNCHANGED <<lc, cache, nt, gc>>
           \/ GarbageCollection(m) /\ UNCHANGED <<lc, cache, mt, nt>>
           \/ \E g \in Gens : NodeTermination(m, g) /\ UNCHANGED <<lc, cache, mt, gc>>
    PROVE  MachineCond(m)'
  <1>0. (\A g \in Gens : NodeInv(m, g)) /\ Lists(m)
    BY DEF MachineCond
  <1>1. \A g \in Gens : Keeps(m, g)
    BY <1>0, EnvironmentNodes, LifecycleNodes, DeletionNodes, NodeTerminationNodes
  <1>2. (\A g \in Gens : NodeInv(m, g)') /\ Mono(m)
    BY <1>1, KeepsMono
  <1>3. Lifecycle(m) /\ UNCHANGED gc => Lists(m)'
    BY <1>0, <1>2, LaunchLists, FinishLists DEF Lifecycle
  <1>4. Lists(m)'
    BY <1>0, <1>2, <1>3, EnvironmentLists, TerminationLists, CollectorLists
  <1> QED BY <1>2, <1>4 DEF MachineCond

\* Every step keeps CondInv.
LEMMA NextCond == CondInv /\ [Next]_vars => CondInv'
  <1> SUFFICES ASSUME CondInv, [Next]_vars, NEW n \in Names PROVE MachineCond(n)'
    BY NextInv DEF CondInv
  <1>0. TypeOK /\ TypeOK' /\ \A m \in Names : MachineInv(m) /\ MachineCond(m)
    BY NextInv DEF CondInv, Inv
  <1>1. ASSUME NEW m \in Names,
               \/ Environment(m) /\ UNCHANGED <<lc, cache, mt, nt, gc>>
               \/ Lifecycle(m) /\ UNCHANGED <<mt, nt, gc>>
               \/ MachineTermination(m) /\ UNCHANGED <<lc, cache, nt, gc>>
               \/ GarbageCollection(m) /\ UNCHANGED <<lc, cache, mt, nt>>
               \/ \E g \in Gens : NodeTermination(m, g) /\ UNCHANGED <<lc, cache, mt, gc>>
        PROVE  MachineCond(n)'
    <2>1. CASE n = m
      BY <1>0, <1>1, <2>1, StepCond
    <2>2. CASE n # m
      <3>1. /\ machine'[n] = machine[n] /\ pool'[n] = pool[n] /\ lc'[n] = lc[n]
            /\ gc'[n] = gc[n]
        BY <1>0, <1>1, <2>2, OthersUnchanged
      <3>2. node'[n] = node[n] /\ nt'[n] = nt[n]
        BY <1>0, <1>1, <2>2, OtherNodes
      <3> QED BY <1>0, <3>1, <3>2, CondFrame
    <2> QED BY <2>1, <2>2
  <1>2. CASE Crash
    <2>1. /\ machine' = machine /\ pool' = pool /\ node' = node /\ lc'[n] = LcIdle
          /\ gc'[n] = GcIdle /\ \A g \in Gens : nt'[n][g] = NtIdle
      BY <1>2 DEF Crash
    <2> QED BY <1>0, <2>1, CondFrame
  <1>3. CASE UNCHANGED vars
    BY <1>0, <1>3, CondFrame DEF vars, clusterVars
  <1> QED BY <1>1, <1>2, <1>3 DEF Next

\* CondInv holds initially.
LEMMA InitCond == Init => CondInv
  <1> SUFFICES ASSUME Init, NEW m \in Names PROVE MachineCond(m)
    BY InitInv DEF CondInv
  <1>1. /\ machine[m].cond = NoConds /\ lc[m] = LcIdle /\ gc[m] = GcIdle
    BY DEF Init, ClusterInit, LifecycleInit, GarbageCollectionInit, Blank
  <1>2. \A p : Honest(m, p, NoConds)
    BY DEF Honest, NoConds
  <1>3. Lists(m)
    BY <1>1, <1>2, IdleLists DEF Lists
  <1>4. ASSUME NEW g \in Gens PROVE NodeInv(m, g)
    <2>1. node[m][g] = NoNode /\ nt[m][g] = NtIdle
      BY DEF Init, ClusterInit, NodeTerminationInit
    <2>2. /\ ~node[m][g].there /\ ~node[m][g].del /\ ~node[m][g].fin
      BY <2>1, NoNodeFields
    <2>3. nt[m][g].at = "idle"
      BY <2>1 DEF NtIdle
    <2> QED BY <2>2, <2>3 DEF NodeInv
  <1> QED BY <1>3, <1>4 DEF MachineCond

\* CondInv is an invariant.
THEOREM CondInvariance == Spec => []CondInv
  BY InitCond, NextCond, PTL DEF Spec

\* However the lifecycle controller and the collector overwrite each other's lists, the
\* list of a machine never says Ready while a dependent is not True.
THEOREM ReadyIsTrue == Spec => []ReadyMeansReady
  <1>1. CondInv => ReadyMeansReady
    BY DEF CondInv, MachineCond, Lists, Honest, ReadyMeansReady
  <1> QED BY <1>1, CondInvariance, PTL

\* The node of a machine that is registered has the termination finalizer as long as it
\* is there, whoever deletes it.
THEOREM RegisteredIsGuarded == Spec => []RegisteredNodeIsGuarded
  <1>1. CondInv => RegisteredNodeIsGuarded
    <2> SUFFICES ASSUME CondInv, NEW m \in Names, machine[m].cond.registered = "True",
                        node[m][machine[m].pid].there
                 PROVE  node[m][machine[m].pid].fin
      BY DEF RegisteredNodeIsGuarded
    <2>1. Honest(m, machine[m].pid, machine[m].cond)
      BY DEF CondInv, MachineCond, Lists
    <2> QED BY <2>1 DEF Honest, Shielded
  <1> QED BY <1>1, CondInvariance, PTL
=============================================================================
