------------------------------ MODULE Cluster -------------------------------
(***************************************************************************)
(* The state that the controllers of gpu-provisioner share: the machine    *)
(* and node objects of the API server and the agent pools of AKS, with the *)
(* API verbs as operators, and the steps of everybody who is not a         *)
(* controller of this program (user, AKS, kubelet, cloud controller        *)
(* manager, clock).                                                        *)
(*                                                                         *)
(* A machine and its agent pool have the same name.  Every new pool gets a *)
(* fresh scale set, so a provider ID is told apart by the generation of    *)
(* the pool of that name: provider ID g of machine m stands for            *)
(* azure:///.../<scale set of the g-th pool m>/virtualMachines/0, and 0    *)
(* stands for the empty string.  A machine name is used once.              *)
(***************************************************************************)
EXTENDS Conditions, Integers

CONSTANTS
    Names,      \* names of machines, hence of agent pools
    MaxGen,     \* bound: pools created under one name
    MaxFaults   \* bound: crashes, failed patches, slow informers, nodes or pools
                \* deleted by hand

ASSUME NamesAssumption  == Names # {}
ASSUME BoundsAssumption == MaxGen \in Nat \ {0} /\ MaxFaults \in Nat

VARIABLES
    machine,    \* machine objects
    node,       \* node objects, by pool name and generation
    pool,       \* agent pools
    faults      \* faults so far

clusterVars == <<machine, node, pool, faults>>

Gens == 1..MaxGen
NoID == 0
IDs  == 0..MaxGen

\* "finalized", "abandoned", "forced" and "unguarded" are the ways in which a
\* machine object can disappear.
Phases == {"none", "present", "finalized", "abandoned", "forced", "unguarded"}

MachineObjects == [phase: Phases, fin: BOOLEAN, del: {"no", "yes", "overdue"},
                   pid: IDs, link: IDs, cond: Conds]
NodeObjects    == [there: BOOLEAN, ready: BOOLEAN, fin: BOOLEAN, del: BOOLEAN]
Pools          == [st: {"absent", "creating", "up", "failed", "deleting"}, gen: IDs]

Blank(phase) == [phase |-> phase, fin |-> FALSE, del |-> "no",
                 pid |-> NoID, link |-> NoID, cond |-> NoConds]
NoNode       == [there |-> FALSE, ready |-> FALSE, fin |-> FALSE, del |-> FALSE]

ClusterTypeOK ==
    /\ machine \in [Names -> MachineObjects]
    /\ node \in [Names -> [Gens -> NodeObjects]]
    /\ pool \in [Names -> Pools]
    /\ faults \in 0..MaxFaults

ClusterInit ==
    /\ machine = [m \in Names |-> Blank("none")]
    /\ node = [m \in Names |-> [g \in Gens |-> NoNode]]
    /\ pool = [m \in Names |-> [st |-> "absent", gen |-> 0]]
    /\ faults = 0

Present(m) == machine[m].phase = "present"
Live(m)    == Present(m) /\ machine[m].del = "no"

-----------------------------------------------------------------------------
(* API verbs on objects. *)

\* DELETE of a machine: immediate without finalizer, marked otherwise.
Deleted(o) ==
    IF o.phase # "present" THEN o
    ELSE IF ~o.fin THEN Blank("unguarded")
    ELSE [o EXCEPT !.del = IF @ = "no" THEN "yes" ELSE @]

\* DELETE of a node.
DeletedNode(n) == IF n.fin THEN [n EXCEPT !.del = TRUE] ELSE NoNode

\* A fault uses up the budget.
Fault == faults < MaxFaults /\ faults' = faults + 1

-----------------------------------------------------------------------------
(* The instance provider's calls to AKS, as seen by its callers. *)

\* getNodeByName takes the first node that carries the pool's label: any of them.
\* No node, or a node that is not Ready, gives no instance.
NodesOf(m) == {g \in Gens : node[m][g].there}
InstanceIDs(m) ==
    IF NodesOf(m) = {} THEN {NoID}
    ELSE {IF node[m][g].ready THEN g ELSE NoID : g \in NodesOf(m)}

\* PUT of an agent pool: creates a pool that is absent, retries one that failed,
\* changes nothing in one that is up; refused while another operation runs.
BeginCreateOrUpdate(m) ==
    \/ /\ pool[m].st = "absent" /\ pool[m].gen < MaxGen
       /\ pool' = [pool EXCEPT ![m] = [st |-> "creating", gen |-> @.gen + 1]]
    \/ /\ pool[m].st = "failed"
       /\ pool' = [pool EXCEPT ![m].st = "creating"]
    \/ /\ pool[m].st = "up"
       /\ UNCHANGED pool

\* DELETE of an agent pool that exists, in any state.
BeginDelete(m) ==
    /\ pool[m].st # "absent"
    /\ pool' = [pool EXCEPT ![m].st = "deleting"]

\* The poller of a DELETE that found generation g returns.
DeletePolled(m, g) == pool[m].st = "absent" \/ pool[m].gen > g

-----------------------------------------------------------------------------
(* The environment. *)

UserCreate(m) ==
    /\ machine[m].phase = "none"
    /\ machine' = [machine EXCEPT ![m] = Blank("present")]
    /\ UNCHANGED <<node, pool, faults>>

UserDelete(m) ==
    /\ Live(m)
    /\ machine' = [machine EXCEPT ![m] = Deleted(@)]
    /\ UNCHANGED <<node, pool, faults>>

UserDeleteNode(m, g) ==
    /\ node[m][g].there /\ ~node[m][g].del
    /\ node' = [node EXCEPT ![m][g] = DeletedNode(@)]
    /\ Fault
    /\ UNCHANGED <<machine, pool>>

\* The pool is deleted outside of this program.
PoolLost(m) ==
    /\ pool[m].st = "up"
    /\ pool' = [pool EXCEPT ![m].st = "absent"]
    /\ Fault
    /\ UNCHANGED <<machine, node>>

\* A running operation of AKS ends.
CreateEnds(m) ==
    /\ pool[m].st = "creating"
    /\ \E st \in {"up", "failed"} : pool' = [pool EXCEPT ![m].st = st]
    /\ UNCHANGED <<machine, node, faults>>

DeleteEnds(m) ==
    /\ pool[m].st = "deleting"
    /\ pool' = [pool EXCEPT ![m].st = "absent"]
    /\ UNCHANGED <<machine, node, faults>>

\* The kubelet of the pool's virtual machine registers its node.
NodeJoin(m) ==
    /\ pool[m].st \in {"creating", "up"}
    /\ \E g \in Gens :
         /\ g = pool[m].gen /\ ~node[m][g].there
         /\ node' = [node EXCEPT ![m][g] = [NoNode EXCEPT !.there = TRUE]]
    /\ UNCHANGED <<machine, pool, faults>>

NodeReady(m, g) ==
    /\ node[m][g].there /\ ~node[m][g].ready
    /\ pool[m].st # "absent" /\ pool[m].gen = g
    /\ node' = [node EXCEPT ![m][g].ready = TRUE]
    /\ UNCHANGED <<machine, pool, faults>>

NodeNotReady(m, g) ==
    /\ node[m][g].ready
    /\ node' = [node EXCEPT ![m][g].ready = FALSE]
    /\ UNCHANGED <<machine, pool, faults>>

\* The cloud controller manager deletes the node of a virtual machine that is gone.
NodeLost(m, g) ==
    /\ node[m][g].there /\ ~node[m][g].del
    /\ pool[m].st = "absent" \/ pool[m].gen # g
    /\ node' = [node EXCEPT ![m][g] = DeletedNode(@)]
    /\ UNCHANGED <<machine, pool, faults>>

\* Ten minutes after the deletion, registrationTTL after the last transition of
\* MachineRegistered, ten minutes after that of Ready.
DeletionOverdue(m) ==
    /\ Present(m) /\ machine[m].del = "yes"
    /\ machine' = [machine EXCEPT ![m].del = "overdue"]
    /\ UNCHANGED <<node, pool, faults>>

RegistrationExpires(m) ==
    /\ Live(m) /\ ~machine[m].cond.regOld
    /\ machine[m].cond.registered \in {"NotLaunched", "NodeNotFound"}
    /\ machine' = [machine EXCEPT ![m].cond.regOld = TRUE]
    /\ UNCHANGED <<node, pool, faults>>

NotReadyTooLong(m) ==
    /\ Live(m) /\ ~machine[m].cond.readyOld /\ machine[m].cond.ready = "NotReady"
    /\ machine' = [machine EXCEPT ![m].cond.readyOld = TRUE]
    /\ UNCHANGED <<node, pool, faults>>

Clock(m) == DeletionOverdue(m) \/ RegistrationExpires(m) \/ NotReadyTooLong(m)

Environment(m) ==
    \/ UserCreate(m) \/ UserDelete(m) \/ PoolLost(m)
    \/ CreateEnds(m) \/ DeleteEnds(m) \/ NodeJoin(m) \/ Clock(m)
    \/ \E g \in Gens : \/ UserDeleteNode(m, g) \/ NodeReady(m, g)
                       \/ NodeNotReady(m, g) \/ NodeLost(m, g)
=============================================================================
