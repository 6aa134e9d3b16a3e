-------------------------- MODULE InstanceProvider --------------------------
(***************************************************************************)
(* The instance provider: machines become agent pools, and agent pools     *)
(* become the instances and the provider IDs that the controllers work     *)
(* with.  The other modules take the way from a machine to its pool and    *)
(* back for granted; here it is what the code does with names, sizes,      *)
(* and labels, and with a list that comes in pages.                        *)
(*                                                                         *)
(* Between dashes, a name begins with "vmss" or it does not.  That much of *)
(* the strings matters, so a name is a record with that fact and the rest. *)
(* A node is called aks-<pool>-<hash>-vmss<index>, its scale set the same  *)
(* without the index.                                                      *)
(***************************************************************************)
EXTENDS Naturals, Sequences, FiniteSets

CONSTANTS
    Order,       \* the names of all agent pools, in the order of AKS's list
    Machines,    \* those that are made for a machine
    SpecOf(_),   \* what the machine asks for (see IsSpec)
    TooLong,     \* names of more than eleven characters
    GpuSizes     \* sizes whose name contains "Standard_N"

Names == {Order[i] : i \in DOMAIN Order}
Keys  == {"provisioner-name", "machine-type", "other"}
Unset == "unset"

\* What of a machine's specification matters here: the values of the requirement on
\* the instance type, and the labels.
IsSpec(spec) == IsFiniteSet(spec.sizes) /\ DOMAIN spec.labels = Keys

ASSUME ProviderAssumption ==
    /\ Order \in Seq([vmss: BOOLEAN, rest: STRING]) /\ Machines \subseteq Names
    /\ \A m \in Machines : IsSpec(SpecOf(m))

VARIABLES
    pool,       \* agent pools, by name
    node,       \* the node of each pool
    machine,    \* the machines, and the call of Create or Delete for each
    list        \* a call of List

providerVars == <<pool, node, machine, list>>

Absent  == [phase |-> "absent"]
NoID    == <<>>
NoList  == [at |-> "idle", last |-> 0, todo |-> {}, got |-> {}, steady |-> {}]
System  == [size |-> "system", labels |-> [k \in Keys |-> Unset]]

ProviderInit ==
    /\ pool = [n \in Names |-> IF n \in Machines THEN Absent
                               ELSE [phase |-> "ready", obj |-> System]]
    /\ node = [n \in Names |-> IF n \in Machines THEN "none" ELSE "ready"]
    /\ machine = [m \in Machines |-> [at |-> "new", id |-> NoID, labels |-> System.labels,
                                      target |-> m]]
    /\ list = NoList

-----------------------------------------------------------------------------
(* Names. *)

Word(w) == [vmss |-> FALSE, rest |-> w]

\* The name of the node that AKS makes for a pool, split at its dashes.
NodeName(n) == <<Word("aks"), n, Word("hash"), [vmss |-> TRUE, rest |-> "000000"]>>

\* strings.SplitAfter(node.Name, "-vmss")[0]: up to the first "-vmss".
ScaleSetName(parts) ==
    LET cut == CHOOSE i \in 2..Len(parts) :
                 parts[i].vmss /\ \A j \in 2..(i - 1) : ~parts[j].vmss
    IN  SubSeq(parts, 1, cut - 1) \o <<[vmss |-> TRUE, rest |-> ""]>>

\* Variant: the first substring.
ParseFirst(id) == id[1]

\* ParseAgentPoolNameFromID: the second substring of the scale set's name.
ParseAgentPoolName(id) == id[2]

-----------------------------------------------------------------------------
(* The object that is sent to AKS. *)

Override(under, over) == [k \in Keys |-> IF over[k] = Unset THEN under[k] ELSE over[k]]

Defaults == [k \in Keys |-> IF k = "provisioner-name" THEN "default" ELSE Unset]

\* Variant: the default wins over the machine's label.
NodeLabelsDefaultLast(spec, size) ==
    [Override(spec.labels, Defaults) EXCEPT
       !["machine-type"] = IF size \in GpuSizes THEN "gpu" ELSE "cpu"]

NodeLabels(spec, size) ==
    [Override(Defaults, spec.labels) EXCEPT
       !["machine-type"] = IF size \in GpuSizes THEN "gpu" ELSE "cpu"]

\* Taints are copied, the disk is left out, and the rest is constant.
newAgentPoolObject(spec, size) == [size |-> size, labels |-> NodeLabels(spec, size)]

\* Requirement.Values lists a set in no order, whatever the operator is.
SizesToTry(spec) == spec.sizes

-----------------------------------------------------------------------------
(* Create. *)

\* The name is checked, and a size is chosen.
CreateFails(m) ==
    /\ machine[m].at = "new"
    /\ m \in TooLong \/ SizesToTry(SpecOf(m)) = {}
    /\ machine' = [machine EXCEPT ![m].at = "failed"]
    /\ UNCHANGED <<pool, node, list>>

\* A PUT.  AKS does not change the size of a pool.
BeginCreate(m) ==
    /\ machine[m].at = "new" /\ m \notin TooLong
    /\ \E size \in SizesToTry(SpecOf(m)) :
         /\ pool[m].phase # "absent" => pool[m].obj.size = size
         /\ pool' = [pool EXCEPT ![m] = [phase |-> "creating",
                                         obj |-> newAgentPoolObject(SpecOf(m), size)]]
    /\ machine' = [machine EXCEPT ![m].at = "creating"]
    /\ UNCHANGED <<node, list>>

\* fromAgentPoolToInstance: an ID if the node of the pool is ready, whatever the state
\* of the pool.
Described(n) == pool[n].phase # "absent" /\ node[n] = "ready"

InstanceID(n) == ScaleSetName(NodeName(n))

\* The poller has returned and the node is there: the machine gets the pool's labels
\* and its provider ID.
EndCreate(m) ==
    /\ machine[m].at = "creating" /\ pool[m].phase # "creating" /\ Described(m)
    /\ machine' = [machine EXCEPT ![m].at = "running", ![m].id = InstanceID(m),
                                  ![m].labels = pool[m].obj.labels]
    /\ UNCHANGED <<pool, node, list>>

\* There is no ready node after fifteen attempts: Create fails, and is tried again.
CreateTimesOut(m) ==
    /\ machine[m].at = "creating" /\ pool[m].phase = "ready" /\ node[m] # "ready"
    /\ machine' = [machine EXCEPT ![m].at = "new"]
    /\ UNCHANGED <<pool, node, list>>

-----------------------------------------------------------------------------
(* Get and Delete. *)

Get(id) ==
    LET n == ParseAgentPoolName(id)
    IN  IF n \in Names /\ Described(n) THEN InstanceID(n) ELSE NoID

BeginDelete(m) ==
    LET n == ParseAgentPoolName(machine[m].id)
        there == n \in Names /\ pool[n].phase # "absent"
    IN
    /\ machine[m].at = "running"
    /\ machine' = [machine EXCEPT ![m].at = IF there THEN "deleting" ELSE "gone",
                                  ![m].target = n]
    /\ pool' = IF there THEN [pool EXCEPT ![n].phase = "deleting"] ELSE pool
    /\ UNCHANGED <<node, list>>

\* Variant: the poller is not waited for.
EndDeleteAtOnce(m) ==
    /\ machine[m].at = "deleting"
    /\ machine' = [machine EXCEPT ![m].at = "gone"]
    /\ UNCHANGED <<pool, node, list>>

\* The poller returns when the pool is gone, or with an error, and Delete is retried.
EndDelete(m) ==
    /\ machine[m].at = "deleting"
    /\ machine' = [machine EXCEPT ![m].at = IF pool[machine[m].target].phase = "absent"
                                            THEN "gone" ELSE "running"]
    /\ UNCHANGED <<pool, node, list>>

-----------------------------------------------------------------------------
(* List.  steady is not the provider's: it keeps the pools that were described by a
   ready node at every moment since the call began. *)

BeginList ==
    /\ list.at \in {"idle", "done"}
    /\ list' = [NoList EXCEPT !.at = "paging", !.steady = {n \in Names : Described(n)}]
    /\ UNCHANGED <<pool, node, machine>>

\* The pools of a page that goes up to place last of AKS's order.
Page(last) == {i \in (list.last + 1)..last : pool[Order[i]].phase # "absent"}

\* The page of the last place has no link to another.  A list without any pool is an
\* error (see ListFails).
AddPage(last, todo) ==
    /\ list.at = "paging"
    /\ last = Len(Order) => todo # {}
    /\ list' = [list EXCEPT !.todo = todo, !.last = last,
                            !.at = IF last < Len(Order) THEN "paging" ELSE "describing"]
    /\ UNCHANGED <<pool, node, machine>>

\* Variant: a page replaces the one before.
ListLastPage == \E last \in (list.last + 1)..Len(Order) : AddPage(last, Page(last))

\* listAgentPools appends a page.  AKS decides where it ends.
ListPage ==
    \E last \in (list.last + 1)..Len(Order) : AddPage(last, list.todo \cup Page(last))

\* fromAPListToInstances asks for the node of one pool after the other, from the pool
\* objects of the pages.
Describe ==
    /\ list.at = "describing"
    /\ \E i \in list.todo :
         /\ \A j \in list.todo : i <= j
         /\ list' = [list EXCEPT !.todo = @ \ {i},
                                 !.got = IF node[Order[i]] = "ready" THEN @ \cup {Order[i]}
                                         ELSE @]
    /\ UNCHANGED <<pool, node, machine>>

EndList ==
    /\ list.at = "describing" /\ list.todo = {}
    /\ list' = [list EXCEPT !.at = "done", !.last = 0]
    /\ UNCHANGED <<pool, node, machine>>

\* A page, or the node of a pool, cannot be had, or there is no pool at all: List
\* returns the error alone.
ListFails ==
    /\ list.at \in {"paging", "describing"}
    /\ list' = NoList
    /\ UNCHANGED <<pool, node, machine>>

-----------------------------------------------------------------------------
(* AKS and the cluster. *)

\* Keeps steady up to date when a pool or a node changes.
Watched(n) == [list EXCEPT !.steady = @ \ {n}]

PoolMade(n) ==
    /\ pool[n].phase = "creating"
    /\ pool' = [pool EXCEPT ![n].phase = "ready"]
    /\ UNCHANGED <<node, machine, list>>

PoolGone(n) ==
    /\ pool[n].phase = "deleting"
    /\ pool' = [pool EXCEPT ![n] = Absent]
    /\ node' = [node EXCEPT ![n] = "none"]
    /\ list' = Watched(n)
    /\ UNCHANGED machine

NodeJoins(n) ==
    /\ pool[n].phase # "absent" /\ node[n] # "ready"
    /\ node' = [node EXCEPT ![n] = "ready"]
    /\ UNCHANGED <<pool, machine, list>>

NodeFails(n) ==
    /\ node[n] = "ready"
    /\ node' = [node EXCEPT ![n] = "notReady"]
    /\ list' = Watched(n)
    /\ UNCHANGED <<pool, machine>>

ProviderNext ==
    \/ \E m \in Machines :
         CreateFails(m) \/ BeginCreate(m) \/ EndCreate(m) \/ CreateTimesOut(m)
         \/ BeginDelete(m) \/ EndDelete(m)
    \/ BeginList \/ ListPage \/ Describe \/ EndList \/ ListFails
    \/ \E n \in Names : PoolMade(n) \/ PoolGone(n) \/ NodeJoins(n) \/ NodeFails(n)

ProviderSpec == ProviderInit /\ [][ProviderNext]_providerVars

-----------------------------------------------------------------------------
(* What must hold. *)

\* The way from a machine to its provider ID and back ends at its own pool ("agentpool
\* name is the second substring"): Get finds it, and a pool is deleted only for its
\* machine.
OwnPoolOnly ==
    /\ \A m \in Machines : machine[m].at = "running" /\ Described(m) =>
         Get(machine[m].id) = machine[m].id
    /\ \A n \in Names : pool[n].phase = "deleting" =>
         n \in Machines /\ machine[n].at \in {"running", "deleting", "gone"}

\* A pool whose node was ready during the whole of List is in its result, even if
\* pools come and go between the pages: the garbage collector takes what is not in
\* the result for lost.
ListIsComplete ==
    list.at = "done" => list.steady \subseteq list.got

\* The labels that Create reports are those of the machine; only machine-type is the
\* provider's own.
LabelsAreKept ==
    \A m \in Machines : machine[m].at = "running" =>
        \A k \in Keys \ {"machine-type"} :
            SpecOf(m).labels[k] # Unset => machine[m].labels[k] = SpecOf(m).labels[k]

Own == INSTANCE Ownership WITH
    Names <- Machines,
    phase <- [m \in Machines |-> IF machine[m].at = "gone" THEN "released" ELSE "owned"],
    pools <- {m \in Machines : pool[m].phase # "absent"},
    bound <- {m \in Machines : machine[m].at \in {"running", "deleting"}}

\* Create and Delete, with the way through names and IDs that they take, keep the
\* contract of Ownership that the controllers keep with a provider that knows its pools:
\* a pool is made for a machine without instance, and Delete succeeds without a pool.
ImplementsContract == Own!OwnSpec
=============================================================================
