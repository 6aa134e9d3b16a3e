------------------------------ MODULE Eviction ------------------------------
(***************************************************************************)
(* Draining one node: the terminator, which lists the pods of the node in  *)
(* every reconcile and hands them to the eviction queue, and the goroutine *)
(* of the queue, which evicts them by name.  The work queue is client-go's *)
(* set of dirty and processing items, without the order of its items.      *)
(* The process may restart, and loses the queue.                           *)
(***************************************************************************)
EXTENDS Naturals, FiniteSets

CONSTANTS
    Pods,       \* names of pods
    Kind,       \* kind of each pod: "plain", "critical", "tolerating" or "static"
    Late,       \* pods that a list may miss for a moment after they were bound
    Restarts    \* number of restarts of the process

ASSUME PodsAssumption == Kind \in [Pods -> {"plain", "critical", "tolerating", "static"}]
ASSUME EvictionAssumption == Late \subseteq Pods /\ Restarts \in Nat

VARIABLES
    pods,       \* state and place of the pod with each name
    unseen,     \* pods that are not yet in the informer's cache
    cordoned, drained,
    adding,     \* pods that the reconcile still has to Add
    queueSet,   \* EvictionQueue.Set
    queue, dirty, processing, delayed,      \* its work queue
    worker,     \* what the goroutine does, with which pod
    restarts

podVars   == <<pods, unseen>>
queueVars == <<queueSet, queue, dirty, processing, delayed>>
evictVars == <<podVars, cordoned, drained, adding, queueVars, worker, restarts>>

NoPod == [st |-> "absent", here |-> FALSE]
Idle  == [at |-> "Get", pod |-> "none"]
At(p, st) == pods[p].here /\ pods[p].st = st
Becomes(p, st) == pods' = [pods EXCEPT ![p].st = st]

EvictionInit ==
    /\ pods \in [Pods -> {NoPod, [st |-> "running", here |-> TRUE]}]
    /\ unseen = {} /\ cordoned = FALSE /\ drained = FALSE /\ adding = {}
    /\ queueSet = {} /\ queue = {} /\ dirty = {} /\ processing = {} /\ delayed = {}
    /\ worker = Idle /\ restarts = 0

-----------------------------------------------------------------------------
(* The cluster: scheduler, users, and kubelets. *)

\* A name is used again by a workload that keeps the names of its pods.
Bind(p) ==
    /\ pods[p].st = "absent"
    /\ \E here \in BOOLEAN :
        /\ here => ~cordoned \/ Kind[p] \in {"tolerating", "static"}
        /\ pods' = [pods EXCEPT ![p] = [st |-> "running", here |-> here]]
        /\ \/ unseen' = unseen
           \/ p \in Late /\ here /\ unseen' = unseen \union {p}
    /\ UNCHANGED <<cordoned, drained, adding, queueVars, worker, restarts>>

Sync ==
    /\ unseen # {} /\ unseen' = {}
    /\ UNCHANGED <<pods, cordoned, drained, adding, queueVars, worker, restarts>>

\* A pod completes, or is deleted by a user.
PodChanges(p) ==
    /\ pods[p].st = "running" /\ \E st \in {"terminal", "terminating"} : Becomes(p, st)
    /\ UNCHANGED <<unseen, cordoned, drained, adding, queueVars, worker, restarts>>

MinutePasses(p) ==
    /\ pods[p].st = "terminating" /\ Becomes(p, "stuck")
    /\ UNCHANGED <<unseen, cordoned, drained, adding, queueVars, worker, restarts>>

PodGone(p) ==
    /\ pods[p].st \in {"terminal", "terminating", "stuck"}
    /\ pods' = [pods EXCEPT ![p] = NoPod] /\ unseen' = unseen \ {p}
    /\ UNCHANGED <<cordoned, drained, adding, queueVars, worker, restarts>>

-----------------------------------------------------------------------------
(* The terminator. *)

Cordon ==
    /\ ~cordoned /\ cordoned' = TRUE
    /\ UNCHANGED <<podVars, drained, adding, queueVars, worker, restarts>>

\* Variant: a pod counts until it is gone.
NeverStuck(p) == FALSE

isStuckTerminating(p) == pods[p].st = "stuck"

getPods == {p \in Pods \ unseen :
    pods[p].here /\ pods[p].st \notin {"absent", "terminal"} /\ ~isStuckTerminating(p)}

podsToEvict == {p \in getPods : Kind[p] \notin {"tolerating", "static"}}

\* Variant: critical pods do not wait.
EvictAll == {p \in podsToEvict : pods[p].st = "running"}

\* evict: pods that are being deleted are left alone, and critical ones wait.
evict ==
    LET live        == {p \in podsToEvict : pods[p].st = "running"}
        nonCritical == {p \in live : Kind[p] # "critical"}
    IN  IF nonCritical = {} THEN live ELSE nonCritical

\* Variant: a node is drained when no pod has to be evicted any more.
DrainIgnoresTerminating ==
    /\ cordoned /\ ~drained /\ adding = {}
    /\ adding' = evict /\ drained' = (evict = {})
    /\ UNCHANGED <<podVars, cordoned, queueVars, worker, restarts>>

Drain ==
    /\ cordoned /\ ~drained /\ adding = {}
    /\ adding' = evict /\ drained' = (podsToEvict = {})
    /\ UNCHANGED <<podVars, cordoned, queueVars, worker, restarts>>

-----------------------------------------------------------------------------
(* The eviction queue. *)

\* The work queue's Add: a dirty item is there already, and an item that is being
\* processed is put in the queue by Done.
Enqueue(p) ==
    /\ dirty' = dirty \union {p}
    /\ queue' = IF p \in dirty \union processing THEN queue ELSE queue \union {p}

Add(p) ==
    /\ p \in adding /\ adding' = adding \ {p}
    /\ IF p \in queueSet
       THEN UNCHANGED <<queueSet, dirty, queue>>
       ELSE queueSet' = queueSet \union {p} /\ Enqueue(p)
    /\ UNCHANGED <<podVars, cordoned, drained, processing, delayed, worker, restarts>>

Get(p) ==
    /\ worker.at = "Get" /\ p \in queue
    /\ queue' = queue \ {p} /\ dirty' = dirty \ {p} /\ processing' = processing \union {p}
    /\ worker' = [at |-> "evict", pod |-> p]
    /\ UNCHANGED <<podVars, cordoned, drained, adding, queueSet, delayed, restarts>>

\* The eviction API is called with the name of the pod.  A name that is not found
\* counts as evicted, as does a pod that is being deleted.
EvictionSucceeds ==
    /\ worker.at = "evict"
    /\ IF pods[worker.pod].st = "running" THEN Becomes(worker.pod, "terminating") ELSE UNCHANGED pods
    /\ worker' = [worker EXCEPT !.at = "Remove"]
    /\ UNCHANGED <<unseen, cordoned, drained, adding, queueVars, restarts>>

\* A disruption budget refuses the eviction, or the call fails.
EvictionFails ==
    /\ worker.at = "evict" /\ worker' = [worker EXCEPT !.at = "Requeue"]
    /\ UNCHANGED <<podVars, cordoned, drained, adding, queueVars, restarts>>

Remove ==
    /\ worker.at = "Remove" /\ queueSet' = queueSet \ {worker.pod}
    /\ worker' = [worker EXCEPT !.at = "Done"]
    /\ UNCHANGED <<podVars, cordoned, drained, adding, queue, dirty, processing, delayed, restarts>>

\* The work queue's Done, and AddRateLimited after a failure.
Finish(retry) ==
    /\ processing' = processing \ {worker.pod}
    /\ queue' = IF worker.pod \in dirty THEN queue \union {worker.pod} ELSE queue
    /\ delayed' = IF retry THEN delayed \union {worker.pod} ELSE delayed
    /\ worker' = Idle
    /\ UNCHANGED <<podVars, cordoned, drained, adding, queueSet, dirty, restarts>>

Done == worker.at = "Done" /\ Finish(FALSE)

\* Variant: the next drain is thought to add the pod again.
RequeueByDrain == worker.at = "Requeue" /\ Finish(FALSE)

Requeue == worker.at = "Requeue" /\ Finish(TRUE)

DelayEnds(p) ==
    /\ p \in delayed /\ delayed' = delayed \ {p} /\ Enqueue(p)
    /\ UNCHANGED <<podVars, cordoned, drained, adding, queueSet, processing, worker, restarts>>

Restart ==
    /\ restarts < Restarts /\ restarts' = restarts + 1
    /\ adding' = {} /\ queueSet' = {} /\ queue' = {} /\ dirty' = {} /\ processing' = {}
    /\ delayed' = {} /\ worker' = Idle
    /\ UNCHANGED <<podVars, cordoned, drained>>

-----------------------------------------------------------------------------
EvictionNext ==
    \/ \E p \in Pods : Bind(p) \/ PodChanges(p) \/ MinutePasses(p) \/ PodGone(p)
    \/ \E p \in Pods : Add(p) \/ Get(p) \/ DelayEnds(p)
    \/ Sync \/ Cordon \/ Drain \/ Restart
    \/ EvictionSucceeds \/ EvictionFails \/ Remove \/ Done \/ Requeue

EvictionSpec == EvictionInit /\ [][EvictionNext]_evictVars

\* The controller reconciles, and its goroutine runs; delays and the minute end; the
\* cache catches up.  The work queue
\* is first come, first served.  A budget does not refuse the same pod for ever.  Kubelets may
\* never report that a pod is gone.
EvictionFairSpec ==
    /\ EvictionSpec
    /\ WF_evictVars(Cordon) /\ WF_evictVars(Drain) /\ WF_evictVars(Sync)
    /\ WF_evictVars(Remove) /\ WF_evictVars(Done) /\ WF_evictVars(Requeue)
    /\ WF_evictVars(EvictionSucceeds \/ EvictionFails)
    /\ \A p \in Pods :
        /\ WF_evictVars(Add(p)) /\ WF_evictVars(DelayEnds(p)) /\ WF_evictVars(MinutePasses(p))
        /\ SF_evictVars(Get(p))
        /\ SF_evictVars(worker.pod = p /\ EvictionSucceeds)

-----------------------------------------------------------------------------
(* What must hold. *)

\* When Drain has returned without an error, no pod is left on the node that the drain
\* is for, except for those that the cache had not shown: all are gone, complete, or
\* past their minute of grace, and none comes back.
NoPodIsStranded ==
    drained => \A p \in Pods \ Late :
        Kind[p] \in {"plain", "critical"} => ~At(p, "running") /\ ~At(p, "terminating")

\* A pod in the set of the queue, which Add therefore ignores, is in the work queue, in
\* the hands of the goroutine, or waits for its retry: no failed eviction is forgotten,
\* whatever Add, Get, Done and the retries do at the same time.
NoEvictionIsForgotten == queueSet \subseteq queue \union processing \union delayed

\* "2. Evict critical pods if all noncritical are evicted": the queue evicts a critical
\* pod of the node only when no other pod runs there that the drain is for and the cache
\* had shown.
CriticalIsLast ==
    [][\A p \in Pods, q \in Pods \ Late :
        (Kind[p] = "critical" /\ EvictionSucceeds /\ At(p, "running") /\ ~(At(p, "running"))'
            /\ Kind[q] = "plain") => ~At(q, "running")]_evictVars

\* A cordoned node gets drained, even when evictions fail, the process restarts, and
\* its kubelet never confirms that a pod is gone.
DrainEnds == cordoned ~> drained
=============================================================================
