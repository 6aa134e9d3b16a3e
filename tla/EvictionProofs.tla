--------------------------- MODULE EvictionProofs ---------------------------
(***************************************************************************)
(* Proofs about draining a node, for any number of pods and restarts.      *)
(***************************************************************************)
EXTENDS Eviction, TLAPS

Workers == [at: {"Get", "evict", "Remove", "Requeue", "Done"}, pod: Pods \union {"none"}]

\* The work queue with the Set beside it.  An item that is dirty without being in the
\* queue is being processed; Done puts it back.  This is what makes an Add between
\* Remove and Done safe.
QueueInv ==
    /\ worker \in Workers
    /\ NoEvictionIsForgotten
    /\ dirty \subseteq queue \union processing
    /\ worker.at = "Done" /\ worker.pod \in queueSet => worker.pod \in dirty

\* Every step of the reconcile, of the goroutine and of a restart preserves QueueInv.
LEMMA QueueStep ==
    QueueInv /\ [EvictionNext]_evictVars => QueueInv'
  <1> SUFFICES ASSUME QueueInv, [EvictionNext]_evictVars PROVE QueueInv'
    OBVIOUS
  <1> USE DEF QueueInv, NoEvictionIsForgotten
  <1>1. CASE UNCHANGED <<queueVars, worker>>
    BY <1>1 DEF queueVars
  <1>2. ASSUME NEW p \in Pods, Add(p) PROVE QueueInv'
    BY <1>2 DEF Add, Enqueue
  <1>3. ASSUME NEW p \in Pods, Get(p) PROVE QueueInv'
    BY <1>3 DEF Get, Workers
  <1>4. ASSUME NEW p \in Pods, DelayEnds(p) PROVE QueueInv'
    BY <1>4 DEF DelayEnds, Enqueue
  <1>5. CASE Restart
    BY <1>5 DEF Restart, Idle, Workers
  <1>6. CASE EvictionSucceeds \/ EvictionFails
    <2>1. UNCHANGED queueVars /\ worker' \in Workers /\ worker'.at # "Done"
      BY <1>6 DEF EvictionSucceeds, EvictionFails, Workers
    <2> QED BY <2>1 DEF queueVars
  <1>7. CASE Remove
    <2>1. /\ UNCHANGED <<queue, dirty, processing, delayed>>
          /\ queueSet' = queueSet \ {worker.pod}
          /\ worker' \in Workers /\ worker'.pod = worker.pod
      BY <1>7 DEF Remove, Workers
    <2> QED BY <2>1
  <1>8. CASE Done
    BY <1>8 DEF Done, Finish, Idle, Workers
  <1>9. CASE Requeue
    BY <1>9 DEF Requeue, Finish, Idle, Workers
  <1> QED
    BY <1>1, <1>2, <1>3, <1>4, <1>5, <1>6, <1>7, <1>8, <1>9
    DEF EvictionNext, evictVars, Bind, PodChanges, MinutePasses, PodGone, Sync, Cordon, Drain

\* No failed eviction is forgotten: a pod that Add ignores because it is in the Set is
\* in the work queue, in the hands of the goroutine, or waits for its retry.
THEOREM NothingForgotten == EvictionSpec => []NoEvictionIsForgotten
  <1>1. EvictionInit => QueueInv
    BY DEF EvictionInit, QueueInv, NoEvictionIsForgotten, Idle, Workers
  <1>2. QueueInv => NoEvictionIsForgotten
    BY DEF QueueInv
  <1> QED BY <1>1, <1>2, QueueStep, PTL DEF EvictionSpec

-----------------------------------------------------------------------------
(* What the drain means for pods. *)

Objects == [st: {"absent", "running", "terminal", "terminating", "stuck"}, here: BOOLEAN]

\* A pod that keeps the critical ones waiting.
PlainRuns == \E q \in Pods \ Late : Kind[q] = "plain" /\ At(q, "running")

\* Everywhere on its way through the queue.
Queued(p) ==
    \/ p \in adding \union queue \union dirty \union delayed
    \/ worker.at # "Get" /\ worker.pod = p

\* A critical pod is on its way only on a cordoned node without other pods; on a
\* cordoned node no such pod comes back.
DrainInv ==
    /\ pods \in [Pods -> Objects]
    /\ unseen \subseteq Late
    /\ worker \in Workers
    /\ worker.at # "Get" => worker.pod \in Pods
    /\ drained => cordoned
    /\ adding # {} => cordoned
    /\ \A p \in Pods : Kind[p] = "critical" /\ Queued(p) => cordoned /\ ~PlainRuns
    /\ NoPodIsStranded

\* Every step of pods, reconcile, goroutine and restart preserves DrainInv.
LEMMA DrainStep ==
    DrainInv /\ [EvictionNext]_evictVars => DrainInv'
  <1> SUFFICES ASSUME DrainInv, [EvictionNext]_evictVars PROVE DrainInv'
    OBVIOUS
  <1> USE DEF DrainInv
  \* Steps that only move pods through the queue.
  <1>a. ASSUME UNCHANGED <<pods, unseen, cordoned, drained>>,
               adding' \subseteq adding,
               worker' \in Workers, worker'.at # "Get" => worker'.pod \in Pods,
               \A p \in Pods : Queued(p)' => Queued(p)
        PROVE  DrainInv'
    <2>1. (PlainRuns' <=> PlainRuns) /\ (NoPodIsStranded' <=> NoPodIsStranded)
      BY <1>a DEF PlainRuns, NoPodIsStranded, At
    <2> QED BY <1>a, <2>1
  \* Steps of pods.  On a cordoned node, none of them lets one run that did not.
  <1>b. ASSUME UNCHANGED <<cordoned, drained, adding, queueVars, worker>>,
               unseen' \subseteq Late, pods' \in [Pods -> Objects],
               \A p \in Pods : cordoned /\ Kind[p] \in {"plain", "critical"} =>
                  /\ At(p, "running")' => At(p, "running")
                  /\ At(p, "terminating")' => At(p, "running") \/ At(p, "terminating")
        PROVE  DrainInv'
    <2>1. \A p \in Pods : Queued(p)' <=> Queued(p)
      BY <1>b DEF Queued, queueVars
    <2>2. cordoned /\ PlainRuns' => PlainRuns
      BY <1>b DEF PlainRuns
    <2>3. NoPodIsStranded'
      BY <1>b DEF NoPodIsStranded
    <2> QED BY <1>b, <2>1, <2>2, <2>3
  <1>1. CASE UNCHANGED evictVars
    BY <1>1, <1>a DEF evictVars, podVars, queueVars, Queued
  <1>2. ASSUME NEW p \in Pods, Bind(p) PROVE DrainInv'
    <2>1. PICK here \in BOOLEAN :
            /\ here => ~cordoned \/ Kind[p] \in {"tolerating", "static"}
            /\ pods' = [pods EXCEPT ![p] = [st |-> "running", here |-> here]]
      BY <1>2 DEF Bind
    <2>2. pods' \in [Pods -> Objects]
      BY <2>1 DEF Objects
    <2>3. UNCHANGED <<cordoned, drained, adding, queueVars, worker>> /\ unseen' \subseteq Late
      BY <1>2 DEF Bind
    <2>4. \A q \in Pods : cordoned /\ Kind[q] \in {"plain", "critical"} =>
              /\ At(q, "running")' => At(q, "running")
              /\ At(q, "terminating")' => At(q, "terminating")
      BY <2>1 DEF At
    <2> QED BY <1>b, <2>2, <2>3, <2>4
  <1>3. ASSUME NEW p \in Pods, PodChanges(p) \/ MinutePasses(p) \/ PodGone(p) PROVE DrainInv'
    <2>1. PICK o \in Objects : pods' = [pods EXCEPT ![p] = o] /\ o.st # "running"
                               /\ (o.here => pods[p].here)
                               /\ (o.st = "terminating" => pods[p].st = "running")
      <3>1. pods[p] \in Objects
        OBVIOUS
      <3>2. CASE PodGone(p)
        <4>1. /\ NoPod \in Objects /\ NoPod.st = "absent" /\ ~NoPod.here
          BY DEF NoPod, Objects
        <4>2. pods' = [pods EXCEPT ![p] = NoPod]
          BY <3>2 DEF PodGone
        <4> QED BY <4>1, <4>2
      <3>3. CASE PodChanges(p) \/ MinutePasses(p)
        <4>1. PICK st \in {"terminal", "terminating", "stuck"} :
                /\ pods' = [pods EXCEPT ![p].st = st]
                /\ st = "terminating" => pods[p].st = "running"
          BY <3>3 DEF PodChanges, MinutePasses, Becomes
        <4>2. [pods[p] EXCEPT !.st = st] \in Objects
          BY <3>1 DEF Objects
        <4> QED BY <3>1, <4>1, <4>2 DEF Objects
      <3> QED BY <1>3, <3>2, <3>3
    <2>2. UNCHANGED <<cordoned, drained, adding, queueVars, worker>> /\ unseen' \subseteq Late
      BY <1>3 DEF PodChanges, MinutePasses, PodGone
    <2>3. \A q \in Pods :
              /\ At(q, "running")' => At(q, "running")
              /\ At(q, "terminating")' => At(q, "running") \/ At(q, "terminating")
      BY <2>1 DEF At
    <2> QED BY <1>b, <2>1, <2>2, <2>3
  <1>4. CASE Sync
    BY <1>4, <1>b DEF Sync, At
  <1>5. CASE Cordon
    <2>1. UNCHANGED <<pods, unseen, drained, adding, queueVars, worker>> /\ cordoned' = TRUE
      BY <1>5 DEF Cordon, podVars
    <2>2. (PlainRuns' <=> PlainRuns) /\ (NoPodIsStranded' <=> NoPodIsStranded)
      BY <2>1 DEF PlainRuns, NoPodIsStranded, At
    <2>3. \A p \in Pods : Queued(p)' <=> Queued(p)
      BY <2>1 DEF Queued, queueVars
    <2> QED BY <2>1, <2>2, <2>3
  <1>6. CASE Drain
    <2>1. /\ UNCHANGED <<pods, unseen, queueVars, worker>> /\ cordoned /\ cordoned' = cordoned
          /\ adding' = evict /\ drained' = (podsToEvict = {})
      BY <1>6 DEF Drain, podVars
    <2>2. PlainRuns' <=> PlainRuns
      BY <2>1 DEF PlainRuns, At
    <2>3. \A p \in Pods : Kind[p] = "critical" /\ p \in evict => ~PlainRuns
      BY DEF evict, podsToEvict, getPods, isStuckTerminating, PlainRuns, At
    <2>4. \A p \in Pods : Queued(p)' => Queued(p) \/ p \in evict
      BY <2>1 DEF Queued, queueVars
    <2>5. podsToEvict = {} => \A p \in Pods \ Late : Kind[p] \in {"plain", "critical"} =>
                                ~At(p, "running") /\ ~At(p, "terminating")
      BY DEF podsToEvict, getPods, isStuckTerminating, At
    <2>6. NoPodIsStranded'
      BY <2>1, <2>5 DEF NoPodIsStranded, At
    <2> QED BY <2>1, <2>2, <2>3, <2>4, <2>6
  <1>7. ASSUME NEW p \in Pods, Add(p) \/ Get(p) \/ DelayEnds(p) PROVE DrainInv'
    <2>1. /\ UNCHANGED <<pods, unseen, cordoned, drained>> /\ adding' \subseteq adding
          /\ worker' \in Workers /\ (worker'.at # "Get" => worker'.pod \in Pods)
      BY <1>7 DEF Add, Get, DelayEnds, podVars, Workers
    <2>2. ASSUME NEW q \in Pods, Queued(q)' PROVE Queued(q)
      BY <1>7, <2>2 DEF Add, Get, DelayEnds, Enqueue, Queued
    <2> QED BY <1>a, <2>1, <2>2
  <1>8. CASE Restart
    BY <1>8, <1>a DEF Restart, Idle, Workers, Queued, podVars
  <1>9. CASE EvictionSucceeds
    <2>1. /\ UNCHANGED <<unseen, cordoned, drained, adding, queueVars>>
          /\ worker.at = "evict" /\ worker.pod \in Pods
          /\ worker' \in Workers /\ worker'.at = "Remove" /\ worker'.pod = worker.pod
          /\ \/ pods' = pods
             \/ /\ pods[worker.pod].st = "running"
                /\ pods' = [pods EXCEPT ![worker.pod].st = "terminating"]
      BY <1>9 DEF EvictionSucceeds, Becomes, Workers
    <2>2. pods' \in [Pods -> Objects]
      BY <2>1 DEF Objects
    <2>3. \A q \in Pods :
              /\ At(q, "running")' => At(q, "running")
              /\ At(q, "terminating")' => At(q, "running") \/ At(q, "terminating")
      BY <2>1 DEF At, Objects
    <2>4. \A p \in Pods : Queued(p)' <=> Queued(p)
      BY <2>1 DEF Queued, queueVars
    <2>5. PlainRuns' => PlainRuns
      BY <2>3 DEF PlainRuns
    <2>6. NoPodIsStranded'
      BY <2>1, <2>3 DEF NoPodIsStranded
    <2> QED BY <2>1, <2>2, <2>4, <2>5, <2>6
  <1>10. CASE EvictionFails \/ Remove
    <2>1. /\ UNCHANGED <<pods, unseen, cordoned, drained, adding, queue, dirty, delayed>>
          /\ worker.at # "Get" /\ worker' \in Workers /\ worker'.pod = worker.pod
      BY <1>10 DEF EvictionFails, Remove, podVars, queueVars, Workers
    <2> QED BY <1>a, <2>1 DEF Queued
  <1>11. CASE Done \/ Requeue
    <2>1. /\ UNCHANGED <<pods, unseen, cordoned, drained, adding, dirty>>
          /\ worker.at # "Get" /\ worker' \in Workers /\ worker'.at = "Get"
          /\ queue' \subseteq queue \union {worker.pod}
          /\ delayed' \subseteq delayed \union {worker.pod}
      BY <1>11 DEF Done, Requeue, Finish, podVars, Idle, Workers
    <2> QED BY <1>a, <2>1 DEF Queued
  <1> QED
    BY <1>1, <1>2, <1>3, <1>4, <1>5, <1>6, <1>7, <1>8, <1>9, <1>10, <1>11 DEF EvictionNext

\* DrainInv is an invariant.
LEMMA DrainInvariance == EvictionSpec => []DrainInv
  <1>1. EvictionInit => DrainInv
    <2> SUFFICES ASSUME EvictionInit PROVE DrainInv
      OBVIOUS
    <2>1. pods \in [Pods -> Objects]
      <3>1. {NoPod, [st |-> "running", here |-> TRUE]} \subseteq Objects
        BY DEF Objects, NoPod
      <3> QED BY <3>1 DEF EvictionInit
    <2>2. /\ worker \in Workers /\ worker.at = "Get"
          /\ unseen = {} /\ adding = {} /\ drained = FALSE
          /\ queue = {} /\ dirty = {} /\ delayed = {}
      BY DEF EvictionInit, Idle, Workers
    <2> QED BY <2>1, <2>2 DEF DrainInv, Queued, NoPodIsStranded
  <1> QED BY <1>1, DrainStep, PTL DEF EvictionSpec

\* Drain returns without an error only when no pod is left that it is for and the
\* cache had shown, and none comes back.
THEOREM DrainedIsEmpty == EvictionSpec => []NoPodIsStranded
  <1>1. DrainInv => NoPodIsStranded
    BY DEF DrainInv
  <1> QED BY <1>1, DrainInvariance, PTL

\* Critical pods go last, although the queue retries them with delays and does not
\* know of priorities.
THEOREM CriticalGoLast == EvictionSpec => CriticalIsLast
  <1>1. DrainInv /\ [EvictionNext]_evictVars =>
          [\A p \in Pods, q \in Pods \ Late :
             (Kind[p] = "critical" /\ EvictionSucceeds /\ At(p, "running") /\ ~(At(p, "running"))'
                 /\ Kind[q] = "plain") => ~At(q, "running")]_evictVars
    <2> SUFFICES ASSUME DrainInv, NEW p \in Pods, NEW q \in Pods \ Late, Kind[p] = "critical",
                        EvictionSucceeds, At(p, "running"), ~(At(p, "running"))',
                        Kind[q] = "plain"
                 PROVE  ~At(q, "running")
      OBVIOUS
    <2>1. worker.pod = p
      BY DEF EvictionSucceeds, Becomes, At, DrainInv, Objects
    <2>2. Queued(p)
      BY <2>1 DEF EvictionSucceeds, Queued
    <2> QED BY <2>2 DEF DrainInv, PlainRuns
  <1>2. EvictionSpec => []DrainInv
    BY DrainInvariance
  <1> QED BY <1>1, <1>2, PTL DEF EvictionSpec, CriticalIsLast
=============================================================================
