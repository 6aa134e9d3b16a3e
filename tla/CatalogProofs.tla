---------------------------- MODULE CatalogProofs ---------------------------
(***************************************************************************)
(* Proofs about the instance types on offer, for any SKUs, callers and     *)
(* lives of the caches.                                                    *)
(***************************************************************************)
EXTENDS Catalog, TLAPS

Offerings == [sku: Skus, available: BOOLEAN]

Calls == [at: {"idle", "list", "probe", "fetch", "offer", "done"},
          todo: SUBSET Skus, got: SUBSET Offerings, age: Nat, ice: SUBSET Skus]

Caches == [left: Nat, skus: SUBSET Skus, age: Nat, here: BOOLEAN]

CatalogTypeOK ==
    /\ azure \in SUBSET Skus /\ priced \in SUBSET Skus
    /\ cache \in Caches
    /\ entry \in [Skus -> 0..(TTL + 1)]
    /\ marked \in [Skus -> 0..(TTL + 1)]
    /\ holder \in Callers \cup {Nobody}
    /\ call \in [Callers -> Calls]

\* A mark that is k ticks old has an entry with TTL - k ticks left.
MarksCount == \A s \in Skus : marked[s] <= TTL => entry[s] + marked[s] = TTL

\* What is in the cache expires with its last tick, and a call has taken its age from
\* there or has none.
AgesCount ==
    /\ cache.age + cache.left <= CacheTTL
    /\ \A c \in Callers : call[c].age <= CacheTTL

\* Who is inside List has the mutex.
Inside(c) == call[c].at \in {"fetch", "offer"}
MutexHeld == \A c \in Callers : Inside(c) => holder = c

\* What a call remembers as unavailable is so still, and is not in its result.
IceInv ==
    \A c \in Callers :
        /\ \A s \in call[c].ice : entry[s] # Out
        /\ \A o \in call[c].got : o.sku \notin call[c].ice

CatalogInv == CatalogTypeOK /\ MarksCount /\ AgesCount /\ MutexHeld /\ IceInv

-----------------------------------------------------------------------------
(* Numbers and forms. *)

\* The lives are positive natural numbers.
LEMMA Lives == TTL \in Nat /\ TTL > 0 /\ CacheTTL \in Nat /\ CacheTTL > 0
  BY TTLAssumption

\* No call is under way, and nothing is cached: both have their types.
LEMMA Forms ==
    /\ NoCall \in Calls /\ NoCall.at = "idle" /\ NoCall.got = {} /\ NoCall.ice = {}
    /\ NoCall.age = 0 /\ NoCache \in Caches /\ NoCache.age = 0 /\ NoCache.left = 0
  BY DEF NoCall, NoCache, Calls, Caches

\* A step that touches no more than the call of c and the mutex.
LEMMA CallStep ==
    ASSUME CatalogInv, NEW c \in Callers, NEW k \in Calls,
           call' = [call EXCEPT ![c] = k],
           UNCHANGED <<azure, priced, cache, entry, marked>>,
           holder' \in Callers \cup {Nobody},
           k.age <= CacheTTL,
           k.at \in {"fetch", "offer"} => holder' = c,
           \A d \in Callers : d # c /\ Inside(d) => holder' = holder,
           \A s \in k.ice : entry[s] # Out,
           \A o \in k.got : o.sku \notin k.ice
    PROVE  CatalogInv'
  <1>1. call'[c] = k /\ \A d \in Callers : d # c => call'[d] = call[d]
    BY DEF CatalogInv, CatalogTypeOK
  <1>2. CatalogTypeOK'
    BY DEF CatalogInv, CatalogTypeOK
  <1>3. MarksCount' /\ AgesCount'
    BY <1>1 DEF CatalogInv, MarksCount, AgesCount
  <1>4. MutexHeld'
    BY <1>1 DEF CatalogInv, MutexHeld, Inside
  <1>5. IceInv'
    BY <1>1 DEF CatalogInv, IceInv
  <1> QED BY <1>2, <1>3, <1>4, <1>5 DEF CatalogInv

-----------------------------------------------------------------------------
(* Steps. *)

\* Begin and the steps of List and of the probe.
LEMMA CallsKeep ==
    ASSUME CatalogInv, NEW c \in Callers, Begin(c) \/ Runs(c)
    PROVE  CatalogInv'
  <1>0. /\ call \in [Callers -> Calls] /\ call[c] \in Calls /\ call[c].ice \in SUBSET Skus
        /\ call[c].age \in Nat /\ call[c].todo \in SUBSET Skus /\ call[c].got \in SUBSET Offerings
        /\ call[c].age <= CacheTTL /\ (Inside(c) => holder = c)
        /\ (\A s \in call[c].ice : entry[s] # Out)
        /\ (\A o \in call[c].got : o.sku \notin call[c].ice)
        /\ holder \in Callers \cup {Nobody}
    BY DEF CatalogInv, CatalogTypeOK, Calls, AgesCount, MutexHeld, IceInv
  <1>1. CASE Begin(c)
    <2>1. PICK a \in {"list", "probe"} :
            call' = [call EXCEPT ![c] = [NoCall EXCEPT !.at = a,
                                                       !.ice = {s \in Skus : IsUnavailable(s)}]]
      BY <1>1 DEF Begin
    <2> DEFINE k == [NoCall EXCEPT !.at = a, !.ice = {s \in Skus : IsUnavailable(s)}]
    <2>2. /\ k \in Calls /\ k.at = a /\ k.age = 0 /\ k.got = {}
          /\ k.ice = {s \in Skus : entry[s] # Out}
      BY DEF NoCall, Calls, IsUnavailable
    <2>3. UNCHANGED <<azure, priced, cache, entry, marked, holder>>
      BY <1>1 DEF Begin
    <2> HIDE DEF k
    <2>4. call' = [call EXCEPT ![c] = k] /\ 0 <= CacheTTL
      BY <2>1, Lives DEF k
    <2>5. (\A s \in k.ice : entry[s] # Out) /\ \A o \in k.got : o.sku \notin k.ice
      BY <2>2
    <2> QED BY <1>0, <2>2, <2>3, <2>4, <2>5, CallStep
  <1>2. CASE Lock(c)
    <2> DEFINE k == [call[c] EXCEPT !.at = IF cache.here THEN "offer" ELSE "fetch",
                                    !.todo = cache.skus, !.age = cache.age]
    <2>1. /\ cache \in Caches /\ cache.skus \in SUBSET Skus /\ cache.age \in Nat
          /\ cache.left \in Nat /\ cache.age <= CacheTTL
      BY Lives DEF CatalogInv, CatalogTypeOK, Caches, AgesCount
    <2>2. /\ k \in Calls /\ k.age = cache.age /\ k.got = call[c].got /\ k.ice = call[c].ice
      BY <1>0, <2>1 DEF Calls
    <2>3. call' = [call EXCEPT ![c] = k]
      BY <1>2 DEF Lock
    <2>4. UNCHANGED <<azure, priced, cache, entry, marked>> /\ holder' = c /\ holder = Nobody
      BY <1>2 DEF Lock
    <2>5. \A d \in Callers : ~Inside(d)
      BY <2>4, CallersAssumption DEF CatalogInv, MutexHeld
    <2> HIDE DEF k
    <2> QED BY <1>0, <2>1, <2>2, <2>3, <2>4, <2>5, CallStep
  <1>3. CASE FetchFails(c) \/ Probe(c) \/ Forget(c)
    <2>1. /\ call' = [call EXCEPT ![c] = NoCall]
          /\ UNCHANGED <<azure, priced, cache, entry, marked>>
          /\ holder' \in {holder, Nobody}
          /\ holder' # holder => Inside(c)
      BY <1>3 DEF FetchFails, Probe, Forget, Inside
    <2>2. \A d \in Callers : d # c /\ Inside(d) => holder' = holder
      BY <1>0, <2>1 DEF CatalogInv, MutexHeld
    <2>3. holder' \in Callers \cup {Nobody}
      BY <1>0, <2>1
    <2>4. /\ NoCall.age <= CacheTTL /\ NoCall.at \notin {"fetch", "offer"}
          /\ (\A s \in NoCall.ice : entry[s] # Out) /\ \A o \in NoCall.got : o.sku \notin NoCall.ice
      BY Forms, Lives
    <2> QED BY <2>1, <2>2, <2>3, <2>4, CallStep, Forms
  <1>4. CASE Offer(c)
    <2>1. PICK s \in call[c].todo :
            call' = [call EXCEPT ![c].todo = @ \ {s},
                                 ![c].got = IF Offered(s)
                                            THEN @ \cup {[sku |-> s, available |-> s \in priced]}
                                            ELSE @]
      BY <1>4 DEF Offer
    <2> DEFINE got == IF Offered(s) THEN call[c].got \cup {[sku |-> s, available |-> s \in priced]}
                      ELSE call[c].got
               k == [call[c] EXCEPT !.todo = @ \ {s}, !.got = got]
    <2>2. [sku |-> s, available |-> s \in priced] \in Offerings
      BY <1>0 DEF Offerings
    <2>3. got \in SUBSET Offerings /\ \A o \in got : o.sku \notin call[c].ice
      BY <1>0, <2>2 DEF Offered, IsUnavailable
    <2> HIDE DEF got
    <2>4. /\ k \in Calls /\ k.at = call[c].at /\ k.age = call[c].age /\ k.ice = call[c].ice
          /\ k.got = got
      BY <1>0, <2>3 DEF Calls
    <2>5. call' = [call EXCEPT ![c] = k]
      BY <1>0, <2>1 DEF got
    <2>6. UNCHANGED <<azure, priced, cache, entry, marked, holder>> /\ Inside(c)
      BY <1>4 DEF Offer, Inside
    <2> HIDE DEF k
    <2> QED BY <1>0, <2>3, <2>4, <2>5, <2>6, CallStep
  <1>5. CASE Return(c)
    <2> DEFINE k == [call[c] EXCEPT !.at = "done"]
    <2>1. /\ k \in Calls /\ k.at = "done" /\ k.age = call[c].age /\ k.ice = call[c].ice
          /\ k.got = call[c].got
      BY <1>0 DEF Calls
    <2>2. /\ call' = [call EXCEPT ![c] = k] /\ holder' = Nobody /\ Inside(c)
          /\ UNCHANGED <<azure, priced, cache, entry, marked>>
      BY <1>5 DEF Return, Inside
    <2>3. \A d \in Callers : d # c => ~Inside(d)
      BY <1>0, <2>2 DEF CatalogInv, MutexHeld
    <2> HIDE DEF k
    <2> QED BY <1>0, <2>1, <2>2, <2>3, CallStep
  <1>6. CASE FetchSKUs(c)
    <2> DEFINE k == [call[c] EXCEPT !.at = "offer", !.todo = azure]
    <2>1. /\ k \in Calls /\ k.at = "offer" /\ k.age = call[c].age /\ k.ice = call[c].ice
          /\ k.got = call[c].got
      BY <1>0 DEF Calls, CatalogInv, CatalogTypeOK
    <2>2. /\ call' = [call EXCEPT ![c] = k] /\ Inside(c)
          /\ UNCHANGED <<azure, priced, entry, marked, holder>>
          /\ cache' = [here |-> TRUE, skus |-> azure, left |-> CacheTTL, age |-> 0]
      BY <1>6 DEF FetchSKUs, Inside
    <2>3. cache' \in Caches /\ cache'.age + cache'.left <= CacheTTL
      BY <2>2, Lives DEF Caches, CatalogInv, CatalogTypeOK
    <2> HIDE DEF k
    <2>4. call'[c] = k /\ \A d \in Callers : d # c => call'[d] = call[d]
      BY <1>0, <2>2
    <2>5. CatalogTypeOK'
      BY <2>1, <2>2, <2>3 DEF CatalogInv, CatalogTypeOK
    <2>6. MarksCount' /\ AgesCount'
      BY <1>0, <2>1, <2>2, <2>3, <2>4 DEF CatalogInv, MarksCount, AgesCount
    <2>7. MutexHeld' /\ IceInv'
      BY <1>0, <2>1, <2>2, <2>4 DEF CatalogInv, MutexHeld, IceInv, Inside
    <2> QED BY <2>5, <2>6, <2>7 DEF CatalogInv
  <1> QED BY <1>1, <1>2, <1>3, <1>4, <1>5, <1>6 DEF Runs

\* A mark: the entry gets its whole life again.
LEMMA MarkKeeps ==
    ASSUME CatalogInv, NEW s \in Skus, MarkUnavailable(s)
    PROVE  CatalogInv'
  <1>1. /\ entry' = [entry EXCEPT ![s] = TTL] /\ marked' = [marked EXCEPT ![s] = 0]
        /\ UNCHANGED <<azure, priced, cache, holder, call>>
    BY DEF MarkUnavailable
  <1>2. \A t \in Skus : /\ entry'[t] = (IF t = s THEN TTL ELSE entry[t])
                        /\ marked'[t] = (IF t = s THEN 0 ELSE marked[t])
    BY <1>1 DEF CatalogInv, CatalogTypeOK
  <1>3. CatalogTypeOK'
    BY <1>1, Lives DEF CatalogInv, CatalogTypeOK
  <1>4. MarksCount'
    BY <1>2, Lives DEF CatalogInv, MarksCount
  <1>5. AgesCount' /\ MutexHeld'
    BY <1>1 DEF CatalogInv, AgesCount, MutexHeld, Inside
  <1>6. IceInv'
    BY <1>1, <1>2, Lives DEF CatalogInv, CatalogTypeOK, Calls, IceInv, Out
  <1> QED BY <1>3, <1>4, <1>5, <1>6 DEF CatalogInv

\* When marks end, by a flush or by the clock, calls remember only those that are left.
LEMMA MarksEnd ==
    ASSUME CatalogInv, NEW gone, gone \subseteq Skus, call' = Available(gone),
           UNCHANGED <<azure, priced, holder>>,
           entry' \in [Skus -> 0..(TTL + 1)], marked' \in [Skus -> 0..(TTL + 1)],
           MarksCount', cache' \in Caches, cache'.age + cache'.left <= CacheTTL,
           \A s \in Skus \ gone : entry[s] # Out => entry'[s] # Out
    PROVE  CatalogInv'
  <1>0. \A c \in Callers : call[c] \in Calls
    BY DEF CatalogInv, CatalogTypeOK
  <1>1. ASSUME NEW c \in Callers
        PROVE  /\ call'[c] \in Calls /\ call'[c].at = call[c].at /\ call'[c].age = call[c].age
               /\ call'[c].got = call[c].got /\ call'[c].ice = call[c].ice \ gone
               /\ call[c].ice \subseteq Skus
    <2>1. call'[c] = [call[c] EXCEPT !.ice = @ \ gone]
      BY DEF Available
    <2> QED BY <1>0, <2>1 DEF Calls
  <1>2. call' \in [Callers -> Calls]
    BY <1>1 DEF Available
  <1>3. CatalogTypeOK'
    BY <1>2 DEF CatalogInv, CatalogTypeOK
  <1>4. AgesCount' /\ MutexHeld'
    BY <1>1 DEF CatalogInv, AgesCount, MutexHeld, Inside
  <1>5. IceInv'
    BY <1>1 DEF CatalogInv, IceInv, Out
  <1> QED BY <1>3, <1>4, <1>5 DEF CatalogInv

\* Flush.
LEMMA FlushKeeps ==
    ASSUME CatalogInv, Flush
    PROVE  CatalogInv'
  <1>1. entry' \in [Skus -> 0..(TTL + 1)] /\ marked' \in [Skus -> 0..(TTL + 1)] /\ MarksCount'
    BY Lives DEF Flush, Out, MarksCount
  <1>2. cache' = cache /\ cache \in Caches /\ cache.age + cache.left <= CacheTTL
    BY DEF Flush, CatalogInv, CatalogTypeOK, AgesCount
  <1> QED BY <1>1, <1>2, MarksEnd DEF Flush

\* The clock.
LEMMA TickKeeps ==
    ASSUME CatalogInv, Tick
    PROVE  CatalogInv'
  <1> DEFINE gone == {s \in Skus : entry[s] = 0}
  <1>0. /\ cache \in Caches /\ cache.age \in Nat /\ cache.left \in Nat
        /\ \A s \in Skus : entry[s] \in 0..(TTL + 1) /\ marked[s] \in 0..(TTL + 1)
    BY DEF CatalogInv, CatalogTypeOK, Caches
  <1>1. ASSUME NEW s \in Skus
        PROVE  /\ entry'[s] = (IF entry[s] \in {0, TTL + 1} THEN TTL + 1 ELSE entry[s] - 1)
               /\ marked'[s] = (IF marked[s] <= TTL THEN marked[s] + 1 ELSE TTL + 1)
    BY DEF Tick, Out
  <1>2. entry' \in [Skus -> 0..(TTL + 1)] /\ marked' \in [Skus -> 0..(TTL + 1)]
    <2>1. \A s \in Skus : entry'[s] \in 0..(TTL + 1) /\ marked'[s] \in 0..(TTL + 1)
      BY <1>0, <1>1, Lives
    <2> QED BY <2>1 DEF Tick
  <1>3. MarksCount'
    BY <1>0, <1>1, Lives DEF CatalogInv, MarksCount
  <1>4. cache' \in Caches /\ cache'.age + cache'.left <= CacheTTL
    <2>1. CASE cache.left = 0
      BY <2>1, Forms, Lives DEF Tick
    <2>2. CASE cache.left # 0
      <3>1. cache' = [cache EXCEPT !.left = @ - 1, !.age = @ + 1]
        BY <2>2 DEF Tick
      <3>2. cache' \in Caches /\ cache'.left = cache.left - 1 /\ cache'.age = cache.age + 1
        <4>1. cache.left - 1 \in Nat /\ cache.age + 1 \in Nat
          BY <1>0, <2>2
        <4> QED BY <1>0, <3>1, <4>1 DEF Caches
      <3> QED BY <1>0, <3>2, Lives DEF CatalogInv, AgesCount
    <2> QED BY <2>1, <2>2
  <1>5. \A s \in Skus \ gone : entry[s] # Out => entry'[s] # Out
    BY <1>0, <1>1, Lives DEF Out
  <1>6. call' = Available(gone) /\ UNCHANGED <<azure, priced, holder>>
    BY DEF Tick
  <1> HIDE DEF gone
  <1>7. gone \subseteq Skus
    BY DEF gone
  <1> QED BY <1>2, <1>3, <1>4, <1>5, <1>6, <1>7, MarksEnd

\* Every step preserves CatalogInv.
LEMMA CatalogStep ==
    CatalogInv /\ [CatalogNext]_catalogVars => CatalogInv'
  <1> SUFFICES ASSUME CatalogInv, [CatalogNext]_catalogVars PROVE CatalogInv'
    OBVIOUS
  <1>1. CASE AzureChanges \/ PricesChange \/ UNCHANGED catalogVars
    <2>1. azure' \in SUBSET Skus /\ priced' \in SUBSET Skus
      BY <1>1 DEF AzureChanges, PricesChange, catalogVars, CatalogInv, CatalogTypeOK
    <2>2. UNCHANGED <<cache, entry, marked, holder, call>>
      BY <1>1 DEF AzureChanges, PricesChange, catalogVars
    <2> QED BY <2>1, <2>2 DEF CatalogInv, CatalogTypeOK, MarksCount, AgesCount, MutexHeld,
                              Inside, IceInv
  <1> QED BY <1>1, CallsKeep, MarkKeeps, FlushKeeps, TickKeeps DEF CatalogNext

\* CatalogInv is an invariant.
LEMMA CatalogInvariance == CatalogSpec => []CatalogInv
  <1>1. CatalogInit => CatalogInv
    <2> SUFFICES ASSUME CatalogInit PROVE CatalogInv
      OBVIOUS
    <2>1. \A c \in Callers : call[c] = NoCall
      BY DEF CatalogInit
    <2>2. CatalogTypeOK
      BY Forms, Lives DEF CatalogInit, CatalogTypeOK, Out
    <2>3. MarksCount
      BY Lives DEF CatalogInit, MarksCount
    <2>4. AgesCount /\ MutexHeld /\ IceInv
      BY <2>1, Forms, Lives DEF CatalogInit, AgesCount, MutexHeld, Inside, IceInv
    <2> QED BY <2>2, <2>3, <2>4 DEF CatalogInv
  <1> QED BY <1>1, CatalogStep, PTL DEF CatalogSpec

-----------------------------------------------------------------------------
(* What must hold. *)

\* createOfferings leaves out what was marked during the whole of List, whatever marks
\* come, expire, are renewed or flushed while SKUs are fetched and offered.
THEOREM IceStaysOut == CatalogSpec => []IceIsIgnored
  <1>1. CatalogInv => IceIsIgnored
    BY DEF CatalogInv, IceInv, IceIsIgnored
  <1> QED BY <1>1, CatalogInvariance, PTL

\* MarkUnavailable extends an entry that is there: an offering counts as unavailable
\* for the whole UnavailableOfferingsTTL after its last mark.
THEOREM LastMarkCounts == CatalogSpec => []MarkLasts
  <1>1. CatalogInv => MarkLasts
    BY Lives DEF CatalogInv, CatalogTypeOK, MarksCount, MarkLasts, IsUnavailable, Out
  <1> QED BY <1>1, CatalogInvariance, PTL

\* The mutex of List lets one call fetch at a time, and no call works with SKUs that
\* are older than InstanceTypesCacheTTL.
THEOREM FetchIsExclusive == CatalogSpec => []SkusAreRecent
  <1>1. CatalogInv => SkusAreRecent
    BY DEF CatalogInv, AgesCount, MutexHeld, Inside, SkusAreRecent
  <1> QED BY <1>1, CatalogInvariance, PTL
=============================================================================
