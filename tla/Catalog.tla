------------------------------ MODULE Catalog -------------------------------
(***************************************************************************)
(* The instance types that can be had: SKUs are fetched from Azure and     *)
(* kept for a day, offerings that were out of capacity are left out for    *)
(* three minutes, and prices come from the pricing provider.  One mutex    *)
(* covers a whole call of List, the fetch included; the health probe of    *)
(* the process takes it too.                                               *)
(***************************************************************************)
EXTENDS Naturals

CONSTANTS
    Skus,         \* SKUs of virtual machines
    Callers,      \* goroutines that call List or the probe
    TTL,          \* UnavailableOfferingsTTL
    CacheTTL      \* InstanceTypesCacheTTL

ASSUME TTLAssumption == TTL \in Nat \ {0} /\ CacheTTL \in Nat \ {0}

VARIABLES
    azure,      \* the SKUs that Azure has
    priced,     \* the SKUs that the pricing provider has a price for
    cache,      \* the entry of the SKU cache, with the ticks that it has left
    entry,      \* ticks that the entry of an offering in the cache has left, or Out
    marked,     \* ticks since an offering was last marked, up to TTL + 1
    holder,     \* who has the mutex
    call        \* the calls of List and of the probe

catalogVars == <<azure, priced, cache, entry, marked, holder, call>>

\* An entry that has no ticks left is still found; after that it has expired.
Out    == TTL + 1
Nobody == "nobody"
ASSUME CallersAssumption == Nobody \notin Callers

NoCache == [left |-> 0, skus |-> {}, age |-> 0, here |-> FALSE]
NoCall  == [at |-> "idle", todo |-> {}, got |-> {}, age |-> 0, ice |-> {}]

CatalogInit ==
    /\ azure = Skus /\ priced \in SUBSET Skus
    /\ cache = NoCache
    /\ entry = [s \in Skus |-> Out]
    /\ marked = [s \in Skus |-> TTL + 1]
    /\ holder = Nobody
    /\ call = [c \in Callers |-> NoCall]

-----------------------------------------------------------------------------
(* Unavailable offerings. *)

IsUnavailable(s) == entry[s] # Out

\* Variant: an entry that is there is left alone.
MarkOnce(s) ==
    /\ entry' = [entry EXCEPT ![s] = IF @ = Out THEN TTL ELSE @]
    /\ marked' = [marked EXCEPT ![s] = 0]
    /\ UNCHANGED <<azure, priced, cache, holder, call>>

MarkUnavailable(s) ==
    /\ entry' = [entry EXCEPT ![s] = TTL]
    /\ marked' = [marked EXCEPT ![s] = 0]
    /\ UNCHANGED <<azure, priced, cache, holder, call>>

\* ice keeps, for a call, the offerings that were unavailable all the time.
Available(gone) == [c \in Callers |-> [call[c] EXCEPT !.ice = @ \ gone]]

Flush ==
    /\ entry' = [s \in Skus |-> Out]
    /\ marked' = [s \in Skus |-> TTL + 1]
    /\ call' = Available(Skus)
    /\ UNCHANGED <<azure, priced, cache, holder>>

-----------------------------------------------------------------------------
(* List and the probe. *)

Begin(c) ==
    /\ call[c].at = "idle"
    /\ \E at \in {"list", "probe"} :
         call' = [call EXCEPT ![c] = [NoCall EXCEPT !.at = at, !.ice = {s \in Skus : IsUnavailable(s)}]]
    /\ UNCHANGED <<azure, priced, cache, entry, marked, holder>>

Lock(c) ==
    /\ call[c].at = "list" /\ holder = Nobody
    /\ holder' = c
    /\ call' = [call EXCEPT ![c].at = IF cache.here THEN "offer" ELSE "fetch",
                            ![c].todo = cache.skus, ![c].age = cache.age]
    /\ UNCHANGED <<azure, priced, cache, entry, marked>>

\* Variant: the entry of the cache lives a tick longer.
FetchCachesLonger(c) ==
    /\ call[c].at = "fetch"
    /\ cache' = [here |-> TRUE, skus |-> azure, left |-> CacheTTL + 1, age |-> 0]
    /\ call' = [call EXCEPT ![c].at = "offer", ![c].todo = azure]
    /\ UNCHANGED <<azure, priced, entry, marked, holder>>

\* getInstanceTypes, with the mutex held ...
FetchSKUs(c) ==
    /\ call[c].at = "fetch"
    /\ cache' = [here |-> TRUE, skus |-> azure, left |-> CacheTTL, age |-> 0]
    /\ call' = [call EXCEPT ![c].at = "offer", ![c].todo = azure]
    /\ UNCHANGED <<azure, priced, entry, marked, holder>>

\* Variant: the mutex is not given back after an error.
FetchFailsLocked(c) ==
    /\ call[c].at = "fetch"
    /\ call' = [call EXCEPT ![c] = NoCall]
    /\ UNCHANGED <<azure, priced, cache, entry, marked, holder>>

\* ... and an error is not cached.
FetchFails(c) ==
    /\ call[c].at = "fetch"
    /\ call' = [call EXCEPT ![c] = NoCall]
    /\ holder' = Nobody
    /\ UNCHANGED <<azure, priced, cache, entry, marked>>

\* Variant: a missing price, not a mark, leaves an offering out.
OfferedIfPriced(s) == s \in priced

\* createOfferings: an offering without a price is there, but not available.
Offered(s) == ~IsUnavailable(s)

\* One SKU after the other, in no order.
Offer(c) ==
    /\ call[c].at = "offer"
    /\ \E s \in call[c].todo :
         call' = [call EXCEPT ![c].todo = @ \ {s},
                              ![c].got = IF Offered(s) THEN @ \cup {[sku |-> s, available |-> s \in priced]}
                                         ELSE @]
    /\ UNCHANGED <<azure, priced, cache, entry, marked, holder>>

Return(c) ==
    /\ call[c].at = "offer" /\ call[c].todo = {}
    /\ call' = [call EXCEPT ![c].at = "done"]
    /\ holder' = Nobody
    /\ UNCHANGED <<azure, priced, cache, entry, marked>>

\* The probe takes the mutex and gives it back, and the one of the prices likewise.
Probe(c) ==
    /\ call[c].at = "probe" /\ holder = Nobody
    /\ call' = [call EXCEPT ![c] = NoCall]
    /\ UNCHANGED <<azure, priced, cache, entry, marked, holder>>

Forget(c) ==
    /\ call[c].at = "done"
    /\ call' = [call EXCEPT ![c] = NoCall]
    /\ UNCHANGED <<azure, priced, cache, entry, marked, holder>>

-----------------------------------------------------------------------------
(* Azure, the pricing provider and the clock. *)

AzureChanges ==
    /\ azure' \in SUBSET Skus \ {azure}
    /\ UNCHANGED <<priced, cache, entry, marked, holder, call>>

PricesChange ==
    /\ priced' \in SUBSET Skus \ {priced}
    /\ UNCHANGED <<azure, cache, entry, marked, holder, call>>

Tick ==
    LET gone == {s \in Skus : entry[s] = 0} IN
    /\ entry' = [s \in Skus |-> IF entry[s] \in {0, Out} THEN Out ELSE entry[s] - 1]
    /\ marked' = [s \in Skus |-> IF marked[s] <= TTL THEN marked[s] + 1 ELSE TTL + 1]
    /\ cache' = IF cache.left = 0 THEN NoCache
                ELSE [cache EXCEPT !.left = @ - 1, !.age = @ + 1]
    /\ call' = Available(gone)
    /\ UNCHANGED <<azure, priced, holder>>

Runs(c) ==
    \/ Lock(c) \/ FetchSKUs(c) \/ FetchFails(c) \/ Offer(c) \/ Return(c) \/ Probe(c) \/ Forget(c)

CatalogNext ==
    \/ \E c \in Callers : Begin(c) \/ Runs(c)
    \/ \E s \in Skus : MarkUnavailable(s)
    \/ Flush \/ AzureChanges \/ PricesChange \/ Tick

CatalogSpec == CatalogInit /\ [][CatalogNext]_catalogVars

\* Go's mutex does not starve a goroutine; a fetch ends in some way.
CatalogFairSpec ==
    /\ CatalogSpec
    /\ \A c \in Callers :
         /\ SF_catalogVars(Lock(c)) /\ SF_catalogVars(Probe(c))
         /\ WF_catalogVars(FetchSKUs(c) \/ FetchFails(c) \/ Offer(c) \/ Return(c))

-----------------------------------------------------------------------------
(* What must hold. *)

\* "These offerings are ignored as long as they are in the cache": what was marked
\* during the whole of List is not in its result, although marks come, expire and are
\* renewed while SKUs are fetched.
IceIsIgnored ==
    \A c \in Callers : call[c].at = "done" =>
        \A o \in call[c].got : o.sku \notin call[c].ice

\* "even if the key is already in the cache, we still need to call Set to extend the
\* cached entry's TTL": the last mark counts.
MarkLasts ==
    \A s \in Skus : marked[s] <= TTL => IsUnavailable(s)

\* The SKUs of a result were fetched at most InstanceTypesCacheTTL before the call
\* took the mutex, and no two calls fetch at a time.
SkusAreRecent ==
    /\ \A c \in Callers : call[c].age <= CacheTTL
    /\ \A c, d \in Callers : call[c].at = "fetch" /\ call[d].at = "fetch" => c = d

\* The health probe answers in the end, although List fetches with the mutex held and
\* the fetch may fail.
ProbeAnswers ==
    \A c \in Callers : call[c].at = "probe" ~> call[c].at # "probe"
=============================================================================
