------------------------------ MODULE Pricing -------------------------------
(***************************************************************************)
(* The pricing provider: a list of prices for one region, compiled in and  *)
(* replaced by what a goroutine fetches from Azure's retail price API, at  *)
(* the start, after a late election, and then periodically.                *)
(*                                                                         *)
(* The controller has one provider.  The generator of the compiled-in      *)
(* lists has one per region, so everything here is indexed by region.      *)
(*                                                                         *)
(* A catalogue is what the API would answer: a sequence of pages, which    *)
(* are sequences of items.  Of an item only the suffixes of its names that *)
(* the provider looks at are kept, as its kind.  The API may change its    *)
(* catalogue between two pages of one fetch.                               *)
(***************************************************************************)
EXTENDS Naturals, Sequences

CONSTANTS
    Regions,        \* regions of the providers that run
    Skus,           \* instance types
    Prices,         \* prices
    NoPrice,        \* stands for a missing entry
    Catalogs,       \* catalogues that the API may have, by region
    InitialPrices,  \* initialOnDemandPrices, by region
    EastUS,         \* the region whose prices are the fallback
    Period          \* pricingUpdatePeriod in ticks of the clock

Kinds == {"regular", "windows", "lowPriority", "spot"}
Items == [sku: Skus, kind: Kinds, price: Prices]
Lists == [Skus -> Prices \cup {NoPrice}]
Empty == [s \in Skus |-> NoPrice]

ASSUME PricesAssumption   == NoPrice \notin Prices
ASSUME CatalogsAssumption == Catalogs \in [Regions -> SUBSET (Seq(Seq(Items)) \ {<<>>})]
ASSUME TableAssumption    == /\ EastUS \in DOMAIN InitialPrices
                             /\ \A r \in DOMAIN InitialPrices :
                                  InitialPrices[r] \in Lists \ {Empty}
ASSUME PeriodAssumption   == Period \in Nat \ {0}

VARIABLES
    prices,     \* onDemandPrices
    updated,    \* onDemandUpdateTime is later than initialPriceUpdate
    up,         \* the goroutine that updates: where it is and what it has fetched
    elected,    \* startAsync is closed: this replica is the leader
    done,       \* the context is cancelled
    offer,      \* the catalogue that the API has now
    since,      \* ticks since the last update ended, up to TooLong
    timer       \* ticks that the goroutine has waited, up to Period + 1

pricingVars == <<prices, updated, up, elected, done, offer, since, timer>>

TooLong == 2 * Period + 1

\* "swap" is between the end of a fetch and the lock.  stage tells the three
\* updates apart.
UpStates == [at: {"fetching", "swap", "elect", "wait", "stopped"},
             stage: {"initial", "late", "periodic"},
             page: Nat \ {0}, acc: Lists, err: BOOLEAN]

PricingTypeOK ==
    /\ prices \in [Regions -> Lists]
    /\ updated \in [Regions -> BOOLEAN]
    /\ up \in [Regions -> UpStates]
    /\ elected \in BOOLEAN /\ done \in BOOLEAN
    /\ offer \in [Regions -> Seq(Seq(Items))]
    /\ since \in [Regions -> 0..TooLong]
    /\ timer \in [Regions -> 0..(Period + 1)]

\* The list that was compiled in.
StaticPricing(r) ==
    IF r \in DOMAIN InitialPrices THEN InitialPrices[r] ELSE InitialPrices[EastUS]

\* A fetch begins with an empty map.
Fetch(stage) == [at |-> "fetching", stage |-> stage, page |-> 1, acc |-> Empty, err |-> FALSE]

\* NewProvider.
PricingInit ==
    /\ prices = [r \in Regions |-> StaticPricing(r)]
    /\ updated = [r \in Regions |-> FALSE]
    /\ up = [r \in Regions |-> Fetch("initial")]
    /\ elected = FALSE /\ done = FALSE
    /\ offer \in [Regions -> UNION {Catalogs[r] : r \in Regions}]
    /\ \A r \in Regions : offer[r] \in Catalogs[r]
    /\ since = [r \in Regions |-> 0]
    /\ timer = [r \in Regions |-> 0]

-----------------------------------------------------------------------------
(* What readers see, each under the lock. *)

InstanceTypes(r)    == {s \in Skus : prices[r][s] # NoPrice}
OnDemandPrice(r, s) == prices[r][s]
OnDemandLastUpdatedAfterStart(r) == updated[r]

-----------------------------------------------------------------------------
(* A fetch. *)

\* Variant: prices of spot capacity are not told apart.
RegularOrSpot(item) == item.kind \in {"regular", "spot"}

\* onDemandPage skips Windows, low-priority and spot prices.
Regular(item) == item.kind = "regular"

\* i is the last item of page that sets the price of s.
SetsPrice(page, s, i) ==
    /\ i \in DOMAIN page /\ page[i].sku = s /\ Regular(page[i])
    /\ \A j \in DOMAIN page : (j > i /\ page[j].sku = s) => ~Regular(page[j])

\* onDemandPage: the map acc after a page.
OnDemandPage(acc, page) ==
    [s \in Skus |-> IF \E i \in DOMAIN page : SetsPrice(page, s, i)
                    THEN page[CHOOSE i \in DOMAIN page : SetsPrice(page, s, i)].price
                    ELSE acc[s]]

\* GetProductsPricePages gets one page and goes on if it has a link to the next.
\* The page that a link leads to is empty when the catalogue has become shorter.
FetchPage(r) ==
    LET p == up[r].page
        page == IF p \in DOMAIN offer[r] THEN offer[r][p] ELSE <<>>
    IN
    /\ up[r].at = "fetching"
    /\ up' = [up EXCEPT ![r].acc = OnDemandPage(@, page),
                        ![r].at = IF p < Len(offer[r]) THEN "fetching" ELSE "swap",
                        ![r].page = IF p < Len(offer[r]) THEN p + 1 ELSE 1]
    /\ UNCHANGED <<prices, updated, elected, done, offer, since, timer>>

\* Variant: what was fetched before the error is returned with it and used.
FetchFailsSoftly(r) ==
    /\ up[r].at = "fetching"
    /\ up' = [up EXCEPT ![r].at = "swap", ![r].page = 1]
    /\ UNCHANGED <<prices, updated, elected, done, offer, since, timer>>

\* A page cannot be had, is no success or cannot be parsed: the error is returned
\* without the prices of the pages before.
FetchFails(r) ==
    /\ up[r].at = "fetching"
    /\ up' = [up EXCEPT ![r].at = "swap", ![r].page = 1, ![r].acc = Empty, ![r].err = TRUE]
    /\ UNCHANGED <<prices, updated, elected, done, offer, since, timer>>

\* Where the goroutine goes after an update.
AfterUpdate(u) ==
    [at |-> IF u.stage = "initial" THEN "elect" ELSE "wait", stage |-> u.stage,
     page |-> 1, acc |-> Empty, err |-> FALSE]

\* The end of an update: list and date are replaced together, or both stay, and the
\* goroutine goes on to next.
EndUpdate(r, keep, next) ==
    /\ up[r].at = "swap"
    /\ IF keep THEN UNCHANGED <<prices, updated>>
       ELSE /\ prices' = [prices EXCEPT ![r] = up[r].acc]
            /\ updated' = [updated EXCEPT ![r] = TRUE]
    /\ up' = [up EXCEPT ![r] = next]
    /\ since' = [since EXCEPT ![r] = 0]
    /\ timer' = [timer EXCEPT ![r] = 0]
    /\ UNCHANGED <<elected, done, offer>>

\* Variant: an update that fails ends the goroutine.
UpdateOrStop(r) ==
    EndUpdate(r, up[r].err \/ up[r].acc = Empty,
              [AfterUpdate(up[r]) EXCEPT !.at = IF up[r].err THEN "stopped" ELSE @])

\* UpdateOnDemandPricing, under the lock.  After an error, and when nothing was
\* found, the list stays.  A new wait begins.
UpdateOnDemandPricing(r) ==
    EndUpdate(r, up[r].err \/ up[r].acc = Empty, AfterUpdate(up[r]))

-----------------------------------------------------------------------------
(* The goroutine's waits. *)

\* Variant: no fetch after a late election.
ElectedNoRefetch(r) ==
    /\ up[r].at = "elect" /\ elected
    /\ up' = [up EXCEPT ![r].at = "wait", ![r].stage = "periodic"]
    /\ timer' = [timer EXCEPT ![r] = 0]
    /\ UNCHANGED <<prices, updated, elected, done, offer, since>>

\* The wait for the election is over; if it took long, prices are fetched again.
Elected(r) ==
    /\ up[r].at = "elect" /\ elected
    /\ up' = [up EXCEPT ![r] = IF timer[r] > Period THEN Fetch("late")
                               ELSE [@ EXCEPT !.at = "wait", !.stage = "periodic"]]
    /\ timer' = [timer EXCEPT ![r] = 0]
    /\ UNCHANGED <<prices, updated, elected, done, offer, since>>

PeriodEnds(r) ==
    /\ up[r].at = "wait" /\ timer[r] = Period
    /\ up' = [up EXCEPT ![r] = Fetch("periodic")]
    /\ UNCHANGED <<prices, updated, elected, done, offer, since, timer>>

\* Either select returns when the context is cancelled.
Stopped(r) ==
    /\ up[r].at \in {"elect", "wait"} /\ done
    /\ up' = [up EXCEPT ![r].at = "stopped"]
    /\ UNCHANGED <<prices, updated, elected, done, offer, since, timer>>

\* Only tests call it.
Reset(r) ==
    /\ prices' = [prices EXCEPT ![r] = StaticPricing(r)]
    /\ updated' = [updated EXCEPT ![r] = FALSE]
    /\ UNCHANGED <<up, elected, done, offer, since, timer>>

Updater(r) ==
    \/ FetchPage(r) \/ FetchFails(r) \/ UpdateOnDemandPricing(r)
    \/ Elected(r) \/ PeriodEnds(r) \/ Stopped(r)

-----------------------------------------------------------------------------
(* The environment. *)

BecomeLeader ==
    /\ ~elected /\ elected' = TRUE
    /\ UNCHANGED <<prices, updated, up, done, offer, since, timer>>

Shutdown ==
    /\ ~done /\ done' = TRUE
    /\ UNCHANGED <<prices, updated, up, elected, offer, since, timer>>

\* The API publishes another catalogue.
Publish(r) ==
    /\ \E c \in Catalogs[r] \ {offer[r]} : offer' = [offer EXCEPT ![r] = c]
    /\ UNCHANGED <<prices, updated, up, elected, done, since, timer>>

\* Time passes, but not past a timer or an election that ends a wait.
Urgent(r) ==
    \/ up[r].at = "swap"
    \/ up[r].at = "elect" /\ (elected \/ done)
    \/ up[r].at = "wait" /\ (timer[r] = Period \/ done)

Tick ==
    /\ \A r \in Regions : ~Urgent(r)
    /\ since' = [r \in Regions |-> IF since[r] < TooLong THEN since[r] + 1 ELSE TooLong]
    /\ timer' = [r \in Regions |->
                   IF up[r].at \in {"elect", "wait"} /\ timer[r] <= Period
                   THEN timer[r] + 1 ELSE timer[r]]
    /\ UNCHANGED <<prices, updated, up, elected, done, offer>>

PricingNext ==
    \/ \E r \in Regions : Updater(r) \/ Reset(r) \/ Publish(r)
    \/ BecomeLeader \/ Shutdown \/ Tick

PricingSpec == PricingInit /\ [][PricingNext]_pricingVars

Pages == UNION {DOMAIN c : c \in UNION {Catalogs[r] : r \in Regions}}

\* The goroutine is scheduled, the clock runs, somebody is elected, and the API does
\* not fail on the same page for ever.
PricingFairness ==
    /\ WF_pricingVars(Tick) /\ WF_pricingVars(BecomeLeader)
    /\ \A r \in Regions :
         /\ WF_pricingVars(UpdateOnDemandPricing(r) \/ Elected(r) \/ PeriodEnds(r) \/ Stopped(r))
         /\ WF_pricingVars(FetchPage(r) \/ FetchFails(r))
         /\ \A p \in Pages : SF_pricingVars(FetchPage(r) /\ up[r].page = p)

PricingFairSpec == PricingSpec /\ PricingFairness

-----------------------------------------------------------------------------
(* What must hold. *)

\* The API has a regular price of s, price, in some catalogue of r.
Published(r, s, price) ==
    \E c \in Catalogs[r] : \E p \in DOMAIN c : \E i \in DOMAIN c[p] :
        c[p][i] = [sku |-> s, kind |-> "regular", price |-> price]

\* Instance types that keep a regular price on the same page of every catalogue of r.
Steady(r) ==
    {s \in Skus : \E p \in Pages : \A c \in Catalogs[r] :
        p \in DOMAIN c /\ \E i \in DOMAIN c[p] : c[p][i].sku = s /\ c[p][i].kind = "regular"}

\* A fetch that ends early leaves no trace: an instance type that the API lists all
\* the time never loses its price to an update (fetchOnDemandPricing returns no
\* prices with an error).
NoPriceIsLost ==
    \A r \in Regions : updated[r] => Steady(r) \subseteq InstanceTypes(r)

\* While the goroutine of a leader waits, its last attempt is at most two periods
\* old: one for the wait for the election, one for pricingUpdatePeriod itself.
AttemptsGoOn ==
    \A r \in Regions : up[r].at = "wait" => since[r] <= 2 * Period

\* A leader gets fresh prices in the end, however often fetches have failed, if the
\* API has prices to give.
PricesBecomeFresh ==
    \A r \in Regions : (elected /\ Steady(r) # {}) ~> (updated[r] \/ done)

FetchableLists(r) ==
    {l \in Lists \ {Empty} : \A s \in Skus : l[s] = NoPrice \/ Published(r, s, l[s])}

Book == INSTANCE PriceBook WITH
            Compiled <- StaticPricing, Fetchable <- FetchableLists,
            book <- prices, fetched <- updated

\* "In the event that a pricing update fails, the previous pricing information is
\* retained and used": the provider, with all the steps of its fetches and waits,
\* implements PriceBook.
ImplementsPriceBook == Book!BookSpec
=============================================================================
