--------------------------- MODULE PricingProofs ----------------------------
(***************************************************************************)
(* Proofs about the pricing provider, and about the generator that runs    *)
(* one for every region, for any regions, instance types, prices,          *)
(* catalogues, compiled-in tables, periods and deadlines.                  *)
(***************************************************************************)
EXTENDS PriceGenerator, WellFoundedInduction, TLAPS

\* A non-empty set of positions of a page has a last one.
LEMMA LastOne ==
    ASSUME NEW n \in Nat, NEW T, T \subseteq 1..n, T # {}
    PROVE  \E i \in T : \A j \in T : j <= i
  <1> DEFINE Less == {ss \in Nat \X Nat : ss[1] < ss[2]}
             D    == {n - i : i \in T}
  <1>1. IsWellFoundedOn(Less, Nat)
    BY NatLessThanWellFounded DEF OpToRel
  <1>a. ASSUME NEW i \in T PROVE n - i \in Nat
    <2>1. i \in 1..n
      OBVIOUS
    <2> QED BY <2>1
  <1>2. D \subseteq Nat /\ D # {}
    BY <1>a
  <1> HIDE DEF Less
  <1>3. PICK d \in D : \A e \in D : ~(<<e, d>> \in Less)
    BY <1>1, <1>2, WFMin
  <1>4. \A e \in D : ~(e < d)
    BY <1>2, <1>3 DEF Less
  <1>5. PICK i \in T : d = n - i
    OBVIOUS
  <1>6. ASSUME NEW j \in T PROVE j <= i
    <2>1. n - j \in D
      OBVIOUS
    <2> QED BY <1>4, <1>5, <2>1
  <1> QED BY <1>6

\* onDemandPage: every price of the new map is an old one or a regular one of the page,
\* and every type that has a regular price on the page has a price after it.
LEMMA PageFacts ==
    ASSUME NEW acc \in Lists, NEW page \in Seq(Items)
    PROVE  /\ OnDemandPage(acc, page) \in Lists
           /\ \A s \in Skus :
                \/ OnDemandPage(acc, page)[s] = acc[s]
                \/ \E i \in DOMAIN page :
                     page[i] = [sku |-> s, kind |-> "regular",
                                price |-> OnDemandPage(acc, page)[s]]
           /\ \A s \in Skus : acc[s] # NoPrice => OnDemandPage(acc, page)[s] # NoPrice
           /\ \A s \in Skus : \A i \in DOMAIN page :
                page[i].sku = s /\ page[i].kind = "regular"
                    => OnDemandPage(acc, page)[s] # NoPrice
  <1> DEFINE new == OnDemandPage(acc, page)
  <1>1. \A i \in DOMAIN page : page[i] \in Items /\ page[i].price \in Prices
    <2>1. ASSUME NEW i \in DOMAIN page PROVE page[i] \in Items
      <3>1. DOMAIN page = 1..Len(page) /\ page \in [1..Len(page) -> Items]
        OBVIOUS
      <3> QED BY <3>1
    <2> QED BY <2>1 DEF Items
  <1>2. ASSUME NEW s \in Skus, ~\E i \in DOMAIN page : SetsPrice(page, s, i)
        PROVE  new[s] = acc[s]
    BY <1>2 DEF OnDemandPage
  <1>3. ASSUME NEW s \in Skus, \E i \in DOMAIN page : SetsPrice(page, s, i)
        PROVE  \E i \in DOMAIN page :
                 /\ page[i] = [sku |-> s, kind |-> "regular", price |-> new[s]]
                 /\ new[s] \in Prices
    <2> DEFINE i == CHOOSE i \in DOMAIN page : SetsPrice(page, s, i)
    <2>1. i \in DOMAIN page /\ SetsPrice(page, s, i)
      BY <1>3
    <2>2. new[s] = page[i].price
      BY <1>3 DEF OnDemandPage
    <2> HIDE DEF i
    <2>3. page[i] = [sku |-> s, kind |-> "regular", price |-> new[s]]
      BY <1>1, <2>1, <2>2 DEF SetsPrice, Regular, Items
    <2> QED BY <1>1, <2>1, <2>2, <2>3
  <1>4. ASSUME NEW s \in Skus, NEW k \in DOMAIN page,
               page[k].sku = s, page[k].kind = "regular"
        PROVE  \E i \in DOMAIN page : SetsPrice(page, s, i)
    <2> DEFINE T == {i \in DOMAIN page : page[i].sku = s /\ page[i].kind = "regular"}
    <2>1. T \subseteq 1..Len(page) /\ T # {} /\ Len(page) \in Nat
      BY <1>4
    <2>2. PICK i \in T : \A j \in T : j <= i
      <3> HIDE DEF T
      <3> QED BY <2>1, LastOne
    <2>3. ASSUME NEW j \in DOMAIN page, j > i, page[j].sku = s PROVE ~Regular(page[j])
      BY <2>2, <2>3 DEF Regular
    <2>4. SetsPrice(page, s, i)
      BY <2>2, <2>3 DEF SetsPrice, Regular
    <2> QED BY <2>2, <2>4
  <1>5. \A s \in Skus : new[s] \in Prices \cup {NoPrice}
    BY <1>2, <1>3 DEF Lists
  <1>6. new \in Lists
    <2>1. new = [s \in Skus |-> new[s]]
      BY DEF OnDemandPage
    <2> QED BY <1>5, <2>1 DEF Lists
  <1> QED BY <1>2, <1>3, <1>4, <1>6, PricesAssumption

-----------------------------------------------------------------------------
(* A fetch. *)

\* Every catalogue of r has a regular price of s on page p.
SteadyAt(r, s, p) ==
    \A c \in Catalogs[r] :
        p \in DOMAIN c /\ \E i \in DOMAIN c[p] : c[p][i].sku = s /\ c[p][i].kind = "regular"

\* What a fetch has collected: published prices, among them those of the steady
\* types on the pages it has seen, which are all pages when it has ended.
Collected(r, u) ==
    /\ \A s \in Skus : u.acc[s] = NoPrice \/ Published(r, s, u.acc[s])
    /\ u.at = "fetching" =>
         /\ ~u.err
         /\ \A s \in Skus : \A p \in Nat \ {0} :
              SteadyAt(r, s, p) /\ p < u.page => u.acc[s] # NoPrice
    /\ u.at = "swap" /\ ~u.err => \A s \in Steady(r) : u.acc[s] # NoPrice

FetchTypes ==
    /\ up \in [Regions -> UpStates]
    /\ prices \in [Regions -> Lists]
    /\ updated \in [Regions -> BOOLEAN]
    /\ DOMAIN offer = Regions
    /\ \A r \in Regions : offer[r] \in Catalogs[r]

FetchInv ==
    /\ FetchTypes
    /\ \A r \in Regions : Collected(r, up[r])
    /\ NoPriceIsLost

\* A catalogue is a sequence of at least one page.
LEMMA CatalogForm ==
    ASSUME NEW r \in Regions, NEW c \in Catalogs[r]
    PROVE  /\ Len(c) \in Nat /\ DOMAIN c = 1..Len(c)
           /\ \A p \in DOMAIN c : c[p] \in Seq(Items)
  <1>1. c \in Seq(Seq(Items))
    BY CatalogsAssumption
  <1>2. Len(c) \in Nat /\ DOMAIN c = 1..Len(c) /\ c \in [1..Len(c) -> Seq(Items)]
    BY <1>1
  <1> QED BY <1>2

\* The compiled-in list of a region is a list.
LEMMA StaticForm ==
    ASSUME NEW r PROVE StaticPricing(r) \in Lists
  BY TableAssumption DEF StaticPricing

\* A steady type has its price on some page.
LEMMA SteadyForm ==
    ASSUME NEW r \in Regions, NEW s \in Steady(r), NEW c \in Catalogs[r]
    PROVE  s \in Skus /\ \E p \in Nat \ {0} : SteadyAt(r, s, p) /\ p <= Len(c)
  <1>1. PICK p \in Pages : SteadyAt(r, s, p)
    BY DEF Steady, SteadyAt
  <1>2. p \in DOMAIN c
    BY <1>1 DEF SteadyAt
  <1>3. p \in Nat \ {0} /\ p <= Len(c)
    BY <1>2, CatalogForm
  <1> QED BY <1>1, <1>3 DEF Steady

\* The record of a goroutine that is not fetching has collected nothing wrong.
LEMMA EmptyIsCollected ==
    ASSUME NEW r, NEW u, u.acc = Empty, u.at # "swap" \/ u.err,
           u.at = "fetching" => u.page = 1 /\ ~u.err
    PROVE  Collected(r, u)
  <1>1. \A s \in Skus : u.acc[s] = NoPrice
    BY DEF Empty
  <1>2. \A p \in Nat \ {0} : ~(p < 1)
    OBVIOUS
  <1> QED BY <1>1, <1>2 DEF Collected

\* One more page.
LEMMA FetchPageCollects ==
    ASSUME FetchInv, NEW r \in Regions, FetchPage(r)
    PROVE  up' \in [Regions -> UpStates] /\ Collected(r, up'[r])
  <1> DEFINE u == up[r]
             c == offer[r]
             page == IF u.page \in DOMAIN c THEN c[u.page] ELSE <<>>
             acc == OnDemandPage(u.acc, page)
             next == [u EXCEPT !.acc = acc,
                               !.at = IF u.page < Len(c) THEN "fetching" ELSE "swap",
                               !.page = IF u.page < Len(c) THEN u.page + 1 ELSE 1]
  <1>1. /\ u \in UpStates /\ u.page \in Nat \ {0} /\ u.acc \in Lists
        /\ c \in Catalogs[r] /\ Collected(r, u) /\ u.at = "fetching"
    BY DEF FetchInv, FetchTypes, UpStates, FetchPage
  <1>2. Len(c) \in Nat /\ DOMAIN c = 1..Len(c) /\ page \in Seq(Items)
    BY <1>1, CatalogForm
  <1>3. up' = [up EXCEPT ![r] = next]
    BY DEF FetchPage
  <1>4. up \in [Regions -> UpStates]
    BY DEF FetchInv, FetchTypes
  <1> HIDE DEF u, c
  <1>5. acc \in Lists
    <2> HIDE DEF page
    <2> QED BY <1>1, <1>2, PageFacts
  <1>6. /\ next.acc = acc /\ next.err = u.err /\ next.stage = u.stage
        /\ next.at = (IF u.page < Len(c) THEN "fetching" ELSE "swap")
        /\ next.page = (IF u.page < Len(c) THEN u.page + 1 ELSE 1)
        /\ next \in UpStates
    <2>1. (IF u.page < Len(c) THEN u.page + 1 ELSE 1) \in Nat \ {0}
      BY <1>1, <1>2
    <2> HIDE DEF page, acc
    <2> QED BY <1>1, <1>5, <2>1 DEF UpStates
  <1>7. \A s \in Skus : acc[s] = NoPrice \/ Published(r, s, acc[s])
    <2> SUFFICES ASSUME NEW s \in Skus PROVE acc[s] = NoPrice \/ Published(r, s, acc[s])
      OBVIOUS
    <2>1. CASE acc[s] = u.acc[s]
      BY <1>1, <2>1 DEF Collected
    <2>2. CASE \E i \in DOMAIN page :
                 page[i] = [sku |-> s, kind |-> "regular", price |-> acc[s]]
      <3>1. u.page \in DOMAIN c
        BY <2>2
      <3> QED BY <1>1, <2>2, <3>1 DEF Published
    <2>3. \/ acc[s] = u.acc[s]
          \/ \E i \in DOMAIN page :
               page[i] = [sku |-> s, kind |-> "regular", price |-> acc[s]]
      <3> HIDE DEF page
      <3> QED BY <1>1, <1>2, PageFacts
    <2> QED BY <2>1, <2>2, <2>3
  <1>8. ASSUME NEW s \in Skus, NEW p \in Nat \ {0}, SteadyAt(r, s, p), p <= u.page
        PROVE  acc[s] # NoPrice
    <2>1. CASE p < u.page
      <3>1. u.acc[s] # NoPrice
        BY <1>1, <1>8, <2>1 DEF Collected
      <3> HIDE DEF page
      <3> QED BY <1>1, <1>2, <3>1, PageFacts
    <2>2. CASE p = u.page
      <3>1. u.page \in DOMAIN c /\ page = c[u.page]
        BY <1>1, <1>8, <2>2 DEF SteadyAt
      <3>2. \E i \in DOMAIN page : page[i].sku = s /\ page[i].kind = "regular"
        BY <1>1, <1>8, <2>2, <3>1 DEF SteadyAt
      <3> HIDE DEF page
      <3> QED BY <1>1, <1>2, <3>2, PageFacts
    <2> QED BY <1>1, <1>8, <2>1, <2>2
  <1> HIDE DEF acc, next, page
  <1>9. Collected(r, next)
    <2>1. CASE u.page < Len(c)
      <3>1. \A p \in Nat \ {0} : p < next.page => p <= u.page
        BY <1>1, <1>6, <2>1
      <3> QED BY <1>1, <1>6, <1>7, <1>8, <2>1, <3>1 DEF Collected
    <2>2. CASE ~(u.page < Len(c))
      <3>1. ASSUME NEW s \in Steady(r) PROVE acc[s] # NoPrice
        <4>1. PICK p \in Nat \ {0} : SteadyAt(r, s, p) /\ p <= Len(c)
          BY <1>1, SteadyForm
        <4>2. p <= u.page /\ s \in Skus
          BY <1>1, <1>2, <2>2, <4>1, SteadyForm
        <4> QED BY <1>8, <4>1, <4>2
      <3> QED BY <1>6, <1>7, <2>2, <3>1 DEF Collected
    <2> QED BY <2>1, <2>2
  <1>10. up' \in [Regions -> UpStates] /\ up'[r] = next
    BY <1>3, <1>4, <1>6
  <1> QED BY <1>9, <1>10

\* A fetch ends, or fails, or the goroutine waits: what a region's record becomes.
LEMMA OtherUpdates ==
    ASSUME FetchInv, NEW r \in Regions,
           \/ FetchFails(r) \/ UpdateOnDemandPricing(r) \/ Elected(r)
           \/ PeriodEnds(r) \/ Stopped(r)
    PROVE  /\ up' \in [Regions -> UpStates] /\ Collected(r, up'[r])
           /\ \A q \in Regions \ {r} : up'[q] = up[q]
  <1>0. up \in [Regions -> UpStates] /\ up[r] \in UpStates /\ Collected(r, up[r])
    BY DEF FetchInv, FetchTypes
  <1>e. Empty \in Lists
    BY DEF Empty, Lists
  <1>1. ASSUME NEW next \in UpStates, up' = [up EXCEPT ![r] = next], Collected(r, next)
        PROVE  /\ up' \in [Regions -> UpStates] /\ Collected(r, up'[r])
               /\ \A q \in Regions \ {r} : up'[q] = up[q]
    <2>1. up'[r] = next
      BY <1>0, <1>1
    <2> QED BY <1>0, <1>1, <2>1
  <1>2. ASSUME NEW stage \in {"initial", "late", "periodic"}
        PROVE  Fetch(stage) \in UpStates /\ Collected(r, Fetch(stage))
    <2>1. Fetch(stage) \in UpStates
      BY <1>e DEF Fetch, UpStates
    <2>2. /\ Fetch(stage).acc = Empty /\ Fetch(stage).at = "fetching"
          /\ Fetch(stage).page = 1 /\ ~Fetch(stage).err
      BY DEF Fetch
    <2> QED BY <2>1, <2>2, EmptyIsCollected
  <1>3. ASSUME NEW next \in UpStates, next.acc = up[r].acc, next.at \in {"elect", "wait", "stopped"}
        PROVE  Collected(r, next)
    BY <1>0, <1>3 DEF Collected
  <1>4. CASE FetchFails(r)
    <2> DEFINE next == [up[r] EXCEPT !.at = "swap", !.page = 1, !.acc = Empty, !.err = TRUE]
    <2>1. up' = [up EXCEPT ![r] = next]
      BY <1>4 DEF FetchFails
    <2>a. next.acc = Empty /\ next.at = "swap" /\ next.err /\ next.page = 1
      BY <1>0 DEF UpStates
    <2>b. 1 \in Nat \ {0}
      OBVIOUS
    <2>2. next \in UpStates /\ next.acc = Empty /\ next.at = "swap" /\ next.err
      BY <1>0, <1>e, <2>a, <2>b DEF UpStates
    <2> HIDE DEF next
    <2> QED BY <1>1, <2>1, <2>2, EmptyIsCollected
  <1>5. CASE UpdateOnDemandPricing(r)
    <2> DEFINE next == AfterUpdate(up[r])
    <2>1. up' = [up EXCEPT ![r] = next]
      BY <1>5 DEF UpdateOnDemandPricing, EndUpdate
    <2>a. up[r].stage \in {"initial", "late", "periodic"}
      BY <1>0 DEF UpStates
    <2>b. PICK at \in {"elect", "wait"} :
            next = [at |-> at, stage |-> up[r].stage, page |-> 1, acc |-> Empty, err |-> FALSE]
      BY DEF AfterUpdate
    <2>2. next \in UpStates /\ next.acc = Empty /\ next.at \in {"elect", "wait"}
      <3> HIDE DEF next
      <3> QED BY <1>e, <2>a, <2>b DEF UpStates
    <2> HIDE DEF next
    <2> QED BY <1>1, <2>1, <2>2, EmptyIsCollected
  <1>6. CASE Elected(r)
    <2> DEFINE next == [up[r] EXCEPT !.at = "wait", !.stage = "periodic"]
    <2>1. up' = [up EXCEPT ![r] = IF timer[r] > Period THEN Fetch("late") ELSE next]
      BY <1>6 DEF Elected
    <2>2. next \in UpStates /\ next.acc = up[r].acc /\ next.at = "wait"
      BY <1>0 DEF UpStates
    <2> HIDE DEF next
    <2>3. Collected(r, next)
      BY <1>3, <2>2
    <2>4. CASE timer[r] > Period
      BY <1>1, <1>2, <2>1, <2>4
    <2>5. CASE ~(timer[r] > Period)
      BY <1>1, <2>1, <2>2, <2>3, <2>5
    <2> QED BY <2>4, <2>5
  <1>7. CASE PeriodEnds(r)
    <2>1. up' = [up EXCEPT ![r] = Fetch("periodic")]
      BY <1>7 DEF PeriodEnds
    <2> QED BY <1>1, <1>2, <2>1
  <1>8. CASE Stopped(r)
    <2> DEFINE next == [up[r] EXCEPT !.at = "stopped"]
    <2>1. up' = [up EXCEPT ![r] = next]
      BY <1>8 DEF Stopped
    <2>2. next \in UpStates /\ next.acc = up[r].acc /\ next.at = "stopped"
      BY <1>0 DEF UpStates
    <2> HIDE DEF next
    <2>3. Collected(r, next)
      BY <1>3, <2>2
    <2> QED BY <1>1, <2>1, <2>2, <2>3
  <1> QED BY <1>4, <1>5, <1>6, <1>7, <1>8

\* What the list of a region becomes when an update ends: the old one, or a complete
\* list of published prices.
LEMMA UpdateSwaps ==
    ASSUME FetchInv, NEW r \in Regions, UpdateOnDemandPricing(r)
    PROVE  \/ UNCHANGED <<prices, updated>>
           \/ /\ up[r].acc \in FetchableLists(r)
              /\ \A s \in Steady(r) : up[r].acc[s] # NoPrice
              /\ prices' = [prices EXCEPT ![r] = up[r].acc]
              /\ updated' = [updated EXCEPT ![r] = TRUE]
  <1>0. up[r] \in UpStates /\ up[r].acc \in Lists /\ Collected(r, up[r])
    BY DEF FetchInv, FetchTypes, UpStates
  <1>1. CASE up[r].err \/ up[r].acc = Empty
    BY <1>1 DEF UpdateOnDemandPricing, EndUpdate
  <1>2. CASE ~(up[r].err \/ up[r].acc = Empty)
    <2>1. /\ up[r].at = "swap" /\ prices' = [prices EXCEPT ![r] = up[r].acc]
          /\ updated' = [updated EXCEPT ![r] = TRUE]
      BY <1>2 DEF UpdateOnDemandPricing, EndUpdate
    <2>2. \A s \in Steady(r) : up[r].acc[s] # NoPrice
      BY <1>0, <1>2, <2>1 DEF Collected
    <2>3. up[r].acc \in FetchableLists(r)
      BY <1>0, <1>2 DEF FetchableLists, Collected
    <2> QED BY <2>1, <2>2, <2>3
  <1> QED BY <1>1, <1>2

\* Every step preserves FetchInv.
LEMMA FetchStep ==
    FetchInv /\ [PricingNext]_pricingVars => FetchInv'
  <1> SUFFICES ASSUME FetchInv, [PricingNext]_pricingVars PROVE FetchInv'
    OBVIOUS
  <1>0. FetchTypes /\ NoPriceIsLost /\ \A r \in Regions : Collected(r, up[r])
    BY DEF FetchInv
  <1>1. ASSUME UNCHANGED <<prices, updated, offer>>, up' \in [Regions -> UpStates],
               \A r \in Regions : Collected(r, up'[r])
        PROVE  FetchInv'
    <2>1. FetchTypes'
      BY <1>0, <1>1 DEF FetchTypes
    <2>2. NoPriceIsLost'
      BY <1>0, <1>1 DEF NoPriceIsLost, InstanceTypes
    <2>3. \A r \in Regions : Collected(r, up[r])'
      BY <1>1 DEF Collected
    <2> QED BY <2>1, <2>2, <2>3 DEF FetchInv
  <1>2. CASE UNCHANGED <<prices, updated, offer, up>>
    BY <1>0, <1>1, <1>2 DEF FetchTypes
  <1>3. ASSUME NEW r \in Regions, FetchPage(r) PROVE FetchInv'
    <2>1. UNCHANGED <<prices, updated, offer>> /\ \A q \in Regions \ {r} : up'[q] = up[q]
      BY <1>0, <1>3 DEF FetchPage, FetchTypes
    <2> QED BY <1>0, <1>1, <1>3, <2>1, FetchPageCollects
  <1>4. ASSUME NEW r \in Regions, FetchFails(r) \/ Elected(r) \/ PeriodEnds(r) \/ Stopped(r)
        PROVE  FetchInv'
    <2>1. UNCHANGED <<prices, updated, offer>>
      BY <1>4 DEF FetchFails, Elected, PeriodEnds, Stopped
    <2> QED BY <1>0, <1>1, <1>4, <2>1, OtherUpdates
  <1>a. ASSUME NEW r \in Regions, NEW list \in Lists, NEW b \in BOOLEAN,
               prices' = [prices EXCEPT ![r] = list], updated' = [updated EXCEPT ![r] = b],
               b => \A s \in Steady(r) : list[s] # NoPrice
        PROVE  /\ prices' \in [Regions -> Lists] /\ updated' \in [Regions -> BOOLEAN]
               /\ NoPriceIsLost'
    <2>1. prices' \in [Regions -> Lists] /\ updated' \in [Regions -> BOOLEAN]
      BY <1>0, <1>a DEF FetchTypes
    <2>2. ASSUME NEW q \in Regions, updated'[q], NEW s \in Steady(q)
          PROVE  prices'[q][s] # NoPrice
      <3>1. CASE q = r
        BY <1>0, <1>a, <2>2, <3>1 DEF FetchTypes
      <3>2. CASE q # r
        BY <1>0, <1>a, <2>2, <3>2 DEF FetchTypes, NoPriceIsLost, InstanceTypes
      <3> QED BY <3>1, <3>2
    <2>3. NoPriceIsLost'
      BY <2>2 DEF NoPriceIsLost, InstanceTypes, Steady
    <2> QED BY <2>1, <2>3
  <1>5. ASSUME NEW r \in Regions, UpdateOnDemandPricing(r) PROVE FetchInv'
    <2>1. /\ offer' = offer /\ up' \in [Regions -> UpStates]
          /\ \A q \in Regions : Collected(q, up'[q])
      BY <1>0, <1>5, OtherUpdates DEF UpdateOnDemandPricing, EndUpdate
    <2>2. CASE UNCHANGED <<prices, updated>>
      BY <1>1, <2>1, <2>2
    <2>3. CASE /\ up[r].acc \in FetchableLists(r)
               /\ \A s \in Steady(r) : up[r].acc[s] # NoPrice
               /\ prices' = [prices EXCEPT ![r] = up[r].acc]
               /\ updated' = [updated EXCEPT ![r] = TRUE]
      <3>1. up[r].acc \in Lists
        BY <2>3 DEF FetchableLists
      <3>2. /\ prices' \in [Regions -> Lists] /\ updated' \in [Regions -> BOOLEAN]
            /\ NoPriceIsLost'
        BY <1>a, <2>3, <3>1
      <3>3. FetchTypes'
        BY <1>0, <2>1, <3>2 DEF FetchTypes
      <3>4. \A q \in Regions : Collected(q, up[q])'
        BY <2>1 DEF Collected
      <3> QED BY <3>2, <3>3, <3>4 DEF FetchInv
    <2> QED BY <1>5, <2>2, <2>3, UpdateSwaps
  <1>6. ASSUME NEW r \in Regions, Reset(r) PROVE FetchInv'
    <2>1. /\ prices' \in [Regions -> Lists] /\ updated' \in [Regions -> BOOLEAN]
          /\ NoPriceIsLost'
      BY <1>6, <1>a, StaticForm DEF Reset
    <2>2. FetchTypes'
      BY <1>0, <1>6, <2>1 DEF FetchTypes, Reset
    <2>3. \A q \in Regions : Collected(q, up[q])'
      BY <1>0, <1>6 DEF Collected, Reset
    <2> QED BY <2>1, <2>2, <2>3 DEF FetchInv
  <1>7. ASSUME NEW r \in Regions, Publish(r) PROVE FetchInv'
    <2>1. PICK c \in Catalogs[r] : offer' = [offer EXCEPT ![r] = c]
      BY <1>7 DEF Publish
    <2>2. FetchTypes'
      BY <1>0, <1>7, <2>1 DEF FetchTypes, Publish
    <2>3. NoPriceIsLost' /\ \A q \in Regions : Collected(q, up[q])'
      BY <1>0, <1>7 DEF NoPriceIsLost, InstanceTypes, Collected, Publish
    <2> QED BY <2>2, <2>3 DEF FetchInv
  <1>8. CASE BecomeLeader \/ Shutdown \/ Tick \/ UNCHANGED pricingVars
    BY <1>2, <1>8 DEF BecomeLeader, Shutdown, Tick, pricingVars
  <1> QED BY <1>3, <1>4, <1>5, <1>6, <1>7, <1>8 DEF PricingNext, Updater

\* FetchInv holds at the start.
LEMMA FetchStart == PricingInit => FetchInv
  <1> SUFFICES ASSUME PricingInit PROVE FetchInv
    OBVIOUS
  <1>1. Empty \in Lists
    BY DEF Empty, Lists
  <1>2. Fetch("initial") \in UpStates
    BY <1>1 DEF Fetch, UpStates
  <1>3. /\ Fetch("initial").acc = Empty /\ Fetch("initial").at = "fetching"
        /\ Fetch("initial").page = 1 /\ ~Fetch("initial").err
    BY DEF Fetch
  <1>4. \A r \in Regions : up[r] = Fetch("initial")
    BY DEF PricingInit
  <1>5. \A r \in Regions : Collected(r, up[r])
    BY <1>3, <1>4, EmptyIsCollected
  <1>6. up \in [Regions -> UpStates]
    BY <1>2 DEF PricingInit
  <1>7. prices \in [Regions -> Lists] /\ updated \in [Regions -> BOOLEAN] /\ NoPriceIsLost
    BY StaticForm DEF PricingInit, NoPriceIsLost
  <1>8. DOMAIN offer = Regions /\ \A r \in Regions : offer[r] \in Catalogs[r]
    BY DEF PricingInit
  <1> QED BY <1>5, <1>6, <1>7, <1>8 DEF FetchInv, FetchTypes

-----------------------------------------------------------------------------
(* What the provider promises. *)

\* An instance type that the API lists all the time, on one page, never loses its price
\* to an update, whenever catalogues change and fetches fail.
THEOREM SteadyPricesStay == PricingSpec => []NoPriceIsLost
  <1>1. FetchInv => NoPriceIsLost
    BY DEF FetchInv
  <1> QED BY <1>1, FetchStart, FetchStep, PTL DEF PricingSpec

\* Every step of the provider is a step of PriceBook or leaves the list alone.
LEMMA BookStep ==
    FetchInv /\ [PricingNext]_pricingVars => [Book!BookNext]_(Book!bookVars)
  <1> SUFFICES ASSUME FetchInv, [PricingNext]_pricingVars
               PROVE  Book!BookNext \/ UNCHANGED <<prices, updated>>
    BY DEF Book!bookVars
  <1>1. ASSUME NEW r \in Regions, UpdateOnDemandPricing(r)
        PROVE  Book!BookNext \/ UNCHANGED <<prices, updated>>
    BY <1>1, UpdateSwaps DEF Book!BookNext, Book!Replace
  <1>2. ASSUME NEW r \in Regions, Reset(r) PROVE Book!BookNext
    BY <1>2 DEF Reset, Book!BookNext, Book!SetBack
  <1>3. ASSUME NEW r \in Regions,
               \/ FetchPage(r) \/ FetchFails(r) \/ Elected(r) \/ PeriodEnds(r)
               \/ Stopped(r) \/ Publish(r)
        PROVE  UNCHANGED <<prices, updated>>
    BY <1>3 DEF FetchPage, FetchFails, Elected, PeriodEnds, Stopped, Publish
  <1>4. CASE BecomeLeader \/ Shutdown \/ Tick \/ UNCHANGED pricingVars
    BY <1>4 DEF BecomeLeader, Shutdown, Tick, pricingVars
  <1> QED BY <1>1, <1>2, <1>3, <1>4 DEF PricingNext, Updater

\* "In the event that a pricing update fails, the previous pricing information is
\* retained and used": the provider implements PriceBook.
THEOREM ProviderKeepsBook == PricingSpec => ImplementsPriceBook
  <1>1. PricingInit => Book!BookInit
    BY DEF PricingInit, Book!BookInit
  <1> QED BY <1>1, FetchStart, FetchStep, BookStep, PTL
      DEF PricingSpec, ImplementsPriceBook, Book!BookSpec

-----------------------------------------------------------------------------
(* The age of the last attempt. *)

\* While the goroutine waits for the election, its timer runs with the age of the last
\* attempt, until it is past Period.  It goes from there to the periodic wait at the
\* latest after Period, and fetches at once otherwise.
AgeInv ==
    /\ since \in [Regions -> 0..TooLong] /\ timer \in [Regions -> 0..(Period + 1)]
    /\ \A r \in Regions :
         /\ up[r].at = "elect" => since[r] <= timer[r] \/ timer[r] > Period
         /\ up[r].at = "wait" => timer[r] <= Period /\ since[r] <= Period + timer[r]

\* Every step preserves AgeInv.
LEMMA AgeStep ==
    FetchInv /\ AgeInv /\ [PricingNext]_pricingVars => AgeInv'
  <1> SUFFICES ASSUME FetchInv, AgeInv, [PricingNext]_pricingVars PROVE AgeInv'
    OBVIOUS
  <1>0. /\ up \in [Regions -> UpStates] /\ Period \in Nat /\ Period > 0
        /\ TooLong = 2 * Period + 1
    BY PeriodAssumption DEF FetchInv, FetchTypes, TooLong
  <1>t. \A r \in Regions : since[r] \in 0..TooLong /\ timer[r] \in 0..(Period + 1)
    BY DEF AgeInv
  <1>1. ASSUME NEW r \in Regions, NEW a, up'[r].at = a,
               since' \in [Regions -> 0..TooLong], timer' \in [Regions -> 0..(Period + 1)],
               \A q \in Regions \ {r} :
                   up'[q] = up[q] /\ since'[q] = since[q] /\ timer'[q] = timer[q],
               a = "elect" => since'[r] <= timer'[r],
               a = "wait" => timer'[r] <= Period /\ since'[r] <= Period + timer'[r]
        PROVE  AgeInv'
    BY <1>1 DEF AgeInv
  <1>2. ASSUME NEW r \in Regions, FetchPage(r) \/ FetchFails(r) \/ PeriodEnds(r) \/ Stopped(r)
        PROVE  AgeInv'
    <2>1. /\ up'[r].at \in {"fetching", "swap", "stopped"}
          /\ \A q \in Regions \ {r} : up'[q] = up[q]
      <3>0. up[r] \in UpStates
        BY <1>0
      <3>1. CASE FetchPage(r)
        BY <1>0, <3>0, <3>1 DEF FetchPage, UpStates
      <3>2. CASE FetchFails(r)
        BY <1>0, <3>0, <3>2 DEF FetchFails, UpStates
      <3>3. CASE PeriodEnds(r)
        BY <1>0, <3>3 DEF PeriodEnds, Fetch
      <3>4. CASE Stopped(r)
        BY <1>0, <3>0, <3>4 DEF Stopped, UpStates
      <3> QED BY <1>2, <3>1, <3>2, <3>3, <3>4
    <2>2. since' = since /\ timer' = timer
      BY <1>2 DEF FetchPage, FetchFails, PeriodEnds, Stopped
    <2>3. up'[r].at # "elect" /\ up'[r].at # "wait"
      BY <2>1
    <2> QED BY <1>1, <2>1, <2>2, <2>3 DEF AgeInv
  <1>3. ASSUME NEW r \in Regions, UpdateOnDemandPricing(r) PROVE AgeInv'
    <2>1. /\ up' = [up EXCEPT ![r] = AfterUpdate(up[r])]
          /\ since' = [since EXCEPT ![r] = 0] /\ timer' = [timer EXCEPT ![r] = 0]
      BY <1>3 DEF UpdateOnDemandPricing, EndUpdate
    <2>2. /\ since' \in [Regions -> 0..TooLong] /\ timer' \in [Regions -> 0..(Period + 1)]
          /\ since'[r] = 0 /\ timer'[r] = 0
          /\ \A q \in Regions \ {r} :
               up'[q] = up[q] /\ since'[q] = since[q] /\ timer'[q] = timer[q]
      BY <1>0, <2>1 DEF AgeInv
    <2> QED BY <1>0, <1>1, <2>2
  <1>4. ASSUME NEW r \in Regions, Elected(r) PROVE AgeInv'
    <2>1. /\ up[r].at = "elect" /\ since' = since /\ timer' = [timer EXCEPT ![r] = 0]
      BY <1>4 DEF Elected
    <2>2. /\ since' \in [Regions -> 0..TooLong] /\ timer' \in [Regions -> 0..(Period + 1)]
          /\ timer'[r] = 0 /\ since'[r] = since[r]
          /\ \A q \in Regions \ {r} :
               up'[q] = up[q] /\ since'[q] = since[q] /\ timer'[q] = timer[q]
      BY <1>0, <1>4, <2>1 DEF AgeInv, Elected
    <2>3. CASE timer[r] > Period
      <3>1. up'[r].at = "fetching"
        BY <1>0, <1>4, <2>3 DEF Elected, Fetch
      <3> QED BY <1>1, <2>2, <3>1
    <2>4. CASE ~(timer[r] > Period)
      <3>1. up'[r] = [up[r] EXCEPT !.at = "wait", !.stage = "periodic"]
        BY <1>0, <1>4, <2>4 DEF Elected
      <3>2. up'[r].at = "wait"
        BY <1>0, <3>1 DEF UpStates
      <3>3. since[r] <= Period
        BY <1>0, <1>t, <2>1, <2>4 DEF AgeInv
      <3> QED BY <1>0, <1>1, <2>2, <3>2, <3>3
    <2> QED BY <2>3, <2>4
  <1>5. CASE Tick
    <2>1. up' = up
      BY <1>5 DEF Tick
    <2>2. ASSUME NEW r \in Regions
          PROVE  /\ since'[r] = (IF since[r] < TooLong THEN since[r] + 1 ELSE TooLong)
                 /\ timer'[r] = (IF up[r].at \in {"elect", "wait"} /\ timer[r] <= Period
                                 THEN timer[r] + 1 ELSE timer[r])
                 /\ ~(up[r].at = "wait" /\ timer[r] = Period)
      BY <1>5 DEF Tick, Urgent
    <2>3. \A r \in Regions : since'[r] \in 0..TooLong /\ timer'[r] \in 0..(Period + 1)
      BY <1>0, <1>t, <2>2
    <2>4. since' \in [Regions -> 0..TooLong] /\ timer' \in [Regions -> 0..(Period + 1)]
      BY <1>5, <2>3 DEF Tick
    <2>5. ASSUME NEW r \in Regions, up[r].at = "elect"
          PROVE  since'[r] <= timer'[r] \/ timer'[r] > Period
      BY <1>0, <1>t, <2>2, <2>5 DEF AgeInv
    <2>6. ASSUME NEW r \in Regions, up[r].at = "wait"
          PROVE  timer'[r] <= Period /\ since'[r] <= Period + timer'[r]
      BY <1>0, <1>t, <2>2, <2>6 DEF AgeInv
    <2> QED BY <2>1, <2>4, <2>5, <2>6 DEF AgeInv
  <1>6. CASE \/ BecomeLeader \/ Shutdown \/ UNCHANGED pricingVars
             \/ \E r \in Regions : Reset(r) \/ Publish(r)
    <2>1. UNCHANGED <<up, since, timer>>
      BY <1>6 DEF BecomeLeader, Shutdown, pricingVars, Reset, Publish
    <2> QED BY <2>1 DEF AgeInv
  <1> QED BY <1>2, <1>3, <1>4, <1>5, <1>6 DEF PricingNext, Updater

\* A leader whose goroutine waits has tried at most two periods ago, however late it
\* was elected: updatePricing fetches again when the election took longer than a period.
THEOREM AttemptsAreRecent == PricingSpec => []AttemptsGoOn
  <1>1. PricingInit => AgeInv
    BY PeriodAssumption DEF PricingInit, AgeInv, TooLong, Fetch
  <1>2. AgeInv => AttemptsGoOn
    <2> SUFFICES ASSUME AgeInv, NEW r \in Regions, up[r].at = "wait"
                 PROVE  since[r] <= 2 * Period
      BY DEF AttemptsGoOn
    <2>1. /\ Period \in Nat /\ timer[r] \in Nat /\ since[r] \in Nat
          /\ timer[r] <= Period /\ since[r] <= Period + timer[r]
      BY PeriodAssumption DEF AgeInv
    <2> QED BY <2>1
  <1> QED BY <1>1, <1>2, FetchStart, FetchStep, AgeStep, PTL DEF PricingSpec

-----------------------------------------------------------------------------
(* The generator. *)

\* A provider of the generator fetches once: after its update it waits for an election
\* that never comes.
FetchesOnce ==
    \A r \in Regions :
        /\ up[r].stage = "initial"
        /\ updated[r] => up[r].at = "elect" /\ prices[r] \in FetchableLists(r)

\* The main goroutine copies the list of a provider that has been updated, price by
\* price: those of names are to come.
Copying ==
    LET r == Order[place] IN
    /\ place <= Len(Order) /\ poll[r] = "gone"
    /\ \A i \in 1..(place - 1) : Order[i] # r
    /\ names \subseteq InstanceTypes(r)
    /\ \A s \in Skus : section[r][s] = IF s \in names THEN NoPrice ELSE prices[r][s]

SectionsInv ==
    /\ poll \in [Regions -> {"polling", "sending", "gone"}]
    /\ section \in [Regions -> Lists]
    /\ place \in Nat \ {0} /\ place <= Len(Order) + 1 /\ writing \in BOOLEAN
    /\ \A r \in Regions : poll[r] # "polling" => updated[r]
    /\ \A r \in Regions : poll[r] # "gone" => section[r] = Empty
    /\ \A i \in 1..(place - 1) :
         poll[Order[i]] = "gone" /\ section[Order[i]] = prices[Order[i]]
    /\ writing => Copying

GeneratorInv == FetchInv /\ FetchesOnce /\ SectionsInv

\* The sections are in the order of a sequence of regions.
LEMMA OrderForm ==
    /\ Len(Order) \in Nat /\ DOMAIN Order = 1..Len(Order)
    /\ \A i \in 1..Len(Order) : Order[i] \in Regions
    /\ \A r \in Regions : \E i \in 1..Len(Order) : Order[i] = r
  <1>1. Len(Order) \in Nat /\ DOMAIN Order = 1..Len(Order) /\ Order \in [1..Len(Order) -> Regions]
    BY GeneratorAssumption
  <1>2. ASSUME NEW r \in Regions PROVE \E i \in 1..Len(Order) : Order[i] = r
    <2>1. r \in {Order[i] : i \in DOMAIN Order}
      BY GeneratorAssumption
    <2> QED BY <1>1, <2>1
  <1> QED BY <1>1, <1>2

\* What is copied is the section of a region whose goroutine has sent its provider.
LEMMA CopiesInOrder ==
    ASSUME place \in Nat \ {0}, Copying
    PROVE  Order[place] \in Regions /\ poll[Order[place]] = "gone"
  <1>1. place <= Len(Order) /\ poll[Order[place]] = "gone"
    BY DEF Copying
  <1>2. place \in 1..Len(Order)
    BY <1>1, OrderForm
  <1> QED BY <1>1, <1>2, OrderForm

\* Every step of the generator is a step of the providers or leaves them alone.
LEMMA GeneratorStep == [GeneratorNext]_allVars => [PricingNext]_pricingVars
  <1> SUFFICES ASSUME [GeneratorNext]_allVars PROVE PricingNext \/ UNCHANGED pricingVars
    OBVIOUS
  <1>1. ASSUME NEW r \in Regions, Provider(r) \/ ApiChanges(r) PROVE PricingNext
    BY <1>1 DEF Provider, ApiChanges, PricingNext, Updater
  <1>2. ASSUME NEW r \in Regions, Poll(r) \/ Receive(r) PROVE UNCHANGED pricingVars
    BY <1>2 DEF Poll, Receive
  <1>3. CASE CopyPrice \/ EndSection \/ WriteFile \/ ClockTicks \/ UNCHANGED allVars
    BY <1>3 DEF CopyPrice, EndSection, WriteFile, ClockTicks, allVars
  <1> QED BY <1>1, <1>2, <1>3 DEF GeneratorNext

\* The steps of a provider, and of the API: a list that has been updated stays as it is.
LEMMA ProviderStep ==
    ASSUME FetchInv, FetchesOnce, NEW r \in Regions, Provider(r) \/ ApiChanges(r)
    PROVE  /\ FetchesOnce' /\ UNCHANGED generatorVars
           /\ \A q \in Regions : updated[q] => updated'[q] /\ prices'[q] = prices[q]
  <1>0. /\ up \in [Regions -> UpStates] /\ up[r] \in UpStates
        /\ prices \in [Regions -> Lists] /\ updated \in [Regions -> BOOLEAN]
    BY DEF FetchInv, FetchTypes
  <1>1. UNCHANGED generatorVars
    BY DEF Provider, ApiChanges
  <1>2. CASE ApiChanges(r)
    <2>1. UNCHANGED <<up, prices, updated>>
      BY <1>2 DEF ApiChanges, Publish
    <2> QED BY <1>1, <2>1 DEF FetchesOnce
  <1>3. CASE FetchPage(r) \/ FetchFails(r)
    <2>1. UNCHANGED <<prices, updated>> /\ up[r].at = "fetching"
      BY <1>3 DEF FetchPage, FetchFails
    <2>2. up'[r].stage = up[r].stage /\ \A q \in Regions \ {r} : up'[q] = up[q]
      <3>1. CASE FetchPage(r)
        BY <1>0, <3>1 DEF FetchPage, UpStates
      <3>2. CASE FetchFails(r)
        BY <1>0, <3>2 DEF FetchFails, UpStates
      <3> QED BY <1>3, <3>1, <3>2
    <2>3. ~updated[r]
      BY <2>1 DEF FetchesOnce
    <2>4. FetchesOnce'
      BY <2>1, <2>2, <2>3 DEF FetchesOnce
    <2> QED BY <1>1, <2>1, <2>4
  <1>4. CASE UpdateOnDemandPricing(r)
    <2>1. up[r].at = "swap" /\ up' = [up EXCEPT ![r] = AfterUpdate(up[r])]
      BY <1>4 DEF UpdateOnDemandPricing, EndUpdate
    <2>2. ~updated[r] /\ up[r].stage = "initial"
      BY <2>1 DEF FetchesOnce
    <2>3. AfterUpdate(up[r]).at = "elect" /\ AfterUpdate(up[r]).stage = "initial"
      BY <2>2 DEF AfterUpdate
    <2>4. /\ up'[r].at = "elect" /\ up'[r].stage = "initial"
          /\ \A q \in Regions \ {r} : up'[q] = up[q]
      BY <1>0, <2>1, <2>3
    <2>5. /\ \A q \in Regions \ {r} : updated'[q] = updated[q] /\ prices'[q] = prices[q]
          /\ updated'[r] => prices'[r] \in FetchableLists(r)
      <3>1. CASE UNCHANGED <<prices, updated>>
        BY <2>2, <3>1
      <3>2. CASE /\ up[r].acc \in FetchableLists(r)
                 /\ prices' = [prices EXCEPT ![r] = up[r].acc]
                 /\ updated' = [updated EXCEPT ![r] = TRUE]
        BY <1>0, <3>2
      <3> QED BY <1>4, <3>1, <3>2, UpdateSwaps
    <2>6. FetchesOnce'
      BY <2>4, <2>5 DEF FetchesOnce
    <2> QED BY <1>1, <2>2, <2>5, <2>6
  <1> QED BY <1>2, <1>3, <1>4 DEF Provider

\* The lists that the sections are copied from do not change under the main goroutine.
LEMMA ListsStay ==
    ASSUME SectionsInv, UNCHANGED generatorVars,
           \A q \in Regions : updated[q] => updated'[q] /\ prices'[q] = prices[q]
    PROVE  SectionsInv'
  <1>0. /\ UNCHANGED <<poll, place, writing, names, section>>
        /\ place \in Nat \ {0} /\ place <= Len(Order) + 1 /\ writing \in BOOLEAN
    BY DEF generatorVars, SectionsInv
  <1>1. \A r \in Regions : poll[r] = "gone" => prices'[r] = prices[r]
    BY DEF SectionsInv
  <1>2. \A i \in 1..(place - 1) : i \in 1..Len(Order) /\ Order[i] \in Regions
    BY <1>0, OrderForm
  <1>3. \A i \in 1..(place - 1) :
          poll[Order[i]] = "gone" /\ section[Order[i]] = prices'[Order[i]]
    BY <1>1, <1>2 DEF SectionsInv
  <1>4. writing => Copying'
    <2> SUFFICES ASSUME writing PROVE Copying'
      OBVIOUS
    <2>0. Copying /\ place \in Nat \ {0}
      BY <1>0 DEF SectionsInv
    <2>1. Copying /\ Order[place] \in Regions
      BY <2>0, CopiesInOrder
    <2>2. prices'[Order[place]] = prices[Order[place]]
      BY <1>1, <2>1 DEF Copying
    <2> QED BY <1>0, <2>1, <2>2 DEF Copying, InstanceTypes
  <1>5. \A r \in Regions : poll[r] # "polling" => updated'[r]
    BY DEF SectionsInv
  <1> QED BY <1>0, <1>3, <1>4, <1>5 DEF SectionsInv

\* A polling goroutine sees an update, and nothing that is copied changes.
LEMMA PollStep ==
    ASSUME SectionsInv, NEW r \in Regions, Poll(r)
    PROVE  SectionsInv'
  <1>0. /\ UNCHANGED <<place, writing, names, section, prices, updated>> /\ poll[r] = "polling"
        /\ poll \in [Regions -> {"polling", "sending", "gone"}]
        /\ place \in Nat \ {0} /\ place <= Len(Order) + 1
    BY DEF Poll, pricingVars, SectionsInv
  <1>1. /\ poll' \in [Regions -> {"polling", "sending", "gone"}]
        /\ \A q \in Regions \ {r} : poll'[q] = poll[q]
        /\ poll'[r] # "gone" /\ (poll'[r] # "polling" => updated[r])
    BY <1>0 DEF Poll, OnDemandLastUpdatedAfterStart
  <1>2. \A q \in Regions : poll[q] = "gone" <=> poll'[q] = "gone"
    BY <1>0, <1>1
  <1>3. \A i \in 1..(place - 1) :
          poll'[Order[i]] = "gone" /\ section[Order[i]] = prices[Order[i]]
    <2>1. \A i \in 1..(place - 1) : i \in 1..Len(Order) /\ Order[i] \in Regions
      BY <1>0, OrderForm
    <2> QED BY <1>2, <2>1 DEF SectionsInv
  <1>4. writing => Copying'
    <2> SUFFICES ASSUME writing PROVE Copying'
      OBVIOUS
    <2>0. Copying /\ place \in Nat \ {0}
      BY <1>0 DEF SectionsInv
    <2>1. Copying /\ Order[place] \in Regions
      BY <2>0, CopiesInOrder
    <2> QED BY <1>0, <1>2, <2>1 DEF Copying, InstanceTypes
  <1> QED BY <1>0, <1>1, <1>2, <1>3, <1>4 DEF SectionsInv

\* Receiving a provider begins a section, which is still empty.
LEMMA ReceiveStep ==
    ASSUME SectionsInv, NEW r \in Regions, Receive(r)
    PROVE  SectionsInv'
  <1>0. /\ UNCHANGED <<place, section, prices, updated>> /\ writing' = TRUE
        /\ poll' = [poll EXCEPT ![r] = "gone"] /\ poll[r] = "sending" /\ Order[place] = r
        /\ names' = InstanceTypes(r) /\ place <= Len(Order)
        /\ poll \in [Regions -> {"polling", "sending", "gone"}]
        /\ place \in Nat \ {0} /\ place <= Len(Order) + 1
    BY DEF Receive, pricingVars, SectionsInv
  <1>1. /\ poll' \in [Regions -> {"polling", "sending", "gone"}]
        /\ \A q \in Regions \ {r} : poll'[q] = poll[q]
        /\ poll'[r] = "gone"
    BY <1>0
  <1>2. \A i \in 1..(place - 1) : i \in 1..Len(Order) /\ Order[i] \in Regions
    BY <1>0, OrderForm
  <1>3. \A i \in 1..(place - 1) :
          /\ Order[i] # r
          /\ poll'[Order[i]] = "gone" /\ section[Order[i]] = prices[Order[i]]
    BY <1>0, <1>1, <1>2 DEF SectionsInv
  <1>4. section[r] = Empty
    BY <1>0 DEF SectionsInv
  <1>5. \A s \in Skus : section[r][s] = IF s \in InstanceTypes(r) THEN NoPrice ELSE prices[r][s]
    BY <1>4 DEF Empty, InstanceTypes
  <1>6. Copying'
    BY <1>0, <1>1, <1>3, <1>5 DEF Copying, InstanceTypes
  <1>7. \A q \in Regions : /\ poll'[q] # "polling" => updated[q]
                           /\ poll'[q] # "gone" => section[q] = Empty
    BY <1>0, <1>1 DEF SectionsInv
  <1> QED BY <1>0, <1>1, <1>3, <1>6, <1>7 DEF SectionsInv

\* One more price of the section.
LEMMA CopyStep ==
    ASSUME FetchInv, SectionsInv, CopyPrice
    PROVE  SectionsInv'
  <1> DEFINE r == Order[place]
  <1>0. /\ UNCHANGED <<poll, place, writing, prices, updated>> /\ writing
        /\ place \in Nat \ {0} /\ place <= Len(Order) /\ Copying
    BY DEF CopyPrice, pricingVars, SectionsInv, Copying
  <1>1. PICK s \in names :
          /\ section' = [section EXCEPT ![r] = [section[r] EXCEPT ![s] = prices[r][s]]]
          /\ names' = names \ {s}
    BY DEF CopyPrice, OnDemandPrice
  <1>2. /\ r \in Regions /\ names \subseteq InstanceTypes(r) /\ s \in Skus /\ poll[r] = "gone"
        /\ \A i \in 1..(place - 1) : Order[i] # r /\ Order[i] \in Regions
    BY <1>0, OrderForm DEF Copying, InstanceTypes
  <1> HIDE DEF r
  <1>3. section \in [Regions -> Lists] /\ prices[r] \in Lists
    BY <1>2 DEF SectionsInv, FetchInv, FetchTypes
  <1>4. /\ section'[r] = [section[r] EXCEPT ![s] = prices[r][s]]
        /\ \A q \in Regions \ {r} : section'[q] = section[q]
    BY <1>1, <1>2, <1>3
  <1>5. section'[r] \in Lists
    BY <1>2, <1>3, <1>4 DEF Lists
  <1>6. section' \in [Regions -> Lists]
    BY <1>1, <1>2, <1>3, <1>4, <1>5
  <1>7. \A t \in Skus : section'[r][t] = IF t \in names' THEN NoPrice ELSE prices[r][t]
    <2> SUFFICES ASSUME NEW t \in Skus
                 PROVE  section'[r][t] = IF t \in names' THEN NoPrice ELSE prices[r][t]
      OBVIOUS
    <2>1. section[r][t] = IF t \in names THEN NoPrice ELSE prices[r][t]
      BY <1>0 DEF Copying, r
    <2>2. section'[r][t] = IF t = s THEN prices[r][s] ELSE section[r][t]
      BY <1>2, <1>3, <1>4 DEF Lists
    <2> QED BY <1>1, <2>1, <2>2
  <1>8. Copying'
    <2>1. names' \subseteq InstanceTypes(r)
      BY <1>1, <1>2
    <2> QED BY <1>0, <1>2, <1>7, <2>1 DEF Copying, InstanceTypes, r
  <1>9. \A i \in 1..(place - 1) :
          poll[Order[i]] = "gone" /\ section'[Order[i]] = prices[Order[i]]
    BY <1>2, <1>4 DEF SectionsInv
  <1>10. \A q \in Regions : /\ poll[q] # "polling" => updated[q]
                            /\ poll[q] # "gone" => section'[q] = Empty
    BY <1>2, <1>4 DEF SectionsInv
  <1> QED BY <1>0, <1>6, <1>8, <1>9, <1>10 DEF SectionsInv

\* A section that ends is the whole list.
LEMMA EndSectionStep ==
    ASSUME FetchInv, SectionsInv, EndSection
    PROVE  SectionsInv'
  <1> DEFINE r == Order[place]
  <1>0. /\ UNCHANGED <<poll, names, section, prices, updated>> /\ writing /\ names = {}
        /\ place' = place + 1 /\ writing' = FALSE
        /\ place \in Nat \ {0} /\ place <= Len(Order) /\ Copying
    BY DEF EndSection, pricingVars, SectionsInv, Copying
  <1>1. r \in Regions /\ poll[r] = "gone"
    BY <1>0, CopiesInOrder
  <1>2. section[r] \in Lists /\ prices[r] \in Lists
    BY <1>1 DEF SectionsInv, FetchInv, FetchTypes
  <1>3. \A s \in Skus : section[r][s] = prices[r][s]
    BY <1>0 DEF Copying
  <1>4. section[r] = prices[r]
    BY <1>2, <1>3 DEF Lists
  <1>5. \A i \in 1..(place' - 1) : i \in 1..(place - 1) \/ i = place
    BY <1>0
  <1>6. \A i \in 1..(place' - 1) :
          poll[Order[i]] = "gone" /\ section[Order[i]] = prices[Order[i]]
    BY <1>1, <1>4, <1>5 DEF SectionsInv
  <1>7. place' \in Nat \ {0} /\ place' <= Len(Order) + 1
    BY <1>0, OrderForm
  <1> QED BY <1>0, <1>6, <1>7 DEF SectionsInv

\* The inductive invariant of the generator.
LEMMA GeneratorKeeps == GeneratorInv /\ [GeneratorNext]_allVars => GeneratorInv'
  <1> SUFFICES ASSUME GeneratorInv, [GeneratorNext]_allVars PROVE GeneratorInv'
    OBVIOUS
  <1>0. FetchInv /\ FetchesOnce /\ SectionsInv /\ FetchInv'
    BY FetchStep, GeneratorStep DEF GeneratorInv
  <1>1. ASSUME UNCHANGED pricingVars PROVE FetchesOnce'
    BY <1>0, <1>1 DEF pricingVars, FetchesOnce
  <1>2. ASSUME NEW r \in Regions, Provider(r) \/ ApiChanges(r)
        PROVE  FetchesOnce' /\ SectionsInv'
    BY <1>0, <1>2, ProviderStep, ListsStay
  <1>3. ASSUME NEW r \in Regions, Poll(r) PROVE FetchesOnce' /\ SectionsInv'
    BY <1>0, <1>1, <1>3, PollStep DEF Poll
  <1>4. ASSUME NEW r \in Regions, Receive(r) PROVE FetchesOnce' /\ SectionsInv'
    BY <1>0, <1>1, <1>4, ReceiveStep DEF Receive
  <1>5. CASE CopyPrice
    BY <1>0, <1>1, <1>5, CopyStep DEF CopyPrice, GeneratorInv
  <1>6. CASE EndSection
    BY <1>0, <1>1, <1>6, EndSectionStep DEF EndSection, GeneratorInv
  <1>7. CASE WriteFile \/ ClockTicks \/ UNCHANGED allVars
    <2>1. UNCHANGED <<pricingVars, poll, place, writing, names, section>>
      BY <1>7 DEF WriteFile, ClockTicks, allVars, generatorVars
    <2>2. SectionsInv'
      BY <1>0, <2>1 DEF SectionsInv, Copying, InstanceTypes, pricingVars
    <2> QED BY <1>0, <1>1, <2>1, <2>2 DEF GeneratorInv
  <1> QED BY <1>0, <1>2, <1>3, <1>4, <1>5, <1>6, <1>7 DEF GeneratorNext, GeneratorInv

\* The file is written after the last section.
WrittenLast == outcome = "written" => place > Len(Order)

\* Nothing moves once the file is written.
LEMMA WrittenStep == WrittenLast /\ [GeneratorNext]_allVars => WrittenLast'
  <1> SUFFICES ASSUME WrittenLast, [GeneratorNext]_allVars PROVE WrittenLast'
    OBVIOUS
  <1>1. ASSUME NEW r \in Regions, Poll(r) \/ Receive(r) \/ Provider(r) \/ ApiChanges(r)
        PROVE  WrittenLast'
    BY <1>1 DEF Poll, Receive, Provider, ApiChanges, generatorVars, WrittenLast
  <1>2. CASE CopyPrice \/ EndSection \/ ClockTicks
    BY <1>2 DEF CopyPrice, EndSection, ClockTicks, WrittenLast
  <1>3. CASE WriteFile
    BY <1>3 DEF WriteFile, WrittenLast
  <1>4. CASE UNCHANGED allVars
    BY <1>4 DEF allVars, generatorVars, WrittenLast
  <1> QED BY <1>1, <1>2, <1>3, <1>4 DEF GeneratorNext

\* The invariants hold when the generator starts.
LEMMA GeneratorStart == GeneratorInit => GeneratorInv /\ WrittenLast
  <1> SUFFICES ASSUME GeneratorInit PROVE GeneratorInv /\ WrittenLast
    OBVIOUS
  <1>1. FetchInv
    BY FetchStart DEF GeneratorInit
  <1>2. FetchesOnce
    BY DEF GeneratorInit, PricingInit, Fetch, FetchesOnce
  <1>3. Empty \in Lists
    BY DEF Empty, Lists
  <1>4. 1..(place - 1) = {} /\ place \in Nat \ {0} /\ place <= Len(Order) + 1
    BY OrderForm DEF GeneratorInit
  <1>5. SectionsInv
    BY <1>3, <1>4 DEF GeneratorInit, SectionsInv
  <1>6. WrittenLast
    BY DEF GeneratorInit, WrittenLast
  <1> QED BY <1>1, <1>2, <1>5, <1>6 DEF GeneratorInv

\* The file that the generator writes has, for every region, the list of one complete
\* fetch that was made after the start, however the API changes and whichever provider
\* is ready first (generatePricing waits for every provider, and writePricing
\* copies a list that no update replaces any more).
THEOREM WrittenFileIsFresh == GeneratorSpec => []FileIsFresh
  <1>1. GeneratorInv /\ WrittenLast => FileIsFresh
    <2> SUFFICES ASSUME GeneratorInv, WrittenLast, outcome = "written", NEW r \in Regions
                 PROVE  section[r] = prices[r] /\ section[r] \in FetchableLists(r)
      BY DEF FileIsFresh
    <2>1. PICK i \in 1..Len(Order) : Order[i] = r
      BY OrderForm
    <2>2. i \in 1..(place - 1)
      BY OrderForm DEF GeneratorInv, SectionsInv, WrittenLast
    <2>3. poll[r] = "gone" /\ section[r] = prices[r]
      BY <2>1, <2>2 DEF GeneratorInv, SectionsInv
    <2>4. updated[r]
      BY <2>3 DEF GeneratorInv, SectionsInv
    <2> QED BY <2>3, <2>4 DEF GeneratorInv, FetchesOnce
  <1> QED BY <1>1, GeneratorStart, GeneratorKeeps, WrittenStep, PTL DEF GeneratorSpec

\* The generator runs the provider as it is, only with fewer of its steps, so that
\* whatever holds of the provider holds of each of the generator's.
THEOREM GeneratorRunsProviders == GeneratorSpec => PricingSpec
  <1>1. GeneratorInit => PricingInit
    BY DEF GeneratorInit
  <1> QED BY <1>1, GeneratorStep, PTL DEF GeneratorSpec, PricingSpec
=============================================================================
