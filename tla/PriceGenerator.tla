--------------------------- MODULE PriceGenerator ---------------------------
(***************************************************************************)
(* The program that generates the compiled-in prices.  It starts a         *)
(* provider for every region, none of which is ever elected, and for each  *)
(* a goroutine that polls the provider until its prices have been updated  *)
(* and hands it over an unbuffered channel.  The main goroutine takes the  *)
(* providers one by one, copies their prices, and writes the file.  A      *)
(* region without an update by the deadline ends the program.              *)
(***************************************************************************)
EXTENDS Pricing

CONSTANTS
    Order,      \* regions, in the order of the sections
    LogEvery,   \* a poll with this number of attempts only logs (10)
    Deadline    \* five minutes, in rounds of polling

ASSUME GeneratorAssumption == /\ Order \in Seq(Regions)
                              /\ {Order[i] : i \in DOMAIN Order} = Regions
                              /\ LogEvery \in Nat \ {0, 1} /\ Deadline \in Nat

VARIABLES
    poll,       \* the polling goroutines: are they waiting, sending or gone?
    attempts,   \* their numbers of attempts, modulo LogEvery, and 0 only at first
    clock,      \* rounds since updateStarted, up to Deadline
    place,      \* place in Order of the region that the main goroutine is at
    writing,    \* has it received the provider of that region?
    names,      \* if so, the instance types that are left
    section,    \* what has been copied
    outcome     \* "running", "written", or "fatal"

generatorVars == <<poll, attempts, clock, place, writing, names, section, outcome>>
allVars       == <<pricingVars, generatorVars>>

GeneratorInit ==
    /\ PricingInit
    /\ poll = [r \in Regions |-> "polling"]
    /\ attempts = [r \in Regions |-> 0]
    /\ clock = 0
    /\ place = 1
    /\ writing = FALSE /\ names = {}
    /\ section = [r \in Regions |-> Empty]
    /\ outcome = "running"

\* Variant: the log line of the first attempt comes again and again.
OnlyLogsAlways(a) == TRUE

\* These polls do not look at the deadline.
OnlyLogs(a) == a = 0 \/ a = LogEvery

NextAttempt(a) == IF a = LogEvery THEN 1 ELSE a + 1

\* Variant: a poll ends when there are prices, compiled in or not.
PollAnyPrices(r) ==
    /\ outcome = "running" /\ poll[r] = "polling"
    /\ poll' = [poll EXCEPT ![r] = "sending"]
    /\ UNCHANGED <<pricingVars, attempts, clock, place, writing, names, section, outcome>>

\* One turn of the polling loop with its sleep.
Poll(r) ==
    /\ outcome = "running" /\ poll[r] = "polling"
    /\ IF OnDemandLastUpdatedAfterStart(r)
       THEN poll' = [poll EXCEPT ![r] = "sending"] /\ UNCHANGED <<attempts, outcome>>
       ELSE /\ attempts' = [attempts EXCEPT ![r] = NextAttempt(@)]
            /\ outcome' = IF ~OnlyLogs(attempts[r]) /\ clock >= Deadline THEN "fatal"
                          ELSE "running"
            /\ UNCHANGED poll
    /\ UNCHANGED <<pricingVars, clock, place, writing, names, section>>

\* The main goroutine receives the provider of the next region and asks it for its
\* instance types.
Receive(r) ==
    /\ outcome = "running" /\ ~writing
    /\ place <= Len(Order) /\ Order[place] = r /\ poll[r] = "sending"
    /\ poll' = [poll EXCEPT ![r] = "gone"]
    /\ writing' = TRUE /\ names' = InstanceTypes(r)
    /\ UNCHANGED <<pricingVars, attempts, clock, place, section, outcome>>

\* writePricing asks for one price after the other and skips a missing one.
CopyPrice ==
    /\ outcome = "running" /\ writing
    /\ \E s \in names :
         /\ section' = [section EXCEPT ![Order[place]][s] = OnDemandPrice(Order[place], s)]
         /\ names' = names \ {s}
    /\ UNCHANGED <<pricingVars, poll, attempts, clock, place, writing, outcome>>

EndSection ==
    /\ outcome = "running" /\ writing /\ names = {}
    /\ place' = place + 1
    /\ writing' = FALSE
    /\ UNCHANGED <<pricingVars, poll, attempts, clock, names, section, outcome>>

WriteFile ==
    /\ outcome = "running" /\ place > Len(Order)
    /\ outcome' = "written"
    /\ UNCHANGED <<pricingVars, poll, attempts, clock, place, writing, names, section>>

\* The providers.  None is elected, and the context is never cancelled.
Provider(r) ==
    /\ outcome = "running"
    /\ FetchPage(r) \/ FetchFails(r) \/ UpdateOnDemandPricing(r)
    /\ UNCHANGED generatorVars

ApiChanges(r) ==
    /\ outcome = "running" /\ Publish(r)
    /\ UNCHANGED generatorVars

ClockTicks ==
    /\ outcome = "running" /\ clock < Deadline
    /\ clock' = clock + 1
    /\ UNCHANGED <<pricingVars, poll, attempts, place, writing, names, section, outcome>>

GeneratorNext ==
    \/ \E r \in Regions : Poll(r) \/ Receive(r) \/ Provider(r) \/ ApiChanges(r)
    \/ CopyPrice \/ EndSection \/ WriteFile \/ ClockTicks

GeneratorSpec == GeneratorInit /\ [][GeneratorNext]_allVars

\* Goroutines are scheduled and time passes.  Of the API nothing is assumed: a GET
\* without a timeout may hang for ever.
GeneratorFairSpec ==
    /\ GeneratorSpec
    /\ WF_allVars(ClockTicks) /\ WF_allVars(CopyPrice \/ EndSection \/ WriteFile)
    /\ \A r \in Regions : WF_allVars(Poll(r)) /\ WF_allVars(Receive(r))

-----------------------------------------------------------------------------
(* What must hold. *)

\* The file has, for every region, the list of one complete fetch that was made
\* after the program had started: never the old compiled-in prices, and never a
\* section of two updates.
FileIsFresh ==
    outcome = "written" =>
        \A r \in Regions : section[r] = prices[r] /\ section[r] \in FetchableLists(r)

\* The program ends, with or without a file, even if a request to the API hangs:
\* polls beyond the first and outside the rhythm of the log see the deadline.
GeneratorEnds == <>(outcome # "running")
=============================================================================
