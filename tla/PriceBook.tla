----------------------------- MODULE PriceBook ------------------------------
(***************************************************************************)
(* What the pricing provider promises to its readers: a list of prices per *)
(* region that is there from the start, is never empty, and is only ever   *)
(* replaced as a whole, by a list that was fetched for that region, or set *)
(* back to the one that was compiled in.                                   *)
(***************************************************************************)
CONSTANTS
    Regions,        \* regions for which there is a provider
    Compiled(_),    \* the list that was compiled in for a region
    Fetchable(_)    \* the lists that a complete fetch for a region may give

VARIABLES
    book,           \* the list of each region
    fetched         \* regions whose list has been fetched

bookVars == <<book, fetched>>

BookInit ==
    /\ book = [r \in Regions |-> Compiled(r)]
    /\ fetched = [r \in Regions |-> FALSE]

Replace(r) ==
    /\ \E list \in Fetchable(r) : book' = [book EXCEPT ![r] = list]
    /\ fetched' = [fetched EXCEPT ![r] = TRUE]

SetBack(r) ==
    /\ book' = [book EXCEPT ![r] = Compiled(r)]
    /\ fetched' = [fetched EXCEPT ![r] = FALSE]

BookNext == \E r \in Regions : Replace(r) \/ SetBack(r)

BookSpec == BookInit /\ [][BookNext]_bookVars
=============================================================================
