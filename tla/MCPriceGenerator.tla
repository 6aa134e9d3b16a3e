------------------------- MODULE MCPriceGenerator ---------------------------
(* An instance of PriceGenerator with two regions. *)
EXTENDS PriceGenerator

Item(s, k, n) == [sku |-> s, kind |-> k, price |-> n]

\* The API has nothing to say of region new for a while, and changes the prices of
\* eastus, where there is a second page.
MCCatalogs ==
    [r \in {"eastus", "new"} |->
       IF r = "eastus"
       THEN {<< <<Item("a", "regular", 2)>>, <<Item("b", "regular", 2)>> >>,
             << <<Item("a", "regular", 1)>>, <<Item("b", "regular", 1)>> >>}
       ELSE {<< <<>> >>, << <<Item("b", "regular", 2), Item("a", "spot", 1)>> >>}]

MCOrder == <<"eastus", "new">>

MCInitialPrices == [r \in {"eastus"} |-> [s \in {"a", "b"} |-> 3]]
=============================================================================
