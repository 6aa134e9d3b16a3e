----------------------------- MODULE MCPricing ------------------------------
(* An instance of Pricing with two instance types and one region. *)
EXTENDS Pricing

Item(s, k, n) == [sku |-> s, kind |-> k, price |-> n]

\* Type a keeps its place on the second page, type b comes and goes, and one of the
\* catalogues has a third page.
MCCatalogs ==
    [r \in Regions |->
       {<< <<Item("b", "regular", 2), Item("b", "spot", 1)>>, <<Item("a", "regular", 2)>> >>,
        << <<Item("b", "windows", 1)>>, <<Item("a", "regular", 1), Item("a", "regular", 2)>>, <<>> >>}]

MCInitialPrices == [r \in {"eastus"} |-> [s \in {"a", "b"} |-> IF s = "a" THEN 1 ELSE 0]]
=============================================================================
