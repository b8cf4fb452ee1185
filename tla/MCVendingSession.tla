-------------------------- MODULE MCVendingSession --------------------------
(* TLC instance of VendingSession: two drinks, one of them at a price that  *)
(* needs 50-won change, and a reserve small enough to run out of change.    *)
EXTENDS VendingSession

CONSTANTS d1, d2

MCDrinks       == {d1, d2}
MCDefaultPrice == [d \in MCDrinks |-> IF d = d1 THEN 450 ELSE 700]
MCPrices       == {755}
MCUnits        == {500, 1000}
=============================================================================
