-------------------------- MODULE MCSalesTerminal ---------------------------
(* TLC instances of SalesTerminal: two drinks, one of which needs change,   *)
(* and a reserve with a single coin of each unit.                           *)
EXTENDS SalesTerminal

CONSTANTS d1, d2

MCDrinks       == {d1, d2}
MCDefaultPrice == [d \in MCDrinks |-> IF d = d1 THEN 450 ELSE 500]
MCPrices       == {550}
MCUnits        == {500}
=============================================================================
