--------------------------- MODULE MCAdminOffice ----------------------------
(* TLC instance of AdminOffice.                                             *)
EXTENDS SalesReport, TLC

CONSTANTS a1, a2, d1, d2, n1, n2, vm2

MCDefaultMenu ==
  (d1 :> [name |-> n1, price |-> 450]) @@ (d2 :> [name |-> n2, price |-> 450])

\* The last day of a month and the first of the next.
MCDates == {20260131, 20260201}

\* The drinks cost the same at first, so they may be exchanged, with their names.
OfficeSymmetry ==
  Permutations({a1, a2}) \cup
    {(d1 :> d2) @@ (d2 :> d1) @@ (n1 :> n2) @@ (n2 :> n1)}

Nothing == [act \in Acts |-> 0]

\* What is tried together: names and prices, stock, collections, the report, and
\* some of everything.
MCBudgets == {
  [Nothing EXCEPT !["reprice"] = 1, !["rename"] = 1, !["cut"] = 1],
  [Nothing EXCEPT !["reprice"] = 2, !["cut"] = 1],
  [Nothing EXCEPT !["password"] = 2, !["cut"] = 1],
  [Nothing EXCEPT !["restock"] = 3, !["sale"] = 1, !["cut"] = 1],
  [Nothing EXCEPT !["restock"] = 1, !["sale"] = 2, !["restart"] = 1, !["elsewhere"] = 1],
  [Nothing EXCEPT !["query"] = 2, !["collect"] = 2, !["sale"] = 1],
  [Nothing EXCEPT !["query"] = 1, !["collect"] = 1, !["sale"] = 2, !["midnight"] = 1],
  [Nothing EXCEPT !["query"] = 1, !["collect"] = 1, !["sale"] = 1, !["elsewhere"] = 1],
  [Nothing EXCEPT !["sale"] = 2, !["rename"] = 1, !["restart"] = 1, !["midnight"] = 1],
  [Nothing EXCEPT !["restock"] = 1, !["reprice"] = 1, !["query"] = 1, !["collect"] = 1,
                  !["sale"] = 1, !["restart"] = 1]}

=============================================================================
