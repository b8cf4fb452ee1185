------------------------------ MODULE SaleFeed ------------------------------
(***************************************************************************)
(* What a machine promises about the sales it reports to its server: each  *)
(* sale is confirmed at most once, and sales are confirmed in the order in *)
(* which they were made.  ClientLink implements it.                        *)
(***************************************************************************)
EXTENDS Naturals, Sequences

VARIABLES made,       \* number of sales made
          confirmed   \* the confirmed sales, in the order of confirmation

vars == <<made, confirmed>>

Init == made = 0 /\ confirmed = << >>

Make == made' = made + 1 /\ UNCHANGED confirmed

Confirm ==
  /\ Len(confirmed) < made
  /\ confirmed' = Append(confirmed, Len(confirmed) + 1)
  /\ UNCHANGED made

Next == Make \/ Confirm

Spec == Init /\ [][Next]_vars

=============================================================================
