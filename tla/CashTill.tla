------------------------------ MODULE CashTill ------------------------------
(***************************************************************************)
(* What a customer and the operator may rely on about money, whatever the  *)
(* coins: the till keeps exactly the price of what it sells, gives back    *)
(* the rest, gives back everything on a refund, and loses money to nobody  *)
(* but the operator who collects it.  VendingSession implements it.        *)
(***************************************************************************)
EXTENDS Integers

CONSTANTS MAX_TOTAL,    \* limit on the money one customer may insert
          StartCash     \* worth of the coins the machine starts with

VARIABLES box,          \* worth of the money the machine keeps
          inserted,     \* worth of the money of the current customer
          paid          \* worth of the last payout

vars == <<box, inserted, paid>>

Init == box = StartCash /\ inserted = 0 /\ paid = 0

Insert ==
  /\ inserted' > inserted /\ inserted' <= MAX_TOTAL
  /\ UNCHANGED <<box, paid>>

Sell ==
  /\ box' > box
  /\ paid' >= 0
  /\ box' + paid' = box + inserted
  /\ inserted' = 0

Refund ==
  /\ inserted > 0
  /\ paid' = inserted
  /\ inserted' = 0
  /\ UNCHANGED box

Collect ==
  /\ 0 <= box' /\ box' <= box
  /\ UNCHANGED <<inserted, paid>>

Next == Insert \/ Sell \/ Refund \/ Collect

Spec == Init /\ [][Next]_vars

=============================================================================
