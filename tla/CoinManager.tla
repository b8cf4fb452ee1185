---------------------------- MODULE CoinManager ----------------------------
(***************************************************************************)
(* Money in the machine (src/client/core/coin_manager.py).                 *)
(*                                                                         *)
(* A "bag of coins" is a function from VALID_UNITS to the number of pieces *)
(* of that unit.  The slot[] array of a CoinSlot, the _coins dictionary of *)
(* the ChangeReserve and a ChangeStack are all such bags: a ChangeStack    *)
(* only ever holds one (unit, count) pair per unit, and the order of its   *)
(* pairs matters to the display alone.                                     *)
(***************************************************************************)
EXTENDS Integers

CONSTANTS
  MAX_BILL_TOTAL,   \* limit on the 1000-won notes in the slot, in won
  MAX_TOTAL,        \* limit on all the money in the slot, in won
  INITIAL,          \* coins of each change unit a new reserve holds
  MIN_RESERVE       \* coins of each change unit a collection leaves behind

ASSUME LimitsAreNaturals ==
  /\ MAX_BILL_TOTAL \in Nat
  /\ MAX_TOTAL \in Nat
  /\ INITIAL \in Nat
  /\ MIN_RESERVE \in Nat

VALID_UNITS    == {10, 50, 100, 500, 1000}
RESERVE_DENOMS == {10, 50, 100, 500}

Coins   == [VALID_UNITS -> Nat]
NoCoins == [u \in VALID_UNITS |-> 0]

\* The worth of a bag of coins (total_amount).
Value(c) == 10*c[10] + 50*c[50] + 100*c[100] + 500*c[500] + 1000*c[1000]

Plus(c, d)  == [u \in VALID_UNITS |-> c[u] + d[u]]
Minus(c, d) == [u \in VALID_UNITS |-> c[u] - d[u]]

\* Every piece of d is in c.
Covers(c, d) == \A u \in VALID_UNITS : d[u] <= c[u]

-----------------------------------------------------------------------------
(* The coin slot of one customer. *)

CoinSlot == [slot : Coins, total : Nat, bill_total : Nat]

init_coin == [slot |-> NoCoins, total |-> 0, bill_total |-> 0]

\* A bug: the limit on notes is checked before the note is counted.
AcceptsLateBillLimit(coin, amount) ==
  /\ amount \in VALID_UNITS
  /\ amount = 1000 => coin.bill_total <= MAX_BILL_TOTAL
  /\ coin.total + amount <= MAX_TOTAL

\* insert_coin returns OK: neither INVALID_UNIT, BILL_LIMIT nor TOTAL_LIMIT.
Accepts(coin, amount) ==
  /\ amount \in VALID_UNITS
  /\ amount = 1000 => coin.bill_total + 1000 <= MAX_BILL_TOTAL
  /\ coin.total + amount <= MAX_TOTAL

\* The slot insert_coin leaves: a refused coin changes nothing.
Inserted(coin, amount) ==
  IF Accepts(coin, amount)
  THEN [slot       |-> [coin.slot EXCEPT ![amount] = @ + 1],
        total      |-> coin.total + amount,
        bill_total |-> coin.bill_total + (IF amount = 1000 THEN 1000 ELSE 0)]
  ELSE coin

-----------------------------------------------------------------------------
(* The change reserve. *)

InitialReserve ==
  [u \in VALID_UNITS |-> IF u \in RESERVE_DENOMS THEN INITIAL ELSE 0]

\* Pieces of one unit the greedy loop takes: have of them are there and
\* remain is still to be paid.
Take(have, unit, remain) ==
  IF remain \div unit <= have THEN remain \div unit ELSE have

\* A bug: the loop goes from the smallest unit to the largest.
GreedySmallFirst(c, amount) ==
  LET k10  == Take(c[10], 10, amount)
      r1   == amount - 10 * k10
      k50  == Take(c[50], 50, r1)
      r2   == r1 - 50 * k50
      k100 == Take(c[100], 100, r2)
      r3   == r2 - 100 * k100
  IN  [u \in VALID_UNITS |->
         CASE u = 500 -> Take(c[500], 500, r3)
           [] u = 100 -> k100
           [] u = 50  -> k50
           [] u = 10  -> k10
           [] OTHER   -> 0]

\* The coins the loop over RESERVE_DENOMS (500, 100, 50, 10) picks from c.
Greedy(c, amount) ==
  LET k500 == Take(c[500], 500, amount)
      r1   == amount - 500 * k500
      k100 == Take(c[100], 100, r1)
      r2   == r1 - 100 * k100
      k50  == Take(c[50], 50, r2)
      r3   == r2 - 50 * k50
  IN  [u \in VALID_UNITS |->
         CASE u = 500 -> k500
           [] u = 100 -> k100
           [] u = 50  -> k50
           [] u = 10  -> Take(c[10], 10, r3)
           [] OTHER   -> 0]

can_make_change(c, amount) == amount - Value(Greedy(c, amount)) = 0

\* What give_change pays out.  It returns None, and takes nothing from the
\* reserve, when the change cannot be made.
give_change(c, amount) ==
  IF can_make_change(c, amount) THEN Greedy(c, amount) ELSE NoCoins

\* A bug: the notes the customer paid with are not added.
accept_coins_no_notes(c, slot) ==
  [u \in VALID_UNITS |-> IF u = 1000 THEN c[u] ELSE c[u] + slot[u]]

\* The reserve after the coins of a slot are added to it.
accept_coins(c, slot) == Plus(c, slot)

\* What collect takes: all above MIN_RESERVE of a change unit, all notes.
Surplus(c) ==
  [u \in VALID_UNITS |->
     IF u \notin RESERVE_DENOMS THEN c[u]
     ELSE IF c[u] > MIN_RESERVE THEN c[u] - MIN_RESERVE ELSE 0]

-----------------------------------------------------------------------------
(* What change-making promises, without an algorithm: amount can be paid   *)
(* when some choice of the reserve's coins, notes excluded, is worth it.   *)
(* Payable100(c, r), for instance, says it of the units up to 100.         *)

Payable10(c, r)  == \E n \in 0..c[10]  : 10*n = r
Payable50(c, r)  == \E n \in 0..c[50]  : Payable10(c, r - 50*n)
Payable100(c, r) == \E n \in 0..c[100] : Payable50(c, r - 100*n)
Payable(c, r)    == \E n \in 0..c[500] : Payable100(c, r - 500*n)

=============================================================================
