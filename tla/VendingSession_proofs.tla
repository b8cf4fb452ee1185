------------------------ MODULE VendingSession_proofs ------------------------
(***************************************************************************)
(* The greedy loop of the change reserve finds change whenever change      *)
(* exists, and more coins never make it fail.                              *)
(*                                                                         *)
(* VendingSession keeps its types, its slot sound, its refusals justified  *)
(* and its exhaustion log complete, and implements CashTill, for every     *)
(* value of the constants.                                                 *)
(***************************************************************************)
EXTENDS VendingSession, TLAPS

-----------------------------------------------------------------------------
(* The reserve and the slot. *)

(***************************************************************************)
(* Every unit divides the next one, so a payout by the smaller units of a  *)
(* remainder that is large enough contains pieces worth whole multiples of *)
(* the next unit, which can be left out.  From the smallest unit upwards.  *)
(***************************************************************************)
LEMMA Shrink10 ==
  ASSUME NEW c \in Coins, NEW r \in Int, NEW t \in Nat, NEW j \in Nat,
         t = r - 50*j, Payable10(c, r)
  PROVE  Payable10(c, t)
<1>1. PICK n \in 0..c[10] : 10*n = r
  BY DEF Payable10
<1>2. c[10] \in Nat
  BY DEF Coins, VALID_UNITS
<1>3. n - 5*j \in 0..c[10] /\ 10 * (n - 5*j) = t
  BY <1>1, <1>2
<1> QED  BY <1>3 DEF Payable10

LEMMA Shrink50 ==
  ASSUME NEW c \in Coins, NEW r \in Int, NEW t \in Nat, NEW j \in Nat,
         t = r - 100*j, Payable50(c, r)
  PROVE  Payable50(c, t)
<1>1. PICK n \in 0..c[50] : Payable10(c, r - 50*n)
  BY DEF Payable50
<1>2. c[50] \in Nat
  BY DEF Coins, VALID_UNITS
<1>3. CASE 2*j <= n
  <2>1. n - 2*j \in 0..c[50] /\ t - 50 * (n - 2*j) = r - 50*n
    BY <1>2, <1>3
  <2> QED  BY <1>1, <2>1 DEF Payable50
<1>4. CASE ~(2*j <= n)
  <2> DEFINE i == 2*j - n
             s == r - 50*n
  <2>1. i \in Nat /\ s \in Int /\ t = s - 50*i
    BY <1>2, <1>4
  <2>2. Payable10(c, s)
    BY <1>1
  <2> HIDE DEF i, s
  <2>3. Payable10(c, t)
    BY <2>1, <2>2, Shrink10
  <2>4. 0 \in 0..c[50] /\ t - 50 * 0 = t
    BY <1>2
  <2> QED  BY <2>3, <2>4 DEF Payable50
<1> QED  BY <1>3, <1>4

LEMMA Shrink100 ==
  ASSUME NEW c \in Coins, NEW r \in Int, NEW t \in Nat, NEW j \in Nat,
         t = r - 500*j, Payable100(c, r)
  PROVE  Payable100(c, t)
<1>1. PICK n \in 0..c[100] : Payable50(c, r - 100*n)
  BY DEF Payable100
<1>2. c[100] \in Nat
  BY DEF Coins, VALID_UNITS
<1>3. CASE 5*j <= n
  <2>1. n - 5*j \in 0..c[100] /\ t - 100 * (n - 5*j) = r - 100*n
    BY <1>2, <1>3
  <2> QED  BY <1>1, <2>1 DEF Payable100
<1>4. CASE ~(5*j <= n)
  <2> DEFINE i == 5*j - n
             s == r - 100*n
  <2>1. i \in Nat /\ s \in Int /\ t = s - 100*i
    BY <1>2, <1>4
  <2>2. Payable50(c, s)
    BY <1>1
  <2> HIDE DEF i, s
  <2>3. Payable50(c, t)
    BY <2>1, <2>2, Shrink50
  <2>4. 0 \in 0..c[100] /\ t - 100 * 0 = t
    BY <1>2
  <2> QED  BY <2>3, <2>4 DEF Payable100
<1> QED  BY <1>3, <1>4

(***************************************************************************)
(* So taking as many pieces of a unit as possible loses nothing.           *)
(***************************************************************************)
LEMMA Take500 ==
  ASSUME NEW c \in Coins, NEW r \in Nat, Payable(c, r)
  PROVE  Payable100(c, r - 500 * Take(c[500], 500, r))
<1>1. PICK n \in 0..c[500] : Payable100(c, r - 500*n)
  BY DEF Payable
<1>2. c[500] \in Nat
  BY DEF Coins, VALID_UNITS
<1>3. 500*n <= r
  BY <1>1 DEF Payable100, Payable50, Payable10, Coins, VALID_UNITS
<1>4. PICK k \in Nat : k = Take(c[500], 500, r) /\ n <= k /\ 500*k <= r
  BY <1>2, <1>3 DEF Take
<1> DEFINE i == k - n
           s == r - 500*n
           t == r - 500*k
<1>5. i \in Nat /\ s \in Int /\ t \in Nat /\ t = s - 500*i
  BY <1>2, <1>4
<1>6. Payable100(c, s)
  BY <1>1
<1> HIDE DEF i, s, t
<1>7. Payable100(c, t)
  BY <1>5, <1>6, Shrink100
<1> QED  BY <1>4, <1>7 DEF t

LEMMA Take100 ==
  ASSUME NEW c \in Coins, NEW r \in Nat, Payable100(c, r)
  PROVE  Payable50(c, r - 100 * Take(c[100], 100, r))
<1>1. PICK n \in 0..c[100] : Payable50(c, r - 100*n)
  BY DEF Payable100
<1>2. c[100] \in Nat
  BY DEF Coins, VALID_UNITS
<1>3. 100*n <= r
  BY <1>1 DEF Payable50, Payable10, Coins, VALID_UNITS
<1>4. PICK k \in Nat : k = Take(c[100], 100, r) /\ n <= k /\ 100*k <= r
  BY <1>2, <1>3 DEF Take
<1> DEFINE i == k - n
           s == r - 100*n
           t == r - 100*k
<1>5. i \in Nat /\ s \in Int /\ t \in Nat /\ t = s - 100*i
  BY <1>2, <1>4
<1>6. Payable50(c, s)
  BY <1>1
<1> HIDE DEF i, s, t
<1>7. Payable50(c, t)
  BY <1>5, <1>6, Shrink50
<1> QED  BY <1>4, <1>7 DEF t

LEMMA Take50 ==
  ASSUME NEW c \in Coins, NEW r \in Nat, Payable50(c, r)
  PROVE  Payable10(c, r - 50 * Take(c[50], 50, r))
<1>1. PICK n \in 0..c[50] : Payable10(c, r - 50*n)
  BY DEF Payable50
<1>2. c[50] \in Nat
  BY DEF Coins, VALID_UNITS
<1>3. 50*n <= r
  BY <1>1 DEF Payable10, Coins, VALID_UNITS
<1>4. PICK k \in Nat : k = Take(c[50], 50, r) /\ n <= k /\ 50*k <= r
  BY <1>2, <1>3 DEF Take
<1> DEFINE i == k - n
           s == r - 50*n
           t == r - 50*k
<1>5. i \in Nat /\ s \in Int /\ t \in Nat /\ t = s - 50*i
  BY <1>2, <1>4
<1>6. Payable10(c, s)
  BY <1>1
<1> HIDE DEF i, s, t
<1>7. Payable10(c, t)
  BY <1>5, <1>6, Shrink10
<1> QED  BY <1>4, <1>7 DEF t

LEMMA Take10 ==
  ASSUME NEW c \in Coins, NEW r \in Nat, Payable10(c, r)
  PROVE  r - 10 * Take(c[10], 10, r) = 0
<1>1. PICK n \in 0..c[10] : 10*n = r
  BY DEF Payable10
<1>2. c[10] \in Nat
  BY DEF Coins, VALID_UNITS
<1> QED  BY <1>1, <1>2 DEF Take

(***************************************************************************)
(* The greedy loop step by step: Kx is how many pieces of x it takes, Rx   *)
(* what is left to pay after that.                                         *)
(***************************************************************************)
K500(c, amount) == Take(c[500], 500, amount)
R500(c, amount) == amount - 500 * K500(c, amount)
K100(c, amount) == Take(c[100], 100, R500(c, amount))
R100(c, amount) == R500(c, amount) - 100 * K100(c, amount)
K50(c, amount)  == Take(c[50], 50, R100(c, amount))
R50(c, amount)  == R100(c, amount) - 50 * K50(c, amount)
K10(c, amount)  == Take(c[10], 10, R50(c, amount))
R10(c, amount)  == R50(c, amount) - 10 * K10(c, amount)

LEMMA StepTypes ==
  ASSUME NEW c \in Coins, NEW amount \in Nat
  PROVE  /\ K500(c, amount) \in Nat /\ K500(c, amount) <= c[500] /\ R500(c, amount) \in Nat
         /\ K100(c, amount) \in Nat /\ K100(c, amount) <= c[100] /\ R100(c, amount) \in Nat
         /\ K50(c, amount) \in Nat /\ K50(c, amount) <= c[50] /\ R50(c, amount) \in Nat
         /\ K10(c, amount) \in Nat /\ K10(c, amount) <= c[10] /\ R10(c, amount) \in Nat
<1>1. c[500] \in Nat /\ c[100] \in Nat /\ c[50] \in Nat /\ c[10] \in Nat
  BY DEF Coins, VALID_UNITS
<1>2. K500(c, amount) \in Nat /\ K500(c, amount) <= c[500] /\ R500(c, amount) \in Nat
  BY <1>1 DEF K500, R500, Take
<1>3. K100(c, amount) \in Nat /\ K100(c, amount) <= c[100] /\ R100(c, amount) \in Nat
  BY <1>1, <1>2 DEF K100, R100, Take
<1>4. K50(c, amount) \in Nat /\ K50(c, amount) <= c[50] /\ R50(c, amount) \in Nat
  BY <1>1, <1>3 DEF K50, R50, Take
<1>5. K10(c, amount) \in Nat /\ K10(c, amount) <= c[10] /\ R10(c, amount) \in Nat
  BY <1>1, <1>4 DEF K10, R10, Take
<1> QED  BY <1>2, <1>3, <1>4, <1>5

LEMMA GreedySteps ==
  ASSUME NEW c \in Coins, NEW amount \in Nat
  PROVE  /\ Greedy(c, amount) \in Coins
         /\ Greedy(c, amount)[500] = K500(c, amount)
         /\ Greedy(c, amount)[100] = K100(c, amount)
         /\ Greedy(c, amount)[50] = K50(c, amount)
         /\ Greedy(c, amount)[10] = K10(c, amount)
         /\ Greedy(c, amount)[1000] = 0
<1>1. Greedy(c, amount) =
        [u \in VALID_UNITS |-> CASE u = 500 -> K500(c, amount)
                                 [] u = 100 -> K100(c, amount)
                                 [] u = 50  -> K50(c, amount)
                                 [] u = 10  -> K10(c, amount)
                                 [] OTHER   -> 0]
  BY DEF Greedy, K500, R500, K100, R100, K50, R50, K10
<1>2. /\ K500(c, amount) \in Nat /\ K100(c, amount) \in Nat
      /\ K50(c, amount) \in Nat /\ K10(c, amount) \in Nat
  BY StepTypes
<1> QED  BY <1>1, <1>2 DEF Coins, VALID_UNITS

(* The payout takes only coins that are there, and no notes. *)
LEMMA GreedyCovered ==
  ASSUME NEW c \in Coins, NEW amount \in Nat
  PROVE  Greedy(c, amount) \in Coins /\ Covers(c, Greedy(c, amount))
<1> DEFINE g == Greedy(c, amount)
<1>1. c[1000] \in Nat
  BY DEF Coins, VALID_UNITS
<1>2. g[500] <= c[500] /\ g[100] <= c[100] /\ g[50] <= c[50] /\ g[10] <= c[10]
      /\ g[1000] = 0 /\ g \in Coins
  <2>1. /\ K500(c, amount) <= c[500] /\ K100(c, amount) <= c[100]
        /\ K50(c, amount) <= c[50] /\ K10(c, amount) <= c[10]
    BY StepTypes, SMTT(30)
  <2>2. /\ g[500] = K500(c, amount) /\ g[100] = K100(c, amount)
        /\ g[50] = K50(c, amount)   /\ g[10] = K10(c, amount)
        /\ g[1000] = 0 /\ g \in Coins
    BY GreedySteps
  <2> QED  BY <2>1, <2>2
<1> HIDE DEF g
<1>3. Covers(c, g)
  BY <1>1, <1>2 DEF Covers, VALID_UNITS
<1> QED  BY <1>2, <1>3 DEF g

(* Change can be made when the last remainder is zero. *)
LEMMA GreedyRemainder ==
  ASSUME NEW c \in Coins, NEW amount \in Nat
  PROVE  can_make_change(c, amount) <=> R10(c, amount) = 0
<1> DEFINE g == Greedy(c, amount)
<1>0. /\ g[500] = K500(c, amount) /\ g[100] = K100(c, amount) /\ g[50] = K50(c, amount)
      /\ g[10] = K10(c, amount) /\ g[1000] = 0
      /\ K500(c, amount) \in Nat /\ K100(c, amount) \in Nat
      /\ K50(c, amount) \in Nat /\ K10(c, amount) \in Nat
  BY GreedySteps, StepTypes
<1> HIDE DEF g
<1>1. Value(g) = 10 * K10(c, amount) + 50 * K50(c, amount)
                              + 100 * K100(c, amount) + 500 * K500(c, amount)
  BY <1>0 DEF Value
<1>2. R10(c, amount) = amount - Value(g)
  BY <1>1, StepTypes DEF R500, R100, R50, R10
<1> QED  BY <1>2 DEF can_make_change, g

(***************************************************************************)
(* The greedy loop pays an amount exactly when some payout of it exists:   *)
(* can_make_change never refuses change the reserve could give, and never  *)
(* promises change it could not.                                           *)
(***************************************************************************)
THEOREM GreedyComplete ==
  ASSUME NEW c \in Coins, NEW amount \in Nat
  PROVE  can_make_change(c, amount) <=> Payable(c, amount)
<1>1. ASSUME Payable(c, amount) PROVE R10(c, amount) = 0
  <2>1. Payable100(c, R500(c, amount))
    BY <1>1, Take500 DEF R500, K500
  <2>2. Payable50(c, R100(c, amount))
    BY <2>1, StepTypes, Take100 DEF R100, K100
  <2>3. Payable10(c, R50(c, amount))
    BY <2>2, StepTypes, Take50 DEF R50, K50
  <2> QED  BY <2>3, StepTypes, Take10 DEF R10, K10
<1>2. ASSUME R10(c, amount) = 0 PROVE Payable(c, amount)
  <2>0. c[500] \in Nat /\ c[100] \in Nat /\ c[50] \in Nat /\ c[10] \in Nat
    BY DEF Coins, VALID_UNITS
  <2>1. Payable10(c, R50(c, amount))
    <3>1. K10(c, amount) \in Nat /\ K10(c, amount) <= c[10] /\ R50(c, amount) \in Nat
      BY StepTypes, SMTT(30)
    <3>2. K10(c, amount) \in 0..c[10] /\ 10 * K10(c, amount) = R50(c, amount)
      BY <1>2, <2>0, <3>1 DEF R10
    <3> QED  BY <3>2 DEF Payable10
  <2>2. Payable50(c, R100(c, amount))
    <3>1. K50(c, amount) \in Nat /\ K50(c, amount) <= c[50]
      BY StepTypes, ZenonT(30)
    <3>2. K50(c, amount) \in 0..c[50]
      BY <2>0, <3>1
    <3> QED  BY <2>1, <3>2 DEF Payable50, R50
  <2>3. Payable100(c, R500(c, amount))
    <3>1. K100(c, amount) \in Nat /\ K100(c, amount) <= c[100]
      BY StepTypes, ZenonT(30)
    <3>2. K100(c, amount) \in 0..c[100]
      BY <2>0, <3>1
    <3> QED  BY <2>2, <3>2 DEF Payable100, R100
  <2>4. K500(c, amount) \in Nat /\ K500(c, amount) <= c[500]
    BY StepTypes, ZenonT(30)
  <2>5. K500(c, amount) \in 0..c[500]
    BY <2>0, <2>4
  <2> QED  BY <2>3, <2>5 DEF Payable, R500
<1> QED  BY <1>1, <1>2, GreedyRemainder

(***************************************************************************)
(* Change that a reserve can make it can still make after coins are added: *)
(* select_drink may look for change before it accepts the customer's coins *)
(* and pay it after.                                                       *)
(***************************************************************************)
THEOREM ChangeSurvivesAcceptance ==
  ASSUME NEW c \in Coins, NEW slot \in Coins, NEW amount \in Nat,
         can_make_change(c, amount)
  PROVE  can_make_change(accept_coins(c, slot), amount)
<1> DEFINE a == accept_coins(c, slot)
<1>1. a \in Coins /\ \A u \in VALID_UNITS : c[u] \in Nat /\ a[u] \in Nat /\ c[u] <= a[u]
  BY DEF accept_coins, Plus, Coins
<1> HIDE DEF a
<1>2. 0..c[10] \subseteq 0..a[10] /\ 0..c[50] \subseteq 0..a[50]
      /\ 0..c[100] \subseteq 0..a[100] /\ 0..c[500] \subseteq 0..a[500]
  BY <1>1 DEF VALID_UNITS
<1>3. Payable(c, amount)
  BY GreedyComplete
<1>4. \A r : Payable10(c, r) => Payable10(a, r)
  BY <1>2 DEF Payable10
<1>5. \A r : Payable50(c, r) => Payable50(a, r)
  BY <1>2, <1>4 DEF Payable50
<1>6. \A r : Payable100(c, r) => Payable100(a, r)
  BY <1>2, <1>5 DEF Payable100
<1>7. Payable(a, amount)
  BY <1>2, <1>3, <1>6 DEF Payable
<1> QED  BY <1>1, <1>7, GreedyComplete DEF a

(***************************************************************************)
(* Bags of coins: sums, differences and what they are worth.               *)
(***************************************************************************)
LEMMA ValueType ==
  ASSUME NEW c \in Coins
  PROVE  Value(c) \in Nat
BY DEF Value, Coins, VALID_UNITS

LEMMA PlusValue ==
  ASSUME NEW c \in Coins, NEW d \in Coins
  PROVE  Plus(c, d) \in Coins /\ Value(Plus(c, d)) = Value(c) + Value(d)
BY DEF Plus, Value, Coins, VALID_UNITS

LEMMA MinusValue ==
  ASSUME NEW c \in Coins, NEW d \in Coins, Covers(c, d)
  PROVE  Minus(c, d) \in Coins /\ Value(Minus(c, d)) = Value(c) - Value(d)
BY DEF Minus, Covers, Value, Coins, VALID_UNITS

LEMMA NoCoinsValue == NoCoins \in Coins /\ Value(NoCoins) = 0
BY DEF NoCoins, Value, Coins, VALID_UNITS

LEMMA InitialReserveType == InitialReserve \in Coins
BY LimitsAreNaturals DEF InitialReserve, Coins

LEMMA SurplusCovered ==
  ASSUME NEW c \in Coins
  PROVE  Surplus(c) \in Coins /\ Covers(c, Surplus(c))
BY LimitsAreNaturals DEF Surplus, Covers, Coins

(* give_change pays exactly the amount, with coins that are there. *)
LEMMA ChangeIsExact ==
  ASSUME NEW c \in Coins, NEW amount \in Nat, can_make_change(c, amount)
  PROVE  /\ give_change(c, amount) \in Coins
         /\ Covers(c, give_change(c, amount))
         /\ Value(give_change(c, amount)) = amount
<1>1. Greedy(c, amount) \in Coins /\ Covers(c, Greedy(c, amount))
  BY GreedyCovered
<1>2. Value(Greedy(c, amount)) \in Nat
  BY <1>1, ValueType
<1>3. Value(Greedy(c, amount)) = amount
  BY <1>2 DEF can_make_change
<1> QED  BY <1>1, <1>3 DEF give_change

(***************************************************************************)
(* The coin slot: its totals agree with its pieces and keep the limits.    *)
(***************************************************************************)
SoundSlot(s) ==
  /\ s \in CoinSlot
  /\ s.total = Value(s.slot)
  /\ s.bill_total = 1000 * s.slot[1000]
  /\ s.total <= MAX_TOTAL
  /\ s.bill_total <= MAX_BILL_TOTAL

LEMMA InitCoinSound == SoundSlot(init_coin)
BY LimitsAreNaturals, NoCoinsValue
   DEF SoundSlot, init_coin, CoinSlot, NoCoins, VALID_UNITS

LEMMA InsertedSound ==
  ASSUME NEW s, SoundSlot(s), NEW u
  PROVE  /\ SoundSlot(Inserted(s, u))
         /\ Accepts(s, u) => Inserted(s, u).total = s.total + u /\ u > 0
         /\ ~Accepts(s, u) => Inserted(s, u).total = s.total
<1>1. CASE ~Accepts(s, u)
  BY <1>1 DEF Inserted
<1>2. CASE Accepts(s, u)
  <2> DEFINE t == [s.slot EXCEPT ![u] = @ + 1]
             b == s.bill_total + (IF u = 1000 THEN 1000 ELSE 0)
  <2>1. s.slot \in Coins /\ s.total \in Nat /\ s.bill_total \in Nat
    BY DEF SoundSlot, CoinSlot
  <2>2. u \in VALID_UNITS /\ u > 0
    BY <1>2 DEF Accepts, VALID_UNITS
  <2>3. Inserted(s, u) = [slot |-> t, total |-> s.total + u, bill_total |-> b]
    BY <1>2 DEF Inserted
  <2>4. t \in Coins /\ Value(t) = Value(s.slot) + u
        /\ t[1000] = s.slot[1000] + (IF u = 1000 THEN 1 ELSE 0)
    BY <2>1, <2>2 DEF Coins, Value, VALID_UNITS
  <2>5. s.slot[1000] \in Nat
    BY <2>1 DEF Coins, VALID_UNITS
  <2>6. b \in Nat /\ b = 1000 * t[1000] /\ b <= MAX_BILL_TOTAL
    BY <1>2, <2>1, <2>4, <2>5, LimitsAreNaturals DEF SoundSlot, Accepts
  <2>7. s.total + u \in Nat /\ s.total + u = Value(t) /\ s.total + u <= MAX_TOTAL
    BY <1>2, <2>1, <2>2, <2>4 DEF SoundSlot, Accepts, VALID_UNITS
  <2> HIDE DEF t, b
  <2> QED  BY <1>2, <2>2, <2>3, <2>4, <2>6, <2>7 DEF SoundSlot, CoinSlot
<1> QED  BY <1>1, <1>2

-----------------------------------------------------------------------------
(* The session. *)


\* The inductive invariant: the slot's totals are what the till's refinement
\* mapping reads, its pieces are what the reserve receives, so both the types
\* and the agreement between them are needed at every step.
IInv == TypeOK /\ SlotSound

\* With a customer's slot present, IInv says the slot is sound.
LEMMA SlotOfIInv ==
  ASSUME IInv, coin # NoSlot
  PROVE  SoundSlot(coin) /\ coin.slot \in Coins /\ coin.total \in Nat
BY DEF IInv, TypeOK, SlotSound, SoundSlot, CoinSlot

LEMMA TotalType ==
  ASSUME IInv
  PROVE  total \in Nat /\ total <= MAX_TOTAL
BY SlotOfIInv, LimitsAreNaturals DEF total, SoundSlot

(***************************************************************************)
(* InsertCoin.                                                             *)
(***************************************************************************)
LEMMA InsertCoinSlot ==
  ASSUME IInv, NEW u, InsertCoin(u)
  PROVE  /\ coin' \in CoinSlot /\ coin' # NoSlot
         /\ SoundSlot(coin')
         /\ total' = total \/ total' > total
         /\ total' \in Nat /\ total' <= MAX_TOTAL
<1> DEFINE s == IF coin = NoSlot THEN init_coin ELSE coin
<1>1. SoundSlot(s) /\ s.total = total
  <2>1. CASE coin = NoSlot
    BY <2>1, InitCoinSound DEF total, init_coin
  <2>2. CASE coin # NoSlot
    BY <2>2, SlotOfIInv DEF total
  <2> QED  BY <2>1, <2>2
<1>2. coin' = Inserted(s, u)
  BY DEF InsertCoin
<1> HIDE DEF s
<1>3. SoundSlot(coin')
  BY <1>1, <1>2, InsertedSound
<1>4. coin' \in CoinSlot /\ coin' # NoSlot /\ coin'.total \in Nat /\ coin'.total <= MAX_TOTAL
  BY <1>3, SessionConstants DEF SoundSlot, CoinSlot
<1>5. total' = coin'.total
  BY <1>4 DEF total
<1>6. coin'.total = s.total \/ coin'.total > s.total
  <2>1. CASE Accepts(s, u)
    <3>1. coin'.total = s.total + u /\ u > 0 /\ u \in VALID_UNITS
      BY <1>1, <1>2, <2>1, InsertedSound DEF Accepts
    <3>2. s.total \in Nat
      BY <1>1 DEF SoundSlot, CoinSlot
    <3> QED  BY <3>1, <3>2 DEF VALID_UNITS
  <2>2. CASE ~Accepts(s, u)
    BY <1>1, <1>2, <2>2, InsertedSound
  <2> QED  BY <2>1, <2>2
<1> QED  BY <1>1, <1>3, <1>4, <1>5, <1>6

(***************************************************************************)
(* SelectDrink: change checked on the reserve is paid from the reserve     *)
(* with the customer's coins in it.                                        *)
(***************************************************************************)
LEMMA SelectDrinkMoney ==
  ASSUME IInv, NEW d \in Drinks, SelectDrink(d)
  PROVE  /\ coin # NoSlot /\ total > 0
         /\ price[d] \in Nat \ {0} /\ price[d] <= total
         /\ tray' \in Coins /\ Value(tray') = total - price[d]
         /\ reserve' \in Coins /\ Value(reserve') = Value(reserve) + price[d]
<1> DEFINE change == total - price[d]
           filled == accept_coins(reserve, coin.slot)
<1>1. coin # NoSlot /\ total > 0 /\ total = coin.total
  BY DEF SelectDrink, total
<1>2. price[d] \in Nat \ {0} /\ price[d] <= total /\ total \in Nat
  BY TotalType DEF SelectDrink, Available, IInv, TypeOK
<1>3. change \in Nat
  BY <1>2
<1>4. coin.slot \in Coins /\ Value(coin.slot) = total /\ reserve \in Coins
  BY <1>1, SlotOfIInv DEF SoundSlot, IInv, TypeOK
<1>5. filled \in Coins /\ Value(filled) = Value(reserve) + total
  BY <1>4, PlusValue DEF accept_coins
<1>6. can_make_change(reserve, change)
  BY DEF SelectDrink
<1>7. tray' = give_change(filled, change) /\ reserve' = Minus(filled, tray')
  BY DEF SelectDrink
<1>8. can_make_change(filled, change)
  BY <1>3, <1>4, <1>6, ChangeSurvivesAcceptance
<1> HIDE DEF change, filled
<1>9. tray' \in Coins /\ Covers(filled, tray') /\ Value(tray') = change
  BY <1>3, <1>5, <1>7, <1>8, ChangeIsExact
<1>10. reserve' \in Coins /\ Value(reserve') = Value(filled) - change
  BY <1>5, <1>7, <1>9, MinusValue
<1>11. Value(reserve) \in Nat
  BY <1>4, ValueType
<1>12. Value(reserve') = Value(reserve) + price[d]
  BY <1>2, <1>5, <1>10, <1>11 DEF change
<1> QED  BY <1>1, <1>2, <1>9, <1>10, <1>12 DEF change

(***************************************************************************)
(* The remaining handlers that move money.                                 *)
(***************************************************************************)
LEMMA RefundMoney ==
  ASSUME IInv, Refund
  PROVE  /\ coin # NoSlot /\ total > 0
         /\ tray' \in Coins /\ Value(tray') = total
<1>1. coin # NoSlot /\ total = coin.total /\ total > 0
  BY DEF Refund, total
<1> QED  BY <1>1, SlotOfIInv DEF Refund, SoundSlot

LEMMA CollectMoney ==
  ASSUME IInv, CollectCoins
  PROVE  /\ reserve' \in Coins
         /\ Value(reserve') \in Nat /\ Value(reserve') <= Value(reserve)
<1>1. reserve \in Coins
  BY DEF IInv, TypeOK
<1>2. Surplus(reserve) \in Coins /\ Covers(reserve, Surplus(reserve))
  BY <1>1, SurplusCovered
<1>3. reserve' = Minus(reserve, Surplus(reserve))
  BY DEF CollectCoins
<1>4. reserve' \in Coins /\ Value(reserve') = Value(reserve) - Value(Surplus(reserve))
  BY <1>1, <1>2, <1>3, MinusValue
<1>5. Value(reserve) \in Nat /\ Value(Surplus(reserve)) \in Nat /\ Value(reserve') \in Nat
  BY <1>1, <1>2, <1>4, ValueType
<1> QED  BY <1>4, <1>5

(***************************************************************************)
(* IInv is inductive.                                                      *)
(***************************************************************************)
LEMMA InitIInv == Init => IInv
<1> SUFFICES ASSUME Init PROVE IInv
  OBVIOUS
<1>1. InitialReserve \in Coins /\ NoCoins \in Coins
  BY InitialReserveType, NoCoinsValue
<1>2. TypeOK
  BY <1>1, SessionConstants DEF Init, DefaultStocks, TypeOK
<1>3. SlotSound
  BY DEF Init, SlotSound
<1> QED  BY <1>2, <1>3 DEF IInv

\* What an enqueued sale adds to the books has their types.
LEMMA BooksTypes ==
  ASSUME IInv, NEW d \in Drinks, SelectDrink(d)
  PROVE  /\ daily_sales' \in Nat
         /\ sales' \in Seq(SaleRecord)
         /\ queue' \in Seq(Nat)
         /\ stock' \in [Drinks -> Nat]
         /\ exhausted' \in [Drinks -> Nat]
<1>1. price[d] \in Nat /\ daily_sales \in Nat /\ today \in Nat
      /\ sales \in Seq(SaleRecord) /\ queue \in Seq(Nat)
  BY DEF IInv, TypeOK
<1>2. daily_sales' = daily_sales + price[d] /\ daily_sales' \in Nat
  BY <1>1 DEF SelectDrink, EnqueueSale
<1>3. [drink |-> d, price |-> price[d], daily_sales |-> daily_sales', day |-> today]
        \in SaleRecord
  BY <1>1, <1>2 DEF SaleRecord
<1>4. sales' \in Seq(SaleRecord)
  BY <1>1, <1>3 DEF SelectDrink, EnqueueSale
<1>5. queue' \in Seq(Nat)
  BY <1>1, <1>4 DEF SelectDrink, EnqueueSale
<1>6. stock' \in [Drinks -> Nat]
  BY DEF SelectDrink, Available, IInv, TypeOK
<1>7. exhausted' \in [Drinks -> Nat]
  BY DEF SelectDrink, RecordExhaustion, IInv, TypeOK
<1> QED  BY <1>2, <1>4, <1>5, <1>6, <1>7

LEMMA NextIInv == IInv /\ [Next]_sessionVars => IInv'
<1> SUFFICES ASSUME IInv, [Next]_sessionVars PROVE IInv'
  OBVIOUS
<1> USE DEF money, goods, books
<1>1. ASSUME NEW u \in Units, InsertCoin(u) PROVE IInv'
  <2>1. coin' \in CoinSlot /\ SoundSlot(coin')
    BY <1>1, InsertCoinSlot
  <2>2. TypeOK'
    BY <1>1, <2>1 DEF InsertCoin, IInv, TypeOK
  <2>3. SlotSound'
    BY <2>1 DEF SlotSound, SoundSlot
  <2> QED  BY <2>2, <2>3 DEF IInv
<1>2. ASSUME NEW d \in Drinks, SelectDrink(d) PROVE IInv'
  <2>1. tray' \in Coins /\ reserve' \in Coins
    BY <1>2, SelectDrinkMoney
  <2>2. coin' = NoSlot /\ UNCHANGED <<price, today>>
    BY <1>2 DEF SelectDrink
  <2>3. TypeOK'
    BY <1>2, <2>1, <2>2, BooksTypes DEF IInv, TypeOK
  <2>4. SlotSound'
    BY <2>2 DEF SlotSound
  <2> QED  BY <2>3, <2>4 DEF IInv
<1>3. ASSUME Refund PROVE IInv'
  <2>1. tray' \in Coins
    BY <1>3, RefundMoney
  <2>2. TypeOK'
    BY <1>3, <2>1 DEF Refund, IInv, TypeOK
  <2>3. SlotSound'
    BY <1>3 DEF Refund, SlotSound
  <2> QED  BY <2>2, <2>3 DEF IInv
<1>4. ASSUME NEW d \in Drinks, NEW p \in Prices, Reprice(d, p) PROVE IInv'
  BY <1>4, SessionConstants DEF Reprice, IInv, TypeOK, SlotSound
<1>5. ASSUME NEW d \in Drinks, NEW amount \in 1 .. MAX_STOCK - stock[d], Restock(d, amount)
      PROVE  IInv'
  <2>1. stock[d] \in Nat /\ amount \in Nat
    BY SessionConstants DEF IInv, TypeOK
  <2> QED  BY <1>5, <2>1 DEF Restock, IInv, TypeOK, SlotSound
<1>6. ASSUME CollectCoins PROVE IInv'
  <2>1. reserve' \in Coins
    BY <1>6, CollectMoney
  <2> QED  BY <1>6, <2>1 DEF CollectCoins, IInv, TypeOK, SlotSound
<1>7. ASSUME Midnight PROVE IInv'
  BY <1>7 DEF Midnight, IInv, TypeOK, SlotSound
<1>8. ASSUME UNCHANGED sessionVars PROVE IInv'
  BY <1>8 DEF sessionVars, IInv, TypeOK, SlotSound
<1> QED  BY <1>1, <1>2, <1>3, <1>4, <1>5, <1>6, <1>7, <1>8 DEF Next

LEMMA IInvAlways == Spec => []IInv
BY InitIInv, NextIInv, PTL DEF Spec

(* The types of the session's state. *)
THEOREM TypeCorrect == Spec => []TypeOK
<1>1. IInv => TypeOK
  BY DEF IInv
<1> QED  BY <1>1, IInvAlways, PTL

(* insert_coin keeps the slot's totals equal to its pieces, within limits. *)
THEOREM SlotAlwaysSound == Spec => []SlotSound
<1>1. IInv => SlotSound
  BY DEF IInv
<1> QED  BY <1>1, IInvAlways, PTL

(* A purchase is refused for want of change only when there is none. *)
THEOREM RefusalsAreJustified == Spec => []RefusalJustified
<1>1. IInv => RefusalJustified
  <2> SUFFICES ASSUME IInv, NEW d \in Drinks, Available(d)
               PROVE  can_make_change(reserve, total - price[d])
                        <=> Payable(reserve, total - price[d])
    BY DEF RefusalJustified
  <2>1. price[d] \in Nat /\ price[d] <= total /\ total \in Nat /\ reserve \in Coins
    BY TotalType DEF Available, IInv, TypeOK
  <2>2. total - price[d] \in Nat
    BY <2>1
  <2> QED  BY <2>1, <2>2, GreedyComplete
<1> QED  BY <1>1, IInvAlways, PTL

(***************************************************************************)
(* Sold-out drinks: only a sale empties a drink, and it records that.      *)
(***************************************************************************)
THEOREM SoldOutIsLogged == Spec => []SoldOutLogged
<1>1. Init => SoldOutLogged
  BY SessionConstants DEF Init, DefaultStocks, SoldOutLogged
<1>2. IInv /\ SoldOutLogged /\ [Next]_sessionVars => SoldOutLogged'
  <2> SUFFICES ASSUME IInv, SoldOutLogged, [Next]_sessionVars PROVE SoldOutLogged'
    OBVIOUS
  <2> USE DEF money, goods, books
  <2>1. stock \in [Drinks -> Nat] /\ exhausted \in [Drinks -> Nat]
    BY DEF IInv, TypeOK
  <2>2. ASSUME NEW d \in Drinks, SelectDrink(d) PROVE SoldOutLogged'
    <3>1. stock' = [stock EXCEPT ![d] = @ - 1]
      BY <2>2 DEF SelectDrink
    <3>2. exhausted' = IF stock'[d] = 0 THEN [exhausted EXCEPT ![d] = @ + 1] ELSE exhausted
      BY <2>2 DEF SelectDrink, RecordExhaustion
    <3>3. \A e \in Drinks : stock'[e] = 0 => exhausted'[e] > 0
      <4> SUFFICES ASSUME NEW e \in Drinks, stock'[e] = 0 PROVE exhausted'[e] > 0
        OBVIOUS
      <4>1. CASE e = d
        BY <2>1, <3>2, <4>1
      <4>2. CASE e # d
        <5>1. stock[e] = 0 /\ exhausted'[e] = exhausted[e]
          BY <2>1, <3>1, <3>2, <4>2
        <5> QED  BY <5>1 DEF SoldOutLogged
      <4> QED  BY <4>1, <4>2
    <3> QED  BY <3>3 DEF SoldOutLogged
  <2>3. ASSUME NEW d \in Drinks, NEW amount \in 1 .. MAX_STOCK - stock[d], Restock(d, amount)
        PROVE  SoldOutLogged'
    <3>1. stock[d] \in Nat /\ amount \in Nat /\ amount > 0
      BY <2>1, SessionConstants
    <3> QED  BY <2>1, <2>3, <3>1 DEF Restock, SoldOutLogged
  <2>4. ASSUME UNCHANGED <<stock, exhausted>> PROVE SoldOutLogged'
    BY <2>4 DEF SoldOutLogged
  <2> QED  BY <2>2, <2>3, <2>4
           DEF Next, InsertCoin, Refund, Reprice, CollectCoins, Midnight, sessionVars
<1> QED  BY <1>1, <1>2, IInvAlways, PTL DEF Spec

(***************************************************************************)
(* The refinement: every step of the session is a step of the till, or     *)
(* leaves the till alone.                                                  *)
(***************************************************************************)
LEMMA InitTill == Init => Till!Init
BY NoCoinsValue DEF Init, Till!Init, total

LEMMA NextTill == IInv /\ IInv' /\ [Next]_sessionVars => [Till!Next]_Till!vars
<1> SUFFICES ASSUME IInv, IInv', [Next]_sessionVars PROVE [Till!Next]_Till!vars
  OBVIOUS
<1> USE DEF money, goods, books
<1>0. Value(reserve) \in Nat /\ total \in Nat
  BY ValueType, TotalType DEF IInv, TypeOK
<1>1. ASSUME NEW u \in Units, InsertCoin(u) PROVE [Till!Next]_Till!vars
  <2>1. UNCHANGED <<reserve, tray>>
    BY <1>1 DEF InsertCoin
  <2>2. CASE total' = total
    BY <2>1, <2>2 DEF Till!vars
  <2>3. CASE total' > total
    <3>1. total' <= MAX_TOTAL
      BY <1>1, InsertCoinSlot
    <3>2. Till!Insert
      BY <2>1, <2>3, <3>1 DEF Till!Insert
    <3> QED  BY <3>2 DEF Till!Next
  <2> QED  BY <1>1, <2>2, <2>3, InsertCoinSlot
<1>2. ASSUME NEW d \in Drinks, SelectDrink(d) PROVE [Till!Next]_Till!vars
  <2>1. /\ price[d] \in Nat \ {0} /\ price[d] <= total
        /\ Value(tray') = total - price[d]
        /\ Value(reserve') = Value(reserve) + price[d]
    BY <1>2, SelectDrinkMoney
  <2>2. total' = 0
    BY <1>2 DEF SelectDrink, total
  <2>3. /\ Value(reserve') > Value(reserve) /\ Value(tray') >= 0
        /\ Value(reserve') + Value(tray') = Value(reserve) + total
    BY <1>0, <2>1
  <2>4. Till!Sell
    BY <2>2, <2>3 DEF Till!Sell
  <2> QED  BY <2>4 DEF Till!Next
<1>3. ASSUME Refund PROVE [Till!Next]_Till!vars
  <2>1. total > 0 /\ Value(tray') = total
    BY <1>3, RefundMoney
  <2>2. total' = 0 /\ UNCHANGED reserve
    BY <1>3 DEF Refund, total
  <2>3. Till!Refund
    BY <2>1, <2>2 DEF Till!Refund
  <2> QED  BY <2>3 DEF Till!Next
<1>4. ASSUME CollectCoins PROVE [Till!Next]_Till!vars
  <2>1. 0 <= Value(reserve') /\ Value(reserve') <= Value(reserve)
    BY <1>4, CollectMoney
  <2>2. total' = total /\ UNCHANGED tray
    BY <1>4 DEF CollectCoins, total
  <2>3. Till!Collect
    BY <2>1, <2>2 DEF Till!Collect
  <2> QED  BY <2>3 DEF Till!Next
<1>5. ASSUME UNCHANGED <<coin, tray, reserve>> PROVE [Till!Next]_Till!vars
  BY <1>5 DEF Till!vars, total
<1> QED  BY <1>1, <1>2, <1>3, <1>4, <1>5
         DEF Next, Reprice, Restock, Midnight, sessionVars

(* VendingSession implements CashTill. *)
THEOREM SessionImplementsTill == Spec => ImplementsTill
BY InitTill, NextTill, IInvAlways, PTL DEF Spec, ImplementsTill, Till!Spec

=============================================================================
