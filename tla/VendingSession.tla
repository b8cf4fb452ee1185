--------------------------- MODULE VendingSession ---------------------------
(***************************************************************************)
(* One machine's selling logic: VendingSession, Inventory and SendQueue    *)
(* (src/client/core/transaction.py, beverage.py) over the money of         *)
(* CoinManager.  One action per method, as its callers call it.            *)
(*                                                                         *)
(* A SaleRecord is the number of its sale: sales[n] holds what the record  *)
(* of sale n says, and the send queue holds numbers.  Names, messages and  *)
(* the stock snapshot of a record are left out.                            *)
(***************************************************************************)
EXTENDS CoinManager, Sequences

CONSTANTS
  Drinks,          \* drink_ids
  DefaultPrice,    \* prices in Inventory.DRINKS
  Prices,          \* prices the administrator may type in
  DEFAULT_STOCK,   \* Inventory(default_stock)
  MAX_STOCK,       \* stock the administrator may fill a drink up to
  Units,           \* the money buttons the customer uses
  NoSlot,          \* _coin is None
  MaxSales,        \* bound on the number of sales
  MaxDay           \* bound on the number of days

ASSUME SessionConstants ==
  /\ DefaultPrice \in [Drinks -> Nat \ {0}]
  /\ Prices \subseteq Nat \ {0}
  /\ DEFAULT_STOCK \in Nat \ {0}
  /\ MAX_STOCK \in Nat
  /\ DEFAULT_STOCK <= MAX_STOCK
  /\ Units \subseteq VALID_UNITS
  /\ NoSlot \notin CoinSlot
  /\ MaxSales \in Nat
  /\ MaxDay \in Nat \ {0}

VARIABLES
  coin,          \* VendingSession._coin: the CoinSlot of the customer, or NoSlot
  tray,          \* the ChangeStack last returned, by select_drink or refund
  reserve,       \* ChangeReserve._coins
  stock,         \* DrinkNode.stock
  price,         \* DrinkNode.price
  daily_sales,   \* VendingSession.daily_sales
  queue,         \* SendQueue._queue, as sale numbers
  sales,         \* history: every SaleRecord made, in order
  exhausted,     \* rows of stock_exhaustion_log.csv, per drink
  today          \* date.today()

money == <<coin, tray, reserve>>
goods == <<stock, price>>
books == <<daily_sales, queue, sales, exhausted>>
sessionVars == <<money, goods, books, today>>

SaleRecord == [drink : Drinks, price : Nat, daily_sales : Nat, day : Nat]

TypeOK ==
  /\ coin \in CoinSlot \cup {NoSlot}
  /\ tray \in Coins
  /\ reserve \in Coins
  /\ stock \in [Drinks -> Nat]
  /\ price \in [Drinks -> Nat \ {0}]
  /\ daily_sales \in Nat
  /\ queue \in Seq(Nat)
  /\ sales \in Seq(SaleRecord)
  /\ exhausted \in [Drinks -> Nat]
  /\ today \in Nat

\* A new Inventory.
DefaultStocks == [d \in Drinks |-> DEFAULT_STOCK]

Init ==
  /\ coin = NoSlot
  /\ tray = NoCoins
  /\ reserve = InitialReserve
  /\ stock = DefaultStocks
  /\ price = DefaultPrice
  /\ daily_sales = 0
  /\ queue = << >>
  /\ sales = << >>
  /\ exhausted = [d \in Drinks |-> 0]
  /\ today = 1

\* Money in the slot.
total == IF coin = NoSlot THEN 0 ELSE coin.total

\* A bug: the stock is not looked at.
AvailableAtAnyStock(d) == price[d] <= total

\* What available_drinks and the guards of select_drink ask of a drink.
Available(d) == price[d] <= total /\ stock[d] > 0

-----------------------------------------------------------------------------
(* Customer. *)

\* The slot is allocated with the first coin.
InsertCoin(u) ==
  /\ coin' = Inserted(IF coin = NoSlot THEN init_coin ELSE coin, u)
  /\ UNCHANGED <<tray, reserve, goods, books, today>>

\* A bug: stock is tested for exhaustion before it is taken.
ExhaustedTestedFirst(d) ==
  exhausted' = IF stock[d] = 0 THEN [exhausted EXCEPT ![d] = @ + 1] ELSE exhausted

\* inventory.sell empties the drink, and the day is written to the log.
RecordExhaustion(d) ==
  exhausted' = IF stock'[d] = 0 THEN [exhausted EXCEPT ![d] = @ + 1] ELSE exhausted

EnqueueSale(d) ==
  /\ daily_sales' = daily_sales + price[d]
  /\ sales' = Append(sales, [drink |-> d, price |-> price[d],
                             daily_sales |-> daily_sales', day |-> today])
  /\ queue' = Append(queue, Len(sales'))

\* Change is looked for in the reserve as it is, and paid from the reserve
\* after the customer's coins are in it.
SelectDrink(d) ==
  /\ Len(sales) < MaxSales
  /\ total > 0
  /\ Available(d)
  /\ LET change == total - price[d]
         filled == accept_coins(reserve, coin.slot)
     IN  /\ can_make_change(reserve, change)
         /\ tray' = give_change(filled, change)
         /\ reserve' = Minus(filled, tray')
  /\ stock' = [stock EXCEPT ![d] = @ - 1]
  /\ RecordExhaustion(d)
  /\ EnqueueSale(d)
  /\ coin' = NoSlot
  /\ UNCHANGED <<price, today>>

Refund ==
  /\ total > 0
  /\ tray' = coin.slot
  /\ coin' = NoSlot
  /\ UNCHANGED <<reserve, goods, books, today>>

-----------------------------------------------------------------------------
(* Operator and calendar. *)

Reprice(d, p) ==
  /\ price' = [price EXCEPT ![d] = p]
  /\ UNCHANGED <<money, stock, books, today>>

Restock(d, amount) ==
  /\ stock' = [stock EXCEPT ![d] = @ + amount]
  /\ UNCHANGED <<money, price, books, today>>

\* _on_coin_collect: the operator takes the surplus out of the reserve.
CollectCoins ==
  /\ Value(reserve) > 0
  /\ reserve' = Minus(reserve, Surplus(reserve))
  /\ UNCHANGED <<coin, tray, goods, books, today>>

Midnight ==
  /\ today < MaxDay
  /\ today' = today + 1
  /\ UNCHANGED <<money, goods, books>>

Next ==
  \/ \E u \in Units : InsertCoin(u)
  \/ \E d \in Drinks : SelectDrink(d)
  \/ Refund
  \/ \E d \in Drinks, p \in Prices : Reprice(d, p)
  \/ \E d \in Drinks : \E amount \in 1 .. MAX_STOCK - stock[d] : Restock(d, amount)
  \/ CollectCoins
  \/ Midnight

Spec == Init /\ [][Next]_sessionVars

-----------------------------------------------------------------------------
(* Properties. *)

\* The two running totals of a slot agree with the pieces counted in it, and
\* stay within the limits insert_coin enforces (coin_manager.py:78-88).
SlotSound ==
  coin # NoSlot =>
    /\ coin.total = Value(coin.slot)
    /\ coin.bill_total = 1000 * coin.slot[1000]
    /\ coin.total <= MAX_TOTAL
    /\ coin.bill_total <= MAX_BILL_TOTAL

\* select_drink refuses a drink for want of change only when no choice of the
\* reserve's coins is worth the change (transaction.py:122).
RefusalJustified ==
  \A d \in Drinks :
    Available(d) =>
      (can_make_change(reserve, total - price[d]) <=> Payable(reserve, total - price[d]))

\* A drink that sold out has a row in the exhaustion log
\* (transaction.py:131-137): only a sale empties a drink.
SoldOutLogged == \A d \in Drinks : stock[d] = 0 => exhausted[d] > 0

\* The session never keeps, loses or pays money beyond what CashTill allows:
\* the machine's change and the customer's payment are settled exactly even
\* though change is checked on one state of the reserve and paid from another.
Till == INSTANCE CashTill
          WITH StartCash <- Value(InitialReserve), box <- Value(reserve),
               inserted <- total, paid <- Value(tray)

ImplementsTill == Till!Spec

=============================================================================
