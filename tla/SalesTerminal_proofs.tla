------------------------ MODULE SalesTerminal_proofs ------------------------
(***************************************************************************)
(* The machine process keeps its types, the custody and the order of its   *)
(* sales, the cap on the stock, the freshness of the buttons and the       *)
(* prices, for every value of the constants.                               *)
(*                                                                         *)
(* The money of the session is settled by VendingSession_proofs: each      *)
(* handler of the sales window is one of its steps.                        *)
(***************************************************************************)
EXTENDS SalesTerminal, VendingSession_proofs, FoldSums, SequenceTheorems

-----------------------------------------------------------------------------
(* Types. *)

\* The inductive invariant of the types: a row of sales_log.csv and the record
\* in the sender's hands come from the queue, so its numbers have to be those
\* of sales; the types of the money need SlotSound.
TypeInv ==
  /\ TerminalTypeOK
  /\ SlotSound
  /\ queue \in Seq(1 .. Len(sales))

LEMMA TypeInvIInv == TypeInv => IInv
BY DEF TypeInv, TerminalTypeOK, IInv

\* get_daily_total adds up natural numbers.
LEMMA DailyTotalType == TypeInv => DailyTotal \in Nat
<1> SUFFICES ASSUME TypeInv PROVE DailyTotal \in Nat
  OBVIOUS
<1> DEFINE S == {i \in DOMAIN sales_log : sales[sales_log[i]].day = today}
           f == [i \in S |-> sales[sales_log[i]].price]
           c == [s \in SUBSET S |-> CHOOSE x \in s : TRUE]
           Is(g) == g = [s \in SUBSET S |->
                      IF s = {} THEN 0
                      ELSE sales[sales_log[CHOOSE x \in s : TRUE]].price
                             + g[s \ {CHOOSE x \in s : TRUE}]]
           it == CHOOSE g : Is(g)
<1>1. sales_log \in Seq(1 .. Len(sales)) /\ sales \in Seq(SaleRecord)
  BY DEF TypeInv, TerminalTypeOK, TypeOK
<1>2. IsFiniteSet(S)
  <2>1. IsFiniteSet(1 .. Len(sales_log))
    BY <1>1, FS_Interval
  <2>2. S \in SUBSET (1 .. Len(sales_log))
    BY <1>1
  <2> HIDE DEF S
  <2> QED  BY <2>1, <2>2, FS_Subset
<1>3. f \in [S -> Nat]
  <2> SUFFICES ASSUME NEW i \in S PROVE sales[sales_log[i]].price \in Nat
    OBVIOUS
  <2>1. sales_log[i] \in 1 .. Len(sales)
    BY <1>1
  <2>2. sales[sales_log[i]] \in SaleRecord
    BY <1>1, <2>1
  <2> QED  BY <2>2 DEF SaleRecord
<1>4. IsChoice(c, S)
  BY DEF IsChoice
<1>5. ASSUME NEW g PROVE Solves(g, c, f, S) <=> Is(g)
  <2> HIDE DEF S
  <2> QED  BY DEF Solves, SumStep
<1>6. Solves(it, c, f, S)
  <2>1. PICK g : Solves(g, c, f, S)
    <3> HIDE DEF c, S, f
    <3> QED  BY <1>2, <1>4, SolutionExists
  <2> HIDE DEF c, Is, S, f
  <2> QED  BY <2>1, <1>5
<1>7. it \in [SUBSET S -> Nat]
  <2> HIDE DEF it, c, f, S
  <2> QED  BY <1>2, <1>3, <1>4, <1>6, SolutionIsSum DEF Sums
<1>8. DailyTotal = it[S]
  BY DEF DailyTotal, MapThenSumSet, MapThenFoldSet
<1> QED  BY <1>7, <1>8

LEMMA InitTypeInv == TerminalInit => TypeInv
<1> SUFFICES ASSUME TerminalInit PROVE TypeInv
  OBVIOUS
<1>1. IInv
  BY InitIInv DEF TerminalInit
<1>2. shown \in [Drinks -> ButtonStates]
  BY DEF TerminalInit, Buttons, ButtonOf, ButtonStates
<1>3. sales = << >> /\ queue = << >> /\ Len(sales) = 0
  BY DEF TerminalInit, Init
<1>4. TerminalTypeOK
  BY <1>1, <1>2, <1>3, SessionConstants, RestartsAreBounded
  DEF TerminalInit, TerminalTypeOK, IInv
<1> QED  BY <1>1, <1>3, <1>4 DEF TypeInv, IInv

\* What the logs count, whatever a step makes of them.
LEMMA LoggedSalesType ==
  ASSUME NEW d, sales_log' \in Seq(Nat)
  PROVE  Cardinality(LoggedSales(d)') \in Nat
<1>1. IsFiniteSet(1 .. Len(sales_log'))
  BY FS_Interval
<1>2. LoggedSales(d)' \in SUBSET (1 .. Len(sales_log'))
  BY DEF LoggedSales
<1>3. IsFiniteSet(LoggedSales(d)')
  BY <1>1, <1>2, FS_Subset
<1> QED  BY <1>3, FS_CardinalityType

\* What _sync_stock_from_csv sets is a stock.
LEMMA SyncStockType ==
  ASSUME SyncStock, sales_log' \in Seq(Nat), restock_log' \in [Drinks -> Nat]
  PROVE  stock' \in [Drinks -> Nat]
<1>1. \A d \in Drinks :
        DEFAULT_STOCK - Cardinality(LoggedSales(d)') + restock_log'[d] \in Int
  BY LoggedSalesType, SessionConstants
<1> QED  BY <1>1 DEF SyncStock, StockFromLogs

ConfigType == [state : {"whole", "empty"}, price : [Drinks -> Nat \ {0}]]

\* The steps that set the stock from the logs.
LEMMA SyncStepTypes ==
  ASSUME TypeInv,
         \/ AdminLogin \/ OnRefreshInventory \/ SaveDrinkConfig
         \/ \E d \in Drinks, typed \in 1 .. MAX_STOCK : OnRestock(d, typed)
  PROVE  /\ IInv'
         /\ restock_log' \in [Drinks -> Nat] /\ drink_config' \in ConfigType
         /\ pc' = "idle" /\ UNCHANGED <<sender, runs, queue, sales, sales_log>>
<1> USE DEF money, books, runs, sender, files
<1>1. UNCHANGED <<sender, runs, queue, sales, sales_log, money, books, today, price>>
      /\ SyncStock /\ pc' = "idle"
  BY DEF AdminLogin, OnRefreshInventory, SaveDrinkConfig, OnRestock, screen, AdminTurn
<1>2. drink_config' \in ConfigType
  <2>1. price \in [Drinks -> Nat \ {0}] /\ drink_config \in ConfigType
    BY DEF TypeInv, TerminalTypeOK, TypeOK, ConfigType
  <2> QED  BY <2>1 DEF AdminLogin, OnRefreshInventory, SaveDrinkConfig, OnRestock, ConfigType
<1>3. restock_log' \in [Drinks -> Nat]
  <2>1. restock_log \in [Drinks -> Nat] /\ stock \in [Drinks -> Nat]
    BY DEF TypeInv, TerminalTypeOK, TypeOK
  <2>2. ASSUME NEW d \in Drinks, NEW typed \in 1 .. MAX_STOCK, OnRestock(d, typed)
        PROVE  restock_log' \in [Drinks -> Nat]
    <3> DEFINE amount == IF typed <= MAX_STOCK - stock[d] THEN typed ELSE MAX_STOCK - stock[d]
    <3>1. amount \in Nat
      BY <2>1, <2>2, SessionConstants DEF OnRestock
    <3>2. restock_log' = [restock_log EXCEPT ![d] = @ + amount]
      BY <2>2 DEF OnRestock, RestockCapped, append_restock
    <3> HIDE DEF amount
    <3> QED  BY <2>1, <3>1, <3>2
  <2> QED  BY <2>1, <2>2 DEF AdminLogin, OnRefreshInventory, SaveDrinkConfig
<1>4. stock' \in [Drinks -> Nat]
  <2>1. sales_log \in Seq(1 .. Len(sales))
    BY DEF TypeInv, TerminalTypeOK
  <2>2. sales_log' \in Seq(Nat)
    BY <1>1, <2>1
  <2> QED  BY <1>1, <1>3, <2>2, SyncStockType
<1>5. IInv'
  BY <1>1, <1>4, SMTT(30) DEF IInv, TypeInv, TerminalTypeOK, TypeOK, SlotSound
<1> QED  BY <1>1, <1>2, <1>3, <1>5

\* The steps that empty drink_config.json.
LEMMA EmptyStepTypes ==
  ASSUME TypeInv,
         OnRename \/ \E d \in Drinks, p \in Prices : OnReprice(d, p)
  PROVE  /\ IInv'
         /\ drink_config' \in ConfigType /\ drink_config'.state = "empty" /\ pc' = "save"
         /\ UNCHANGED <<sender, runs, stock, reserve, coin, queue, sales, shown, admin,
                        sales_log, restock_log>>
<1> USE DEF money, books, goods, runs, sender
<1>1. /\ drink_config' = [drink_config EXCEPT !.state = "empty"] /\ pc' = "save"
      /\ UNCHANGED <<sender, runs, money, stock, books, today, shown, admin,
                     sales_log, restock_log>>
  BY DEF OnRename, OnReprice, EmptyDrinkConfig
<1>2. drink_config' \in ConfigType /\ drink_config'.state = "empty"
  <2>1. drink_config \in ConfigType
    BY DEF TypeInv, TerminalTypeOK, ConfigType
  <2> QED  BY <1>1, <2>1 DEF ConfigType
<1>3. price' \in [Drinks -> Nat \ {0}]
  BY SessionConstants DEF OnRename, OnReprice, TypeInv, TerminalTypeOK, TypeOK
<1>4. IInv'
  BY <1>1, <1>3, SMTT(30) DEF IInv, TypeInv, TerminalTypeOK, TypeOK, SlotSound
<1> QED  BY <1>1, <1>2, <1>4

\* What SelectDrink adds to the books.
LEMMA SoldNumbers ==
  ASSUME TypeInv, NEW d \in Drinks, SelectDrink(d)
  PROVE  /\ sales' \in Seq(SaleRecord) /\ Len(sales') = Len(sales) + 1
         /\ Len(sales) \in Nat
         /\ queue' = Append(queue, Len(sales) + 1)
         /\ queue' \in Seq(1 .. Len(sales'))
         /\ \A n \in 1 .. Len(sales) : sales'[n] = sales[n]
<1>1. sales' \in Seq(SaleRecord) /\ sales \in Seq(SaleRecord)
  BY BooksTypes, TypeInvIInv DEF IInv, TypeOK
<1>2. sales' = Append(sales, [drink |-> d, price |-> price[d],
                              daily_sales |-> daily_sales', day |-> today])
      /\ queue' = Append(queue, Len(sales'))
  BY DEF SelectDrink, EnqueueSale
<1>3. Len(sales') = Len(sales) + 1 /\ Len(sales) \in Nat
      /\ \A n \in 1 .. Len(sales) : sales'[n] = sales[n]
  BY <1>1, <1>2
<1>4. queue \in Seq(1 .. Len(sales'))
  <2>1. 1 .. Len(sales) \subseteq 1 .. Len(sales')
    BY <1>3
  <2> QED  BY <2>1, SeqMonotonic DEF TypeInv
<1>5. queue' \in Seq(1 .. Len(sales'))
  BY <1>2, <1>3, <1>4
<1> QED  BY <1>1, <1>2, <1>3, <1>5

LEMMA NextTypeInv == TypeInv /\ [TerminalNext]_vars => TypeInv'
<1> SUFFICES ASSUME TypeInv, [TerminalNext]_vars PROVE TypeInv'
  OBVIOUS
<1> USE DEF money, goods, books, sessionVars, screen, sender, runs, files
<1>0. /\ IInv
      /\ sales \in Seq(SaleRecord) /\ Len(sales) \in Nat
      /\ queue \in Seq(1 .. Len(sales)) /\ inflight \in 0 .. Len(sales)
      /\ sent \in Seq(Nat) /\ boot \in 0 .. Len(sales) /\ restarts \in 0 .. MaxRestarts
      /\ sales_log \in Seq(1 .. Len(sales)) /\ MaxRestarts \in Nat
      /\ shown \in [Drinks -> ButtonStates]
      /\ drink_config \in ConfigType
  BY TypeInvIInv, RestartsAreBounded DEF TypeInv, TerminalTypeOK, TypeOK, ConfigType
<1> DEFINE Rest == /\ IInv'
                   /\ pc' \in {"idle", "peek", "read", "save", "aborted", "failed"}
                   /\ admin' \in {"login", "open", "closed"}
                   /\ inflight' \in 0 .. Len(sales')
                   /\ sent' \in Seq(Nat)
                   /\ boot' \in 0 .. Len(sales')
                   /\ restarts' \in 0 .. MaxRestarts
                   /\ sales_log' \in Seq(1 .. Len(sales'))
                   /\ restock_log' \in [Drinks -> Nat]
                   /\ drink_config' \in ConfigType
                   /\ queue' \in Seq(1 .. Len(sales'))
<1>1. shown' \in [Drinks -> ButtonStates]
  <2>1. Buttons' \in [Drinks -> ButtonStates]
    BY DEF Buttons, ButtonOf, ButtonStates
  <2> QED  BY <1>0, <2>1
           DEF TerminalNext, vars, OnInsert, OnSelect, PeekNone, PeekSome, LogHead, ReadFails,
               OnRefund, AdminLogin, AdminClose, OnRefreshInventory, OnRename, OnReprice,
               SaveDrinkConfig, OnRestock, OnCoinCollect, SenderTake, SenderAcked,
               SenderGivesUp, OnMidnight, Restart, StartFails, RefreshDrinks
<1>2. ASSUME NEW u \in Units, OnInsert(u) PROVE Rest
  <2>1. IInv'
    BY <1>0, <1>2, NextIInv DEF OnInsert, Next
  <2> QED  BY <1>0, <1>2, <2>1 DEF OnInsert, InsertCoin, TypeInv, TerminalTypeOK
<1>3. ASSUME NEW d \in Drinks, OnSelect(d) PROVE Rest
  <2>1. IInv'
    BY <1>0, <1>3, NextIInv DEF OnSelect, Next
  <2>2. Len(sales') = Len(sales) + 1 /\ queue' \in Seq(1 .. Len(sales'))
    BY <1>3, SoldNumbers DEF OnSelect
  <2>3. sales_log' \in Seq(1 .. Len(sales'))
    <3>1. 1 .. Len(sales) \subseteq 1 .. Len(sales')
      BY <1>0, <2>2
    <3>2. sales_log \in Seq(1 .. Len(sales'))
      BY <1>0, <3>1, SeqMonotonic
    <3> QED  BY <1>3, <3>2 DEF OnSelect
  <2>4. inflight' \in 0 .. Len(sales') /\ boot' \in 0 .. Len(sales')
    BY <1>0, <1>3, <2>2 DEF OnSelect
  <2> QED  BY <1>0, <1>3, <2>1, <2>2, <2>3, <2>4 DEF OnSelect, TypeInv, TerminalTypeOK
<1>4. ASSUME OnRefund PROVE Rest
  <2>1. IInv'
    BY <1>0, <1>4, NextIInv DEF OnRefund, Next
  <2> QED  BY <1>0, <1>4, <2>1 DEF OnRefund, Refund, TypeInv, TerminalTypeOK
<1>5. ASSUME LogHead PROVE Rest
  <2>1. IInv'
    BY <1>0, <1>5, NextIInv DEF LogHead
  <2>2. Head(queue) \in 1 .. Len(sales)
    BY <1>0, <1>5, HeadTailProperties DEF LogHead
  <2>3. sales_log' \in Seq(1 .. Len(sales'))
    BY <1>0, <1>5, <2>2 DEF LogHead, append_sale
  <2> QED  BY <1>0, <1>5, <2>1, <2>3 DEF LogHead, TypeInv, TerminalTypeOK
<1>6. ASSUME PeekNone \/ PeekSome \/ ReadFails \/ AdminClose \/ UNCHANGED vars PROVE Rest
  <2>1. IInv'
    BY <1>0, <1>6, NextIInv DEF PeekNone, PeekSome, ReadFails, AdminClose, vars
  <2> QED  BY <1>0, <1>6, <2>1
           DEF PeekNone, PeekSome, ReadFails, AdminClose, vars, TypeInv, TerminalTypeOK
<1>7. ASSUME \/ AdminLogin \/ OnRefreshInventory \/ SaveDrinkConfig
             \/ \E d \in Drinks, typed \in 1 .. MAX_STOCK : OnRestock(d, typed)
      PROVE  Rest
  <2>1. admin' \in {"login", "open", "closed"}
    BY <1>7 DEF AdminLogin, OnRefreshInventory, SaveDrinkConfig, OnRestock,
                TypeInv, TerminalTypeOK
  <2> QED  BY <1>0, <1>7, <2>1, SyncStepTypes
<1>15. ASSUME OnRename \/ \E d \in Drinks, p \in Prices : OnReprice(d, p)
       PROVE  Rest
  <2>1. admin' \in {"login", "open", "closed"} /\ restock_log' \in [Drinks -> Nat]
    BY <1>15, EmptyStepTypes DEF TypeInv, TerminalTypeOK
  <2> QED  BY <1>0, <1>15, <2>1, EmptyStepTypes
<1>16. ASSUME StartFails PROVE Rest
  <2>1. IInv'
    BY <1>0, <1>16, NextIInv DEF StartFails
  <2>2. restarts' \in 0 .. MaxRestarts
    BY <1>0, <1>16 DEF StartFails
  <2> QED  BY <1>0, <1>16, <2>1, <2>2 DEF StartFails, TypeInv, TerminalTypeOK
<1>8. ASSUME OnCoinCollect PROVE Rest
  <2>1. IInv'
    BY <1>0, <1>8, NextIInv DEF OnCoinCollect, Next
  <2> QED  BY <1>0, <1>8, <2>1 DEF OnCoinCollect, CollectCoins, TypeInv, TerminalTypeOK
<1>9. ASSUME SenderTake PROVE Rest
  <2>1. Head(queue) \in 1 .. Len(sales) /\ Tail(queue) \in Seq(1 .. Len(sales))
    BY <1>0, <1>9, HeadTailProperties DEF SenderTake
  <2>2. queue' \in Seq(Nat)
    <3>1. 1 .. Len(sales) \subseteq Nat
      OBVIOUS
    <3> QED  BY <1>9, <2>1, <3>1, SeqMonotonic DEF SenderTake
  <2>3. IInv'
    BY <1>0, <1>9, <2>2 DEF SenderTake, IInv, TypeOK, SlotSound
  <2>4. inflight' \in 0 .. Len(sales') /\ queue' \in Seq(1 .. Len(sales'))
    BY <1>0, <1>9, <2>1 DEF SenderTake
  <2> QED  BY <1>0, <1>9, <2>3, <2>4 DEF SenderTake, TypeInv, TerminalTypeOK
<1>10. ASSUME SenderAcked PROVE Rest
  <2>1. IInv'
    BY <1>0, <1>10, NextIInv DEF SenderAcked
  <2>2. sent' \in Seq(Nat) /\ inflight' \in 0 .. Len(sales')
    BY <1>0, <1>10 DEF SenderAcked
  <2> QED  BY <1>0, <1>10, <2>1, <2>2 DEF SenderAcked, TypeInv, TerminalTypeOK
<1>11. ASSUME SenderGivesUp PROVE Rest
  <2>1. inflight \in 1 .. Len(sales)
    BY <1>0, <1>11 DEF SenderGivesUp
  <2>2. queue' \in Seq(1 .. Len(sales'))
    <3>1. <<inflight>> \in Seq(1 .. Len(sales))
      BY <2>1
    <3> QED  BY <1>0, <1>11, <3>1, ConcatProperties DEF SenderGivesUp
  <2>3. queue' \in Seq(Nat)
    <3>1. 1 .. Len(sales) \subseteq Nat
      OBVIOUS
    <3> QED  BY <1>11, <2>2, <3>1, SeqMonotonic DEF SenderGivesUp
  <2>4. IInv'
    BY <1>0, <1>11, <2>3 DEF SenderGivesUp, IInv, TypeOK, SlotSound
  <2> QED  BY <1>0, <1>11, <2>2, <2>4 DEF SenderGivesUp, TypeInv, TerminalTypeOK
<1>12. ASSUME OnMidnight PROVE Rest
  <2>1. IInv'
    BY <1>0, <1>12, NextIInv DEF OnMidnight, Next
  <2> QED  BY <1>0, <1>12, <2>1 DEF OnMidnight, Midnight, TypeInv, TerminalTypeOK
<1>13. ASSUME Restart PROVE Rest
  <2>1. InitialReserve \in Coins /\ NoCoins \in Coins
    BY InitialReserveType, NoCoinsValue
  <2>2. daily_sales' \in Nat
    BY <1>13, DailyTotalType DEF Restart
  <2>3. price' \in [Drinks -> Nat \ {0}] /\ stock' \in [Drinks -> Nat]
    BY <1>13, SessionConstants
    DEF Restart, LoadDrinkConfig, DefaultStocks, TypeInv, TerminalTypeOK, ConfigType
  <2>4. IInv'
    BY <1>0, <1>13, <2>1, <2>2, <2>3 DEF Restart, IInv, TypeOK, SlotSound
  <2>5. restarts' \in 0 .. MaxRestarts
    BY <1>0, <1>13 DEF Restart
  <2>6. inflight' \in 0 .. Len(sales') /\ boot' \in 0 .. Len(sales')
        /\ sent' \in Seq(Nat) /\ queue' \in Seq(1 .. Len(sales'))
    BY <1>0, <1>13 DEF Restart
  <2> QED  BY <1>0, <1>13, <2>4, <2>5, <2>6 DEF Restart, TypeInv, TerminalTypeOK
<1>14. Rest
  <2> HIDE DEF Rest
  <2> QED  BY <1>2, <1>3, <1>4, <1>5, <1>6, <1>7, <1>8, <1>9, <1>10, <1>11, <1>12, <1>13,
              <1>15, <1>16
           DEF TerminalNext
<1> QED  BY <1>1, <1>14 DEF TypeInv, TerminalTypeOK, IInv, ConfigType

LEMMA TypeInvAlways == TerminalSpec => []TypeInv
BY InitTypeInv, NextTypeInv, PTL DEF TerminalSpec

(* The types of the machine process's state, daily_sales among them: what a *)
(* start adds up from sales_log.csv is a natural number.                    *)
THEOREM TerminalTypeCorrect == TerminalSpec => []TerminalTypeOK
<1>1. TypeInv => TerminalTypeOK
  BY DEF TypeInv
<1> QED  BY <1>1, TypeInvAlways, PTL

-----------------------------------------------------------------------------
(* Custody of the sales. *)

\* The numbers of the sales made since the process started.
SinceBoot(n, b) == [i \in 1 .. n - b |-> b + i]

LEMMA SinceBootType ==
  ASSUME NEW n \in Nat, NEW b \in 0 .. n
  PROVE  /\ SinceBoot(n, b) \in Seq(Nat)
         /\ Len(SinceBoot(n, b)) = n - b
         /\ \A i \in 1 .. n - b : SinceBoot(n, b)[i] = b + i
<1>1. n - b \in Nat /\ \A i \in 1 .. n - b : b + i \in Nat
  OBVIOUS
<1>2. SinceBoot(n, b) \in [1 .. n - b -> Nat]
  BY <1>1 DEF SinceBoot
<1>3. SinceBoot(n, b) \in Seq(Nat)
  BY <1>1, <1>2, SeqDef
<1> QED  BY <1>1, <1>2, <1>3 DEF SinceBoot

\* One more sale is one more number.
LEMMA SinceBootAppend ==
  ASSUME NEW n \in Nat, NEW b \in 0 .. n
  PROVE  SinceBoot(n + 1, b) = Append(SinceBoot(n, b), n + 1)
<1> DEFINE s == SinceBoot(n, b)
           t == SinceBoot(n + 1, b)
           u == Append(s, n + 1)
<1>1. s \in Seq(Nat) /\ Len(s) = n - b /\ \A i \in 1 .. n - b : s[i] = b + i
  BY SinceBootType
<1>2. t \in Seq(Nat) /\ Len(t) = n + 1 - b /\ \A i \in 1 .. n + 1 - b : t[i] = b + i
  <2>1. n + 1 \in Nat /\ b \in 0 .. n + 1
    OBVIOUS
  <2> QED  BY <2>1, SinceBootType
<1> HIDE DEF s, t
<1>3. u \in Seq(Nat) /\ Len(u) = n - b + 1 /\ u[n - b + 1] = n + 1
      /\ \A i \in 1 .. n - b : u[i] = s[i]
  BY <1>1, AppendProperties
<1>4. Len(t) = Len(u)
  BY <1>2, <1>3
<1>5. ASSUME NEW i \in 1 .. Len(t) PROVE t[i] = u[i]
  <2>1. CASE i = n - b + 1
    BY <1>2, <1>3, <2>1
  <2>2. CASE i # n - b + 1
    <3>1. i \in 1 .. n - b
      BY <1>2, <2>2
    <3> QED  BY <1>1, <1>2, <1>3, <3>1
  <2> QED  BY <2>1, <2>2
<1> HIDE DEF u
<1>6. t = u
  BY <1>2, <1>3, <1>4, <1>5, SeqEqual
<1> QED  BY <1>6 DEF s, t, u

LEMMA NatAssociative ==
  ASSUME NEW s \in Seq(Nat), NEW t \in Seq(Nat), NEW u \in Seq(Nat)
  PROVE  (s \o t) \o u = s \o (t \o u)
BY ConcatAssociative, SMTT(30)

\* A number at the end of one sequence and at the beginning of the next.
LEMMA NatConcat ==
  ASSUME NEW s \in Seq(Nat), NEW e \in Nat, NEW u \in Seq(Nat)
  PROVE  /\ (s \o <<e>>) \o u = s \o (<<e>> \o u)
         /\ s \o Append(u, e) = Append(s \o u, e)
<1>1. PICK one : one = <<e>>
  OBVIOUS
<1>2. one \in Seq(Nat) /\ s \o u \in Seq(Nat)
  BY <1>1, ConcatProperties
<1>3. (s \o one) \o u = s \o (one \o u) /\ s \o (u \o one) = (s \o u) \o one
  <2>1. (s \o one) \o u = s \o (one \o u)
    BY <1>2, NatAssociative
  <2>2. (s \o u) \o one = s \o (u \o one)
    BY <1>2, NatAssociative
  <2> QED  BY <2>1, <2>2
<1>4. Append(u, e) = u \o one /\ Append(s \o u, e) = (s \o u) \o one
  BY <1>1, <1>2, AppendIsConcat
<1> QED  BY <1>1, <1>3, <1>4

LEMMA InitCustody == TerminalInit => InOrderCustody
<1> SUFFICES ASSUME TerminalInit PROVE InOrderCustody
  OBVIOUS
<1>1. sent = << >> /\ InHand = << >> /\ queue = << >> /\ Len(sales) - boot = 0
  BY DEF TerminalInit, Init, InHand
<1>2. SinceBoot(0, 0) = << >>
  <2>1. SinceBoot(0, 0) \in Seq(Nat) /\ Len(SinceBoot(0, 0)) = 0
    BY SinceBootType
  <2> QED  BY <2>1, EmptySeq
<1>3. sent \o InHand \o queue = << >>
  BY <1>1
<1>4. boot = 0 /\ Len(sales) = 0
  BY DEF TerminalInit, Init
<1> QED  BY <1>2, <1>3, <1>4 DEF InOrderCustody, SinceBoot

\* A step from one place to the next keeps the three together.
LEMMA CustodyStep ==
  ASSUME TypeInv, InOrderCustody, [TerminalNext]_vars
  PROVE  InOrderCustody'
<1> USE DEF money, goods, books, sessionVars, screen, sender, runs, files
<1>0. /\ sales \in Seq(SaleRecord) /\ Len(sales) \in Nat
      /\ queue \in Seq(Nat) /\ inflight \in 0 .. Len(sales)
      /\ sent \in Seq(Nat) /\ boot \in 0 .. Len(sales)
      /\ InHand \in Seq(Nat)
      /\ sent \o InHand \o queue = SinceBoot(Len(sales), boot)
  <2>1. /\ sales \in Seq(SaleRecord) /\ Len(sales) \in Nat
        /\ queue \in Seq(Nat) /\ inflight \in 0 .. Len(sales)
        /\ sent \in Seq(Nat) /\ boot \in 0 .. Len(sales)
    BY DEF TypeInv, TerminalTypeOK, TypeOK
  <2>2. InHand \in Seq(Nat)
    BY <2>1 DEF InHand
  <2> QED  BY <2>1, <2>2 DEF InOrderCustody, SinceBoot
<1>1. ASSUME NEW d \in Drinks, OnSelect(d) PROVE InOrderCustody'
  <2>1. Len(sales') = Len(sales) + 1 /\ queue' = Append(queue, Len(sales) + 1)
    BY <1>1, SoldNumbers DEF OnSelect
  <2>2. UNCHANGED <<sent, inflight, boot>>
    BY <1>1 DEF OnSelect
  <2>3. sent \o InHand \in Seq(Nat)
    BY <1>0, ConcatProperties
  <2>4. (sent \o InHand) \o Append(queue, Len(sales) + 1)
          = Append((sent \o InHand) \o queue, Len(sales) + 1)
    <3> DEFINE s == sent \o InHand
               e == Len(sales) + 1
    <3>1. s \in Seq(Nat) /\ e \in Nat
      BY <1>0, <2>3
    <3> HIDE DEF s, e
    <3>2. s \o Append(queue, e) = Append(s \o queue, e)
      BY <1>0, <3>1, NatConcat
    <3> QED  BY <3>2 DEF s, e
  <2>5. (sent' \o InHand') \o queue' = SinceBoot(Len(sales'), boot')
    <3>1. sent' \o InHand' = sent \o InHand
      BY <2>2 DEF InHand
    <3>2. SinceBoot(Len(sales) + 1, boot) = Append(SinceBoot(Len(sales), boot), Len(sales) + 1)
      BY <1>0, SinceBootAppend
    <3> QED  BY <1>0, <2>1, <2>2, <2>4, <3>1, <3>2
  <2> QED  BY <2>5 DEF InOrderCustody, SinceBoot
<1>2. ASSUME SenderTake PROVE InOrderCustody'
  <2>1. inflight = 0 /\ queue # << >> /\ inflight' = Head(queue) /\ queue' = Tail(queue)
        /\ UNCHANGED <<sent, sales, boot>>
    BY <1>2 DEF SenderTake
  <2>2. Head(queue) \in Nat /\ Tail(queue) \in Seq(Nat) /\ Head(queue) # 0
    <3>1. queue \in Seq(1 .. Len(sales))
      BY DEF TypeInv
    <3>2. Head(queue) \in 1 .. Len(sales)
      BY <2>1, <3>1, HeadTailProperties
    <3>3. Head(queue) \in Nat /\ Head(queue) # 0
      BY <1>0, <3>2
    <3> QED  BY <1>0, <2>1, <3>3, HeadTailProperties
  <2>3. InHand = << >> /\ InHand' = <<Head(queue)>>
    BY <2>1, <2>2 DEF InHand
  <2>4. <<Head(queue)>> \o Tail(queue) = queue
    BY <1>0, <2>1
  <2>5. (sent \o <<Head(queue)>>) \o Tail(queue) = sent \o queue
    <3>1. (sent \o <<Head(queue)>>) \o Tail(queue) = sent \o (<<Head(queue)>> \o Tail(queue))
      BY <1>0, <2>2, NatConcat
    <3> QED  BY <2>4, <3>1
  <2>6. sent \o << >> = sent
    BY <1>0, ConcatEmptySeq
  <2>7. (sent' \o InHand') \o queue' = SinceBoot(Len(sales'), boot')
    BY <1>0, <2>1, <2>3, <2>5, <2>6
  <2> QED  BY <2>7 DEF InOrderCustody, SinceBoot
<1>3. ASSUME SenderAcked PROVE InOrderCustody'
  <2>1. InHand = <<inflight>> /\ InHand' = << >> /\ sent' = Append(sent, inflight)
        /\ UNCHANGED <<sales, queue, boot>>
    BY <1>3 DEF SenderAcked, InHand
  <2>2. sent' = sent \o <<inflight>>
    BY <1>0, <2>1, AppendIsConcat
  <2>3. sent' \in Seq(Nat)
    BY <1>0, <2>1, <2>2, ConcatProperties
  <2>4. sent' \o << >> = sent'
    BY <2>3, ConcatEmptySeq
  <2>5. (sent' \o InHand') \o queue' = SinceBoot(Len(sales'), boot')
    BY <1>0, <2>1, <2>2, <2>4
  <2> QED  BY <2>5 DEF InOrderCustody, SinceBoot
<1>4. ASSUME SenderGivesUp PROVE InOrderCustody'
  <2>1. InHand = <<inflight>> /\ InHand' = << >> /\ queue' = <<inflight>> \o queue
        /\ UNCHANGED <<sales, sent, boot>>
    BY <1>4 DEF SenderGivesUp, InHand
  <2>2. (sent \o <<inflight>>) \o queue = sent \o (<<inflight>> \o queue)
    <3>1. inflight \in Nat
      BY <1>0
    <3> QED  BY <1>0, <3>1, NatConcat
  <2>3. sent \o << >> = sent
    BY <1>0, ConcatEmptySeq
  <2>4. (sent' \o InHand') \o queue' = SinceBoot(Len(sales'), boot')
    BY <1>0, <2>1, <2>2, <2>3
  <2> QED  BY <2>4 DEF InOrderCustody, SinceBoot
<1>5. ASSUME Restart PROVE InOrderCustody'
  <2>1. sent' = << >> /\ InHand' = << >> /\ queue' = << >>
        /\ sales' = sales /\ boot' = Len(sales)
    BY <1>5 DEF Restart, InHand
  <2>2. SinceBoot(Len(sales), Len(sales)) = << >>
    <3>1. Len(sales) \in 0 .. Len(sales) /\ Len(sales) - Len(sales) = 0
      BY <1>0
    <3>2. SinceBoot(Len(sales), Len(sales)) \in Seq(Nat)
          /\ Len(SinceBoot(Len(sales), Len(sales))) = 0
      BY <1>0, <3>1, SinceBootType
    <3> QED  BY <3>2, EmptySeq
  <2>3. (sent' \o InHand') \o queue' = << >>
    BY <2>1
  <2> QED  BY <2>1, <2>2, <2>3 DEF InOrderCustody, SinceBoot
<1>6. ASSUME UNCHANGED <<sent, inflight, queue, sales, boot>> PROVE InOrderCustody'
  BY <1>6 DEF InOrderCustody, InHand
<1>7. ASSUME NEW u \in Units, OnInsert(u) PROVE UNCHANGED <<sent, inflight, queue, sales, boot>>
  BY <1>7 DEF OnInsert, InsertCoin
<1>8. ASSUME OnRefund \/ OnCoinCollect \/ OnMidnight
      PROVE  UNCHANGED <<sent, inflight, queue, sales, boot>>
  BY <1>8 DEF OnRefund, Refund, OnCoinCollect, CollectCoins, OnMidnight, Midnight
<1>9. ASSUME PeekNone \/ PeekSome \/ LogHead \/ ReadFails \/ AdminClose \/ StartFails
             \/ UNCHANGED vars
      PROVE  UNCHANGED <<sent, inflight, queue, sales, boot>>
  BY <1>9 DEF PeekNone, PeekSome, LogHead, ReadFails, AdminClose, StartFails, vars
<1>10. ASSUME \/ AdminLogin \/ OnRefreshInventory \/ SaveDrinkConfig
              \/ OnRename \/ \E d \in Drinks, p \in Prices : OnReprice(d, p)
              \/ \E d \in Drinks, typed \in 1 .. MAX_STOCK : OnRestock(d, typed)
       PROVE  UNCHANGED <<sent, inflight, queue, sales, boot>>
  BY <1>10, SyncStepTypes, EmptyStepTypes
<1> QED  BY <1>1, <1>2, <1>3, <1>4, <1>5, <1>6, <1>7, <1>8, <1>9, <1>10 DEF TerminalNext

(* Every sale made since the start is sent, in the sender's hands or queued, *)
(* and the three together are in the order of the sales, however the sender  *)
(* thread interleaves with the windows (transaction.py:36-62).               *)
THEOREM CustodyInOrder == TerminalSpec => []InOrderCustody
<1>1. TypeInv /\ InOrderCustody /\ [TerminalNext]_vars => InOrderCustody'
  BY CustodyStep
<1> QED  BY <1>1, InitCustody, TypeInvAlways, PTL DEF TerminalSpec

-----------------------------------------------------------------------------
(* The cap on the stock. *)

\* While the administrator's window is open, no handler of the sales window
\* runs, so the stock it shows, against which _on_restock measures the room
\* there is, is the one the logs give.
StockSynced ==
  admin = "open" => pc \in {"idle", "save", "failed"} /\ stock = StockFromLogs

CapInv == StockCap /\ StockSynced

\* What the logs give a drink, without the clipping.
Left(d) == DEFAULT_STOCK - Cardinality(LoggedSales(d)) + restock_log[d]

LEMMA StockOfLeft ==
  ASSUME NEW d \in Drinks
  PROVE  StockFromLogs[d] = IF Left(d) > 0 THEN Left(d) ELSE 0
BY DEF StockFromLogs, Left

\* What is counted in the logs now, and that it is still there after a step
\* that keeps their rows and the sales they are about.
LEMMA LoggedSalesNow ==
  ASSUME TypeInv, NEW d
  PROVE  IsFiniteSet(LoggedSales(d)) /\ Cardinality(LoggedSales(d)) \in Nat
<1>1. sales_log \in Seq(1 .. Len(sales))
  BY DEF TypeInv, TerminalTypeOK
<1>2. IsFiniteSet(1 .. Len(sales_log)) /\ DOMAIN sales_log = 1 .. Len(sales_log)
  BY <1>1, FS_Interval
<1>3. LoggedSales(d) \in SUBSET (1 .. Len(sales_log))
  BY <1>2 DEF LoggedSales
<1>4. IsFiniteSet(LoggedSales(d))
  BY <1>2, <1>3, FS_Subset
<1> QED  BY <1>4, FS_CardinalityType

\* A row more in sales_log.csv leaves no drink with more.
LEMMA LogHeadCounts ==
  ASSUME TypeInv, LogHead, NEW d
  PROVE  Cardinality(LoggedSales(d)') \in Nat
         /\ Cardinality(LoggedSales(d)) <= Cardinality(LoggedSales(d)')
<1>1. sales_log \in Seq(1 .. Len(sales)) /\ queue \in Seq(1 .. Len(sales)) /\ queue # << >>
      /\ sales_log' = Append(sales_log, Head(queue)) /\ sales' = sales
  BY DEF TypeInv, TerminalTypeOK, LogHead, append_sale, sessionVars, books
<1>2. Head(queue) \in 1 .. Len(sales)
  BY <1>1, HeadTailProperties
<1>3. sales_log' \in Seq(1 .. Len(sales))
      /\ DOMAIN sales_log \subseteq DOMAIN sales_log'
      /\ \A i \in DOMAIN sales_log : sales_log'[i] = sales_log[i]
  BY <1>1, <1>2, AppendProperties
<1>4. LoggedSales(d) \in SUBSET LoggedSales(d)'
  BY <1>1, <1>3 DEF LoggedSales
<1>5. IsFiniteSet(LoggedSales(d)')
  <2>1. IsFiniteSet(1 .. Len(sales_log')) /\ DOMAIN sales_log' = 1 .. Len(sales_log')
    BY <1>3, FS_Interval
  <2>2. LoggedSales(d)' \in SUBSET (1 .. Len(sales_log'))
    BY <2>1 DEF LoggedSales
  <2> QED  BY <2>1, <2>2, FS_Subset
<1> QED  BY <1>4, <1>5, FS_Subset, FS_CardinalityType

\* A sale says what it said when more are made.
LEMMA SelectKeepsCounts ==
  ASSUME TypeInv, NEW e \in Drinks, OnSelect(e), NEW d
  PROVE  LoggedSales(d)' = LoggedSales(d)
<1>1. sales_log \in Seq(1 .. Len(sales)) /\ sales_log' = sales_log
  BY DEF TypeInv, TerminalTypeOK, OnSelect, files
<1>2. \A i \in DOMAIN sales_log : sales'[sales_log[i]] = sales[sales_log[i]]
  <2>1. \A n \in 1 .. Len(sales) : sales'[n] = sales[n]
    BY SoldNumbers DEF OnSelect
  <2>2. \A i \in DOMAIN sales_log : sales_log[i] \in 1 .. Len(sales)
    BY <1>1
  <2> QED  BY <2>1, <2>2
<1> QED  BY <1>1, <1>2 DEF LoggedSales

LEMMA InitCap == TerminalInit => CapInv
<1> SUFFICES ASSUME TerminalInit PROVE CapInv
  OBVIOUS
<1>1. \A d \in Drinks : LoggedSales(d) = {} /\ restock_log[d] = 0
  BY DEF TerminalInit, LoggedSales
<1>2. \A d \in Drinks : StockFromLogs[d] = DEFAULT_STOCK /\ stock[d] = DEFAULT_STOCK
  <2>1. \A d \in Drinks : Left(d) = DEFAULT_STOCK
    <3> SUFFICES ASSUME NEW d \in Drinks PROVE Left(d) = DEFAULT_STOCK
      OBVIOUS
    <3>1. Cardinality(LoggedSales(d)) = 0
      BY <1>1, FS_EmptySet
    <3> QED  BY <1>1, <3>1, SessionConstants DEF Left
  <2> QED  BY <2>1, StockOfLeft, SessionConstants DEF TerminalInit, Init, DefaultStocks
<1> QED  BY <1>2, SessionConstants DEF CapInv, StockCap, StockSynced, TerminalInit

\* A restock fills a drink up to the cap at most.
LEMMA RestockWithinCap ==
  ASSUME TypeInv, CapInv, NEW e \in Drinks, NEW typed \in 1 .. MAX_STOCK, OnRestock(e, typed),
         NEW d \in Drinks
  PROVE  StockFromLogs[d]' <= MAX_STOCK
<1> DEFINE amount == IF typed <= MAX_STOCK - stock[e] THEN typed ELSE MAX_STOCK - stock[e]
<1>1. UNCHANGED <<sales, sales_log>>
  BY DEF OnRestock, books
<1>2. Cardinality(LoggedSales(d)') = Cardinality(LoggedSales(d))
      /\ Cardinality(LoggedSales(d)) \in Nat
  BY <1>1, LoggedSalesNow DEF LoggedSales
<1>3. stock[e] \in Nat /\ stock[e] < MAX_STOCK /\ amount \in Nat /\ amount <= MAX_STOCK - stock[e]
  <2>1. stock[e] \in Nat /\ stock[e] < MAX_STOCK /\ MAX_STOCK \in Nat /\ typed \in Nat
    BY SessionConstants DEF TypeInv, TerminalTypeOK, TypeOK, OnRestock
  <2> QED  BY <2>1
<1>4. restock_log \in [Drinks -> Nat] /\ restock_log' = [restock_log EXCEPT ![e] = @ + amount]
  BY DEF TypeInv, TerminalTypeOK, OnRestock, RestockCapped, append_restock
<1> HIDE DEF amount
<1>5. StockFromLogs[d] <= MAX_STOCK /\ stock[e] = StockFromLogs[e]
  BY DEF CapInv, StockCap, StockSynced, OnRestock, AdminTurn
<1>6. StockFromLogs[d]' = IF Left(d)' > 0 THEN Left(d)' ELSE 0
  BY DEF StockFromLogs, Left
<1>7. Left(d) \in Int /\ MAX_STOCK \in Nat
  BY <1>2, <1>4, SessionConstants DEF Left
<1>8. CASE d = e
  <2>1. Left(d)' = Left(d) + amount
    BY <1>2, <1>3, <1>4, <1>8, SessionConstants DEF Left
  <2> QED  BY <1>3, <1>5, <1>6, <1>7, <1>8, <2>1, StockOfLeft
<1>9. CASE d # e
  <2>1. Left(d)' = Left(d)
    BY <1>2, <1>4, <1>9 DEF Left
  <2> QED  BY <1>5, <1>6, <1>7, <2>1, StockOfLeft
<1> QED  BY <1>8, <1>9

LEMMA CapStep ==
  ASSUME TypeInv, CapInv, [TerminalNext]_vars
  PROVE  CapInv'
<1> USE DEF money, goods, books, sessionVars, screen, sender, runs, files
<1>0. /\ \A d \in Drinks : stock[d] \in Nat /\ stock[d] <= MAX_STOCK
                           /\ StockFromLogs[d] <= MAX_STOCK
      /\ stock \in [Drinks -> Nat] /\ restock_log \in [Drinks -> Nat] /\ MAX_STOCK \in Nat
  BY SessionConstants DEF TypeInv, TerminalTypeOK, TypeOK, CapInv, StockCap
<1>1. ASSUME UNCHANGED <<stock, sales, sales_log, restock_log>>,
             admin' = "open" => admin = "open" /\ pc' \in {"idle", "save", "failed"}
      PROVE  CapInv'
  <2>1. StockFromLogs' = StockFromLogs
    BY <1>1 DEF StockFromLogs, LoggedSales
  <2> QED  BY <1>1, <2>1 DEF CapInv, StockCap, StockSynced
<1>2. ASSUME NEW u \in Units, OnInsert(u) PROVE CapInv'
  BY <1>1, <1>2 DEF OnInsert, InsertCoin, CustomerTurn
<1>3. ASSUME NEW e \in Drinks, OnSelect(e) PROVE CapInv'
  <2>1. stock' = [stock EXCEPT ![e] = @ - 1] /\ admin' # "open" /\ restock_log' = restock_log
    BY <1>3 DEF OnSelect, SelectDrink, CustomerTurn
  <2>2. \A d \in Drinks : stock'[d] <= MAX_STOCK
    BY <1>0, <2>1
  <2>3. StockFromLogs' = StockFromLogs
    <3>1. \A d : LoggedSales(d)' = LoggedSales(d)
      BY <1>3, SelectKeepsCounts
    <3> QED  BY <2>1, <3>1 DEF StockFromLogs
  <2> QED  BY <1>0, <2>1, <2>2, <2>3 DEF CapInv, StockCap, StockSynced
<1>4. ASSUME OnRefund PROVE CapInv'
  BY <1>1, <1>4 DEF OnRefund, Refund, CustomerTurn
<1>5. ASSUME LogHead PROVE CapInv'
  <2>1. UNCHANGED <<stock, restock_log, admin>> /\ pc = "read"
    BY <1>5 DEF LogHead
  <2>2. admin # "open"
    BY <2>1 DEF CapInv, StockSynced
  <2>3. ASSUME NEW d \in Drinks PROVE StockFromLogs[d]' <= MAX_STOCK
    <3>1. StockFromLogs[d]' = IF Left(d)' > 0 THEN Left(d)' ELSE 0
      BY DEF StockFromLogs, Left
    <3>2. Left(d) \in Int /\ Left(d)' \in Int /\ Left(d)' <= Left(d)
      BY <1>0, <1>5, <2>1, LogHeadCounts, LoggedSalesNow, SessionConstants DEF Left
    <3> QED  BY <1>0, <3>1, <3>2, StockOfLeft
  <2> QED  BY <1>0, <2>1, <2>2, <2>3 DEF CapInv, StockCap, StockSynced
<1>6. ASSUME PeekNone \/ PeekSome \/ ReadFails PROVE CapInv'
  <2>1. admin' # "open"
    BY <1>6 DEF PeekNone, PeekSome, ReadFails, CapInv, StockSynced
  <2> QED  BY <1>1, <1>6, <2>1 DEF PeekNone, PeekSome, ReadFails
<1>7. ASSUME SyncStock, pc' = "idle", \A d \in Drinks : StockFromLogs[d]' <= MAX_STOCK
      PROVE  CapInv'
  BY <1>7 DEF SyncStock, CapInv, StockCap, StockSynced
<1>8. ASSUME AdminLogin \/ OnRefreshInventory \/ SaveDrinkConfig
      PROVE  CapInv'
  <2>1. SyncStock /\ pc' = "idle" /\ UNCHANGED <<sales, sales_log, restock_log>>
    BY <1>8 DEF AdminLogin, OnRefreshInventory, SaveDrinkConfig, AdminTurn
  <2>2. StockFromLogs' = StockFromLogs
    BY <2>1 DEF StockFromLogs, LoggedSales
  <2> QED  BY <1>0, <1>7, <2>1, <2>2
<1>13. ASSUME \/ OnRename \/ \E d \in Drinks, p \in Prices : OnReprice(d, p)
       PROVE  CapInv'
  <2>1. UNCHANGED <<stock, sales, sales_log, restock_log, admin>> /\ pc' = "save"
    BY <1>13, EmptyStepTypes
  <2> QED  BY <1>1, <2>1
<1>14. ASSUME StartFails PROVE CapInv'
  <2>1. UNCHANGED <<stock, sales, sales_log, restock_log, admin>> /\ pc' = "failed"
    BY <1>14 DEF StartFails
  <2> QED  BY <1>1, <2>1
<1>9. ASSUME NEW d \in Drinks, NEW typed \in 1 .. MAX_STOCK, OnRestock(d, typed) PROVE CapInv'
  <2>1. SyncStock /\ pc' = "idle"
    BY <1>9 DEF OnRestock, AdminTurn
  <2> QED  BY <1>7, <1>9, <2>1, RestockWithinCap
<1>10. ASSUME AdminClose \/ OnCoinCollect PROVE CapInv'
  BY <1>1, <1>10 DEF AdminClose, OnCoinCollect, CollectCoins, AdminTurn
<1>11. ASSUME SenderTake \/ SenderAcked \/ SenderGivesUp \/ OnMidnight \/ UNCHANGED vars
       PROVE  CapInv'
  <2>1. UNCHANGED <<stock, sales, sales_log, restock_log, admin, pc>>
    BY <1>11 DEF SenderTake, SenderAcked, SenderGivesUp, OnMidnight, Midnight, vars
  <2>2. admin' = "open" => admin = "open" /\ pc' \in {"idle", "save", "failed"}
    BY <2>1 DEF CapInv, StockSynced
  <2> QED  BY <1>1, <2>1, <2>2
<1>12. ASSUME Restart PROVE CapInv'
  <2>1. stock' = DefaultStocks /\ admin' = "login" /\ UNCHANGED <<sales, sales_log, restock_log>>
    BY <1>12 DEF Restart
  <2>2. StockFromLogs' = StockFromLogs
    BY <2>1 DEF StockFromLogs, LoggedSales
  <2>3. \A d \in Drinks : stock'[d] <= MAX_STOCK
    BY <2>1, SessionConstants DEF DefaultStocks
  <2> QED  BY <1>0, <2>1, <2>2, <2>3 DEF CapInv, StockCap, StockSynced
<1> QED  BY <1>2, <1>3, <1>4, <1>5, <1>6, <1>8, <1>9, <1>10, <1>11, <1>12, <1>13, <1>14
         DEF TerminalNext

(* Neither the windows nor the logs bring a drink above MAX_STOCK, although *)
(* _on_restock adds to what the window shows and the stock is recomputed    *)
(* from the logs (admin_window.py:597-631).                                 *)
THEOREM StockWithinCap == TerminalSpec => []StockCap
<1>1. TypeInv /\ CapInv /\ [TerminalNext]_vars => CapInv'
  BY CapStep
<1>2. CapInv => StockCap
  BY DEF CapInv
<1> QED  BY <1>1, <1>2, InitCap, TypeInvAlways, PTL DEF TerminalSpec

-----------------------------------------------------------------------------
(* The buttons. *)

\* The buttons depend on the stock, the prices, the reserve and the money in
\* the slot.
LEMMA ButtonsOfSame ==
  ASSUME UNCHANGED <<stock, price, reserve>>, total' = total
  PROVE  Buttons' = Buttons
BY DEF Buttons, ButtonOf, Available

LEMMA ButtonsStep ==
  ASSUME ButtonsFresh, [TerminalNext]_vars
  PROVE  ButtonsFresh'
<1> USE DEF money, goods, books, sessionVars, screen, sender, runs, files
<1>1. ASSUME RefreshDrinks PROVE ButtonsFresh'
  BY <1>1 DEF RefreshDrinks, ButtonsFresh
<1>2. ASSUME admin' # "login" \/ pc' # "idle" PROVE ButtonsFresh'
  BY <1>2 DEF ButtonsFresh
<1>3. ASSUME UNCHANGED <<shown, pc, admin, stock, price, reserve>>, total' = total
      PROVE  ButtonsFresh'
  BY <1>3, ButtonsOfSame DEF ButtonsFresh
<1>4. ASSUME NEW u \in Units, OnInsert(u) PROVE ButtonsFresh'
  <2> DEFINE s == IF coin = NoSlot THEN init_coin ELSE coin
  <2>1. CASE Accepts(s, u)
    BY <1>1, <1>4, <2>1 DEF OnInsert
  <2>2. CASE ~Accepts(s, u)
    <3>1. coin' = s /\ UNCHANGED <<shown, pc, admin, stock, price, reserve>>
      BY <1>4, <2>2 DEF OnInsert, InsertCoin, Inserted
    <3>2. total' = total
      BY <3>1, SessionConstants, InitCoinSound DEF total, init_coin
    <3> QED  BY <1>3, <3>1, <3>2
  <2> QED  BY <2>1, <2>2
<1>5. ASSUME NEW d \in Drinks, OnSelect(d) PROVE ButtonsFresh'
  BY <1>2, <1>5 DEF OnSelect
<1>6. ASSUME PeekNone \/ LogHead \/ OnRefund \/ SaveDrinkConfig \/ Restart PROVE ButtonsFresh'
  BY <1>1, <1>6 DEF PeekNone, LogHead, OnRefund, SaveDrinkConfig, Restart
<1>7. ASSUME PeekSome \/ ReadFails \/ OnRename \/ StartFails PROVE ButtonsFresh'
  BY <1>2, <1>7 DEF PeekSome, ReadFails, OnRename, EmptyDrinkConfig, StartFails
<1>8. ASSUME AdminLogin \/ AdminClose \/ OnRefreshInventory \/ OnCoinCollect PROVE ButtonsFresh'
  BY <1>2, <1>8 DEF AdminLogin, AdminClose, OnRefreshInventory, OnCoinCollect, AdminTurn
<1>9. ASSUME NEW d \in Drinks, NEW p \in Prices, OnReprice(d, p) PROVE ButtonsFresh'
  BY <1>2, <1>9 DEF OnReprice, EmptyDrinkConfig
<1>10. ASSUME NEW d \in Drinks, NEW typed \in 1 .. MAX_STOCK, OnRestock(d, typed)
       PROVE  ButtonsFresh'
  BY <1>1, <1>10 DEF OnRestock
<1>11. ASSUME SenderTake \/ SenderAcked \/ SenderGivesUp \/ OnMidnight \/ UNCHANGED vars
       PROVE  ButtonsFresh'
  <2>1. UNCHANGED <<shown, pc, admin, stock, price, reserve, coin>>
    BY <1>11 DEF SenderTake, SenderAcked, SenderGivesUp, OnMidnight, Midnight, vars
  <2>2. total' = total
    BY <2>1 DEF total
  <2> QED  BY <1>3, <2>1, <2>2
<1> QED  BY <1>4, <1>5, <1>6, <1>7, <1>8, <1>9, <1>10, <1>11 DEF TerminalNext

(* Until the administrator logs in, the buttons show what a click would do: *)
(* every handler that changes what they depend on ends with                 *)
(* _refresh_drinks (sales_window.py:322-375).  After the login they may not *)
(* (the login itself, a refresh of the stock and a collection of coins do   *)
(* not redraw them), and nothing is said of them.                           *)
THEOREM ButtonsAreFresh == TerminalSpec => []ButtonsFresh
<1>1. TerminalInit => ButtonsFresh
  BY DEF TerminalInit, ButtonsFresh
<1>2. ButtonsFresh /\ [TerminalNext]_vars => ButtonsFresh'
  BY ButtonsStep
<1> QED  BY <1>1, <1>2, PTL DEF TerminalSpec

-----------------------------------------------------------------------------
(* The prices. *)

\* drink_config.json holds the prices the machine asks, or it is empty, and
\* then the handler that saves them is between its two halves, or ended there.
ConfigCurrent ==
  IF drink_config.state = "whole" THEN drink_config.price = price
  ELSE pc \in {"save", "failed"}

\* What a step does to a start.
StartIsSound ==
  restarts' # restarts =>
    IF pc' = "failed" THEN pc \in {"save", "failed"} ELSE price' = price

LEMMA ConfigStep ==
  ASSUME TypeInv, ConfigCurrent, [TerminalNext]_vars
  PROVE  ConfigCurrent' /\ StartIsSound
<1> USE DEF money, goods, books, sessionVars, screen, sender, runs, files
<1>0. drink_config.state \in {"whole", "empty"}
  BY DEF TypeInv, TerminalTypeOK
<1>1. ASSUME UNCHANGED <<drink_config, price, restarts>>,
             pc \in {"save", "failed"} => pc' \in {"save", "failed"}
      PROVE  ConfigCurrent' /\ StartIsSound
  BY <1>1 DEF ConfigCurrent, StartIsSound
<1>2. ASSUME NEW u \in Units, OnInsert(u) PROVE ConfigCurrent' /\ StartIsSound
  BY <1>1, <1>2 DEF OnInsert, InsertCoin
<1>3. ASSUME NEW d \in Drinks, OnSelect(d) PROVE ConfigCurrent' /\ StartIsSound
  BY <1>1, <1>3 DEF OnSelect, SelectDrink, CustomerTurn
<1>4. ASSUME OnRefund \/ OnCoinCollect \/ OnMidnight PROVE ConfigCurrent' /\ StartIsSound
  BY <1>1, <1>4 DEF OnRefund, Refund, OnCoinCollect, CollectCoins, OnMidnight, Midnight
<1>5. ASSUME PeekNone \/ PeekSome \/ LogHead \/ ReadFails \/ AdminLogin \/ AdminClose
             \/ OnRefreshInventory \/ SenderTake \/ SenderAcked \/ SenderGivesUp
             \/ UNCHANGED vars
      PROVE  ConfigCurrent' /\ StartIsSound
  BY <1>1, <1>5
  DEF PeekNone, PeekSome, LogHead, ReadFails, AdminLogin, AdminClose, AdminTurn,
      OnRefreshInventory, SenderTake, SenderAcked, SenderGivesUp, vars
<1>6. ASSUME NEW d \in Drinks, NEW typed \in 1 .. MAX_STOCK, OnRestock(d, typed)
      PROVE  ConfigCurrent' /\ StartIsSound
  BY <1>1, <1>6 DEF OnRestock, AdminTurn
<1>7. ASSUME OnRename \/ \E d \in Drinks, p \in Prices : OnReprice(d, p)
      PROVE  ConfigCurrent' /\ StartIsSound
  <2>1. drink_config'.state = "empty" /\ pc' = "save" /\ restarts' = restarts
    BY <1>7, EmptyStepTypes
  <2> QED  BY <2>1 DEF ConfigCurrent, StartIsSound
<1>8. ASSUME SaveDrinkConfig PROVE ConfigCurrent' /\ StartIsSound
  BY <1>8 DEF SaveDrinkConfig, ConfigCurrent, StartIsSound
<1>9. ASSUME Restart PROVE ConfigCurrent' /\ StartIsSound
  BY <1>9 DEF Restart, LoadDrinkConfig, ConfigCurrent, StartIsSound
<1>10. ASSUME StartFails PROVE ConfigCurrent' /\ StartIsSound
  BY <1>10 DEF StartFails, ConfigCurrent, StartIsSound
<1> QED  BY <1>2, <1>3, <1>4, <1>5, <1>6, <1>7, <1>8, <1>9, <1>10 DEF TerminalNext

(* A start brings back the prices that were asked before it, whatever set   *)
(* them; or it fails, and does so only when the process ended after         *)
(* save_drink_config had emptied the file and before it had filled it       *)
(* (admin_window.py:536-556, file_manager.py:149-169).                      *)
THEOREM PricesKept == TerminalSpec => PricesSurviveRestart
<1>1. TerminalInit => ConfigCurrent
  BY DEF TerminalInit, Init, ConfigCurrent
<1>2. TypeInv /\ ConfigCurrent /\ [TerminalNext]_vars => ConfigCurrent'
  BY ConfigStep
<1>3. TypeInv /\ ConfigCurrent /\ [TerminalNext]_vars
        => [restarts' # restarts =>
              IF pc' = "failed" THEN pc \in {"save", "failed"} ELSE price' = price]_vars
  BY ConfigStep DEF StartIsSound
<1> QED  BY <1>1, <1>2, <1>3, TypeInvAlways, PTL DEF TerminalSpec, PricesSurviveRestart

=============================================================================
