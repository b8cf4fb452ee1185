---------------------------- MODULE SalesTerminal ----------------------------
(***************************************************************************)
(* One vending-machine process in --all mode (src/main.py): the sales      *)
(* window, the administrator's window over the same Inventory and          *)
(* ChangeReserve, the files they write, and the sender thread that empties *)
(* the send queue behind their back.                                       *)
(*                                                                         *)
(* The GUI thread runs one handler at a time.  Handlers are single actions *)
(* except two: _on_select is split wherever the sender thread can change   *)
(* the queue it is looking at, and what saves drink_config.json is split   *)
(* where open(..., "w") has emptied the file and json.dump has not filled  *)
(* it yet.  pc is where the GUI thread stands.                             *)
(*                                                                         *)
(* The process may end before or after any step: the files stay, and all   *)
(* else is built anew, by Restart if drink_config.json can be loaded; by   *)
(* StartFails if it cannot.  The process is the only one that uses the     *)
(* files; AdminOffice is about several.                                    *)
(*                                                                         *)
(* What a handler recomputes (SyncStock, RefreshDrinks) it recomputes from *)
(* the new values of the rest, so it stands last.                          *)
(***************************************************************************)
EXTENDS VendingSession, FiniteSetsExt

CONSTANT MaxRestarts     \* bound on the number of restarts

ASSUME RestartsAreBounded == MaxRestarts \in Nat

VARIABLES
  shown,         \* state of each DrinkButton, as _refresh_drinks left it
  pc,            \* "idle"; inside _on_select "peek" or "read"; inside
                 \* save_drink_config "save"; "aborted"; "failed" to start
  admin,         \* "login" dialog not passed yet, window "open", "closed"
  inflight,      \* the record the sender thread has dequeued, 0 if none
  sent,          \* history: records acknowledged since the process started
  boot,          \* history: number of sales when the process started
  restarts,      \* history: number of restarts
  sales_log,     \* sales_log.csv: the sale number of each row
  restock_log,   \* restock_log.csv: pieces added, per drink
  drink_config   \* drink_config.json: "whole" or "empty", and the prices in it

screen == <<shown, pc, admin>>
sender == <<inflight, sent>>
runs   == <<boot, restarts>>
files  == <<sales_log, restock_log, drink_config>>
vars   == <<sessionVars, screen, sender, runs, files>>

ButtonStates == {"soldout", "lit", "dim", "off"}

TerminalTypeOK ==
  /\ TypeOK
  /\ shown \in [Drinks -> ButtonStates]
  /\ pc \in {"idle", "peek", "read", "save", "aborted", "failed"}
  /\ admin \in {"login", "open", "closed"}
  /\ inflight \in 0 .. Len(sales)
  /\ sent \in Seq(Nat)
  /\ boot \in 0 .. Len(sales)
  /\ restarts \in 0 .. MaxRestarts
  /\ sales_log \in Seq(1 .. Len(sales))
  /\ restock_log \in [Drinks -> Nat]
  /\ drink_config \in [state : {"whole", "empty"}, price : [Drinks -> Nat \ {0}]]

-----------------------------------------------------------------------------
(* Operators. *)

\* The style _refresh_drinks gives a button.  "dim" is set_active without
\* purchasable: enough money, no change.
ButtonOf(d) ==
  IF stock[d] = 0 THEN "soldout"
  ELSE IF ~Available(d) THEN "off"
  ELSE IF can_make_change(reserve, total - price[d]) THEN "lit" ELSE "dim"

Buttons == [d \in Drinks |-> ButtonOf(d)]

\* A bug: the buttons are refreshed before the change that concerns them.
RefreshTooEarly == shown' = Buttons

RefreshDrinks == shown' = Buttons'

\* A click reaches the handler when _enabled_flag is set.
Clickable(d) == shown[d] \in {"lit", "dim"}

LoggedSales(d) ==
  {i \in DOMAIN sales_log : sales[sales_log[i]].drink = d}

\* _calc_stock_from_csv
StockFromLogs ==
  [d \in Drinks |->
     LET left == DEFAULT_STOCK - Cardinality(LoggedSales(d)) + restock_log[d]
     IN  IF left > 0 THEN left ELSE 0]

\* _sync_stock_from_csv: set_stock of every drink.
SyncStock == stock' = StockFromLogs'

\* get_daily_total
DailyTotal ==
  MapThenSumSet(LAMBDA i : sales[sales_log[i]].price,
                {i \in DOMAIN sales_log : sales[sales_log[i]].day = today})

TerminalInit ==
  /\ Init
  /\ shown = Buttons
  /\ pc = "idle"
  /\ admin = "login"
  /\ inflight = 0
  /\ sent = << >>
  /\ boot = 0
  /\ restarts = 0
  /\ sales_log = << >>
  /\ restock_log = [d \in Drinks |-> 0]
  /\ drink_config = [state |-> "whole", price |-> DefaultPrice]

-----------------------------------------------------------------------------
(* Sales window.  It is disabled while the administrator's window is open. *)

CustomerTurn == pc = "idle" /\ admin # "open"

OnInsert(u) ==
  /\ CustomerTurn
  /\ InsertCoin(u)
  /\ UNCHANGED <<pc, admin, sender, runs, files>>
  /\ IF Accepts(IF coin = NoSlot THEN init_coin ELSE coin, u)
     THEN RefreshDrinks
     ELSE UNCHANGED shown

OnSelect(d) ==
  /\ CustomerTurn
  /\ Clickable(d)
  /\ SelectDrink(d)
  /\ pc' = "peek"
  /\ UNCHANGED <<shown, admin, sender, runs, files>>

\* peek finds the queue empty and returns None: no row is written.
PeekNone ==
  /\ pc = "peek"
  /\ queue = << >>
  /\ pc' = "idle"
  /\ UNCHANGED <<sessionVars, admin, sender, runs, files>>
  /\ RefreshDrinks

\* peek has found the queue non-empty, and has yet to read its head.
PeekSome ==
  /\ pc = "peek"
  /\ queue # << >>
  /\ pc' = "read"
  /\ UNCHANGED <<sessionVars, shown, admin, sender, runs, files>>

append_sale(n) == sales_log' = Append(sales_log, n)

\* The row is that of the record at the head of the queue.
LogHead ==
  /\ pc = "read"
  /\ queue # << >>
  /\ append_sale(Head(queue))
  /\ pc' = "idle"
  /\ UNCHANGED <<sessionVars, admin, sender, runs, restock_log, drink_config>>
  /\ RefreshDrinks

\* The sender took the head in between: IndexError in a Qt slot, on which
\* PyQt5 aborts the process.
ReadFails ==
  /\ pc = "read"
  /\ queue = << >>
  /\ pc' = "aborted"
  /\ UNCHANGED <<sessionVars, shown, admin, sender, runs, files>>

OnRefund ==
  /\ CustomerTurn
  /\ Refund
  /\ UNCHANGED <<pc, admin, sender, runs, files>>
  /\ RefreshDrinks

-----------------------------------------------------------------------------
(* Administrator.  The password dialog is shown once per process. *)

\* AdminWindow.__init__ takes the stock from the logs; the sales window is
\* not refreshed.
AdminLogin ==
  /\ pc = "idle" /\ admin = "login"
  /\ admin' = "open"
  /\ UNCHANGED <<money, price, books, today, shown, pc, sender, runs, files>>
  /\ SyncStock

\* closeEvent enables the sales window again, and does not refresh it.
AdminClose ==
  /\ pc = "idle" /\ admin = "open"
  /\ admin' = "closed"
  /\ UNCHANGED <<sessionVars, shown, pc, sender, runs, files>>

AdminTurn == pc = "idle" /\ admin = "open"

\* The refresh button of the stock tab.
OnRefreshInventory ==
  /\ AdminTurn
  /\ UNCHANGED <<money, price, books, today, screen, sender, runs, files>>
  /\ SyncStock

\* save_drink_config begins by emptying the file.
EmptyDrinkConfig ==
  /\ drink_config' = [drink_config EXCEPT !.state = "empty"]
  /\ pc' = "save"

\* Names are left out, but prices are saved with them.
OnRename ==
  /\ AdminTurn
  /\ EmptyDrinkConfig
  /\ UNCHANGED <<money, goods, books, today, shown, admin, sender, runs,
                 sales_log, restock_log>>

OnReprice(d, p) ==
  /\ AdminTurn
  /\ price' = [price EXCEPT ![d] = p]
  /\ EmptyDrinkConfig
  /\ UNCHANGED <<money, stock, books, today, shown, admin, sender, runs,
                 sales_log, restock_log>>

\* The text comes when the file is closed; the rest of both handlers follows.
SaveDrinkConfig ==
  /\ pc = "save"
  /\ drink_config' = [state |-> "whole", price |-> price]
  /\ pc' = "idle"
  /\ UNCHANGED <<money, price, books, today, admin, sender, runs, sales_log, restock_log>>
  /\ SyncStock
  /\ RefreshDrinks

append_restock(d, amount) == restock_log' = [restock_log EXCEPT ![d] = @ + amount]

\* A bug: all that was typed is added.
RestockUncapped(d, typed) == append_restock(d, typed)

\* restock and append_restock, with the cap at MAX_STOCK.
RestockCapped(d, typed) ==
  LET room == MAX_STOCK - stock[d]
  IN  append_restock(d, IF typed <= room THEN typed ELSE room)

\* The stock that restock raises is at once taken from the logs again.
OnRestock(d, typed) ==
  /\ AdminTurn
  /\ stock[d] < MAX_STOCK
  /\ RestockCapped(d, typed)
  /\ UNCHANGED <<money, price, books, today, pc, admin, sender, runs,
                 sales_log, drink_config>>
  /\ SyncStock
  /\ RefreshDrinks

\* Nothing is written to a log, and the sales window is not refreshed.
OnCoinCollect ==
  /\ AdminTurn
  /\ CollectCoins
  /\ UNCHANGED <<screen, sender, runs, files>>

-----------------------------------------------------------------------------
(* Sender thread, as far as the queue is concerned. *)

Runs == pc \notin {"aborted", "failed"}

SenderTake ==
  /\ Runs
  /\ inflight = 0 /\ queue # << >>
  /\ inflight' = Head(queue)
  /\ queue' = Tail(queue)
  /\ UNCHANGED <<money, goods, daily_sales, sales, exhausted, today,
                 screen, sent, runs, files>>

SenderAcked ==
  /\ Runs
  /\ inflight # 0
  /\ sent' = Append(sent, inflight)
  /\ inflight' = 0
  /\ UNCHANGED <<sessionVars, screen, runs, files>>

\* A bug: the record goes to the back of the queue.
SenderGivesUpToBack ==
  /\ Runs
  /\ inflight # 0
  /\ queue' = Append(queue, inflight)
  /\ inflight' = 0
  /\ UNCHANGED <<money, goods, daily_sales, sales, exhausted, today,
                 screen, sent, runs, files>>

\* send_sale fails: requeue.
SenderGivesUp ==
  /\ Runs
  /\ inflight # 0
  /\ queue' = <<inflight>> \o queue
  /\ inflight' = 0
  /\ UNCHANGED <<money, goods, daily_sales, sales, exhausted, today,
                 screen, sent, runs, files>>

-----------------------------------------------------------------------------
(* Process and calendar. *)

OnMidnight ==
  /\ Midnight
  /\ UNCHANGED <<screen, sender, runs, files>>

\* A bug: the saved configuration is not loaded.
ForgetDrinkConfig == price' = DefaultPrice

LoadDrinkConfig == price' = drink_config.price

\* SalesWindow.__init__: stock and reserve are the defaults, prices come from
\* the saved configuration and today's sales from the sales log.
Restart ==
  /\ restarts < MaxRestarts
  /\ drink_config.state = "whole"
  /\ restarts' = restarts + 1
  /\ boot' = Len(sales)
  /\ coin' = NoSlot /\ tray' = NoCoins /\ reserve' = InitialReserve
  /\ stock' = DefaultStocks
  /\ LoadDrinkConfig
  /\ daily_sales' = DailyTotal
  /\ queue' = << >>
  /\ inflight' = 0 /\ sent' = << >>
  /\ pc' = "idle" /\ admin' = "login"
  /\ UNCHANGED <<sales, exhausted, today, files>>
  /\ RefreshDrinks

\* json.load raises an exception for an empty file: no window opens.
StartFails ==
  /\ restarts < MaxRestarts
  /\ drink_config.state = "empty"
  /\ restarts' = restarts + 1
  /\ pc' = "failed"
  /\ UNCHANGED <<sessionVars, shown, admin, sender, boot, files>>

TerminalNext ==
  \/ \E u \in Units : OnInsert(u)
  \/ \E d \in Drinks : OnSelect(d)
  \/ PeekNone \/ PeekSome \/ LogHead \/ ReadFails
  \/ OnRefund
  \/ AdminLogin \/ AdminClose \/ OnRefreshInventory \/ OnRename
  \/ \E d \in Drinks, p \in Prices : OnReprice(d, p)
  \/ SaveDrinkConfig
  \/ \E d \in Drinks, typed \in 1 .. MAX_STOCK : OnRestock(d, typed)
  \/ OnCoinCollect
  \/ SenderTake \/ SenderAcked \/ SenderGivesUp
  \/ OnMidnight
  \/ Restart \/ StartFails

TerminalSpec == TerminalInit /\ [][TerminalNext]_vars

-----------------------------------------------------------------------------
(* Properties. *)

\* The records in the sender's hands.
InHand == IF inflight = 0 THEN << >> ELSE <<inflight>>

\* Every sale made since the process started is in exactly one place, sent,
\* in the sender's hands or queued, and the three together are in the order
\* of the sales, whatever fails and is requeued (transaction.py:36-62).
InOrderCustody ==
  sent \o InHand \o queue = [i \in 1 .. Len(sales) - boot |-> boot + i]

\* Neither windows nor logs bring a drink above the cap that _on_restock
\* enforces on the stock it sees (admin_window.py:609-616), although it adds
\* to one number and the stock is then recomputed from others.
StockCap ==
  \A d \in Drinks :
    stock[d] <= MAX_STOCK /\ StockFromLogs[d] <= MAX_STOCK

\* Until the administrator logs in, the buttons show what a click would do:
\* every handler that changes what they depend on refreshes them.
ButtonsFresh == pc = "idle" /\ admin = "login" => shown = Buttons

\* A start brings back the prices asked before it, or fails; and it fails only
\* if the process ended between emptying drink_config.json and filling it
\* (file_manager.py:149-169), from then on always.
PricesSurviveRestart ==
  [][restarts' # restarts =>
       IF pc' = "failed" THEN pc \in {"save", "failed"} ELSE price' = price]_vars

-----------------------------------------------------------------------------
(* What the documentation says, and the code does not do. *)

\* append_sale: "판매 확정 시 CSV에 한 줄 추가" - every confirmed sale has its
\* row in sales_log.csv (file_manager.py:33).
SaleLogged == pc = "idle" => sales_log = [i \in 1 .. Len(sales) |-> i]

\* README: "현재 재고 = 초기 재고(10) - 판매 수 + 보충 수" also holds of the
\* machine that has just started (README.md:159).
StockFollowsLogs == pc = "idle" /\ boot = Len(sales) => stock = StockFromLogs

\* SaleRecord.daily_sales is the machine's sales of the day (transaction.py:27).
DailySalesIsOfTheDay ==
  \A n \in 1 .. Len(sales) :
    sales[n].daily_sales =
      MapThenSumSet(LAMBDA i : sales[i].price,
                    {i \in 1 .. n : sales[i].day = sales[n].day})

=============================================================================
