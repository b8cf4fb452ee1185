# Verification of the vending machine

TLA+ specifications of the vending machine program in `src/`, TLC runs that
check them on small instances, and TLAPS proofs. `PROJECT.json` lists the
components, the runs, which lines each definition stands for, the hazards of
the code and the theorems.

## The system

A vending machine is one process with a Qt GUI. It sells drinks, keeps its money
and stock, writes log files and reports each sale to a server over TCP. Two
servers each serve some of the machines and forward to each other what they
receive. A web page shows the totals.

| Component | State | Operations | What makes it correct |
|---|---|---|---|
| Coin slot, change reserve (`client/core/coin_manager.py`) | pieces and totals of the customer's money; coins per unit | `insert_coin`, `can_make_change`, `give_change`, `accept_coins`, `collect` | totals agree with the pieces, limits hold, change is exact and found whenever there is any |
| Vending session (`client/core/transaction.py`) | slot, reserve, `daily_sales`, send queue | `insert_coin`, `select_drink`, `refund` | no money lost or invented; a refusal is justified |
| Inventory (`client/core/beverage.py`) | stock and price per drink | `sell`, `restock`, `set_stock`, `reprice` | stock never negative nor above the cap |
| Sales window (`client/ui/sales_window.py`, `main.py`) | state of the drink buttons | `_on_insert`, `_on_select`, `_on_refund`, `_refresh_drinks` | the buttons show what a click does; each sale has its row |
| Administrator window (`client/ui/admin_window.py`) | the last query; stock and prices: shared with the sales window (`--all`) or its own (`--admin`) | login, stock, rename, reprice, restock, sales query, collection of sales, coin collection, password | what it changes is saved and consistent with the logs; sales of a period are collected once; its table of drinks accounts for the total |
| Files (`client/data/`) | sales, restock, exhaustion and collection logs, drink configuration, password hash | append, load, save | what was saved is there after a restart; no row is lost |
| Client network (`client/network/client_socket.py`) | `_sock`, `_connected`, `_recv_lock`; sender and heartbeat threads | `send_sale`, `_wait_ack`, `_reconnect` | each sale delivered, in order, threads survive |
| Server handler, registry (`server/server_handler.py`) | one thread per connection; machine to handler | SALE, HEARTBEAT, end of connection | a sale counted once; the registry names no handler that has ended |
| Server store (`server/server_db.py`) | a search tree per machine, stock snapshots, one lock | `record_sale`, `update_inventory`, queries | totals are sums of the sales; snapshots advance |
| Sales tree, sorts, searches (`client/core/sales_tree.py`, `sort_search.py`) | the tree | `insert`, `range_query`, `inorder`, `monthly_total`, quick and selection sort, binary search | they find and order what their inputs hold, whatever the shape of the tree |
| Web server (`server/web_server.py`) | none: a thread per request reads the store | breakdown by drink, monthly and daily chart | a page shows the store as of some time while it was computed |
| Server synchronisation (`server/sync_manager.py`) | queue, one connection to the peer | `push`, `_sender_loop`, `_handle_peer` | the peer gets every item, in order |

The GUI thread, the sender thread and the heartbeat thread share the send queue
and the socket. In `--all` mode the two windows share the inventory and the
reserve and run on the GUI thread; `--sales` and `--admin` are processes of their own
that share only the files, which nobody locks. The files outlive the process;
nothing else does. On a server the handlers of machines, the handlers of the
peer and the web requests are threads over one store.

Hard to test here: the sender thread empties the queue behind the GUI's back;
sender and heartbeat share one socket and one stream of ACKs that name nothing;
connections fail between any two steps; a process ends between any two steps;
the stock is kept in one place and recomputed from another; a process runs
past midnight; two administrators, and the sales processes of three machines
(`launch_clients.sh`), write the same files; drinks are renamed between sales; a page is computed
while sales are recorded; handlers of an abandoned and of the present connection
alternate in the store.

## Modules

| Module | Models | Composes |
|---|---|---|
| `CoinManager` | money: slot, reserve, the greedy loop. Operators, no state | |
| `CashTill` | abstract: what the machine promises about money | |
| `VendingSession` | session, inventory and queue; one action per method | extends `CoinManager`, implements `CashTill` |
| `SalesTerminal` | the process in `--all` mode: both windows, files, sender thread, restarts | extends `VendingSession` |
| `AdminOffice` | `--admin` processes, the `--sales` process of their machine and those of others over the shared files | |
| `SalesReport` | the table of drinks of the sales tab | extends `AdminOffice`, `SortSearch` |
| `SaleFeed` | abstract: sales are confirmed once each, in order | |
| `ClientLink` | both threads of `VendingClient`, TCP connections, server handlers and registry | implements `SaleFeed` |
| `ServerSync` | the sender of one server and the peer's handlers | implements `SaleFeed` |
| `SalesTree`, `SortSearch` | the search tree, the sorts and the searches, as operators | |
| `PeerStore` | the peer's store, filled by those handlers, and a request of the web page | extends `ServerSync`, `SalesTree`, `SortSearch` |
| `VendingSession_proofs`, `SalesTerminal_proofs`, `ClientLink_proofs`, `ServerSync_proofs` | theorems about the module of that name (the first also about `CoinManager`) | |
| `AdminOffice_proofs` | theorems about `AdminOffice` and `SalesReport`, and what the quick sort returns | |
| `SalesTree_proofs` | what the operators of `SalesTree` and the binary search return | |
| `PeerStore_proofs` | theorems about `PeerStore` | extends `ServerSync_proofs`, `SalesTree_proofs` |
| `FoldSums` | what a fold and a sum taken with one are: lemmas for the other proof modules | |
| `MC*` | TLC instances | |

### How state and actions correspond to the code

`CoinManager`. A bag of coins (function from units to counts) stands for the
`slot[]` array, the `_coins` dictionary and a `ChangeStack`. `Greedy` is the
loop over 500, 100, 50, 10 unrolled, so that it needs no recursion; `Payable`
says without an algorithm that some choice of coins is worth an amount.

`VendingSession`. `coin`, `reserve`, `stock`, `price`, `daily_sales`, `queue` are
the attributes of the code; `tray` is the last payout, `sales` the history of
records, `exhausted` the rows of the exhaustion log. A record in the queue is its
number in `sales`. `SelectDrink` is the whole of `select_drink`: the guards, the
look for change in the reserve *as it is*, the decrement, the exhaustion row,
the coins into the reserve, the change out of it, the record. It is one action:
only the GUI thread runs it, and of what it changes the sender thread sees only
the queue, with one append. (A process that ends in the middle of it is
modelled as ending before or after it.)

`SalesTerminal`. A handler of the GUI thread is one action, with two exceptions. `_on_select`,
after the sale, looks at the head of the queue, which the sender thread may
take: `PeekNone`, `PeekSome`, `LogHead`, and
`ReadFails` when the head is taken between `peek`'s test and its access
(IndexError in a Qt slot, on which PyQt5 ends the process). And a handler that saves
`drink_config.json` (`OnRename`, `OnReprice`) leaves the file empty (`EmptyDrinkConfig`) until
`SaveDrinkConfig` has filled it and done the rest of the handler, so that the process may end in
between. `pc` says where the GUI thread stands. What `_sync_stock_from_csv`
and `_refresh_drinks` recompute comes last in each handler that calls them, as in
the code. The sales window is disabled while the administrator's is open; when
it is enabled again it is not refreshed: from the login on its buttons may be stale, and
`ButtonsFresh` says nothing of them. `Restart` may happen anywhere: files and
calendar stay, everything else is what `SalesWindow.__init__` makes it; if the configuration
is found empty, the start fails instead (`StartFails`), and every later one. The
sender thread appears as `SenderTake`, `SenderAcked` and `SenderGivesUp`;
`ClientLink` is the detailed account of it (a sender thread that died is one
that takes no more steps).

`ClientLink`. A thread is a program counter with a step at every access to
`_sock`, since the other thread may close it or set it to `None` in between.
`Dies` is an exception nobody catches (an attribute of `None`; `settimeout` on a
closed socket). The one exception is a COMMAND, whose header and payload are read in one step. A connection has messages on their way up and down and is
`open`, `reset` by the network or `closed` by the client; closing lets the data
already written arrive, a reset loses it. Each connection has its handler.
Whether a handler adds a low-stock COMMAND, and whether the last ACK is more
than 90 s old when a heartbeat got no answer, is left open (`WaitFails`); by the clock it takes about
three unanswered heartbeats, so that the reconnect in the trace of `link_dropped` comes that
much later. A handler that ends removes its machine's entry from the registry, whoever is registered.

`_handle_sale` is three steps (`RecordSale`, `UpdateInventory`, `AnswerSale`): the
store's lock is taken for the sale and again for the stock snapshot.

`ServerSync`. `_sender_loop` with its one item under way, and `_handle_peer`, whose
`record_sale` and `update_inventory` are two critical sections as well
(`RecordSync`, `UpdateSnapshot`, `AnswerSync`). The other direction is the same and
independent, since what the peer sent is not pushed again. `Push` is the step of
`AnswerSale` that concerns it. An item is tried until it is confirmed (`README.md:526` of the
program speaks of three attempts; the loop has no limit).

`SalesTree`, `SortSearch`. A tree has one node for each date, so the date names the node:
a tree is the name of its root and a function from names to nodes, whose links are names
or `None`. A method that goes down the tree is a recursive function on these names, and so
are the quick sort on lists and the binary search on intervals. `insert` gives back, as the
code does, the node to hang where it was called. `by_drink` is not part of a node here: it is a
mutable object which a query's result shares with the tree, so `PeerStore` keeps it in
a variable, by date.

`PeerStore`. `StartRecord` is `RecordSync` with the lock taken and the tree's node
updated; `AddCount` and `AddAmount` are the two assignments to the entry of the
drink, after which the lock is free. All other methods of the store hold the lock
and are one step, but `drink_breakdown` gives it back after its range query: `FirstNode`,
`ReadCount`, `ReadAmount`, `NextNode` go through the dictionaries while `AddCount` and
`AddAmount` change them, and `LoopFails` is Python's RuntimeError when a dictionary has
grown. A page may therefore show the count of a sale without its amount;
`BreakdownBetween` says that it is never worse than that, for each of the two numbers.
The monthly and daily charts take the lock anew for each bar.

`AdminOffice`. A step is one access to a file: the test for an empty log, the
header, the row; the two halves of `open(..., "w")`, which empties the file at once and
fills it when it is closed. Two reads in a row (`_calc_stock_from_csv`) are one step,
and so are the header of a log and the emptying before it. If two processes save
`drink_config.json` at once, the longer text may stick out behind the shorter
("damaged"). `Cut` ends a process between two steps. `budget` bounds what may happen.

The machine's sales process sells (`Sell`), looks at the head of its queue (`Peek`), which
may be an earlier sale's record or nothing, as the sender thread has emptied it or not (`Deliver`), and appends
the row. The head may be in the sender's hands, in front of the queue proper, so `Peek` may
find the first record or the second. The sales processes of other machines append to the same
`sales_log.csv`; their rows are skipped by `client_id` wherever the log is read, so only the
test, the header and the fact that they write are kept (`SellElsewhere`, `TestSalesSize`,
`WriteSalesHeader`, `AppendSale`). A drink has a name, which a row keeps from the time of the
sale. A sale of this machine has the name and price its process loaded last: it does not see what an administrator
changes before it is started again.

The history variables say under which circumstances a property may fail. `fresh` are the files
nobody else has written since a process read them, `blind` the files once written by a
process for which they were not (for a log: or emptied for a header over another's rows): what is saved or added up there depends on what went
lost then, for ever. What ends again is told by two others: `overtaken` are the processes that stand between
looking for a header, or emptying a file, and writing it, while another has written that file;
`spoiled` are the files left by a process that ended there or was overtaken there, until one writes them undisturbed.
`RowsKept` and `FilesReadable` exempt only these.

`SalesReport`. The table by drink that `_query_sales` fills from `_load_sales_detail`: an
entry for each name in the rows of the period, in the order of the log (`Counted`), which the
quick sort then puts in order. The days (`Daily`), from which the total is summed up, are
in `AdminOffice`, since a collection records that total.

## Runs

| Run | Instance | What it shows |
|---|---|---|
| `session_cash` | 2 drinks at 450 and 700 won, one repricing to 755; 500 and 1000 won pieces; limits 1000 and 2000 won; 2 coins per unit, 1 kept; 3 sales; 2 days | slot totals, justified refusals, exhaustion log, `CashTill` |
| `terminal` | 2 drinks, initial stock 1, cap 2; 1 coin per unit; 2 sales, 2 days, 1 restart | custody and order of the records, the stock cap, fresh buttons, prices after a restart that finds the configuration whole, and when it does not |
| `link` | 2 sales, 2 attempts, 3 connections, 1 reset, 1 late answer, 2 heartbeats | what holds when nothing disturbs the ACKs; `SaleFeed` always; which handlers may turn the stock back |
| `link_arrives` | 2 sales, 2 resets, no heartbeat, no late answer, fair threads | every sale is stored |
| `sync` | 2 items from 3 histories, 3 connections, 1 reset, 1 late answer, any number of page requests one after the other, fair threads | nothing forgotten, order, every item arrives; the store agrees with what was recorded; what a page shows |
| `office` | 2 administrators, 1 sales process and 1 of another machine, 2 drinks, 2 names, 2 days, initial stock 1, cap 2, the ten budgets of `MCAdminOffice` | the stock cap, saved names and prices, readable files, kept rows, collections, the table of drinks |
| `terminal_unlogged` | | a sale without its row in `sales_log.csv` |
| `terminal_restart_stock` | | a restarted machine with more stock than its logs give |
| `terminal_daily` | | yesterday's sales in today's `daily_sales` |
| `link_lost` | 1 sale, 1 heartbeat, 1 reset | a confirmed sale that is lost |
| `link_dropped` | 1 sale, 1 heartbeat, 1 late answer | the sender thread dies with a record |
| `sync_duplicate` | 1 item, 1 reset | an item recorded twice by the peer |

The runs of the second half disagree with what the documentation says of the
program; `PROJECT.json` quotes it under "findings".

Bounds. Two drinks: one that needs change and one that need not. The
reserve of `session_cash` runs out of 50-won coins within three sales, and 755
can never be changed exactly; the proofs cover all other values. Two records and a sender
are enough for one to be put back behind the other. Stock 1 with cap 2 and two sales reaches
sold-out drinks, a restock at the cap, and, after a restart, a stock that differs from that of
the logs. One reset, one late answer and two heartbeats suffice for every way the
two threads can take the socket from each other; three connections are what these
failures can use up. `sync` puts a reset, a late answer and a page request into every
place of two deliveries; two items are what an order needs, and the histories have dates
that ascend, dates that descend, and two drinks on a day, across the end of a month and
of a year. (What the run shows of the store and the page is proved for all bounds, but that every item arrives.) The sorts and the tree are also checked
on their own, by assumptions of `MCPeerStore` that TLC evaluates: all
lists of up to four elements. The budgets of `office` put
together what can disturb each other: names, prices and a crash; passwords and a crash; restocks, sales
and a crash; restocks, sales here and elsewhere and a restart; queries and collections, with sales, midnight
or another machine's sale; sales, a renaming, a restart and midnight; and some of everything.
Administrators, and drinks with their names, may be exchanged there (symmetry; no liveness is checked). Deadlock is not checked in runs that stop at their bounds (number of sales,
connections); `session_cash` has the check on, since the
customer or the operator can always do something.

Fairness. Safety properties assume none. `link_arrives` assumes that a sender
thread, a heartbeat thread and a handler that can take a step do so: they are
operating-system threads that block only in the calls modelled (`start()`
starts them, `client_socket.py:280-288`). Nothing is assumed of customers or the
network, except that it fails finitely often (`MaxResets`, `MaxTimeouts`). `sync`
assumes the same of the synchronisation threads; nothing is assumed of page
requests, and a handler that holds the lock goes on.

## Proofs

All for arbitrary values of the constants that meet the named assumptions:
natural limits, positive prices, any set of drinks (`LimitsAreNaturals`,
`SessionConstants`, `RestartsAreBounded`); any number of sales, connections and failures
and a buffer of at least two messages (`LinkConstants`, `SyncConstants`); any
administrators, days and budgets, and an initial stock not above the cap, as 10 and 10
in the code (`OfficeConstants`); for the store and its page, any drinks with positive prices and
any histories of sales whose dates are dates, from year 1 to year 9999, and charts of up to
twelve months and any list of days (`StoreConstants`). Every invariant a run checks is
a theorem. What the runs check was checked by TLC before it was proved.

`VendingSession_proofs`, first about `CoinManager`. `GreedyComplete`: the greedy loop makes change for an amount
exactly when it is payable. Each unit divides the next (50 is five times
10, 100 twice 50, 500 five times 100): a payout of a large remainder by smaller
units contains pieces worth a whole number of the next unit (lemmas `Shrink10`,
`Shrink50`, `Shrink100`), which can be exchanged for it; so taking as many of
the largest unit as possible loses nothing (`Take500`, `Take100`, `Take50`,
`Take10`). `ChangeSurvivesAcceptance` follows: more coins do not hurt, so the check
`select_drink` makes before it adds the customer's coins is good for the
payment it makes afterwards.

Then about the session. The inductive invariant `IInv` is the conjunction of
`TypeOK` and `SlotSound`; both are needed for a sale to be settled exactly, since
the change is computed from the slot's total while the reserve gets the slot's
pieces. From it follow `TypeCorrect`, `SlotAlwaysSound`, `RefusalsAreJustified`
(with `GreedyComplete`), `SoldOutIsLogged` (its own induction, relative to
`IInv`) and `SessionImplementsTill`: every step of the session is a step of
`CashTill` or changes nothing in it. Each action has its lemma about
money (`SelectDrinkMoney`, `RefundMoney`, `CollectMoney`, `InsertCoinSlot`).

`ServerSync_proofs`. The inductive invariant `SyncInv` has, beside the types, four
parts. `InOrder`: the confirmed items, the one under way and the queue are together 1, 2,
..., `pushed`. `OneUnderWay`: on the sender's connection there is nothing but that item, in one
place. Hence an answer can only be that item's, so that `ConfirmedRecorded` is
kept. `NothingNewer`: nobody has seen an item later than the one under way,
so its handler cannot turn the snapshot back. `NothingIsForgotten`, `SnapshotsAdvance` and
`SyncImplementsFeed` follow, for any number of items, connections and failures.
`PeerIsSync` (in `PeerStore_proofs`) carries them over to the composition `PeerStore`, which is what
the run `sync` checks.

`ClientLink_proofs`. The invariants come in layers, each proved with those before it.

- `LinkInv`: the types, the order of the records as in `ServerSync_proofs`, and what a
  thread's place says of its variables (`Control`). It gives `LinkTypeCorrect` and
  `LinkImplementsFeed`.
- `Registry`: a registered handler has read its machine's name and has not ended. It gives
  `RegisteredRuns`: a handler that ends removes the machine's entry, also when it
  is another's, so that an entry may be missing but is never that of a
  handler that has ended. The connection of the one it names may be gone, until it notices.
- `Alone`: before the first heartbeat, the socket the sender has seen is the one it still has.
  It gives `SenderLives`.
- `StockInv`: what the server shows, and what is under way on abandoned connections, is not newer
  than what is under way on the present one, and there the sales are in order. It gives
  `StockOnlyAdvances`.
- `OneQuestion`: without heartbeats and late answers, the record under way is in exactly one
  of three places on the sender's connection (sent, with the handler, answered), and where
  it is answered it is stored. ACKs name nothing, so this is what makes one the answer
  to the right record: `ConfirmedStored`.
- `Calm`: without resets and late answers there is one connection and one copy of each sale:
  `StoredOnce`, with any number of heartbeats.

`SalesTerminal_proofs`. `TypeInv` adds to the types that the queue holds numbers of sales and
that the slot is sound (the types of the money depend on it); `TerminalTypeCorrect`
includes that `daily_sales`, which a start adds up from `sales_log.csv`, is a number.
`CustodyInOrder` is inductive with it. `StockWithinCap` needs `StockSynced`: while the
administrator's window is open the stock it shows is the one the logs give, since no handler of the
sales window runs; otherwise `_on_restock` would measure the room by one number and
the refresh would compute another. `ButtonsAreFresh` is inductive with the types;
`PricesKept` rests on `ConfigCurrent`: the file holds the prices asked whenever it is whole, and it is
empty only while a handler saves it, or once a start has failed.

`AdminOffice_proofs`. `TypeInv` adds that the row a process is about to write belongs to the
file it is about to write to and that the period it may collect is one it has looked at
(`OfficeTypeCorrect`). The other invariants say what the history variables are worth:

- `HeaderInv` (`LogsInv` for the administrators, `SalesLogInv` for the sales processes): a file
  without header has no rows; who is about to write a row has seen or written
  the header; who is about to write the header, and has not been overtaken, found none. Hence a
  header is written over rows only by a process that was overtaken: `NoRowIsLost`.
- `ConfigInv`: who has emptied `drink_config.json`, and has not been overtaken, finds it empty when the
  text comes, so that the file is whole afterwards: `NobodyShutOut`.
- `MenuInv`: who is fresh shows the names and prices last chosen: `MenuSaved`.
- `OnceInv` (with `HeaderInv`): while nobody was blind, the log has the rows of all collections;
  who is fresh and about to write one has looked through them all: `PeriodsCollectedOnce`.
- `LoggedInv` (with `HeaderInv`): the total of a query, the row made of it and the rows of all collections
  are covered by rows of `sales_log.csv`, and until a header is written over them rows are only added
  (`SalesLogGrows`, `TotalFacts`): `OnlyLoggedCollected`. That the rows are those of the sales made is another
  question, which `terminal_unlogged` answers in the negative: what is collected may be more or less than what was sold.
- `CapInv` (with `HeaderInv`): until it writes, a fresh window shows no less stock than
  the logs give, and what it is about to add fits on top of that; sales only make the stock
  of the logs smaller (`StockStep`): `LoggedStockWithinCap`.

`SalesReport`, in the same module. The table is a function of the log, so `TypeInv` is all
the theorem needs of the state. The total that can be collected is the sum of the days, and so
of the rows of the period (`DailyIsSum`, `TotalIsSum`). `DrinksAddUp`: after each row, the
list has one line for each name so far, with the count and the sum of its rows (`Tallies`,
kept by `CountedTallies`, so true of the whole list by `ByDrinkTallies`); the quick sort
returns the same lines, none twice, in descending order (`QuickSortLists`, by induction on the
length of the list); so the lines make up all rows (`LinesAddUp`).

`SalesTree_proofs`. `IsBST(t, lo, hi)` says that a tree is a search tree: `lo[d]` and `hi[d]` are
the dates between which the subtree of node `d` lies; a link leads to a node whose
bounds are those of its parent, cut at the parent (`Bounds`), and the bounds of two nodes lie within
each other, on one side of the node, or have no date in common (`Nested`). `TreeInduction` and `TreeRecursion` are
induction and recursion down a tree that satisfies it, with sets and functions in the place of
predicates. From them follow what the methods return, for trees of any size and shape:

- `SearchFinds`: the node of a date, or `None`. `BinarySearchFinds`: the place of a date in an
  ascending list, or 0, wherever the halves fall.
- `RangeAscends`, `InorderAscends`: the dates of a range, of the whole tree, in ascending order
  and none twice, although `range_query` leaves subtrees out.
- `InsertKeeps`: `insert` adds the amount to the date's node or hangs a new node, leaves all
  others alone, and makes a search tree of a search tree. It rebuilds every link on its path,
  so `InsertNew` and `InsertOld` first describe the whole result, and `HungIsBST` the bounds.

`PeerStore_proofs`. `StoreInv`, with `SyncInv`, is the inductive invariant of the store.
`LockInv`: who holds the lock is between counting an item and its stock snapshot. `TreeInv`: the tree is
a search tree, with the dates of the items recorded and their sums. `EntriesInv`: a day
has one entry for each drink recorded, and each of its two numbers is the sum of the sales recorded,
but for what the handler that holds the lock has still to add. `StoreMatches` follows: when
the lock is free all queries return the sums of what was recorded.

The page is a reader of several steps between which the store grows. `Grows` sums up what
any step of the store means to it: sums only become larger, dates and entries are only
added, entries stay in their places, and a list of entries gets longer only with the first sale of a drink on a day.
`WebInv` is kept by `Grows` (`WebInvGrows`) and by each step of the page. Its parts say
where the request stands (`RequestInv`, `PlaceInv`), that the nodes it goes through have each day of the
year on which something had been sold when it asked, once (`NodesInv`); that what it has
added up lies between what was recorded of these when it asked and what is recorded
now, count and amount each for itself (`TallyInv`); and the same for the bars finished (`BarsInv`)
and the answer (`DoneInv`). So `BreakdownLiesBetween` and `ChartsLieBetween`; a page that fails had seen the
dictionary of a day grow (`FailsOnlyOnFirstSale`). `PeerTypesHold` is proved with them.

`FoldSums`. Totals and stocks are sums over logs of any length, taken with a fold of the
community modules, which is a function on subsets defined by recursion. The library's
induction theorems cannot be used here (they take an operator as a parameter).
`SubsetInduction` is the same induction with a set in the place of the
predicate, from the library's fact that the subsets of a finite set are well-founded
(`FS_StrictSubsetOrderingWellFounded`). From it follow that the recursion has a solution
(`SolutionExists`) and only one (`SolutionsAgree`), that the choice of the next element
makes no difference (`SolutionIsSum`), and that a term more is added to the sum of the
rest (`SumsAppend`). The `SumOnSet` lemmas say the same of `SumFunctionOnSet`; `SumOnSetParts` that a
sum may be taken part by part. `LeftFoldExists` and `PrefixInduction` serve the folds
along a list that build a list.

Only model-checked:

- Liveness under fairness (`EverySaleArrives`, `EveryItemArrives`), which is out of the prover's
  reach.
- The selection sort of `SortSearch`, which no property of the system depends on: `MCPeerStore` compares it,
  as the other operators, with its definition on all short lists.
- What the runs with an expected violation show.

## Not modelled

- Messages, layout, logging; the names of drinks outside `AdminOffice` and `SalesReport`; the byte layout of the protocol and its checksums (TCP
  does not damage data).
- A message that a time-out cuts in two (`client_socket.py:181`): messages are received whole. The payload
  of a COMMAND is read from the socket looked up again (`client_socket.py:186`); here header and payload are one
  step, since after a change of the socket in between the next connection would be read from the middle of
  a message, byte by byte.
- Loss of a server's memory when it ends (`server_db.py:14`), and sales still queued when
  a machine ends: nothing brings either back, and no document promises it.
- The header of `stock_exhaustion_log.csv`: the code and the race of the other logs (`AdminOffice`), which
  the sales processes of several machines run here too; nothing reads that log back.
- Two starts of the header of one log between which the file is empty: emptying and header are one step,
  as the same text is written again, and who looks in between might as well have looked before.
- Administrators of other machines, who share `drink_config.json` and the password: they are further
  administrators of these files; their rows in the logs are skipped like those of `SellElsewhere`.
- A second and third collection of the same sales under an overlapping period or the other mode
  (`admin_window.py:433`): the model does it as the code does, and no property forbids it.
- What the buttons of the sales window show after the login (`admin_window.py:702`), and prices for which
  no change can be made (`admin_window.py:547`): reachable, and not forbidden by a document.
- A table with one line for each drink: a drink sold before and after a renaming has two, as in the code
  (`admin_window.py:67`), and `DrinksAgree` speaks of names.
- The missing registry entry of a machine whose old handler ended after the new one registered
  (`server_handler.py:34`): reachable, and without effect while nobody calls `send_rename`.
- The chart by day and month of the sales tab, which shows the sums `Daily` has.
- The password's hash and format rule; the list of machines and the stock table of the page (one
  read of the store each), its layout, and the launch scripts.
- `_on_coin_collect` writes no row to `collection_log.csv`, although `README.md:600` of the program
  says so; the model follows the code (`CollectCoins` touches the reserve only).
- `calc_change`, `reset_daily_sales`, `send_rename`, `low_stock_list` and `stop`, which
  nobody calls.

## Plan

1. Done: `CoinManager`, `CashTill`, `VendingSession` and their proofs; `SalesTerminal`;
   `ClientLink`, `ServerSync` with `SaleFeed`; `SalesTree`, `SortSearch`, `PeerStore`;
   `AdminOffice`, `SalesReport`; the proofs about `ServerSync`.
2. Done: proofs about `ClientLink`, `SalesTerminal` and `AdminOffice`, with `FoldSums`.
3. Done: `SalesTree` and `SortSearch` with recursive functions, and the proofs about them, about
   `PeerStore` and about `SalesReport`.
4. Done: the sales processes of several machines, names and their changes in `AdminOffice`, a process
   that ends while it saves in `SalesTerminal`.
5. Messages cut in two by a time-out, as a layer under `ClientLink`.
