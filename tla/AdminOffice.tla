---------------------------- MODULE AdminOffice -----------------------------
(***************************************************************************)
(* Administrator processes (main.py --admin) of one machine, beside its    *)
(* sales process (main.py --sales) and those of other machines, over the   *)
(* files they share (src/client/data/; launch_clients.sh starts three      *)
(* machines there).  No process sees another's memory and no file is       *)
(* locked, so a handler is split where it goes from one access to a file   *)
(* to the next; two reads of files in a row are one step.                  *)
(*                                                                         *)
(* open(..., "w") empties the file, the text comes with close(): between   *)
(* the two others find drink_config.json or admin_auth.txt empty, and a    *)
(* process that ends there leaves it so.  The header of a log is written   *)
(* in one step with the emptying before it.                                *)
(*                                                                         *)
(* A log keeps the rows of this machine: the others are skipped by         *)
(* client_id wherever a log is read.                                       *)
(***************************************************************************)
EXTENDS Integers, Sequences, FiniteSets, SequencesExt

CONSTANTS
  Admins,
  Machine, Elsewhere,     \* the sales processes: of this machine, of the others
  Drinks,
  Names, Prices,          \* those an administrator may set
  DefaultMenu,            \* the name and the price of each drink at first
  DefaultStock, MaxStock, \* 10 and 10 in the code
  Dates,                  \* the days on which this happens, numbers YYYYMMDD
  Budgets                 \* how often each thing may happen: the possible choices

Acts == {"midnight", "sale", "elsewhere", "restart", "restock", "rename", "reprice", "query",
         "collect", "password", "cut"}

Sellers == {Machine} \cup Elsewhere

ASSUME OfficeConstants ==
  /\ Machine \notin Elsewhere /\ Admins \cap Sellers = {}
  /\ DefaultMenu \in [Drinks -> [name : Names, price : Nat \ {0}]]
  /\ Prices \subseteq Nat \ {0}
  /\ DefaultStock \in Nat /\ MaxStock \in Nat /\ DefaultStock <= MaxStock
  /\ Dates \subseteq Nat /\ Dates # {}
  /\ Budgets \subseteq [Acts -> Nat]

Modes == {"daily", "monthly"}

VARIABLES
  today,
  budget,          \* what may still happen
  machine,         \* the sales process: its stock, menu, queue, and row to write
  selling,         \* where each sales process stands
  sales_log,       \* this machine's rows [date, drink, name, price]
  log,             \* rows of "restock" and of "collection" log
  header,          \* which of the three logs have their header
  drink_config,    \* drink_config.json: "whole", "empty" or "damaged", the menu
  admin_auth,      \* admin_auth.txt: "set" or "empty"
  at,              \* where each administrator's process stands
  window,          \* each administrator's stock, menu, last query, row to write
  chosen,          \* history: the name and price last chosen for each drink
  taken,           \* history: the rows of all collections made
  fresh,           \* history: the files nobody else wrote since the process read them
  blind,           \* history: the files written by a process that had not read the last state
  overtaken,       \* history: the processes that looked for a header, or emptied a
                   \* file, which another has written since
  spoiled          \* history: the files left by a process that ended in the middle
                   \* of writing, or was overtaken then, and not written whole since

shop    == <<machine, selling>>
files   == <<sales_log, log, header, drink_config, admin_auth>>
admin   == <<at, window>>
history == <<chosen, taken, fresh, blind, overtaken, spoiled>>
vars == <<today, budget, shop, files, admin, history>>

Logs  == {"restock", "collection"}
Files == Logs \cup {"config"}

Items          == [name : Names, price : Nat]
SaleRows       == [date : Dates, drink : Drinks, name : Names, price : Nat]
RestockRows    == [drink : Drinks, amount : Nat]
CollectionRows == [start : Dates, end : Dates, mode : Modes, amount : Nat]
NoRow == << >>

-----------------------------------------------------------------------------
(* Sums over the logs. *)

Sum(rows, Value(_)) == MapThenSumSet(LAMBDA i : Value(rows[i]), DOMAIN rows)

Sold(d) == Cardinality({i \in DOMAIN sales_log : sales_log[i].drink = d})

RestockedIn(rows, d) == Sum(rows, LAMBDA row : IF row.drink = d THEN row.amount ELSE 0)
Restocked(d) == RestockedIn(log["restock"], d)

\* A bug: more may have been sold than there was, after a restart.
UnclippedStock == [d \in Drinks |-> DefaultStock + Restocked(d) - Sold(d)]

\* _calc_stock_from_csv, clipped at 0.
StockFromLogs ==
  [d \in Drinks |->
     LET stock == DefaultStock + Restocked(d)
     IN  IF stock >= Sold(d) THEN stock - Sold(d) ELSE 0]

\* _load_sales_detail: the rows of a period are picked once, for all it adds up.
InPeriod(row, start, end) == row.date \in start .. end

PeriodRows(rows, start, end) == {i \in DOMAIN rows : InPeriod(rows[i], start, end)}

Daily(rows, start, end) ==
  LET picked == PeriodRows(rows, start, end)
  IN  [day \in {rows[i].date : i \in picked} |->
         SumFunctionOnSet([i \in picked |-> rows[i].price], {i \in picked : rows[i].date = day})]

\* The total of a period, as _query_sales adds it up from the days.
TotalIn(rows, start, end) == SumFunction(Daily(rows, start, end))
Total(start, end) == TotalIn(sales_log, start, end)

-----------------------------------------------------------------------------
NoQuery == [start |-> 0, end |-> 0, total |-> 0, collectable |-> FALSE]
NoWindow == [stock |-> [d \in Drinks |-> 0], menu |-> DefaultMenu,
             query |-> NoQuery, file |-> "restock", row |-> NoRow]
DefaultMachine == [stock |-> [d \in Drinks |-> DefaultStock], menu |-> DefaultMenu,
                   queue |-> << >>, row |-> NoRow]

OfficeTypeOK ==
  /\ today \in Dates
  /\ budget \in [Acts -> Nat]
  /\ machine \in [stock : [Drinks -> 0 .. DefaultStock], menu : [Drinks -> Items],
                  queue : Seq(SaleRows), row : SaleRows \cup {NoRow}]
  /\ selling \in [Sellers -> {"idle", "peek", "size", "header", "row"}]
  /\ selling[Machine] \in {"size", "header", "row"} => machine.row \in SaleRows
  /\ sales_log \in Seq(SaleRows)
  /\ log["restock"] \in Seq(RestockRows) /\ log["collection"] \in Seq(CollectionRows)
  /\ header \subseteq Logs \cup {"sales"}
  /\ drink_config \in [state : {"whole", "empty", "damaged"}, menu : [Drinks -> Items]]
  /\ admin_auth \in {"set", "empty"}
  /\ at \in [Admins -> {"closed", "idle", "size", "header", "row", "save", "refresh",
                        "confirmed", "password"}]
  /\ \A a \in Admins :
       /\ window[a].stock \in [Drinks -> Nat] /\ window[a].menu \in [Drinks -> Items]
       /\ at[a] = "row" => window[a].row \in RestockRows \cup CollectionRows
  /\ fresh \in [Admins -> SUBSET Files] /\ blind \subseteq Files \cup {"sales"}
  /\ overtaken \subseteq Admins \cup Sellers /\ spoiled \subseteq {"config", "auth"}

\* The log files may be missing or have no rows; drink_config.json may be
\* missing, which is as if it held the default menu.
Init ==
  /\ today = CHOOSE d \in Dates : \A e \in Dates : d <= e
  /\ budget \in Budgets
  /\ machine = DefaultMachine
  /\ selling = [s \in Sellers |-> "idle"]
  /\ sales_log = << >>
  /\ log = [f \in Logs |-> << >>]
  /\ header = {}
  /\ drink_config = [state |-> "whole", menu |-> DefaultMenu]
  /\ admin_auth = "set"
  /\ at = [a \in Admins |-> "closed"]
  /\ window = [a \in Admins |-> NoWindow]
  /\ chosen = DefaultMenu
  /\ taken = << >>
  /\ fresh = [a \in Admins |-> {}]
  /\ blind = {} /\ overtaken = {} /\ spoiled = {}

Spend(act) == budget[act] > 0 /\ budget' = [budget EXCEPT ![act] = @ - 1]

\* A process has looked for the header of a log, or has emptied a file, and has
\* not written it yet.
Between(p, f) ==
  \/ p \in Admins /\ \/ at[p] = "header" /\ window[p].file = f
                     \/ at[p] = "save" /\ f = "config"
                     \/ at[p] = "password" /\ f = "auth"
  \/ p \in Sellers /\ selling[p] = "header" /\ f = "sales"

\* History of a process writing a file, reading files, and writing one it had read.
Touches(p, f) ==
  overtaken' = {q \in Admins \cup Sellers : q # p /\ (q \in overtaken \/ Between(q, f))}
Reads(a, f) == fresh' = [fresh EXCEPT ![a] = @ \cup f]
Writes(a, f) ==
  /\ Touches(a, f)
  /\ fresh' = [b \in Admins |-> IF b = a THEN fresh[b] ELSE fresh[b] \ {f}]
  /\ blind' = IF f \in fresh[a] THEN blind ELSE blind \cup {f}

-----------------------------------------------------------------------------
(* The calendar and the sales processes.                                    *)

Midnight ==
  /\ Spend("midnight")
  /\ \E d \in Dates :
       /\ d > today /\ \A e \in Dates : e > today => d <= e
       /\ today' = d
  /\ UNCHANGED <<shop, files, admin, history>>

\* select_drink: the sale is queued for the sender thread.
Sell(d) ==
  /\ selling[Machine] = "idle"
  /\ machine.stock[d] > 0
  /\ Spend("sale")
  /\ machine' = [machine EXCEPT
       !.stock[d] = @ - 1,
       !.queue = Append(@, [date |-> today, drink |-> d, name |-> machine.menu[d].name,
                            price |-> machine.menu[d].price])]
  /\ selling' = [selling EXCEPT ![Machine] = "peek"]
  /\ UNCHANGED <<today, files, admin, history>>

\* The sender thread has its head delivered, or gives it up (SalesTerminal).
Deliver ==
  /\ machine.queue # << >>
  /\ machine' = [machine EXCEPT !.queue = Tail(@)]
  /\ UNCHANGED <<today, budget, selling, files, admin, history>>

\* _on_select looks at the head of the queue, not at its own sale.  The head may
\* be in the sender's hands meanwhile; nothing is logged if the queue looks empty.
Peek ==
  /\ selling[Machine] = "peek"
  /\ \/ \E i \in DOMAIN machine.queue \cap {1, 2} :
          /\ machine' = [machine EXCEPT !.row = machine.queue[i]]
          /\ selling' = [selling EXCEPT ![Machine] = "size"]
     \/ /\ Len(machine.queue) <= 1
        /\ selling' = [selling EXCEPT ![Machine] = "idle"]
        /\ UNCHANGED machine
  /\ UNCHANGED <<today, budget, files, admin, history>>

\* A sale of another machine, whose row goes to the same file.
SellElsewhere(s) ==
  /\ selling[s] = "idle"
  /\ Spend("elsewhere")
  /\ selling' = [selling EXCEPT ![s] = "size"]
  /\ UNCHANGED <<today, machine, files, admin, history>>

\* A bug: the header is written whatever the file holds.
NeedsHeaderAlways(f) == TRUE

NeedsHeader(f) == f \notin header

\* append_sale and _ensure_header.
TestSalesSize(s) ==
  /\ selling[s] = "size"
  /\ selling' = [selling EXCEPT ![s] = IF NeedsHeader("sales") THEN "header" ELSE "row"]
  /\ UNCHANGED <<today, budget, machine, files, admin, history>>

\* open(path, "w"): what another process has appended since the test is gone.
WriteSalesHeader(s) ==
  /\ selling[s] = "header"
  /\ sales_log' = << >>
  /\ header' = header \cup {"sales"}
  /\ Touches(s, "sales")
  /\ blind' = IF s \in overtaken THEN blind \cup {"sales"} ELSE blind
  /\ selling' = [selling EXCEPT ![s] = "row"]
  /\ UNCHANGED <<today, budget, machine, log, drink_config, admin_auth, admin,
                 chosen, taken, fresh, spoiled>>

AppendSale(s) ==
  /\ selling[s] = "row"
  /\ sales_log' = IF s = Machine THEN Append(sales_log, machine.row) ELSE sales_log
  /\ Touches(s, "sales")
  /\ selling' = [selling EXCEPT ![s] = "idle"]
  /\ UNCHANGED <<today, budget, machine, log, header, drink_config, admin_auth, admin,
                 chosen, taken, fresh, blind, spoiled>>

\* json.load raises an exception for a file that is not whole.
LoadDrinkConfig == drink_config.state = "whole"

\* The sales process ends, wherever it stands, and is started again, if it can be.
RestartSales ==
  /\ Spend("restart")
  /\ LoadDrinkConfig
  /\ machine' = [DefaultMachine EXCEPT !.menu = drink_config.menu]
  /\ selling' = [selling EXCEPT ![Machine] = "idle"]
  /\ overtaken' = overtaken \ {Machine}
  /\ UNCHANGED <<today, files, admin, chosen, taken, fresh, blind, spoiled>>

SalesStep ==
  \/ \E d \in Drinks : Sell(d)
  \/ Deliver \/ Peek \/ RestartSales
  \/ \E s \in Elsewhere : SellElsewhere(s)
  \/ \E s \in Sellers : TestSalesSize(s) \/ WriteSalesHeader(s) \/ AppendSale(s)

(* An administrator's process starts and ends. *)

\* check_password, of the password that was set last.
PasswordAccepted == admin_auth = "set"

\* The password is asked, the configuration loaded, the stock computed.
OpenWindow(a) ==
  /\ at[a] = "closed"
  /\ PasswordAccepted
  /\ LoadDrinkConfig
  /\ at' = [at EXCEPT ![a] = "idle"]
  /\ window' = [window EXCEPT ![a] = [NoWindow EXCEPT !.stock = StockFromLogs,
                                                      !.menu = drink_config.menu]]
  /\ Reads(a, Files)
  /\ UNCHANGED <<today, budget, shop, files, chosen, taken, blind, overtaken, spoiled>>

Ends(a) ==
  /\ at' = [at EXCEPT ![a] = "closed"]
  /\ window' = [window EXCEPT ![a] = NoWindow]
  /\ fresh' = [fresh EXCEPT ![a] = {}]
  /\ overtaken' = overtaken \ {a}

CloseWindow(a) ==
  /\ at[a] = "idle"
  /\ Ends(a)
  /\ UNCHANGED <<today, budget, shop, files, chosen, taken, blind, spoiled>>

\* The process ends in the middle of a handler.
Cut(a) ==
  /\ at[a] \notin {"closed", "idle"}
  /\ Spend("cut")
  /\ Ends(a)
  /\ spoiled' = IF a \in overtaken THEN spoiled
                ELSE spoiled \cup {f \in {"config", "auth"} : Between(a, f)}
  /\ UNCHANGED <<today, shop, files, chosen, taken, blind>>

\* _refresh_inventory: the button, and the end of several handlers.
RefreshInventory(a) ==
  /\ at[a] \in {"idle", "refresh"}
  /\ at' = [at EXCEPT ![a] = "idle"]
  /\ window' = [window EXCEPT ![a].stock = StockFromLogs]
  /\ Reads(a, {"restock"})
  /\ UNCHANGED <<today, budget, shop, files, chosen, taken, blind, overtaken, spoiled>>

-----------------------------------------------------------------------------
(* Appending to a log: append_restock, append_collection.                   *)

StartAppend(a, f, row) ==
  /\ at' = [at EXCEPT ![a] = "size"]
  /\ window' = [window EXCEPT ![a].file = f, ![a].row = row]

TestSize(a) ==
  /\ at[a] = "size"
  /\ at' = [at EXCEPT ![a] = IF NeedsHeader(window[a].file) THEN "header" ELSE "row"]
  /\ UNCHANGED <<today, budget, shop, files, window, history>>

\* open(path, "w"): what another process has appended since the test is gone.
WriteHeader(a) ==
  /\ at[a] = "header"
  /\ LET f == window[a].file IN
       /\ log' = [log EXCEPT ![f] = << >>]
       /\ header' = header \cup {f}
       /\ Writes(a, f)
  /\ at' = [at EXCEPT ![a] = "row"]
  /\ UNCHANGED <<today, budget, shop, sales_log, drink_config, admin_auth, window,
                 chosen, taken, spoiled>>

AppendRow(a) ==
  /\ at[a] = "row"
  /\ LET w == window[a] IN
       /\ log' = [log EXCEPT ![w.file] = Append(@, w.row)]
       /\ Writes(a, w.file)
       /\ IF w.file = "restock"
          THEN /\ at' = [at EXCEPT ![a] = "refresh"]
               /\ window' = [window EXCEPT ![a].row = NoRow]
               /\ taken' = taken
          ELSE /\ at' = [at EXCEPT ![a] = "idle"]
               /\ window' = [window EXCEPT ![a].row = NoRow, ![a].query.collectable = FALSE]
               /\ taken' = Append(taken, w.row)
  /\ UNCHANGED <<today, budget, shop, sales_log, header, drink_config, admin_auth, chosen, spoiled>>

-----------------------------------------------------------------------------
(* Handlers of the window. *)

\* A bug: the cap is not applied.
AskedFor(stock, n) == n

\* What may be filled in, given the stock the window shows.
Filled(stock, n) == IF n <= MaxStock - stock THEN n ELSE MaxStock - stock

OnRestock(a, d, n) ==
  /\ at[a] = "idle"
  /\ window[a].stock[d] < MaxStock
  /\ Spend("restock")
  /\ StartAppend(a, "restock", [drink |-> d, amount |-> Filled(window[a].stock[d], n)])
  /\ UNCHANGED <<today, shop, files, history>>

\* save_drink_config writes the whole of this process's inventory; it begins by
\* emptying the file.
EmptyDrinkConfig(a) ==
  /\ drink_config' = [drink_config EXCEPT !.state = "empty"]
  /\ Writes(a, "config")
  /\ at' = [at EXCEPT ![a] = "save"]
  /\ UNCHANGED <<today, shop, sales_log, log, header, admin_auth, taken, spoiled>>

\* Two drinks may come to have the same name.
OnRename(a, d, n) ==
  /\ at[a] = "idle"
  /\ Spend("rename")
  /\ window' = [window EXCEPT ![a].menu[d].name = n]
  /\ chosen' = [chosen EXCEPT ![d].name = n]
  /\ EmptyDrinkConfig(a)

OnReprice(a, d, p) ==
  /\ at[a] = "idle"
  /\ Spend("reprice")
  /\ window' = [window EXCEPT ![a].menu[d].price = p]
  /\ chosen' = [chosen EXCEPT ![d].price = p]
  /\ EmptyDrinkConfig(a)

\* A bug: the file gets the default names and prices.
SavedDefaults(a) == DefaultMenu

Saved(a) == window[a].menu

\* A bug: the file is not written when it was found empty.
LeaveEmpty(a) ==
  /\ at[a] = "save"
  /\ Writes(a, "config")
  /\ at' = [at EXCEPT ![a] = "refresh"]
  /\ UNCHANGED <<today, budget, shop, files, window, chosen, taken, spoiled>>

\* If another process has written since this one emptied the file, the end of
\* its longer text may stay behind this one's.
SaveDrinkConfig(a) ==
  /\ at[a] = "save"
  /\ \E state \in IF drink_config.state = "empty" THEN {"whole"} ELSE {"whole", "damaged"} :
       drink_config' = [state |-> state, menu |-> Saved(a)]
  /\ Writes(a, "config")
  /\ spoiled' = IF a \in overtaken THEN spoiled \cup {"config"} ELSE spoiled \ {"config"}
  /\ at' = [at EXCEPT ![a] = "refresh"]
  /\ UNCHANGED <<today, budget, shop, sales_log, log, header, admin_auth, window,
                 chosen, taken>>

\* A bug: the total stays that of the query before.
QueryKeepsTotal(a, start, end) ==
  [start |-> start, end |-> end, total |-> window[a].query.total,
   collectable |-> Total(start, end) > 0]

QueryResult(a, start, end) ==
  [start |-> start, end |-> end, total |-> Total(start, end),
   collectable |-> Total(start, end) > 0]

\* A period whose start is after its end is refused.
QuerySales(a, start, end) ==
  /\ at[a] = "idle"
  /\ start <= end
  /\ Spend("query")
  /\ window' = [window EXCEPT ![a].query = QueryResult(a, start, end)]
  /\ UNCHANGED <<today, shop, files, at, history>>

\* A bug: earlier collections are not looked at.
NeverCollected(query, mode) == TRUE

NotCollected(query, mode) ==
  \A i \in DOMAIN log["collection"] :
    LET row == log["collection"][i]
    IN  ~(row.start = query.start /\ row.end = query.end /\ row.mode = mode)

OnCollect(a, mode) ==
  /\ at[a] = "idle"
  /\ window[a].query.collectable
  /\ Spend("collect")
  /\ LET query == window[a].query IN
       /\ NotCollected(query, mode)
       /\ StartAppend(a, "collection",
            [start |-> query.start, end |-> query.end, mode |-> mode, amount |-> query.total])
  /\ Reads(a, {"collection"})
  /\ UNCHANGED <<today, shop, files, chosen, taken, blind, overtaken, spoiled>>

\* The present password was right and the new one is accepted.
OnChangePassword(a) ==
  /\ at[a] = "idle"
  /\ PasswordAccepted
  /\ Spend("password")
  /\ at' = [at EXCEPT ![a] = "confirmed"]
  /\ UNCHANGED <<today, shop, files, window, history>>

\* set_password begins by emptying the file, like save_drink_config; what it
\* writes then has always the same length.
EmptyPassword(a) ==
  /\ at[a] = "confirmed"
  /\ admin_auth' = "empty"
  /\ Touches(a, "auth")
  /\ at' = [at EXCEPT ![a] = "password"]
  /\ UNCHANGED <<today, budget, shop, sales_log, log, header, drink_config, window,
                 chosen, taken, fresh, blind, spoiled>>

SetPassword(a) ==
  /\ at[a] = "password"
  /\ admin_auth' = "set"
  /\ Touches(a, "auth")
  /\ spoiled' = spoiled \ {"auth"}
  /\ at' = [at EXCEPT ![a] = "idle"]
  /\ UNCHANGED <<today, budget, shop, sales_log, log, header, drink_config, window,
                 chosen, taken, fresh, blind>>

-----------------------------------------------------------------------------
AdminStep(a) ==
  \/ OpenWindow(a) \/ CloseWindow(a) \/ Cut(a) \/ RefreshInventory(a)
  \/ TestSize(a) \/ WriteHeader(a) \/ AppendRow(a)
  \/ \E d \in Drinks, n \in 1 .. MaxStock : OnRestock(a, d, n)
  \/ \E d \in Drinks, n \in Names : OnRename(a, d, n)
  \/ \E d \in Drinks, p \in Prices : OnReprice(a, d, p)
  \/ SaveDrinkConfig(a)
  \/ \E start, end \in Dates : QuerySales(a, start, end)
  \/ \E mode \in Modes : OnCollect(a, mode)
  \/ OnChangePassword(a) \/ EmptyPassword(a) \/ SetPassword(a)

Next ==
  \/ Midnight
  \/ SalesStep
  \/ \E a \in Admins : AdminStep(a)

Spec == Init /\ [][Next]_vars

-----------------------------------------------------------------------------
(* Properties. *)

\* The stock the logs give stays within the cap, however sales, restocks,
\* crashes and restarts mix, unless a window filled up a drink from a stock that
\* another window had changed since, or the header of sales_log.csv was written
\* over another process's rows (admin_window.py:597-631, file_manager.py:16-21).
LoggedStockCap ==
  blind \cap {"restock", "sales"} = {} => \A d \in Drinks : StockFromLogs[d] <= MaxStock

\* drink_config.json holds the name and the price last chosen for each drink, by
\* whichever window, unless a window that had not seen another's change saved
\* over it (file_manager.py:149-154, admin_window.py:483-503, 536-556).
ChosenMenuSaved ==
  drink_config.state = "whole" /\ "config" \notin blind => drink_config.menu = chosen

\* No one is shut out: the files read at a start are readable unless a process
\* has just emptied them, or the last to write them ended before its text was
\* there or was overtaken by another writer while it wrote.  They are readable
\* again as soon as one writes them undisturbed
\* (file_manager.py:153, auth_manager.py:42, main.py:59-74).
FilesReadable ==
  /\ \/ drink_config.state = "whole"
     \/ \E a \in Admins \ overtaken : at[a] = "save"
     \/ "config" \in spoiled
  /\ \/ admin_auth = "set"
     \/ \E a \in Admins \ overtaken : at[a] = "password"
     \/ "auth" \in spoiled

\* The sales of a period are collected once in each mode, unless two windows
\* collected at the same time (admin_window.py:426-450).
CollectedOnce ==
  "collection" \notin blind =>
    \A i, j \in DOMAIN taken :
      taken[i].start = taken[j].start /\ taken[i].end = taken[j].end
        /\ taken[i].mode = taken[j].mode => i = j

\* What is collected is in the log under the period it names: the total belongs
\* to the period, whatever was queried, refused or logged meanwhile, unless the
\* header of sales_log.csv was written over rows.  Of the sales themselves it
\* says nothing: the log may hold one twice and lack another (_on_select)
\* (admin_window.py:394-450).
CollectedIsLogged ==
  "sales" \notin blind =>
    \A i \in DOMAIN taken : taken[i].amount \in 1 .. Total(taken[i].start, taken[i].end)

\* A log loses rows only in the step of a process that writes its header, and
\* had found none before another wrote the file (file_manager.py:16-21, 65-68,
\* 89-92).
RowsKept ==
  [][/\ \A f \in Logs :
          \/ IsPrefix(log[f], log'[f])
          \/ \E a \in overtaken \cap Admins :
               at[a] = "header" /\ window[a].file = f /\ at'[a] = "row"
     /\ \/ IsPrefix(sales_log, sales_log')
        \/ \E s \in overtaken \cap Sellers : selling[s] = "header" /\ selling'[s] = "row"]_vars

=============================================================================
