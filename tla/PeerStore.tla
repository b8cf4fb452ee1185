----------------------------- MODULE PeerStore ------------------------------
(***************************************************************************)
(* What the peer of ServerSync does with what it receives: SalesDataStore  *)
(* (src/server/server_db.py), filled by the handlers of several            *)
(* connections and read by a request of the web page                       *)
(* (src/server/web_server.py), each in a thread of its own.                *)
(*                                                                         *)
(* All the store's methods hold its lock, and are one step here, but two:  *)
(* drink_breakdown gives the lock back and then goes through dictionaries  *)
(* record_sale changes, so both are split at every access to them.         *)
(***************************************************************************)
EXTENDS ServerSync, SalesTree, SortSearch, FiniteSetsExt

CONSTANTS
  Drinks,
  Price,        \* price of each drink
  Dates,        \* the dates of the sales, numbers YYYYMMDD
  Feeds,        \* what may be pushed: sequences of [date, drink]
  Year, Month,  \* today's
  Months,       \* how many months the page shows (6 in the code)
  Days          \* the days it shows, the oldest first (14 in the code)

\* The number stands for a day of a year with up to four digits.
IsDate(d) ==
  /\ d \div 10000 \in 1 .. 9999
  /\ (d \div 100) % 100 \in 1 .. 12
  /\ d % 100 \in 1 .. 31

ASSUME StoreConstants ==
  /\ Price \in [Drinks -> Nat \ {0}]
  /\ Dates \subseteq Nat /\ \A d \in Dates : IsDate(d)
  /\ Feeds \subseteq [Items -> [date : Dates, drink : Drinks]]
  /\ Year \in Nat \ {0} /\ Month \in 1 .. 12 /\ Months \in 1 .. 12
  /\ Days \in Seq(Nat) /\ Days # << >>

VARIABLES
  feed,      \* the sales behind the items
  lock,      \* the connection whose handler holds the store's lock, 0 if free
  adding,    \* what record_sale has still to do: "nothing", "count", "amount"
  tree,      \* the machine's SalesBST: its dates and totals
  by_drink,  \* by_drink of each date's node, in the order of insertion
  web,       \* the request: where it stands, its local variables, its answer
  asked      \* history: what was recorded when the request came

storeVars == <<feed, lock, adding, tree, by_drink>>
webVars   == <<web, asked>>
peerStoreVars == <<vars, storeVars, webVars>>

Entry(drink) == [drink |-> drink, count |-> 0, amount |-> 0]
Entries == [drink : Drinks, count : Nat, amount : Nat]
NoTally == [n \in Drinks |-> 0]

NoRequest ==
  [at |-> "idle", kind |-> "breakdown", nodes |-> << >>, i |-> 1, j |-> 1, size |-> 0,
   count |-> NoTally, amount |-> NoTally, values |-> << >>]

PeerTypeOK ==
  /\ feed \in Feeds
  /\ lock \in 0 .. MaxConns
  /\ adding \in {"nothing", "count", "amount"}
  /\ (lock = 0) = (adding = "nothing")
  /\ tree.root \in Dates \cup {None} /\ DOMAIN tree.nodes \subseteq Dates
  /\ \A d \in DOMAIN tree.nodes :
       tree.nodes[d] \in [sales : Nat, left : Dates \cup {None}, right : Dates \cup {None}]
  /\ \A d \in Dates : by_drink[d] \in Seq(Entries)
  /\ web.at \in {"idle", "nodes", "items", "amount", "chart", "done", "failed"}
  /\ web.kind \in {"breakdown", "monthly", "daily"}
  /\ web.nodes \in Seq(Dates)
  /\ web.i \in Nat \ {0} /\ web.j \in 1 .. web.size + 1
  /\ web.count \in [Drinks -> Nat] /\ web.amount \in [Drinks -> Nat]
  /\ web.values \in Seq(Nat) /\ Len(web.values) <= Max({Months, Len(Days)})
  /\ asked \in [Items -> Nat]

PeerInit ==
  /\ Init
  /\ feed \in Feeds
  /\ lock = 0 /\ adding = "nothing"
  /\ tree = EmptyTree
  /\ by_drink = [d \in Dates |-> << >>]
  /\ web = NoRequest
  /\ asked = [k \in Items |-> 0]

-----------------------------------------------------------------------------
(* The queries; all but drink_breakdown hold the lock from end to end.      *)

monthly_summary(year, month) == monthly_total(tree, year, month)

daily_summary(date) ==
  LET nodes == inorder(tree)
      place == binary_search_sales(nodes, date)
  IN  IF place = 0 THEN 0 ELSE tree.nodes[nodes[place]].sales

-----------------------------------------------------------------------------
(* record_sale, by the handler of a connection. *)

\* The place of a drink's entry, one past the end if it has none.
EntryOf(entries, drink) ==
  Min({i \in DOMAIN entries : entries[i].drink = drink} \cup {Len(entries) + 1})

\* A bug: each sale gets an entry of its own.
AlwaysNewEntry(entries, drink) == Append(entries, Entry(drink))

SetDefault(entries, drink) ==
  IF EntryOf(entries, drink) > Len(entries) THEN Append(entries, Entry(drink))
  ELSE entries

StartRecord(c) ==
  /\ lock = 0
  /\ RecordSync(c)
  /\ lock' = c /\ adding' = "count"
  /\ LET sale == feed[sync[c]] IN
       /\ tree' = insert(tree, sale.date, Price[sale.drink])
       /\ by_drink' = [by_drink EXCEPT ![sale.date] = SetDefault(@, sale.drink)]
  /\ UNCHANGED <<feed, webVars>>

\* The sale being added, and the place of its entry.
Adding == feed[held[lock]]

\* A bug: the newest entry is taken for that of the drink.
NewestEntry == Len(by_drink[Adding.date])

AddingTo == EntryOf(by_drink[Adding.date], Adding.drink)

AddCount ==
  /\ adding = "count"
  /\ by_drink' = [by_drink EXCEPT ![Adding.date][AddingTo].count = @ + 1]
  /\ adding' = "amount"
  /\ UNCHANGED <<vars, feed, lock, tree, webVars>>

\* A bug: record_sale returns with the lock.
AddAmountKeepsLock ==
  /\ adding = "amount"
  /\ by_drink' = [by_drink EXCEPT ![Adding.date][AddingTo].amount = @ + Price[Adding.drink]]
  /\ adding' = "nothing"
  /\ UNCHANGED <<vars, feed, lock, tree, webVars>>

AddAmount ==
  /\ adding = "amount"
  /\ by_drink' = [by_drink EXCEPT ![Adding.date][AddingTo].amount = @ + Price[Adding.drink]]
  /\ adding' = "nothing" /\ lock' = 0
  /\ UNCHANGED <<vars, feed, tree, webVars>>

StoreSnapshot(c) == lock = 0 /\ UpdateSnapshot(c) /\ UNCHANGED <<storeVars, webVars>>

Answer(c) == AnswerSync(c) /\ UNCHANGED <<storeVars, webVars>>

PeerHandler(c) ==
  \/ StartRecord(c)
  \/ lock = c /\ (AddCount \/ AddAmount)
  \/ StoreSnapshot(c)
  \/ Answer(c)

-----------------------------------------------------------------------------
(* A request of the page. *)

AskBreakdown ==
  /\ web.at = "idle" /\ lock = 0
  /\ web' = [web EXCEPT !.at = "nodes",
                        !.nodes = range_query(tree, Year * 10000 + 101, Year * 10000 + 1231)]
  /\ asked' = recorded
  /\ UNCHANGED <<vars, storeVars>>

Dict == by_drink[web.nodes[web.i]]

\* The loop over a dictionary starts by looking how large it is ...
OpenNode(i) ==
  IF i > Len(web.nodes) THEN [web EXCEPT !.at = "done"]
  ELSE [web EXCEPT !.at = "items", !.i = i, !.j = 1, !.size = Len(by_drink[web.nodes[i]])]

FirstNode ==
  /\ web.at = "nodes"
  /\ web' = OpenNode(1)
  /\ UNCHANGED <<vars, storeVars, asked>>

\* ... and fails at the next item if it has grown: RuntimeError, status 500.
LoopFails ==
  /\ web.at = "items" /\ Len(Dict) # web.size
  /\ web' = [web EXCEPT !.at = "failed"]
  /\ UNCHANGED <<vars, storeVars, asked>>

ReadCount ==
  /\ web.at = "items" /\ Len(Dict) = web.size /\ web.j <= web.size
  /\ web' = [web EXCEPT !.at = "amount", !.count[Dict[web.j].drink] = @ + Dict[web.j].count]
  /\ UNCHANGED <<vars, storeVars, asked>>

ReadAmount ==
  /\ web.at = "amount"
  /\ web' = [web EXCEPT !.at = "items", !.j = @ + 1,
                        !.amount[Dict[web.j].drink] = @ + Dict[web.j].amount]
  /\ UNCHANGED <<vars, storeVars, asked>>

NextNode ==
  /\ web.at = "items" /\ Len(Dict) = web.size /\ web.j > web.size
  /\ web' = OpenNode(web.i + 1)
  /\ UNCHANGED <<vars, storeVars, asked>>

\* A bug: the month is counted down across New Year, the year is not.
MonthSameYear(back) == <<Year, ((Month - back + 11) % 12) + 1>>

\* The month so many months ago, <<year, month>>.
MonthBack(back) ==
  LET months == Year * 12 + Month - 1 - back
  IN  <<months \div 12, (months % 12) + 1>>

AskChart(kind) ==
  /\ web.at = "idle"
  /\ web' = [web EXCEPT !.at = "chart", !.kind = kind]
  /\ asked' = recorded
  /\ UNCHANGED <<vars, storeVars>>

\* One more bar of a chart of so many; the lock is taken for each bar anew.
NextBar(bars, value) ==
  /\ web.at = "chart" /\ lock = 0
  /\ web' = [web EXCEPT !.values = Append(@, value),
                        !.at = IF Len(web.values) + 1 < bars THEN "chart" ELSE "done"]
  /\ UNCHANGED <<vars, storeVars, asked>>

NextMonth ==
  /\ web.kind = "monthly"
  /\ LET month == MonthBack(Months - 1 - Len(web.values))
     IN  NextBar(Months, monthly_summary(month[1], month[2]))

NextDay ==
  /\ web.kind = "daily"
  /\ NextBar(Len(Days), daily_summary(Days[Len(web.values) + 1]))

Respond ==
  /\ web.at \in {"done", "failed"}
  /\ web' = NoRequest
  /\ asked' = [k \in Items |-> 0]
  /\ UNCHANGED <<vars, storeVars>>

Request ==
  \/ AskBreakdown \/ FirstNode \/ ReadCount \/ ReadAmount \/ NextNode \/ LoopFails
  \/ AskChart("monthly") \/ NextMonth
  \/ AskChart("daily") \/ NextDay
  \/ Respond

-----------------------------------------------------------------------------
PeerNext ==
  \/ (Push \/ SyncSender \/ \E c \in Conns : Reset(c)) /\ UNCHANGED <<storeVars, webVars>>
  \/ \E c \in Conns : PeerHandler(c)
  \/ Request

PeerSpec == PeerInit /\ [][PeerNext]_peerStoreVars

FairPeerSpec ==
  /\ PeerSpec
  /\ WF_peerStoreVars(SyncSender /\ UNCHANGED <<storeVars, webVars>>)
  /\ \A c \in Conns : WF_peerStoreVars(PeerHandler(c))

-----------------------------------------------------------------------------
(* Properties. *)

\* The amount of some items, each as often as it was recorded.
Amount(items, times) ==
  SumFunctionOnSet([k \in Items |-> times[k] * Price[feed[k].drink]], items)
Count(items, times) == SumFunctionOnSet(times, items)

Between(first, last) == {k \in Items : feed[k].date \in first .. last}

\* What the queries find under the lock is the history of record_sale, in
\* whatever order the dates came, and the entries of a day add up to its total
\* (server_db.py:18-58, sales_tree.py:29-98, sort_search.py:47-58).
StoreMatchesHistory ==
  lock = 0 =>
    /\ \A d \in Dates :
         /\ daily_summary(d) = Amount(Between(d, d), recorded)
         /\ LET node == search(tree, d)
            IN  daily_summary(d) = IF node = None THEN 0 ELSE tree.nodes[node].sales
         /\ \A n \in Drinks :
              LET items == {k \in Between(d, d) : feed[k].drink = n}
                  found == {i \in DOMAIN by_drink[d] : by_drink[d][i].drink = n}
              IN  IF Count(items, recorded) = 0 THEN found = {}
                  ELSE \E i \in found :
                         /\ found = {i}
                         /\ by_drink[d][i].count = Count(items, recorded)
                         /\ by_drink[d][i].amount = Amount(items, recorded)
    /\ \A first, last \in Dates :
         LET nodes == range_query(tree, first, last)
         IN  /\ {nodes[i] : i \in DOMAIN nodes}
                  = {feed[k].date : k \in {b \in Between(first, last) : recorded[b] > 0}}
             /\ \A i \in 2 .. Len(nodes) : nodes[i - 1] < nodes[i]

\* The page's counts and amounts of this year lie between what was recorded
\* when it asked and what is recorded when it gets its answer, although they
\* are read without the lock (server_db.py:33-42, web_server.py:79-90).
BreakdownBetween ==
  web.at = "done" /\ web.kind = "breakdown" =>
    \A n \in Drinks :
      LET items == {k \in Between(Year * 10000, Year * 10000 + 9999) : feed[k].drink = n}
      IN  /\ Count(items, asked) <= web.count[n] /\ web.count[n] <= Count(items, recorded)
          /\ Amount(items, asked) <= web.amount[n] /\ web.amount[n] <= Amount(items, recorded)

\* The page fails only when a drink is sold for the first time on its day
\* while the page reads (server_db.py:38, sales_tree.py:43).
BreakdownFailsOnlyOnFirstSale ==
  web.at = "failed" =>
    \E k \in Items :
      /\ recorded[k] > 0
      /\ \A b \in Items : feed[b] = feed[k] => asked[b] = 0

\* Each bar of the charts is the total of its month, across New Year too, or of
\* its day, as of some time while the chart was computed
\* (web_server.py:41-75).
ChartsBetween ==
  web.at = "done" /\ web.kind # "breakdown" =>
    \A i \in DOMAIN web.values :
      LET back  == Months - i
          year  == IF back < Month THEN Year ELSE Year - 1
          month == IF back < Month THEN Month - back ELSE Month - back + 12
          items == IF web.kind = "daily" THEN Between(Days[i], Days[i])
                   ELSE Between(year * 10000 + month * 100, year * 10000 + month * 100 + 99)
      IN  /\ Amount(items, asked) <= web.values[i]
          /\ web.values[i] <= Amount(items, recorded)

=============================================================================
