---------------------------- MODULE SalesReport -----------------------------
(***************************************************************************)
(* What the sales tab shows of a period (admin_window.py,                  *)
(* _load_sales_detail and _query_sales): beside the total, the table of    *)
(* the drinks, by the names the rows of sales_log.csv have for them.       *)
(***************************************************************************)
EXTENDS AdminOffice, SortSearch

NewEntry(row) == [name |-> row.name, sold |-> 1, total |-> row.price]

\* A bug: every row gets an entry of its own.
Listed(entries, row) == Append(entries, NewEntry(row))

\* One entry for each name, in the order in which the log first has them.
Counted(entries, row) ==
  LET known == {i \in DOMAIN entries : entries[i].name = row.name}
  IN  IF known = {} THEN Append(entries, NewEntry(row))
      ELSE LET i == CHOOSE i \in known : TRUE
           IN  [entries EXCEPT ![i].sold = @ + 1, ![i].total = @ + row.price]

ByDrink(start, end) ==
  FoldLeft(LAMBDA entries, row :
             IF InPeriod(row, start, end) THEN Counted(entries, row) ELSE entries,
           << >>, sales_log)

DrinkTable(start, end) == quick_sort_by_sales(ByDrink(start, end))

-----------------------------------------------------------------------------
\* The table accounts for each row of the period and for the total that can be
\* collected, each name the drinks had has one line, however they were renamed,
\* and those that sold best come first (admin_window.py:66-71, 412-423).
DrinksAgree ==
  \A start, end \in Dates :
    LET table == DrinkTable(start, end) IN
      /\ SumFunction([i \in DOMAIN table |-> table[i].total]) = Total(start, end)
      /\ SumFunction([i \in DOMAIN table |-> table[i].sold]) =
           Cardinality(PeriodRows(sales_log, start, end))
      /\ \A i, j \in DOMAIN table :
           i < j => table[i].name # table[j].name /\ table[i].sold >= table[j].sold

=============================================================================
