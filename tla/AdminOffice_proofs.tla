------------------------- MODULE AdminOffice_proofs -------------------------
(***************************************************************************)
(* What the administrators' processes and the sales process keep true of   *)
(* the files they share, for every value of the constants: the types, the  *)
(* rows, the configuration and its menu, the collections and the cap on    *)
(* the stock.                                                              *)
(*                                                                         *)
(* fresh[a] holds the files nobody else has written since a read them: what *)
(* a has in its window is then still true of them, or true but for what    *)
(* the sales process did.  blind holds the files somebody wrote without.   *)
(* overtaken holds the processes that are in the middle of writing a file  *)
(* another has written since they began.                                   *)
(***************************************************************************)
EXTENDS SalesReport, FoldSums, SequenceTheorems

-----------------------------------------------------------------------------
(* Sums over the logs. *)

\* What a row of restock_log.csv adds to the pieces of drink d.
AddedTo(rows, d) ==
  [i \in DOMAIN rows |-> IF rows[i].drink = d THEN rows[i].amount ELSE 0]

\* RestockedIn is the sum of what the rows add.
LEMMA RestockedIsSum ==
  ASSUME NEW rows \in Seq(RestockRows), NEW d
  PROVE  /\ IsFiniteSet(DOMAIN rows)
         /\ \E g : /\ Sums(g, AddedTo(rows, d), DOMAIN rows)
                   /\ RestockedIn(rows, d) = g[DOMAIN rows]
<1> DEFINE S == DOMAIN rows
           f == AddedTo(rows, d)
           c == [s \in SUBSET S |-> CHOOSE x \in s : TRUE]
           Is(g) == g = [s \in SUBSET S |->
                      IF s = {} THEN 0
                      ELSE (IF rows[CHOOSE x \in s : TRUE].drink = d
                            THEN rows[CHOOSE x \in s : TRUE].amount ELSE 0)
                             + g[s \ {CHOOSE x \in s : TRUE}]]
           it == CHOOSE g : Is(g)
<1>1. IsFiniteSet(S)
  BY FS_Interval
<1>2. f \in [S -> Nat]
  <2>1. \A i \in S : rows[i] \in RestockRows
    OBVIOUS
  <2> QED  BY <2>1 DEF AddedTo, RestockRows
<1>3. IsChoice(c, S)
  BY DEF IsChoice
<1>4. ASSUME NEW g PROVE Solves(g, c, f, S) <=> Is(g)
  <2> HIDE DEF S
  <2>1. \A s \in SUBSET S : s # {} =>
          f[CHOOSE x \in s : TRUE] = IF rows[CHOOSE x \in s : TRUE].drink = d
                                     THEN rows[CHOOSE x \in s : TRUE].amount ELSE 0
    BY DEF AddedTo, S
  <2> QED  BY <2>1, ZenonT(30) DEF Solves, SumStep
<1>5. Solves(it, c, f, S)
  <2>1. PICK g : Solves(g, c, f, S)
    <3> HIDE DEF c, S, f
    <3> QED  BY <1>1, <1>3, SolutionExists
  <2> HIDE DEF c, Is, S, f
  <2> QED  BY <2>1, <1>4
<1>6. Sums(it, f, S)
  <2> HIDE DEF it, c, f, S
  <2> QED  BY <1>1, <1>2, <1>3, <1>5, SolutionIsSum
<1>7. RestockedIn(rows, d) = it[S]
  BY DEF RestockedIn, Sum, MapThenSumSet, MapThenFoldSet
<1> HIDE DEF it
<1> QED  BY <1>1, <1>6, <1>7

\* What a row of sales_log.csv counts in the total of a period.
CountedIn(rows, start, end) ==
  [i \in DOMAIN rows |-> IF InPeriod(rows[i], start, end) THEN rows[i].price ELSE 0]

\* The prices of some rows of a log, by place.
PricesAt(rows, P) == [i \in P |-> rows[i].price]

\* The sums of the days come to the sum of the rows of the period.
LEMMA DailyIsSum ==
  ASSUME NEW rows \in Seq(SaleRows), NEW start, NEW end
  PROVE  TotalIn(rows, start, end)
           = SumFunctionOnSet(PricesAt(rows, PeriodRows(rows, start, end)),
                              PeriodRows(rows, start, end))
<1> DEFINE P == PeriodRows(rows, start, end)
           key == [i \in P |-> rows[i].date]
           D == {rows[i].date : i \in P}
           f == PricesAt(rows, P)
           e == Daily(rows, start, end)
<1>1. IsFiniteSet(P)
  <2>1. IsFiniteSet(1 .. Len(rows)) /\ DOMAIN rows = 1 .. Len(rows)
    BY FS_Interval
  <2>2. P \in SUBSET (DOMAIN rows)
    BY DEF PeriodRows
  <2> HIDE DEF P
  <2> QED  BY <2>1, <2>2, FS_Subset
<1>2. IsFiniteSet(D)
  <2>1. key \in Surjection(P, D)
    BY DEF Surjection
  <2> HIDE DEF key, D, P
  <2> QED  BY <1>1, <2>1, FS_Surjection
<1>3. \A i \in P : f[i] \in Nat
  <2>1. \A i \in P : rows[i] \in SaleRows
    BY DEF PeriodRows
  <2> QED  BY <2>1 DEF SaleRows, PricesAt
<1>4. ASSUME NEW d \in D PROVE e[d] = SumFunctionOnSet(f, Part(P, key, {d}))
  <2>1. Part(P, key, {d}) = {i \in P : rows[i].date = d}
    BY DEF Part
  <2> QED  BY <2>1 DEF Daily, PricesAt
<1>5. DOMAIN e = D
  BY DEF Daily
<1>6. Part(P, key, D) = P
  BY DEF Part
<1> HIDE DEF D, e, f, P, key
<1>7. SumFunctionOnSet(e, D) = SumFunctionOnSet(f, Part(P, key, D))
  <2>1. SumsParts(e, f, key, P, D)
    BY <1>1, <1>2, <1>3, <1>4 DEF SumsParts
  <2> QED  BY <2>1, SumOnSetParts
<1>8. SumFunction(e) = SumFunctionOnSet(f, P)
  BY <1>5, <1>6, <1>7 DEF SumFunction
<1> QED  BY <1>8 DEF TotalIn, e, f, P

\* TotalIn is the sum of what the rows count.
LEMMA TotalIsSum ==
  ASSUME NEW rows \in Seq(SaleRows), NEW start, NEW end
  PROVE  /\ IsFiniteSet(DOMAIN rows)
         /\ \E g : /\ Sums(g, CountedIn(rows, start, end), DOMAIN rows)
                   /\ TotalIn(rows, start, end) = g[DOMAIN rows]
<1> DEFINE S == DOMAIN rows
           P == PeriodRows(rows, start, end)
           c == CountedIn(rows, start, end)
           f == PricesAt(rows, P)
<1>1. IsFiniteSet(S)
  BY FS_Interval
<1>2. P \subseteq S /\ \A i \in S : rows[i] \in SaleRows
  BY DEF PeriodRows
<1>3. /\ \A i \in P : f[i] \in Nat /\ f[i] = c[i]
      /\ \A i \in S \ P : c[i] = 0
  BY <1>2 DEF CountedIn, PricesAt, PeriodRows, SaleRows
<1>4. \A i \in S : c[i] \in Nat
  BY <1>3
<1>5. TotalIn(rows, start, end) = SumFunctionOnSet(f, P)
  BY DailyIsSum
<1> HIDE DEF S, P, c, f
<1>6. IsFiniteSet(P) /\ IsFiniteSet(S \ P) /\ P \cap (S \ P) = {} /\ P \cup (S \ P) = S
  BY <1>1, <1>2, FS_Subset
<1>7. SumFunctionOnSet(c, S) = SumFunctionOnSet(c, P) + SumFunctionOnSet(c, S \ P)
  <2> DEFINE R == S \ P
  <2>1. IsFiniteSet(R) /\ P \cap R = {} /\ P \cup R = S
    BY <1>6
  <2> HIDE DEF R
  <2>2. SumFunctionOnSet(c, P \cup R) = SumFunctionOnSet(c, P) + SumFunctionOnSet(c, R)
    BY <1>4, <1>6, <2>1, SumOnSetUnion
  <2> QED  BY <2>1, <2>2 DEF R
<1>8. SumFunctionOnSet(c, S \ P) = 0
  BY <1>3, <1>6, SumOnSetZero
<1>9. SumFunctionOnSet(f, P) = SumFunctionOnSet(c, P)
  BY <1>3, <1>6, SumOnSetAgrees
<1>10. SumFunctionOnSet(f, P) \in Nat
  BY <1>3, <1>6, SumOnSetFacts
<1>11. PICK g : Sums(g, c, S) /\ SumFunctionOnSet(c, S) = g[S]
  BY <1>1, <1>4, SumOnSetIsSum
<1>12. TotalIn(rows, start, end) = g[S]
  BY <1>5, <1>7, <1>8, <1>9, <1>10, <1>11
<1> QED  BY <1>1, <1>11, <1>12 DEF S, c

\* The sums of a log without rows, and with one row more.
LEMMA RestockedFacts ==
  ASSUME NEW rows \in Seq(RestockRows), NEW d
  PROVE  /\ RestockedIn(rows, d) \in Nat
         /\ rows = << >> => RestockedIn(rows, d) = 0
         /\ \A row \in RestockRows :
              RestockedIn(Append(rows, row), d)
                = RestockedIn(rows, d) + (IF row.drink = d THEN row.amount ELSE 0)
<1> DEFINE n == Len(rows)
<1>1. PICK g : Sums(g, AddedTo(rows, d), DOMAIN rows) /\ RestockedIn(rows, d) = g[DOMAIN rows]
  BY RestockedIsSum
<1>2. RestockedIn(rows, d) \in Nat
  BY <1>1 DEF Sums
<1>3. ASSUME rows = << >> PROVE RestockedIn(rows, d) = 0
  <2>1. DOMAIN rows = {}
    BY <1>3
  <2> QED  BY <1>1, <2>1 DEF Sums
<1>4. ASSUME NEW row \in RestockRows
      PROVE  RestockedIn(Append(rows, row), d)
               = RestockedIn(rows, d) + (IF row.drink = d THEN row.amount ELSE 0)
  <2> DEFINE more == Append(rows, row)
             f == AddedTo(rows, d)
             e == AddedTo(more, d)
  <2>1. more \in Seq(RestockRows) /\ DOMAIN more = 1 .. n + 1 /\ DOMAIN rows = 1 .. n
        /\ n \in Nat /\ more[n + 1] = row /\ \A i \in 1 .. n : more[i] = rows[i]
    BY AppendProperties, LenProperties
  <2>2. PICK h : Sums(h, e, DOMAIN more) /\ RestockedIn(more, d) = h[DOMAIN more]
    <3> HIDE DEF more
    <3> QED  BY <2>1, RestockedIsSum
  <2>3. \A i \in 1 .. n : f[i] = e[i]
    <3> HIDE DEF more, n
    <3> QED  BY <2>1 DEF AddedTo
  <2>4. e[n + 1] = (IF row.drink = d THEN row.amount ELSE 0) /\ e[n + 1] \in Nat
    <3> HIDE DEF more, n
    <3> QED  BY <2>1 DEF AddedTo, RestockRows
  <2> HIDE DEF more, n, f, e
  <2>5. Sums(g, f, 1 .. n) /\ Sums(h, e, 1 .. n + 1)
    BY <1>1, <2>1, <2>2 DEF f
  <2>6. h[1 .. n + 1] = g[1 .. n] + e[n + 1]
    <3>1. n \in Nat
      BY <2>1
    <3>2. e[n + 1] \in Nat
      BY <2>4
    <3> QED  BY <2>3, <2>5, <3>1, <3>2, SumsAppend
  <2>7. RestockedIn(more, d) = RestockedIn(rows, d) + e[n + 1]
    BY <1>1, <2>1, <2>2, <2>6
  <2> QED  BY <2>4, <2>7 DEF more
<1> QED  BY <1>2, <1>3, <1>4

\* The total of a period is a number, and a row more makes it no smaller.
LEMMA TotalFacts ==
  ASSUME NEW rows \in Seq(SaleRows), NEW start, NEW end
  PROVE  /\ TotalIn(rows, start, end) \in Nat
         /\ \A row \in SaleRows :
              TotalIn(rows, start, end) <= TotalIn(Append(rows, row), start, end)
<1> DEFINE n == Len(rows)
<1>1. PICK g : /\ Sums(g, CountedIn(rows, start, end), DOMAIN rows)
               /\ TotalIn(rows, start, end) = g[DOMAIN rows]
  BY TotalIsSum
<1>2. TotalIn(rows, start, end) \in Nat
  BY <1>1 DEF Sums
<1>3. ASSUME NEW row \in SaleRows
      PROVE  TotalIn(rows, start, end) <= TotalIn(Append(rows, row), start, end)
  <2> DEFINE more == Append(rows, row)
             f == CountedIn(rows, start, end)
             e == CountedIn(more, start, end)
  <2>1. more \in Seq(SaleRows) /\ DOMAIN more = 1 .. n + 1 /\ DOMAIN rows = 1 .. n
        /\ n \in Nat /\ more[n + 1] = row /\ \A i \in 1 .. n : more[i] = rows[i]
    BY AppendProperties, LenProperties
  <2>2. PICK h : Sums(h, e, DOMAIN more) /\ TotalIn(more, start, end) = h[DOMAIN more]
    <3> HIDE DEF more
    <3> QED  BY <2>1, TotalIsSum
  <2>3. \A i \in 1 .. n : f[i] = e[i]
    <3> HIDE DEF more, n
    <3> QED  BY <2>1 DEF CountedIn
  <2>4. e[n + 1] \in Nat
    <3> HIDE DEF more, n
    <3> QED  BY <2>1 DEF CountedIn, SaleRows
  <2> HIDE DEF more, n, f, e
  <2>5. Sums(g, f, 1 .. n) /\ Sums(h, e, 1 .. n + 1)
    BY <1>1, <2>1, <2>2 DEF f
  <2>6. h[1 .. n + 1] = g[1 .. n] + e[n + 1]
    <3>1. n \in Nat
      BY <2>1
    <3>2. e[n + 1] \in Nat
      BY <2>4
    <3> QED  BY <2>3, <2>5, <3>1, <3>2, SumsAppend
  <2>7. TotalIn(more, start, end) = TotalIn(rows, start, end) + e[n + 1]
    BY <1>1, <2>1, <2>2, <2>6
  <2>8. TotalIn(rows, start, end) <= TotalIn(more, start, end)
    BY <1>2, <2>4, <2>7
  <2> QED  BY <2>8 DEF more
<1> QED  BY <1>2, <1>3

-----------------------------------------------------------------------------
(* Types. *)

RowsOf(f) == IF f = "restock" THEN RestockRows ELSE CollectionRows

\* A process stands between choosing a row and writing it.
Writing == {"size", "header", "row"}

Machines == [stock : [Drinks -> 0 .. DefaultStock], menu : [Drinks -> Items],
             queue : Seq(SaleRows), row : SaleRows \cup {NoRow}]

Stands == {"idle", "peek", "size", "header", "row"}

Configs == [state : {"whole", "empty", "damaged"}, menu : [Drinks -> Items]]

Queries == [start : Dates \cup {0}, end : Dates \cup {0}, total : Nat, collectable : BOOLEAN]

Windows == [stock : [Drinks -> Nat], menu : [Drinks -> Items], query : Queries,
            file : Logs, row : RestockRows \cup CollectionRows \cup {NoRow}]

\* The inductive invariant of the types: the row a process is about to write
\* is one of the file it is about to write to, and the period it collects is
\* one it has looked at.
TypeInv ==
  /\ OfficeTypeOK
  /\ DOMAIN log = Logs
  /\ window \in [Admins -> Windows]
  /\ chosen \in [Drinks -> Items]
  /\ taken \in Seq(CollectionRows)
  /\ \A a \in Admins : at[a] \in Writing => window[a].row \in RowsOf(window[a].file)
  /\ \A a \in Admins : window[a].query.collectable =>
       window[a].query.start \in Dates /\ window[a].query.end \in Dates

\* The stock the logs give, of logs of their types.
LEMMA StockFromLogsType ==
  ASSUME sales_log \in Seq(SaleRows), log["restock"] \in Seq(RestockRows)
  PROVE  /\ StockFromLogs \in [Drinks -> Nat]
         /\ \A d \in Drinks : Sold(d) \in Nat /\ Restocked(d) \in Nat
<1>1. ASSUME NEW d \in Drinks PROVE Sold(d) \in Nat /\ Restocked(d) \in Nat
  <2>1. Restocked(d) \in Nat
    BY RestockedFacts DEF Restocked
  <2> DEFINE S == {i \in DOMAIN sales_log : sales_log[i].drink = d}
  <2>2. IsFiniteSet(1 .. Len(sales_log)) /\ S \in SUBSET (1 .. Len(sales_log))
    BY FS_Interval
  <2>3. Cardinality(S) \in Nat
    <3> HIDE DEF S
    <3> QED  BY <2>2, FS_Subset, FS_CardinalityType
  <2> QED  BY <2>1, <2>3 DEF Sold
<1> QED  BY <1>1, OfficeConstants DEF StockFromLogs

LEMMA MenuType == DefaultMenu \in [Drinks -> Items]
<1>1. DefaultMenu \in [Drinks -> [name : Names, price : Nat \ {0}]]
  BY OfficeConstants
<1>2. [name : Names, price : Nat \ {0}] \subseteq Items
  BY DEF Items
<1> QED  BY <1>1, <1>2

LEMMA NoWindowType == NoWindow \in Windows
BY MenuType DEF NoWindow, Windows, NoQuery, Queries, Logs

\* The types hold in the beginning.
LEMMA InitTypeInv == Init => TypeInv
<1> SUFFICES ASSUME Init PROVE TypeInv
  OBVIOUS
<1>1. today \in Dates
  <2>1. \E d \in Dates : \A e \in Dates : d <= e
    BY LeastElement, OfficeConstants
  <2> QED  BY <2>1 DEF Init
<1>2. budget \in [Acts -> Nat]
  BY OfficeConstants DEF Init
<1>3. machine \in Machines /\ selling \in [Sellers -> Stands] /\ selling[Machine] = "idle"
  <2>1. machine \in Machines
    BY MenuType, OfficeConstants DEF Init, DefaultMachine, Machines
  <2> QED  BY <2>1 DEF Init, Stands, Sellers
<1>4. window \in [Admins -> Windows] /\ \A a \in Admins : window[a] = NoWindow
  BY NoWindowType DEF Init
<1>5. OfficeTypeOK
  <2>1. log["restock"] = << >> /\ log["collection"] = << >> /\ sales_log = << >>
    BY DEF Init, Logs
  <2>2. \A a \in Admins : at[a] = "closed"
    BY DEF Init
  <2>3. \A a \in Admins : window[a].stock \in [Drinks -> Nat] /\ window[a].menu \in [Drinks -> Items]
    BY <1>4 DEF Windows
  <2>4. drink_config \in Configs
    BY MenuType DEF Init, Configs
  <2>5. at \in [Admins -> {"closed"}]
        /\ fresh \in [Admins -> SUBSET Files] /\ blind = {} /\ overtaken = {}
        /\ spoiled = {} /\ header = {} /\ admin_auth = "set"
    BY DEF Init
  <2>6. sales_log \in Seq(SaleRows) /\ log["restock"] \in Seq(RestockRows)
        /\ log["collection"] \in Seq(CollectionRows)
    BY <2>1
  <2> QED  BY <1>1, <1>2, <1>3, <2>2, <2>3, <2>4, <2>5, <2>6
           DEF OfficeTypeOK, Machines, Stands, Configs
<1>6. \A a \in Admins : at[a] \notin Writing /\ ~window[a].query.collectable
  BY <1>4 DEF Init, Writing, NoWindow, NoQuery
<1> QED  BY <1>4, <1>5, <1>6, MenuType DEF TypeInv, Init

Places == {"closed", "idle", "size", "header", "row", "save", "refresh", "confirmed", "password"}

\* The types of what is not in a window.
SharedType ==
  /\ today \in Dates
  /\ budget \in [Acts -> Nat]
  /\ machine \in Machines
  /\ selling \in [Sellers -> Stands]
  /\ selling[Machine] \in Writing => machine.row \in SaleRows
  /\ sales_log \in Seq(SaleRows)
  /\ DOMAIN log = Logs
  /\ log["restock"] \in Seq(RestockRows) /\ log["collection"] \in Seq(CollectionRows)
  /\ header \subseteq Logs \cup {"sales"}
  /\ drink_config \in Configs
  /\ admin_auth \in {"set", "empty"}
  /\ fresh \in [Admins -> SUBSET Files] /\ blind \subseteq Files \cup {"sales"}
  /\ overtaken \subseteq Admins \cup Sellers /\ spoiled \subseteq {"config", "auth"}
  /\ chosen \in [Drinks -> Items]
  /\ taken \in Seq(CollectionRows)

\* What holds of a process at place p with window w.
WindowOK(p, w) ==
  /\ p \in Places
  /\ w \in Windows
  /\ p \in Writing => w.row \in RowsOf(w.file)
  /\ w.query.collectable => w.query.start \in Dates /\ w.query.end \in Dates

\* TypeInv, process by process.
TypeParts ==
  /\ SharedType
  /\ at \in [Admins -> Places] /\ window \in [Admins -> Windows]
  /\ \A a \in Admins : WindowOK(at[a], window[a])

LEMMA TypeInvParts == TypeInv <=> TypeParts
<1> USE DEF TypeParts
<1>1. ASSUME TypeInv PROVE TypeParts
  BY <1>1 DEF TypeInv, OfficeTypeOK, SharedType, Places, WindowOK, Machines, Stands, Writing,
     Configs
<1>2. ASSUME TypeParts PROVE TypeInv
  <2>1. \A a \in Admins :
          /\ window[a].stock \in [Drinks -> Nat] /\ window[a].menu \in [Drinks -> Items]
          /\ at[a] = "row" => window[a].row \in RestockRows \cup CollectionRows
    BY <1>2 DEF Windows, WindowOK, Writing, RowsOf
  <2>2. OfficeTypeOK
    BY <1>2, <2>1 DEF OfficeTypeOK, SharedType, Places, Machines, Stands, Writing, Configs
  <2> QED  BY <1>2, <2>2 DEF TypeInv, SharedType, WindowOK
<1> QED  BY <1>1, <1>2

\* A step of one process changes one place and one window.
LEMMA OneWindow ==
  ASSUME NEW a \in Admins, NEW p, NEW w,
         TypeInv, SharedType', WindowOK(p, w),
         at' = [at EXCEPT ![a] = p], window' = [window EXCEPT ![a] = w]
  PROVE  TypeInv'
<1>1. at \in [Admins -> Places] /\ window \in [Admins -> Windows]
      /\ \A b \in Admins : WindowOK(at[b], window[b])
  BY TypeInvParts DEF TypeParts
<1>2. at' \in [Admins -> Places] /\ window' \in [Admins -> Windows]
  BY <1>1 DEF WindowOK
<1>3. ASSUME NEW b \in Admins PROVE WindowOK(at'[b], window'[b])
  <2>1. CASE b = a
    BY <1>1, <2>1
  <2>2. CASE b # a
    <3>1. at'[b] = at[b] /\ window'[b] = window[b]
      BY <1>1, <2>2
    <3> QED  BY <1>1, <3>1
  <2> QED  BY <2>1, <2>2
<1>4. TypeParts'
  BY <1>2, <1>3 DEF TypeParts, WindowOK
<1> QED  BY <1>4, TypeInvParts, PTL

\* A step that opens, closes and changes no window.
LEMMA NoWindowChanges ==
  ASSUME TypeInv, SharedType', UNCHANGED admin
  PROVE  TypeInv'
<1>1. TypeParts
  BY TypeInvParts
<1>2. TypeParts'
  BY <1>1 DEF TypeParts, admin, WindowOK
<1> QED  BY <1>2, TypeInvParts, PTL

\* What a step may spend, read or write has its type afterwards.
LEMMA SpendType ==
  ASSUME NEW act \in Acts, budget \in [Acts -> Nat], Spend(act)
  PROVE  budget' \in [Acts -> Nat]
BY DEF Spend

LEMMA WritesType ==
  ASSUME NEW a \in Admins, NEW f \in Files, SharedType, Writes(a, f)
  PROVE  /\ fresh' \in [Admins -> SUBSET Files] /\ blind' \subseteq Files \cup {"sales"}
         /\ overtaken' \subseteq Admins \cup Sellers
BY DEF SharedType, Writes, Touches

LEMMA ReadsType ==
  ASSUME NEW a \in Admins, NEW f \in SUBSET Files, SharedType, Reads(a, f)
  PROVE  fresh' \in [Admins -> SUBSET Files]
BY DEF SharedType, Reads

\* A process that ends leaves nothing of its window.
LEMMA EndsType ==
  ASSUME NEW a \in Admins, TypeInv, SharedType', Ends(a)
  PROVE  TypeInv'
<1>1. WindowOK("closed", NoWindow)
  BY NoWindowType DEF WindowOK, Places, Writing, NoWindow, NoQuery
<1> HIDE DEF NoWindow
<1> QED  BY <1>1, OneWindow DEF Ends

\* A step that moves a process and leaves its window as it is.
LEMMA RowStaysType ==
  ASSUME NEW a \in Admins, NEW p \in Places, TypeInv, SharedType', UNCHANGED window,
         at' = [at EXCEPT ![a] = p],
         p \in Writing => at[a] \in Writing
  PROVE  TypeInv'
<1>1. WindowOK(at[a], window[a]) /\ window \in [Admins -> Windows]
  BY TypeInvParts DEF TypeParts
<1>2. WindowOK(p, window[a])
  BY <1>1 DEF WindowOK
<1>3. window' = [window EXCEPT ![a] = window[a]]
  BY <1>1
<1> QED  BY <1>2, <1>3, OneWindow

\* A window that has chosen a name or a price, and begins to save, writes the
\* configuration file and nothing else that is shared.
LEMMA EmptyTypes ==
  ASSUME NEW a \in Admins, SharedType, EmptyDrinkConfig(a),
         budget' \in [Acts -> Nat], chosen' \in [Drinks -> Items]
  PROVE  SharedType'
<1>1. "config" \in Files
  BY DEF Files
<1>2. /\ fresh' \in [Admins -> SUBSET Files] /\ blind' \subseteq Files \cup {"sales"}
      /\ overtaken' \subseteq Admins \cup Sellers
  BY <1>1, WritesType DEF EmptyDrinkConfig
<1>3. drink_config' \in Configs
  BY DEF SharedType, EmptyDrinkConfig, Configs
<1> QED  BY <1>2, <1>3 DEF SharedType, EmptyDrinkConfig, shop

\* The steps of the sales processes keep the types, and change no window.
LEMMA SalesStepType ==
  ASSUME SharedType, SalesStep
  PROVE  SharedType' /\ UNCHANGED admin
<1>0. /\ machine \in Machines /\ selling \in [Sellers -> Stands] /\ sales_log \in Seq(SaleRows)
      /\ today \in Dates /\ budget \in [Acts -> Nat] /\ Machine \in Sellers
      /\ Elsewhere \subseteq Sellers
  BY DEF SharedType, Sellers
<1>1. ASSUME NEW d \in Drinks, Sell(d) PROVE SharedType' /\ UNCHANGED admin
  <2> DEFINE row == [date |-> today, drink |-> d, name |-> machine.menu[d].name,
                     price |-> machine.menu[d].price]
  <2>1. budget' \in [Acts -> Nat]
    BY <1>0, <1>1, SpendType DEF Sell, Acts
  <2>2. row \in SaleRows
    <3>1. machine.menu[d] \in Items
      BY <1>0 DEF Machines
    <3> QED  BY <1>0, <3>1 DEF SaleRows, Items
  <2>3. machine.stock[d] - 1 \in 0 .. DefaultStock
    BY <1>0, <1>1, OfficeConstants DEF Sell, Machines
  <2>4. machine' = [machine EXCEPT !.stock[d] = @ - 1, !.queue = Append(@, row)]
    BY <1>1 DEF Sell
  <2> HIDE DEF row
  <2>5. Append(machine.queue, row) \in Seq(SaleRows)
    BY <1>0, <2>2, AppendProperties DEF Machines
  <2>6. machine' \in Machines
    BY <1>0, <2>3, <2>4, <2>5 DEF Machines
  <2>7. selling' \in [Sellers -> Stands] /\ selling'[Machine] \notin Writing
    BY <1>0, <1>1 DEF Sell, Stands, Writing
  <2> QED  BY <1>1, <2>1, <2>6, <2>7 DEF Sell, SharedType, files, history
<1>2. CASE Deliver
  <2>1. Tail(machine.queue) \in Seq(SaleRows)
    BY <1>0, <1>2 DEF Deliver, Machines
  <2>2. machine' \in Machines /\ machine'.row = machine.row
    BY <1>0, <1>2, <2>1 DEF Deliver, Machines
  <2> QED  BY <1>2, <2>2 DEF Deliver, SharedType, files, history
<1>3. CASE Peek
  <2>1. CASE machine' = machine /\ selling' = [selling EXCEPT ![Machine] = "idle"]
    <3>1. selling' \in [Sellers -> Stands] /\ selling'[Machine] \notin Writing
      BY <1>0, <2>1 DEF Stands, Writing
    <3> QED  BY <1>3, <2>1, <3>1 DEF Peek, SharedType, files, history
  <2>2. ASSUME NEW i \in DOMAIN machine.queue, machine' = [machine EXCEPT !.row = machine.queue[i]],
               selling' = [selling EXCEPT ![Machine] = "size"]
        PROVE  SharedType'
    <3>1. machine.queue[i] \in SaleRows
      BY <1>0 DEF Machines
    <3>2. machine' \in Machines /\ machine'.row \in SaleRows
      BY <1>0, <2>2, <3>1 DEF Machines
    <3>3. selling' \in [Sellers -> Stands]
      BY <1>0, <2>2 DEF Stands
    <3> QED  BY <1>3, <3>2, <3>3 DEF Peek, SharedType, files, history
  <2> QED  BY <1>3, <2>1, <2>2 DEF Peek
<1>4. CASE RestartSales
  <2>1. budget' \in [Acts -> Nat]
    BY <1>0, <1>4, SpendType DEF RestartSales, Acts
  <2>2. machine' \in Machines
    <3>1. drink_config.menu \in [Drinks -> Items] /\ DefaultStock \in 0 .. DefaultStock
      BY OfficeConstants DEF SharedType, Configs
    <3>2. machine' = [stock |-> [d \in Drinks |-> DefaultStock], menu |-> drink_config.menu,
                      queue |-> << >>, row |-> NoRow]
      BY <1>4 DEF RestartSales, DefaultMachine
    <3> QED  BY <3>1, <3>2 DEF Machines
  <2>3. selling' \in [Sellers -> Stands] /\ selling'[Machine] \notin Writing
    BY <1>0, <1>4 DEF RestartSales, Stands, Writing
  <2> QED  BY <1>4, <2>1, <2>2, <2>3 DEF RestartSales, SharedType, files
<1>5. ASSUME NEW s \in Elsewhere, SellElsewhere(s) PROVE SharedType' /\ UNCHANGED admin
  <2>1. budget' \in [Acts -> Nat]
    BY <1>0, <1>5, SpendType DEF SellElsewhere, Acts
  <2>2. selling' \in [Sellers -> Stands] /\ selling'[Machine] = selling[Machine]
    BY <1>0, <1>5, OfficeConstants DEF SellElsewhere, Stands
  <2> QED  BY <1>5, <2>1, <2>2 DEF SellElsewhere, SharedType, files, history
<1>6. ASSUME NEW s \in Sellers, TestSalesSize(s) PROVE SharedType' /\ UNCHANGED admin
  <2>1. selling' \in [Sellers -> Stands]
    BY <1>0, <1>6 DEF TestSalesSize, Stands
  <2>2. selling'[Machine] \in Writing => selling[Machine] \in Writing
    BY <1>0, <1>6 DEF TestSalesSize, Writing
  <2> QED  BY <1>6, <2>1, <2>2 DEF TestSalesSize, SharedType, files, history
<1>7. ASSUME NEW s \in Sellers, WriteSalesHeader(s) PROVE SharedType' /\ UNCHANGED admin
  <2>1. selling' \in [Sellers -> Stands]
    BY <1>0, <1>7 DEF WriteSalesHeader, Stands
  <2>2. selling'[Machine] \in Writing => selling[Machine] \in Writing
    BY <1>0, <1>7 DEF WriteSalesHeader, Writing
  <2>3. sales_log' \in Seq(SaleRows) /\ header' \subseteq Logs \cup {"sales"}
        /\ overtaken' \subseteq Admins \cup Sellers /\ blind' \subseteq Files \cup {"sales"}
    BY <1>7 DEF WriteSalesHeader, Touches, SharedType
  <2> QED  BY <1>7, <2>1, <2>2, <2>3 DEF WriteSalesHeader, SharedType
<1>8. ASSUME NEW s \in Sellers, AppendSale(s) PROVE SharedType' /\ UNCHANGED admin
  <2>1. selling' \in [Sellers -> Stands]
    BY <1>0, <1>8 DEF AppendSale, Stands
  <2>2. selling'[Machine] \in Writing => selling[Machine] \in Writing
    BY <1>0, <1>8 DEF AppendSale, Writing
  <2>3. sales_log' \in Seq(SaleRows)
    <3>1. CASE s = Machine
      <4>1. machine.row \in SaleRows
        BY <1>8, <3>1 DEF AppendSale, SharedType, Writing
      <4> QED  BY <1>0, <1>8, <3>1, <4>1, AppendProperties DEF AppendSale
    <3>2. CASE s # Machine
      BY <1>0, <1>8, <3>2 DEF AppendSale
    <3> QED  BY <3>1, <3>2
  <2>4. overtaken' \subseteq Admins \cup Sellers
    BY <1>8 DEF AppendSale, Touches
  <2> QED  BY <1>8, <2>1, <2>2, <2>3, <2>4 DEF AppendSale, SharedType
<1> QED  BY <1>1, <1>2, <1>3, <1>4, <1>5, <1>6, <1>7, <1>8
         DEF SalesStep, Deliver, Peek, RestartSales

\* Every step keeps the types.
LEMMA NextTypeInv == TypeInv /\ [Next]_vars => TypeInv'
<1> SUFFICES ASSUME TypeInv, [Next]_vars PROVE TypeInv'
  OBVIOUS
<1>0. /\ SharedType /\ at \in [Admins -> Places] /\ window \in [Admins -> Windows]
      /\ \A a \in Admins : WindowOK(at[a], window[a])
  BY TypeInvParts DEF TypeParts
<1>u. Files = {"restock", "collection", "config"} /\ Logs = {"restock", "collection"}
  BY DEF Files, Logs
<1>1. CASE UNCHANGED vars
  <2>1. SharedType'
    BY <1>0, <1>1 DEF SharedType, vars, shop, files, history
  <2> QED  BY <1>1, <2>1, NoWindowChanges DEF vars
<1>2. CASE Midnight
  <2>1. budget' \in [Acts -> Nat] /\ today' \in Dates
    BY <1>0, <1>2, SpendType DEF Midnight, Acts, SharedType
  <2>2. SharedType'
    BY <1>0, <1>2, <2>1 DEF Midnight, SharedType, shop, files, history
  <2> QED  BY <1>2, <2>2, NoWindowChanges DEF Midnight
<1>3. CASE SalesStep
  BY <1>0, <1>3, SalesStepType, NoWindowChanges
<1>4. ASSUME NEW a \in Admins, AdminStep(a) PROVE TypeInv'
  <2>s. StockFromLogs \in [Drinks -> Nat]
    BY <1>0, StockFromLogsType DEF SharedType
  <2>w. /\ at[a] \in Places /\ window[a] \in Windows /\ WindowOK(at[a], window[a])
    BY <1>0
  <2>1. CASE OpenWindow(a)
    <3>1. fresh' \in [Admins -> SUBSET Files]
      BY <1>0, <2>1, ReadsType DEF OpenWindow
    <3>2. SharedType'
      BY <1>0, <2>1, <3>1 DEF OpenWindow, SharedType, shop, files
    <3> DEFINE w == [NoWindow EXCEPT !.stock = StockFromLogs, !.menu = drink_config.menu]
    <3>3. drink_config.menu \in [Drinks -> Items]
      BY <1>0 DEF SharedType, Configs
    <3>4. w \in Windows /\ w.query = NoQuery
      BY <2>s, <3>3, NoWindowType DEF Windows, NoWindow
    <3>5. WindowOK("idle", w)
      <4> HIDE DEF w
      <4> QED  BY <3>4 DEF WindowOK, Places, Writing, NoQuery
    <3>6. at' = [at EXCEPT ![a] = "idle"] /\ window' = [window EXCEPT ![a] = w]
      BY <2>1 DEF OpenWindow
    <3> HIDE DEF w
    <3> QED  BY <3>2, <3>5, <3>6, OneWindow
  <2>2. CASE CloseWindow(a)
    <3>1. fresh' \in [Admins -> SUBSET Files] /\ overtaken' \subseteq Admins \cup Sellers
      BY <1>0, <2>2 DEF CloseWindow, Ends, SharedType
    <3>2. SharedType'
      BY <1>0, <2>2, <3>1 DEF CloseWindow, SharedType, shop, files
    <3> QED  BY <2>2, <3>2, EndsType DEF CloseWindow
  <2>3. CASE Cut(a)
    <3>1. fresh' \in [Admins -> SUBSET Files] /\ overtaken' \subseteq Admins \cup Sellers
          /\ spoiled' \subseteq {"config", "auth"}
      BY <1>0, <2>3 DEF Cut, Ends, SharedType
    <3>2. budget' \in [Acts -> Nat]
      BY <1>0, <2>3, SpendType DEF Cut, Acts, SharedType
    <3>3. SharedType'
      BY <1>0, <2>3, <3>1, <3>2 DEF Cut, SharedType, shop, files
    <3> QED  BY <2>3, <3>3, EndsType DEF Cut
  <2>4. CASE RefreshInventory(a)
    <3>1. fresh' \in [Admins -> SUBSET Files]
      BY <1>0, <1>u, <2>4, ReadsType DEF RefreshInventory
    <3>2. SharedType'
      BY <1>0, <2>4, <3>1 DEF RefreshInventory, SharedType, shop, files
    <3> DEFINE w == [window[a] EXCEPT !.stock = StockFromLogs]
    <3>3. w \in Windows /\ w.query = window[a].query
      BY <2>s, <2>w DEF Windows
    <3>4. at' = [at EXCEPT ![a] = "idle"] /\ window' = [window EXCEPT ![a] = w]
      BY <1>0, <2>4 DEF RefreshInventory
    <3> HIDE DEF w
    <3>5. WindowOK("idle", w)
      BY <2>w, <3>3 DEF WindowOK, Places, Writing
    <3> QED  BY <3>2, <3>4, <3>5, OneWindow
  <2>5. CASE TestSize(a)
    <3>1. SharedType'
      BY <1>0, <2>5 DEF TestSize, SharedType, shop, files, history
    <3> DEFINE p == IF NeedsHeader(window[a].file) THEN "header" ELSE "row"
    <3>2. p \in Places /\ at[a] \in Writing /\ at' = [at EXCEPT ![a] = p]
      BY <2>5 DEF TestSize, Places, Writing
    <3> HIDE DEF p
    <3> QED  BY <2>5, <3>1, <3>2, RowStaysType DEF TestSize
  <2>6. CASE WriteHeader(a)
    <3>1. window[a].file \in Logs /\ at[a] \in Writing
      BY <2>w, <2>6 DEF WindowOK, Windows, WriteHeader, Writing
    <3>2. fresh' \in [Admins -> SUBSET Files] /\ blind' \subseteq Files \cup {"sales"}
          /\ overtaken' \subseteq Admins \cup Sellers
      BY <1>0, <1>u, <2>6, <3>1, WritesType DEF WriteHeader
    <3>3. /\ DOMAIN log' = Logs /\ header' \subseteq Logs \cup {"sales"}
          /\ log'["restock"] \in Seq(RestockRows) /\ log'["collection"] \in Seq(CollectionRows)
      <4> DEFINE f == window[a].file
      <4>1. log' = [log EXCEPT ![f] = << >>] /\ header' = header \cup {f}
        BY <2>6 DEF WriteHeader
      <4>2. /\ DOMAIN log = Logs /\ header \subseteq Logs \cup {"sales"}
            /\ log["restock"] \in Seq(RestockRows) /\ log["collection"] \in Seq(CollectionRows)
        BY <1>0 DEF SharedType
      <4> HIDE DEF f
      <4>3. f \in Logs
        BY <3>1 DEF f
      <4>4. \A g \in Logs : log'[g] = log[g] \/ log'[g] = << >>
        BY <4>1, <4>2
      <4>5. log'["restock"] \in Seq(RestockRows) /\ log'["collection"] \in Seq(CollectionRows)
        <5>1. "restock" \in Logs /\ "collection" \in Logs
          BY <1>u
        <5>2. << >> \in Seq(RestockRows) /\ << >> \in Seq(CollectionRows)
          OBVIOUS
        <5>3. log'["restock"] = log["restock"] \/ log'["restock"] = << >>
          BY <4>4, <5>1
        <5>4. log'["collection"] = log["collection"] \/ log'["collection"] = << >>
          BY <4>4, <5>1
        <5> QED  BY <4>2, <5>2, <5>3, <5>4
      <4> QED  BY <4>1, <4>2, <4>3, <4>5
    <3>4. SharedType'
      BY <1>0, <2>6, <3>2, <3>3 DEF WriteHeader, SharedType, shop
    <3> QED  BY <2>6, <3>1, <3>4, RowStaysType DEF WriteHeader, Places
  <2>7. CASE AppendRow(a)
    <3> DEFINE f == window[a].file
               r == window[a].row
    <3>1. f \in Logs /\ r \in RowsOf(f)
      BY <2>w, <2>7 DEF WindowOK, Windows, AppendRow, Writing
    <3>2. fresh' \in [Admins -> SUBSET Files] /\ blind' \subseteq Files \cup {"sales"}
          /\ overtaken' \subseteq Admins \cup Sellers
      BY <1>0, <1>u, <2>7, <3>1, WritesType DEF AppendRow
    <3>3. /\ DOMAIN log' = Logs
          /\ log' = [log EXCEPT ![f] = Append(@, r)]
      BY <1>0, <2>7 DEF AppendRow, SharedType
    <3>4. /\ log'["restock"] \in Seq(RestockRows) /\ log'["collection"] \in Seq(CollectionRows)
      <4>1. CASE f = "restock"
        BY <1>0, <1>u, <3>1, <3>3, <4>1, AppendProperties DEF SharedType, RowsOf
      <4>2. CASE f = "collection"
        BY <1>0, <1>u, <3>1, <3>3, <4>2, AppendProperties DEF SharedType, RowsOf
      <4> QED  BY <1>u, <3>1, <4>1, <4>2
    <3>5. taken' \in Seq(CollectionRows)
      <4>1. taken \in Seq(CollectionRows)
        BY <1>0 DEF SharedType
      <4>2. taken' = taken \/ (f = "collection" /\ taken' = Append(taken, r))
        BY <1>u, <2>7, <3>1 DEF AppendRow
      <4>3. f = "collection" => r \in CollectionRows
        BY <3>1 DEF RowsOf
      <4> HIDE DEF f, r
      <4> QED  BY <4>1, <4>2, <4>3, AppendProperties
    <3>6. SharedType'
      BY <1>0, <2>7, <3>2, <3>3, <3>4, <3>5 DEF AppendRow, SharedType, shop
    <3>7. CASE f = "restock"
      <4> DEFINE w == [window[a] EXCEPT !.row = NoRow]
      <4>1. at' = [at EXCEPT ![a] = "refresh"] /\ window' = [window EXCEPT ![a] = w]
        BY <1>0, <2>7, <3>7 DEF AppendRow
      <4>2. w \in Windows /\ w.query = window[a].query
        BY <2>w DEF Windows
      <4> HIDE DEF w
      <4>3. WindowOK("refresh", w)
        BY <2>w, <4>2 DEF WindowOK, Places, Writing
      <4> QED  BY <3>6, <4>1, <4>3, OneWindow
    <3>8. CASE f # "restock"
      <4> DEFINE q == [window[a].query EXCEPT !.collectable = FALSE]
                 w == [window[a] EXCEPT !.row = NoRow, !.query = q]
      <4>1. at' = [at EXCEPT ![a] = "idle"] /\ window' = [window EXCEPT ![a] = w]
        <5>1. /\ at' = [at EXCEPT ![a] = "idle"]
              /\ window' = [window EXCEPT ![a].row = NoRow, ![a].query.collectable = FALSE]
          BY <2>7, <3>8 DEF AppendRow
        <5> QED  BY <1>0, <2>w, <5>1 DEF Windows
      <4>2. q \in Queries /\ ~q.collectable
        BY <2>w DEF Windows, Queries
      <4> HIDE DEF q
      <4>3. w \in Windows /\ w.query = q
        BY <2>w, <4>2 DEF Windows
      <4> HIDE DEF w
      <4>4. WindowOK("idle", w)
        BY <4>2, <4>3 DEF WindowOK, Places, Writing
      <4> QED  BY <3>6, <4>1, <4>4, OneWindow
    <3> QED  BY <3>7, <3>8
  <2>8. ASSUME NEW d \in Drinks, NEW n \in 1 .. MaxStock, OnRestock(a, d, n) PROVE TypeInv'
    <3>1. budget' \in [Acts -> Nat]
      BY <1>0, <2>8, SpendType DEF OnRestock, Acts, SharedType
    <3>2. SharedType'
      BY <1>0, <2>8, <3>1 DEF OnRestock, SharedType, shop, files, history
    <3> DEFINE r == [drink |-> d, amount |-> Filled(window[a].stock[d], n)]
               w == [window[a] EXCEPT !.file = "restock", !.row = r]
    <3>3. r \in RestockRows
      <4>1. window[a].stock[d] \in Nat /\ window[a].stock[d] < MaxStock
        BY <2>w, <2>8 DEF OnRestock, Windows
      <4>2. Filled(window[a].stock[d], n) \in Nat
        BY <4>1, OfficeConstants DEF Filled
      <4> QED  BY <4>2 DEF RestockRows
    <3>4. at' = [at EXCEPT ![a] = "size"] /\ window' = [window EXCEPT ![a] = w]
      BY <1>0, <2>8 DEF OnRestock, StartAppend
    <3> HIDE DEF r
    <3>5. w \in Windows /\ w.query = window[a].query /\ w.row = r /\ w.file = "restock"
      BY <1>u, <2>w, <3>3 DEF Windows
    <3> HIDE DEF w
    <3>6. WindowOK("size", w)
      BY <2>w, <3>3, <3>5 DEF WindowOK, Places, RowsOf
    <3> QED  BY <3>2, <3>4, <3>6, OneWindow
  <2>9. ASSUME NEW d \in Drinks, NEW p \in Prices, OnReprice(a, d, p) PROVE TypeInv'
    <3>1. budget' \in [Acts -> Nat]
      BY <1>0, <2>9, SpendType DEF OnReprice, Acts, SharedType
    <3>2. p \in Nat
      BY OfficeConstants
    <3>3. chosen' \in [Drinks -> Items]
      BY <1>0, <2>9, <3>2 DEF OnReprice, SharedType, Items
    <3>4. SharedType'
      BY <1>0, <2>9, <3>1, <3>3, EmptyTypes DEF OnReprice
    <3> DEFINE m == [window[a].menu EXCEPT ![d].price = p]
               w == [window[a] EXCEPT !.menu = m]
    <3>5. m \in [Drinks -> Items]
      BY <2>w, <3>2 DEF Windows, Items
    <3>6. at' = [at EXCEPT ![a] = "save"] /\ window' = [window EXCEPT ![a] = w]
      BY <1>0, <2>9 DEF OnReprice, EmptyDrinkConfig
    <3> HIDE DEF m
    <3>7. w \in Windows /\ w.query = window[a].query
      BY <2>w, <3>5 DEF Windows
    <3> HIDE DEF w
    <3>8. WindowOK("save", w)
      BY <2>w, <3>7 DEF WindowOK, Places, Writing
    <3> QED  BY <3>4, <3>6, <3>8, OneWindow
  <2>15. ASSUME NEW d \in Drinks, NEW n \in Names, OnRename(a, d, n) PROVE TypeInv'
    <3>1. budget' \in [Acts -> Nat]
      BY <1>0, <2>15, SpendType DEF OnRename, Acts, SharedType
    <3>3. chosen' \in [Drinks -> Items]
      BY <1>0, <2>15 DEF OnRename, SharedType, Items
    <3>4. SharedType'
      BY <1>0, <2>15, <3>1, <3>3, EmptyTypes DEF OnRename
    <3> DEFINE m == [window[a].menu EXCEPT ![d].name = n]
               w == [window[a] EXCEPT !.menu = m]
    <3>5. m \in [Drinks -> Items]
      BY <2>w DEF Windows, Items
    <3>6. at' = [at EXCEPT ![a] = "save"] /\ window' = [window EXCEPT ![a] = w]
      BY <1>0, <2>15 DEF OnRename, EmptyDrinkConfig
    <3> HIDE DEF m
    <3>7. w \in Windows /\ w.query = window[a].query
      BY <2>w, <3>5 DEF Windows
    <3> HIDE DEF w
    <3>8. WindowOK("save", w)
      BY <2>w, <3>7 DEF WindowOK, Places, Writing
    <3> QED  BY <3>4, <3>6, <3>8, OneWindow
  <2>10. CASE SaveDrinkConfig(a)
    <3>1. fresh' \in [Admins -> SUBSET Files] /\ blind' \subseteq Files \cup {"sales"}
          /\ overtaken' \subseteq Admins \cup Sellers
      BY <1>0, <1>u, <2>10, WritesType DEF SaveDrinkConfig
    <3>2. drink_config' \in Configs /\ spoiled' \subseteq {"config", "auth"}
      BY <1>0, <2>w, <2>10 DEF SaveDrinkConfig, Saved, Windows, Configs, SharedType
    <3>3. SharedType'
      BY <1>0, <2>10, <3>1, <3>2 DEF SaveDrinkConfig, SharedType, shop
    <3> QED  BY <2>10, <3>3, RowStaysType DEF SaveDrinkConfig, Places, Writing
  <2>11. ASSUME NEW start \in Dates, NEW end \in Dates, QuerySales(a, start, end) PROVE TypeInv'
    <3>1. budget' \in [Acts -> Nat]
      BY <1>0, <2>11, SpendType DEF QuerySales, Acts, SharedType
    <3>2. SharedType'
      BY <1>0, <2>11, <3>1 DEF QuerySales, SharedType, shop, files, history
    <3> DEFINE q == QueryResult(a, start, end)
               w == [window[a] EXCEPT !.query = q]
    <3>3. Total(start, end) \in Nat
      BY <1>0, TotalFacts DEF SharedType, Total
    <3>4. q \in Queries /\ q.start = start /\ q.end = end
      BY <3>3 DEF QueryResult, Queries
    <3>5. window' = [window EXCEPT ![a] = w]
      BY <1>0, <2>11 DEF QuerySales
    <3>6. at' = [at EXCEPT ![a] = at[a]] /\ at[a] = "idle"
      BY <1>0, <2>11 DEF QuerySales
    <3> HIDE DEF q
    <3>7. w \in Windows /\ w.query = q
      BY <2>w, <3>4 DEF Windows
    <3> HIDE DEF w
    <3>8. WindowOK(at[a], w)
      BY <3>4, <3>6, <3>7 DEF WindowOK, Places, Writing
    <3> QED  BY <3>2, <3>5, <3>6, <3>8, OneWindow
  <2>12. ASSUME NEW mode \in Modes, OnCollect(a, mode) PROVE TypeInv'
    <3>1. budget' \in [Acts -> Nat]
      BY <1>0, <2>12, SpendType DEF OnCollect, Acts, SharedType
    <3>2. fresh' \in [Admins -> SUBSET Files]
      BY <1>0, <1>u, <2>12, ReadsType DEF OnCollect
    <3>3. SharedType'
      BY <1>0, <2>12, <3>1, <3>2 DEF OnCollect, SharedType, shop, files
    <3> DEFINE q == window[a].query
               r == [start |-> q.start, end |-> q.end, mode |-> mode, amount |-> q.total]
               w == [window[a] EXCEPT !.file = "collection", !.row = r]
    <3>4. q \in Queries /\ q.start \in Dates /\ q.end \in Dates
      BY <2>w, <2>12 DEF OnCollect, WindowOK, Windows
    <3>5. r \in CollectionRows
      BY <3>4 DEF CollectionRows, Queries
    <3>6. at' = [at EXCEPT ![a] = "size"] /\ window' = [window EXCEPT ![a] = w]
      BY <1>0, <2>12 DEF OnCollect, StartAppend
    <3> HIDE DEF r
    <3>7. w \in Windows /\ w.query = window[a].query /\ w.row = r /\ w.file = "collection"
      BY <1>u, <2>w, <3>5 DEF Windows
    <3> HIDE DEF w
    <3>8. WindowOK("size", w)
      BY <3>4, <3>5, <3>7 DEF WindowOK, Places, RowsOf
    <3> QED  BY <3>3, <3>6, <3>8, OneWindow
  <2>13. CASE OnChangePassword(a)
    <3>1. budget' \in [Acts -> Nat]
      BY <1>0, <2>13, SpendType DEF OnChangePassword, Acts, SharedType
    <3>2. SharedType'
      BY <1>0, <2>13, <3>1 DEF OnChangePassword, SharedType, shop, files, history
    <3> QED  BY <2>13, <3>2, RowStaysType DEF OnChangePassword, Places, Writing
  <2>14. CASE SetPassword(a)
    <3>1. overtaken' \subseteq Admins \cup Sellers /\ spoiled' \subseteq {"config", "auth"}
      BY <1>0, <2>14 DEF SetPassword, Touches, SharedType
    <3>2. SharedType'
      BY <1>0, <2>14, <3>1 DEF SetPassword, SharedType, shop
    <3> QED  BY <2>14, <3>2, RowStaysType DEF SetPassword, Places, Writing
  <2>16. CASE EmptyPassword(a)
    <3>1. overtaken' \subseteq Admins \cup Sellers
      BY <2>16 DEF EmptyPassword, Touches
    <3>2. SharedType'
      BY <1>0, <2>16, <3>1 DEF EmptyPassword, SharedType, shop
    <3> QED  BY <2>16, <3>2, RowStaysType DEF EmptyPassword, Places, Writing
  <2> QED  BY <1>4, <2>1, <2>2, <2>3, <2>4, <2>5, <2>6, <2>7, <2>8, <2>9, <2>10, <2>11, <2>12,
              <2>13, <2>14, <2>15, <2>16 DEF AdminStep
<1> QED  BY <1>1, <1>2, <1>3, <1>4 DEF Next

LEMMA TypeInvAlways == Spec => []TypeInv
BY InitTypeInv, NextTypeInv, PTL DEF Spec

(***************************************************************************)
(* The files, the windows and what is about to be written have their types *)
(* (file_manager.py:31-154, admin_window.py:394-631).                       *)
(***************************************************************************)
THEOREM OfficeTypeCorrect == Spec => []OfficeTypeOK
<1>1. TypeInv => OfficeTypeOK
  BY DEF TypeInv
<1> QED  BY <1>1, TypeInvAlways, PTL

-----------------------------------------------------------------------------
(* What a step leaves alone. *)

\* A step that is no administrator's.
OtherStep == Midnight \/ SalesStep \/ UNCHANGED vars

LEMMA NextCases == [Next]_vars <=> OtherStep \/ \E a \in Admins : AdminStep(a)
BY DEF Next, OtherStep

\* Sales processes and calendar change no file but sales_log.csv, and no window;
\* only a header can make the log shorter.
LEMMA OtherStepFrame ==
  ASSUME OtherStep, TypeInv
  PROVE  /\ UNCHANGED <<log, drink_config, admin_auth, admin, chosen, taken, fresh, spoiled>>
         /\ header \subseteq header' /\ header' \cap Logs = header \cap Logs
         /\ blind \subseteq blind' /\ blind' \cap Files = blind \cap Files
         /\ \A a \in Admins : a \in overtaken' <=> a \in overtaken
         /\ \/ sales_log' = sales_log
            \/ \E row \in SaleRows : sales_log' = Append(sales_log, row)
            \/ \E s \in Sellers : WriteSalesHeader(s)
<1>1. /\ "sales" \notin Files /\ "sales" \notin Logs /\ Logs \subseteq Files
      /\ \A a \in Admins : window[a].file # "sales" /\ a \notin Sellers
      /\ Machine \in Sellers
  <2>1. \A a \in Admins : window[a].file \in Logs
    BY TypeInvParts DEF TypeParts, Windows
  <2> QED  BY <2>1, OfficeConstants DEF Files, Logs, Sellers
<1>2. \A p : Touches(p, "sales") /\ p \in Sellers =>
        \A a \in Admins : a \in overtaken' <=> a \in overtaken
  BY <1>1 DEF Touches, Between
<1>3. CASE Midnight \/ UNCHANGED vars
  BY <1>3 DEF Midnight, vars, files, admin, history
<1>4. CASE \E d \in Drinks : Sell(d)
  BY <1>4 DEF Sell, files, admin, history
<1>5. CASE Deliver \/ Peek
  BY <1>5 DEF Deliver, Peek, files, admin, history
<1>6. CASE RestartSales
  BY <1>1, <1>6 DEF RestartSales, files, admin
<1>7. CASE \E s \in Elsewhere : SellElsewhere(s)
  BY <1>7 DEF SellElsewhere, files, admin, history
<1>8. CASE \E s \in Sellers : TestSalesSize(s)
  BY <1>8 DEF TestSalesSize, files, admin, history
<1>9. ASSUME NEW s \in Sellers, WriteSalesHeader(s)
      PROVE  /\ UNCHANGED <<log, drink_config, admin_auth, admin, chosen, taken, fresh, spoiled>>
             /\ header \subseteq header' /\ header' \cap Logs = header \cap Logs
             /\ blind \subseteq blind' /\ blind' \cap Files = blind \cap Files
             /\ \A a \in Admins : a \in overtaken' <=> a \in overtaken
  <2>1. /\ UNCHANGED <<log, drink_config, admin_auth, admin, chosen, taken, fresh, spoiled>>
        /\ header' = header \cup {"sales"} /\ Touches(s, "sales")
        /\ blind' = blind \/ blind' = blind \cup {"sales"}
    BY <1>9 DEF WriteSalesHeader
  <2>2. \A a \in Admins : a \in overtaken' <=> a \in overtaken
    BY <1>2, <2>1
  <2>3. blind \subseteq blind' /\ blind' \cap Files = blind \cap Files
    BY <1>1, <2>1
  <2> QED  BY <1>1, <2>1, <2>2, <2>3
<1>10. ASSUME NEW s \in Sellers, AppendSale(s)
       PROVE  /\ UNCHANGED <<log, header, drink_config, admin_auth, admin, chosen, taken, fresh,
                             blind, spoiled>>
              /\ \A a \in Admins : a \in overtaken' <=> a \in overtaken
              /\ \/ sales_log' = sales_log
                 \/ \E row \in SaleRows : sales_log' = Append(sales_log, row)
  <2>1. s = Machine => machine.row \in SaleRows
    BY <1>10, TypeInvParts DEF TypeParts, SharedType, AppendSale, Writing
  <2>2. /\ UNCHANGED <<log, header, drink_config, admin_auth, admin, chosen, taken, fresh,
                       blind, spoiled>>
        /\ Touches(s, "sales")
        /\ sales_log' = IF s = Machine THEN Append(sales_log, machine.row) ELSE sales_log
    BY <1>10 DEF AppendSale
  <2>3. \A a \in Admins : a \in overtaken' <=> a \in overtaken
    BY <1>2, <2>2
  <2> QED  BY <2>1, <2>2, <2>3
<1> QED  BY <1>3, <1>4, <1>5, <1>6, <1>7, <1>8, <1>9, <1>10 DEF OtherStep, SalesStep

\* A process chooses a name or a price.
Chooses(a) ==
  \/ \E d \in Drinks, n \in Names : OnRename(a, d, n)
  \/ \E d \in Drinks, p \in Prices : OnReprice(a, d, p)

\* It empties the configuration file then, and shows what was chosen.
LEMMA ChoosesFacts ==
  ASSUME NEW a \in Admins, Chooses(a), TypeInv
  PROVE  /\ at[a] = "idle" /\ at' = [at EXCEPT ![a] = "save"]
         /\ \A b \in Admins \ {a} : window'[b] = window[b]
         /\ window'[a].stock = window[a].stock /\ window'[a].query = window[a].query
         /\ \/ \E d \in Drinks, n \in Names :
                  /\ chosen' = [chosen EXCEPT ![d].name = n]
                  /\ window'[a].menu = [window[a].menu EXCEPT ![d].name = n]
            \/ \E d \in Drinks, p \in Prices :
                  /\ chosen' = [chosen EXCEPT ![d].price = p]
                  /\ window'[a].menu = [window[a].menu EXCEPT ![d].price = p]
         /\ drink_config' = [drink_config EXCEPT !.state = "empty"]
         /\ Writes(a, "config")
         /\ UNCHANGED <<shop, sales_log, log, header, admin_auth, taken, spoiled>>
<1>1. window \in [Admins -> Windows]
  BY TypeInvParts DEF TypeParts
<1>2. ASSUME NEW d \in Drinks, NEW n \in Names, OnRename(a, d, n)
      PROVE  /\ at[a] = "idle" /\ EmptyDrinkConfig(a)
             /\ \A b \in Admins \ {a} : window'[b] = window[b]
             /\ window'[a].stock = window[a].stock /\ window'[a].query = window[a].query
             /\ chosen' = [chosen EXCEPT ![d].name = n]
             /\ window'[a].menu = [window[a].menu EXCEPT ![d].name = n]
  BY <1>1, <1>2 DEF OnRename, Windows
<1>3. ASSUME NEW d \in Drinks, NEW p \in Prices, OnReprice(a, d, p)
      PROVE  /\ at[a] = "idle" /\ EmptyDrinkConfig(a)
             /\ \A b \in Admins \ {a} : window'[b] = window[b]
             /\ window'[a].stock = window[a].stock /\ window'[a].query = window[a].query
             /\ chosen' = [chosen EXCEPT ![d].price = p]
             /\ window'[a].menu = [window[a].menu EXCEPT ![d].price = p]
  BY <1>1, <1>3 DEF OnReprice, Windows
<1>4. EmptyDrinkConfig(a)
  BY <1>2, <1>3 DEF Chooses
<1>5. /\ at[a] = "idle" /\ \A b \in Admins \ {a} : window'[b] = window[b]
      /\ window'[a].stock = window[a].stock /\ window'[a].query = window[a].query
  BY <1>2, <1>3 DEF Chooses
<1>6. CASE \E d \in Drinks, n \in Names : OnRename(a, d, n)
  BY <1>2, <1>4, <1>5, <1>6 DEF EmptyDrinkConfig
<1>7. CASE \E d \in Drinks, p \in Prices : OnReprice(a, d, p)
  BY <1>3, <1>4, <1>5, <1>7 DEF EmptyDrinkConfig
<1> QED  BY <1>6, <1>7 DEF Chooses

\* What writing a file does to the histories of the others.
LEMMA WritesFacts ==
  ASSUME NEW a \in Admins, NEW f \in Files, TypeInv, Writes(a, f)
  PROVE  /\ \A b \in Admins \ {a} : fresh'[b] = fresh[b] \ {f}
         /\ fresh'[a] = fresh[a] /\ f \in fresh[a] \cup blind'
         /\ blind \subseteq blind' /\ ("sales" \in blind' <=> "sales" \in blind)
         /\ \A s \in Sellers : s \in overtaken' <=> s \in overtaken
         /\ \A b \in Admins \ {a} : b \in overtaken' <=> b \in overtaken \/ Between(b, f)
         /\ a \notin overtaken'
<1>1. "sales" \notin Files /\ Admins \cap Sellers = {} /\ fresh \in [Admins -> SUBSET Files]
  BY OfficeConstants, TypeInvParts DEF Files, Logs, TypeParts, SharedType
<1>2. f # "sales"
  BY <1>1
<1> QED  BY <1>1, <1>2 DEF Writes, Touches, Between

\* What writing the password file does to them.
LEMMA TouchesFacts ==
  ASSUME NEW a \in Admins, TypeInv, Touches(a, "auth")
  PROVE  /\ \A s \in Sellers : s \in overtaken' <=> s \in overtaken
         /\ \A b \in Admins \ {a} :
              b \in overtaken' <=> b \in overtaken \/ at[b] = "password"
         /\ a \notin overtaken'
<1>1. \A b \in Admins : window[b].file # "auth"
  BY TypeInvParts DEF TypeParts, Windows, Logs
<1>2. Admins \cap Sellers = {}
  BY OfficeConstants
<1> QED  BY <1>1, <1>2 DEF Touches, Between

\* A process changes its own window, knows of nobody's reading more than before,
\* leaves the sales processes alone, and each file is written by two handlers'
\* steps only.
LEMMA AdminStepFrame ==
  ASSUME NEW a \in Admins, AdminStep(a), TypeInv
  PROVE  /\ \A b \in Admins \ {a} :
              /\ at'[b] = at[b] /\ window'[b] = window[b] /\ fresh'[b] \subseteq fresh[b]
              /\ b \in overtaken => b \in overtaken'
         /\ blind \subseteq blind' /\ sales_log' = sales_log /\ UNCHANGED shop
         /\ "sales" \in header' <=> "sales" \in header
         /\ "sales" \in blind' <=> "sales" \in blind
         /\ \A s \in Sellers : s \in overtaken' <=> s \in overtaken
         /\ WriteHeader(a) \/ AppendRow(a) \/ UNCHANGED <<log, header, taken>>
         /\ Chooses(a) \/ SaveDrinkConfig(a) \/ UNCHANGED <<drink_config, chosen>>
         /\ at'[a] \in Writing =>
              \/ \E d \in Drinks, n \in 1 .. MaxStock : OnRestock(a, d, n)
              \/ \E mode \in Modes : OnCollect(a, mode)
              \/ at'[a] = "header" /\ TestSize(a)
              \/ at'[a] = "row" /\ (TestSize(a) \/ WriteHeader(a))
<1>1. /\ at \in [Admins -> Places] /\ window \in [Admins -> Windows]
      /\ fresh \in [Admins -> SUBSET Files]
      /\ \A s \in Sellers : s # a
      /\ window[a].file \in Files /\ window[a].file # "sales"
  <2>1. window \in [Admins -> Windows]
    BY TypeInvParts DEF TypeParts
  <2>2. window[a].file \in Logs
    BY <2>1 DEF Windows
  <2>3. window[a].file \in Files /\ window[a].file # "sales"
    BY <2>2 DEF Files, Logs
  <2> QED  BY <2>1, <2>3, OfficeConstants, TypeInvParts DEF TypeParts, SharedType
<1>2. CASE OpenWindow(a)
  BY <1>1, <1>2 DEF OpenWindow, Reads, Writing, files
<1>3. CASE CloseWindow(a)
  BY <1>1, <1>3 DEF CloseWindow, Ends, Writing, files
<1>4. CASE Cut(a)
  BY <1>1, <1>4 DEF Cut, Ends, Writing, files
<1>5. CASE RefreshInventory(a)
  BY <1>1, <1>5 DEF RefreshInventory, Reads, Writing, files
<1>6. CASE TestSize(a)
  BY <1>1, <1>6 DEF TestSize, Writing, files, history
<1>7. CASE WriteHeader(a)
  <2>1. Writes(a, window[a].file)
    BY <1>7 DEF WriteHeader
  <2>2. "sales" \in header' <=> "sales" \in header
    BY <1>1, <1>7 DEF WriteHeader
  <2> QED  BY <1>1, <1>7, <2>1, <2>2, WritesFacts DEF WriteHeader, Writing
<1>8. CASE AppendRow(a)
  <2>1. Writes(a, window[a].file)
    BY <1>8 DEF AppendRow
  <2> QED  BY <1>1, <1>8, <2>1, WritesFacts DEF AppendRow, Writing
<1>9. ASSUME NEW d \in Drinks, NEW n \in 1 .. MaxStock, OnRestock(a, d, n)
      PROVE  /\ UNCHANGED <<shop, files, history>>
             /\ \A b \in Admins \ {a} : at'[b] = at[b] /\ window'[b] = window[b]
  BY <1>1, <1>9 DEF OnRestock, StartAppend
<1>10. CASE Chooses(a)
  <2>1. "config" \in Files
    BY DEF Files
  <2>2. /\ Writes(a, "config") /\ at' = [at EXCEPT ![a] = "save"]
        /\ \A b \in Admins \ {a} : window'[b] = window[b]
        /\ UNCHANGED <<shop, sales_log, log, header, admin_auth, taken, spoiled>>
    BY <1>10, ChoosesFacts
  <2> QED  BY <1>1, <1>10, <2>1, <2>2, WritesFacts DEF Writing
<1>11. CASE SaveDrinkConfig(a)
  <2>1. "config" \in Files
    BY DEF Files
  <2>2. Writes(a, "config")
    BY <1>11 DEF SaveDrinkConfig
  <2> QED  BY <1>1, <1>11, <2>1, <2>2, WritesFacts DEF SaveDrinkConfig, Writing
<1>12. ASSUME NEW start \in Dates, NEW end \in Dates, QuerySales(a, start, end)
       PROVE  /\ UNCHANGED <<shop, files, history, at>> /\ at[a] = "idle"
              /\ \A b \in Admins \ {a} : window'[b] = window[b]
  BY <1>1, <1>12 DEF QuerySales
<1>13. ASSUME NEW mode \in Modes, OnCollect(a, mode)
       PROVE  /\ UNCHANGED <<shop, files, chosen, taken, blind, overtaken>>
              /\ \A b \in Admins \ {a} :
                   at'[b] = at[b] /\ window'[b] = window[b] /\ fresh'[b] = fresh[b]
  BY <1>1, <1>13 DEF OnCollect, StartAppend, Reads
<1>14. CASE OnChangePassword(a)
  BY <1>1, <1>14 DEF OnChangePassword, Writing, files, history
<1>15. CASE EmptyPassword(a) \/ SetPassword(a)
  <2>1. Touches(a, "auth")
    BY <1>15 DEF EmptyPassword, SetPassword
  <2> QED  BY <1>1, <1>15, <2>1, TouchesFacts DEF EmptyPassword, SetPassword, Writing
<1>16. CASE \E d \in Drinks, n \in 1 .. MaxStock : OnRestock(a, d, n)
  BY <1>9, <1>16 DEF files, history
<1>17. CASE \E start, end \in Dates : QuerySales(a, start, end)
  BY <1>12, <1>17 DEF files, history, Writing
<1>18. CASE \E mode \in Modes : OnCollect(a, mode)
  BY <1>13, <1>18 DEF files
<1> QED  BY <1>2, <1>3, <1>4, <1>5, <1>6, <1>7, <1>8, <1>10, <1>11, <1>14, <1>15, <1>16, <1>17,
            <1>18 DEF AdminStep, Chooses

-----------------------------------------------------------------------------
(* Rows. *)

\* A file without a header has no rows; who is about to write a row has seen or
\* written the header; and who is about to write the header, and has not been
\* overtaken, or has read the file after all the others wrote, found none.
LogsInv ==
  /\ \A f \in Logs : f \in header \/ log[f] = << >>
  /\ \A a \in Admins : at[a] = "row" => window[a].file \in header
  /\ \A a \in Admins :
       at[a] = "header" /\ (a \notin overtaken \/ window[a].file \in fresh[a]) =>
         window[a].file \notin header

\* The same of sales_log.csv and the sales processes.
SalesLogInv ==
  /\ "sales" \in header \/ sales_log = << >>
  /\ \A s \in Sellers : selling[s] = "row" => "sales" \in header
  /\ \A s \in Sellers : selling[s] = "header" /\ s \notin overtaken => "sales" \notin header

HeaderInv == LogsInv /\ SalesLogInv

LEMMA InitHeaderInv == Init => HeaderInv
BY DEF Init, HeaderInv, LogsInv, SalesLogInv

\* WriteHeader empties a file only while it says so in header; who has tested
\* the file before is overtaken, and no longer fresh.
LEMMA NextLogsInv == TypeInv /\ LogsInv /\ [Next]_vars => LogsInv'
<1> SUFFICES ASSUME TypeInv, LogsInv, [Next]_vars PROVE LogsInv'
  OBVIOUS
<1>1. CASE OtherStep
  <2>1. /\ UNCHANGED <<log, at, window, fresh>> /\ header' \cap Logs = header \cap Logs
        /\ \A a \in Admins : a \in overtaken' <=> a \in overtaken
    BY <1>1, OtherStepFrame DEF admin
  <2>2. \A a \in Admins : window[a].file \in Logs
    BY TypeInvParts DEF TypeParts, Windows
  <2>3. \A f \in Logs : f \in header' <=> f \in header
    BY <2>1
  <2> QED  BY <2>1, <2>2, <2>3 DEF LogsInv
<1>2. ASSUME NEW a \in Admins, AdminStep(a) PROVE LogsInv'
  <2> DEFINE f == window[a].file
  <2>0. /\ at \in [Admins -> Places] /\ window \in [Admins -> Windows] /\ f \in Logs
        /\ DOMAIN log = Logs /\ fresh \in [Admins -> SUBSET Files] /\ f \in Files
    BY TypeInvParts DEF TypeParts, SharedType, Windows, Files
  <2>1. ASSUME NEW b \in Admins \ {a}
        PROVE  /\ at'[b] = at[b] /\ window'[b] = window[b] /\ fresh'[b] \subseteq fresh[b]
               /\ b \in overtaken => b \in overtaken'
    BY <1>2, AdminStepFrame
  <2>2. WriteHeader(a) \/ AppendRow(a) \/ UNCHANGED <<log, header>>
    BY <1>2, AdminStepFrame
  <2>3. WriteHeader(a) =>
          /\ header' = header \cup {f} /\ log' = [log EXCEPT ![f] = << >>]
          /\ window' = window /\ at' = [at EXCEPT ![a] = "row"]
          /\ \A b \in Admins \ {a} : f \notin fresh'[b] /\ (Between(b, f) => b \in overtaken')
    BY <2>0, WritesFacts DEF WriteHeader
  <2>4. AppendRow(a) => header' = header /\ f \in header
                        /\ log' = [log EXCEPT ![f] = Append(@, window[a].row)]
    BY DEF AppendRow, LogsInv
  <2>5. header \subseteq header'
    BY <2>2, <2>3, <2>4
  <2>6. ASSUME NEW g \in Logs PROVE g \in header' \/ log'[g] = << >>
    <3>1. CASE g = f
      BY <2>0, <2>2, <2>3, <2>4, <3>1 DEF LogsInv
    <3>2. CASE g # f
      <4>1. log'[g] = log[g]
        BY <2>0, <2>2, <2>3, <2>4, <3>2
      <4> QED  BY <2>5, <4>1 DEF LogsInv
    <3> QED  BY <3>1, <3>2
  <2>7. ASSUME NEW b \in Admins, at'[b] = "row" PROVE window'[b].file \in header'
    <3>1. CASE b # a
      <4>1. at[b] = "row" /\ window'[b] = window[b]
        BY <2>1, <2>7, <3>1
      <4> QED  BY <2>5, <4>1 DEF LogsInv
    <3>2. CASE b = a
      <4>1. TestSize(a) \/ WriteHeader(a)
        <5>1. "row" \in Writing
          BY DEF Writing
        <5> QED  BY <1>2, <2>0, <2>7, <3>2, <5>1, AdminStepFrame DEF OnRestock, OnCollect, StartAppend
      <4>2. CASE TestSize(a)
        <5>1. ~NeedsHeader(f) /\ window' = window
          BY <2>0, <2>7, <3>2, <4>2 DEF TestSize
        <5> QED  BY <2>5, <3>2, <5>1 DEF NeedsHeader
      <4>3. CASE WriteHeader(a)
        BY <2>3, <3>2, <4>3
      <4> QED  BY <4>1, <4>2, <4>3
    <3> QED  BY <3>1, <3>2
  <2>8. ASSUME NEW b \in Admins, at'[b] = "header",
               b \notin overtaken' \/ window'[b].file \in fresh'[b]
        PROVE  window'[b].file \notin header'
    <3>1. CASE b # a
      <4>1. /\ at[b] = "header" /\ window'[b] = window[b]
            /\ b \notin overtaken \/ window[b].file \in fresh[b]
        BY <2>1, <2>8, <3>1
      <4>2. window[b].file \notin header
        BY <4>1 DEF LogsInv
      <4>3. WriteHeader(a) => window[b].file # f
        <5>1. window[b].file = f => Between(b, f)
          BY <4>1 DEF Between
        <5> QED  BY <2>3, <2>8, <3>1, <4>1, <5>1
      <4> QED  BY <2>2, <2>3, <2>4, <4>1, <4>2, <4>3
    <3>2. CASE b = a
      <4>1. TestSize(a)
        <5>1. "header" \in Writing
          BY DEF Writing
        <5> QED  BY <1>2, <2>0, <2>8, <3>2, <5>1, AdminStepFrame DEF OnRestock, OnCollect, StartAppend
      <4>2. NeedsHeader(f) /\ window' = window /\ header' = header
        BY <2>0, <2>8, <3>2, <4>1 DEF TestSize, files
      <4> QED  BY <3>2, <4>2 DEF NeedsHeader
    <3> QED  BY <3>1, <3>2
  <2> QED  BY <2>6, <2>7, <2>8 DEF LogsInv
<1> QED  BY <1>1, <1>2, NextCases

\* The steps of a sales process that keep its log, in the same way.
LEMMA NextSalesLogInv == TypeInv /\ SalesLogInv /\ [Next]_vars => SalesLogInv'
<1> SUFFICES ASSUME TypeInv, SalesLogInv, [Next]_vars PROVE SalesLogInv'
  OBVIOUS
<1>0. selling \in [Sellers -> Stands] /\ Machine \in Sellers /\ Elsewhere \subseteq Sellers
  BY TypeInvParts DEF TypeParts, SharedType, Sellers
<1>1. ASSUME NEW a \in Admins, AdminStep(a) PROVE SalesLogInv'
  <2>1. /\ sales_log' = sales_log /\ selling' = selling
        /\ "sales" \in header' <=> "sales" \in header
        /\ \A s \in Sellers : s \in overtaken' <=> s \in overtaken
    BY <1>1, AdminStepFrame DEF shop
  <2> QED  BY <2>1 DEF SalesLogInv
<1>2. CASE Midnight \/ UNCHANGED vars
  BY <1>2 DEF Midnight, vars, shop, files, history, SalesLogInv
<1>3. ASSUME NEW s \in Sellers, UNCHANGED <<sales_log, header, overtaken>>,
             \/ selling' = [selling EXCEPT ![s] = "idle"]
             \/ selling' = [selling EXCEPT ![s] = "peek"]
             \/ selling' = [selling EXCEPT ![s] = "size"]
      PROVE  SalesLogInv'
  BY <1>0, <1>3 DEF SalesLogInv
<1>4. CASE (\E d \in Drinks : Sell(d)) \/ Peek
  BY <1>0, <1>3, <1>4 DEF Sell, Peek, files, history
<1>5. CASE Deliver
  BY <1>5 DEF Deliver, files, history, SalesLogInv
<1>6. CASE RestartSales
  BY <1>0, <1>6 DEF RestartSales, files, SalesLogInv
<1>7. CASE \E s \in Elsewhere : SellElsewhere(s)
  BY <1>0, <1>3, <1>7 DEF SellElsewhere, files, history
<1>8. ASSUME NEW s \in Sellers, TestSalesSize(s) PROVE SalesLogInv'
  <2>1. /\ UNCHANGED <<sales_log, header, overtaken>>
        /\ selling' = [selling EXCEPT ![s] = IF "sales" \notin header THEN "header" ELSE "row"]
    BY <1>8 DEF TestSalesSize, NeedsHeader, files, history
  <2> QED  BY <1>0, <2>1 DEF SalesLogInv
<1>9. ASSUME NEW s \in Sellers, WriteSalesHeader(s) PROVE SalesLogInv'
  <2>1. /\ sales_log' = << >> /\ "sales" \in header'
        /\ selling' = [selling EXCEPT ![s] = "row"]
        /\ \A q \in Sellers \ {s} : selling[q] = "header" => q \in overtaken'
    BY <1>9 DEF WriteSalesHeader, Touches, Between
  <2> QED  BY <1>0, <2>1 DEF SalesLogInv
<1>10. ASSUME NEW s \in Sellers, AppendSale(s) PROVE SalesLogInv'
  <2>1. /\ "sales" \in header /\ header' = header
        /\ selling' = [selling EXCEPT ![s] = "idle"]
        /\ \A q \in Sellers \ {s} : selling[q] = "header" => q \in overtaken'
    BY <1>10 DEF AppendSale, Touches, Between, SalesLogInv
  <2> QED  BY <1>0, <2>1 DEF SalesLogInv
<1> QED  BY <1>1, <1>2, <1>4, <1>5, <1>6, <1>7, <1>8, <1>9, <1>10, NextCases DEF OtherStep, SalesStep

LEMMA NextHeaderInv == TypeInv /\ HeaderInv /\ [Next]_vars => HeaderInv'
<1> SUFFICES ASSUME TypeInv, HeaderInv, [Next]_vars PROVE HeaderInv'
  OBVIOUS
<1>1. LogsInv' /\ SalesLogInv'
  BY NextLogsInv, NextSalesLogInv DEF HeaderInv
<1> QED  BY <1>1 DEF HeaderInv

LEMMA HeaderInvAlways == Spec => [](TypeInv /\ HeaderInv)
<1>1. Init => TypeInv /\ HeaderInv
  BY InitTypeInv, InitHeaderInv
<1>2. TypeInv /\ HeaderInv /\ [Next]_vars => (TypeInv /\ HeaderInv)'
  BY NextTypeInv, NextHeaderInv
<1> QED  BY <1>1, <1>2, PTL DEF Spec

\* A log is a prefix of itself and of itself with a row more.
LEMMA PrefixFacts ==
  ASSUME NEW R, NEW s \in Seq(R)
  PROVE  IsPrefix(s, s) /\ \A r \in R : IsPrefix(s, Append(s, r))
<1>1. Len(s) \in Nat
  OBVIOUS
<1>2. IsPrefix(s, s)
  BY <1>1 DEF IsPrefix
<1>3. ASSUME NEW r \in R PROVE IsPrefix(s, Append(s, r))
  <2>1. Len(Append(s, r)) = Len(s) + 1
    OBVIOUS
  <2>2. SubSeq(s, 1, Len(s)) = SubSeq(Append(s, r), 1, Len(s))
    OBVIOUS
  <2> QED  BY <1>1, <2>1, <2>2 DEF IsPrefix
<1> QED  BY <1>2, <1>3

\* What a step does to sales_log.csv.
LEMMA SalesLogStep ==
  ASSUME TypeInv, HeaderInv, [Next]_vars
  PROVE  \/ sales_log' = sales_log
         \/ \E row \in SaleRows : sales_log' = Append(sales_log, row)
         \/ \E s \in overtaken \cap Sellers : WriteSalesHeader(s)
<1>1. ASSUME NEW s \in Sellers \ overtaken, WriteSalesHeader(s) PROVE sales_log' = sales_log
  BY <1>1 DEF WriteSalesHeader, HeaderInv, SalesLogInv
<1>2. ASSUME NEW a \in Admins, AdminStep(a) PROVE sales_log' = sales_log
  BY <1>2, AdminStepFrame
<1> QED  BY <1>1, <1>2, NextCases, OtherStepFrame

(***************************************************************************)
(* A log loses rows only in the step of a process that writes its header,  *)
(* and had found none before another wrote the file                        *)
(* (file_manager.py:16-21, 65-68, 89-92).                                   *)
(***************************************************************************)
THEOREM NoRowIsLost == Spec => RowsKept
<1> DEFINE Cuts(a, f) == at[a] = "header" /\ window[a].file = f /\ at'[a] = "row"
           LogKept(f) == IsPrefix(log[f], log'[f]) \/ \E a \in overtaken \cap Admins : Cuts(a, f)
           SalesKept == \/ IsPrefix(sales_log, sales_log')
                        \/ \E s \in overtaken \cap Sellers :
                             selling[s] = "header" /\ selling'[s] = "row"
<1>1. ASSUME TypeInv, HeaderInv, [Next]_vars, NEW g \in Logs PROVE LogKept(g)
  <2>1. log[g] \in Seq(RowsOf(g))
    BY <1>1, TypeInvParts DEF TypeParts, SharedType, RowsOf, Logs
  <2>2. CASE log'[g] = log[g]
    BY <2>1, <2>2, PrefixFacts
  <2>3. ASSUME NEW a \in Admins, WriteHeader(a), g = window[a].file
        PROVE  LogKept(g)
    <3>1. at[a] = "header" /\ at'[a] = "row" /\ log'[g] = << >>
      BY <1>1, <2>3, TypeInvParts DEF WriteHeader, TypeParts, SharedType
    <3>2. CASE a \notin overtaken
      <4>1. log[g] = << >>
        BY <1>1, <2>3, <3>1, <3>2 DEF HeaderInv, LogsInv
      <4> QED  BY <2>1, <3>1, <4>1, PrefixFacts
    <3>3. CASE a \in overtaken
      BY <2>3, <3>1, <3>3
    <3> QED  BY <3>2, <3>3
  <2>4. ASSUME NEW a \in Admins, AppendRow(a), g = window[a].file
        PROVE  IsPrefix(log[g], log'[g])
    <3>1. window[a].row \in RowsOf(g)
      BY <1>1, <2>4, TypeInvParts DEF AppendRow, TypeParts, WindowOK, Writing
    <3>2. log'[g] = Append(log[g], window[a].row)
      BY <1>1, <2>4, TypeInvParts DEF AppendRow, TypeParts, SharedType
    <3> QED  BY <2>1, <3>1, <3>2, PrefixFacts
  <2>5. ASSUME NEW a \in Admins, WriteHeader(a) \/ AppendRow(a), g # window[a].file
        PROVE  log'[g] = log[g]
    BY <1>1, <2>5, TypeInvParts DEF WriteHeader, AppendRow, TypeParts, SharedType
  <2>6. ASSUME NEW a \in Admins, AdminStep(a)
        PROVE  WriteHeader(a) \/ AppendRow(a) \/ log' = log
    BY <1>1, <2>6, AdminStepFrame
  <2>7. CASE OtherStep
    BY <1>1, <2>2, <2>7, OtherStepFrame
  <2> QED  BY <1>1, <2>2, <2>3, <2>4, <2>5, <2>6, <2>7, NextCases
<1>2. ASSUME TypeInv, HeaderInv, [Next]_vars PROVE SalesKept
  <2>1. sales_log \in Seq(SaleRows) /\ selling \in [Sellers -> Stands]
    BY <1>2, TypeInvParts DEF TypeParts, SharedType
  <2>2. ASSUME NEW s \in overtaken \cap Sellers, WriteSalesHeader(s)
        PROVE  selling[s] = "header" /\ selling'[s] = "row"
    BY <2>1, <2>2 DEF WriteSalesHeader
  <2>3. CASE sales_log' = sales_log
    <3>1. IsPrefix(sales_log, sales_log)
      BY <2>1, PrefixFacts
    <3> QED  BY <2>3, <3>1
  <2>4. ASSUME NEW row \in SaleRows, sales_log' = Append(sales_log, row)
        PROVE  SalesKept
    <3>1. IsPrefix(sales_log, Append(sales_log, row))
      BY <2>1, PrefixFacts
    <3> QED  BY <2>4, <3>1
  <2>5. CASE \E s \in overtaken \cap Sellers : WriteSalesHeader(s)
    BY <2>2, <2>5
  <2> HIDE DEF SalesKept
  <2> QED  BY <1>2, <2>3, <2>4, <2>5, SalesLogStep
<1>3. TypeInv /\ HeaderInv /\ [Next]_vars =>
        [/\ \A f \in Logs :
              \/ IsPrefix(log[f], log'[f])
              \/ \E a \in overtaken \cap Admins :
                   at[a] = "header" /\ window[a].file = f /\ at'[a] = "row"
         /\ \/ IsPrefix(sales_log, sales_log')
            \/ \E s \in overtaken \cap Sellers : selling[s] = "header" /\ selling'[s] = "row"]_vars
  BY <1>1, <1>2
<1> QED  BY <1>3, HeaderInvAlways, PTL DEF Spec, RowsKept

-----------------------------------------------------------------------------
(* The files read at a start. *)

\* A process that has emptied drink_config.json, and has not been overtaken,
\* finds it empty when its text comes.
ConfigInv ==
  /\ FilesReadable
  /\ \A a \in Admins \ overtaken : at[a] = "save" => drink_config.state = "empty"

LEMMA InitConfigInv == Init => ConfigInv
BY DEF Init, ConfigInv, FilesReadable

\* Which processes a write to a file overtakes.
LEMMA BetweenFacts ==
  ASSUME NEW b \in Admins, TypeInv
  PROVE  /\ Between(b, "config") <=> at[b] = "save"
         /\ Between(b, "auth") <=> at[b] = "password"
         /\ \A f \in Logs : Between(b, f) => at[b] = "header"
<1>1. window[b].file \in Logs
  BY TypeInvParts DEF TypeParts, Windows
<1>2. b \notin Sellers
  BY OfficeConstants
<1> QED  BY <1>1, <1>2 DEF Between, Logs

\* The steps that do not write drink_config.json: a process leaves save only
\* when it is cut, and nobody is overtaken there.
LEMMA ConfigLeftAlone ==
  ASSUME NEW a \in Admins, AdminStep(a), TypeInv, ~Chooses(a), ~SaveDrinkConfig(a)
  PROVE  /\ at'[a] # "save" /\ (at[a] = "save" => a \in overtaken \/ "config" \in spoiled')
         /\ "config" \in spoiled => "config" \in spoiled'
         /\ \A b \in Admins \ {a} : at[b] = "save" /\ b \in overtaken' => b \in overtaken
<1>1. /\ at \in [Admins -> Places] /\ window \in [Admins -> Windows]
      /\ window[a].file \in Logs /\ Logs \subseteq Files
  BY TypeInvParts DEF TypeParts, Windows, Files
<1> USE <1>1 DEF history
<1>2. CASE OpenWindow(a) \/ CloseWindow(a) \/ RefreshInventory(a) \/ TestSize(a)
  BY <1>2 DEF OpenWindow, CloseWindow, Ends, RefreshInventory, TestSize
<1>3. CASE Cut(a)
  <2>1. Between(a, "config") <=> at[a] = "save"
    BY BetweenFacts
  <2> QED  BY <1>3, <2>1 DEF Cut, Ends
<1>4. CASE WriteHeader(a) \/ AppendRow(a)
  <2>1. Writes(a, window[a].file) /\ at[a] # "save" /\ at'[a] # "save" /\ spoiled' = spoiled
    BY <1>4 DEF WriteHeader, AppendRow
  <2> QED  BY <2>1, WritesFacts, BetweenFacts
<1>5. CASE \E d \in Drinks, n \in 1 .. MaxStock : OnRestock(a, d, n)
  BY <1>5 DEF OnRestock, StartAppend
<1>6. CASE \E start, end \in Dates : QuerySales(a, start, end)
  BY <1>6 DEF QuerySales
<1>7. CASE \E mode \in Modes : OnCollect(a, mode)
  BY <1>7 DEF OnCollect, StartAppend
<1>8. CASE OnChangePassword(a)
  BY <1>8 DEF OnChangePassword
<1>9. CASE EmptyPassword(a) \/ SetPassword(a)
  <2>1. /\ Touches(a, "auth") /\ at[a] # "save" /\ at'[a] # "save"
        /\ "config" \in spoiled => "config" \in spoiled'
    BY <1>9 DEF EmptyPassword, SetPassword
  <2> QED  BY <2>1, TouchesFacts
<1> QED  BY <1>2, <1>3, <1>4, <1>5, <1>6, <1>7, <1>8, <1>9 DEF AdminStep, Chooses

\* The same of admin_auth.txt.
LEMMA PasswordLeftAlone ==
  ASSUME NEW a \in Admins, AdminStep(a), TypeInv, ~EmptyPassword(a), ~SetPassword(a)
  PROVE  /\ admin_auth' = admin_auth
         /\ at[a] = "password" => a \in overtaken \/ "auth" \in spoiled'
         /\ "auth" \in spoiled => "auth" \in spoiled'
         /\ \A b \in Admins \ {a} : at[b] = "password" /\ b \in overtaken' => b \in overtaken
<1>1. /\ at \in [Admins -> Places] /\ window \in [Admins -> Windows]
      /\ window[a].file \in Logs /\ Logs \subseteq Files /\ "config" \in Files
  BY TypeInvParts DEF TypeParts, Windows, Files
<1> USE <1>1 DEF history, files
<1>2. CASE OpenWindow(a) \/ CloseWindow(a) \/ RefreshInventory(a) \/ TestSize(a)
  BY <1>2 DEF OpenWindow, CloseWindow, Ends, RefreshInventory, TestSize
<1>3. CASE Cut(a)
  <2>1. Between(a, "auth") <=> at[a] = "password"
    BY BetweenFacts
  <2> QED  BY <1>3, <2>1 DEF Cut, Ends
<1>4. CASE WriteHeader(a) \/ AppendRow(a)
  <2>1. /\ Writes(a, window[a].file) /\ at[a] # "password"
        /\ UNCHANGED <<spoiled, admin_auth>>
    BY <1>4 DEF WriteHeader, AppendRow
  <2> QED  BY <2>1, WritesFacts, BetweenFacts
<1>5. CASE \E d \in Drinks, n \in 1 .. MaxStock : OnRestock(a, d, n)
  BY <1>5 DEF OnRestock, StartAppend
<1>6. CASE Chooses(a)
  <2>1. Writes(a, "config") /\ at[a] = "idle" /\ UNCHANGED <<spoiled, admin_auth>>
    BY <1>6, ChoosesFacts
  <2> QED  BY <2>1, WritesFacts, BetweenFacts
<1>7. CASE SaveDrinkConfig(a)
  <2>1. /\ Writes(a, "config") /\ at[a] = "save" /\ UNCHANGED admin_auth
        /\ "auth" \in spoiled => "auth" \in spoiled'
    BY <1>7 DEF SaveDrinkConfig
  <2> QED  BY <2>1, WritesFacts, BetweenFacts
<1>8. CASE \E start, end \in Dates : QuerySales(a, start, end)
  BY <1>8 DEF QuerySales
<1>9. CASE \E mode \in Modes : OnCollect(a, mode)
  BY <1>9 DEF OnCollect, StartAppend
<1>10. CASE OnChangePassword(a)
  BY <1>10 DEF OnChangePassword
<1> QED  BY <1>2, <1>3, <1>4, <1>5, <1>6, <1>7, <1>8, <1>9, <1>10 DEF AdminStep, Chooses

LEMMA NextConfigInv == TypeInv /\ ConfigInv /\ [Next]_vars => ConfigInv'
<1> SUFFICES ASSUME TypeInv, ConfigInv, [Next]_vars PROVE ConfigInv'
  OBVIOUS
<1>1. CASE OtherStep
  <2>1. /\ UNCHANGED <<drink_config, admin_auth, at, spoiled>>
        /\ \A a \in Admins : a \in overtaken' <=> a \in overtaken
    BY <1>1, OtherStepFrame DEF admin
  <2> QED  BY <2>1 DEF ConfigInv, FilesReadable
<1>2. ASSUME NEW a \in Admins, AdminStep(a) PROVE ConfigInv'
  <2> DEFINE ConfigOK == \/ drink_config.state = "whole"
                         \/ \E b \in Admins \ overtaken : at[b] = "save"
                         \/ "config" \in spoiled
             AuthOK == \/ admin_auth = "set"
                       \/ \E b \in Admins \ overtaken : at[b] = "password"
                       \/ "auth" \in spoiled
             SaveOK == \A b \in Admins \ overtaken : at[b] = "save" => drink_config.state = "empty"
  <2>0. /\ at \in [Admins -> Places] /\ drink_config \in Configs
        /\ \A b \in Admins \ {a} : at'[b] = at[b] /\ (b \in overtaken => b \in overtaken')
        /\ ConfigOK /\ AuthOK /\ SaveOK /\ "config" \in Files
    BY <1>2, AdminStepFrame, TypeInvParts DEF TypeParts, SharedType, ConfigInv, FilesReadable, Files
  <2>1. ConfigOK' /\ SaveOK'
    <3>1. CASE Chooses(a)
      <4>1. drink_config'.state = "empty" /\ at'[a] = "save" /\ a \notin overtaken'
        BY <2>0, <3>1, ChoosesFacts, WritesFacts DEF Configs
      <4> QED  BY <4>1
    <3>2. CASE SaveDrinkConfig(a)
      <4>1. /\ at[a] = "save" /\ at'[a] = "refresh"
            /\ \A b \in Admins \ {a} : at[b] = "save" => b \in overtaken'
        BY <2>0, <3>2, WritesFacts, BetweenFacts DEF SaveDrinkConfig
      <4>2. CASE a \in overtaken
        <5>1. "config" \in spoiled'
          BY <3>2, <4>2 DEF SaveDrinkConfig
        <5> QED  BY <2>0, <4>1, <5>1
      <4>3. CASE a \notin overtaken
        <5>1. drink_config'.state = "whole"
          BY <2>0, <3>2, <4>1, <4>3 DEF SaveDrinkConfig
        <5> QED  BY <2>0, <4>1, <5>1
      <4> QED  BY <4>2, <4>3
    <3>3. CASE ~Chooses(a) /\ ~SaveDrinkConfig(a)
      <4>1. drink_config' = drink_config
        BY <1>2, <3>3, AdminStepFrame
      <4> QED  BY <1>2, <2>0, <3>3, <4>1, ConfigLeftAlone
    <3> QED  BY <3>1, <3>2, <3>3
  <2>2. AuthOK'
    <3>1. CASE EmptyPassword(a)
      <4>1. at'[a] = "password" /\ a \notin overtaken'
        BY <2>0, <3>1, TouchesFacts DEF EmptyPassword
      <4> QED  BY <4>1
    <3>2. CASE SetPassword(a)
      BY <3>2 DEF SetPassword
    <3>3. CASE ~EmptyPassword(a) /\ ~SetPassword(a)
      BY <1>2, <2>0, <3>3, PasswordLeftAlone
    <3> QED  BY <3>1, <3>2, <3>3
  <2> QED  BY <2>1, <2>2 DEF ConfigInv, FilesReadable
<1> QED  BY <1>1, <1>2, NextCases

(***************************************************************************)
(* No one is shut out: the files read at a start are readable unless a     *)
(* process has just emptied them, or the last to write them ended before   *)
(* its text was there or was overtaken by another writer while it wrote    *)
(* (file_manager.py:153, auth_manager.py:42, main.py:59-74).                *)
(***************************************************************************)
THEOREM NobodyShutOut == Spec => []FilesReadable
<1>1. Init => TypeInv /\ ConfigInv
  BY InitTypeInv, InitConfigInv
<1>2. TypeInv /\ ConfigInv /\ [Next]_vars => (TypeInv /\ ConfigInv)'
  BY NextTypeInv, NextConfigInv
<1>3. ConfigInv => FilesReadable
  BY DEF ConfigInv
<1> QED  BY <1>1, <1>2, <1>3, PTL DEF Spec

-----------------------------------------------------------------------------
(* Names and prices. *)

\* While nobody has saved over another's change, who has seen the last state of
\* drink_config.json shows the names and prices last chosen.
MenuInv ==
  /\ ChosenMenuSaved
  /\ "config" \notin blind =>
       \A a \in Admins : "config" \in fresh[a] => window[a].menu = chosen

LEMMA InitMenuInv == Init => MenuInv
BY DEF Init, MenuInv, ChosenMenuSaved

\* OpenWindow reads the menu of a whole file; OnRename, OnReprice and
\* SaveDrinkConfig keep window and choice together, or the writer is blind.
LEMMA NextMenuInv == TypeInv /\ MenuInv /\ [Next]_vars => MenuInv'
<1> SUFFICES ASSUME TypeInv, MenuInv, [Next]_vars PROVE MenuInv'
  OBVIOUS
<1>0. "config" \in Files
  BY DEF Files
<1>1. CASE OtherStep
  <2>1. /\ UNCHANGED <<drink_config, chosen, window, fresh>>
        /\ "config" \in blind' <=> "config" \in blind
    BY <1>0, <1>1, OtherStepFrame DEF admin
  <2> QED  BY <2>1 DEF MenuInv, ChosenMenuSaved
<1>2. ASSUME NEW a \in Admins, AdminStep(a) PROVE MenuInv'
  <2>0. /\ at \in [Admins -> Places] /\ fresh \in [Admins -> SUBSET Files]
        /\ window \in [Admins -> Windows] /\ window[a] \in Windows
        /\ drink_config \in Configs
        /\ chosen \in [Drinks -> Items]
        /\ blind \subseteq blind'
    BY <1>2, AdminStepFrame, TypeInvParts DEF TypeParts, SharedType
  <2>1. ASSUME NEW b \in Admins \ {a}
        PROVE  window'[b] = window[b] /\ fresh'[b] \subseteq fresh[b]
    BY <1>2, AdminStepFrame
  <2>2. CASE Chooses(a)
    <3>1. /\ drink_config'.state = "empty"
          /\ "config" \in fresh[a] \cup blind'
          /\ \A b \in Admins \ {a} : "config" \notin fresh'[b]
      BY <1>0, <2>0, <2>2, ChoosesFacts, WritesFacts DEF Configs
    <3>2. "config" \notin blind' => window[a].menu = chosen
      BY <2>0, <3>1 DEF MenuInv
    <3>3. \/ \E d \in Drinks, n \in Names :
               /\ chosen' = [chosen EXCEPT ![d].name = n]
               /\ window'[a].menu = [window[a].menu EXCEPT ![d].name = n]
          \/ \E d \in Drinks, p \in Prices :
               /\ chosen' = [chosen EXCEPT ![d].price = p]
               /\ window'[a].menu = [window[a].menu EXCEPT ![d].price = p]
      BY <2>2, ChoosesFacts, Zenon
    <3>4. ASSUME window[a].menu = chosen PROVE window'[a].menu = chosen'
      <4>1. ASSUME NEW d \in Drinks, NEW n \in Names,
                   chosen' = [chosen EXCEPT ![d].name = n],
                   window'[a].menu = [window[a].menu EXCEPT ![d].name = n]
            PROVE  window'[a].menu = chosen'
        BY <3>4, <4>1
      <4>2. ASSUME NEW d \in Drinks, NEW p \in Prices,
                   chosen' = [chosen EXCEPT ![d].price = p],
                   window'[a].menu = [window[a].menu EXCEPT ![d].price = p]
            PROVE  window'[a].menu = chosen'
        BY <3>4, <4>2
      <4> QED  BY <3>3, <4>1, <4>2
    <3> QED  BY <3>1, <3>2, <3>4 DEF MenuInv, ChosenMenuSaved
  <2>3. CASE SaveDrinkConfig(a)
    <3>1. /\ drink_config'.menu = window[a].menu /\ chosen' = chosen /\ window' = window
          /\ Writes(a, "config")
      BY <2>3 DEF SaveDrinkConfig, Saved
    <3>2. /\ "config" \in fresh[a] \cup blind'
          /\ \A b \in Admins \ {a} : "config" \notin fresh'[b]
      BY <1>0, <3>1, WritesFacts
    <3>3. "config" \notin blind' => window[a].menu = chosen
      BY <2>0, <3>2 DEF MenuInv
    <3> QED  BY <3>1, <3>2, <3>3 DEF MenuInv, ChosenMenuSaved
  <2>4. CASE UNCHANGED <<drink_config, chosen>>
    <3>1. CASE OpenWindow(a)
      <4>1. drink_config.state = "whole" /\ window'[a].menu = drink_config.menu
        BY <2>0, <3>1 DEF OpenWindow, LoadDrinkConfig, NoWindow
      <4> QED  BY <2>0, <2>1, <2>4, <4>1 DEF MenuInv, ChosenMenuSaved
    <3>2. CASE ~OpenWindow(a) /\ ~Chooses(a)
      <4>1. "config" \in fresh'[a] =>
              "config" \in fresh[a] /\ window'[a].menu = window[a].menu
        <5> USE <2>0 DEF Windows
        <5>1. CASE CloseWindow(a) \/ Cut(a)
          BY <5>1 DEF CloseWindow, Cut, Ends
        <5>2. CASE RefreshInventory(a)
          BY <5>2 DEF RefreshInventory, Reads
        <5>3. CASE TestSize(a) \/ OnChangePassword(a) \/ EmptyPassword(a) \/ SetPassword(a)
          BY <5>3 DEF TestSize, OnChangePassword, EmptyPassword, SetPassword, history
        <5>4. CASE WriteHeader(a) \/ AppendRow(a)
          BY <5>4 DEF WriteHeader, AppendRow, Writes
        <5>5. CASE \E d \in Drinks, n \in 1 .. MaxStock : OnRestock(a, d, n)
          BY <5>5 DEF OnRestock, StartAppend, history
        <5>6. CASE SaveDrinkConfig(a)
          BY <5>6 DEF SaveDrinkConfig, Writes
        <5>7. CASE \E start, end \in Dates : QuerySales(a, start, end)
          BY <5>7 DEF QuerySales, history
        <5>8. CASE \E mode \in Modes : OnCollect(a, mode)
          BY <5>8 DEF OnCollect, StartAppend, Reads
        <5> QED  BY <1>2, <3>2, <5>1, <5>2, <5>3, <5>4, <5>5, <5>6, <5>7, <5>8
                 DEF AdminStep, Chooses
      <4> QED  BY <2>0, <2>1, <2>4, <4>1 DEF MenuInv, ChosenMenuSaved
    <3> QED  BY <2>2, <3>1, <3>2
  <2> QED  BY <1>2, <2>2, <2>3, <2>4, AdminStepFrame
<1> QED  BY <1>1, <1>2, NextCases

(***************************************************************************)
(* drink_config.json holds the name and the price last chosen for each     *)
(* drink, by whichever window, unless a window that had not seen another's *)
(* change saved over it                                                    *)
(* (file_manager.py:149-154, admin_window.py:483-503, 536-556).             *)
(***************************************************************************)
THEOREM MenuSaved == Spec => []ChosenMenuSaved
<1>1. Init => TypeInv /\ MenuInv
  BY InitTypeInv, InitMenuInv
<1>2. TypeInv /\ MenuInv /\ [Next]_vars => (TypeInv /\ MenuInv)'
  BY NextTypeInv, NextMenuInv
<1>3. MenuInv => ChosenMenuSaved
  BY DEF MenuInv
<1> QED  BY <1>1, <1>2, <1>3, PTL DEF Spec

-----------------------------------------------------------------------------
(* Collections. *)

SameKey(r, s) == r.start = s.start /\ r.end = s.end /\ r.mode = s.mode

\* While nobody has written without having read the last state, the log has the
\* rows of all collections, no two of one period and mode, and who is about to
\* write one, and is the last to have read, has one that is not there.
OnceInv ==
  "collection" \notin blind =>
    /\ log["collection"] = taken
    /\ \A i, j \in DOMAIN taken : SameKey(taken[i], taken[j]) => i = j
    /\ \A a \in Admins :
         at[a] \in Writing /\ window[a].file = "collection" /\ "collection" \in fresh[a] =>
           \A i \in DOMAIN taken : ~SameKey(taken[i], window[a].row)

LEMMA InitOnceInv == Init => OnceInv
<1> SUFFICES ASSUME Init PROVE OnceInv
  OBVIOUS
<1>1. taken = << >> /\ log["collection"] = << >> /\ DOMAIN taken = {}
  BY DEF Init, Logs
<1>2. \A a \in Admins : at[a] \notin Writing
  BY DEF Init, Writing
<1> QED  BY <1>1, <1>2 DEF OnceInv

\* OnCollect looks through the log that has all collections; AppendRow adds the
\* row to both, and takes from all others the knowledge of the log.
LEMMA NextOnceInv == TypeInv /\ HeaderInv /\ OnceInv /\ [Next]_vars => OnceInv'
<1> SUFFICES ASSUME TypeInv, HeaderInv, OnceInv, [Next]_vars PROVE OnceInv'
  OBVIOUS
<1>1. CASE OtherStep
  <2>1. /\ UNCHANGED <<log, taken, at, window, fresh>>
        /\ "collection" \in blind' <=> "collection" \in blind
    BY <1>1, OtherStepFrame DEF admin, Files, Logs
  <2> QED  BY <2>1 DEF OnceInv
<1>2. ASSUME NEW a \in Admins, AdminStep(a), "collection" \notin blind'
      PROVE  /\ log'["collection"] = taken'
             /\ \A i, j \in DOMAIN taken' : SameKey(taken'[i], taken'[j]) => i = j
             /\ \A b \in Admins :
                  at'[b] \in Writing /\ window'[b].file = "collection"
                    /\ "collection" \in fresh'[b] =>
                      \A i \in DOMAIN taken' : ~SameKey(taken'[i], window'[b].row)
  <2> DEFINE f == window[a].file
             r == window[a].row
  <2>0. /\ at \in [Admins -> Places] /\ window \in [Admins -> Windows] /\ window[a] \in Windows
        /\ fresh \in [Admins -> SUBSET Files] /\ DOMAIN log = Logs /\ f \in Logs
        /\ "collection" \in Logs /\ taken \in Seq(CollectionRows)
    BY TypeInvParts DEF TypeParts, SharedType, Windows, Logs
  <2>1. /\ log["collection"] = taken
        /\ \A i, j \in DOMAIN taken : SameKey(taken[i], taken[j]) => i = j
        /\ \A b \in Admins :
             at[b] \in Writing /\ window[b].file = "collection" /\ "collection" \in fresh[b] =>
               \A i \in DOMAIN taken : ~SameKey(taken[i], window[b].row)
    BY <1>2, AdminStepFrame DEF OnceInv
  <2>2. ASSUME NEW b \in Admins \ {a}
        PROVE  at'[b] = at[b] /\ window'[b] = window[b] /\ fresh'[b] \subseteq fresh[b]
    BY <1>2, AdminStepFrame
  <2>3. CASE WriteHeader(a)
    <3>1. /\ at[a] = "header" /\ at'[a] = "row" /\ window' = window /\ taken' = taken
          /\ log' = [log EXCEPT ![f] = << >>] /\ fresh'[a] = fresh[a]
          /\ f \in fresh[a] \cup blind'
      BY <2>0, <2>3 DEF WriteHeader, Writes
    <3>2. log'["collection"] = taken
      <4>1. CASE f = "collection"
        <5>1. log[f] = << >>
          BY <1>2, <2>0, <3>1, <4>1 DEF HeaderInv, LogsInv
        <5> QED  BY <2>0, <2>1, <3>1, <4>1, <5>1
      <4>2. CASE f # "collection"
        BY <2>0, <2>1, <3>1, <4>2
      <4> QED  BY <4>1, <4>2
    <3>3. at[a] \in Writing
      BY <3>1 DEF Writing
    <3> QED  BY <2>1, <2>2, <3>1, <3>2, <3>3
  <2>4. CASE AppendRow(a) /\ f = "collection"
    <3>1. /\ at[a] = "row" /\ at'[a] = "idle" /\ taken' = Append(taken, r)
          /\ log' = [log EXCEPT ![f] = Append(@, r)]
          /\ f \in fresh[a] \cup blind' /\ \A b \in Admins \ {a} : f \notin fresh'[b]
      BY <2>0, <2>4 DEF AppendRow, Writes
    <3>2. log'["collection"] = taken'
      BY <2>0, <2>1, <2>4, <3>1
    <3>3. \A i \in DOMAIN taken : ~SameKey(taken[i], r)
      BY <1>2, <2>1, <2>4, <3>1 DEF Writing
    <3>4. ASSUME NEW i \in DOMAIN taken', NEW j \in DOMAIN taken', SameKey(taken'[i], taken'[j])
          PROVE  i = j
      <4> DEFINE n == Len(taken)
      <4>1. r \in CollectionRows
        BY <2>4, <3>1, TypeInvParts DEF TypeParts, WindowOK, Writing, RowsOf
      <4>2. /\ n \in Nat /\ DOMAIN taken = 1 .. n /\ DOMAIN taken' = 1 .. n + 1
            /\ taken'[n + 1] = r /\ \A k \in 1 .. n : taken'[k] = taken[k]
        BY <2>0, <3>1, <4>1, AppendProperties
      <4> HIDE DEF n, r
      <4>3. i \in 1 .. n + 1 /\ j \in 1 .. n + 1
        BY <4>2
      <4>4. CASE i \in 1 .. n /\ j \in 1 .. n
        BY <2>1, <3>4, <4>2, <4>4
      <4>5. CASE i \in 1 .. n /\ j = n + 1
        BY <3>3, <3>4, <4>2, <4>5
      <4>6. CASE i = n + 1 /\ j \in 1 .. n
        BY <3>3, <3>4, <4>2, <4>6 DEF SameKey
      <4> QED  BY <4>2, <4>3, <4>4, <4>5, <4>6
    <3>5. at'[a] \notin Writing
      BY <3>1 DEF Writing
    <3> QED  BY <2>4, <3>1, <3>2, <3>4, <3>5
  <2>5. CASE AppendRow(a) /\ f # "collection"
    <3>1. f = "restock"
      BY <2>0, <2>5 DEF Logs
    <3>2. /\ at'[a] = "refresh" /\ taken' = taken /\ log'["collection"] = log["collection"]
      BY <2>0, <2>5, <3>1 DEF AppendRow
    <3>3. at'[a] \notin Writing
      BY <3>2 DEF Writing
    <3> QED  BY <2>1, <2>2, <3>2, <3>3
  <2>6. CASE UNCHANGED <<log, taken>> /\ ~WriteHeader(a)
    <3>1. ASSUME at'[a] \in Writing, window'[a].file = "collection", "collection" \in fresh'[a],
                 NEW i \in DOMAIN taken
          PROVE  ~SameKey(taken[i], window'[a].row)
      <4>1. CASE \E d \in Drinks, n \in 1 .. MaxStock : OnRestock(a, d, n)
        <5>1. window'[a].file = "restock"
          BY <2>0, <4>1 DEF OnRestock, StartAppend, Windows
        <5> QED  BY <3>1, <5>1
      <4>2. ASSUME NEW mode \in Modes, OnCollect(a, mode) PROVE ~SameKey(taken[i], window'[a].row)
        <5> DEFINE q == window[a].query
        <5>1. /\ window'[a].row = [start |-> q.start, end |-> q.end, mode |-> mode,
                                   amount |-> q.total]
              /\ NotCollected(q, mode)
          BY <2>0, <4>2 DEF OnCollect, StartAppend, Windows
        <5> QED  BY <2>1, <5>1 DEF NotCollected, SameKey
      <4>3. CASE TestSize(a)
        <5>1. at[a] \in Writing /\ window' = window /\ fresh' = fresh
          BY <4>3 DEF TestSize, Writing, history
        <5> QED  BY <2>1, <3>1, <5>1
      <4> QED  BY <1>2, <2>6, <3>1, <4>1, <4>2, <4>3, AdminStepFrame
    <3> QED  BY <2>1, <2>2, <2>6, <3>1
  <2>7. WriteHeader(a) \/ AppendRow(a) \/ UNCHANGED <<log, taken>>
    BY <1>2, AdminStepFrame
  <2> QED  BY <2>3, <2>4, <2>5, <2>6, <2>7
<1> QED  BY <1>1, <1>2, NextCases DEF OnceInv

(***************************************************************************)
(* The sales of a period are collected once in each mode, unless two       *)
(* windows collected at the same time (admin_window.py:426-450).            *)
(***************************************************************************)
THEOREM PeriodsCollectedOnce == Spec => []CollectedOnce
<1>1. Init => OnceInv
  BY InitOnceInv
<1>2. (TypeInv /\ HeaderInv) /\ OnceInv /\ [Next]_vars => OnceInv'
  BY NextOnceInv
<1>3. OnceInv => CollectedOnce
  BY DEF OnceInv, CollectedOnce, SameKey
<1> QED  BY <1>1, <1>2, <1>3, HeaderInvAlways, PTL DEF Spec

\* An amount is no more than the log has in the period, and not nothing.
Covered(amount, start, end) == amount \in 1 .. TotalIn(sales_log, start, end)

\* While no row of sales_log.csv was written over, what was collected, what a
\* window shows as collectable and what it is about to collect is in the log.
LoggedInv ==
  "sales" \notin blind =>
    /\ \A i \in DOMAIN taken : Covered(taken[i].amount, taken[i].start, taken[i].end)
    /\ \A a \in Admins :
         /\ window[a].query.collectable =>
              Covered(window[a].query.total, window[a].query.start, window[a].query.end)
         /\ at[a] \in Writing /\ window[a].file = "collection" =>
              Covered(window[a].row.amount, window[a].row.start, window[a].row.end)

\* Rows are added to sales_log.csv, or a header is written over some.
LEMMA SalesLogGrows ==
  ASSUME TypeInv, HeaderInv, [Next]_vars, "sales" \notin blind'
  PROVE  sales_log' = sales_log \/ \E row \in SaleRows : sales_log' = Append(sales_log, row)
<1>1. \A s \in overtaken \cap Sellers : ~WriteSalesHeader(s)
  BY DEF WriteSalesHeader
<1> QED  BY <1>1, SalesLogStep

\* What is in the log stays there.
LEMMA CoveredStays ==
  ASSUME NEW amount, NEW start, NEW end, TypeInv, HeaderInv, [Next]_vars,
         "sales" \notin blind', Covered(amount, start, end)
  PROVE  amount \in 1 .. TotalIn(sales_log', start, end)
<1> DEFINE t == TotalIn(sales_log, start, end)
           u == TotalIn(sales_log', start, end)
<1>1. sales_log \in Seq(SaleRows) /\ sales_log' \in Seq(SaleRows)
  BY NextTypeInv, TypeInvParts DEF TypeInv, OfficeTypeOK
<1>2. t \in Nat /\ u \in Nat
  BY <1>1, TotalFacts
<1>3. t <= u
  <2>1. CASE sales_log' = sales_log
    BY <1>2, <2>1
  <2>2. ASSUME NEW row \in SaleRows, sales_log' = Append(sales_log, row)
        PROVE  t <= u
    BY <1>1, <2>2, TotalFacts
  <2> QED  BY <2>1, <2>2, SalesLogGrows
<1>4. amount \in 1 .. t
  BY DEF Covered
<1> HIDE DEF t, u
<1>5. amount \in 1 .. u
  BY <1>2, <1>3, <1>4
<1> QED  BY <1>5 DEF u

LEMMA InitLoggedInv == Init => LoggedInv
<1> SUFFICES ASSUME Init PROVE LoggedInv
  OBVIOUS
<1>1. taken = << >> /\ DOMAIN taken = {}
  BY DEF Init
<1>2. \A a \in Admins : at[a] \notin Writing /\ ~window[a].query.collectable
  BY DEF Init, Writing, NoWindow, NoQuery
<1> QED  BY <1>1, <1>2 DEF LoggedInv

\* QuerySales takes the total of its period, OnCollect the total of the query;
\* both stay covered while sales are added.
LEMMA NextLoggedInv == TypeInv /\ HeaderInv /\ LoggedInv /\ [Next]_vars => LoggedInv'
<1> SUFFICES ASSUME TypeInv, HeaderInv, LoggedInv, [Next]_vars, "sales" \notin blind'
             PROVE  LoggedInv'
  BY DEF LoggedInv
<1>b. "sales" \notin blind
  BY NextCases, OtherStepFrame, AdminStepFrame
<1> DEFINE CoveredNext(x, start, end) == x \in 1 .. TotalIn(sales_log', start, end)
<1>0. \A x, start, end : Covered(x, start, end) => CoveredNext(x, start, end)
  BY CoveredStays
<1>w. \A i \in DOMAIN taken : Covered(taken[i].amount, taken[i].start, taken[i].end)
  BY <1>b DEF LoggedInv
<1>a. \A a \in Admins :
        /\ window[a].query.collectable =>
             Covered(window[a].query.total, window[a].query.start, window[a].query.end)
        /\ at[a] \in Writing /\ window[a].file = "collection" =>
             Covered(window[a].row.amount, window[a].row.start, window[a].row.end)
  BY <1>b DEF LoggedInv
<1>f. ASSUME \A i \in DOMAIN taken' :
               CoveredNext(taken'[i].amount, taken'[i].start, taken'[i].end),
             \A a \in Admins :
               /\ window'[a].query.collectable =>
                    CoveredNext(window'[a].query.total, window'[a].query.start,
                                window'[a].query.end)
               /\ at'[a] \in Writing /\ window'[a].file = "collection" =>
                    CoveredNext(window'[a].row.amount, window'[a].row.start, window'[a].row.end)
      PROVE  LoggedInv'
  BY <1>f DEF LoggedInv, Covered
<1> HIDE DEF CoveredNext
<1>1. CASE OtherStep
  <2>1. UNCHANGED <<taken, at, window>>
    BY <1>1, OtherStepFrame DEF admin
  <2> QED  BY <1>0, <1>a, <1>w, <1>f, <2>1
<1>2. ASSUME NEW a \in Admins, AdminStep(a) PROVE LoggedInv'
  <2> DEFINE f == window[a].file
             r == window[a].row
  <2>0. /\ at \in [Admins -> Places] /\ window \in [Admins -> Windows] /\ window[a] \in Windows
        /\ taken \in Seq(CollectionRows) /\ f \in Logs /\ window[a].query \in Queries
    BY TypeInvParts DEF TypeParts, SharedType, Windows
  <2>1. ASSUME NEW b \in Admins \ {a}
        PROVE  at'[b] = at[b] /\ window'[b] = window[b]
    BY <1>2, AdminStepFrame
  <2>2. ASSUME NEW i \in DOMAIN taken'
        PROVE  CoveredNext(taken'[i].amount, taken'[i].start, taken'[i].end)
    <3>1. CASE taken' = taken
      BY <1>0, <1>w, <2>2, <3>1
    <3>2. CASE AppendRow(a) /\ taken' # taken
      <4>1. at[a] = "row" /\ f = "collection" /\ taken' = Append(taken, r)
        BY <2>0, <3>2 DEF AppendRow, Logs
      <4>2. r \in CollectionRows
        BY <4>1, TypeInvParts DEF TypeParts, WindowOK, Writing, RowsOf
      <4>3. Covered(r.amount, r.start, r.end)
        BY <1>a, <4>1 DEF Writing
      <4> DEFINE n == Len(taken)
      <4>4. /\ n \in Nat /\ DOMAIN taken = 1 .. n /\ DOMAIN taken' = 1 .. n + 1
            /\ taken'[n + 1] = r /\ \A k \in 1 .. n : taken'[k] = taken[k]
        BY <2>0, <4>1, <4>2, AppendProperties
      <4> HIDE DEF n, r
      <4>5. CASE i \in 1 .. n
        BY <1>0, <1>w, <4>4, <4>5
      <4>6. CASE i = n + 1
        BY <1>0, <4>3, <4>4, <4>6
      <4> QED  BY <2>2, <4>4, <4>5, <4>6
    <3>3. CASE WriteHeader(a)
      BY <3>1, <3>3 DEF WriteHeader
    <3> QED  BY <1>2, <3>1, <3>2, <3>3, AdminStepFrame
  <2>3. ASSUME window'[a].query.collectable
        PROVE  CoveredNext(window'[a].query.total, window'[a].query.start, window'[a].query.end)
    <3>1. CASE window'[a].query = window[a].query
      BY <1>0, <1>a, <2>3, <3>1
    <3>2. ASSUME NEW start \in Dates, NEW end \in Dates, QuerySales(a, start, end)
          PROVE  CoveredNext(window'[a].query.total, window'[a].query.start, window'[a].query.end)
      <4>1. window'[a].query = QueryResult(a, start, end)
        BY <2>0, <3>2 DEF QuerySales, Windows
      <4>2. Total(start, end) \in Nat /\ Total(start, end) > 0
        <5>1. Total(start, end) \in Nat
          BY TotalFacts DEF TypeInv, OfficeTypeOK, Total
        <5>2. window'[a].query.collectable = (Total(start, end) > 0)
          BY <4>1 DEF QueryResult
        <5> QED  BY <2>3, <5>1, <5>2
      <4>3. Covered(Total(start, end), start, end)
        BY <4>2 DEF Covered, Total
      <4> QED  BY <1>0, <4>1, <4>3 DEF QueryResult
    <3>3. CASE OpenWindow(a) \/ CloseWindow(a) \/ Cut(a)
      <4>1. window'[a].query = NoQuery
        <5>1. NoWindow.query = NoQuery
          BY DEF NoWindow
        <5>2. [NoWindow EXCEPT !.stock = StockFromLogs, !.menu = drink_config.menu].query = NoQuery
          BY DEF NoWindow
        <5>3. CASE OpenWindow(a)
          BY <2>0, <5>2, <5>3 DEF OpenWindow
        <5>4. CASE CloseWindow(a) \/ Cut(a)
          BY <2>0, <5>1, <5>4 DEF CloseWindow, Cut, Ends
        <5> QED  BY <3>3, <5>3, <5>4
      <4> QED  BY <2>3, <4>1 DEF NoQuery
    <3>4. CASE AppendRow(a)
      <4>1. CASE f = "restock"
        <5>1. window'[a].query = window[a].query
          BY <2>0, <3>4, <4>1 DEF AppendRow, Windows
        <5> QED  BY <3>1, <5>1
      <4>2. CASE f # "restock"
        <5>1. ~window'[a].query.collectable
          BY <2>0, <3>4, <4>2 DEF AppendRow, Windows, Queries
        <5> QED  BY <2>3, <5>1
      <4> QED  BY <4>1, <4>2
    <3>5. ASSUME NEW d \in Drinks, NEW n \in 1 .. MaxStock, OnRestock(a, d, n)
          PROVE  window'[a].query = window[a].query
      BY <2>0, <3>5 DEF OnRestock, StartAppend, Windows
    <3>6. CASE Chooses(a)
      <4>1. window'[a].query = window[a].query
        BY <3>6, ChoosesFacts
      <4> QED  BY <3>1, <4>1
    <3>7. ASSUME NEW mode \in Modes, OnCollect(a, mode)
          PROVE  window'[a].query = window[a].query
      BY <2>0, <3>7 DEF OnCollect, StartAppend, Windows
    <3>8. CASE RefreshInventory(a)
      <4>1. window'[a].query = window[a].query
        BY <2>0, <3>8 DEF RefreshInventory, Windows
      <4> QED  BY <3>1, <4>1
    <3>9. CASE TestSize(a) \/ WriteHeader(a) \/ SaveDrinkConfig(a) \/ OnChangePassword(a)
               \/ EmptyPassword(a) \/ SetPassword(a)
      BY <3>1, <3>9 DEF TestSize, WriteHeader, SaveDrinkConfig, OnChangePassword, EmptyPassword,
         SetPassword
    <3> QED  BY <1>2, <3>1, <3>2, <3>3, <3>4, <3>5, <3>6, <3>7, <3>8, <3>9
             DEF AdminStep, Chooses
  <2>4. ASSUME at'[a] \in Writing, window'[a].file = "collection"
        PROVE  CoveredNext(window'[a].row.amount, window'[a].row.start, window'[a].row.end)
    <3>1. CASE \E d \in Drinks, n \in 1 .. MaxStock : OnRestock(a, d, n)
      <4>1. window'[a].file = "restock"
        BY <2>0, <3>1 DEF OnRestock, StartAppend, Windows
      <4> QED  BY <2>4, <4>1
    <3>2. ASSUME NEW mode \in Modes, OnCollect(a, mode)
          PROVE  CoveredNext(window'[a].row.amount, window'[a].row.start, window'[a].row.end)
      <4> DEFINE q == window[a].query
      <4>1. /\ window'[a].row = [start |-> q.start, end |-> q.end, mode |-> mode,
                                 amount |-> q.total]
            /\ q.collectable
        BY <2>0, <3>2 DEF OnCollect, StartAppend, Windows
      <4> QED  BY <1>0, <1>a, <4>1
    <3>3. CASE TestSize(a) \/ WriteHeader(a)
      <4>1. at[a] \in Writing /\ window' = window
        BY <3>3 DEF TestSize, WriteHeader, Writing
      <4> QED  BY <1>0, <1>a, <2>4, <4>1
    <3> QED  BY <1>2, <2>4, <3>1, <3>2, <3>3, AdminStepFrame
  <2>5. ASSUME NEW b \in Admins
        PROVE  /\ window'[b].query.collectable =>
                    CoveredNext(window'[b].query.total, window'[b].query.start,
                                window'[b].query.end)
               /\ at'[b] \in Writing /\ window'[b].file = "collection" =>
                    CoveredNext(window'[b].row.amount, window'[b].row.start, window'[b].row.end)
    <3>1. CASE b = a
      BY <2>3, <2>4, <3>1
    <3>2. CASE b # a
      <4>1. at'[b] = at[b] /\ window'[b] = window[b]
        BY <2>1, <3>2
      <4> QED  BY <1>0, <1>a, <4>1
    <3> QED  BY <3>1, <3>2
  <2> QED  BY <1>f, <2>2, <2>5
<1> QED  BY <1>1, <1>2, NextCases

(***************************************************************************)
(* What is collected is in the log under the period it names, never more   *)
(* than the log has there, whatever was queried, refused or logged         *)
(* meanwhile, unless the header of sales_log.csv was written over rows     *)
(* (admin_window.py:394-450).                                               *)
(***************************************************************************)
THEOREM OnlyLoggedCollected == Spec => []CollectedIsLogged
<1>1. Init => LoggedInv
  BY InitLoggedInv
<1>2. (TypeInv /\ HeaderInv) /\ LoggedInv /\ [Next]_vars => LoggedInv'
  BY NextLoggedInv
<1>3. LoggedInv => CollectedIsLogged
  BY DEF LoggedInv, CollectedIsLogged, Covered, Total
<1> QED  BY <1>1, <1>2, <1>3, HeaderInvAlways, PTL DEF Spec

-----------------------------------------------------------------------------
(* The cap on the stock. *)

\* No row of sales_log.csv was written over, and nobody has filled up a drink
\* from a stock that another had changed.
StockSeen == blind \cap {"restock", "sales"} = {}

\* As long as that is so, the stock a window shows is no less than that of the
\* logs until it has added a row itself; and what it is about to add fits on top
\* of what it shows.
CapInv ==
  /\ LoggedStockCap
  /\ \A a \in Admins :
       /\ at[a] \in Writing /\ window[a].file = "restock" =>
            window[a].row.amount + window[a].stock[window[a].row.drink] <= MaxStock
       /\ StockSeen /\ at[a] # "refresh" /\ "restock" \in fresh[a] =>
            \A d \in Drinks : StockFromLogs[d] <= window[a].stock[d]

\* What is sold is not unsold.
LEMMA SoldOnlyGrows ==
  ASSUME NEW d \in Drinks, TypeInv, HeaderInv, [Next]_vars, "sales" \notin blind'
  PROVE  Sold(d) \in Nat /\ Sold(d)' \in Nat /\ Sold(d) <= Sold(d)'
<1> DEFINE S(rows) == {i \in DOMAIN rows : rows[i].drink = d}
<1>1. sales_log \in Seq(SaleRows) /\ sales_log' \in Seq(SaleRows)
  BY NextTypeInv DEF TypeInv, OfficeTypeOK
<1>2. ASSUME NEW rows \in Seq(SaleRows) PROVE IsFiniteSet(S(rows)) /\ Cardinality(S(rows)) \in Nat
  <2>1. IsFiniteSet(1 .. Len(rows)) /\ S(rows) \in SUBSET (1 .. Len(rows))
    BY FS_Interval
  <2> HIDE DEF S
  <2> QED  BY <2>1, FS_Subset, FS_CardinalityType
<1>3. S(sales_log) \in SUBSET S(sales_log')
  <2>1. CASE sales_log' = sales_log
    BY <2>1
  <2>2. ASSUME NEW row \in SaleRows, sales_log' = Append(sales_log, row)
        PROVE  S(sales_log) \in SUBSET S(sales_log')
    BY <1>1, <2>2, AppendProperties
  <2> HIDE DEF S
  <2> QED  BY <2>1, <2>2, SalesLogGrows
<1>4. Cardinality(S(sales_log)) <= Cardinality(S(sales_log'))
  <2> HIDE DEF S
  <2> QED  BY <1>1, <1>2, <1>3, FS_Subset
<1> QED  BY <1>1, <1>2, <1>4 DEF Sold

\* The stock grows by no more than what is restocked.
LEMMA StockStep ==
  ASSUME NEW d \in Drinks, NEW n \in Nat, TypeInv, HeaderInv, [Next]_vars,
         "sales" \notin blind',
         RestockedIn(log'["restock"], d) <= RestockedIn(log["restock"], d) + n
  PROVE  /\ StockFromLogs[d] \in Nat /\ StockFromLogs'[d] \in Nat
         /\ StockFromLogs'[d] <= StockFromLogs[d] + n
<1>1. log["restock"] \in Seq(RestockRows) /\ log'["restock"] \in Seq(RestockRows)
  BY NextTypeInv DEF TypeInv, OfficeTypeOK
<1>2. RestockedIn(log["restock"], d) \in Nat /\ RestockedIn(log'["restock"], d) \in Nat
  BY <1>1, RestockedFacts
<1>3. Sold(d) \in Nat /\ Sold(d)' \in Nat /\ Sold(d) <= Sold(d)'
  BY SoldOnlyGrows
<1> DEFINE s == DefaultStock + RestockedIn(log["restock"], d)
           t == DefaultStock + RestockedIn(log'["restock"], d)
<1>4. s \in Nat /\ t \in Nat /\ t <= s + n
  BY <1>2, OfficeConstants
<1>5. StockFromLogs[d] = IF s >= Sold(d) THEN s - Sold(d) ELSE 0
  BY DEF StockFromLogs, Restocked
<1>6. StockFromLogs'[d] = IF t >= Sold(d)' THEN t - Sold(d)' ELSE 0
  BY DEF StockFromLogs, Restocked
<1> HIDE DEF s, t
<1> QED  BY <1>3, <1>4, <1>5, <1>6

LEMMA InitCapInv == Init => CapInv
<1> SUFFICES ASSUME Init PROVE CapInv
  OBVIOUS
<1>1. ASSUME NEW d \in Drinks PROVE StockFromLogs[d] <= MaxStock
  <2>1. log["restock"] = << >> /\ << >> \in Seq(RestockRows) /\ sales_log = << >>
    BY DEF Init, Logs
  <2>2. Restocked(d) = 0
    BY <2>1, RestockedFacts DEF Restocked
  <2>3. Sold(d) \in Nat
    BY <2>1, StockFromLogsType
  <2>4. StockFromLogs[d] = IF DefaultStock >= Sold(d) THEN DefaultStock - Sold(d) ELSE 0
    BY <2>2, OfficeConstants DEF StockFromLogs
  <2> QED  BY <2>3, <2>4, OfficeConstants
<1>2. \A a \in Admins : at[a] \notin Writing /\ fresh[a] = {}
  BY DEF Init, Writing
<1> QED  BY <1>1, <1>2 DEF CapInv, LoggedStockCap

\* AppendRow adds what fitted on a stock that is no less than that of the logs;
\* the other steps add nothing to it.
LEMMA NextCapInv == TypeInv /\ HeaderInv /\ CapInv /\ [Next]_vars => CapInv'
<1> SUFFICES ASSUME TypeInv, HeaderInv, CapInv, [Next]_vars PROVE CapInv'
  OBVIOUS
<1>0. log["restock"] \in Seq(RestockRows) /\ DOMAIN log = Logs
      /\ \A d \in Drinks : RestockedIn(log["restock"], d) \in Nat /\ StockFromLogs[d] \in Nat
  BY RestockedFacts, StockFromLogsType DEF TypeInv, OfficeTypeOK
\* The stock of the logs when no row is added to restock_log.csv.
<1>k. ASSUME log'["restock"] = log["restock"], "sales" \notin blind', NEW d \in Drinks
      PROVE  StockFromLogs'[d] \in Nat /\ StockFromLogs'[d] <= StockFromLogs[d]
  <2>1. RestockedIn(log'["restock"], d) <= RestockedIn(log["restock"], d) + 0
    BY <1>0, <1>k
  <2>2. StockFromLogs'[d] \in Nat /\ StockFromLogs'[d] <= StockFromLogs[d] + 0
    BY <1>k, <2>1, StockStep
  <2> QED  BY <1>0, <2>2
<1>1. CASE OtherStep
  <2>a. UNCHANGED <<log, at, window, fresh>> /\ blind \subseteq blind'
    BY <1>1, OtherStepFrame DEF admin
  <2>b. StockSeen' => StockSeen /\ "sales" \notin blind'
    BY <2>a DEF StockSeen
  <2>1. UNCHANGED <<log, at, window, fresh>> /\ (StockSeen' => StockSeen /\ "sales" \notin blind')
    BY <2>a, <2>b
  <2>2. ASSUME "sales" \notin blind', NEW d \in Drinks
        PROVE  StockFromLogs'[d] \in Nat /\ StockFromLogs'[d] <= StockFromLogs[d]
    BY <1>k, <2>1, <2>2
  <2>3. ASSUME StockSeen', NEW d \in Drinks PROVE StockFromLogs'[d] <= MaxStock
    <3>1. StockFromLogs[d] <= MaxStock
      BY <2>1, <2>3 DEF CapInv, LoggedStockCap, StockSeen
    <3> QED  BY <1>0, <2>1, <2>2, <2>3, <3>1, OfficeConstants
  <2>4. ASSUME NEW a \in Admins, StockSeen', at[a] # "refresh", "restock" \in fresh[a],
               NEW d \in Drinks
        PROVE  StockFromLogs'[d] <= window[a].stock[d]
    <3>1. StockFromLogs[d] <= window[a].stock[d] /\ window[a].stock[d] \in Nat
      BY <2>1, <2>4 DEF CapInv, TypeInv, OfficeTypeOK
    <3> QED  BY <1>0, <2>1, <2>2, <2>4, <3>1
  <2>5. LoggedStockCap'
    BY <2>3 DEF LoggedStockCap, StockSeen
  <2> QED  BY <2>1, <2>4, <2>5 DEF CapInv
<1>2. ASSUME NEW a \in Admins, AdminStep(a) PROVE CapInv'
  <2> DEFINE f == window[a].file
             r == window[a].row
  <2>0. /\ at \in [Admins -> Places] /\ window \in [Admins -> Windows] /\ window[a] \in Windows
        /\ fresh \in [Admins -> SUBSET Files] /\ f \in Logs /\ "restock" \in Logs
        /\ window[a].stock \in [Drinks -> Nat] /\ blind \subseteq blind'
    BY <1>2, AdminStepFrame, TypeInvParts DEF TypeParts, SharedType, Windows, Logs
  <2>1. ASSUME NEW b \in Admins \ {a}
        PROVE  at'[b] = at[b] /\ window'[b] = window[b] /\ fresh'[b] \subseteq fresh[b]
    BY <1>2, AdminStepFrame
  \* What a process is about to add fits.
  <2>2. ASSUME NEW b \in Admins, at'[b] \in Writing, window'[b].file = "restock"
        PROVE  window'[b].row.amount + window'[b].stock[window'[b].row.drink] <= MaxStock
    <3>1. CASE b # a
      <4>1. at'[b] = at[b] /\ window'[b] = window[b]
        BY <2>1, <3>1
      <4> QED  BY <2>2, <4>1 DEF CapInv
    <3>2. CASE b = a
      <4>1. ASSUME NEW d \in Drinks, NEW n \in 1 .. MaxStock, OnRestock(a, d, n)
            PROVE  window'[a].row.amount + window'[a].stock[window'[a].row.drink] <= MaxStock
        <5> DEFINE m == Filled(window[a].stock[d], n)
        <5>1. window'[a].row = [drink |-> d, amount |-> m] /\ window'[a].stock = window[a].stock
          BY <2>0, <4>1 DEF OnRestock, StartAppend, Windows
        <5>2. window[a].stock[d] \in Nat /\ window[a].stock[d] < MaxStock
          BY <2>0, <4>1 DEF OnRestock
        <5>3. m + window[a].stock[d] <= MaxStock
          BY <5>2, OfficeConstants DEF Filled
        <5> HIDE DEF m
        <5> QED  BY <5>1, <5>3
      <4>2. ASSUME NEW mode \in Modes, OnCollect(a, mode) PROVE window'[a].file = "collection"
        BY <2>0, <4>2 DEF OnCollect, StartAppend, Windows
      <4>3. CASE TestSize(a) \/ WriteHeader(a)
        <5>1. at[a] \in Writing /\ window' = window
          BY <4>3 DEF TestSize, WriteHeader, Writing
        <5> QED  BY <2>2, <3>2, <5>1 DEF CapInv
      <4> QED  BY <1>2, <2>2, <3>2, <4>1, <4>2, <4>3, AdminStepFrame
    <3> QED  BY <3>1, <3>2
  <2>3. CASE ~StockSeen'
    BY <2>2, <2>3 DEF CapInv, LoggedStockCap, StockSeen
  <2> SUFFICES ASSUME StockSeen' PROVE CapInv'
    BY <2>3
  <2>s. "restock" \notin blind' /\ "sales" \notin blind' /\ StockSeen
    BY <2>0 DEF StockSeen
  <2>4. /\ \A d \in Drinks : StockFromLogs[d] <= MaxStock
        /\ \A b \in Admins : at[b] # "refresh" /\ "restock" \in fresh[b] =>
             \A d \in Drinks : StockFromLogs[d] <= window[b].stock[d]
    BY <2>s DEF CapInv, LoggedStockCap, StockSeen
  <2>5. \A b \in Admins : window[b].stock \in [Drinks -> Nat]
    BY DEF TypeInv, OfficeTypeOK
  <2>6. CASE AppendRow(a) /\ f = "restock"
    <3>1. /\ at[a] = "row" /\ at'[a] = "refresh" /\ log'["restock"] = Append(log["restock"], r)
          /\ "restock" \in fresh[a] /\ \A b \in Admins \ {a} : "restock" \notin fresh'[b]
      BY <1>0, <2>0, <2>6, <2>s DEF AppendRow, Writes
    <3>2. r \in RestockRows /\ r.amount + window[a].stock[r.drink] <= MaxStock
      BY <2>6, <3>1, TypeInvParts DEF TypeParts, WindowOK, Writing, RowsOf, CapInv
    <3>3. ASSUME NEW d \in Drinks PROVE StockFromLogs'[d] <= MaxStock
      <4> DEFINE n == IF r.drink = d THEN r.amount ELSE 0
      <4>1. n \in Nat
        BY <3>2 DEF RestockRows
      <4>2. RestockedIn(log'["restock"], d) = RestockedIn(log["restock"], d) + n
        <5> HIDE DEF r
        <5> QED  BY <1>0, <3>1, <3>2, RestockedFacts
      <4>3. StockFromLogs[d] <= window[a].stock[d] /\ window[a].stock[d] \in Nat
        BY <2>4, <2>5, <3>1
      <4>4. StockFromLogs[d] + n <= MaxStock
        <5>1. CASE r.drink = d
          BY <1>0, <3>2, <4>1, <4>3, <5>1, OfficeConstants
        <5>2. CASE r.drink # d
          BY <1>0, <2>4, <5>2
        <5> QED  BY <5>1, <5>2
      <4> HIDE DEF n
      <4>5. RestockedIn(log'["restock"], d) <= RestockedIn(log["restock"], d) + n
        BY <1>0, <4>1, <4>2
      <4>6. StockFromLogs'[d] \in Nat /\ StockFromLogs'[d] <= StockFromLogs[d] + n
        BY <2>s, <4>1, <4>5, StockStep
      <4> QED  BY <1>0, <4>1, <4>4, <4>6, OfficeConstants
    <3>4. LoggedStockCap'
      BY <3>3 DEF LoggedStockCap
    <3>5. \A b \in Admins : at'[b] = "refresh" \/ "restock" \notin fresh'[b]
      BY <3>1
    <3> QED  BY <2>2, <3>4, <3>5 DEF CapInv
  <2>7. CASE ~(AppendRow(a) /\ f = "restock")
    <3>1. log'["restock"] = log["restock"]
      <4>1. CASE AppendRow(a)
        BY <1>0, <2>0, <2>7, <4>1 DEF AppendRow
      <4>2. CASE WriteHeader(a)
        <5>1. log' = [log EXCEPT ![f] = << >>] /\ at[a] = "header" /\ f \in fresh[a] \cup blind'
          BY <4>2 DEF WriteHeader, Writes
        <5>2. f = "restock" => log["restock"] = << >>
          BY <2>0, <2>s, <5>1 DEF HeaderInv, LogsInv
        <5> QED  BY <1>0, <2>0, <5>1, <5>2
      <4> QED  BY <1>2, <4>1, <4>2, AdminStepFrame
    <3>2. \A d \in Drinks : StockFromLogs'[d] \in Nat /\ StockFromLogs'[d] <= StockFromLogs[d]
      BY <1>k, <2>s, <3>1
    <3>3. LoggedStockCap'
      <4>1. \A d \in Drinks : StockFromLogs'[d] <= MaxStock
        BY <1>0, <2>4, <3>2, OfficeConstants
      <4> QED  BY <4>1 DEF LoggedStockCap
    <3>4. ASSUME NEW b \in Admins, at'[b] # "refresh", "restock" \in fresh'[b], NEW d \in Drinks
          PROVE  StockFromLogs'[d] <= window'[b].stock[d]
      <4>1. CASE /\ at[b] # "refresh" /\ "restock" \in fresh[b]
                 /\ window'[b].stock = window[b].stock
        <5>1. StockFromLogs[d] <= window[b].stock[d] /\ window[b].stock[d] \in Nat
          BY <2>4, <2>5, <4>1
        <5> QED  BY <1>0, <3>2, <4>1, <5>1
      <4>2. CASE b # a
        BY <2>1, <3>4, <4>1, <4>2
      <4>3. CASE b = a /\ window'[a].stock = StockFromLogs
        BY <1>0, <3>2, <4>3
      <4>4. CASE b = a /\ window'[a].stock # StockFromLogs
        <5>1. /\ at[a] # "refresh" /\ "restock" \in fresh[a]
              /\ window'[a].stock = window[a].stock
          <6> USE <2>0
          <6>1. CASE OpenWindow(a)
            <7>1. [NoWindow EXCEPT !.stock = StockFromLogs, !.menu = drink_config.menu].stock
                    = StockFromLogs
              BY DEF NoWindow
            <7> QED  BY <4>4, <6>1, <7>1 DEF OpenWindow
          <6>2. CASE CloseWindow(a) \/ Cut(a)
            <7>1. fresh'[a] = {}
              BY <6>2 DEF CloseWindow, Cut, Ends
            <7> QED  BY <3>4, <4>4, <7>1
          <6>3. CASE RefreshInventory(a)
            <7>1. window'[a].stock = StockFromLogs
              BY <6>3 DEF RefreshInventory, Windows
            <7> QED  BY <4>4, <7>1
          <6>4. CASE TestSize(a) \/ OnChangePassword(a) \/ EmptyPassword(a) \/ SetPassword(a)
            BY <3>4, <4>4, <6>4 DEF TestSize, OnChangePassword, EmptyPassword, SetPassword, history
          <6>5. CASE WriteHeader(a)
            BY <3>4, <4>4, <6>5 DEF WriteHeader, Writes
          <6>6. CASE AppendRow(a)
            BY <2>7, <3>4, <4>4, <6>6 DEF AppendRow, Writes, Windows
          <6>7. CASE \E e \in Drinks, n \in 1 .. MaxStock : OnRestock(a, e, n)
            BY <3>4, <4>4, <6>7 DEF OnRestock, StartAppend, history, Windows
          <6>8. CASE Chooses(a)
            <7>1. at[a] = "idle" /\ window'[a].stock = window[a].stock /\ Writes(a, "config")
              BY <6>8, ChoosesFacts
            <7>2. fresh'[a] = fresh[a]
              BY <7>1 DEF Writes
            <7> QED  BY <3>4, <4>4, <7>1, <7>2
          <6>9. CASE SaveDrinkConfig(a)
            BY <3>4, <4>4, <6>9 DEF SaveDrinkConfig
          <6>10. CASE \E start, end \in Dates : QuerySales(a, start, end)
            BY <3>4, <4>4, <6>10 DEF QuerySales, history, Windows
          <6>11. CASE \E mode \in Modes : OnCollect(a, mode)
            BY <3>4, <4>4, <6>11 DEF OnCollect, StartAppend, Reads, Windows
          <6> QED  BY <1>2, <6>1, <6>2, <6>3, <6>4, <6>5, <6>6, <6>7, <6>8, <6>9, <6>10, <6>11
                   DEF AdminStep, Chooses
        <5> QED  BY <4>1, <4>4, <5>1
      <4> QED  BY <4>2, <4>3, <4>4
    <3> QED  BY <2>2, <3>3, <3>4 DEF CapInv
  <2> QED  BY <2>6, <2>7
<1> QED  BY <1>1, <1>2, NextCases

(***************************************************************************)
(* The stock the logs give stays within the cap, however sales, restocks,  *)
(* crashes and restarts mix, unless a window filled up a drink from a      *)
(* stock that another window had changed since, or the header of           *)
(* sales_log.csv was written over another process's rows                   *)
(* (admin_window.py:597-631, file_manager.py:16-21).                        *)
(***************************************************************************)
THEOREM LoggedStockWithinCap == Spec => []LoggedStockCap
<1>1. Init => CapInv
  BY InitCapInv
<1>2. (TypeInv /\ HeaderInv) /\ CapInv /\ [Next]_vars => CapInv'
  BY NextCapInv
<1>3. CapInv => LoggedStockCap
  BY DEF CapInv
<1> QED  BY <1>1, <1>2, <1>3, HeaderInvAlways, PTL DEF Spec

-----------------------------------------------------------------------------
(* The quick sort. *)

\* The list has the elements of E, in the order of descending sales.
Lists(r, E) ==
  /\ r \in Seq(E)
  /\ \A x \in E : \E i \in 1 .. Len(r) : r[i] = x
  /\ \A i, j \in 1 .. Len(r) : i < j => r[i].sold >= r[j].sold

\* No element is there twice.
Once(r) == \A i, j \in 1 .. Len(r) : r[i] = r[j] => i = j

\* r has the elements of s at some of its first n places.
Picks(r, s, places, n) ==
  /\ Len(r) <= n
  /\ \A k \in 1 .. Len(r) : \E i \in 1 .. n : i \in places /\ r[k] = s[i]
  /\ \A i \in 1 .. n : IF i \in places THEN \E k \in 1 .. Len(r) : r[k] = s[i] ELSE Len(r) < n
  /\ Once(s) => Once(r)

\* A list comprehension gives the elements at these places
\* (sort_search.py:28-30).
LEMMA ThosePicks ==
  ASSUME NEW R, NEW s \in Seq(R), NEW places
  PROVE  Those(s, places) \in Seq(R) /\ Picks(Those(s, places), s, places, Len(s))
<1> DEFINE n == Len(s)
           D == [i \in DOMAIN s |-> i]
           X == Seq(R)
           Grow(r, i) == IF i \in places THEN Append(r, s[i]) ELSE r
           G == [p \in X \X (1 .. n) |-> Grow(p[1], p[2])]
           Is(g) == g = [t \in SUBSET (DOMAIN D) |->
                           IF t = {} THEN << >> ELSE Grow(g[t \ {Max(t)}], D[Max(t)])]
           it == CHOOSE g : Is(g)
<1>1. n \in Nat /\ DOMAIN s = 1 .. n /\ DOMAIN D = 1 .. n /\ \A i \in 1 .. n : s[i] \in R
  BY LenProperties, ElementOfSeq
<1>2. /\ \A t \in SUBSET (1 .. n) : t # {} => Max(t) \in t
      /\ \A i \in 1 .. n : Max(1 .. i) = i /\ (1 .. i) \ {i} = 1 .. i - 1
  <2> HIDE DEF n
  <2> QED  BY <1>1, MaxFacts
<1>3. ASSUME NEW r \in X, NEW i \in 1 .. n PROVE G[<<r, i>>] = Grow(r, i) /\ Grow(r, i) \in X
  <2>1. Append(r, s[i]) \in X
    BY <1>1, AppendProperties
  <2> QED  BY <2>1
<1>4. Is(it)
  <2>1. << >> \in X /\ G \in [X \X (1 .. n) -> X]
    <3>1. << >> \in X
      OBVIOUS
    <3>2. \A p \in X \X (1 .. n) : p[1] \in X /\ p[2] \in 1 .. n /\ p = <<p[1], p[2]>>
      OBVIOUS
    <3> HIDE DEF X, Grow, n
    <3> QED  BY <1>3, <3>1, <3>2
  <2>2. PICK g \in [SUBSET (1 .. n) -> X] : LeftFolds(g, G, << >>, n)
    <3>1. n \in Nat
      BY <1>1
    <3> HIDE DEF X, G, n
    <3> QED  BY <2>1, <3>1, LeftFoldExists
  <2>3. ASSUME NEW t \in SUBSET (1 .. n)
        PROVE  g[t] = IF t = {} THEN << >> ELSE Grow(g[t \ {Max(t)}], D[Max(t)])
    <3>1. CASE t = {}
      <4> HIDE DEF Grow, D, G
      <4> QED  BY <2>2, <3>1 DEF LeftFolds
    <3>2. CASE t # {}
      <4>1. Max(t) \in 1 .. n /\ t \ {Max(t)} \in SUBSET (1 .. n)
        BY <1>2, <3>2
      <4>2. g[t \ {Max(t)}] \in X
        BY <2>2, <4>1
      <4>3. D[Max(t)] = Max(t)
        BY <1>1, <4>1
      <4> HIDE DEF Grow, D, G, X, n
      <4> QED  BY <1>3, <2>2, <3>2, <4>1, <4>2, <4>3, ZenonT(40) DEF LeftFolds
    <3> QED  BY <3>1, <3>2
  <2>4. Is(g)
    <3>1. g = [t \in SUBSET (DOMAIN D) |-> g[t]]
      BY <1>1, <2>2
    <3> HIDE DEF Grow, D, X
    <3> QED  BY <1>1, <2>3, <3>1
  <2> HIDE DEF Is
  <2> QED  BY <2>4
<1>5. Those(s, places) = it[1 .. n]
  BY <1>1 DEF Those, FoldLeftDomain, FoldLeft, MapThenFoldSet
<1> DEFINE P == {m \in 0 .. n : it[1 .. m] \in X /\ Picks(it[1 .. m], s, places, m)}
<1>6. 0 \in P
  <2>1. 1 .. 0 = {} /\ it[{}] = << >>
    <3> HIDE DEF it, Grow, D
    <3> QED  BY <1>4
  <2>2. << >> \in X /\ Picks(<< >>, s, places, 0)
    BY DEF Picks, Once
  <2> HIDE DEF it, X
  <2> QED  BY <1>1, <2>1, <2>2
<1>7. ASSUME NEW m \in 1 .. n, m - 1 \in P PROVE m \in P
  <2> DEFINE q == it[1 .. m - 1]
             r == it[1 .. m]
  <2>1. m \in Nat /\ m - 1 \in Nat /\ s[m] \in R /\ m \in 1 .. n
    BY <1>1
  <2>2. r = Grow(q, m)
    <3>1. 1 .. m \in SUBSET (1 .. n) /\ 1 .. m # {} /\ Max(1 .. m) = m
          /\ (1 .. m) \ {Max(1 .. m)} = 1 .. m - 1 /\ D[m] = m
      BY <1>1, <1>2
    <3> HIDE DEF it, Grow, D
    <3> QED  BY <1>1, <1>4, <3>1
  <2>3. q \in X /\ Picks(q, s, places, m - 1)
    <3> HIDE DEF it
    <3> QED  BY <1>7
  <2> HIDE DEF q, r, it
  <2>4. CASE m \notin places
    <3>1. r = q
      BY <2>2, <2>4
    <3>2. Len(q) \in Nat
      BY <2>3, LenProperties
    <3>3. Picks(q, s, places, m)
      BY <2>1, <2>3, <2>4, <3>2 DEF Picks
    <3> QED  BY <2>1, <2>3, <3>1, <3>3 DEF r
  <2>5. CASE m \in places
    <3> DEFINE k == Len(q)
    <3>1. r = Append(q, s[m])
      BY <2>2, <2>5
    <3>2. /\ k \in Nat /\ r \in X /\ Len(r) = k + 1 /\ r[k + 1] = s[m]
          /\ \A i \in 1 .. k : r[i] = q[i]
      BY <2>1, <2>3, <3>1, LenProperties, AppendProperties
    <3> HIDE DEF k
    <3>3. /\ k <= m - 1
          /\ \A j \in 1 .. k : \E i \in 1 .. m - 1 : i \in places /\ q[j] = s[i]
          /\ \A i \in 1 .. m - 1 : IF i \in places THEN \E j \in 1 .. k : q[j] = s[i] ELSE k < m - 1
          /\ Once(s) => \A i, j \in 1 .. k : q[i] = q[j] => i = j
      BY <2>3 DEF Picks, Once, k
    <3>4. Len(r) <= m
      BY <2>1, <3>2, <3>3
    <3>5. ASSUME NEW j \in 1 .. Len(r) PROVE \E i \in 1 .. m : i \in places /\ r[j] = s[i]
      <4>1. CASE j = k + 1
        BY <2>1, <2>5, <3>2, <4>1
      <4>2. CASE j # k + 1
        <5>1. j \in 1 .. k /\ r[j] = q[j]
          BY <3>2, <4>2
        <5>2. PICK i \in 1 .. m - 1 : i \in places /\ q[j] = s[i]
          BY <3>3, <5>1
        <5>3. i \in 1 .. m
          BY <2>1
        <5> QED  BY <5>1, <5>2, <5>3
      <4> QED  BY <4>1, <4>2
    <3>6. ASSUME NEW i \in 1 .. m
          PROVE  IF i \in places THEN \E j \in 1 .. Len(r) : r[j] = s[i] ELSE Len(r) < m
      <4>1. CASE i = m
        <5>1. k + 1 \in 1 .. Len(r)
          BY <3>2
        <5> QED  BY <2>5, <3>2, <4>1, <5>1
      <4>2. CASE i # m
        <5>1. i \in 1 .. m - 1
          BY <2>1, <4>2
        <5>2. ASSUME i \in places PROVE \E j \in 1 .. Len(r) : r[j] = s[i]
          <6>1. PICK j \in 1 .. k : q[j] = s[i]
            BY <3>3, <5>1, <5>2
          <6>2. j \in 1 .. Len(r) /\ r[j] = q[j]
            BY <3>2
          <6> QED  BY <6>1, <6>2
        <5>3. ASSUME i \notin places PROVE Len(r) < m
          BY <2>1, <3>2, <3>3, <5>1, <5>3
        <5> QED  BY <5>2, <5>3
      <4> QED  BY <4>1, <4>2
    <3>7. ASSUME Once(s) PROVE Once(r)
      <4>1. ASSUME NEW j \in 1 .. k PROVE r[j] # s[m]
        <5>1. PICK i \in 1 .. m - 1 : q[j] = s[i]
          BY <3>3
        <5>2. i \in 1 .. n /\ i # m
          BY <1>1, <2>1
        <5>3. s[i] # s[m]
          <6> HIDE DEF n
          <6> QED  BY <2>1, <3>7, <5>2 DEF Once, n
        <5> QED  BY <3>2, <5>1, <5>3
      <4>2. ASSUME NEW i \in 1 .. k + 1, NEW j \in 1 .. k + 1, r[i] = r[j] PROVE i = j
        <5>1. (i \in 1 .. k \/ i = k + 1) /\ (j \in 1 .. k \/ j = k + 1)
          BY <3>2
        <5> QED  BY <3>2, <3>3, <3>7, <4>1, <4>2, <5>1
      <4> QED  BY <3>2, <4>2 DEF Once
    <3>8. Picks(r, s, places, m)
      BY <3>4, <3>5, <3>6, <3>7 DEF Picks
    <3> QED  BY <2>1, <3>2, <3>8 DEF r
  <2> QED  BY <2>4, <2>5
<1>8. n \in P
  <2> HIDE DEF P, n
  <2>1. n \in 0 .. n
    BY <1>1
  <2> QED  BY <1>1, <1>6, <1>7, <2>1, PrefixInduction
<1> HIDE DEF it, n
<1> QED  BY <1>5, <1>8 DEF n

\* A list is one of its own elements.
LEMMA ListOfElements ==
  ASSUME NEW R, NEW s \in Seq(R), NEW E, \A i \in 1 .. Len(s) : s[i] \in E
  PROVE  s \in Seq(E)
<1>1. Len(s) \in Nat /\ s \in [1 .. Len(s) -> R]
  BY LenProperties
<1>2. s \in [1 .. Len(s) -> E]
  BY <1>1
<1> QED  BY <1>1, <1>2, SeqDef

\* The elements at some places of a list.
ElementsAt(s, places) == {s[i] : i \in places}

\* The elements that come of comparing with the pivot.
LEMMA ThoseElements ==
  ASSUME NEW R, NEW s \in Seq(R), NEW places \in SUBSET (1 .. Len(s)),
         NEW E, E = ElementsAt(s, places)
  PROVE  LET r == Those(s, places) IN
           /\ r \in Seq(E) /\ r \in Seq(R) /\ Len(r) \in Nat /\ Range(r) = E
           /\ places # 1 .. Len(s) => Len(r) < Len(s)
           /\ Once(s) => Once(r)
<1> DEFINE r == Those(s, places)
<1>1. r \in Seq(R) /\ Picks(r, s, places, Len(s))
  BY ThosePicks
<1> HIDE DEF r
<1>2. Len(r) \in Nat /\ DOMAIN r = 1 .. Len(r)
  BY <1>1, LenProperties
<1>3. \A k \in 1 .. Len(r) : r[k] \in E
  BY <1>1 DEF Picks, ElementsAt
<1>4. r \in Seq(E)
  BY <1>1, <1>3, ListOfElements
<1>5. Range(r) = E
  <2>1. \A x \in E : \E k \in 1 .. Len(r) : r[k] = x
    BY <1>1 DEF Picks, ElementsAt
  <2> QED  BY <1>2, <1>3, <2>1 DEF Range
<1>6. places # 1 .. Len(s) => Len(r) < Len(s)
  BY <1>1 DEF Picks
<1>7. Once(s) => Once(r)
  BY <1>1 DEF Picks
<1> QED  BY <1>1, <1>2, <1>4, <1>5, <1>6, <1>7 DEF r

\* Two lists in a row, of which the first sold better.
LEMMA ListsConcat ==
  ASSUME NEW A, NEW B, NEW a, NEW b, Lists(a, A), Lists(b, B),
         \A x \in A, y \in B : x.sold >= y.sold
  PROVE  /\ Lists(a \o b, A \cup B)
         /\ A \cap B = {} /\ Once(a) /\ Once(b) => Once(a \o b)
<1> DEFINE s == a \o b
<1>1. a \in Seq(A) /\ b \in Seq(B) /\ Len(a) \in Nat /\ Len(b) \in Nat
  BY LenProperties DEF Lists
<1>2. a \in Seq(A \cup B) /\ b \in Seq(A \cup B)
  BY <1>1, SeqMonotonic
<1>3. /\ s \in Seq(A \cup B) /\ Len(s) = Len(a) + Len(b)
      /\ \A i \in 1 .. Len(a) + Len(b) : s[i] = IF i <= Len(a) THEN a[i] ELSE b[i - Len(a)]
  BY <1>2, ConcatProperties
<1> HIDE DEF s
<1>4. \A i \in 1 .. Len(a) : a[i] \in A
  BY <1>1, ElementOfSeq
<1>5. \A i \in 1 .. Len(b) : b[i] \in B
  BY <1>1, ElementOfSeq
<1>6. ASSUME NEW d \in A \cup B PROVE \E i \in 1 .. Len(s) : s[i] = d
  <2>1. CASE d \in A
    <3>1. PICK i \in 1 .. Len(a) : a[i] = d
      BY <2>1 DEF Lists
    <3> QED  BY <1>1, <1>3, <3>1
  <2>2. CASE d \in B
    <3>1. PICK i \in 1 .. Len(b) : b[i] = d
      BY <2>2 DEF Lists
    <3> DEFINE j == i + Len(a)
    <3>2. /\ j \in 1 .. Len(a) + Len(b) /\ j \in 1 .. Len(s)
          /\ ~ (j <= Len(a)) /\ j - Len(a) = i
      BY <1>1, <1>3, <3>1
    <3> HIDE DEF j
    <3>3. s[j] = b[j - Len(a)]
      BY <1>3, <3>2
    <3> QED  BY <3>1, <3>2, <3>3
  <2> QED  BY <2>1, <2>2
<1>7. ASSUME NEW i \in 1 .. Len(s)
      PROVE  \/ i \in 1 .. Len(a) /\ s[i] = a[i]
             \/ i > Len(a) /\ i - Len(a) \in 1 .. Len(b) /\ s[i] = b[i - Len(a)]
  BY <1>1, <1>3
<1>8. ASSUME NEW i \in 1 .. Len(s), NEW j \in 1 .. Len(s), i < j PROVE s[i].sold >= s[j].sold
  <2>1. CASE j \in 1 .. Len(a) /\ s[j] = a[j]
    <3>1. i \in 1 .. Len(a) /\ s[i] = a[i]
      BY <1>1, <1>7, <1>8, <2>1
    <3> QED  BY <1>8, <2>1, <3>1 DEF Lists
  <2>2. CASE j > Len(a) /\ j - Len(a) \in 1 .. Len(b) /\ s[j] = b[j - Len(a)]
    <3>1. CASE i \in 1 .. Len(a) /\ s[i] = a[i]
      BY <1>4, <1>5, <2>2, <3>1
    <3>2. CASE i > Len(a) /\ i - Len(a) \in 1 .. Len(b) /\ s[i] = b[i - Len(a)]
      <4>1. i - Len(a) < j - Len(a)
        BY <1>1, <1>8
      <4> QED  BY <2>2, <3>2, <4>1 DEF Lists
    <3> QED  BY <1>7, <3>1, <3>2
  <2> QED  BY <1>7, <2>1, <2>2
<1>9. ASSUME A \cap B = {}, Once(a), Once(b), NEW i \in 1 .. Len(s), NEW j \in 1 .. Len(s),
             s[i] = s[j]
      PROVE  i = j
  <2>1. CASE i \in 1 .. Len(a) /\ s[i] = a[i]
    <3>1. CASE j \in 1 .. Len(a) /\ s[j] = a[j]
      BY <1>9, <2>1, <3>1 DEF Once
    <3>2. CASE j > Len(a) /\ j - Len(a) \in 1 .. Len(b) /\ s[j] = b[j - Len(a)]
      BY <1>4, <1>5, <1>9, <2>1, <3>2
    <3> QED  BY <1>7, <3>1, <3>2
  <2>2. CASE i > Len(a) /\ i - Len(a) \in 1 .. Len(b) /\ s[i] = b[i - Len(a)]
    <3>1. CASE j \in 1 .. Len(a) /\ s[j] = a[j]
      BY <1>4, <1>5, <1>9, <2>2, <3>1
    <3>2. CASE j > Len(a) /\ j - Len(a) \in 1 .. Len(b) /\ s[j] = b[j - Len(a)]
      <4>1. i - Len(a) = j - Len(a)
        BY <1>9, <2>2, <3>2 DEF Once
      <4> QED  BY <1>1, <4>1
    <3> QED  BY <1>7, <3>1, <3>2
  <2> QED  BY <1>7, <2>1, <2>2
<1> QED  BY <1>3, <1>6, <1>8, <1>9 DEF Lists, Once, s

\* The parts of a list, as quick_sort_by_sales names them.
Pivot(s) == s[Len(s) \div 2 + 1].sold
Left(s)   == Those(s, {i \in DOMAIN s : s[i].sold > Pivot(s)})
Middle(s) == Those(s, {i \in DOMAIN s : s[i].sold = Pivot(s)})
Right(s)  == Those(s, {i \in DOMAIN s : s[i].sold < Pivot(s)})

LEMMA PartsFacts ==
  ASSUME NEW R, \A x \in R : x.sold \in Int, NEW s \in Seq(R), Len(s) > 1
  PROVE  /\ Left(s) \in Seq(R) /\ Len(Left(s)) \in Nat /\ Len(Left(s)) < Len(s)
         /\ Range(Left(s)) = {x \in Range(s) : x.sold > Pivot(s)}
         /\ Right(s) \in Seq(R) /\ Len(Right(s)) \in Nat /\ Len(Right(s)) < Len(s)
         /\ Range(Right(s)) = {x \in Range(s) : x.sold < Pivot(s)}
         /\ Lists(Middle(s), {x \in Range(s) : x.sold = Pivot(s)})
         /\ Once(s) => Once(Left(s)) /\ Once(Middle(s)) /\ Once(Right(s))
<1> DEFINE n == Len(s)
           half == n \div 2 + 1
           p == Pivot(s)
           Above == {i \in DOMAIN s : s[i].sold > p}
           Same  == {i \in DOMAIN s : s[i].sold = p}
           Under == {i \in DOMAIN s : s[i].sold < p}
<1>1. n \in Nat /\ DOMAIN s = 1 .. n /\ \A i \in 1 .. n : s[i] \in R
  BY LenProperties, ElementOfSeq
<1>2. half \in 1 .. n
  BY <1>1
<1>3. p = s[half].sold /\ p \in Int
  BY <1>1, <1>2 DEF Pivot
<1> HIDE DEF half, p
<1>4. /\ Above \in SUBSET (1 .. n) /\ Above # 1 .. n
      /\ Same \in SUBSET (1 .. n)
      /\ Under \in SUBSET (1 .. n) /\ Under # 1 .. n
  BY <1>1, <1>2, <1>3
<1> DEFINE A == {x \in Range(s) : x.sold > p}
           M == {x \in Range(s) : x.sold = p}
           B == {x \in Range(s) : x.sold < p}
<1>5. /\ A = ElementsAt(s, Above)
      /\ M = ElementsAt(s, Same)
      /\ B = ElementsAt(s, Under)
  BY DEF ElementsAt, Range
<1>6. Left(s) = Those(s, Above) /\ Middle(s) = Those(s, Same) /\ Right(s) = Those(s, Under)
  BY DEF Left, Middle, Right, p
<1> HIDE DEF Above, Same, Under, A, M, B
<1>7. /\ Left(s) \in Seq(R) /\ Len(Left(s)) \in Nat /\ Len(Left(s)) < Len(s)
      /\ Range(Left(s)) = A
      /\ Once(s) => Once(Left(s))
  BY <1>4, <1>5, <1>6, ThoseElements
<1>8. /\ Right(s) \in Seq(R) /\ Len(Right(s)) \in Nat /\ Len(Right(s)) < Len(s)
      /\ Range(Right(s)) = B
      /\ Once(s) => Once(Right(s))
  BY <1>4, <1>5, <1>6, ThoseElements
<1>9. Lists(Middle(s), M) /\ (Once(s) => Once(Middle(s)))
  <2> DEFINE m == Middle(s)
  <2>1. /\ m \in Seq(M) /\ Len(m) \in Nat /\ Range(m) = M
        /\ Once(s) => Once(m)
    BY <1>4, <1>5, <1>6, ThoseElements
  <2>2. \A x \in M : x.sold = p
    BY DEF M
  <2> HIDE DEF m
  <2>3. \A i \in 1 .. Len(m) : m[i] \in M
    BY <2>1, ElementOfSeq
  <2>4. \A i, j \in 1 .. Len(m) : m[i].sold >= m[j].sold
    BY <1>3, <2>2, <2>3
  <2>5. \A x \in M : \E i \in 1 .. Len(m) : m[i] = x
    BY <2>1, LenProperties DEF Range
  <2> QED  BY <2>1, <2>4, <2>5 DEF Lists, m
<1> QED  BY <1>7, <1>8, <1>9 DEF p, A, M, B

\* What the sort makes of a list, given what it makes of shorter ones.
QuickStep(g, s) == IF Len(s) <= 1 THEN s ELSE g[Left(s)] \o Middle(s) \o g[Right(s)]

\* g sorts the lists of up to n elements.
SortsUpTo(g, R, n) == \A s \in Seq(R) : Len(s) <= n => g[s] = QuickStep(g, s)

LEMMA SortsExist ==
  ASSUME NEW R, \A x \in R : x.sold \in Int
  PROVE  \E g : g = [s \in Seq(R) |-> QuickStep(g, s)]
<1>1. ASSUME NEW g, NEW h, NEW s \in Seq(R),
             \A r \in Seq(R) : Len(r) < Len(s) => g[r] = h[r]
      PROVE  QuickStep(g, s) = QuickStep(h, s)
  <2>1. CASE Len(s) <= 1
    BY <2>1 DEF QuickStep
  <2>2. CASE ~ (Len(s) <= 1)
    <3>1. Len(s) > 1
      BY <2>2, LenProperties
    <3>2. /\ Left(s) \in Seq(R) /\ Len(Left(s)) < Len(s)
          /\ Right(s) \in Seq(R) /\ Len(Right(s)) < Len(s)
      BY <3>1, PartsFacts
    <3>3. g[Left(s)] = h[Left(s)] /\ g[Right(s)] = h[Right(s)]
      BY <1>1, <3>2
    <3> QED  BY <2>2, <3>3 DEF QuickStep
  <2> QED  BY <2>1, <2>2
<1>2. \A s \in Seq(R) : Len(s) \in Nat
  BY LenProperties
<1>3. ASSUME NEW n \in Nat, NEW g, SortsUpTo(g, R, n) PROVE \E h : SortsUpTo(h, R, n + 1)
  <2> DEFINE h == [s \in Seq(R) |-> IF Len(s) <= n THEN g[s] ELSE QuickStep(g, s)]
  <2>1. /\ \A s \in Seq(R) : Len(s) <= n => h[s] = g[s]
        /\ \A s \in Seq(R) : ~ (Len(s) <= n) => h[s] = QuickStep(g, s)
    OBVIOUS
  <2> HIDE DEF h
  <2>2. ASSUME NEW s \in Seq(R), Len(s) <= n + 1 PROVE h[s] = QuickStep(h, s)
    <3>1. \A r \in Seq(R) : Len(r) < Len(s) => g[r] = h[r]
      BY <1>2, <2>1, <2>2
    <3>2. QuickStep(g, s) = QuickStep(h, s)
      BY <1>1, <3>1
    <3>3. h[s] = QuickStep(g, s)
      BY <1>2, <1>3, <2>1 DEF SortsUpTo
    <3> QED  BY <3>2, <3>3
  <2> QED  BY <2>2 DEF SortsUpTo
<1>4. \A n \in Nat : \E g : SortsUpTo(g, R, n)
  <2> DEFINE W == {n \in Nat : ~ \E g : SortsUpTo(g, R, n)}
  <2> SUFFICES ASSUME W # {} PROVE FALSE
    OBVIOUS
  <2>1. PICK m \in W : \A n \in W : m <= n
    <3>1. W \in SUBSET Nat
      OBVIOUS
    <3> HIDE DEF W
    <3> QED  BY <3>1, LeastElement
  <2>2. CASE m = 0
    <3> DEFINE g == [s \in Seq(R) |-> s]
    <3>1. \A s \in Seq(R) : Len(s) <= 0 => g[s] = QuickStep(g, s)
      <4>1. \A s \in Seq(R) : g[s] = s
        OBVIOUS
      <4> HIDE DEF g
      <4> QED  BY <1>2, <4>1 DEF QuickStep
    <3>2. SortsUpTo(g, R, 0)
      <4> HIDE DEF g
      <4> QED  BY <3>1 DEF SortsUpTo
    <3> HIDE DEF g
    <3> QED  BY <2>1, <2>2, <3>2
  <2>3. CASE m # 0
    <3>1. m - 1 \in Nat /\ (m - 1) + 1 = m /\ ~ (m <= m - 1)
      BY <2>1, <2>3
    <3>2. PICK g : SortsUpTo(g, R, m - 1)
      BY <2>1, <3>1
    <3>3. \E h : SortsUpTo(h, R, (m - 1) + 1)
      BY <1>3, <3>1, <3>2
    <3> QED  BY <2>1, <3>1, <3>3
  <2> QED  BY <2>2, <2>3
<1> DEFINE At(n) == CHOOSE g : SortsUpTo(g, R, n)
<1>5. \A n \in Nat : SortsUpTo(At(n), R, n)
  BY <1>4
<1> HIDE DEF At
\* Two of them agree where both sort.
<1>6. ASSUME NEW m \in Nat, NEW n \in Nat, m <= n
      PROVE  \A s \in Seq(R) : Len(s) <= m => At(m)[s] = At(n)[s]
  <2> DEFINE W == {Len(s) : s \in {r \in Seq(R) : Len(r) <= m /\ At(m)[r] # At(n)[r]}}
  <2> SUFFICES ASSUME W # {} PROVE FALSE
    OBVIOUS
  <2>1. PICK k \in W : \A l \in W : k <= l
    <3>1. W \in SUBSET Nat
      BY <1>2
    <3> HIDE DEF W
    <3> QED  BY <3>1, LeastElement
  <2>2. PICK s \in Seq(R) : Len(s) <= m /\ At(m)[s] # At(n)[s] /\ k = Len(s)
    BY <2>1
  <2>3. \A r \in Seq(R) : Len(r) < Len(s) => At(m)[r] = At(n)[r]
    <3> SUFFICES ASSUME NEW r \in Seq(R), Len(r) < Len(s), At(m)[r] # At(n)[r] PROVE FALSE
      OBVIOUS
    <3>1. Len(r) \in Nat /\ Len(s) \in Nat
      BY <1>2
    <3>2. Len(r) \in W
      BY <2>2, <3>1
    <3> HIDE DEF W
    <3> QED  BY <2>1, <2>2, <3>1, <3>2
  <2>4. QuickStep(At(m), s) = QuickStep(At(n), s)
    BY <1>1, <2>3
  <2>5. Len(s) <= n
    BY <1>2, <1>6, <2>2
  <2>6. At(m)[s] = QuickStep(At(m), s) /\ At(n)[s] = QuickStep(At(n), s)
    BY <1>5, <2>2, <2>5 DEF SortsUpTo
  <2> QED  BY <2>2, <2>4, <2>6
<1> DEFINE h == [s \in Seq(R) |-> At(Len(s))[s]]
<1>7. ASSUME NEW s \in Seq(R) PROVE h[s] = QuickStep(h, s)
  <2>1. Len(s) \in Nat /\ Len(s) <= Len(s)
    BY <1>2
  <2>2. \A r \in Seq(R) : h[r] = At(Len(r))[r]
    OBVIOUS
  <2> HIDE DEF h
  <2>3. ASSUME NEW r \in Seq(R), Len(r) < Len(s) PROVE At(Len(s))[r] = h[r]
    <3>1. Len(r) \in Nat /\ Len(r) <= Len(s) /\ Len(r) <= Len(r)
      BY <1>2, <2>3
    <3>2. At(Len(r))[r] = At(Len(s))[r]
      BY <1>6, <2>1, <3>1
    <3> QED  BY <2>2, <3>2
  <2>4. QuickStep(At(Len(s)), s) = QuickStep(h, s)
    BY <1>1, <2>3
  <2>5. At(Len(s))[s] = QuickStep(At(Len(s)), s)
    BY <1>5, <2>1 DEF SortsUpTo
  <2> QED  BY <2>2, <2>4, <2>5
<1>8. h = [s \in Seq(R) |-> h[s]]
  OBVIOUS
<1>9. h = [s \in Seq(R) |-> QuickStep(h, s)]
  <2> HIDE DEF h
  <2> QED  BY <1>7, <1>8
<1> HIDE DEF h
<1> QED  BY <1>9

\* quick_sort_by_sales gives the drinks of its list in the order of descending
\* sales, and none twice that was not there twice (sort_search.py:22-32).
LEMMA QuickSortLists ==
  ASSUME NEW R, \A x \in R : x.sold \in Int, NEW drinks \in Seq(R), R = Range(drinks)
  PROVE  /\ Lists(quick_sort_by_sales(drinks), R)
         /\ Once(drinks) => Once(quick_sort_by_sales(drinks))
<1> DEFINE Is(g) == g = [s \in Seq(Range(drinks)) |-> QuickStep(g, s)]
           sorted == CHOOSE g : Is(g)
           Sorts(s) == Lists(sorted[s], Range(s)) /\ (Once(s) => Once(sorted[s]))
           W == {Len(s) : s \in {r \in Seq(R) : ~ Sorts(r)}}
<1>1. Is(sorted)
  <2>1. \E g : Is(g)
    BY SortsExist
  <2> HIDE DEF Is
  <2> QED  BY <2>1
<1>2. quick_sort_by_sales(drinks) = sorted[drinks]
  BY DEF quick_sort_by_sales, QuickStep, Left, Middle, Right, Pivot
<1>3. \A s \in Seq(R) : sorted[s] = QuickStep(sorted, s)
  <2> HIDE DEF sorted
  <2> QED  BY <1>1
<1>4. \A s \in Seq(R) : Len(s) \in Nat
  BY LenProperties
<1> HIDE DEF sorted, Is
<1>5. ASSUME NEW s \in Seq(R), \A r \in Seq(R) : Len(r) < Len(s) => Sorts(r)
      PROVE  Sorts(s)
  <2>1. CASE Len(s) <= 1
    <3>1. sorted[s] = s
      BY <1>3, <2>1 DEF QuickStep
    <3>2. DOMAIN s = 1 .. Len(s)
      BY LenProperties
    <3>3. s \in Seq(Range(s))
      <4>1. \A i \in 1 .. Len(s) : s[i] \in Range(s)
        BY <3>2 DEF Range
      <4> QED  BY <4>1, ListOfElements
    <3>4. Lists(s, Range(s))
      BY <1>4, <2>1, <3>2, <3>3 DEF Lists, Range
    <3> QED  BY <3>1, <3>4
  <2>2. CASE ~ (Len(s) <= 1)
    <3> DEFINE p == Pivot(s)
               A == {x \in Range(s) : x.sold > p}
               M == {x \in Range(s) : x.sold = p}
               B == {x \in Range(s) : x.sold < p}
               a == sorted[Left(s)]
               m == Middle(s)
               b == sorted[Right(s)]
    <3>1. Len(s) > 1
      BY <1>4, <2>2
    <3>2. /\ Left(s) \in Seq(R) /\ Len(Left(s)) < Len(s) /\ Range(Left(s)) = A
          /\ Right(s) \in Seq(R) /\ Len(Right(s)) < Len(s) /\ Range(Right(s)) = B
          /\ Lists(m, M)
          /\ Once(s) => Once(Left(s)) /\ Once(m) /\ Once(Right(s))
      BY <3>1, PartsFacts
    <3>3. /\ Lists(a, A) /\ (Once(s) => Once(a))
          /\ Lists(b, B) /\ (Once(s) => Once(b))
      <4>1. Sorts(Left(s)) /\ Sorts(Right(s))
        <5> HIDE DEF Sorts
        <5> QED  BY <1>5, <3>2
      <4> QED  BY <3>2, <4>1
    <3>4. sorted[s] = a \o m \o b
      BY <1>3, <2>2 DEF QuickStep
    <3>5. /\ \A x \in Range(s) : x.sold \in Int
          /\ p \in Int
      <4>1. Len(s) \div 2 + 1 \in 1 .. Len(s)
        BY <1>4, <3>1
      <4>2. \A i \in 1 .. Len(s) : s[i] \in R
        BY ElementOfSeq
      <4>3. DOMAIN s = 1 .. Len(s)
        BY LenProperties
      <4>4. \A x \in Range(s) : x \in R
        BY <4>2, <4>3 DEF Range
      <4> QED  BY <4>1, <4>2, <4>4 DEF Pivot
    <3>6. /\ \A x \in A, y \in M : x.sold >= y.sold
          /\ \A x \in A \cup M, y \in B : x.sold >= y.sold
          /\ A \cap M = {} /\ (A \cup M) \cap B = {}
          /\ A \cup M \cup B = Range(s)
      BY <3>5
    <3> HIDE DEF A, M, B, a, m, b, p
    <3>7. Lists(a \o m, A \cup M) /\ (Once(a) /\ Once(m) => Once(a \o m))
      BY <3>2, <3>3, <3>6, ListsConcat
    <3>8. /\ Lists((a \o m) \o b, A \cup M \cup B)
          /\ Once(a \o m) /\ Once(b) => Once((a \o m) \o b)
      BY <3>3, <3>6, <3>7, ListsConcat
    <3> QED  BY <3>2, <3>3, <3>4, <3>6, <3>7, <3>8
  <2> QED  BY <2>1, <2>2
<1>6. \A s \in Seq(R) : Sorts(s)
  <2> HIDE DEF Sorts
  <2> SUFFICES ASSUME W # {} PROVE FALSE
    OBVIOUS
  <2>1. PICK k \in W : \A l \in W : k <= l
    <3>1. W \in SUBSET Nat
      BY <1>4
    <3> HIDE DEF W
    <3> QED  BY <3>1, LeastElement
  <2>2. PICK s \in Seq(R) : ~ Sorts(s) /\ k = Len(s)
    BY <2>1
  <2>3. \A r \in Seq(R) : Len(r) < Len(s) => Sorts(r)
    <3> SUFFICES ASSUME NEW r \in Seq(R), Len(r) < Len(s), ~ Sorts(r) PROVE FALSE
      OBVIOUS
    <3>1. Len(r) \in Nat /\ Len(s) \in Nat /\ Len(r) \in W
      BY <1>4
    <3> HIDE DEF W
    <3> QED  BY <2>1, <2>2, <3>1
  <2> QED  BY <1>5, <2>2, <2>3
<1>7. Sorts(drinks)
  <2> HIDE DEF Sorts
  <2> QED  BY <1>6
<1> QED  BY <1>2, <1>7

-----------------------------------------------------------------------------
(* The table of the drinks. *)

Lines == [name : Names, sold : Nat, total : Nat]

\* Each row of a period counts for one.
OnesAt(rows) == [i \in rows |-> 1]

\* One more row leaves a list of lines one.
LEMMA CountedLines ==
  ASSUME NEW entries \in Seq(Lines), NEW row \in SaleRows
  PROVE  Counted(entries, row) \in Seq(Lines)
<1> DEFINE known == {i \in DOMAIN entries : entries[i].name = row.name}
<1>1. /\ Len(entries) \in Nat /\ DOMAIN entries = 1 .. Len(entries)
      /\ \A i \in DOMAIN entries : entries[i] \in Lines
  BY LenProperties, ElementOfSeq
<1>2. CASE known = {}
  <2>1. NewEntry(row) \in Lines
    BY DEF NewEntry, Lines, SaleRows
  <2> QED  BY <1>2, <2>1, AppendProperties DEF Counted
<1>3. CASE known # {}
  <2> DEFINE i == CHOOSE i \in known : TRUE
             e == [entries EXCEPT ![i].sold = @ + 1, ![i].total = @ + row.price]
             l == [entries[i] EXCEPT !.sold = @ + 1, !.total = @ + row.price]
  <2>1. i \in DOMAIN entries
    BY <1>3
  <2>2. Counted(entries, row) = e
    BY <1>3 DEF Counted
  <2> HIDE DEF i
  <2>3. l \in Lines
    <3>1. entries[i] \in Lines /\ row.price \in Nat
      BY <1>1, <2>1 DEF SaleRows
    <3>2. ASSUME NEW x \in Lines
          PROVE  [x EXCEPT !.sold = @ + 1, !.total = @ + row.price] \in Lines
      <4>1. x.sold + 1 \in Nat /\ x.total + row.price \in Nat /\ x.name \in Names
        BY <3>1, SMTT(30) DEF Lines
      <4>2. \A s \in Nat, t \in Nat : [x EXCEPT !.sold = s, !.total = t] \in Lines
        BY ZenonT(30) DEF Lines
      <4> QED  BY <4>1, <4>2
    <3> QED  BY <3>1, <3>2
  <2>4. e = [entries EXCEPT ![i] = l]
    BY <1>1, <2>1 DEF Lines
  <2> HIDE DEF e, l
  <2> QED  BY <1>1, <2>1, <2>2, <2>3, <2>4, ExceptSeq
<1> QED  BY <1>2, <1>3

\* The list after the first i rows of the log.
Fills(it, start, end) ==
  /\ it[0] = << >>
  /\ \A i \in 1 .. Len(sales_log) :
       it[i] = IF InPeriod(sales_log[i], start, end) THEN Counted(it[i - 1], sales_log[i])
               ELSE it[i - 1]

LEMMA ByDrinkFills ==
  ASSUME sales_log \in Seq(SaleRows), NEW start, NEW end
  PROVE  \E it : Fills(it, start, end) /\ ByDrink(start, end) = it[Len(sales_log)]
<1> DEFINE s == sales_log
           n == Len(s)
           X == Seq(Lines)
           Grow(r, row) == IF InPeriod(row, start, end) THEN Counted(r, row) ELSE r
           G == [p \in X \X (1 .. n) |-> Grow(p[1], s[p[2]])]
           Is(g) == g = [t \in SUBSET (DOMAIN s) |->
                           IF t = {} THEN << >> ELSE Grow(g[t \ {Max(t)}], s[Max(t)])]
           fold == CHOOSE g : Is(g)
           it == [i \in 0 .. n |-> fold[1 .. i]]
<1>1. n \in Nat /\ DOMAIN s = 1 .. n /\ \A i \in 1 .. n : s[i] \in SaleRows
  BY LenProperties, ElementOfSeq
<1>2. /\ \A t \in SUBSET (1 .. n) : t # {} => Max(t) \in t
      /\ \A i \in 1 .. n : Max(1 .. i) = i /\ (1 .. i) \ {i} = 1 .. i - 1
  <2> HIDE DEF n
  <2> QED  BY <1>1, MaxFacts
<1>3. ASSUME NEW r \in X, NEW i \in 1 .. n PROVE G[<<r, i>>] = Grow(r, s[i]) /\ Grow(r, s[i]) \in X
  <2>1. Counted(r, s[i]) \in X
    BY <1>1, CountedLines
  <2> QED  BY <2>1
<1>4. Is(fold)
  <2>1. << >> \in X /\ G \in [X \X (1 .. n) -> X]
    <3>1. << >> \in X
      OBVIOUS
    <3>2. \A p \in X \X (1 .. n) : p[1] \in X /\ p[2] \in 1 .. n /\ p = <<p[1], p[2]>>
      OBVIOUS
    <3> HIDE DEF X, Grow, n, s
    <3> QED  BY <1>3, <3>1, <3>2
  <2>2. PICK g \in [SUBSET (1 .. n) -> X] : LeftFolds(g, G, << >>, n)
    <3>1. n \in Nat
      BY <1>1
    <3> HIDE DEF X, G, n
    <3> QED  BY <2>1, <3>1, LeftFoldExists
  <2>3. ASSUME NEW t \in SUBSET (1 .. n)
        PROVE  g[t] = IF t = {} THEN << >> ELSE Grow(g[t \ {Max(t)}], s[Max(t)])
    <3>1. CASE t = {}
      <4> HIDE DEF Grow, G, s
      <4> QED  BY <2>2, <3>1 DEF LeftFolds
    <3>2. CASE t # {}
      <4>1. Max(t) \in 1 .. n /\ t \ {Max(t)} \in SUBSET (1 .. n)
        BY <1>2, <3>2
      <4>2. g[t \ {Max(t)}] \in X
        BY <2>2, <4>1
      <4> HIDE DEF Grow, G, X, n, s
      <4> QED  BY <1>3, <2>2, <3>2, <4>1, <4>2 DEF LeftFolds
    <3> QED  BY <3>1, <3>2
  <2>4. Is(g)
    <3>1. g = [t \in SUBSET (DOMAIN s) |-> g[t]]
      BY <1>1, <2>2
    <3> HIDE DEF Grow, X, s
    <3> QED  BY <1>1, <2>3, <3>1
  <2> HIDE DEF Is
  <2> QED  BY <2>4
<1>5. ByDrink(start, end) = fold[1 .. n]
  BY <1>1 DEF ByDrink, FoldLeft, MapThenFoldSet
<1>6. fold[{}] = << >> /\ \A i \in 1 .. n : fold[1 .. i] = Grow(fold[1 .. i - 1], s[i])
  <2>1. \A i \in 1 .. n : 1 .. i \in SUBSET (1 .. n) /\ 1 .. i # {} /\ Max(1 .. i) = i
                          /\ (1 .. i) \ {Max(1 .. i)} = 1 .. i - 1
    BY <1>1, <1>2
  <2> HIDE DEF fold, Grow
  <2> QED  BY <1>1, <1>4, <2>1
<1> HIDE DEF fold
<1>7. /\ 0 \in 0 .. n /\ n \in 0 .. n /\ 1 .. 0 = {}
      /\ \A i \in 1 .. n : i \in 0 .. n /\ i - 1 \in 0 .. n
  BY <1>1
<1>8. it[0] = << >> /\ it[n] = fold[1 .. n] /\ \A i \in 1 .. n : it[i] = Grow(it[i - 1], s[i])
  <2>1. \A i \in 0 .. n : it[i] = fold[1 .. i]
    OBVIOUS
  <2> HIDE DEF it, Grow, n, s
  <2> QED  BY <1>6, <1>7, <2>1
<1> HIDE DEF it
<1> QED  BY <1>5, <1>8 DEF Fills

\* The rows of a period among the first n.
RowsUpTo(start, end, n) == {i \in PeriodRows(sales_log, start, end) : i <= n}

\* The places of the rows with name d in a set.
SalesOf(S, d) == {i \in S : sales_log[i].name = d}

\* The list has one line for each name in the rows of S; the line counts the
\* rows with its name and adds up their prices.
Tallies(e, S) ==
  /\ e \in Seq(Lines)
  /\ \A j, k \in 1 .. Len(e) : e[j].name = e[k].name => j = k
  /\ \A i \in S : \E k \in 1 .. Len(e) : e[k].name = sales_log[i].name
  /\ \A k \in 1 .. Len(e) :
       /\ e[k].sold = SumFunctionOnSet(OnesAt(DOMAIN sales_log), SalesOf(S, e[k].name))
       /\ e[k].total = SumFunctionOnSet(PricesAt(sales_log, DOMAIN sales_log),
                                        SalesOf(S, e[k].name))

LEMMA SumOfOneMore ==
  ASSUME NEW f, NEW S, IsFiniteSet(S), NEW x, x \notin S, \A y \in S \cup {x} : f[y] \in Nat
  PROVE  SumFunctionOnSet(f, S \cup {x}) = SumFunctionOnSet(f, S) + f[x]
<1>1. IsFiniteSet(S \cup {x})
  BY FS_AddElement
<1>2. SumFunctionOnSet(f, S \cup {x}) = f[x] + SumFunctionOnSet(f, (S \cup {x}) \ {x})
  BY <1>1, SumOnSetFacts
<1>3. (S \cup {x}) \ {x} = S
  OBVIOUS
<1>4. SumFunctionOnSet(f, S) \in Nat /\ f[x] \in Nat
  BY SumOnSetFacts
<1> QED  BY <1>2, <1>3, <1>4

\* A row that is counted goes into the line of its name.
LEMMA CountedTallies ==
  ASSUME sales_log \in Seq(SaleRows), NEW S \in SUBSET (DOMAIN sales_log),
         NEW i \in DOMAIN sales_log, i \notin S, NEW e, Tallies(e, S)
  PROVE  Tallies(Counted(e, sales_log[i]), S \cup {i})
<1> DEFINE row == sales_log[i]
           d == row.name
           T == S \cup {i}
           ones == OnesAt(DOMAIN sales_log)
           prices == PricesAt(sales_log, DOMAIN sales_log)
           n == Len(e)
           c == Counted(e, row)
           known == {k \in DOMAIN e : e[k].name = d}
<1>1. /\ row \in SaleRows /\ row.price \in Nat /\ ones[i] = 1 /\ prices[i] = row.price
      /\ \A j \in DOMAIN sales_log : ones[j] \in Nat /\ prices[j] \in Nat
  <2>1. \A j \in DOMAIN sales_log : sales_log[j] \in SaleRows
    OBVIOUS
  <2> QED  BY <2>1 DEF SaleRows, OnesAt, PricesAt
<1>2. /\ e \in Seq(Lines) /\ n \in Nat /\ DOMAIN e = 1 .. n
      /\ \A k \in 1 .. n : e[k] \in Lines
  BY LenProperties, ElementOfSeq DEF Tallies
<1>3. c \in Seq(Lines)
  BY <1>1, <1>2, CountedLines
<1>4. \A x : IsFiniteSet(SalesOf(S, x)) /\ SalesOf(S, x) \in SUBSET (DOMAIN sales_log)
             /\ i \notin SalesOf(S, x)
  <2>1. IsFiniteSet(S)
    <3>1. IsFiniteSet(1 .. Len(sales_log)) /\ DOMAIN sales_log = 1 .. Len(sales_log)
      BY FS_Interval
    <3> QED  BY <3>1, FS_Subset
  <2>2. \A x : SalesOf(S, x) \in SUBSET S
    BY DEF SalesOf
  <2> QED  BY <2>1, <2>2, FS_Subset
<1>5. /\ SalesOf(T, d) = SalesOf(S, d) \cup {i}
      /\ \A x : x # d => SalesOf(T, x) = SalesOf(S, x)
  BY DEF SalesOf
<1>6. /\ \A j, k \in 1 .. n : e[j].name = e[k].name => j = k
      /\ \A j \in S : \E k \in 1 .. n : e[k].name = sales_log[j].name
      /\ \A k \in 1 .. n : /\ e[k].sold = SumFunctionOnSet(ones, SalesOf(S, e[k].name))
                           /\ e[k].total = SumFunctionOnSet(prices, SalesOf(S, e[k].name))
  BY DEF Tallies
<1> HIDE DEF ones, prices, c, T, row
<1>7. /\ SumFunctionOnSet(ones, SalesOf(T, d)) = SumFunctionOnSet(ones, SalesOf(S, d)) + 1
      /\ SumFunctionOnSet(prices, SalesOf(T, d)) = SumFunctionOnSet(prices, SalesOf(S, d)) + row.price
  <2> DEFINE Q == SalesOf(S, d)
  <2>1. IsFiniteSet(Q) /\ i \notin Q /\ \A y \in Q \cup {i} : ones[y] \in Nat /\ prices[y] \in Nat
    BY <1>1, <1>4
  <2> HIDE DEF Q
  <2>2. /\ SumFunctionOnSet(ones, Q \cup {i}) = SumFunctionOnSet(ones, Q) + ones[i]
        /\ SumFunctionOnSet(prices, Q \cup {i}) = SumFunctionOnSet(prices, Q) + prices[i]
    BY <2>1, SumOfOneMore
  <2> QED  BY <1>1, <1>5, <2>2 DEF Q
<1>8. \A j \in T : j \in S \/ sales_log[j].name = d
  BY DEF T, row
<1>9. CASE known = {}
  <2>1. c = Append(e, NewEntry(row))
    BY <1>9 DEF Counted, c
  <2>2. /\ Len(c) = n + 1 /\ c[n + 1] = NewEntry(row)
        /\ \A k \in 1 .. n : c[k] = e[k] /\ e[k].name # d
    <3>1. NewEntry(row) \in Lines
      BY <1>1 DEF NewEntry, Lines, SaleRows
    <3> QED  BY <1>2, <1>9, <2>1, <3>1, AppendProperties
  <2>3. c[n + 1].name = d /\ c[n + 1].sold = 1 /\ c[n + 1].total = row.price
    BY <2>2 DEF NewEntry
  <2>4. SalesOf(S, d) = {}
    BY <1>6, <1>9, <1>2 DEF SalesOf
  <2>5. SumFunctionOnSet(ones, SalesOf(S, d)) = 0 /\ SumFunctionOnSet(prices, SalesOf(S, d)) = 0
    <3> DEFINE Q == SalesOf(S, d)
    <3>1. IsFiniteSet(Q) /\ Q = {} /\ \A y \in Q : ones[y] \in Nat /\ prices[y] \in Nat
      BY <1>4, <2>4
    <3> HIDE DEF Q
    <3>2. SumFunctionOnSet(ones, Q) = 0 /\ SumFunctionOnSet(prices, Q) = 0
      BY <3>1, SumOnSetFacts
    <3> QED  BY <3>2 DEF Q
  <2>6. \A k \in 1 .. Len(c) : k = n + 1 \/ k \in 1 .. n
    BY <1>2, <2>2
  <2>7. \A j, k \in 1 .. Len(c) : c[j].name = c[k].name => j = k
    BY <1>6, <2>2, <2>3, <2>6
  <2>8. \A j \in T : \E k \in 1 .. Len(c) : c[k].name = sales_log[j].name
    <3>1. n + 1 \in 1 .. Len(c) /\ \A k \in 1 .. n : k \in 1 .. Len(c)
      BY <1>2, <2>2
    <3> QED  BY <1>6, <1>8, <2>2, <2>3, <3>1
  <2>9. ASSUME NEW k \in 1 .. Len(c)
        PROVE  /\ c[k].sold = SumFunctionOnSet(ones, SalesOf(T, c[k].name))
               /\ c[k].total = SumFunctionOnSet(prices, SalesOf(T, c[k].name))
    <3>1. CASE k = n + 1
      BY <1>1, <1>7, <2>3, <2>5, <3>1
    <3>2. CASE k \in 1 .. n
      BY <1>5, <1>6, <2>2, <3>2
    <3> QED  BY <2>6, <3>1, <3>2
  <2> QED  BY <1>3, <2>7, <2>8, <2>9 DEF Tallies, ones, prices, c, T, row
<1>10. CASE known # {}
  <2> DEFINE m == CHOOSE k \in known : TRUE
  <2>1. m \in 1 .. n /\ e[m].name = d
    BY <1>2, <1>10
  <2>2. c = [e EXCEPT ![m].sold = @ + 1, ![m].total = @ + row.price]
    BY <1>10 DEF Counted, c
  <2> HIDE DEF m, known
  <2>3. /\ Len(c) = n
        /\ \A k \in 1 .. n : /\ c[k].name = e[k].name
                             /\ c[k].sold = IF k = m THEN e[k].sold + 1 ELSE e[k].sold
                             /\ c[k].total = IF k = m THEN e[k].total + row.price ELSE e[k].total
    <3> DEFINE l == [e[m] EXCEPT !.sold = @ + 1, !.total = @ + row.price]
    <3>1. c = [e EXCEPT ![m] = l]
      BY <1>2, <2>1, <2>2 DEF Lines
    <3>2. l.name = e[m].name /\ l.sold = e[m].sold + 1 /\ l.total = e[m].total + row.price
      BY <1>2, <2>1 DEF Lines
    <3>3. DOMAIN c = 1 .. n /\ c[m] = l /\ \A k \in 1 .. n : k # m => c[k] = e[k]
      <4> HIDE DEF l
      <4> QED  BY <1>2, <2>1, <3>1
    <3>4. Len(c) = n
      BY <1>2, <1>3, <3>3, LenProperties
    <3> HIDE DEF l
    <3> QED  BY <3>2, <3>3, <3>4
  <2>4. ASSUME NEW k \in 1 .. n
        PROVE  /\ c[k].sold = SumFunctionOnSet(ones, SalesOf(T, c[k].name))
               /\ c[k].total = SumFunctionOnSet(prices, SalesOf(T, c[k].name))
    <3>1. CASE k = m
      BY <1>6, <1>7, <2>1, <2>3, <3>1
    <3>2. CASE k # m
      <4>1. e[k].name # d
        BY <1>6, <2>1, <3>2
      <4> QED  BY <1>5, <1>6, <2>3, <3>2, <4>1
    <3> QED  BY <3>1, <3>2
  <2>5. \A j \in T : \E k \in 1 .. n : c[k].name = sales_log[j].name
    BY <1>6, <1>8, <2>1, <2>3
  <2> QED  BY <1>3, <1>6, <2>3, <2>4, <2>5 DEF Tallies, ones, prices, c, T, row
<1> QED  BY <1>9, <1>10

\* The list of a period.
LEMMA ByDrinkTallies ==
  ASSUME sales_log \in Seq(SaleRows), NEW start, NEW end
  PROVE  Tallies(ByDrink(start, end), PeriodRows(sales_log, start, end))
<1> DEFINE n == Len(sales_log)
           Upto(i) == RowsUpTo(start, end, i)
<1>1. n \in Nat /\ DOMAIN sales_log = 1 .. n
  BY LenProperties
<1>2. PICK it : Fills(it, start, end) /\ ByDrink(start, end) = it[n]
  BY ByDrinkFills
<1> DEFINE P == {i \in 0 .. n : Tallies(it[i], Upto(i))}
<1>3. 0 \in P
  <2>1. Upto(0) = {}
    BY <1>1 DEF RowsUpTo, PeriodRows
  <2>2. it[0] = << >>
    BY <1>2 DEF Fills
  <2>3. << >> \in Seq(Lines) /\ Len(<< >>) = 0
    OBVIOUS
  <2>4. Tallies(it[0], {})
    BY <2>2, <2>3 DEF Tallies
  <2>5. Tallies(it[0], Upto(0))
    <3> HIDE DEF Upto
    <3> QED  BY <2>1, <2>4
  <2>6. 0 \in 0 .. n
    BY <1>1
  <2> HIDE DEF Upto, n
  <2> QED  BY <2>5, <2>6
<1>4. ASSUME NEW i \in 1 .. n, i - 1 \in P PROVE i \in P
  <2>1. Tallies(it[i - 1], Upto(i - 1)) /\ i \in 0 .. n /\ i \in DOMAIN sales_log
    BY <1>1, <1>4
  <2>2. Upto(i - 1) \in SUBSET (DOMAIN sales_log) /\ i \notin Upto(i - 1)
    BY <1>1 DEF RowsUpTo, PeriodRows
  <2>3. CASE InPeriod(sales_log[i], start, end)
    <3>1. Upto(i) = Upto(i - 1) \cup {i}
      BY <1>1, <2>1, <2>3 DEF RowsUpTo, PeriodRows
    <3>2. it[i] = Counted(it[i - 1], sales_log[i])
      BY <1>2, <2>3 DEF Fills
    <3>3. Tallies(it[i], Upto(i - 1) \cup {i})
      <4> HIDE DEF Upto
      <4> QED  BY <2>1, <2>2, <3>2, CountedTallies
    <3> QED  BY <2>1, <3>1, <3>3
  <2>4. CASE ~InPeriod(sales_log[i], start, end)
    <3>1. Upto(i) = Upto(i - 1)
      BY <1>1, <2>1, <2>4 DEF RowsUpTo, PeriodRows
    <3>2. it[i] = it[i - 1]
      BY <1>2, <2>4 DEF Fills
    <3> QED  BY <2>1, <3>1, <3>2
  <2> QED  BY <2>3, <2>4
<1>5. n \in P
  <2> HIDE DEF P, n
  <2>1. n \in 0 .. n
    BY <1>1
  <2> QED  BY <1>1, <1>3, <1>4, <2>1, PrefixInduction
<1>6. Upto(n) = PeriodRows(sales_log, start, end)
  BY <1>1 DEF RowsUpTo, PeriodRows
<1> QED  BY <1>2, <1>5, <1>6

\* The lines of the table are those of the list, sorted.
LEMMA TableTallies ==
  ASSUME sales_log \in Seq(SaleRows), NEW start, NEW end
  PROVE  LET table == DrinkTable(start, end) IN
           /\ Tallies(table, PeriodRows(sales_log, start, end))
           /\ \A i, j \in 1 .. Len(table) : i < j => table[i].sold >= table[j].sold
<1> DEFINE e == ByDrink(start, end)
           R == Range(e)
           table == DrinkTable(start, end)
           S == PeriodRows(sales_log, start, end)
<1>1. Tallies(e, S)
  BY ByDrinkTallies
<1> HIDE DEF e, S
<1>2. /\ e \in Seq(Lines) /\ Len(e) \in Nat /\ DOMAIN e = 1 .. Len(e)
      /\ \A k \in 1 .. Len(e) : e[k] \in Lines /\ e[k] \in R
  <2>1. e \in Seq(Lines) /\ Len(e) \in Nat /\ DOMAIN e = 1 .. Len(e)
    BY <1>1, LenProperties DEF Tallies
  <2>2. \A k \in 1 .. Len(e) : e[k] \in Lines
    BY <2>1, ElementOfSeq
  <2>3. \A k \in 1 .. Len(e) : e[k] \in R
    BY <2>1 DEF Range
  <2> QED  BY <2>1, <2>2, <2>3
<1>3. \A x \in R : x \in Lines /\ x.sold \in Int /\ \E k \in 1 .. Len(e) : e[k] = x
  <2>1. \A x \in R : x \in Lines /\ \E k \in 1 .. Len(e) : e[k] = x
    BY <1>2 DEF Range
  <2> QED  BY <2>1 DEF Lines
<1>4. e \in Seq(R) /\ R = Range(e)
  BY <1>2, ListOfElements
<1>5. Once(e)
  BY <1>1 DEF Tallies, Once
<1> HIDE DEF R
<1>6. Lists(table, R) /\ Once(table)
  <2>1. /\ Lists(quick_sort_by_sales(e), R)
        /\ Once(e) => Once(quick_sort_by_sales(e))
    BY <1>3, <1>4, QuickSortLists
  <2> QED  BY <1>5, <2>1 DEF DrinkTable, e
<1> HIDE DEF table
<1>7. /\ table \in Seq(Lines) /\ Len(table) \in Nat
      /\ \A j \in 1 .. Len(table) : table[j] \in R
  <2>1. table \in Seq(R)
    BY <1>6 DEF Lists
  <2>2. Len(table) \in Nat /\ \A j \in 1 .. Len(table) : table[j] \in R
    BY <2>1, LenProperties, ElementOfSeq
  <2>3. \A j \in 1 .. Len(table) : table[j] \in Lines
    BY <1>3, <2>2
  <2> QED  BY <2>1, <2>2, <2>3, ListOfElements
<1>8. \A j, k \in 1 .. Len(table) : table[j].name = table[k].name => j = k
  <2> SUFFICES ASSUME NEW j \in 1 .. Len(table), NEW k \in 1 .. Len(table),
                      table[j].name = table[k].name
               PROVE  j = k
    OBVIOUS
  <2>1. PICK p \in 1 .. Len(e) : e[p] = table[j]
    BY <1>3, <1>7
  <2>2. PICK q \in 1 .. Len(e) : e[q] = table[k]
    BY <1>3, <1>7
  <2>3. p = q
    BY <1>1, <2>1, <2>2 DEF Tallies
  <2> QED  BY <1>6, <2>1, <2>2, <2>3 DEF Once
<1>9. \A i \in S : \E k \in 1 .. Len(table) : table[k].name = sales_log[i].name
  <2> SUFFICES ASSUME NEW i \in S
               PROVE  \E k \in 1 .. Len(table) : table[k].name = sales_log[i].name
    OBVIOUS
  <2>1. PICK p \in 1 .. Len(e) : e[p].name = sales_log[i].name
    BY <1>1 DEF Tallies
  <2>2. PICK k \in 1 .. Len(table) : table[k] = e[p]
    BY <1>2, <1>6 DEF Lists
  <2> QED  BY <2>1, <2>2
<1>10. ASSUME NEW k \in 1 .. Len(table)
       PROVE  LET d == table[k].name IN
                /\ table[k].sold = SumFunctionOnSet(OnesAt(DOMAIN sales_log), SalesOf(S, d))
                /\ table[k].total = SumFunctionOnSet(PricesAt(sales_log, DOMAIN sales_log),
                                                     SalesOf(S, d))
  <2>1. PICK p \in 1 .. Len(e) : e[p] = table[k]
    BY <1>3, <1>7
  <2> QED  BY <1>1, <2>1 DEF Tallies
<1>11. \A i, j \in 1 .. Len(table) : i < j => table[i].sold >= table[j].sold
  BY <1>6 DEF Lists
<1>12. Tallies(table, S)
  BY <1>7, <1>8, <1>9, <1>10 DEF Tallies
<1> QED  BY <1>11, <1>12 DEF table, S

\* The lines add up to the rows they were made of.
LEMMA LinesAddUp ==
  ASSUME sales_log \in Seq(SaleRows), NEW S \in SUBSET (DOMAIN sales_log),
         NEW e, Tallies(e, S)
  PROVE  /\ SumFunction([k \in DOMAIN e |-> e[k].sold])
              = SumFunctionOnSet(OnesAt(DOMAIN sales_log), S)
         /\ SumFunction([k \in DOMAIN e |-> e[k].total])
              = SumFunctionOnSet(PricesAt(sales_log, DOMAIN sales_log), S)
<1> DEFINE D == DOMAIN e
           ones == OnesAt(DOMAIN sales_log)
           prices == PricesAt(sales_log, DOMAIN sales_log)
           key == [i \in S |-> CHOOSE k \in D : e[k].name = sales_log[i].name]
           sold == [k \in D |-> e[k].sold]
           total == [k \in D |-> e[k].total]
<1>1. D = 1 .. Len(e) /\ IsFiniteSet(D)
  <2>1. DOMAIN e = 1 .. Len(e) /\ Len(e) \in Nat
    BY LenProperties DEF Tallies
  <2> QED  BY <2>1, FS_Interval
<1>2. IsFiniteSet(S)
  <2>1. IsFiniteSet(1 .. Len(sales_log)) /\ DOMAIN sales_log = 1 .. Len(sales_log)
    BY FS_Interval
  <2> QED  BY <2>1, FS_Subset
<1>3. \A x \in S : ones[x] \in Nat /\ prices[x] \in Nat
  <2>1. \A j \in DOMAIN sales_log : sales_log[j] \in SaleRows
    OBVIOUS
  <2> QED  BY <2>1 DEF SaleRows, OnesAt, PricesAt
<1>4. \A i \in S : key[i] \in D /\ e[key[i]].name = sales_log[i].name
  BY <1>1 DEF Tallies
<1> HIDE DEF D, key
<1>5. ASSUME NEW k \in D PROVE Part(S, key, {k}) = SalesOf(S, e[k].name)
  <2>1. \A i \in S : key[i] = k <=> sales_log[i].name = e[k].name
    BY <1>1, <1>4 DEF Tallies
  <2> QED  BY <2>1 DEF Part, SalesOf
<1>6. \A k \in D : /\ sold[k] = SumFunctionOnSet(ones, Part(S, key, {k}))
                   /\ total[k] = SumFunctionOnSet(prices, Part(S, key, {k}))
  BY <1>1, <1>5 DEF Tallies
<1>7. Part(S, key, D) = S
  BY <1>4 DEF Part
<1>8. DOMAIN sold = D /\ DOMAIN total = D
  OBVIOUS
<1> HIDE DEF sold, total, ones, prices
<1>9. SumsParts(sold, ones, key, S, D) /\ SumsParts(total, prices, key, S, D)
  BY <1>1, <1>2, <1>3, <1>6 DEF SumsParts
<1>10. /\ SumFunctionOnSet(sold, D) = SumFunctionOnSet(ones, S)
       /\ SumFunctionOnSet(total, D) = SumFunctionOnSet(prices, S)
  BY <1>7, <1>9, SumOnSetParts
<1> QED  BY <1>8, <1>10 DEF SumFunction, sold, total, ones, prices, D

\* As many ones as there are places.
LEMMA OnesCount ==
  ASSUME NEW S, IsFiniteSet(S), NEW f, \A x \in S : f[x] = 1
  PROVE  SumFunctionOnSet(f, S) = Cardinality(S)
<1> DEFINE P == {T \in SUBSET S : SumFunctionOnSet(f, T) = Cardinality(T)}
<1>1. ASSUME NEW T \in SUBSET S, \A U \in SUBSET T : U # T => U \in P PROVE T \in P
  <2>1. IsFiniteSet(T) /\ \A x \in T : f[x] \in Nat
    BY FS_Subset
  <2>2. /\ T = {} => SumFunctionOnSet(f, T) = 0
        /\ \A x \in T : SumFunctionOnSet(f, T) = f[x] + SumFunctionOnSet(f, T \ {x})
    BY <2>1, SumOnSetFacts
  <2>3. CASE T = {}
    BY <2>2, <2>3, FS_EmptySet
  <2>4. CASE T # {}
    <3>1. PICK x \in T : TRUE
      BY <2>4
    <3>2. f[x] = 1 /\ SumFunctionOnSet(f, T \ {x}) = Cardinality(T \ {x})
      BY <1>1, <3>1
    <3>3. Cardinality(T \ {x}) = Cardinality(T) - 1 /\ Cardinality(T) \in Nat
      BY <2>1, <3>1, FS_RemoveElement, FS_CardinalityType
    <3> QED  BY <2>2, <3>2, <3>3
  <2> QED  BY <2>3, <2>4
<1>2. P \in SUBSET (SUBSET S) /\ S \in SUBSET S
  OBVIOUS
<1>3. S \in P
  <2> HIDE DEF P
  <2> QED  BY <1>1, <1>2, SubsetInduction
<1> QED  BY <1>3

(***************************************************************************)
(* The table of the drinks has one line for each name they had, those that *)
(* sold best first, and its lines account for each row of the period and   *)
(* for the total that can be collected (admin_window.py:66-71, 412-423).   *)
(***************************************************************************)
THEOREM DrinksAddUp == Spec => []DrinksAgree
<1>1. TypeInv => DrinksAgree
  <2> SUFFICES ASSUME TypeInv, NEW start \in Dates, NEW end \in Dates
               PROVE  LET table == DrinkTable(start, end) IN
                 /\ SumFunction([i \in DOMAIN table |-> table[i].total]) = Total(start, end)
                 /\ SumFunction([i \in DOMAIN table |-> table[i].sold])
                      = Cardinality(PeriodRows(sales_log, start, end))
                 /\ \A i, j \in DOMAIN table :
                      i < j => table[i].name # table[j].name /\ table[i].sold >= table[j].sold
    BY DEF DrinksAgree
  <2> DEFINE table == DrinkTable(start, end)
             S == PeriodRows(sales_log, start, end)
             ones == OnesAt(DOMAIN sales_log)
             prices == PricesAt(sales_log, DOMAIN sales_log)
  <2>1. sales_log \in Seq(SaleRows)
    BY DEF TypeInv, OfficeTypeOK
  <2>2. S \in SUBSET (DOMAIN sales_log) /\ IsFiniteSet(S)
    <3>1. IsFiniteSet(1 .. Len(sales_log)) /\ DOMAIN sales_log = 1 .. Len(sales_log)
      BY <2>1, FS_Interval
    <3>2. S \in SUBSET (DOMAIN sales_log)
      BY DEF PeriodRows
    <3> QED  BY <3>1, <3>2, FS_Subset
  <2>3. /\ Tallies(table, S)
        /\ \A i, j \in 1 .. Len(table) : i < j => table[i].sold >= table[j].sold
    BY <2>1, TableTallies
  <2>4. Total(start, end) = SumFunctionOnSet(PricesAt(sales_log, S), S)
    BY <2>1, DailyIsSum DEF Total
  <2>5. \A i \in S : /\ ones[i] = 1
                     /\ PricesAt(sales_log, S)[i] \in Nat /\ PricesAt(sales_log, S)[i] = prices[i]
    <3>1. \A i \in S : sales_log[i] \in SaleRows
      BY <2>1, <2>2
    <3> QED  BY <2>2, <3>1 DEF SaleRows, OnesAt, PricesAt
  <2> HIDE DEF table, S, ones, prices
  <2>6. SumFunctionOnSet(PricesAt(sales_log, S), S) = SumFunctionOnSet(prices, S)
    BY <2>2, <2>5, SumOnSetAgrees
  <2>7. SumFunctionOnSet(ones, S) = Cardinality(S)
    BY <2>2, <2>5, OnesCount
  <2>8. /\ SumFunction([k \in DOMAIN table |-> table[k].sold]) = SumFunctionOnSet(ones, S)
        /\ SumFunction([k \in DOMAIN table |-> table[k].total]) = SumFunctionOnSet(prices, S)
    BY <2>1, <2>2, <2>3, LinesAddUp DEF ones, prices
  <2>9. \A i, j \in DOMAIN table :
          i < j => table[i].name # table[j].name /\ table[i].sold >= table[j].sold
    <3>1. DOMAIN table = 1 .. Len(table)
      BY <2>3, LenProperties DEF Tallies
    <3>2. \A i, j \in 1 .. Len(table) : i < j => i # j
      BY <2>3, LenProperties DEF Tallies
    <3> QED  BY <2>3, <3>1, <3>2 DEF Tallies
  <2> QED  BY <2>4, <2>6, <2>7, <2>8, <2>9 DEF table, S
<1> QED  BY <1>1, TypeInvAlways, PTL

=============================================================================
