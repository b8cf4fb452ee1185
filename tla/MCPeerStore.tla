---------------------------- MODULE MCPeerStore -----------------------------
(* TLC instance of PeerStore.                                               *)
EXTENDS PeerStore

CONSTANTS d1, d2

MCPrice == [n \in {d1, d2} |-> IF n = d1 THEN 450 ELSE 700]

\* The last day of a month and of a year, and the first of the next.
Dec31 == 20251231
Jan1  == 20260101
Jan31 == 20260131
MCDates == {Dec31, Jan1, Jan31}

MCDays == <<Dec31, Jan1>>

Sale(date, drink) == [date |-> date, drink |-> drink]

\* Dates that come in order, dates that do not, and two drinks on one day.
MCFeeds == {
  <<Sale(Dec31, d1), Sale(Jan1, d1)>>,
  <<Sale(Jan31, d1), Sale(Jan1, d2)>>,
  <<Sale(Jan1, d1), Sale(Jan1, d2)>>}

-----------------------------------------------------------------------------
(* The sorts and searches on all small inputs. *)

Lists(S) == UNION {[1 .. n -> S] : n \in 0 .. 4}

IsPermutation(s, t) ==
  /\ Len(s) = Len(t)
  /\ \A i \in DOMAIN s :
       Len(SelectSeq(s, LAMBDA x : x = s[i])) = Len(SelectSeq(t, LAMBDA x : x = s[i]))

\* quick_sort_by_sales puts its argument in the order of descending sales, and
\* leaves drinks of equal sales in their order (sort_search.py:22-32).
ASSUME QuickSortSorts ==
  \A s \in Lists([sold : 0 .. 2, drink : {1, 2}]) :
    LET t == quick_sort_by_sales(s) IN
      /\ IsPermutation(s, t)
      /\ \A i, j \in DOMAIN t : i < j => t[i].sold >= t[j].sold
      /\ \A n \in 0 .. 2 :
           SelectSeq(s, LAMBDA x : x.sold = n) = SelectSeq(t, LAMBDA x : x.sold = n)

\* selection_sort_by_price puts its argument in the order of ascending prices
\* (sort_search.py:9-19).
ASSUME SelectionSortSorts ==
  \A s \in Lists([price : 1 .. 3, drink : {1, 2}]) :
    LET t == selection_sort_by_price(s) IN
      IsPermutation(s, t) /\ \A i, j \in DOMAIN t : i < j => t[i].price <= t[j].price

\* A tree filled in any order lists its dates in ascending order with the sum
\* of their sales, and its searches and range queries find what a search of
\* the list finds (sales_tree.py:29-91, sort_search.py:47-58).
ASSUME TreeContract ==
  \A s \in Lists(1 .. 4) :
    LET t == FoldLeft(LAMBDA grown, d : insert(grown, d, 10 + d), EmptyTree, s)
        nodes == inorder(t)
        times(d) == Len(SelectSeq(s, LAMBDA x : x = d))
    IN  /\ \A i, j \in DOMAIN nodes : i < j => nodes[i] < nodes[j]
        /\ \A d \in 0 .. 5 :
             LET place == binary_search_sales(nodes, d) IN
               IF times(d) = 0 THEN place = 0 /\ search(t, d) = None
               ELSE /\ search(t, d) = d /\ nodes[place] = d
                    /\ t.nodes[d].sales = times(d) * (10 + d)
        /\ \A a, b \in 0 .. 5 :
             range_query(t, a, b) = SelectSeq(nodes, LAMBDA x : a <= x /\ x <= b)

=============================================================================
