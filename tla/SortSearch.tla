----------------------------- MODULE SortSearch -----------------------------
(***************************************************************************)
(* src/client/core/sort_search.py.  Sequences are numbered from 1 here,    *)
(* lists from 0 there.  linear_search, which follows the links of the      *)
(* inventory to the node of a drink, is application of a function here.    *)
(***************************************************************************)
EXTENDS Integers, SequencesExt

Swap(s, i, j) == [s EXCEPT ![i] = s[j], ![j] = s[i]]

\* The first of the cheapest from i on.
MinIdx(arr, i) ==
  CHOOSE m \in i .. Len(arr) :
    /\ \A j \in i .. Len(arr) : arr[m].price <= arr[j].price
    /\ \A j \in i .. m - 1 : arr[m].price < arr[j].price

selection_sort_by_price(drinks) ==
  FoldLeft(LAMBDA arr, i : Swap(arr, i, MinIdx(arr, i)),
           drinks, [i \in 1 .. Len(drinks) |-> i])

\* The elements at some of the places, in their order.
Those(s, places) ==
  FoldLeftDomain(LAMBDA r, i : IF i \in places THEN Append(r, s[i]) ELSE r, << >>, s)

quick_sort_by_sales(drinks) ==
  LET sorted[s \in Seq(Range(drinks))] ==
        IF Len(s) <= 1 THEN s
        ELSE LET pivot == s[Len(s) \div 2 + 1].sold
             IN  sorted[Those(s, {i \in DOMAIN s : s[i].sold > pivot})]
                 \o Those(s, {i \in DOMAIN s : s[i].sold = pivot})
                 \o sorted[Those(s, {i \in DOMAIN s : s[i].sold < pivot})]
  IN  sorted[drinks]

\* The place of the date, 0 if it is not there; lo .. hi are still to be
\* looked at.
binary_search_sales(dates, date) ==
  LET between[part \in (1 .. Len(dates) + 1) \X (0 .. Len(dates))] ==
        LET lo  == part[1]
            hi  == part[2]
            mid == (lo + hi) \div 2
        IN  IF lo > hi THEN 0
            ELSE IF dates[mid] = date THEN mid
            ELSE IF dates[mid] < date THEN between[<<mid + 1, hi>>]
            ELSE between[<<lo, mid - 1>>]
  IN  between[<<1, Len(dates)>>]

=============================================================================
