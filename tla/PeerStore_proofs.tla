--------------------------- MODULE PeerStore_proofs ---------------------------
(***************************************************************************)
(* The peer's store, for any number of items, connections and drinks, any  *)
(* dates and any failures of the network: what its queries return is what  *)
(* was recorded, and what the page shows lies between what was recorded    *)
(* when it asked and when it was answered.                                 *)
(*                                                                         *)
(* The store's steps are steps of ServerSync or leave its variables alone, *)
(* so what is proved of ServerSync holds here too.                         *)
(***************************************************************************)
EXTENDS PeerStore, ServerSync_proofs, SalesTree_proofs

\* The items of a day, and those of one drink.
OnDay(f, d) == {k \in Items : f[k].date = d}
Sold(f, d, n) == {k \in Items : f[k].date = d /\ f[k].drink = n}

\* What the items brought in when each was recorded so many times.
Paid(f, times) == [k \in Items |-> times[k] * Price[f[k].drink]]

\* The sale being added is one of drink n on date d.
InHand(d, n) == feed[held[lock]].date = d /\ feed[held[lock]].drink = n

\* The lock is held by a handler that is about to update the snapshot, and has
\* counted its item as recorded.
LockInv ==
  /\ lock \in 0 .. MaxConns
  /\ adding \in {"nothing", "count", "amount"}
  /\ (lock = 0) <=> (adding = "nothing")
  /\ lock # 0 => at[lock] = "update" /\ held[lock] \in Items /\ recorded[held[lock]] > 0

\* The tree has the dates of the items recorded, and their totals.
TreeInv ==
  /\ \E lo, hi : IsBST(tree, lo, hi)
  /\ Keys(tree) = {feed[k].date : k \in {b \in Items : recorded[b] > 0}}
  /\ \A d \in Keys(tree) :
       tree.nodes[d].sales = SumFunctionOnSet(Paid(feed, recorded), OnDay(feed, d))

\* No drink has two entries.
Distinct(entries) ==
  \A i, j \in 1 .. Len(entries) : entries[i].drink = entries[j].drink => i = j

\* An entry of date d has the count and the amount of its drink, but for what is
\* still to be added of the sale in hand.
EntryInv(d, e) ==
  /\ IF adding = "count" /\ InHand(d, e.drink)
     THEN e.count + 1 = SumFunctionOnSet(recorded, Sold(feed, d, e.drink))
     ELSE e.count = SumFunctionOnSet(recorded, Sold(feed, d, e.drink))
  /\ IF adding # "nothing" /\ InHand(d, e.drink)
     THEN e.amount + Price[e.drink] = SumFunctionOnSet(Paid(feed, recorded), Sold(feed, d, e.drink))
     ELSE e.amount = SumFunctionOnSet(Paid(feed, recorded), Sold(feed, d, e.drink))

\* A day has one entry for each drink recorded.
EntriesInv ==
  /\ by_drink \in [Dates -> Seq(Entries)]
  /\ \A d \in Dates :
       /\ Distinct(by_drink[d])
       /\ \A n \in Drinks :
            (\E i \in 1 .. Len(by_drink[d]) : by_drink[d][i].drink = n)
              <=> \E k \in Sold(feed, d, n) : recorded[k] > 0
       /\ \A i \in 1 .. Len(by_drink[d]) : EntryInv(d, by_drink[d][i])

\* The inductive invariant of the store: the types of what it keeps, and that
\* it agrees with the history.
StoreInv == feed \in Feeds /\ LockInv /\ TreeInv /\ EntriesInv

-----------------------------------------------------------------------------
(* Numbers, sums and entries. *)

LEMMA ItemsFinite == \A S \in SUBSET Items : IsFiniteSet(S)
<1>1. IsFiniteSet(Items)
  BY FS_Interval, SyncConstants DEF Items
<1> QED  BY <1>1, FS_Subset

\* The dates are keys a tree may have.
LEMMA DateNumbers == \A d \in Dates : d \in Nat /\ d \in 1 .. Limit - 1
<1> SUFFICES ASSUME NEW d \in Dates PROVE d \in Nat /\ d \in 1 .. Limit - 1
  OBVIOUS
<1>1. d \in Nat /\ d \div 10000 \in 1 .. 9999
  <2>1. d \in Nat /\ IsDate(d)
    BY StoreConstants, Zenon
  <2> QED  BY <2>1, SMTT(30) DEF IsDate
<1>2. \A n \in Nat : n \div 10000 \in 1 .. 9999 => 0 < n /\ n < 100000000
  BY SMT
<1>3. 0 < d /\ d < Limit /\ Limit \in Nat
  BY <1>1, <1>2, SMTT(30) DEF Limit
<1> QED  BY <1>1, <1>3

LEMMA FeedFacts ==
  ASSUME NEW f \in Feeds
  PROVE  \A k \in Items : /\ f[k].date \in Dates /\ f[k].date \in Nat /\ f[k].drink \in Drinks
                          /\ Price[f[k].drink] \in Nat /\ Price[f[k].drink] > 0
<1>1. f \in [Items -> [date : Dates, drink : Drinks]] /\ Price \in [Drinks -> Nat \ {0}]
  BY StoreConstants
<1>2. \A k \in Items : f[k].date \in Dates /\ f[k].drink \in Drinks
  BY <1>1
<1> QED  BY <1>1, <1>2, DateNumbers

\* What the items brought in is a number, the greater the more often they were
\* recorded.
LEMMA PaidFacts ==
  ASSUME NEW f \in Feeds, NEW times \in [Items -> Nat]
  PROVE  /\ \A k \in Items : Paid(f, times)[k] \in Nat
         /\ \A k \in Items : times[k] = 0 => Paid(f, times)[k] = 0
         /\ \A more \in [Items -> Nat] : \A k \in Items :
              times[k] <= more[k] => Paid(f, times)[k] <= Paid(f, more)[k]
<1>1. \A k \in Items : Price[f[k].drink] \in Nat /\ times[k] \in Nat
  BY FeedFacts
<1>2. \A a, b, p \in Nat : a * p \in Nat /\ 0 * p = 0 /\ (a <= b => a * p <= b * p)
  BY SMT
<1>3. \A t : \A k \in Items : Paid(f, t)[k] = t[k] * Price[f[k].drink]
  BY DEF Paid
<1>4. ASSUME NEW more \in [Items -> Nat], NEW k \in Items, times[k] <= more[k]
      PROVE  Paid(f, times)[k] <= Paid(f, more)[k]
  <2>1. more[k] \in Nat
    OBVIOUS
  <2> QED  BY <1>1, <1>2, <1>3, <1>4, <2>1
<1>5. ASSUME NEW k \in Items
      PROVE  Paid(f, times)[k] \in Nat /\ (times[k] = 0 => Paid(f, times)[k] = 0)
  BY <1>1, <1>2, <1>3
<1> QED  BY <1>4, <1>5

\* The sums over any items when one of them is recorded once more.
LEMMA RecordedSums ==
  ASSUME NEW f \in Feeds, NEW times \in [Items -> Nat], NEW k \in Items,
         NEW more \in [Items -> Nat], more[k] = times[k] + 1,
         \A b \in Items : b # k => more[b] = times[b],
         NEW S \in SUBSET Items
  PROVE  /\ k \in S =>
              /\ SumFunctionOnSet(more, S) = SumFunctionOnSet(times, S) + 1
              /\ SumFunctionOnSet(Paid(f, more), S)
                   = SumFunctionOnSet(Paid(f, times), S) + Price[f[k].drink]
         /\ k \notin S =>
              /\ SumFunctionOnSet(more, S) = SumFunctionOnSet(times, S)
              /\ SumFunctionOnSet(Paid(f, more), S) = SumFunctionOnSet(Paid(f, times), S)
         /\ SumFunctionOnSet(times, S) \in Nat /\ SumFunctionOnSet(Paid(f, times), S) \in Nat
<1>1. IsFiniteSet(S)
  BY ItemsFinite
<1>2. \A b \in S : times[b] \in Nat /\ Paid(f, times)[b] \in Nat
  BY PaidFacts
<1>3. \A b \in S : b # k => more[b] = times[b] /\ Paid(f, more)[b] = Paid(f, times)[b]
  BY DEF Paid
<1>4. Paid(f, more)[k] = Paid(f, times)[k] + Price[f[k].drink]
  <2>1. /\ Paid(f, more)[k] = (times[k] + 1) * Price[f[k].drink]
        /\ Paid(f, times)[k] = times[k] * Price[f[k].drink]
    BY DEF Paid
  <2>2. \A a, p \in Nat : (a + 1) * p = a * p + p
    BY SMT
  <2>3. times[k] \in Nat /\ Price[f[k].drink] \in Nat
    BY FeedFacts
  <2> QED  BY <2>1, <2>2, <2>3
<1>5. SumFunctionOnSet(times, S) \in Nat /\ SumFunctionOnSet(Paid(f, times), S) \in Nat
  BY <1>1, <1>2, SumOnSetFacts
<1>6. ASSUME k \in S
      PROVE  /\ SumFunctionOnSet(more, S) = SumFunctionOnSet(times, S) + 1
             /\ SumFunctionOnSet(Paid(f, more), S)
                  = SumFunctionOnSet(Paid(f, times), S) + Price[f[k].drink]
  <2>1. Price[f[k].drink] \in Nat /\ 1 \in Nat
    BY FeedFacts
  <2>2. SumFunctionOnSet(more, S) = SumFunctionOnSet(times, S) + 1
    BY <1>1, <1>2, <1>3, <1>6, <2>1, SumOnSetOneMore
  <2>3. SumFunctionOnSet(Paid(f, more), S) = SumFunctionOnSet(Paid(f, times), S) + Price[f[k].drink]
    <3> DEFINE e == Paid(f, more)
               g == Paid(f, times)
               p == Price[f[k].drink]
    <3>1. p \in Nat /\ e[k] = g[k] + p /\ \A b \in S : g[b] \in Nat /\ (b # k => e[b] = g[b])
      BY <1>2, <1>3, <1>4, <2>1
    <3> HIDE DEF e, g, p
    <3>2. SumFunctionOnSet(e, S) = SumFunctionOnSet(g, S) + p
      BY <1>1, <1>6, <3>1, SumOnSetOneMore
    <3> QED  BY <3>2 DEF e, g, p
  <2> QED  BY <2>2, <2>3
<1>7. ASSUME k \notin S
      PROVE  /\ SumFunctionOnSet(more, S) = SumFunctionOnSet(times, S)
             /\ SumFunctionOnSet(Paid(f, more), S) = SumFunctionOnSet(Paid(f, times), S)
  <2>1. \A b \in S : /\ times[b] \in Nat /\ times[b] = more[b]
                     /\ Paid(f, times)[b] \in Nat /\ Paid(f, times)[b] = Paid(f, more)[b]
    BY <1>2, <1>3, <1>7
  <2>2. SumFunctionOnSet(times, S) = SumFunctionOnSet(more, S)
    BY <1>1, <2>1, SumOnSetAgrees
  <2>3. SumFunctionOnSet(Paid(f, times), S) = SumFunctionOnSet(Paid(f, more), S)
    BY <1>1, <2>1, SumOnSetAgrees
  <2> QED  BY <2>2, <2>3
<1> QED  BY <1>5, <1>6, <1>7

\* A sum of what was recorded is 0 just when none of the items was recorded.
LEMMA NothingRecorded ==
  ASSUME NEW f \in Feeds, NEW times \in [Items -> Nat], NEW S \in SUBSET Items
  PROVE  /\ (SumFunctionOnSet(times, S) = 0) <=> (\A k \in S : times[k] = 0)
         /\ (\A k \in S : times[k] = 0) => SumFunctionOnSet(Paid(f, times), S) = 0
<1>1. IsFiniteSet(S) /\ \A k \in S : times[k] \in Nat /\ Paid(f, times)[k] \in Nat
  BY ItemsFinite, PaidFacts
<1>2. ASSUME \A k \in S : times[k] = 0
      PROVE  SumFunctionOnSet(times, S) = 0 /\ SumFunctionOnSet(Paid(f, times), S) = 0
  <2>1. \A k \in S : Paid(f, times)[k] = 0
    BY <1>2, PaidFacts
  <2> QED  BY <1>1, <1>2, <2>1, SumOnSetZero
<1>3. ASSUME SumFunctionOnSet(times, S) = 0, NEW k \in S PROVE times[k] = 0
  <2>1. SumFunctionOnSet(times, S) = times[k] + SumFunctionOnSet(times, S \ {k})
    BY <1>1, SumOnSetFacts
  <2>2. SumFunctionOnSet(times, S \ {k}) \in Nat
    <3>1. IsFiniteSet(S \ {k}) /\ \A x \in S \ {k} : times[x] \in Nat
      BY <1>1, FS_Subset
    <3> QED  BY <3>1, SumOnSetFacts
  <2> QED  BY <1>1, <1>3, <2>1, <2>2
<1> QED  BY <1>2, <1>3

LEMMA EntryOfFinds ==
  ASSUME NEW entries \in Seq(Entries), NEW n
  PROVE  /\ (\E i \in 1 .. Len(entries) : entries[i].drink = n)
              => EntryOf(entries, n) \in 1 .. Len(entries) /\ entries[EntryOf(entries, n)].drink = n
         /\ ~ (\E i \in 1 .. Len(entries) : entries[i].drink = n)
              => EntryOf(entries, n) = Len(entries) + 1
<1> DEFINE N == {i \in DOMAIN entries : entries[i].drink = n}
           S == N \cup {Len(entries) + 1}
<1>1. DOMAIN entries = 1 .. Len(entries) /\ Len(entries) \in Nat
  BY LenProperties
<1>2. S \in SUBSET Nat /\ S # {}
  BY <1>1
<1>3. PICK m \in S : \A i \in S : m <= i
  <2> HIDE DEF S
  <2> QED  BY <1>2, LeastElement
<1>4. Min(S) \in S /\ \A i \in S : Min(S) <= i
  BY <1>3 DEF Min
<1>5. EntryOf(entries, n) = Min(S)
  BY DEF EntryOf
<1>6. ASSUME NEW i \in N PROVE Min(S) \in N
  <2>1. Min(S) <= i /\ i < Len(entries) + 1 /\ Min(S) \in Nat
    BY <1>1, <1>2, <1>4
  <2> QED  BY <1>1, <1>4, <2>1
<1>7. N = {} => Min(S) = Len(entries) + 1
  BY <1>4
<1> QED  BY <1>1, <1>5, <1>6, <1>7

LEMMA SetDefaultFacts ==
  ASSUME NEW entries \in Seq(Entries), Distinct(entries), NEW n \in Drinks
  PROVE  LET u == SetDefault(entries, n)
         IN  /\ u \in Seq(Entries) /\ Distinct(u)
             /\ \/ u = entries /\ \E i \in 1 .. Len(entries) : entries[i].drink = n
                \/ /\ \A i \in 1 .. Len(entries) : entries[i].drink # n
                   /\ Len(u) = Len(entries) + 1
                   /\ \A i \in 1 .. Len(entries) : u[i] = entries[i]
                   /\ u[Len(entries) + 1] = Entry(n)
<1> DEFINE u == SetDefault(entries, n)
<1>1. Len(entries) \in Nat
  BY LenProperties
<1>2. CASE \E i \in 1 .. Len(entries) : entries[i].drink = n
  <2>1. ~ (EntryOf(entries, n) > Len(entries))
    BY <1>1, <1>2, EntryOfFinds
  <2>2. u = entries
    BY <2>1 DEF SetDefault
  <2> HIDE DEF u
  <2>3. u \in Seq(Entries) /\ Distinct(u)
    BY <2>2
  <2> QED  BY <1>2, <2>2, <2>3 DEF u
<1>3. CASE \A i \in 1 .. Len(entries) : entries[i].drink # n
  <2>1. EntryOf(entries, n) > Len(entries)
    BY <1>1, <1>3, EntryOfFinds
  <2>2. u = Append(entries, Entry(n))
    BY <2>1 DEF SetDefault
  <2>3. Entry(n) \in Entries /\ Entry(n).drink = n
    BY DEF Entry, Entries
  <2> HIDE DEF u
  <2>4. /\ u \in Seq(Entries) /\ Len(u) = Len(entries) + 1
        /\ \A i \in 1 .. Len(entries) : u[i] = entries[i]
        /\ u[Len(entries) + 1] = Entry(n)
    BY <2>2, <2>3, AppendProperties
  <2>5. Distinct(u)
    <3> SUFFICES ASSUME NEW i \in 1 .. Len(u), NEW j \in 1 .. Len(u), u[i].drink = u[j].drink
                 PROVE  i = j
      BY DEF Distinct
    <3>1. /\ i \in 1 .. Len(entries) \/ i = Len(entries) + 1
          /\ j \in 1 .. Len(entries) \/ j = Len(entries) + 1
      BY <1>1, <2>4
    <3>2. \A x \in 1 .. Len(entries) : u[x].drink # n
      BY <1>3, <2>4
    <3>3. u[Len(entries) + 1].drink = n
      BY <2>3, <2>4
    <3> QED  BY <2>4, <3>1, <3>2, <3>3 DEF Distinct
  <2> QED  BY <1>3, <2>4, <2>5 DEF u
<1> QED  BY <1>2, <1>3

-----------------------------------------------------------------------------
(* The steps of the store. *)

\* Steps that leave the store and the lock's holder alone.
LEMMA StoreUnchanged ==
  ASSUME StoreInv, UNCHANGED <<feed, lock, adding, tree, by_drink, recorded>>,
         lock # 0 => UNCHANGED <<at[lock], held[lock]>>
  PROVE  StoreInv'
<1>1. lock # 0 => at'[lock'] = at[lock] /\ held'[lock'] = held[lock]
  OBVIOUS
<1>2. LockInv'
  BY <1>1 DEF StoreInv, LockInv
<1>3. TreeInv'
  BY DEF StoreInv, TreeInv
<1>4. ASSUME NEW d, NEW n, adding # "nothing" PROVE InHand(d, n)' <=> InHand(d, n)
  BY <1>1, <1>4 DEF StoreInv, LockInv, InHand
<1>5. EntriesInv'
  <2>1. \A d, n : adding' # "nothing" => (InHand(d, n)' <=> InHand(d, n))
    BY <1>4
  <2> QED  BY <2>1 DEF StoreInv, EntriesInv, EntryInv, Distinct
<1> QED  BY <1>2, <1>3, <1>5 DEF StoreInv

LEMMA StoreInvInit == PeerInit => StoreInv
<1> SUFFICES ASSUME PeerInit PROVE StoreInv
  OBVIOUS
<1>1. recorded = [k \in Items |-> 0] /\ recorded \in [Items -> Nat] /\ feed \in Feeds
  BY DEF PeerInit, Init
<1>2. LockInv
  BY SyncConstants DEF PeerInit, LockInv
<1>3. TreeInv
  <2>1. tree = EmptyTree /\ Keys(EmptyTree) = {} /\ IsBST(EmptyTree, << >>, << >>)
    BY EmptyIsBST DEF PeerInit, EmptyTree, Keys
  <2> QED  BY <1>1, <2>1 DEF TreeInv
<1>4. EntriesInv
  <2>1. by_drink = [d \in Dates |-> << >>] /\ Len(<< >>) = 0
    BY DEF PeerInit
  <2>2. \A d, n : \A k \in Sold(feed, d, n) : ~ (recorded[k] > 0)
    BY <1>1 DEF Sold
  <2> QED  BY <2>1, <2>2 DEF EntriesInv, Distinct
<1> QED  BY <1>1, <1>2, <1>3, <1>4 DEF StoreInv

\* What StartRecord does, with the item it records.
LEMMA StartRecordFacts ==
  ASSUME SyncInv, StoreInv, NEW c \in Conns, StartRecord(c)
  PROVE  LET k == sync[c] IN
           /\ k \in Items /\ lock = 0 /\ adding = "nothing"
           /\ recorded \in [Items -> Nat] /\ recorded' = [recorded EXCEPT ![k] = @ + 1]
           /\ feed \in Feeds /\ feed' = feed
           /\ feed[k].date \in Dates /\ feed[k].drink \in Drinks
           /\ Price[feed[k].drink] \in Nat /\ Price[feed[k].drink] > 0
           /\ lock' = c /\ c # 0 /\ adding' = "count" /\ held'[c] = k /\ at'[c] = "update"
           /\ tree' = insert(tree, feed[k].date, Price[feed[k].drink])
           /\ by_drink' = [by_drink EXCEPT ![feed[k].date] = SetDefault(@, feed[k].drink)]
<1>1. lock = 0 /\ RecordSync(c) /\ lock' = c /\ adding' = "count" /\ feed' = feed
  BY DEF StartRecord
<1>2. /\ sync[c] # 0 /\ held' = [held EXCEPT ![c] = sync[c]]
      /\ recorded' = [recorded EXCEPT ![sync[c]] = @ + 1]
      /\ at' = [at EXCEPT ![c] = "update"]
  BY <1>1 DEF RecordSync
<1>3. sync[c] \in Items
  BY <1>2, SyncNumbers DEF SyncInv, SyncTypeOK, Items
<1>4. /\ recorded \in [Items -> Nat] /\ held'[c] = sync[c] /\ at'[c] = "update"
  BY <1>2 DEF SyncInv, SyncTypeOK
<1>5. feed \in Feeds /\ adding = "nothing" /\ c # 0
  BY <1>1 DEF StoreInv, LockInv, Conns
<1>6. /\ feed[sync[c]].date \in Dates /\ feed[sync[c]].drink \in Drinks
      /\ Price[feed[sync[c]].drink] \in Nat /\ Price[feed[sync[c]].drink] > 0
  BY <1>3, <1>5, FeedFacts
<1>7. /\ tree' = insert(tree, feed[sync[c]].date, Price[feed[sync[c]].drink])
      /\ by_drink' = [by_drink EXCEPT
                        ![feed[sync[c]].date] = SetDefault(@, feed[sync[c]].drink)]
  BY DEF StartRecord
<1> QED  BY <1>1, <1>2, <1>3, <1>4, <1>5, <1>6, <1>7

LEMMA StartRecordLock ==
  ASSUME SyncInv, StoreInv, NEW c \in Conns, StartRecord(c) PROVE LockInv'
<1>1. /\ sync[c] \in Items /\ recorded \in [Items -> Nat]
      /\ recorded' = [recorded EXCEPT ![sync[c]] = @ + 1]
      /\ lock' = c /\ c # 0 /\ adding' = "count" /\ held'[c] = sync[c] /\ at'[c] = "update"
  BY StartRecordFacts
<1>2. recorded'[sync[c]] > 0
  BY <1>1
<1>3. c \in 0 .. MaxConns
  BY SyncConstants DEF Conns
<1> QED  BY <1>1, <1>2, <1>3 DEF LockInv

\* The sums over any items, before and after.
LEMMA StartRecordSums ==
  ASSUME SyncInv, StoreInv, NEW c \in Conns, StartRecord(c), NEW S \in SUBSET Items
  PROVE  /\ sync[c] \in S =>
              /\ SumFunctionOnSet(recorded', S) = SumFunctionOnSet(recorded, S) + 1
              /\ SumFunctionOnSet(Paid(feed, recorded'), S)
                   = SumFunctionOnSet(Paid(feed, recorded), S) + Price[feed[sync[c]].drink]
         /\ sync[c] \notin S =>
              /\ SumFunctionOnSet(recorded', S) = SumFunctionOnSet(recorded, S)
              /\ SumFunctionOnSet(Paid(feed, recorded'), S) = SumFunctionOnSet(Paid(feed, recorded), S)
         /\ SumFunctionOnSet(recorded, S) \in Nat
         /\ SumFunctionOnSet(Paid(feed, recorded), S) \in Nat
<1>1. /\ sync[c] \in Items /\ feed \in Feeds /\ recorded \in [Items -> Nat]
      /\ recorded' = [recorded EXCEPT ![sync[c]] = @ + 1]
  BY StartRecordFacts
<1>2. /\ recorded' \in [Items -> Nat] /\ recorded'[sync[c]] = recorded[sync[c]] + 1
      /\ \A b \in Items : b # sync[c] => recorded'[b] = recorded[b]
  BY <1>1
<1>3. PICK f, times, more, k : f = feed /\ times = recorded /\ more = recorded' /\ k = sync[c]
  OBVIOUS
<1>4. /\ f \in Feeds /\ times \in [Items -> Nat] /\ k \in Items
      /\ more \in [Items -> Nat] /\ more[k] = times[k] + 1
      /\ \A b \in Items : b # k => more[b] = times[b]
  BY <1>1, <1>2, <1>3
<1>5. /\ k \in S =>
           /\ SumFunctionOnSet(more, S) = SumFunctionOnSet(times, S) + 1
           /\ SumFunctionOnSet(Paid(f, more), S)
                = SumFunctionOnSet(Paid(f, times), S) + Price[f[k].drink]
      /\ k \notin S =>
           /\ SumFunctionOnSet(more, S) = SumFunctionOnSet(times, S)
           /\ SumFunctionOnSet(Paid(f, more), S) = SumFunctionOnSet(Paid(f, times), S)
      /\ SumFunctionOnSet(times, S) \in Nat /\ SumFunctionOnSet(Paid(f, times), S) \in Nat
  BY <1>4, RecordedSums
<1> QED  BY <1>3, <1>5

LEMMA StartRecordTree ==
  ASSUME SyncInv, StoreInv, NEW c \in Conns, StartRecord(c) PROVE TreeInv'
<1> DEFINE k == sync[c]
           date == feed[k].date
           price == Price[feed[k].drink]
<1>1. /\ k \in Items /\ recorded \in [Items -> Nat]
      /\ recorded' = [recorded EXCEPT ![k] = @ + 1]
      /\ feed \in Feeds /\ feed' = feed /\ date \in Dates
      /\ price \in Nat /\ price > 0 /\ tree' = insert(tree, date, price)
  BY StartRecordFacts
<1>2. PICK lo, hi : IsBST(tree, lo, hi)
  BY DEF StoreInv, TreeInv
<1>3. /\ Keys(tree) = {feed[b].date : b \in {a \in Items : recorded[a] > 0}}
      /\ \A d \in Keys(tree) :
           tree.nodes[d].sales = SumFunctionOnSet(Paid(feed, recorded), OnDay(feed, d))
  BY DEF StoreInv, TreeInv
<1>4. /\ \E lo2, hi2 : IsBST(tree', lo2, hi2)
      /\ Keys(tree') = Keys(tree) \cup {date}
      /\ \A d \in Keys(tree') :
           tree'.nodes[d].sales = (IF d \in Keys(tree) THEN tree.nodes[d].sales ELSE 0)
                                  + (IF d = date THEN price ELSE 0)
  <2>1. date \in 1 .. Limit - 1
    BY <1>1, DateNumbers
  <2> HIDE DEF date, price
  <2> QED  BY <1>1, <1>2, <2>1, InsertKeeps
<1>5. \A b \in Items : recorded'[b] > 0 <=> recorded[b] > 0 \/ b = k
  BY <1>1
<1>6. Keys(tree') = {feed'[b].date : b \in {a \in Items : recorded'[a] > 0}}
  <2> HIDE DEF k
  <2> QED  BY <1>1, <1>3, <1>4, <1>5
<1>7. ASSUME NEW d \in Keys(tree')
      PROVE  tree'.nodes[d].sales = SumFunctionOnSet(Paid(feed', recorded'), OnDay(feed', d))
  <2> DEFINE S == OnDay(feed, d)
             old == SumFunctionOnSet(Paid(feed, recorded), S)
  <2>1. S \in SUBSET Items /\ (k \in S <=> d = date)
    BY <1>1 DEF OnDay
  <2>2. /\ k \in S => SumFunctionOnSet(Paid(feed, recorded'), S) = old + price
        /\ k \notin S => SumFunctionOnSet(Paid(feed, recorded'), S) = old
        /\ old \in Nat
    <3> HIDE DEF S
    <3> QED  BY <2>1, StartRecordSums
  <2>3. old = IF d \in Keys(tree) THEN tree.nodes[d].sales ELSE 0
    <3>1. CASE d \in Keys(tree)
      BY <1>3, <3>1
    <3>2. CASE d \notin Keys(tree)
      <4>1. \A b \in S : recorded[b] = 0
        BY <1>1, <1>3, <3>2 DEF OnDay
      <4> HIDE DEF S
      <4> QED  BY <1>1, <2>1, <3>2, <4>1, NothingRecorded
    <3> QED  BY <3>1, <3>2
  <2> HIDE DEF old
  <2>4. tree'.nodes[d].sales = old + (IF d = date THEN price ELSE 0)
    BY <1>4, <2>3
  <2> HIDE DEF date, price, k
  <2> QED  BY <1>1, <2>1, <2>2, <2>4
<1> QED  BY <1>4, <1>6, <1>7 DEF TreeInv

LEMMA StartRecordEntries ==
  ASSUME SyncInv, StoreInv, NEW c \in Conns, StartRecord(c) PROVE EntriesInv'
<1> DEFINE k == sync[c]
           date == feed[k].date
           drink == feed[k].drink
           old == by_drink[date]
           new == SetDefault(old, drink)
<1>1. /\ k \in Items /\ lock = 0 /\ adding = "nothing" /\ recorded \in [Items -> Nat]
      /\ recorded' = [recorded EXCEPT ![k] = @ + 1]
      /\ feed \in Feeds /\ feed' = feed /\ date \in Dates /\ drink \in Drinks
      /\ lock' = c /\ c # 0 /\ adding' = "count" /\ held'[c] = k
      /\ by_drink' = [by_drink EXCEPT ![date] = new]
  BY StartRecordFacts
<1>2. /\ by_drink \in [Dates -> Seq(Entries)]
      /\ \A d \in Dates :
           /\ Distinct(by_drink[d])
           /\ \A n \in Drinks :
                (\E i \in 1 .. Len(by_drink[d]) : by_drink[d][i].drink = n)
                  <=> \E b \in Sold(feed, d, n) : recorded[b] > 0
           /\ \A i \in 1 .. Len(by_drink[d]) : EntryInv(d, by_drink[d][i])
  BY DEF StoreInv, EntriesInv
<1>3. /\ new \in Seq(Entries) /\ Distinct(new)
      /\ \/ new = old /\ \E i \in 1 .. Len(old) : old[i].drink = drink
         \/ /\ \A i \in 1 .. Len(old) : old[i].drink # drink
            /\ Len(new) = Len(old) + 1
            /\ \A i \in 1 .. Len(old) : new[i] = old[i]
            /\ new[Len(old) + 1] = Entry(drink)
  <2>1. old \in Seq(Entries) /\ Distinct(old)
    BY <1>1, <1>2
  <2> HIDE DEF old, drink
  <2> QED  BY <1>1, <2>1, SetDefaultFacts
<1> HIDE DEF new
<1>4. by_drink'[date] = new /\ \A d \in Dates : d # date => by_drink'[d] = by_drink[d]
  BY <1>1, <1>2
<1>5. by_drink' \in [Dates -> Seq(Entries)] /\ \A d \in Dates : Distinct(by_drink'[d])
  BY <1>1, <1>2, <1>3, <1>4
<1>6. \A d, n : /\ InHand(d, n)' <=> d = date /\ n = drink
                /\ k \in Sold(feed, d, n) <=> d = date /\ n = drink
  BY <1>1 DEF InHand, Sold
<1>7. \A b \in Items : recorded'[b] > 0 <=> recorded[b] > 0 \/ b = k
  BY <1>1
<1>8. ASSUME NEW d \in Dates, NEW n \in Drinks
      PROVE  (\E i \in 1 .. Len(by_drink'[d]) : by_drink'[d][i].drink = n)
               <=> \E b \in Sold(feed', d, n) : recorded'[b] > 0
  <2>1. (\E b \in Sold(feed', d, n) : recorded'[b] > 0)
          <=> \/ d = date /\ n = drink
              \/ \E b \in Sold(feed, d, n) : recorded[b] > 0
    <3> HIDE DEF k, date, drink
    <3> QED  BY <1>1, <1>6, <1>7 DEF Sold
  <2>2. (\E i \in 1 .. Len(by_drink'[d]) : by_drink'[d][i].drink = n)
          <=> \/ d = date /\ n = drink
              \/ \E i \in 1 .. Len(by_drink[d]) : by_drink[d][i].drink = n
    <3>1. CASE d # date
      BY <1>4, <3>1
    <3>2. CASE d = date
      <4>1. Len(old) \in Nat /\ Entry(drink).drink = drink
        BY <1>1, <1>2, LenProperties DEF Entry
      <4>2. (\E i \in 1 .. Len(new) : new[i].drink = n)
              <=> n = drink \/ \E i \in 1 .. Len(old) : old[i].drink = n
        <5> HIDE DEF old, date, drink
        <5>1. CASE new = old
          BY <1>3, <4>1, <5>1
        <5>2. CASE new # old
          <6>1. 1 .. Len(new) = 1 .. Len(old) \cup {Len(old) + 1}
            BY <1>3, <4>1, <5>2
          <6> QED  BY <1>3, <4>1, <5>2, <6>1
        <5> QED  BY <5>1, <5>2
      <4> QED  BY <1>4, <3>2, <4>2
    <3> QED  BY <3>1, <3>2
  <2> QED  BY <1>2, <2>1, <2>2
\* An entry that was there before.
<1>9. ASSUME NEW d \in Dates, NEW e \in Entries, EntryInv(d, e) PROVE EntryInv(d, e)'
  <2> DEFINE S == Sold(feed, d, e.drink)
  <2>1. S \in SUBSET Items
    BY DEF Sold
  <2>2. /\ k \in S =>
             /\ SumFunctionOnSet(recorded', S) = SumFunctionOnSet(recorded, S) + 1
             /\ SumFunctionOnSet(Paid(feed, recorded'), S)
                  = SumFunctionOnSet(Paid(feed, recorded), S) + Price[drink]
        /\ k \notin S =>
             /\ SumFunctionOnSet(recorded', S) = SumFunctionOnSet(recorded, S)
             /\ SumFunctionOnSet(Paid(feed, recorded'), S) = SumFunctionOnSet(Paid(feed, recorded), S)
    <3> HIDE DEF S
    <3> QED  BY <2>1, StartRecordSums
  <2>3. e.count = SumFunctionOnSet(recorded, S) /\ e.amount = SumFunctionOnSet(Paid(feed, recorded), S)
    BY <1>1, <1>9 DEF EntryInv
  <2>4. (k \in S <=> d = date /\ e.drink = drink) /\ (InHand(d, e.drink)' <=> d = date /\ e.drink = drink)
    BY <1>6
  <2>5. Sold(feed', d, e.drink) = S /\ Paid(feed', recorded') = Paid(feed, recorded')
    BY <1>1
  <2> HIDE DEF S
  <2>6. CASE d = date /\ e.drink = drink
    <3> HIDE DEF k, date, drink
    <3> QED  BY <1>1, <2>2, <2>3, <2>4, <2>5, <2>6 DEF EntryInv
  <2>7. CASE ~ (d = date /\ e.drink = drink)
    <3> HIDE DEF k, date, drink
    <3> QED  BY <1>1, <2>2, <2>3, <2>4, <2>5, <2>7 DEF EntryInv
  <2> QED  BY <2>6, <2>7
\* The entry the drink gets.
<1>10. ASSUME NEW d, NEW n, d = date, n = drink, \A i \in 1 .. Len(old) : old[i].drink # drink
       PROVE  EntryInv(d, Entry(n))'
  <2> DEFINE S == Sold(feed, d, n)
  <2>1. S \in SUBSET Items /\ k \in S
    BY <1>6, <1>10 DEF Sold
  <2>2. \A b \in S : ~ (recorded[b] > 0)
    BY <1>1, <1>2, <1>10
  <2>3. \A b \in S : recorded[b] = 0
    BY <1>1, <2>1, <2>2
  <2>4. SumFunctionOnSet(recorded, S) = 0 /\ SumFunctionOnSet(Paid(feed, recorded), S) = 0
    <3> HIDE DEF S
    <3> QED  BY <1>1, <2>1, <2>3, NothingRecorded
  <2>5. /\ SumFunctionOnSet(recorded', S) = SumFunctionOnSet(recorded, S) + 1
        /\ SumFunctionOnSet(Paid(feed, recorded'), S)
             = SumFunctionOnSet(Paid(feed, recorded), S) + Price[n]
    <3> HIDE DEF S
    <3> QED  BY <1>10, <2>1, StartRecordSums
  <2>6. Entry(n).count = 0 /\ Entry(n).amount = 0 /\ Entry(n).drink = n
    BY DEF Entry
  <2>7. InHand(d, n)' /\ Sold(feed', d, n) = S /\ Paid(feed', recorded') = Paid(feed, recorded')
    BY <1>1, <1>6, <1>10
  <2> HIDE DEF S
  <2> QED  BY <1>1, <2>4, <2>5, <2>6, <2>7 DEF EntryInv
<1>11. ASSUME NEW d \in Dates, NEW i \in 1 .. Len(by_drink'[d]) PROVE EntryInv(d, by_drink[d][i])'
  <2>1. PICK e : e = by_drink'[d][i]
    OBVIOUS
  <2>2. EntryInv(d, e)'
    <3>1. CASE i \in 1 .. Len(by_drink[d]) /\ by_drink'[d][i] = by_drink[d][i]
      <4>1. by_drink[d][i] \in Entries /\ EntryInv(d, by_drink[d][i])
        BY <1>2, <3>1, ElementOfSeq
      <4> QED  BY <1>9, <2>1, <3>1, <4>1
    <3>2. CASE ~ (i \in 1 .. Len(by_drink[d]) /\ by_drink'[d][i] = by_drink[d][i])
      <4>1. /\ d = date /\ \A j \in 1 .. Len(old) : old[j].drink # drink
            /\ i = Len(old) + 1 /\ new[Len(old) + 1] = Entry(drink)
        <5>1. Len(old) \in Nat
          BY <1>1, <1>2, LenProperties
        <5>2. d = date
          BY <1>4, <3>2
        <5>3. new # old
          BY <1>4, <3>2, <5>2
        <5>4. i \in 1 .. Len(new) /\ Len(new) = Len(old) + 1
          BY <1>3, <1>4, <5>2, <5>3
        <5>5. i \notin 1 .. Len(old)
          BY <1>3, <1>4, <3>2, <5>2, <5>3
        <5>6. i = Len(old) + 1
          <6> HIDE DEF old
          <6> QED  BY <5>1, <5>4, <5>5
        <5> QED  BY <1>3, <5>2, <5>3, <5>6
      <4>2. PICK n : n = drink
        OBVIOUS
      <4>3. e = Entry(n)
        BY <1>4, <2>1, <4>1, <4>2
      <4>4. EntryInv(d, Entry(n))'
        <5> HIDE DEF old, date, drink
        <5> QED  BY <1>10, <4>1, <4>2
      <4> QED  BY <4>3, <4>4
    <3> QED  BY <3>1, <3>2
  <2> QED  BY <2>1, <2>2 DEF EntryInv
<1> QED  BY <1>5, <1>8, <1>11 DEF EntriesInv


\* What AddCount and AddAmount work on: the entry of the sale in hand.
LEMMA AddingFacts ==
  ASSUME SyncInv, StoreInv, adding # "nothing"
  PROVE  /\ lock # 0 /\ held[lock] \in Items /\ recorded \in [Items -> Nat] /\ feed \in Feeds
         /\ Adding = feed[held[lock]] /\ Adding.date \in Dates /\ Adding.drink \in Drinks
         /\ Price[Adding.drink] \in Nat
         /\ by_drink \in [Dates -> Seq(Entries)]
         /\ AddingTo \in 1 .. Len(by_drink[Adding.date])
         /\ by_drink[Adding.date][AddingTo] \in Entries
         /\ by_drink[Adding.date][AddingTo].drink = Adding.drink
         /\ \A d, n : InHand(d, n) <=> d = Adding.date /\ n = Adding.drink
<1>1. /\ lock # 0 /\ held[lock] \in Items /\ recorded[held[lock]] > 0
      /\ recorded \in [Items -> Nat] /\ feed \in Feeds
  BY DEF StoreInv, LockInv, SyncInv, SyncTypeOK
<1>2. /\ Adding = feed[held[lock]] /\ Adding.date \in Dates /\ Adding.drink \in Drinks
      /\ Price[Adding.drink] \in Nat
  BY <1>1, FeedFacts DEF Adding
<1>3. /\ by_drink \in [Dates -> Seq(Entries)]
      /\ (\E i \in 1 .. Len(by_drink[Adding.date]) : by_drink[Adding.date][i].drink = Adding.drink)
           <=> \E k \in Sold(feed, Adding.date, Adding.drink) : recorded[k] > 0
  BY <1>2 DEF StoreInv, EntriesInv
<1>4. held[lock] \in Sold(feed, Adding.date, Adding.drink)
  BY <1>1, <1>2 DEF Sold
<1>5. PICK entries, n : entries = by_drink[Adding.date] /\ n = Adding.drink
  OBVIOUS
<1>6. AddingTo = EntryOf(entries, n)
  BY <1>5 DEF AddingTo
<1>7. entries \in Seq(Entries) /\ \E i \in 1 .. Len(entries) : entries[i].drink = n
  BY <1>1, <1>2, <1>3, <1>4, <1>5
<1>8. AddingTo \in 1 .. Len(entries) /\ entries[AddingTo].drink = n
  BY <1>6, <1>7, EntryOfFinds
<1>9. entries[AddingTo] \in Entries
  BY <1>7, <1>8, ElementOfSeq
<1>10. \A d, n2 : InHand(d, n2) <=> d = Adding.date /\ n2 = Adding.drink
  BY <1>2 DEF InHand
<1> QED  BY <1>1, <1>2, <1>3, <1>5, <1>8, <1>9, <1>10

\* A change of one entry of the sale in hand to one of the same drink.
LEMMA EntryChanged ==
  ASSUME NEW b \in [Dates -> Seq(Entries)], NEW d \in Dates, NEW a \in 1 .. Len(b[d]),
         NEW e \in Entries, e.drink = b[d][a].drink
  PROVE  LET u == [b EXCEPT ![d] = [b[d] EXCEPT ![a] = e]]
         IN  /\ u \in [Dates -> Seq(Entries)]
             /\ \A x \in Dates : /\ Len(u[x]) = Len(b[x])
                                 /\ \A i \in 1 .. Len(b[x]) : u[x][i].drink = b[x][i].drink
                                 /\ \A i \in 1 .. Len(b[x]) : x # d \/ i # a => u[x][i] = b[x][i]
             /\ u[d][a] = e
<1> DEFINE s == [b[d] EXCEPT ![a] = e]
           u == [b EXCEPT ![d] = s]
<1>1. b[d] \in Seq(Entries)
  OBVIOUS
<1>2. /\ s \in Seq(Entries) /\ Len(s) = Len(b[d]) /\ s[a] = e
      /\ \A i \in 1 .. Len(b[d]) : i # a => s[i] = b[d][i]
  BY <1>1, ExceptSeq
<1> HIDE DEF s
<1>3. u \in [Dates -> Seq(Entries)] /\ u[d] = s /\ \A x \in Dates : x # d => u[x] = b[x]
  BY <1>2
<1> HIDE DEF u
<1>4. \A x \in Dates : /\ Len(u[x]) = Len(b[x])
                       /\ \A i \in 1 .. Len(b[x]) : u[x][i].drink = b[x][i].drink
                       /\ \A i \in 1 .. Len(b[x]) : x # d \/ i # a => u[x][i] = b[x][i]
  BY <1>2, <1>3
<1> QED  BY <1>2, <1>3, <1>4 DEF u, s


\* The entries hold with what has changed at the entry of the sale in hand.
LEMMA EntryOfAddingInv ==
  ASSUME SyncInv, StoreInv, adding # "nothing", UNCHANGED <<feed, recorded>>,
         adding' # "nothing" => UNCHANGED <<lock, held>>,
         NEW date, NEW a, date = Adding.date, a = AddingTo,
         NEW e \in Entries, e.drink = Adding.drink, EntryInv(date, e)',
         NEW u, u = [by_drink EXCEPT ![date] = [by_drink[date] EXCEPT ![a] = e]], by_drink' = u
  PROVE  EntriesInv'
<1>1. /\ date \in Dates /\ by_drink \in [Dates -> Seq(Entries)] /\ a \in 1 .. Len(by_drink[date])
      /\ by_drink[date][a].drink = Adding.drink
      /\ \A d, n : InHand(d, n) <=> d = date /\ n = Adding.drink
  BY AddingFacts
<1>2. /\ by_drink' \in [Dates -> Seq(Entries)]
      /\ \A x \in Dates :
           /\ Len(by_drink'[x]) = Len(by_drink[x])
           /\ \A i \in 1 .. Len(by_drink[x]) : by_drink'[x][i].drink = by_drink[x][i].drink
           /\ \A i \in 1 .. Len(by_drink[x]) :
                x # date \/ i # a => by_drink'[x][i] = by_drink[x][i]
      /\ by_drink'[date][a] = e
  <2>1. e.drink = by_drink[date][a].drink
    BY <1>1
  <2>2. /\ u \in [Dates -> Seq(Entries)]
        /\ \A x \in Dates : /\ Len(u[x]) = Len(by_drink[x])
                            /\ \A i \in 1 .. Len(by_drink[x]) : u[x][i].drink = by_drink[x][i].drink
                            /\ \A i \in 1 .. Len(by_drink[x]) :
                                 x # date \/ i # a => u[x][i] = by_drink[x][i]
        /\ u[date][a] = e
    BY <1>1, <2>1, EntryChanged
  <2> QED  BY <2>2
<1>3. \A d \in Dates :
        /\ Distinct(by_drink[d])
        /\ \A n \in Drinks :
             (\E i \in 1 .. Len(by_drink[d]) : by_drink[d][i].drink = n)
               <=> \E k \in Sold(feed, d, n) : recorded[k] > 0
        /\ \A i \in 1 .. Len(by_drink[d]) : EntryInv(d, by_drink[d][i])
  BY DEF StoreInv, EntriesInv
<1>4. \A d \in Dates : Distinct(by_drink[d])'
  BY <1>2, <1>3 DEF Distinct
<1>5. ASSUME NEW d \in Dates, NEW n \in Drinks
      PROVE  (\E i \in 1 .. Len(by_drink'[d]) : by_drink'[d][i].drink = n)
               <=> \E k \in Sold(feed', d, n) : recorded'[k] > 0
  BY <1>2, <1>3
<1>6. ASSUME NEW d \in Dates, NEW i \in 1 .. Len(by_drink'[d])
      PROVE  EntryInv(d, by_drink[d][i])'
  <2>1. PICK x : x = by_drink'[d][i]
    OBVIOUS
  <2>2. CASE d = date /\ i = a
    <3>1. x = e
      BY <1>2, <2>1, <2>2
    <3>2. EntryInv(d, x)'
      BY <2>2, <3>1
    <3> QED  BY <2>1, <3>2 DEF EntryInv
  <2>3. CASE ~ (d = date /\ i = a)
    <3>1. x = by_drink[d][i] /\ i \in 1 .. Len(by_drink[d])
      BY <1>2, <2>1, <2>3
    <3>2. EntryInv(d, x)
      BY <1>3, <3>1
    <3>3. ~ InHand(d, x.drink)
      <4>1. ASSUME d = date, x.drink = Adding.drink PROVE FALSE
        <5>1. Distinct(by_drink[date]) /\ a \in 1 .. Len(by_drink[date])
          BY <1>1, <1>3
        <5>2. by_drink[date][i].drink = by_drink[date][a].drink /\ i # a
          BY <1>1, <2>3, <3>1, <4>1
        <5> QED  BY <3>1, <4>1, <5>1, <5>2 DEF Distinct
      <4> QED  BY <1>1, <4>1
    <3>4. adding' # "nothing" => ~ InHand(d, x.drink)'
      BY <3>3 DEF InHand
    <3>5. EntryInv(d, x)'
      BY <3>2, <3>3, <3>4 DEF EntryInv
    <3> QED  BY <2>1, <3>5 DEF EntryInv
  <2> QED  BY <2>2, <2>3
<1> QED  BY <1>2, <1>4, <1>5, <1>6 DEF EntriesInv

LEMMA EntryAdded ==
  ASSUME NEW x \in Entries, NEW p \in Nat
  PROVE  /\ LET e == [x EXCEPT !.count = @ + p]
            IN  /\ e \in Entries /\ e.drink = x.drink
                /\ e.count = x.count + p /\ e.amount = x.amount
         /\ LET e == [x EXCEPT !.amount = @ + p]
            IN  /\ e \in Entries /\ e.drink = x.drink
                /\ e.count = x.count /\ e.amount = x.amount + p
BY DEF Entries

LEMMA AddCountInv == ASSUME SyncInv, StoreInv, AddCount PROVE StoreInv'
<1>1. /\ adding = "count" /\ adding' = "amount" /\ UNCHANGED <<vars, feed, lock, tree>>
      /\ by_drink' = [by_drink EXCEPT ![Adding.date][AddingTo].count = @ + 1]
  BY DEF AddCount
<1>2. UNCHANGED <<at, held, recorded>>
  BY <1>1 DEF vars, peerVars
<1>3. PICK x, e : x = by_drink[Adding.date][AddingTo] /\ e = [x EXCEPT !.count = @ + 1]
  OBVIOUS
<1>4. /\ Adding.date \in Dates /\ by_drink \in [Dates -> Seq(Entries)]
      /\ AddingTo \in 1 .. Len(by_drink[Adding.date])
      /\ x \in Entries /\ x.drink = Adding.drink
      /\ \A d, n : InHand(d, n) <=> d = Adding.date /\ n = Adding.drink
  BY <1>1, <1>3, AddingFacts
<1>5. /\ e \in Entries /\ e.drink = Adding.drink
      /\ e.drink = x.drink /\ e.count = x.count + 1 /\ e.amount = x.amount
  <2>1. e = [x EXCEPT !.count = @ + 1] /\ 1 \in Nat
    BY <1>3
  <2> QED  BY <1>4, <2>1, EntryAdded
<1>6. PICK d, a : d = Adding.date /\ a = AddingTo
  OBVIOUS
<1>7. PICK u : u = [by_drink EXCEPT ![d] = [by_drink[d] EXCEPT ![a] = e]] /\ by_drink' = u
  BY <1>1, <1>3, <1>6
<1>8. EntryInv(d, e)'
  <2>1. EntryInv(d, x) /\ InHand(d, x.drink) /\ (InHand(d, e.drink)' <=> InHand(d, e.drink))
    <3>1. EntryInv(d, x)
      BY <1>3, <1>4, <1>6 DEF StoreInv, EntriesInv
    <3>2. InHand(d, x.drink)
      BY <1>4, <1>6
    <3>3. InHand(d, e.drink)' <=> InHand(d, e.drink)
      BY <1>1, <1>2 DEF InHand, vars
    <3> QED  BY <3>1, <3>2, <3>3
  <2>2. Sold(feed', d, e.drink) = Sold(feed, d, e.drink) /\ Paid(feed', recorded') = Paid(feed, recorded)
    BY <1>1, <1>2
  <2> QED  BY <1>1, <1>2, <1>5, <2>1, <2>2 DEF EntryInv
<1>9. EntriesInv'
  BY <1>1, <1>2, <1>5, <1>6, <1>7, <1>8, EntryOfAddingInv
<1>10. LockInv' /\ TreeInv' /\ feed' \in Feeds
  BY <1>1, <1>2 DEF StoreInv, LockInv, TreeInv
<1> QED  BY <1>9, <1>10 DEF StoreInv

LEMMA AddAmountInv == ASSUME SyncInv, StoreInv, AddAmount PROVE StoreInv'
<1>1. /\ adding = "amount" /\ adding' = "nothing" /\ lock' = 0 /\ UNCHANGED <<vars, feed, tree>>
      /\ by_drink' = [by_drink EXCEPT ![Adding.date][AddingTo].amount = @ + Price[Adding.drink]]
  BY DEF AddAmount
<1>2. UNCHANGED <<at, held, recorded>>
  BY <1>1 DEF vars, peerVars
<1>3. PICK x, e, p : /\ x = by_drink[Adding.date][AddingTo] /\ p = Price[Adding.drink]
                     /\ e = [x EXCEPT !.amount = @ + p]
  OBVIOUS
<1>4. /\ Adding.date \in Dates /\ by_drink \in [Dates -> Seq(Entries)]
      /\ AddingTo \in 1 .. Len(by_drink[Adding.date]) /\ p \in Nat
      /\ x \in Entries /\ x.drink = Adding.drink
      /\ \A d, n : InHand(d, n) <=> d = Adding.date /\ n = Adding.drink
  BY <1>1, <1>3, AddingFacts
<1>5. /\ e \in Entries /\ e.drink = Adding.drink
      /\ e.drink = x.drink /\ e.count = x.count /\ e.amount = x.amount + p
  BY <1>3, <1>4, EntryAdded, ZenonT(30)
<1>6. PICK d, a : d = Adding.date /\ a = AddingTo
  OBVIOUS
<1>7. PICK u : u = [by_drink EXCEPT ![d] = [by_drink[d] EXCEPT ![a] = e]] /\ by_drink' = u
  BY <1>1, <1>3, <1>6
<1>8. EntryInv(d, x)
  BY <1>3, <1>4, <1>6 DEF StoreInv, EntriesInv
<1>9. EntryInv(d, e)'
  <2>1. EntryInv(d, x) /\ InHand(d, x.drink) /\ Price[e.drink] = p
    <3>1. InHand(d, x.drink)
      BY <1>4, <1>6
    <3> QED  BY <1>3, <1>5, <1>4, <1>8, <3>1
  <2>2. Sold(feed', d, e.drink) = Sold(feed, d, e.drink) /\ Paid(feed', recorded') = Paid(feed, recorded)
    BY <1>1, <1>2
  <2> QED  BY <1>1, <1>2, <1>5, <2>1, <2>2 DEF EntryInv
<1>10. EntriesInv'
  BY <1>1, <1>2, <1>5, <1>6, <1>7, <1>9, EntryOfAddingInv
<1>11. LockInv' /\ TreeInv' /\ feed' \in Feeds
  <2>1. LockInv'
    <3>1. 0 \in 0 .. MaxConns
      BY SyncConstants
    <3> QED  BY <1>1, <3>1 DEF LockInv
  <2> QED  BY <1>1, <1>2, <2>1 DEF StoreInv, TreeInv
<1> QED  BY <1>10, <1>11 DEF StoreInv


\* The sender, the network and the pushes do not touch what the peer keeps.
LEMMA PeerVarsUnchanged ==
  ASSUME Push \/ SyncSender \/ \E c \in Conns : Reset(c) PROVE UNCHANGED peerVars
<1>1. Push => UNCHANGED peerVars
  BY DEF Push
<1>2. SyncSender => UNCHANGED peerVars
  <2>1. ASSUME NEW c \in Conns, ConnectPeer(c) PROVE UNCHANGED peerVars
    BY <2>1 DEF ConnectPeer
  <2>2. TakeItem \/ SendSync \/ ReadSyncAck => UNCHANGED peerVars
    BY DEF TakeItem, SendSync, ReadSyncAck
  <2>3. SendOrReadFails \/ ReadTimesOut => UNCHANGED peerVars
    BY DEF SendOrReadFails, ReadTimesOut, Fails
  <2> QED  BY <2>1, <2>2, <2>3 DEF SyncSender
<1>3. ASSUME NEW c \in Conns, Reset(c) PROVE UNCHANGED peerVars
  BY <1>3 DEF Reset
<1> QED  BY <1>1, <1>2, <1>3

\* A request of the page changes nothing but its own state.
LEMMA RequestReadsOnly == ASSUME Request PROVE UNCHANGED <<vars, storeVars>>
<1>1. AskBreakdown \/ FirstNode \/ ReadCount \/ ReadAmount \/ NextNode \/ LoopFails \/ Respond
        => UNCHANGED <<vars, storeVars>>
  BY DEF AskBreakdown, FirstNode, ReadCount, ReadAmount, NextNode, LoopFails, Respond
<1>2. AskChart("monthly") \/ AskChart("daily") => UNCHANGED <<vars, storeVars>>
  BY DEF AskChart
<1>3. NextMonth \/ NextDay => UNCHANGED <<vars, storeVars>>
  BY DEF NextMonth, NextDay, NextBar
<1> QED  BY <1>1, <1>2, <1>3 DEF Request

\* A step of the store is one of ServerSync, or leaves its variables alone.
LEMMA PeerStepIsSyncStep == ASSUME [PeerNext]_peerStoreVars PROVE [SyncNext]_vars
<1>1. CASE (Push \/ SyncSender \/ \E c \in Conns : Reset(c)) /\ UNCHANGED <<storeVars, webVars>>
  BY <1>1 DEF SyncNext
<1>2. ASSUME NEW c \in Conns, PeerHandler(c) PROVE [SyncNext]_vars
  <2>1. CASE StartRecord(c)
    BY <2>1 DEF StartRecord, SyncNext, HandlePeer
  <2>2. CASE AddCount \/ AddAmount
    BY <2>2 DEF AddCount, AddAmount
  <2>3. CASE StoreSnapshot(c)
    BY <2>3 DEF StoreSnapshot, SyncNext, HandlePeer
  <2>4. CASE Answer(c)
    BY <2>4 DEF Answer, SyncNext, HandlePeer
  <2> QED  BY <1>2, <2>1, <2>2, <2>3, <2>4 DEF PeerHandler
<1>3. CASE Request
  BY <1>3, RequestReadsOnly
<1>4. CASE UNCHANGED peerStoreVars
  BY <1>4 DEF peerStoreVars
<1> QED  BY <1>1, <1>2, <1>3, <1>4 DEF PeerNext

(* Whatever the store and the page do, the connections and the queue of     *)
(* the machine behave as ServerSync says (server_handler.py:41-131).        *)
THEOREM PeerIsSync == PeerSpec => SyncSpec
<1>1. PeerInit => Init
  BY DEF PeerInit
<1> QED  BY <1>1, PeerStepIsSyncStep, PTL DEF PeerSpec, SyncSpec

LEMMA StoreInvNext == ASSUME SyncInv, StoreInv, [PeerNext]_peerStoreVars PROVE StoreInv'
<1>1. CASE (Push \/ SyncSender \/ \E c \in Conns : Reset(c)) /\ UNCHANGED <<storeVars, webVars>>
  BY <1>1, PeerVarsUnchanged, StoreUnchanged DEF peerVars, storeVars
<1>2. ASSUME NEW c \in Conns, PeerHandler(c) PROVE StoreInv'
  <2>1. CASE StartRecord(c)
    <3>1. feed' = feed /\ feed \in Feeds
      BY <2>1 DEF StartRecord, StoreInv
    <3> QED  BY <2>1, <3>1, StartRecordLock, StartRecordTree, StartRecordEntries DEF StoreInv
  <2>2. CASE AddCount \/ AddAmount
    BY <2>2, AddCountInv, AddAmountInv
  <2>3. CASE StoreSnapshot(c)
    BY <2>3, StoreUnchanged DEF StoreSnapshot, UpdateSnapshot, storeVars
  <2>4. CASE Answer(c)
    <3>1. AnswerSync(c) /\ UNCHANGED storeVars
      BY <2>4 DEF Answer
    <3>2. /\ at[c] = "answer" /\ at' = [at EXCEPT ![c] = "read"] /\ recorded' = recorded
          /\ held' = [held EXCEPT ![c] = 0]
          /\ at \in [Conns -> {"read", "update", "answer"}] /\ held \in [Conns -> 0 .. pushed]
      BY <3>1 DEF AnswerSync, SyncInv, SyncTypeOK
    <3>3. lock # 0 => lock \in Conns /\ lock # c
      BY <3>2, SyncConstants DEF StoreInv, LockInv, Conns
    <3>4. lock # 0 => at'[lock] = at[lock] /\ held'[lock] = held[lock]
      BY <3>2, <3>3
    <3> QED  BY <3>1, <3>2, <3>4, StoreUnchanged DEF storeVars
  <2> QED  BY <1>2, <2>1, <2>2, <2>3, <2>4 DEF PeerHandler
<1>3. CASE Request
  BY <1>3, RequestReadsOnly, StoreUnchanged DEF vars, peerVars, storeVars
<1>4. CASE UNCHANGED peerStoreVars
  BY <1>4, StoreUnchanged DEF peerStoreVars, vars, peerVars, storeVars
<1> QED  BY <1>1, <1>2, <1>3, <1>4 DEF PeerNext

LEMMA StoreInvAlways == PeerSpec => [](SyncInv /\ StoreInv)
<1>1. PeerInit => SyncInv /\ StoreInv
  BY StoreInvInit, SyncInvInit DEF PeerInit
<1>2. SyncInv /\ StoreInv /\ [PeerNext]_peerStoreVars => (SyncInv /\ StoreInv)'
  BY StoreInvNext, SyncInvNext, PeerStepIsSyncStep
<1> QED  BY <1>1, <1>2, PTL DEF PeerSpec


-----------------------------------------------------------------------------
(* The queries. *)

LEMMA AmountIsSum ==
  ASSUME NEW S, NEW times
  PROVE  /\ Amount(S, times) = SumFunctionOnSet(Paid(feed, times), S)
         /\ Count(S, times) = SumFunctionOnSet(times, S)
BY DEF Amount, Count, Paid

\* The total of a day that has a node, and that of one that has none.
LEMMA DayTotals ==
  ASSUME SyncInv, StoreInv, NEW d \in Nat
  PROVE  /\ d \in Keys(tree) <=> \E k \in Items : recorded[k] > 0 /\ feed[k].date = d
         /\ SumFunctionOnSet(Paid(feed, recorded), OnDay(feed, d))
              = IF d \in Keys(tree) THEN tree.nodes[d].sales ELSE 0
<1>1. /\ recorded \in [Items -> Nat] /\ feed \in Feeds
      /\ Keys(tree) = {feed[k].date : k \in {b \in Items : recorded[b] > 0}}
      /\ \A x \in Keys(tree) :
           tree.nodes[x].sales = SumFunctionOnSet(Paid(feed, recorded), OnDay(feed, x))
  BY DEF SyncInv, SyncTypeOK, StoreInv, TreeInv
<1>2. d \in Keys(tree) <=> \E k \in Items : recorded[k] > 0 /\ feed[k].date = d
  BY <1>1
<1>3. ASSUME d \notin Keys(tree)
      PROVE  SumFunctionOnSet(Paid(feed, recorded), OnDay(feed, d)) = 0
  <2> DEFINE S == OnDay(feed, d)
  <2>1. S \in SUBSET Items /\ \A k \in S : recorded[k] = 0
    BY <1>1, <1>2, <1>3 DEF OnDay
  <2> HIDE DEF S
  <2>2. SumFunctionOnSet(Paid(feed, recorded), S) = 0
    BY <1>1, <2>1, NothingRecorded
  <2> QED  BY <2>2 DEF S
<1> QED  BY <1>1, <1>2, <1>3

LEMMA DailySummaryIsSum ==
  ASSUME SyncInv, StoreInv, NEW d \in Nat
  PROVE  daily_summary(d) = SumFunctionOnSet(Paid(feed, recorded), OnDay(feed, d))
<1>1. PICK lo, hi : IsBST(tree, lo, hi)
  BY DEF StoreInv, TreeInv
<1>2. PICK nodes, place : nodes = inorder(tree) /\ place = binary_search_sales(nodes, d)
  OBVIOUS
<1>3. Ascending(nodes, Keys(tree)) /\ Keys(tree) \in SUBSET Nat
  BY <1>1, <1>2, InorderAscends, LimitIsPositive DEF IsBST, IsTree
<1>4. IF d \in Keys(tree) THEN place \in 1 .. Len(nodes) /\ nodes[place] = d ELSE place = 0
  BY <1>2, <1>3, BinarySearchFinds
<1>5. Len(nodes) \in Nat
  BY <1>3, LenProperties DEF Ascending
<1>6. daily_summary(d) = IF place = 0 THEN 0 ELSE tree.nodes[nodes[place]].sales
  BY <1>2 DEF daily_summary
<1>7. daily_summary(d) = IF d \in Keys(tree) THEN tree.nodes[d].sales ELSE 0
  BY <1>4, <1>5, <1>6
<1> QED  BY <1>7, DayTotals

\* The dates of a range with something recorded, in order.
LEMMA RangeIsRecorded ==
  ASSUME SyncInv, StoreInv, NEW first \in Int, NEW last \in Int
  PROVE  Ascending(range_query(tree, first, last),
                   {feed[k].date : k \in {b \in Between(first, last) : recorded[b] > 0}})
<1>1. PICK lo, hi : IsBST(tree, lo, hi)
  BY DEF StoreInv, TreeInv
<1>2. Ascending(range_query(tree, first, last), {d \in Keys(tree) : first <= d /\ d <= last})
  BY <1>1, RangeAscends
<1>3. \A k \in Items : feed[k].date \in Nat
  BY FeedFacts DEF StoreInv
<1>4. Keys(tree) = {feed[k].date : k \in {b \in Items : recorded[b] > 0}}
  BY DEF StoreInv, TreeInv
<1>5. {d \in Keys(tree) : first <= d /\ d <= last}
        = {feed[k].date : k \in {b \in Between(first, last) : recorded[b] > 0}}
  BY <1>3, <1>4 DEF Between
<1> QED  BY <1>2, <1>5

LEMMA MatchesHistory == ASSUME SyncInv, StoreInv PROVE StoreMatchesHistory
<1> SUFFICES ASSUME lock = 0 PROVE StoreMatchesHistory
  BY DEF StoreMatchesHistory
<1>1. /\ adding = "nothing" /\ feed \in Feeds /\ recorded \in [Items -> Nat]
      /\ by_drink \in [Dates -> Seq(Entries)]
  BY DEF StoreInv, LockInv, EntriesInv, SyncInv, SyncTypeOK
<1>2. \A k \in Items : feed[k].date \in Nat
  BY <1>1, FeedFacts
<1>3. ASSUME NEW d \in Dates
      PROVE  /\ daily_summary(d) = Amount(Between(d, d), recorded)
             /\ LET node == search(tree, d)
                IN  daily_summary(d) = IF node = None THEN 0 ELSE tree.nodes[node].sales
  <2>1. d \in Nat /\ d # None
    BY DateNumbers DEF None
  <2>2. Between(d, d) = OnDay(feed, d)
    BY <1>2, <2>1 DEF Between, OnDay
  <2>3. daily_summary(d) = Amount(Between(d, d), recorded)
    BY <2>1, <2>2, DailySummaryIsSum, AmountIsSum
  <2>4. search(tree, d) = IF d \in Keys(tree) THEN d ELSE None
    BY <2>1, SearchFinds DEF StoreInv, TreeInv
  <2>5. daily_summary(d) = IF d \in Keys(tree) THEN tree.nodes[d].sales ELSE 0
    BY <2>1, DailySummaryIsSum, DayTotals
  <2> QED  BY <2>1, <2>3, <2>4, <2>5
<1>4. ASSUME NEW d \in Dates, NEW n \in Drinks
      PROVE  LET items == {k \in Between(d, d) : feed[k].drink = n}
                 found == {i \in DOMAIN by_drink[d] : by_drink[d][i].drink = n}
             IN  IF Count(items, recorded) = 0 THEN found = {}
                 ELSE \E i \in found :
                        /\ found = {i}
                        /\ by_drink[d][i].count = Count(items, recorded)
                        /\ by_drink[d][i].amount = Amount(items, recorded)
  <2> DEFINE items == {k \in Between(d, d) : feed[k].drink = n}
             found == {i \in DOMAIN by_drink[d] : by_drink[d][i].drink = n}
             S == Sold(feed, d, n)
  <2>1. items = S /\ S \in SUBSET Items
    BY <1>2, DateNumbers DEF Between, Sold
  <2>2. DOMAIN by_drink[d] = 1 .. Len(by_drink[d])
    BY <1>1, LenProperties
  <2>3. /\ Distinct(by_drink[d])
        /\ (\E i \in 1 .. Len(by_drink[d]) : by_drink[d][i].drink = n)
             <=> \E k \in S : recorded[k] > 0
        /\ \A i \in 1 .. Len(by_drink[d]) : EntryInv(d, by_drink[d][i])
    BY DEF StoreInv, EntriesInv
  <2>4. SumFunctionOnSet(recorded, S) = 0 <=> \A k \in S : recorded[k] = 0
    <3> HIDE DEF S
    <3> QED  BY <1>1, <2>1, NothingRecorded
  <2>5. Count(items, recorded) = 0 <=> found = {}
    <3>1. Count(items, recorded) = SumFunctionOnSet(recorded, S)
      BY <2>1, AmountIsSum
    <3>2. (\E k \in S : recorded[k] > 0) <=> ~ \A k \in S : recorded[k] = 0
      BY <1>1, <2>1
    <3>3. found = {} <=> ~ \E i \in 1 .. Len(by_drink[d]) : by_drink[d][i].drink = n
      BY <2>2
    <3> HIDE DEF found, items, S
    <3> QED  BY <2>3, <2>4, <3>1, <3>2, <3>3
  <2>6. ASSUME NEW i \in found
        PROVE  /\ found = {i}
               /\ by_drink[d][i].count = Count(items, recorded)
               /\ by_drink[d][i].amount = Amount(items, recorded)
    <3>1. i \in 1 .. Len(by_drink[d]) /\ by_drink[d][i].drink = n
      BY <2>2
    <3>2. found = {i}
      BY <2>2, <2>3, <3>1 DEF Distinct
    <3>3. PICK e : e = by_drink[d][i]
      OBVIOUS
    <3>4. EntryInv(d, e) /\ e.drink = n
      BY <2>3, <3>1, <3>3
    <3>5. /\ e.count = SumFunctionOnSet(recorded, S)
          /\ e.amount = SumFunctionOnSet(Paid(feed, recorded), S)
      BY <1>1, <3>4 DEF EntryInv
    <3>6. /\ Count(items, recorded) = SumFunctionOnSet(recorded, S)
          /\ Amount(items, recorded) = SumFunctionOnSet(Paid(feed, recorded), S)
      BY <2>1, AmountIsSum
    <3> HIDE DEF found, items, S
    <3> QED  BY <3>2, <3>3, <3>5, <3>6
  <2> HIDE DEF found, items, S
  <2>7. IF Count(items, recorded) = 0 THEN found = {}
        ELSE \E i \in found :
               /\ found = {i}
               /\ by_drink[d][i].count = Count(items, recorded)
               /\ by_drink[d][i].amount = Amount(items, recorded)
    BY <2>5, <2>6
  <2> QED  BY <2>7 DEF found, items
<1>5. ASSUME NEW first \in Dates, NEW last \in Dates
      PROVE  LET nodes == range_query(tree, first, last)
             IN  /\ {nodes[i] : i \in DOMAIN nodes}
                      = {feed[k].date : k \in {b \in Between(first, last) : recorded[b] > 0}}
                 /\ \A i \in 2 .. Len(nodes) : nodes[i - 1] < nodes[i]
  <2>1. first \in Int /\ last \in Int
    BY DateNumbers
  <2>2. PICK nodes, S :
          /\ nodes = range_query(tree, first, last)
          /\ S = {feed[k].date : k \in {b \in Between(first, last) : recorded[b] > 0}}
    OBVIOUS
  <2>3. Ascending(nodes, S)
    BY <2>1, <2>2, RangeIsRecorded
  <2>4. nodes \in Seq(S) /\ DOMAIN nodes = 1 .. Len(nodes) /\ Len(nodes) \in Nat
    BY <2>3, LenProperties DEF Ascending
  <2>5. {nodes[i] : i \in DOMAIN nodes} = S
    <3>1. \A i \in 1 .. Len(nodes) : nodes[i] \in S
      BY <2>4, ElementOfSeq
    <3> QED  BY <2>3, <2>4, <3>1 DEF Ascending
  <2>6. ASSUME NEW i \in 2 .. Len(nodes) PROVE nodes[i - 1] < nodes[i]
    <3>1. i - 1 \in 1 .. Len(nodes) /\ i \in 1 .. Len(nodes) /\ i - 1 < i
      BY <2>4
    <3> QED  BY <2>3, <3>1 DEF Ascending
  <2> QED  BY <2>2, <2>5, <2>6
<1> QED  BY <1>3, <1>4, <1>5, Zenon DEF StoreMatchesHistory

(* Whenever the lock is free, the queries find what was recorded, whatever  *)
(* the order of the dates, and each day has one entry for each drink, with  *)
(* its count and amount (server_db.py:18-58, sales_tree.py:29-98,           *)
(* sort_search.py:47-58).                                                   *)
THEOREM StoreMatches == PeerSpec => []StoreMatchesHistory
BY StoreInvAlways, MatchesHistory, PTL


-----------------------------------------------------------------------------
(* The requests of the page. *)

\* The value lies between the sum of f and that of g over some items.
Within(value, f, g, S) == SumFunctionOnSet(f, S) <= value /\ value <= SumFunctionOnSet(g, S)

PaidWithin(value, S) == Within(value, Paid(feed, asked), Paid(feed, recorded), S)

\* The numbers of the dates of this year are among these.
YearDates == Year * 10000 .. Year * 10000 + 9999

ThisYear == {k \in Items : feed[k].date \in YearDates}

Bars == IF web.kind = "monthly" THEN Months ELSE Len(Days)

Reading == web.at \in {"nodes", "items", "amount"}

WebTypeInv ==
  /\ web \in [at : {"idle", "nodes", "items", "amount", "chart", "done", "failed"},
              kind : {"breakdown", "monthly", "daily"},
              nodes : Seq(Dates), i : Nat \ {0}, j : Nat \ {0}, size : Nat,
              count : [Drinks -> Nat], amount : [Drinks -> Nat], values : Seq(Nat)]
  /\ web.j <= web.size + 1
  /\ asked \in [Items -> Nat]

\* Where a request of each kind may stand.
RequestInv ==
  /\ web.at = "idle" => web = NoRequest
  /\ web.at # "idle" => \A k \in Items : asked[k] <= recorded[k]
  /\ Reading \/ web.at = "failed" => web.kind = "breakdown"
  /\ web.kind = "breakdown" => web.values = << >>
  /\ web.kind # "breakdown" => Len(web.values) <= Bars
  /\ web.at = "chart" => web.kind # "breakdown" /\ Len(web.values) < Bars

\* The nodes have the dates of this year on which something was sold before the
\* request, each once, and the entries have at least what was sold until then.
NodesInv ==
  Reading =>
    /\ \A x \in 1 .. Len(web.nodes) : web.nodes[x] \in YearDates
    /\ \A x, y \in 1 .. Len(web.nodes) : x < y => web.nodes[x] < web.nodes[y]
    /\ \A k \in ThisYear : asked[k] > 0 => \E x \in 1 .. Len(web.nodes) : web.nodes[x] = feed[k].date
    /\ \A d \in Dates : \A y \in 1 .. Len(by_drink[d]) :
         LET e == by_drink[d][y]
         IN  /\ SumFunctionOnSet(asked, Sold(feed, d, e.drink)) <= e.count
             /\ SumFunctionOnSet(Paid(feed, asked), Sold(feed, d, e.drink)) <= e.amount

\* The entries beyond the size the dictionary had are of drinks that were first
\* sold after the request.
PlaceInv ==
  /\ web.at = "nodes" => web.i = 1 /\ web.j = 1
  /\ web.at \in {"items", "amount"} =>
       /\ web.i <= Len(web.nodes) /\ web.size <= Len(Dict)
       /\ \A y \in 1 .. Len(Dict) : y > web.size =>
            \A k \in Sold(feed, web.nodes[web.i], Dict[y].drink) : asked[k] = 0
  /\ web.at = "amount" => web.j <= web.size

\* The items of drink n in the nodes read, and in the first entries of the node
\* being read.
ReadItems(n, upto) ==
  {k \in Items :
     /\ feed[k].drink = n
     /\ \/ \E x \in 1 .. web.i - 1 : web.nodes[x] = feed[k].date
        \/ /\ web.at # "nodes" /\ feed[k].date = web.nodes[web.i]
           /\ \E y \in 1 .. upto : Dict[y].drink = n}

CountedUpTo == IF web.at = "amount" THEN web.j ELSE web.j - 1

\* What was added up so far.
TallyInv ==
  Reading =>
    \A n \in Drinks :
      /\ Within(web.count[n], asked, recorded, ReadItems(n, CountedUpTo))
      /\ PaidWithin(web.amount[n], ReadItems(n, web.j - 1))

YearSold(n) == {k \in ThisYear : feed[k].drink = n}

\* What the answer has.
DoneInv ==
  web.at = "done" /\ web.kind = "breakdown" =>
    \A n \in Drinks : /\ Within(web.count[n], asked, recorded, YearSold(n))
                      /\ PaidWithin(web.amount[n], YearSold(n))

BarItems(i) ==
  LET back  == Months - i
      year  == IF back < Month THEN Year ELSE Year - 1
      month == IF back < Month THEN Month - back ELSE Month - back + 12
  IN  IF web.kind = "daily" THEN Between(Days[i], Days[i])
      ELSE Between(year * 10000 + month * 100, year * 10000 + month * 100 + 99)

\* The bars so far.
BarsInv ==
  web.at \in {"chart", "done"} /\ web.kind # "breakdown" =>
    \A i \in 1 .. Len(web.values) : PaidWithin(web.values[i], BarItems(i))

\* The inductive invariant of the requests.
WebInv ==
  /\ WebTypeInv /\ RequestInv /\ NodesInv /\ PlaceInv /\ TallyInv /\ BarsInv
  /\ DoneInv /\ BreakdownFailsOnlyOnFirstSale

\* The store has more than before: sales, entries, and what the entries have.
\* A new entry is of a drink that had not been sold that day.
Grows ==
  /\ feed' = feed
  /\ \A k \in Items : recorded[k] <= recorded'[k]
  /\ \A d \in Dates :
       /\ Len(by_drink[d]) <= Len(by_drink'[d])
       /\ \A y \in 1 .. Len(by_drink[d]) :
            /\ by_drink'[d][y].drink = by_drink[d][y].drink
            /\ by_drink[d][y].count <= by_drink'[d][y].count
            /\ by_drink[d][y].amount <= by_drink'[d][y].amount
       /\ \A y \in 1 .. Len(by_drink'[d]) : y > Len(by_drink[d]) =>
            \A k \in Sold(feed, d, by_drink'[d][y].drink) : recorded[k] = 0

-----------------------------------------------------------------------------
(* Sums over the items. *)

LEMMA WithinGrows ==
  ASSUME NEW S \in SUBSET Items, NEW f \in Feeds, NEW v \in Nat,
         NEW a \in [Items -> Nat], NEW r \in [Items -> Nat], NEW r2 \in [Items -> Nat],
         \A k \in Items : r[k] <= r2[k]
  PROVE  /\ Within(v, a, r, S) => Within(v, a, r2, S)
         /\ Within(v, Paid(f, a), Paid(f, r), S) => Within(v, Paid(f, a), Paid(f, r2), S)
<1>1. IsFiniteSet(S)
  BY ItemsFinite
<1>2. \A k \in S : /\ r[k] \in Nat /\ r2[k] \in Nat /\ r[k] <= r2[k]
                   /\ Paid(f, r)[k] \in Nat /\ Paid(f, r2)[k] \in Nat
                   /\ Paid(f, r)[k] <= Paid(f, r2)[k]
  BY PaidFacts
<1>3. SumFunctionOnSet(r, S) <= SumFunctionOnSet(r2, S)
  BY <1>1, <1>2, SumOnSetGrows
<1>4. SumFunctionOnSet(Paid(f, r), S) <= SumFunctionOnSet(Paid(f, r2), S)
  BY <1>1, <1>2, SumOnSetGrows
<1>5. /\ SumFunctionOnSet(r, S) \in Nat /\ SumFunctionOnSet(r2, S) \in Nat
      /\ SumFunctionOnSet(Paid(f, r), S) \in Nat /\ SumFunctionOnSet(Paid(f, r2), S) \in Nat
  BY <1>1, <1>2, SumOnSetFacts
<1> QED  BY <1>3, <1>4, <1>5 DEF Within

\* Two sets of items, each with its part of the value.
LEMMA WithinBoth ==
  ASSUME NEW S \in SUBSET Items, NEW T \in SUBSET Items, S \cap T = {},
         NEW f, NEW g, \A k \in Items : f[k] \in Nat /\ g[k] \in Nat,
         NEW v \in Nat, NEW w \in Nat, Within(v, f, g, S), Within(w, f, g, T)
  PROVE  Within(v + w, f, g, S \cup T)
<1>1. IsFiniteSet(S) /\ IsFiniteSet(T)
  BY ItemsFinite
<1>2. /\ SumFunctionOnSet(f, S \cup T) = SumFunctionOnSet(f, S) + SumFunctionOnSet(f, T)
      /\ SumFunctionOnSet(g, S \cup T) = SumFunctionOnSet(g, S) + SumFunctionOnSet(g, T)
  BY <1>1, SumOnSetUnion
<1>3. /\ SumFunctionOnSet(f, S) \in Nat /\ SumFunctionOnSet(f, T) \in Nat
      /\ SumFunctionOnSet(g, S) \in Nat /\ SumFunctionOnSet(g, T) \in Nat
  BY <1>1, SumOnSetFacts
<1> QED  BY <1>2, <1>3 DEF Within

\* Items with nothing of f do not matter to the lower bound.
LEMMA WithinNothing ==
  ASSUME NEW S \in SUBSET Items, NEW T \in SUBSET Items, S \cap T = {},
         NEW f, NEW g, \A k \in Items : f[k] \in Nat /\ g[k] \in Nat,
         \A k \in T : f[k] = 0, NEW v \in Nat, Within(v, f, g, S)
  PROVE  Within(v, f, g, S \cup T)
<1>1. IsFiniteSet(S) /\ IsFiniteSet(T)
  BY ItemsFinite
<1>2. /\ SumFunctionOnSet(f, S \cup T) = SumFunctionOnSet(f, S) + SumFunctionOnSet(f, T)
      /\ SumFunctionOnSet(g, S \cup T) = SumFunctionOnSet(g, S) + SumFunctionOnSet(g, T)
  BY <1>1, SumOnSetUnion
<1>3. /\ SumFunctionOnSet(f, S) \in Nat
      /\ SumFunctionOnSet(g, S) \in Nat /\ SumFunctionOnSet(g, T) \in Nat
  BY <1>1, SumOnSetFacts
<1>4. SumFunctionOnSet(f, T) = 0
  BY <1>1, SumOnSetZero
<1> QED  BY <1>2, <1>3, <1>4 DEF Within


-----------------------------------------------------------------------------
(* The store's steps, seen by a request. *)

LEMMA StoreSame ==
  ASSUME SyncInv, StoreInv, UNCHANGED <<feed, recorded, by_drink>> PROVE Grows
<1>1. recorded \in [Items -> Nat] /\ by_drink \in [Dates -> Seq(Entries)]
  BY DEF SyncInv, SyncTypeOK, StoreInv, EntriesInv
<1>2. \A d \in Dates : /\ Len(by_drink[d]) \in Nat
                       /\ \A y \in 1 .. Len(by_drink[d]) : by_drink[d][y] \in Entries
  BY <1>1, LenProperties, ElementOfSeq
<1>3. \A k \in Items : recorded[k] <= recorded'[k]
  BY <1>1
<1>4. ASSUME NEW d \in Dates
      PROVE  /\ Len(by_drink[d]) <= Len(by_drink'[d])
             /\ \A y \in 1 .. Len(by_drink[d]) :
                  /\ by_drink'[d][y].drink = by_drink[d][y].drink
                  /\ by_drink[d][y].count <= by_drink'[d][y].count
                  /\ by_drink[d][y].amount <= by_drink'[d][y].amount
             /\ \A y \in 1 .. Len(by_drink'[d]) : ~ (y > Len(by_drink[d]))
  BY <1>2 DEF Entries
<1> QED  BY <1>3, <1>4 DEF Grows

LEMMA StartRecordGrows ==
  ASSUME SyncInv, StoreInv, NEW c \in Conns, StartRecord(c) PROVE Grows
<1> DEFINE k == sync[c]
           date == feed[k].date
           drink == feed[k].drink
           old == by_drink[date]
           new == SetDefault(old, drink)
<1>1. /\ k \in Items /\ recorded \in [Items -> Nat]
      /\ recorded' = [recorded EXCEPT ![k] = @ + 1]
      /\ feed' = feed /\ date \in Dates /\ drink \in Drinks
      /\ by_drink' = [by_drink EXCEPT ![date] = new]
  BY StartRecordFacts
<1>2. /\ by_drink \in [Dates -> Seq(Entries)]
      /\ \A d \in Dates : Distinct(by_drink[d])
      /\ (\E i \in 1 .. Len(old) : old[i].drink = drink)
           <=> \E b \in Sold(feed, date, drink) : recorded[b] > 0
  BY <1>1 DEF StoreInv, EntriesInv
<1>3. \A d \in Dates : /\ Len(by_drink[d]) \in Nat
                       /\ \A y \in 1 .. Len(by_drink[d]) : by_drink[d][y] \in Entries
  BY <1>2, LenProperties, ElementOfSeq
<1>4. \/ new = old
      \/ /\ \A i \in 1 .. Len(old) : old[i].drink # drink
         /\ Len(new) = Len(old) + 1
         /\ \A i \in 1 .. Len(old) : new[i] = old[i]
         /\ new[Len(old) + 1] = Entry(drink)
  <2>1. old \in Seq(Entries) /\ Distinct(old)
    BY <1>1, <1>2
  <2> HIDE DEF old, drink
  <2> QED  BY <1>1, <2>1, SetDefaultFacts
<1> HIDE DEF new
<1>5. by_drink'[date] = new /\ \A d \in Dates : d # date => by_drink'[d] = by_drink[d]
  BY <1>1, <1>2
<1>6. \A b \in Items : recorded[b] <= recorded'[b]
  BY <1>1
<1>7. ASSUME NEW d \in Dates
      PROVE  /\ Len(by_drink[d]) <= Len(by_drink'[d])
             /\ \A y \in 1 .. Len(by_drink[d]) :
                  /\ by_drink'[d][y].drink = by_drink[d][y].drink
                  /\ by_drink[d][y].count <= by_drink'[d][y].count
                  /\ by_drink[d][y].amount <= by_drink'[d][y].amount
             /\ \A y \in 1 .. Len(by_drink'[d]) : y > Len(by_drink[d]) =>
                  \A b \in Sold(feed, d, by_drink'[d][y].drink) : recorded[b] = 0
  <2>1. CASE by_drink'[d] = by_drink[d]
    BY <1>3, <2>1 DEF Entries
  <2>2. CASE by_drink'[d] # by_drink[d]
    <3>1. d = date /\ new # old
      BY <1>5, <2>2
    <3>2. /\ by_drink'[d] = new /\ by_drink[d] = old
          /\ \A i \in 1 .. Len(old) : old[i].drink # drink
          /\ Len(new) = Len(old) + 1
          /\ \A i \in 1 .. Len(old) : new[i] = old[i]
          /\ new[Len(old) + 1].drink = drink
      <4>1. by_drink'[d] = new /\ by_drink[d] = old
        BY <1>5, <3>1
      <4>2. Entry(drink).drink = drink
        BY DEF Entry
      <4> HIDE DEF old, drink, date, k
      <4> QED  BY <1>4, <3>1, <4>1, <4>2
    <3>3. \A b \in Sold(feed, d, drink) : recorded[b] = 0
      <4>1. \A b \in Sold(feed, d, drink) : ~ (recorded[b] > 0)
        BY <1>2, <3>1, <3>2
      <4> QED  BY <1>1, <4>1 DEF Sold
    <3>4. Len(old) \in Nat /\ \A y \in 1 .. Len(old) : old[y] \in Entries
      BY <1>3, <3>2
    <3> HIDE DEF old, drink, date, k
    <3>5. Len(old) <= Len(new) /\ \A y \in 1 .. Len(new) : y > Len(old) => y = Len(old) + 1
      BY <3>2, <3>4
    <3>6. \A y \in 1 .. Len(old) : /\ new[y].drink = old[y].drink
                                   /\ old[y].count <= new[y].count
                                   /\ old[y].amount <= new[y].amount
      BY <3>2, <3>4 DEF Entries
    <3> QED  BY <3>2, <3>3, <3>5, <3>6
  <2> QED  BY <2>1, <2>2
<1> QED  BY <1>1, <1>6, <1>7 DEF Grows

LEMMA AddGrows ==
  ASSUME SyncInv, StoreInv, AddCount \/ AddAmount PROVE Grows
<1>1. adding # "nothing" /\ UNCHANGED <<feed, recorded>>
  BY DEF AddCount, AddAmount, vars, peerVars
<1>2. PICK d, a, x, p :
        /\ d = Adding.date /\ a = AddingTo /\ x = by_drink[d][a] /\ p = Price[Adding.drink]
  OBVIOUS
<1>3. /\ recorded \in [Items -> Nat]
      /\ d \in Dates /\ p \in Nat /\ by_drink \in [Dates -> Seq(Entries)]
      /\ a \in 1 .. Len(by_drink[d]) /\ x \in Entries
  BY <1>1, <1>2, AddingFacts
<1>4. PICK e \in Entries :
        /\ e.drink = x.drink /\ x.count <= e.count /\ x.amount <= e.amount
        /\ by_drink' = [by_drink EXCEPT ![d] = [by_drink[d] EXCEPT ![a] = e]]
  <2>1. CASE AddCount
    <3>1. PICK e : e = [x EXCEPT !.count = @ + 1]
      OBVIOUS
    <3>2. /\ e \in Entries /\ e.drink = x.drink /\ e.count = x.count + 1 /\ e.amount = x.amount
          /\ x.count \in Nat /\ x.amount \in Nat
      <4>1. 1 \in Nat
        OBVIOUS
      <4> QED  BY <1>3, <3>1, <4>1, EntryAdded DEF Entries
    <3>3. by_drink' = [by_drink EXCEPT ![d] = [by_drink[d] EXCEPT ![a] = e]]
      BY <1>2, <2>1, <3>1 DEF AddCount
    <3>4. x.count <= e.count /\ x.amount <= e.amount
      BY <3>2
    <3> QED  BY <3>2, <3>3, <3>4
  <2>2. CASE AddAmount
    <3>1. PICK e : e = [x EXCEPT !.amount = @ + p]
      OBVIOUS
    <3>2. /\ e \in Entries /\ e.drink = x.drink /\ e.count = x.count /\ e.amount = x.amount + p
          /\ x.count \in Nat /\ x.amount \in Nat
      BY <1>3, <3>1, EntryAdded DEF Entries
    <3>3. by_drink' = [by_drink EXCEPT ![d] = [by_drink[d] EXCEPT ![a] = e]]
      BY <1>2, <2>2, <3>1 DEF AddAmount
    <3>4. x.count <= e.count /\ x.amount <= e.amount
      BY <1>3, <3>2
    <3> QED  BY <3>2, <3>3, <3>4
  <2> QED  BY <2>1, <2>2
<1>5. PICK u : by_drink' = u /\ u = [by_drink EXCEPT ![d] = [by_drink[d] EXCEPT ![a] = e]]
  BY <1>4
<1>6. /\ \A z \in Dates : /\ Len(u[z]) = Len(by_drink[z])
                          /\ \A i \in 1 .. Len(by_drink[z]) : u[z][i].drink = by_drink[z][i].drink
                          /\ \A i \in 1 .. Len(by_drink[z]) :
                               z # d \/ i # a => u[z][i] = by_drink[z][i]
      /\ u[d][a] = e
  BY <1>2, <1>3, <1>4, <1>5, EntryChanged
<1>7. \A z \in Dates : /\ Len(by_drink[z]) \in Nat
                       /\ \A y \in 1 .. Len(by_drink[z]) : by_drink[z][y] \in Entries
  BY <1>3, LenProperties, ElementOfSeq
<1>8. ASSUME NEW z \in Dates
      PROVE  /\ Len(by_drink[z]) <= Len(by_drink'[z])
             /\ \A y \in 1 .. Len(by_drink[z]) :
                  /\ by_drink'[z][y].drink = by_drink[z][y].drink
                  /\ by_drink[z][y].count <= by_drink'[z][y].count
                  /\ by_drink[z][y].amount <= by_drink'[z][y].amount
             /\ \A y \in 1 .. Len(by_drink'[z]) : ~ (y > Len(by_drink[z]))
  <2>1. \A y \in 1 .. Len(by_drink[z]) :
          \/ z = d /\ y = a /\ u[z][y] = e /\ by_drink[z][y] = x
          \/ u[z][y] = by_drink[z][y]
    BY <1>2, <1>6
  <2>2. \A y \in 1 .. Len(by_drink[z]) :
          /\ u[z][y].drink = by_drink[z][y].drink
          /\ by_drink[z][y].count <= u[z][y].count
          /\ by_drink[z][y].amount <= u[z][y].amount
    BY <1>4, <1>6, <1>7, <2>1, SMTT(30) DEF Entries
  <2> QED  BY <1>5, <1>6, <1>7, <2>2
<1>9. \A k \in Items : recorded[k] <= recorded'[k]
  BY <1>1, <1>3
<1> QED  BY <1>1, <1>8, <1>9 DEF Grows

\* A step that is not one of the page leaves the page alone, and the store grows.
LEMMA StoreStepGrows ==
  ASSUME SyncInv, StoreInv, [PeerNext]_peerStoreVars
  PROVE  \/ Grows /\ UNCHANGED <<web, asked>>
         \/ Request
<1>1. CASE (Push \/ SyncSender \/ \E c \in Conns : Reset(c)) /\ UNCHANGED <<storeVars, webVars>>
  BY <1>1, PeerVarsUnchanged, StoreSame DEF peerVars, storeVars, webVars
<1>2. ASSUME NEW c \in Conns, PeerHandler(c) PROVE Grows /\ UNCHANGED <<web, asked>>
  <2>1. CASE StartRecord(c)
    <3>1. UNCHANGED <<web, asked>>
      BY <2>1 DEF StartRecord, webVars
    <3> QED  BY <2>1, <3>1, StartRecordGrows
  <2>2. CASE AddCount \/ AddAmount
    <3>1. UNCHANGED <<web, asked>>
      BY <2>2 DEF AddCount, AddAmount, webVars
    <3> QED  BY <2>2, <3>1, AddGrows
  <2>3. CASE StoreSnapshot(c)
    BY <2>3, StoreSame DEF StoreSnapshot, UpdateSnapshot, storeVars, webVars
  <2>4. CASE Answer(c)
    BY <2>4, StoreSame DEF Answer, AnswerSync, storeVars, webVars
  <2> QED  BY <1>2, <2>1, <2>2, <2>3, <2>4 DEF PeerHandler
<1>3. CASE UNCHANGED peerStoreVars
  BY <1>3, StoreSame DEF peerStoreVars, vars, peerVars, storeVars, webVars
<1> QED  BY <1>1, <1>2, <1>3 DEF PeerNext


-----------------------------------------------------------------------------
(* The store's steps keep the invariant of the requests. *)

LEMMA WebTypes ==
  ASSUME WebTypeInv
  PROVE  /\ web.nodes \in Seq(Dates) /\ Len(web.nodes) \in Nat
         /\ web.i \in Nat /\ web.i >= 1 /\ web.j \in Nat /\ web.j >= 1 /\ web.size \in Nat
         /\ web.j <= web.size + 1
         /\ web.count \in [Drinks -> Nat] /\ web.amount \in [Drinks -> Nat]
         /\ web.values \in Seq(Nat) /\ Len(web.values) \in Nat
         /\ asked \in [Items -> Nat]
<1>1. /\ web.nodes \in Seq(Dates) /\ web.i \in Nat \ {0} /\ web.j \in Nat \ {0} /\ web.size \in Nat
      /\ web.j <= web.size + 1
      /\ web.count \in [Drinks -> Nat] /\ web.amount \in [Drinks -> Nat]
      /\ web.values \in Seq(Nat) /\ asked \in [Items -> Nat]
  BY DEF WebTypeInv
<1>2. Len(web.nodes) \in Nat /\ Len(web.values) \in Nat
  BY <1>1, LenProperties
<1> QED  BY <1>1, <1>2

\* What is known of the store and of the sums.
LEMMA StoreTypes ==
  ASSUME SyncInv, StoreInv
  PROVE  /\ recorded \in [Items -> Nat] /\ feed \in Feeds
         /\ by_drink \in [Dates -> Seq(Entries)]
         /\ \A d \in Dates : Len(by_drink[d]) \in Nat
         /\ \A d \in Dates : \A y \in 1 .. Len(by_drink[d]) :
              /\ by_drink[d][y] \in Entries /\ by_drink[d][y].drink \in Drinks
              /\ by_drink[d][y].count \in Nat /\ by_drink[d][y].amount \in Nat
<1>1. recorded \in [Items -> Nat] /\ feed \in Feeds /\ by_drink \in [Dates -> Seq(Entries)]
  BY DEF SyncInv, SyncTypeOK, StoreInv, EntriesInv
<1>2. \A d \in Dates : /\ Len(by_drink[d]) \in Nat
                       /\ \A y \in 1 .. Len(by_drink[d]) : by_drink[d][y] \in Entries
  BY <1>1, LenProperties, ElementOfSeq
<1> QED  BY <1>1, <1>2 DEF Entries

LEMMA NodesInvGrows ==
  ASSUME SyncInv, StoreInv, WebInv, SyncInv', StoreInv', Grows, UNCHANGED <<web, asked>>
  PROVE  NodesInv'
<1> SUFFICES ASSUME Reading' PROVE NodesInv'
  BY DEF NodesInv
<1>1. Reading /\ web.at # "idle"
  BY DEF Reading
<1>2. feed \in Feeds /\ feed' = feed /\ asked \in [Items -> Nat] /\ recorded \in [Items -> Nat]
      /\ \A k \in Items : asked[k] <= recorded[k]
  BY <1>1, StoreTypes, WebTypes DEF Grows, WebInv, RequestInv
<1>3. ThisYear' = ThisYear
  BY <1>2 DEF ThisYear
<1>4. /\ \A x \in 1 .. Len(web.nodes) : web.nodes[x] \in YearDates
      /\ \A x, y \in 1 .. Len(web.nodes) : x < y => web.nodes[x] < web.nodes[y]
      /\ \A k \in ThisYear : asked[k] > 0 => \E x \in 1 .. Len(web.nodes) : web.nodes[x] = feed[k].date
      /\ \A d \in Dates : \A y \in 1 .. Len(by_drink[d]) :
           /\ SumFunctionOnSet(asked, Sold(feed, d, by_drink[d][y].drink)) <= by_drink[d][y].count
           /\ SumFunctionOnSet(Paid(feed, asked), Sold(feed, d, by_drink[d][y].drink))
                <= by_drink[d][y].amount
  BY <1>1 DEF WebInv, NodesInv
<1>5. ASSUME NEW d \in Dates, NEW y \in 1 .. Len(by_drink'[d])
      PROVE  /\ SumFunctionOnSet(asked, Sold(feed, d, by_drink'[d][y].drink)) <= by_drink'[d][y].count
             /\ SumFunctionOnSet(Paid(feed, asked), Sold(feed, d, by_drink'[d][y].drink))
                  <= by_drink'[d][y].amount
  <2>1. /\ by_drink' \in [Dates -> Seq(Entries)] /\ Len(by_drink[d]) \in Nat
        /\ \A x \in 1 .. Len(by_drink[d]) : by_drink[d][x].count \in Nat /\ by_drink[d][x].amount \in Nat
    BY StoreTypes DEF StoreInv, EntriesInv
  <2>2. by_drink'[d][y] \in Entries
    BY <2>1, ElementOfSeq
  <2>3. by_drink'[d][y].count \in Nat /\ by_drink'[d][y].amount \in Nat
    BY <2>2 DEF Entries
  <2>4. PICK S \in SUBSET Items : S = Sold(feed, d, by_drink'[d][y].drink)
    BY DEF Sold
  <2>5. SumFunctionOnSet(asked, S) \in Nat /\ SumFunctionOnSet(Paid(feed, asked), S) \in Nat
    <3>1. IsFiniteSet(S) /\ \A k \in S : asked[k] \in Nat /\ Paid(feed, asked)[k] \in Nat
      BY <1>2, ItemsFinite, PaidFacts
    <3> QED  BY <3>1, SumOnSetFacts
  <2>6. CASE y \in 1 .. Len(by_drink[d])
    <3>1. /\ by_drink'[d][y].drink = by_drink[d][y].drink
          /\ by_drink[d][y].count <= by_drink'[d][y].count
          /\ by_drink[d][y].amount <= by_drink'[d][y].amount
      BY <2>6 DEF Grows
    <3>2. /\ SumFunctionOnSet(asked, S) <= by_drink[d][y].count
          /\ SumFunctionOnSet(Paid(feed, asked), S) <= by_drink[d][y].amount
      BY <1>4, <2>4, <2>6, <3>1
    <3> QED  BY <2>1, <2>3, <2>4, <2>5, <2>6, <3>1, <3>2
  <2>7. CASE y \notin 1 .. Len(by_drink[d])
    <3>1. y > Len(by_drink[d])
      BY <2>1, <2>7
    <3>2. \A k \in S : recorded[k] = 0
      BY <2>4, <3>1 DEF Grows
    <3>3. \A k \in S : asked[k] = 0
      BY <1>2, <3>2
    <3>4. SumFunctionOnSet(asked, S) = 0 /\ SumFunctionOnSet(Paid(feed, asked), S) = 0
      BY <1>2, <3>3, NothingRecorded
    <3> QED  BY <2>3, <2>4, <3>4
  <2> QED  BY <2>6, <2>7
<1>6. web' = web /\ asked' = asked
  OBVIOUS
<1> QED  BY <1>2, <1>3, <1>4, <1>5, <1>6 DEF NodesInv

LEMMA PlaceInvGrows ==
  ASSUME SyncInv, StoreInv, WebInv, SyncInv', StoreInv', Grows, UNCHANGED <<web, asked>>
  PROVE  PlaceInv'
<1>1. /\ web.at = "nodes" => web.i = 1 /\ web.j = 1
      /\ web.at = "amount" => web.j <= web.size
  BY DEF WebInv, PlaceInv
<1>2. ASSUME web.at \in {"items", "amount"}
      PROVE  /\ web.i <= Len(web.nodes) /\ web.size <= Len(Dict')
             /\ \A y \in 1 .. Len(Dict') : y > web.size =>
                  \A k \in Sold(feed, web.nodes[web.i], Dict'[y].drink) : asked[k] = 0
  <2>1. PICK d : d = web.nodes[web.i]
    OBVIOUS
  <2>2. Dict = by_drink[d] /\ Dict' = by_drink'[d]
    BY <2>1 DEF Dict
  <2>3. /\ web.i <= Len(web.nodes) /\ web.size <= Len(by_drink[d])
        /\ \A y \in 1 .. Len(by_drink[d]) : y > web.size =>
             \A k \in Sold(feed, d, by_drink[d][y].drink) : asked[k] = 0
    BY <1>2, <2>1, <2>2 DEF WebInv, PlaceInv
  <2>4. web.size \in Nat /\ web.i \in 1 .. Len(web.nodes) /\ web.nodes \in Seq(Dates)
    BY <2>3, WebTypes DEF WebInv
  <2>5. d \in Dates
    BY <2>1, <2>4, ElementOfSeq
  <2>6. /\ Len(by_drink[d]) \in Nat /\ recorded \in [Items -> Nat]
        /\ Len(by_drink'[d]) \in Nat
    <3>1. by_drink' \in [Dates -> Seq(Entries)]
      BY DEF StoreInv, EntriesInv
    <3> QED  BY <2>5, <3>1, StoreTypes, LenProperties
  <2>7. /\ Len(by_drink[d]) <= Len(by_drink'[d])
        /\ \A y \in 1 .. Len(by_drink[d]) : by_drink'[d][y].drink = by_drink[d][y].drink
        /\ \A y \in 1 .. Len(by_drink'[d]) : y > Len(by_drink[d]) =>
             \A k \in Sold(feed, d, by_drink'[d][y].drink) : recorded[k] = 0
    BY <2>5 DEF Grows
  <2>8. \A k \in Items : recorded[k] = 0 => asked[k] = 0
    <3>1. \A k \in Items : asked[k] <= recorded[k] /\ asked[k] \in Nat
      BY <1>2, WebTypes DEF WebInv, RequestInv
    <3> QED  BY <3>1
  <2>9. ASSUME NEW y \in 1 .. Len(by_drink'[d]), y > web.size,
               NEW k \in Sold(feed, d, by_drink'[d][y].drink)
        PROVE  asked[k] = 0
    <3>1. k \in Items
      BY DEF Sold
    <3>2. CASE y \in 1 .. Len(by_drink[d])
      BY <2>3, <2>7, <2>9, <3>2
    <3>3. CASE y \notin 1 .. Len(by_drink[d])
      <4>1. y > Len(by_drink[d])
        BY <2>6, <3>3
      <4> QED  BY <2>7, <2>8, <3>1, <4>1
    <3> QED  BY <3>2, <3>3
  <2>10. web.size <= Len(by_drink'[d])
    BY <2>3, <2>4, <2>6, <2>7
  <2> QED  BY <2>1, <2>2, <2>3, <2>9, <2>10
<1>3. web' = web /\ asked' = asked /\ feed' = feed
  BY DEF Grows
<1> QED  BY <1>1, <1>2, <1>3 DEF PlaceInv


\* What was read stays read: the first entries keep their drinks.
LEMMA TallyInvGrows ==
  ASSUME SyncInv, StoreInv, WebInv, SyncInv', StoreInv', Grows, UNCHANGED <<web, asked>>
  PROVE  TallyInv'
<1> SUFFICES ASSUME Reading', NEW n \in Drinks
             PROVE  /\ Within(web.count[n], asked, recorded, ReadItems(n, CountedUpTo))'
                    /\ PaidWithin(web.amount[n], ReadItems(n, web.j - 1))'
  BY DEF TallyInv
<1>1. Reading /\ web.at # "idle" /\ feed' = feed
  BY DEF Reading, Grows
<1>2. /\ feed \in Feeds /\ asked \in [Items -> Nat] /\ recorded \in [Items -> Nat]
      /\ recorded' \in [Items -> Nat] /\ \A k \in Items : recorded[k] <= recorded'[k]
      /\ web.count[n] \in Nat /\ web.amount[n] \in Nat
  BY <1>1, StoreTypes, WebTypes DEF Grows, WebInv, SyncInv, SyncTypeOK
<1>3. ASSUME NEW upto \in Nat, upto <= web.size PROVE ReadItems(n, upto)' = ReadItems(n, upto)
  <2>1. CASE web.at = "nodes"
    BY <1>1, <2>1 DEF ReadItems
  <2>2. CASE web.at # "nodes"
    <3>1. web.i <= Len(web.nodes) /\ web.size <= Len(Dict)
      BY <1>1, <2>2 DEF WebInv, PlaceInv, Reading
    <3>2. web.nodes[web.i] \in Dates /\ web.size \in Nat
      <4>1. web.i \in 1 .. Len(web.nodes) /\ web.nodes \in Seq(Dates) /\ web.size \in Nat
        BY <3>1, WebTypes DEF WebInv
      <4> QED  BY <4>1, ElementOfSeq
    <3>3. Len(Dict) \in Nat /\ \A y \in 1 .. Len(Dict) : Dict'[y].drink = Dict[y].drink
      BY <3>2, StoreTypes DEF Dict, Grows
    <3>4. \A y \in 1 .. upto : Dict'[y].drink = Dict[y].drink
      BY <1>3, <3>1, <3>2, <3>3
    <3> QED  BY <1>1, <3>4 DEF ReadItems
  <2> QED  BY <2>1, <2>2
<1>4. /\ CountedUpTo \in Nat /\ CountedUpTo <= web.size /\ CountedUpTo' = CountedUpTo
      /\ web.j - 1 \in Nat /\ web.j - 1 <= web.size
  BY WebTypes DEF WebInv, PlaceInv, CountedUpTo
<1>5. PICK S, T : S = ReadItems(n, CountedUpTo) /\ T = ReadItems(n, web.j - 1)
  OBVIOUS
<1>6. S \in SUBSET Items /\ T \in SUBSET Items
  BY <1>5 DEF ReadItems
<1>7. ReadItems(n, CountedUpTo)' = S /\ ReadItems(n, web.j - 1)' = T
  <2>1. PICK x, y : x = CountedUpTo /\ y = web.j - 1
    OBVIOUS
  <2>2. ReadItems(n, x)' = S /\ ReadItems(n, y)' = T
    BY <1>3, <1>4, <1>5, <2>1
  <2>3. CountedUpTo' = x /\ (web.j - 1)' = y
    BY <1>4, <2>1
  <2>4. ReadItems(n, CountedUpTo)' = ReadItems(n, x)' /\ ReadItems(n, web.j - 1)' = ReadItems(n, y)'
    BY <2>3 DEF ReadItems
  <2> QED  BY <2>2, <2>4
<1>8. /\ Within(web.count[n], asked, recorded, S)
      /\ Within(web.amount[n], Paid(feed, asked), Paid(feed, recorded), T)
  BY <1>1, <1>5 DEF WebInv, TallyInv, PaidWithin
<1>9. /\ Within(web.count[n], asked, recorded', S)
      /\ Within(web.amount[n], Paid(feed, asked), Paid(feed, recorded'), T)
  <2>1. PICK a, r, r2, f, v, w :
          /\ a = asked /\ r = recorded /\ r2 = recorded' /\ f = feed
          /\ v = web.count[n] /\ w = web.amount[n]
    OBVIOUS
  <2>2. Within(v, a, r2, S) /\ Within(w, Paid(f, a), Paid(f, r2), T)
    BY <1>2, <1>6, <1>8, <2>1, WithinGrows
  <2> QED  BY <2>1, <2>2
<1>10. web' = web /\ asked' = asked
  OBVIOUS
<1> QED  BY <1>1, <1>7, <1>9, <1>10 DEF Within, PaidWithin

LEMMA AnswersGrow ==
  ASSUME SyncInv, StoreInv, WebInv, SyncInv', StoreInv', Grows, UNCHANGED <<web, asked>>
  PROVE  DoneInv' /\ BarsInv' /\ BreakdownFailsOnlyOnFirstSale'
<1>1. /\ feed' = feed /\ feed \in Feeds /\ asked \in [Items -> Nat] /\ recorded \in [Items -> Nat]
      /\ recorded' \in [Items -> Nat] /\ \A k \in Items : recorded[k] <= recorded'[k]
      /\ web' = web /\ asked' = asked
  BY StoreTypes, WebTypes DEF Grows, WebInv, SyncInv, SyncTypeOK
<1>2. ASSUME NEW S \in SUBSET Items, NEW v \in Nat
      PROVE  /\ Within(v, asked, recorded, S) => Within(v, asked, recorded', S)
             /\ PaidWithin(v, S) => Within(v, Paid(feed, asked), Paid(feed, recorded'), S)
  <2>1. PICK a, r, r2, f : a = asked /\ r = recorded /\ r2 = recorded' /\ f = feed
    OBVIOUS
  <2>2. /\ Within(v, a, r, S) => Within(v, a, r2, S)
        /\ Within(v, Paid(f, a), Paid(f, r), S) => Within(v, Paid(f, a), Paid(f, r2), S)
    BY <1>1, <2>1, WithinGrows
  <2> QED  BY <2>1, <2>2 DEF PaidWithin
<1>3. DoneInv'
  <2> SUFFICES ASSUME web.at = "done", web.kind = "breakdown", NEW n \in Drinks
               PROVE  /\ Within(web.count[n], asked, recorded', YearSold(n)')
                      /\ Within(web.amount[n], Paid(feed, asked), Paid(feed, recorded'), YearSold(n)')
    BY <1>1 DEF DoneInv, PaidWithin
  <2>1. YearSold(n)' = YearSold(n) /\ YearSold(n) \in SUBSET Items
    BY <1>1 DEF YearSold, ThisYear
  <2>2. PICK S \in SUBSET Items : S = YearSold(n)
    BY <2>1
  <2>3. Within(web.count[n], asked, recorded, S) /\ PaidWithin(web.amount[n], S)
    BY <2>2 DEF WebInv, DoneInv
  <2>4. web.count[n] \in Nat /\ web.amount[n] \in Nat
    BY WebTypes DEF WebInv
  <2> QED  BY <1>2, <2>1, <2>2, <2>3, <2>4
<1>4. BarsInv'
  <2> SUFFICES ASSUME web.at \in {"chart", "done"}, web.kind # "breakdown",
                      NEW i \in 1 .. Len(web.values)
               PROVE  Within(web.values[i], Paid(feed, asked), Paid(feed, recorded'), BarItems(i)')
    BY <1>1 DEF BarsInv, PaidWithin
  <2>1. BarItems(i)' = BarItems(i) /\ BarItems(i) \in SUBSET Items
    BY <1>1 DEF BarItems, Between
  <2>2. PICK S \in SUBSET Items : S = BarItems(i)
    BY <2>1
  <2>3. PaidWithin(web.values[i], S)
    BY <2>2 DEF WebInv, BarsInv
  <2>4. web.values[i] \in Nat
    BY WebTypes, ElementOfSeq DEF WebInv
  <2> QED  BY <1>2, <2>1, <2>2, <2>3, <2>4
<1>5. BreakdownFailsOnlyOnFirstSale'
  <2> SUFFICES ASSUME web.at = "failed"
               PROVE  \E k \in Items : /\ recorded'[k] > 0
                                       /\ \A b \in Items : feed[b] = feed[k] => asked[b] = 0
    BY <1>1 DEF BreakdownFailsOnlyOnFirstSale
  <2>1. PICK k \in Items : /\ recorded[k] > 0
                           /\ \A b \in Items : feed[b] = feed[k] => asked[b] = 0
    BY DEF WebInv, BreakdownFailsOnlyOnFirstSale
  <2>2. recorded'[k] > 0
    BY <1>1, <2>1
  <2> QED  BY <2>1, <2>2
<1> QED  BY <1>3, <1>4, <1>5

LEMMA WebInvGrows ==
  ASSUME SyncInv, StoreInv, WebInv, SyncInv', StoreInv', Grows, UNCHANGED <<web, asked>>
  PROVE  WebInv'
<1>1. WebTypeInv'
  BY DEF WebInv, WebTypeInv
<1>2. RequestInv'
  <2>1. /\ asked \in [Items -> Nat] /\ recorded \in [Items -> Nat] /\ recorded' \in [Items -> Nat]
        /\ \A k \in Items : recorded[k] <= recorded'[k]
    BY StoreTypes, WebTypes DEF Grows, WebInv, SyncInv, SyncTypeOK
  <2>2. web.at # "idle" => \A k \in Items : asked[k] <= recorded'[k]
    <3>1. web.at # "idle" => \A k \in Items : asked[k] <= recorded[k]
      BY DEF WebInv, RequestInv
    <3> QED  BY <2>1, <3>1
  <2>3. Bars' = Bars /\ Reading' = Reading
    BY DEF Bars, Reading
  <2> QED  BY <2>2, <2>3 DEF WebInv, RequestInv
<1> QED  BY <1>1, <1>2, NodesInvGrows, PlaceInvGrows, TallyInvGrows, AnswersGrow DEF WebInv


-----------------------------------------------------------------------------
(* The steps of a request. *)

\* The dates of a year are those from its 1st of January to its 31st of December.
LEMMA DatesOfYear ==
  ASSUME NEW d \in Dates, d \in YearDates
  PROVE  d \in Year * 10000 + 101 .. Year * 10000 + 1231
<1>1. /\ d \in Nat /\ (d \div 100) % 100 \in 1 .. 12 /\ d % 100 \in 1 .. 31 /\ Year \in Nat
  BY StoreConstants, SMTT(30) DEF IsDate
<1>2. \A y, e \in Nat : /\ e \in y * 10000 .. y * 10000 + 9999
                        /\ (e \div 100) % 100 \in 1 .. 12 /\ e % 100 \in 1 .. 31
                        => e \in y * 10000 + 101 .. y * 10000 + 1231
  BY SMT
<1> QED  BY <1>1, <1>2 DEF YearDates

LEMMA NodesInYear ==
  ASSUME NEW S, NEW nodes, Ascending(nodes, S),
         \A d \in S : d \in Dates /\ d \in YearDates,
         \A k \in ThisYear : recorded[k] > 0 => feed[k].date \in S
  PROVE  /\ nodes \in Seq(Dates) /\ Len(nodes) \in Nat
         /\ \A x \in 1 .. Len(nodes) : nodes[x] \in YearDates
         /\ \A x, y \in 1 .. Len(nodes) : x < y => nodes[x] < nodes[y]
         /\ \A k \in ThisYear : recorded[k] > 0 => \E x \in 1 .. Len(nodes) : nodes[x] = feed[k].date
<1>1. /\ nodes \in Seq(Dates) /\ Len(nodes) \in Nat
      /\ \A x \in 1 .. Len(nodes) : nodes[x] \in S
      /\ \A x, y \in 1 .. Len(nodes) : x < y => nodes[x] < nodes[y]
      /\ \A d \in S : \E x \in 1 .. Len(nodes) : nodes[x] = d
  <2>1. /\ nodes \in Seq(S)
        /\ \A x, y \in 1 .. Len(nodes) : x < y => nodes[x] < nodes[y]
        /\ \A d \in S : \E x \in 1 .. Len(nodes) : nodes[x] = d
    BY DEF Ascending
  <2>2. S \subseteq Dates
    OBVIOUS
  <2>3. nodes \in Seq(Dates)
    BY <2>1, <2>2, SeqMonotonic
  <2>4. Len(nodes) \in Nat /\ \A x \in 1 .. Len(nodes) : nodes[x] \in S
    BY <2>1, ElementOfSeq, LenProperties
  <2> QED  BY <2>1, <2>3, <2>4
<1>2. \A x \in 1 .. Len(nodes) : nodes[x] \in YearDates
  BY <1>1, Zenon
<1>3. \A k \in ThisYear : recorded[k] > 0 => \E x \in 1 .. Len(nodes) : nodes[x] = feed[k].date
  BY <1>1, Zenon
<1> QED  BY <1>1, <1>2, <1>3

\* The nodes that drink_breakdown gets.
LEMMA NodesOfYear ==
  ASSUME SyncInv, StoreInv, NEW first, NEW last,
         first = Year * 10000 + 101, last = Year * 10000 + 1231,
         NEW nodes, nodes = range_query(tree, first, last)
  PROVE  /\ nodes \in Seq(Dates) /\ Len(nodes) \in Nat
         /\ \A x \in 1 .. Len(nodes) : nodes[x] \in YearDates
         /\ \A x, y \in 1 .. Len(nodes) : x < y => nodes[x] < nodes[y]
         /\ \A k \in ThisYear : recorded[k] > 0 => \E x \in 1 .. Len(nodes) : nodes[x] = feed[k].date
<1> DEFINE S == {feed[k].date : k \in {b \in Between(first, last) : recorded[b] > 0}}
<1>1. /\ Year \in Nat /\ first \in Int /\ last \in Int
      /\ \A k \in Items : feed[k].date \in Dates /\ feed[k].date \in Nat
  BY StoreConstants, FeedFacts DEF StoreInv
<1>2. Ascending(nodes, S)
  BY <1>1, RangeIsRecorded
<1>3. \A d \in S : d \in Dates /\ d \in YearDates
  <2>1. \A d \in S : d \in Dates /\ d \in Nat /\ d \in first .. last
    BY <1>1 DEF Between
  <2>2. \A d \in Nat : d \in first .. last => d \in YearDates
    BY <1>1 DEF YearDates
  <2> QED  BY <2>1, <2>2
<1>4. \A k \in ThisYear : recorded[k] > 0 => feed[k].date \in S
  <2> SUFFICES ASSUME NEW k \in ThisYear, recorded[k] > 0 PROVE feed[k].date \in S
    OBVIOUS
  <2>1. k \in Items /\ feed[k].date \in YearDates
    BY DEF ThisYear
  <2>2. feed[k].date \in first .. last
    BY <1>1, <2>1, DatesOfYear
  <2> QED  BY <2>1, <2>2 DEF Between
<1> HIDE DEF S
<1> QED  BY <1>2, <1>3, <1>4, NodesInYear, SMTT(30)

LEMMA AskBreakdownInv ==
  ASSUME SyncInv, StoreInv, WebInv, AskBreakdown PROVE WebInv'
<1>1. /\ web.at = "idle" /\ lock = 0 /\ asked' = recorded
      /\ web' = [web EXCEPT !.at = "nodes",
                            !.nodes = range_query(tree, Year * 10000 + 101, Year * 10000 + 1231)]
      /\ UNCHANGED <<feed, recorded, by_drink>>
  BY DEF AskBreakdown, vars, peerVars, storeVars
<1>2. web = NoRequest
  BY <1>1 DEF WebInv, RequestInv
<1>3. PICK first, last, nodes :
        /\ first = Year * 10000 + 101 /\ last = Year * 10000 + 1231
        /\ nodes = range_query(tree, first, last)
  OBVIOUS
<1>4. web' = [at |-> "nodes", kind |-> "breakdown", nodes |-> nodes, i |-> 1, j |-> 1, size |-> 0,
              count |-> NoTally, amount |-> NoTally, values |-> << >>]
  <2>1. web' = [web EXCEPT !.at = "nodes", !.nodes = nodes]
    BY <1>1, <1>3
  <2> QED  BY <1>2, <2>1 DEF NoRequest
<1>5. /\ web'.at = "nodes" /\ web'.kind = "breakdown" /\ web'.nodes = nodes
      /\ web'.i = 1 /\ web'.j = 1 /\ web'.size = 0
      /\ web'.count = NoTally /\ web'.amount = NoTally /\ web'.values = << >>
  BY <1>4
<1>6. recorded \in [Items -> Nat]
  BY StoreTypes
<1>7. /\ nodes \in Seq(Dates) /\ Len(nodes) \in Nat
      /\ \A x \in 1 .. Len(nodes) : nodes[x] \in YearDates
      /\ \A x, y \in 1 .. Len(nodes) : x < y => nodes[x] < nodes[y]
      /\ \A k \in ThisYear : recorded[k] > 0 => \E x \in 1 .. Len(nodes) : nodes[x] = feed[k].date
  BY <1>3, NodesOfYear, SMTT(30)
<1>10. WebTypeInv'
  <2>1. NoTally \in [Drinks -> Nat] /\ << >> \in Seq(Nat) /\ asked' \in [Items -> Nat]
    BY <1>1, <1>6, EmptySeq DEF NoTally
  <2>2. web' \in [at : {"idle", "nodes", "items", "amount", "chart", "done", "failed"},
                  kind : {"breakdown", "monthly", "daily"},
                  nodes : Seq(Dates), i : Nat \ {0}, j : Nat \ {0}, size : Nat,
                  count : [Drinks -> Nat], amount : [Drinks -> Nat], values : Seq(Nat)]
    BY <1>4, <1>7, <2>1
  <2> QED  BY <1>5, <2>1, <2>2 DEF WebTypeInv
<1>11. RequestInv'
  BY <1>1, <1>5, <1>6 DEF RequestInv
<1>12. NodesInv'
  <2>1. ThisYear' = ThisYear
    BY <1>1 DEF ThisYear
  <2>4. ASSUME NEW d \in Dates, NEW y \in 1 .. Len(by_drink[d]), NEW e, e = by_drink[d][y]
        PROVE  /\ SumFunctionOnSet(recorded, Sold(feed, d, e.drink)) <= e.count
               /\ SumFunctionOnSet(Paid(feed, recorded), Sold(feed, d, e.drink)) <= e.amount
    <3>1. EntryInv(d, e) /\ adding = "nothing"
      BY <1>1, <2>4 DEF StoreInv, LockInv, EntriesInv
    <3>2. e.count \in Nat /\ e.amount \in Nat
      BY <2>4, StoreTypes
    <3> QED  BY <3>1, <3>2 DEF EntryInv
  <2>5. \A d \in Dates : \A y \in 1 .. Len(by_drink[d]) :
          LET e == by_drink[d][y]
          IN  /\ SumFunctionOnSet(recorded, Sold(feed, d, e.drink)) <= e.count
              /\ SumFunctionOnSet(Paid(feed, recorded), Sold(feed, d, e.drink)) <= e.amount
    BY <2>4
  <2> QED  BY <1>1, <1>5, <1>7, <2>1, <2>5 DEF NodesInv
<1>13. PlaceInv'
  BY <1>5 DEF PlaceInv
<1>14. TallyInv'
  <2>1. ASSUME NEW n \in Drinks, NEW u PROVE ReadItems(n, u)' = {}
    BY <1>5 DEF ReadItems
  <2>2. IsFiniteSet({}) /\ \A f : SumFunctionOnSet(f, {}) = 0
    <3>1. IsFiniteSet({})
      BY FS_EmptySet
    <3>2. ASSUME NEW f PROVE SumFunctionOnSet(f, {}) = 0
      BY <3>1, SumOnSetZero
    <3> QED  BY <3>1, <3>2
  <2>3. CountedUpTo' = 0 /\ (web.j - 1)' = 0
    BY <1>5 DEF CountedUpTo
  <2>4. \A n \in Drinks : NoTally[n] = 0
    BY DEF NoTally
  <2>5. ASSUME NEW n \in Drinks
        PROVE  /\ Within(web.count[n], asked, recorded, ReadItems(n, CountedUpTo))'
               /\ PaidWithin(web.amount[n], ReadItems(n, web.j - 1))'
    <3>1. ReadItems(n, 0)' = {}
      BY <2>1
    <3>2. ReadItems(n, CountedUpTo)' = {} /\ ReadItems(n, web.j - 1)' = {}
      BY <2>3, <3>1 DEF ReadItems
    <3>3. web'.count[n] = 0 /\ web'.amount[n] = 0
      BY <1>5, <2>4
    <3> QED  BY <2>2, <3>2, <3>3 DEF Within, PaidWithin
  <2> QED  BY <2>5 DEF TallyInv
<1>15. DoneInv' /\ BarsInv' /\ BreakdownFailsOnlyOnFirstSale'
  BY <1>5 DEF DoneInv, BarsInv, BreakdownFailsOnlyOnFirstSale
<1> QED  BY <1>10, <1>11, <1>12, <1>13, <1>14, <1>15 DEF WebInv

LEMMA AskChartInv ==
  ASSUME SyncInv, StoreInv, WebInv, NEW kind \in {"monthly", "daily"}, AskChart(kind)
  PROVE  WebInv'
<1>1. /\ web.at = "idle" /\ asked' = recorded
      /\ web' = [web EXCEPT !.at = "chart", !.kind = kind]
      /\ UNCHANGED recorded
  BY DEF AskChart, vars, peerVars
<1>2. web = NoRequest
  BY <1>1 DEF WebInv, RequestInv
<1>3. web' = [at |-> "chart", kind |-> kind, nodes |-> << >>, i |-> 1, j |-> 1, size |-> 0,
              count |-> NoTally, amount |-> NoTally, values |-> << >>]
  BY <1>1, <1>2 DEF NoRequest
<1>4. /\ web'.at = "chart" /\ web'.kind = kind /\ web'.values = << >>
      /\ web'.i = 1 /\ web'.j = 1 /\ web'.size = 0
  BY <1>3
<1>5. recorded \in [Items -> Nat]
  BY StoreTypes
<1>6. WebTypeInv'
  <2>1. /\ NoTally \in [Drinks -> Nat] /\ << >> \in Seq(Nat) /\ << >> \in Seq(Dates)
        /\ asked' \in [Items -> Nat]
    BY <1>1, <1>5, EmptySeq DEF NoTally
  <2>2. web' \in [at : {"idle", "nodes", "items", "amount", "chart", "done", "failed"},
                  kind : {"breakdown", "monthly", "daily"},
                  nodes : Seq(Dates), i : Nat \ {0}, j : Nat \ {0}, size : Nat,
                  count : [Drinks -> Nat], amount : [Drinks -> Nat], values : Seq(Nat)]
    BY <1>3, <2>1
  <2> QED  BY <1>4, <2>1, <2>2 DEF WebTypeInv
<1>7. RequestInv'
  <2>1. Months \in Nat /\ Months > 0 /\ Len(Days) \in Nat /\ Len(Days) > 0
    BY StoreConstants, EmptySeq, LenProperties
  <2>2. Bars' \in Nat /\ Bars' > 0 /\ Len(web'.values) = 0
    BY <1>4, <2>1 DEF Bars
  <2> QED  BY <1>1, <1>4, <1>5, <2>2 DEF RequestInv, Reading
<1>8. NodesInv' /\ PlaceInv' /\ TallyInv' /\ DoneInv' /\ BarsInv' /\ BreakdownFailsOnlyOnFirstSale'
  <2>1. Len(web'.values) = 0 /\ web'.at = "chart"
    BY <1>4
  <2> QED  BY <2>1 DEF NodesInv, PlaceInv, TallyInv, DoneInv, BarsInv, Reading,
                       BreakdownFailsOnlyOnFirstSale
<1> QED  BY <1>6, <1>7, <1>8 DEF WebInv

\* What holds when there is no request.
LEMMA NoRequestInv ==
  ASSUME web = NoRequest, asked = [k \in Items |-> 0]
  PROVE  WebInv
<1>1. /\ NoTally \in [Drinks -> Nat] /\ << >> \in Seq(Nat) /\ << >> \in Seq(Dates)
      /\ asked \in [Items -> Nat]
  BY EmptySeq DEF NoTally
<1>2. web.at = "idle" /\ web.kind = "breakdown" /\ web.values = << >> /\ web.j = 1 /\ web.size = 0
  BY DEF NoRequest
<1>3. WebTypeInv
  <2>1. web \in [at : {"idle", "nodes", "items", "amount", "chart", "done", "failed"},
                 kind : {"breakdown", "monthly", "daily"},
                 nodes : Seq(Dates), i : Nat \ {0}, j : Nat \ {0}, size : Nat,
                 count : [Drinks -> Nat], amount : [Drinks -> Nat], values : Seq(Nat)]
    BY <1>1 DEF NoRequest
  <2> QED  BY <1>1, <1>2, <2>1 DEF WebTypeInv
<1>4. RequestInv
  BY <1>2 DEF RequestInv, Reading
<1>5. NodesInv /\ PlaceInv /\ TallyInv /\ DoneInv /\ BarsInv /\ BreakdownFailsOnlyOnFirstSale
  BY <1>2 DEF NodesInv, PlaceInv, TallyInv, DoneInv, BarsInv, Reading,
              BreakdownFailsOnlyOnFirstSale
<1> QED  BY <1>3, <1>4, <1>5 DEF WebInv


\* The items of drink n in the nodes before the i-th.
BeforeItems(n, i) ==
  {k \in Items : feed[k].drink = n /\ \E x \in 1 .. i - 1 : web.nodes[x] = feed[k].date}

\* While a request reads, what it read is kept in the types that have been said.
LEMMA ReadingFacts ==
  ASSUME SyncInv, StoreInv, WebInv, Reading
  PROVE  /\ web.kind = "breakdown" /\ web.values = << >> /\ web.at # "idle"
         /\ \A k \in Items : asked[k] <= recorded[k] /\ asked[k] \in Nat /\ recorded[k] \in Nat
         /\ \A x, y \in 1 .. Len(web.nodes) : x < y => web.nodes[x] < web.nodes[y]
         /\ \A x \in 1 .. Len(web.nodes) : web.nodes[x] \in Dates /\ web.nodes[x] \in Nat
         /\ \A k \in Items : /\ asked[k] \in Nat /\ recorded[k] \in Nat
                             /\ Paid(feed, asked)[k] \in Nat /\ Paid(feed, recorded)[k] \in Nat
                             /\ asked[k] = 0 => Paid(feed, asked)[k] = 0
<1>1. web.kind = "breakdown" /\ web.values = << >> /\ web.at # "idle"
  BY DEF WebInv, RequestInv, Reading
<1>2. asked \in [Items -> Nat] /\ recorded \in [Items -> Nat] /\ feed \in Feeds
  BY StoreTypes, WebTypes DEF WebInv
<1>3. \A k \in Items : asked[k] <= recorded[k]
  BY <1>1 DEF WebInv, RequestInv
<1>4. \A x, y \in 1 .. Len(web.nodes) : x < y => web.nodes[x] < web.nodes[y]
  BY DEF WebInv, NodesInv
<1>5. \A x \in 1 .. Len(web.nodes) : web.nodes[x] \in Dates
  <2>1. web.nodes \in Seq(Dates)
    BY WebTypes DEF WebInv
  <2> QED  BY <2>1, ElementOfSeq
<1>6. \A k \in Items : /\ Paid(feed, asked)[k] \in Nat /\ Paid(feed, recorded)[k] \in Nat
                       /\ asked[k] = 0 => Paid(feed, asked)[k] = 0
  BY <1>2, PaidFacts
<1> QED  BY <1>1, <1>2, <1>3, <1>4, <1>5, <1>6, DateNumbers

\* An entry has what was recorded of its drink, but for the sale in hand, and
\* at least what was recorded before the request.
LEMMA EntryWithin ==
  ASSUME SyncInv, StoreInv, WebInv, Reading, NEW d \in Dates, NEW y \in 1 .. Len(by_drink[d]),
         NEW e, e = by_drink[d][y]
  PROVE  /\ e.count \in Nat /\ e.amount \in Nat /\ e.drink \in Drinks
         /\ Within(e.count, asked, recorded, Sold(feed, d, e.drink))
         /\ PaidWithin(e.amount, Sold(feed, d, e.drink))
<1>1. e.count \in Nat /\ e.amount \in Nat /\ e.drink \in Drinks /\ feed \in Feeds
  BY StoreTypes
<1>2. EntryInv(d, e)
  BY DEF StoreInv, EntriesInv
<1>3. /\ SumFunctionOnSet(asked, Sold(feed, d, e.drink)) <= e.count
      /\ SumFunctionOnSet(Paid(feed, asked), Sold(feed, d, e.drink)) <= e.amount
  BY DEF WebInv, NodesInv
<1>4. PICK S \in SUBSET Items : S = Sold(feed, d, e.drink)
  BY DEF Sold
<1>5. SumFunctionOnSet(recorded, S) \in Nat /\ SumFunctionOnSet(Paid(feed, recorded), S) \in Nat
  <2>1. IsFiniteSet(S) /\ \A k \in S : recorded[k] \in Nat /\ Paid(feed, recorded)[k] \in Nat
    BY ItemsFinite, ReadingFacts
  <2> QED  BY <2>1, SumOnSetFacts
<1>6. Price[e.drink] \in Nat
  BY <1>1, StoreConstants
<1>7. e.count <= SumFunctionOnSet(recorded, S)
  <2>1. \/ e.count + 1 = SumFunctionOnSet(recorded, S)
        \/ e.count = SumFunctionOnSet(recorded, S)
    BY <1>2, <1>4 DEF EntryInv
  <2> QED  BY <1>1, <1>5, <2>1
<1>8. e.amount <= SumFunctionOnSet(Paid(feed, recorded), S)
  <2>1. \/ e.amount + Price[e.drink] = SumFunctionOnSet(Paid(feed, recorded), S)
        \/ e.amount = SumFunctionOnSet(Paid(feed, recorded), S)
    BY <1>2, <1>4 DEF EntryInv
  <2> QED  BY <1>1, <1>5, <1>6, <2>1
<1> QED  BY <1>1, <1>3, <1>4, <1>7, <1>8 DEF Within, PaidWithin

\* What a request is when it moves on.
Webs == [at : {"idle", "nodes", "items", "amount", "chart", "done", "failed"},
         kind : {"breakdown", "monthly", "daily"},
         nodes : Seq(Dates), i : Nat \ {0}, j : Nat \ {0}, size : Nat,
         count : [Drinks -> Nat], amount : [Drinks -> Nat], values : Seq(Nat)]

Opens(w, i, size) == [w EXCEPT !.at = "items", !.i = i, !.j = 1, !.size = size]

Opened(u, w, i, size) ==
  /\ u \in Webs /\ u.at = "items" /\ u.i = i /\ u.j = 1 /\ u.size = size
  /\ u.kind = w.kind /\ u.nodes = w.nodes /\ u.count = w.count
  /\ u.amount = w.amount /\ u.values = w.values

LEMMA WebOpens ==
  ASSUME NEW w \in Webs, NEW i \in Nat \ {0}, NEW size \in Nat
  PROVE  Opened(Opens(w, i, size), w, i, size)
<1>1. 1 \in Nat \ {0}
  OBVIOUS
<1> QED  BY <1>1 DEF Webs, Opens, Opened

LEMMA OpenNodeInv ==
  ASSUME SyncInv, StoreInv, WebInv, Reading, NEW i \in Nat \ {0}, i <= Len(web.nodes) + 1,
         \A n \in Drinks : /\ Within(web.count[n], asked, recorded, BeforeItems(n, i))
                           /\ PaidWithin(web.amount[n], BeforeItems(n, i)),
         web' = OpenNode(i), UNCHANGED <<asked, feed, recorded, by_drink>>
  PROVE  WebInv'
<1>1. /\ web.nodes \in Seq(Dates) /\ Len(web.nodes) \in Nat
      /\ web.count \in [Drinks -> Nat] /\ web.amount \in [Drinks -> Nat]
      /\ web.j <= web.size + 1 /\ web.j \in Nat /\ web.size \in Nat
      /\ asked \in [Items -> Nat] /\ feed \in Feeds
      /\ web \in [at : {"idle", "nodes", "items", "amount", "chart", "done", "failed"},
                  kind : {"breakdown", "monthly", "daily"},
                  nodes : Seq(Dates), i : Nat \ {0}, j : Nat \ {0}, size : Nat,
                  count : [Drinks -> Nat], amount : [Drinks -> Nat], values : Seq(Nat)]
  BY WebTypes, StoreTypes DEF WebInv, WebTypeInv
<1>2. CASE i > Len(web.nodes)
  <2>1. web' = [web EXCEPT !.at = "done"] /\ i = Len(web.nodes) + 1
    BY <1>1, <1>2 DEF OpenNode
  <2>2. /\ web'.at = "done" /\ web'.kind = web.kind /\ web'.nodes = web.nodes
        /\ web'.count = web.count /\ web'.amount = web.amount /\ web'.values = web.values
        /\ web'.j = web.j /\ web'.size = web.size
        /\ web' \in [at : {"idle", "nodes", "items", "amount", "chart", "done", "failed"},
                     kind : {"breakdown", "monthly", "daily"},
                     nodes : Seq(Dates), i : Nat \ {0}, j : Nat \ {0}, size : Nat,
                     count : [Drinks -> Nat], amount : [Drinks -> Nat], values : Seq(Nat)]
    BY <1>1, <2>1
  <2>3. WebTypeInv'
    BY <1>1, <2>2 DEF WebTypeInv
  <2>4. RequestInv'
    BY <2>2, ReadingFacts DEF RequestInv, Reading
  <2>5. NodesInv' /\ PlaceInv' /\ TallyInv' /\ BarsInv' /\ BreakdownFailsOnlyOnFirstSale'
    BY <2>2, ReadingFacts DEF NodesInv, PlaceInv, TallyInv, BarsInv, Reading,
                              BreakdownFailsOnlyOnFirstSale
  <2>6. DoneInv'
    <3> SUFFICES ASSUME NEW n \in Drinks
                 PROVE  /\ Within(web.count[n], asked, recorded, YearSold(n))
                        /\ PaidWithin(web.amount[n], YearSold(n))
      <4>1. \A n : YearSold(n)' = YearSold(n)
        BY DEF YearSold, ThisYear
      <4> QED  BY <2>2, <4>1 DEF DoneInv, PaidWithin
    <3>1. PICK S, T : S = BeforeItems(n, i) /\ T = YearSold(n) \ BeforeItems(n, i)
      OBVIOUS
    <3>2. S \in SUBSET Items /\ T \in SUBSET Items /\ S \cap T = {}
      BY <3>1 DEF BeforeItems, YearSold, ThisYear
    <3>3. YearSold(n) = S \cup T
      <4>1. \A x \in 1 .. Len(web.nodes) : web.nodes[x] \in YearDates
        BY DEF WebInv, NodesInv
      <4>2. \A x \in 1 .. i - 1 : web.nodes[x] \in YearDates
        BY <1>1, <2>1, <4>1
      <4>3. S \subseteq YearSold(n)
        BY <3>1, <4>2 DEF BeforeItems, YearSold, ThisYear
      <4> QED  BY <3>1, <4>3
    <3>4. \A k \in T : asked[k] = 0
      <4>1. \A k \in ThisYear : asked[k] > 0 =>
              \E x \in 1 .. Len(web.nodes) : web.nodes[x] = feed[k].date
        BY DEF WebInv, NodesInv
      <4>2. ASSUME NEW k \in T, asked[k] # 0 PROVE FALSE
        <5>1. k \in ThisYear /\ k \in Items /\ feed[k].drink = n /\ k \notin S
          BY <3>1, <3>2 DEF YearSold
        <5>2. asked[k] > 0
          BY <1>1, <4>2, <5>1
        <5>3. PICK x \in 1 .. Len(web.nodes) : web.nodes[x] = feed[k].date
          BY <4>1, <5>1, <5>2
        <5>4. x \in 1 .. i - 1
          BY <1>1, <2>1
        <5> QED  BY <3>1, <5>1, <5>3, <5>4 DEF BeforeItems
      <4> QED  BY <4>2
    <3>5. \A k \in Items : /\ asked[k] \in Nat /\ recorded[k] \in Nat
                           /\ Paid(feed, asked)[k] \in Nat /\ Paid(feed, recorded)[k] \in Nat
                           /\ asked[k] = 0 => Paid(feed, asked)[k] = 0
      BY ReadingFacts
    <3>6. web.count[n] \in Nat /\ web.amount[n] \in Nat
      BY <1>1
    <3>7. Within(web.count[n], asked, recorded, S \cup T)
      <4>1. Within(web.count[n], asked, recorded, S)
        BY <3>1
      <4> QED  BY <3>2, <3>4, <3>5, <3>6, <4>1, WithinNothing
    <3>8. PaidWithin(web.amount[n], S \cup T)
      <4>1. Within(web.amount[n], Paid(feed, asked), Paid(feed, recorded), S)
        BY <3>1 DEF PaidWithin
      <4>2. \A k \in T : Paid(feed, asked)[k] = 0
        BY <3>2, <3>4, <3>5
      <4>3. Within(web.amount[n], Paid(feed, asked), Paid(feed, recorded), S \cup T)
        BY <3>2, <3>5, <3>6, <4>1, <4>2, WithinNothing
      <4> QED  BY <4>3 DEF PaidWithin
    <3> QED  BY <3>3, <3>7, <3>8
  <2> QED  BY <2>3, <2>4, <2>5, <2>6 DEF WebInv
<1>3. CASE i <= Len(web.nodes)
  <2>1. PICK d, size : d = web.nodes[i] /\ size = Len(by_drink[d])
    OBVIOUS
  <2>2. /\ web' = [web EXCEPT !.at = "items", !.i = i, !.j = 1, !.size = size]
        /\ d \in Dates /\ size \in Nat
    <3>1. ~ (i > Len(web.nodes)) /\ i \in 1 .. Len(web.nodes)
      BY <1>1, <1>3
    <3>2. d \in Dates
      BY <1>1, <2>1, <3>1, ElementOfSeq
    <3> QED  BY <2>1, <3>1, <3>2, StoreTypes DEF OpenNode
  <2>3. /\ web'.at = "items" /\ web'.kind = web.kind /\ web'.nodes = web.nodes
        /\ web'.i = i /\ web'.j = 1 /\ web'.size = size
        /\ web'.count = web.count /\ web'.amount = web.amount /\ web'.values = web.values
        /\ web' \in [at : {"idle", "nodes", "items", "amount", "chart", "done", "failed"},
                     kind : {"breakdown", "monthly", "daily"},
                     nodes : Seq(Dates), i : Nat \ {0}, j : Nat \ {0}, size : Nat,
                     count : [Drinks -> Nat], amount : [Drinks -> Nat], values : Seq(Nat)]
    <3>1. web \in Webs
      BY <1>1 DEF Webs
    <3>2. PICK u : web' = u
      OBVIOUS
    <3>3. /\ u \in Webs /\ u.at = "items" /\ u.i = i /\ u.j = 1 /\ u.size = size
          /\ u.kind = web.kind /\ u.nodes = web.nodes /\ u.count = web.count
          /\ u.amount = web.amount /\ u.values = web.values
      <4>1. u = Opens(web, i, size)
        BY <2>2, <3>2 DEF Opens
      <4>2. i \in Nat \ {0} /\ size \in Nat
        BY <2>2
      <4>3. Opened(Opens(web, i, size), web, i, size)
        BY <3>1, <4>2, WebOpens
      <4>4. Opened(u, web, i, size)
        BY <4>1, <4>3
      <4> QED  BY <4>4 DEF Opened
    <3> QED  BY <3>2, <3>3, Zenon DEF Webs
  <2>4. WebTypeInv'
    BY <1>1, <2>2, <2>3 DEF WebTypeInv
  <2>5. RequestInv'
    BY <2>3, ReadingFacts DEF RequestInv, Reading
  <2>6. DoneInv' /\ BarsInv' /\ BreakdownFailsOnlyOnFirstSale'
    BY <2>3 DEF DoneInv, BarsInv, BreakdownFailsOnlyOnFirstSale
  <2>7. NodesInv'
    <3>1. ThisYear' = ThisYear
      BY DEF ThisYear
    <3>2. /\ \A x \in 1 .. Len(web.nodes) : web.nodes[x] \in YearDates
          /\ \A x, y \in 1 .. Len(web.nodes) : x < y => web.nodes[x] < web.nodes[y]
          /\ \A k \in ThisYear : asked[k] > 0 =>
               \E x \in 1 .. Len(web.nodes) : web.nodes[x] = feed[k].date
      BY DEF WebInv, NodesInv
    <3>3. \A z \in Dates : \A y \in 1 .. Len(by_drink[z]) :
            /\ SumFunctionOnSet(asked, Sold(feed, z, by_drink[z][y].drink)) <= by_drink[z][y].count
            /\ SumFunctionOnSet(Paid(feed, asked), Sold(feed, z, by_drink[z][y].drink))
                 <= by_drink[z][y].amount
      BY DEF WebInv, NodesInv
    <3>4. YearDates' = YearDates
      BY DEF YearDates
    <3> QED  BY <2>3, <3>1, <3>2, <3>3, <3>4 DEF NodesInv
  <2>8. PlaceInv'
    <3>1. Dict' = by_drink[d]
      BY <2>1, <2>3 DEF Dict
    <3>2. \A y \in 1 .. size : ~ (y > size)
      BY <2>2
    <3>3. size <= Len(Dict') /\ \A y \in 1 .. Len(Dict') : ~ (y > size)
      BY <2>1, <2>2, <3>1, <3>2
    <3> QED  BY <1>3, <2>3, <3>3 DEF PlaceInv
  <2>9. TallyInv'
    <3>1. ASSUME NEW n PROVE ReadItems(n, 0)' = BeforeItems(n, i)
      BY <2>3 DEF ReadItems, BeforeItems
    <3>2. CountedUpTo' = 0 /\ (web.j - 1)' = 0
      BY <2>3 DEF CountedUpTo
    <3>3. \A n : /\ ReadItems(n, CountedUpTo)' = BeforeItems(n, i)
                 /\ ReadItems(n, web.j - 1)' = BeforeItems(n, i)
      BY <3>1, <3>2 DEF ReadItems
    <3> QED  BY <2>3, <3>3 DEF TallyInv, PaidWithin
  <2> QED  BY <2>4, <2>5, <2>6, <2>7, <2>8, <2>9 DEF WebInv
<1> QED  BY <1>1, <1>2, <1>3

LEMMA FirstNodeInv ==
  ASSUME SyncInv, StoreInv, WebInv, FirstNode PROVE WebInv'
<1>1. /\ web.at = "nodes" /\ web' = OpenNode(1) /\ Reading
      /\ UNCHANGED <<asked, feed, recorded, by_drink>>
  BY DEF FirstNode, Reading, vars, peerVars, storeVars
<1>2. web.i = 1 /\ web.j = 1 /\ Len(web.nodes) \in Nat
  BY <1>1, WebTypes DEF WebInv, PlaceInv
<1>3. PICK one \in Nat \ {0} : one = 1
  OBVIOUS
<1>4. CountedUpTo = 0 /\ web.j - 1 = 0
  BY <1>1, <1>2 DEF CountedUpTo
<1>5. ASSUME NEW n PROVE ReadItems(n, 0) = BeforeItems(n, one)
  BY <1>1, <1>2, <1>3 DEF ReadItems, BeforeItems
<1>6. \A n \in Drinks : /\ Within(web.count[n], asked, recorded, BeforeItems(n, one))
                        /\ PaidWithin(web.amount[n], BeforeItems(n, one))
  BY <1>1, <1>4, <1>5 DEF WebInv, TallyInv
<1>7. one <= Len(web.nodes) + 1 /\ web' = OpenNode(one)
  BY <1>1, <1>2, <1>3
<1> QED  BY <1>1, <1>6, <1>7, OpenNodeInv

\* When all entries of a node were read, what was not is of drinks without an
\* entry.
LEMMA NodeRead ==
  ASSUME SyncInv, StoreInv, WebInv, web.at = "items", Len(Dict) = web.size, NEW n \in Drinks
  PROVE  /\ ReadItems(n, web.size) \subseteq BeforeItems(n, web.i + 1)
         /\ \A k \in BeforeItems(n, web.i + 1) \ ReadItems(n, web.size) : asked[k] = 0
<1>1. PICK i, d : i = web.i /\ d = web.nodes[i]
  OBVIOUS
<1>2. Reading /\ i \in 1 .. Len(web.nodes) /\ i \in Nat /\ i >= 1 /\ Dict = by_drink[d] /\ d \in Dates
  <2>1. i <= Len(web.nodes) /\ i \in Nat /\ i >= 1 /\ Len(web.nodes) \in Nat
    BY <1>1, WebTypes DEF WebInv, PlaceInv
  <2> QED  BY <1>1, <2>1, ReadingFacts DEF Reading, Dict
<1>3. 1 .. web.i - 1 \subseteq 1 .. (web.i + 1) - 1 /\ i \in 1 .. (web.i + 1) - 1
      /\ \A x \in 1 .. (web.i + 1) - 1 : x = i \/ x \in 1 .. web.i - 1
  BY <1>1, <1>2
<1>4. ReadItems(n, web.size) \subseteq BeforeItems(n, web.i + 1)
  BY <1>1, <1>3 DEF ReadItems, BeforeItems
<1>5. ASSUME NEW k \in BeforeItems(n, web.i + 1) \ ReadItems(n, web.size)
      PROVE  asked[k] = 0
  <2>1. k \in Items /\ feed[k].drink = n
    BY DEF BeforeItems
  <2>2. PICK x \in 1 .. (web.i + 1) - 1 : web.nodes[x] = feed[k].date
    BY DEF BeforeItems
  <2>3. x = i
    BY <1>3, <2>1, <2>2 DEF ReadItems
  <2>4. feed[k].date = d
    BY <1>1, <2>2, <2>3
  <2>5. ~ \E y \in 1 .. web.size : Dict[y].drink = n
    BY <1>1, <2>1, <2>4 DEF ReadItems
  <2>6. ~ \E b \in Sold(feed, d, n) : recorded[b] > 0
    BY <1>2, <2>5 DEF StoreInv, EntriesInv
  <2>7. ~ (recorded[k] > 0)
    BY <2>1, <2>4, <2>6 DEF Sold
  <2> QED  BY <1>2, <2>1, <2>7, ReadingFacts
<1> QED  BY <1>4, <1>5

LEMMA NextNodeInv ==
  ASSUME SyncInv, StoreInv, WebInv, NextNode PROVE WebInv'
<1>1. /\ web.at = "items" /\ Len(Dict) = web.size /\ web.j > web.size /\ Reading
      /\ web' = OpenNode(web.i + 1)
      /\ UNCHANGED <<asked, feed, recorded, by_drink>>
  BY DEF NextNode, Reading, vars, peerVars, storeVars
<1>2. PICK i : i = web.i + 1
  OBVIOUS
<1>3. /\ i \in Nat \ {0} /\ i <= Len(web.nodes) + 1
      /\ web.j - 1 = web.size /\ CountedUpTo = web.size
      /\ web.count \in [Drinks -> Nat] /\ web.amount \in [Drinks -> Nat]
  <2>1. /\ web.i \in Nat /\ web.j \in Nat /\ web.size \in Nat /\ web.j <= web.size + 1
        /\ Len(web.nodes) \in Nat /\ web.i <= Len(web.nodes)
        /\ web.count \in [Drinks -> Nat] /\ web.amount \in [Drinks -> Nat]
    BY <1>1, WebTypes DEF WebInv, PlaceInv
  <2>2. web.j - 1 = web.size
    BY <1>1, <2>1
  <2> QED  BY <1>1, <1>2, <2>1, <2>2 DEF CountedUpTo
<1>4. ASSUME NEW n \in Drinks
      PROVE  /\ Within(web.count[n], asked, recorded, BeforeItems(n, i))
             /\ PaidWithin(web.amount[n], BeforeItems(n, i))
  <2>1. PICK S, T : S = ReadItems(n, web.size) /\ T = BeforeItems(n, i) \ ReadItems(n, web.size)
    OBVIOUS
  <2>2. /\ S \in SUBSET Items /\ T \in SUBSET Items /\ S \cap T = {}
        /\ BeforeItems(n, i) = S \cup T /\ \A k \in T : asked[k] = 0
    <3>1. S \subseteq BeforeItems(n, i) /\ \A k \in T : asked[k] = 0
      BY <1>1, <1>2, <2>1, NodeRead
    <3>2. BeforeItems(n, i) \subseteq Items
      BY DEF BeforeItems
    <3> QED  BY <2>1, <3>1, <3>2
  <2>3. \A k \in Items : /\ asked[k] \in Nat /\ recorded[k] \in Nat
                         /\ Paid(feed, asked)[k] \in Nat /\ Paid(feed, recorded)[k] \in Nat
                         /\ asked[k] = 0 => Paid(feed, asked)[k] = 0
    BY <1>1, ReadingFacts
  <2>4. web.count[n] \in Nat /\ web.amount[n] \in Nat
    BY <1>3
  <2>5. Within(web.count[n], asked, recorded, S) /\ PaidWithin(web.amount[n], S)
    BY <1>1, <1>3, <2>1 DEF WebInv, TallyInv
  <2>6. Within(web.count[n], asked, recorded, S \cup T)
    BY <2>2, <2>3, <2>4, <2>5, WithinNothing
  <2>7. Within(web.amount[n], Paid(feed, asked), Paid(feed, recorded), S \cup T)
    <3>1. Within(web.amount[n], Paid(feed, asked), Paid(feed, recorded), S)
      BY <2>5 DEF PaidWithin
    <3>2. \A k \in T : Paid(feed, asked)[k] = 0
      BY <2>2, <2>3
    <3> QED  BY <2>2, <2>3, <2>4, <3>1, <3>2, WithinNothing
  <2> QED  BY <2>2, <2>6, <2>7 DEF PaidWithin
<1>5. web' = OpenNode(i)
  BY <1>1, <1>2
<1> QED  BY <1>1, <1>3, <1>4, <1>5, OpenNodeInv

\* The dictionary has grown by an entry of a drink first sold after the request.
LEMMA LoopFailsInv ==
  ASSUME SyncInv, StoreInv, WebInv, LoopFails PROVE WebInv'
<1>1. /\ web.at = "items" /\ Len(Dict) # web.size /\ Reading
      /\ web' = [web EXCEPT !.at = "failed"]
      /\ UNCHANGED <<asked, feed, recorded, by_drink>>
  BY DEF LoopFails, Reading, vars, peerVars, storeVars
<1>2. web \in Webs /\ web.j <= web.size + 1 /\ asked \in [Items -> Nat]
  BY DEF WebInv, WebTypeInv, Webs
<1>3. /\ web'.at = "failed" /\ web'.kind = web.kind /\ web'.values = web.values
      /\ web'.j = web.j /\ web'.size = web.size /\ web' \in Webs
  BY <1>1, <1>2 DEF Webs
<1>4. WebTypeInv'
  BY <1>1, <1>2, <1>3 DEF WebTypeInv, Webs
<1>5. RequestInv'
  BY <1>1, <1>3, ReadingFacts DEF RequestInv, Reading
<1>6. NodesInv' /\ PlaceInv' /\ TallyInv' /\ DoneInv' /\ BarsInv'
  BY <1>3 DEF NodesInv, PlaceInv, TallyInv, DoneInv, BarsInv, Reading
<1>7. PICK d, y : d = web.nodes[web.i] /\ y = web.size + 1
  OBVIOUS
<1>8. /\ d \in Dates /\ Dict = by_drink[d] /\ y \in 1 .. Len(Dict) /\ y > web.size
  <2>1. /\ web.i \in Nat /\ web.i >= 1 /\ web.i <= Len(web.nodes) /\ Len(web.nodes) \in Nat
        /\ web.size \in Nat /\ web.size <= Len(Dict)
    BY <1>1, WebTypes DEF WebInv, PlaceInv
  <2>2. web.i \in 1 .. Len(web.nodes)
    BY <2>1
  <2>3. d \in Dates /\ Dict = by_drink[d]
    BY <1>1, <1>7, <2>2, ReadingFacts DEF Dict
  <2>4. Len(Dict) \in Nat
    BY <2>3, StoreTypes
  <2> QED  BY <1>1, <1>7, <2>1, <2>3, <2>4
<1>9. PICK n : n = Dict[y].drink
  OBVIOUS
<1>10. \A b \in Sold(feed, d, n) : asked[b] = 0
  BY <1>1, <1>7, <1>8, <1>9 DEF WebInv, PlaceInv
<1>11. PICK k \in Sold(feed, d, n) : recorded[k] > 0
  <2>1. n \in Drinks
    BY <1>8, <1>9, StoreTypes
  <2>2. \E z \in 1 .. Len(by_drink[d]) : by_drink[d][z].drink = n
    BY <1>8, <1>9
  <2> QED  BY <1>8, <2>1, <2>2 DEF StoreInv, EntriesInv
<1>12. BreakdownFailsOnlyOnFirstSale'
  <2>1. k \in Items /\ recorded'[k] > 0
    BY <1>1, <1>11 DEF Sold
  <2>2. ASSUME NEW b \in Items, feed[b] = feed[k] PROVE asked[b] = 0
    <3>1. b \in Sold(feed, d, n)
      BY <1>11, <2>2 DEF Sold
    <3> QED  BY <1>10, <3>1
  <2> QED  BY <1>1, <2>1, <2>2 DEF BreakdownFailsOnlyOnFirstSale
<1> QED  BY <1>4, <1>5, <1>6, <1>12 DEF WebInv

\* The items of the entry being read come to those read before.
LEMMA ReadOne ==
  ASSUME SyncInv, StoreInv, WebInv, web.at \in {"items", "amount"}, web.j <= web.size,
         NEW n \in Drinks, NEW j, j = web.j, NEW d, d = web.nodes[web.i]
  PROVE  /\ d \in Dates /\ Dict = by_drink[d] /\ j \in 1 .. Len(Dict)
         /\ ReadItems(n, j - 1) \subseteq Items
         /\ Dict[j].drink = n => /\ ReadItems(n, j) = ReadItems(n, j - 1) \cup Sold(feed, d, n)
                                 /\ ReadItems(n, j - 1) \cap Sold(feed, d, n) = {}
         /\ Dict[j].drink # n => ReadItems(n, j) = ReadItems(n, j - 1)
<1>1. PICK i : i = web.i
  OBVIOUS
<1>2. /\ Reading /\ i \in 1 .. Len(web.nodes) /\ i \in Nat /\ j \in Nat /\ j >= 1
      /\ d \in Dates /\ Dict = by_drink[d] /\ j \in 1 .. Len(Dict)
  <2>1. /\ i <= Len(web.nodes) /\ i \in Nat /\ i >= 1 /\ Len(web.nodes) \in Nat
        /\ web.size <= Len(Dict) /\ web.size \in Nat /\ j \in Nat /\ j >= 1
    BY <1>1, WebTypes DEF WebInv, PlaceInv
  <2>2. Reading /\ i \in 1 .. Len(web.nodes)
    BY <2>1 DEF Reading
  <2>3. d \in Dates /\ Dict = by_drink[d]
    BY <1>1, <2>2, ReadingFacts DEF Dict
  <2>4. Len(Dict) \in Nat
    BY <2>3, StoreTypes
  <2> QED  BY <2>1, <2>2, <2>3, <2>4
<1>3. ReadItems(n, j - 1) \subseteq Items
  BY DEF ReadItems
<1>4. 1 .. j - 1 \subseteq 1 .. j /\ j \in 1 .. j /\ \A y \in 1 .. j : y = j \/ y \in 1 .. j - 1
  BY <1>2
<1>5. ReadItems(n, j - 1) \subseteq ReadItems(n, j)
  BY <1>4 DEF ReadItems
<1>6. ASSUME Dict[j].drink = n
      PROVE  /\ ReadItems(n, j) = ReadItems(n, j - 1) \cup Sold(feed, d, n)
             /\ ReadItems(n, j - 1) \cap Sold(feed, d, n) = {}
  <2>1. Sold(feed, d, n) \subseteq ReadItems(n, j)
    BY <1>4, <1>6 DEF Sold, ReadItems
  <2>2. ReadItems(n, j) \subseteq ReadItems(n, j - 1) \cup Sold(feed, d, n)
    BY <1>4 DEF Sold, ReadItems
  <2>3. ASSUME NEW k \in ReadItems(n, j - 1), k \in Sold(feed, d, n) PROVE FALSE
    <3>1. feed[k].date = d
      BY <2>3 DEF Sold
    <3>2. CASE \E x \in 1 .. web.i - 1 : web.nodes[x] = feed[k].date
      <4>1. PICK x \in 1 .. i - 1 : web.nodes[x] = d
        BY <1>1, <3>1, <3>2
      <4>2. x \in 1 .. Len(web.nodes) /\ x < i
        BY <1>2
      <4>3. web.nodes[x] < web.nodes[i]
        BY <1>2, <4>2, ReadingFacts
      <4>4. d \in Nat
        BY <1>2, DateNumbers
      <4> QED  BY <1>1, <4>1, <4>3, <4>4
    <3>3. CASE \E y \in 1 .. j - 1 : Dict[y].drink = n
      <4>1. PICK y \in 1 .. j - 1 : Dict[y].drink = n
        BY <3>3
      <4>2. Len(Dict) \in Nat
        BY <1>2, StoreTypes
      <4>3. y \in 1 .. Len(Dict) /\ y # j
        BY <1>2, <4>2
      <4>4. Distinct(Dict)
        BY <1>2 DEF StoreInv, EntriesInv
      <4> QED  BY <1>2, <1>6, <4>1, <4>3, <4>4 DEF Distinct
    <3> QED  BY <2>3, <3>2, <3>3 DEF ReadItems
  <2> QED  BY <1>5, <2>1, <2>2, <2>3
<1>7. ASSUME Dict[j].drink # n PROVE ReadItems(n, j) = ReadItems(n, j - 1)
  <2>1. ReadItems(n, j) \subseteq ReadItems(n, j - 1)
    BY <1>4, <1>7 DEF ReadItems
  <2> QED  BY <1>5, <2>1
<1> QED  BY <1>2, <1>3, <1>6, <1>7

\* Within a node, only what was added up is left to see to.
LEMMA ReadingOn ==
  ASSUME SyncInv, StoreInv, WebInv, web.at \in {"items", "amount"}, web'.at \in {"items", "amount"},
         web' \in Webs, web'.j <= web'.size + 1, web'.at = "amount" => web'.j <= web'.size,
         web'.kind = web.kind, web'.nodes = web.nodes, web'.i = web.i, web'.size = web.size,
         web'.values = web.values, UNCHANGED <<asked, feed, recorded, by_drink>>, TallyInv'
  PROVE  WebInv'
<1>1. Reading /\ asked \in [Items -> Nat]
  BY WebTypes DEF Reading, WebInv
<1>2. WebTypeInv'
  BY <1>1 DEF WebTypeInv, Webs
<1>3. RequestInv'
  BY <1>1, ReadingFacts DEF RequestInv, Reading
<1>4. DoneInv' /\ BarsInv' /\ BreakdownFailsOnlyOnFirstSale'
  BY DEF DoneInv, BarsInv, BreakdownFailsOnlyOnFirstSale
<1>5. NodesInv'
  <2>1. ThisYear' = ThisYear /\ YearDates' = YearDates
    BY DEF ThisYear, YearDates
  <2>2. /\ \A x \in 1 .. Len(web.nodes) : web.nodes[x] \in YearDates
        /\ \A x, y \in 1 .. Len(web.nodes) : x < y => web.nodes[x] < web.nodes[y]
        /\ \A k \in ThisYear : asked[k] > 0 =>
             \E x \in 1 .. Len(web.nodes) : web.nodes[x] = feed[k].date
    BY <1>1 DEF WebInv, NodesInv
  <2>3. \A z \in Dates : \A y \in 1 .. Len(by_drink[z]) :
          /\ SumFunctionOnSet(asked, Sold(feed, z, by_drink[z][y].drink)) <= by_drink[z][y].count
          /\ SumFunctionOnSet(Paid(feed, asked), Sold(feed, z, by_drink[z][y].drink))
               <= by_drink[z][y].amount
    BY <1>1 DEF WebInv, NodesInv
  <2> QED  BY <2>1, <2>2, <2>3 DEF NodesInv
<1>6. PlaceInv'
  <2>1. Dict' = Dict
    BY DEF Dict
  <2>2. /\ web.i <= Len(web.nodes) /\ web.size <= Len(Dict)
        /\ \A y \in 1 .. Len(Dict) : y > web.size =>
             \A k \in Sold(feed, web.nodes[web.i], Dict[y].drink) : asked[k] = 0
    BY DEF WebInv, PlaceInv
  <2> QED  BY <2>1, <2>2 DEF PlaceInv
<1> QED  BY <1>2, <1>3, <1>4, <1>5, <1>6 DEF WebInv

\* A request that has read a count, and one that has read an amount.
Counts(w, n, v) == [w EXCEPT !.at = "amount", !.count[n] = @ + v]
Pays(w, n, v) == [w EXCEPT !.at = "items", !.j = @ + 1, !.amount[n] = @ + v]

Counted(u, w, n, v) ==
  /\ u \in Webs /\ u.at = "amount" /\ u.kind = w.kind /\ u.nodes = w.nodes /\ u.i = w.i
  /\ u.j = w.j /\ u.size = w.size /\ u.values = w.values /\ u.amount = w.amount
  /\ u.count[n] = w.count[n] + v
  /\ \A m \in Drinks : m # n => u.count[m] = w.count[m]

PaidFor(u, w, n, v) ==
  /\ u \in Webs /\ u.at = "items" /\ u.kind = w.kind /\ u.nodes = w.nodes /\ u.i = w.i
  /\ u.j = w.j + 1 /\ u.size = w.size /\ u.values = w.values /\ u.count = w.count
  /\ u.amount[n] = w.amount[n] + v
  /\ \A m \in Drinks : m # n => u.amount[m] = w.amount[m]

LEMMA WebCounts ==
  ASSUME NEW w \in Webs, NEW n \in Drinks, NEW v \in Nat
  PROVE  Counted(Counts(w, n, v), w, n, v)
<1>1. PICK f : f = [w.count EXCEPT ![n] = @ + v]
  OBVIOUS
<1>2. w.count \in [Drinks -> Nat]
  BY DEF Webs
<1>3. /\ f \in [Drinks -> Nat] /\ f[n] = w.count[n] + v
      /\ \A m \in Drinks : m # n => f[m] = w.count[m]
  BY <1>1, <1>2
<1>4. Counts(w, n, v) = [w EXCEPT !.at = "amount", !.count = f]
  BY <1>1 DEF Counts
<1>5. [w EXCEPT !.at = "amount", !.count = f] \in Webs
  BY <1>3 DEF Webs
<1> QED  BY <1>3, <1>4, <1>5 DEF Counted, Webs

LEMMA WebPays ==
  ASSUME NEW w \in Webs, NEW n \in Drinks, NEW v \in Nat
  PROVE  PaidFor(Pays(w, n, v), w, n, v)
<1>1. PICK f, j : f = [w.amount EXCEPT ![n] = @ + v] /\ j = w.j + 1
  OBVIOUS
<1>2. w.amount \in [Drinks -> Nat] /\ w.j \in Nat \ {0}
  BY DEF Webs
<1>3. /\ f \in [Drinks -> Nat] /\ f[n] = w.amount[n] + v /\ j \in Nat \ {0}
      /\ \A m \in Drinks : m # n => f[m] = w.amount[m]
  BY <1>1, <1>2
<1>4. Pays(w, n, v) = [w EXCEPT !.at = "items", !.j = j, !.amount = f]
  BY <1>1 DEF Pays
<1>5. [w EXCEPT !.at = "items", !.j = j, !.amount = f] \in Webs
  BY <1>3 DEF Webs
<1> QED  BY <1>1, <1>3, <1>4, <1>5, SMTT(30) DEF PaidFor, Webs

LEMMA ReadCountInv ==
  ASSUME SyncInv, StoreInv, WebInv, ReadCount PROVE WebInv'
<1>1. PICK j, d, e, n, v : /\ j = web.j /\ d = web.nodes[web.i]
                           /\ e = Dict[j] /\ n = e.drink /\ v = e.count
  OBVIOUS
<1>2. /\ web.at = "items" /\ web.j <= web.size /\ Reading
      /\ web' = Counts(web, n, v)
      /\ UNCHANGED <<asked, feed, recorded, by_drink>>
  BY <1>1 DEF ReadCount, Counts, Reading, vars, peerVars, storeVars
<1>3. /\ d \in Dates /\ Dict = by_drink[d] /\ j \in 1 .. Len(Dict)
      /\ \A m \in Drinks : ReadItems(m, j - 1) \in SUBSET Items
      /\ \A m \in Drinks : m = n => /\ ReadItems(m, j) = ReadItems(m, j - 1) \cup Sold(feed, d, m)
                                    /\ ReadItems(m, j - 1) \cap Sold(feed, d, m) = {}
      /\ \A m \in Drinks : m # n => ReadItems(m, j) = ReadItems(m, j - 1)
  <2>1. web.at \in {"items", "amount"}
    BY <1>2
  <2>2. \A m \in Drinks :
      /\ d \in Dates /\ Dict = by_drink[d] /\ j \in 1 .. Len(Dict)
      /\ ReadItems(m, j - 1) \subseteq Items
      /\ Dict[j].drink = m => /\ ReadItems(m, j) = ReadItems(m, j - 1) \cup Sold(feed, d, m)
                              /\ ReadItems(m, j - 1) \cap Sold(feed, d, m) = {}
      /\ Dict[j].drink # m => ReadItems(m, j) = ReadItems(m, j - 1)
    BY <1>1, <1>2, <2>1, ReadOne
  <2>3. \E m \in Drinks : TRUE
    <3>1. feed \in Feeds /\ web.i \in Nat /\ web.i >= 1 /\ Len(web.nodes) \in Nat
      BY StoreTypes, WebTypes DEF WebInv
    <3>2. web.i \in 1 .. Len(web.nodes) /\ web.size \in Nat /\ web.j >= 1 /\ web.j \in Nat
      BY <1>2, <3>1, WebTypes DEF WebInv, PlaceInv
    <3>3. d \in Dates
      BY <1>1, <1>2, <3>2, ReadingFacts
    <3>4. web.size <= Len(by_drink[d]) /\ Len(by_drink[d]) \in Nat
      BY <1>1, <1>2, <3>3, StoreTypes DEF WebInv, PlaceInv, Dict
    <3>5. web.j \in 1 .. Len(by_drink[d])
      BY <1>2, <3>2, <3>4
    <3> QED  BY <3>3, <3>5, StoreTypes
  <2> QED  BY <1>1, <2>2, <2>3
<1>4. /\ v \in Nat /\ n \in Drinks /\ Within(v, asked, recorded, Sold(feed, d, n))
  BY <1>1, <1>2, <1>3, EntryWithin
<1>5. web \in Webs /\ web.j <= web.size + 1 /\ web.count \in [Drinks -> Nat] /\ web.j \in Nat
  BY WebTypes DEF WebInv, WebTypeInv, Webs
<1>6. PICK u : web' = u
  OBVIOUS
<1>7. Counted(u, web, n, v)
  <2>1. Counted(Counts(web, n, v), web, n, v)
    BY <1>4, <1>5, WebCounts
  <2> QED  BY <1>2, <1>6, <2>1
<1>8. /\ u \in Webs /\ u.at = "amount" /\ u.kind = web.kind /\ u.nodes = web.nodes /\ u.i = web.i
      /\ u.j = web.j /\ u.size = web.size /\ u.values = web.values /\ u.amount = web.amount
      /\ u.count[n] = web.count[n] + v
      /\ \A m \in Drinks : m # n => u.count[m] = web.count[m]
  BY <1>7 DEF Counted
<1>9. \A k \in Items : asked[k] \in Nat /\ recorded[k] \in Nat
  BY <1>2, ReadingFacts
<1>10. CountedUpTo = j - 1 /\ CountedUpTo' = j /\ (web.j - 1)' = j - 1
  BY <1>1, <1>2, <1>6, <1>8 DEF CountedUpTo
<1>11. \A m : /\ Within(web.count[m], asked, recorded, ReadItems(m, CountedUpTo))'
                   = Within(u.count[m], asked, recorded, ReadItems(m, j))
              /\ PaidWithin(web.amount[m], ReadItems(m, web.j - 1))'
                   = PaidWithin(web.amount[m], ReadItems(m, j - 1))
  <2>1. ASSUME NEW m
        PROVE /\ ReadItems(m, CountedUpTo)' = ReadItems(m, j)
              /\ ReadItems(m, web.j - 1)' = ReadItems(m, j - 1)
    BY <1>2, <1>6, <1>8, <1>10 DEF ReadItems, Dict
  <2> QED  BY <1>2, <1>6, <1>8, <2>1 DEF Within, PaidWithin
<1>12. ASSUME NEW m \in Drinks
       PROVE  /\ Within(u.count[m], asked, recorded, ReadItems(m, j))
              /\ PaidWithin(web.amount[m], ReadItems(m, j - 1))
  <2>1. /\ Within(web.count[m], asked, recorded, ReadItems(m, j - 1))
        /\ PaidWithin(web.amount[m], ReadItems(m, j - 1))
    BY <1>1, <1>2, <1>10 DEF WebInv, TallyInv
  <2>2. CASE m # n
    BY <1>3, <1>8, <2>1, <2>2
  <2>3. CASE m = n
    <3>1. PICK S, T : S = ReadItems(m, j - 1) /\ T = Sold(feed, d, m)
      OBVIOUS
    <3>2. S \in SUBSET Items /\ T \in SUBSET Items /\ S \cap T = {} /\ ReadItems(m, j) = S \cup T
      BY <1>3, <2>3, <3>1 DEF Sold
    <3>3. web.count[m] \in Nat /\ u.count[m] = web.count[m] + v
      BY <1>5, <1>8, <2>3
    <3>4. Within(web.count[m] + v, asked, recorded, S \cup T)
      BY <1>4, <1>9, <2>1, <2>3, <3>1, <3>2, <3>3, WithinBoth
    <3> QED  BY <2>1, <3>2, <3>3, <3>4
  <2> QED  BY <2>2, <2>3
<1>13. TallyInv'
  BY <1>11, <1>12 DEF TallyInv
<1>14. /\ web'.at \in {"items", "amount"} /\ web' \in Webs /\ web'.j <= web'.size + 1
       /\ web'.j <= web'.size
       /\ web'.kind = web.kind /\ web'.nodes = web.nodes /\ web'.i = web.i
       /\ web'.size = web.size /\ web'.values = web.values
  BY <1>2, <1>5, <1>6, <1>8
<1> QED  BY <1>2, <1>13, <1>14, ReadingOn

LEMMA ReadAmountInv ==
  ASSUME SyncInv, StoreInv, WebInv, ReadAmount PROVE WebInv'
<1>1. PICK j, d, e, n, v : /\ j = web.j /\ d = web.nodes[web.i]
                           /\ e = Dict[j] /\ n = e.drink /\ v = e.amount
  OBVIOUS
<1>2. /\ web.at = "amount" /\ web.j <= web.size /\ Reading
      /\ web' = Pays(web, n, v)
      /\ UNCHANGED <<asked, feed, recorded, by_drink>>
  BY <1>1 DEF ReadAmount, Pays, Reading, vars, peerVars, storeVars, WebInv, PlaceInv
<1>3. /\ d \in Dates /\ Dict = by_drink[d] /\ j \in 1 .. Len(Dict)
      /\ \A m \in Drinks : ReadItems(m, j - 1) \in SUBSET Items
      /\ \A m \in Drinks : m = n => /\ ReadItems(m, j) = ReadItems(m, j - 1) \cup Sold(feed, d, m)
                                    /\ ReadItems(m, j - 1) \cap Sold(feed, d, m) = {}
      /\ \A m \in Drinks : m # n => ReadItems(m, j) = ReadItems(m, j - 1)
  <2>1. web.at \in {"items", "amount"}
    BY <1>2
  <2>2. \A m \in Drinks :
      /\ d \in Dates /\ Dict = by_drink[d] /\ j \in 1 .. Len(Dict)
      /\ ReadItems(m, j - 1) \subseteq Items
      /\ Dict[j].drink = m => /\ ReadItems(m, j) = ReadItems(m, j - 1) \cup Sold(feed, d, m)
                              /\ ReadItems(m, j - 1) \cap Sold(feed, d, m) = {}
      /\ Dict[j].drink # m => ReadItems(m, j) = ReadItems(m, j - 1)
    BY <1>1, <1>2, <2>1, ReadOne
  <2>3. \E m \in Drinks : TRUE
    <3>1. feed \in Feeds /\ web.i \in Nat /\ web.i >= 1 /\ Len(web.nodes) \in Nat
      BY StoreTypes, WebTypes DEF WebInv
    <3>2. web.i \in 1 .. Len(web.nodes) /\ web.size \in Nat /\ web.j >= 1 /\ web.j \in Nat
      BY <1>2, <3>1, WebTypes DEF WebInv, PlaceInv
    <3>3. d \in Dates
      BY <1>1, <1>2, <3>2, ReadingFacts
    <3>4. web.size <= Len(by_drink[d]) /\ Len(by_drink[d]) \in Nat
      BY <1>1, <1>2, <3>3, StoreTypes DEF WebInv, PlaceInv, Dict
    <3>5. web.j \in 1 .. Len(by_drink[d])
      BY <1>2, <3>2, <3>4
    <3> QED  BY <3>3, <3>5, StoreTypes
  <2> QED  BY <1>1, <2>2, <2>3
<1>4. /\ v \in Nat /\ n \in Drinks /\ PaidWithin(v, Sold(feed, d, n))
  BY <1>1, <1>2, <1>3, EntryWithin
<1>5. web \in Webs /\ web.size \in Nat /\ web.amount \in [Drinks -> Nat] /\ web.j \in Nat
  BY WebTypes DEF WebInv, WebTypeInv, Webs
<1>6. PICK u : web' = u
  OBVIOUS
<1>7. PaidFor(u, web, n, v)
  <2>1. PaidFor(Pays(web, n, v), web, n, v)
    BY <1>4, <1>5, WebPays
  <2> QED  BY <1>2, <1>6, <2>1
<1>8. /\ u \in Webs /\ u.at = "items" /\ u.kind = web.kind /\ u.nodes = web.nodes /\ u.i = web.i
      /\ u.j = web.j + 1 /\ u.size = web.size /\ u.values = web.values /\ u.count = web.count
      /\ u.amount[n] = web.amount[n] + v
      /\ \A m \in Drinks : m # n => u.amount[m] = web.amount[m]
  BY <1>7 DEF PaidFor
<1>9. \A k \in Items : Paid(feed, asked)[k] \in Nat /\ Paid(feed, recorded)[k] \in Nat
  BY <1>2, ReadingFacts
<1>10. CountedUpTo = j /\ CountedUpTo' = j /\ (web.j - 1)' = j
  BY <1>1, <1>2, <1>5, <1>6, <1>8 DEF CountedUpTo
<1>11. \A m : /\ Within(web.count[m], asked, recorded, ReadItems(m, CountedUpTo))'
                   = Within(web.count[m], asked, recorded, ReadItems(m, j))
              /\ PaidWithin(web.amount[m], ReadItems(m, web.j - 1))'
                   = PaidWithin(u.amount[m], ReadItems(m, j))
  <2>1. ASSUME NEW m
        PROVE /\ ReadItems(m, CountedUpTo)' = ReadItems(m, j)
              /\ ReadItems(m, web.j - 1)' = ReadItems(m, j)
    BY <1>2, <1>6, <1>8, <1>10 DEF ReadItems, Dict
  <2> QED  BY <1>2, <1>6, <1>8, <2>1 DEF Within, PaidWithin
<1>12. ASSUME NEW m \in Drinks
       PROVE  /\ Within(web.count[m], asked, recorded, ReadItems(m, j))
              /\ PaidWithin(u.amount[m], ReadItems(m, j))
  <2>1. /\ Within(web.count[m], asked, recorded, ReadItems(m, j))
        /\ PaidWithin(web.amount[m], ReadItems(m, j - 1))
    BY <1>1, <1>2, <1>10 DEF WebInv, TallyInv
  <2>2. CASE m # n
    BY <1>3, <1>8, <2>1, <2>2
  <2>3. CASE m = n
    <3>1. PICK S, T : S = ReadItems(m, j - 1) /\ T = Sold(feed, d, m)
      OBVIOUS
    <3>2. S \in SUBSET Items /\ T \in SUBSET Items /\ S \cap T = {} /\ ReadItems(m, j) = S \cup T
      BY <1>3, <2>3, <3>1 DEF Sold
    <3>3. web.amount[m] \in Nat /\ u.amount[m] = web.amount[m] + v
      BY <1>5, <1>8, <2>3
    <3>4. /\ Within(web.amount[m], Paid(feed, asked), Paid(feed, recorded), S)
          /\ Within(v, Paid(feed, asked), Paid(feed, recorded), T)
      BY <1>4, <2>1, <2>3, <3>1 DEF PaidWithin
    <3>5. Within(web.amount[m] + v, Paid(feed, asked), Paid(feed, recorded), S \cup T)
      BY <1>4, <1>9, <3>2, <3>3, <3>4, WithinBoth
    <3> QED  BY <2>1, <3>2, <3>3, <3>5 DEF PaidWithin
  <2> QED  BY <2>2, <2>3
<1>13. TallyInv'
  BY <1>11, <1>12 DEF TallyInv
<1>14. /\ web'.at = "items" /\ web' \in Webs /\ web'.j <= web'.size + 1
       /\ web'.kind = web.kind /\ web'.nodes = web.nodes /\ web'.i = web.i
       /\ web'.size = web.size /\ web'.values = web.values
  BY <1>2, <1>5, <1>6, <1>8
<1> QED  BY <1>2, <1>13, <1>14, ReadingOn


-----------------------------------------------------------------------------
(* The bars of the charts. *)

\* Items that were not recorded add nothing.
LEMMA OnlyRecorded ==
  ASSUME SyncInv, StoreInv, NEW R \in SUBSET Items, NEW W \in SUBSET Items, R \subseteq W,
         \A k \in W \ R : recorded[k] = 0
  PROVE  SumFunctionOnSet(Paid(feed, recorded), W) = SumFunctionOnSet(Paid(feed, recorded), R)
<1>1. recorded \in [Items -> Nat] /\ feed \in Feeds
  BY StoreTypes
<1>2. \A k \in Items : /\ Paid(feed, recorded)[k] \in Nat
                       /\ recorded[k] = 0 => Paid(feed, recorded)[k] = 0
  BY <1>1, PaidFacts
<1>3. PICK T, f : T = W \ R /\ f = Paid(feed, recorded)
  OBVIOUS
<1>4. IsFiniteSet(R) /\ IsFiniteSet(T)
  BY <1>3, ItemsFinite
<1>5. SumFunctionOnSet(f, R \cup T) = SumFunctionOnSet(f, R) + SumFunctionOnSet(f, T)
  <2>1. R \cap T = {} /\ \A k \in R \cup T : f[k] \in Nat
    BY <1>2, <1>3
  <2> QED  BY <1>4, <2>1, SumOnSetUnion
<1>6. SumFunctionOnSet(f, T) = 0
  <2>1. \A k \in T : f[k] = 0
    BY <1>2, <1>3
  <2> QED  BY <1>4, <2>1, SumOnSetZero
<1>7. SumFunctionOnSet(f, R) \in Nat
  BY <1>2, <1>3, <1>4, SumOnSetFacts
<1>8. W = R \cup T
  BY <1>3
<1>9. SumFunctionOnSet(f, W) = SumFunctionOnSet(f, R)
  BY <1>5, <1>6, <1>7, <1>8
<1> QED  BY <1>3, <1>9

\* The totals of the nodes of a range are those of its items.
LEMMA RangeTotal ==
  ASSUME SyncInv, StoreInv, NEW first \in Int, NEW last \in Int,
         NEW R, R = {b \in Between(first, last) : recorded[b] > 0},
         NEW days, days = range_query(tree, first, last)
  PROVE  SumFunction([i \in DOMAIN days |-> tree.nodes[days[i]].sales])
           = SumFunctionOnSet(Paid(feed, recorded), R)
<1> DEFINE S == {feed[k].date : k \in R}
<1>1. /\ Ascending(days, S) /\ R \in SUBSET Items
      /\ recorded \in [Items -> Nat] /\ feed \in Feeds
      /\ \A k \in Items : feed[k].date \in Nat
  BY RangeIsRecorded, StoreTypes, FeedFacts DEF Between
<1>2. S \subseteq Nat /\ \A d \in S : \E k \in R : d = feed[k].date
  BY <1>1
<1>3. \A k \in R : feed[k].date \in S
  OBVIOUS
<1> HIDE DEF S
<1>4. PICK n \in Nat :
        /\ DOMAIN days = 1 .. n /\ \A i \in 1 .. n : days[i] \in S
        /\ \A i, j \in 1 .. n : i < j => days[i] < days[j]
        /\ \A d \in S : \E i \in 1 .. n : days[i] = d
  <2>1. /\ days \in Seq(S)
        /\ \A i, j \in 1 .. Len(days) : i < j => days[i] < days[j]
        /\ \A d \in S : \E i \in 1 .. Len(days) : days[i] = d
    BY <1>1 DEF Ascending
  <2>2. /\ Len(days) \in Nat /\ DOMAIN days = 1 .. Len(days)
        /\ \A i \in 1 .. Len(days) : days[i] \in S
    BY <2>1, LenProperties, ElementOfSeq
  <2> QED  BY <2>1, <2>2
<1>5. PICK key : key = [k \in Items |-> IF \E i \in 1 .. n : days[i] = feed[k].date
                                        THEN CHOOSE i \in 1 .. n : days[i] = feed[k].date
                                        ELSE 0]
  OBVIOUS
<1>6. \A i, j \in 1 .. n : days[i] = days[j] => i = j
  <2> SUFFICES ASSUME NEW i \in 1 .. n, NEW j \in 1 .. n, i < j PROVE days[i] # days[j]
    OBVIOUS
  <2>1. days[i] < days[j] /\ days[i] \in Nat
    BY <1>2, <1>4
  <2> QED  BY <2>1
<1>7. ASSUME NEW k \in Items, NEW i \in 1 .. n
      PROVE  key[k] = i <=> feed[k].date = days[i]
  <2>1. CASE \E z \in 1 .. n : days[z] = feed[k].date
    <3>1. key[k] \in 1 .. n /\ days[key[k]] = feed[k].date
      BY <1>5, <2>1
    <3> QED  BY <1>6, <3>1
  <2>2. CASE ~ \E z \in 1 .. n : days[z] = feed[k].date
    BY <1>5, <2>2
  <2> QED  BY <2>1, <2>2
<1>8. PICK f, e : f = Paid(feed, recorded) /\ e = [i \in 1 .. n |-> tree.nodes[days[i]].sales]
  OBVIOUS
<1>9. \A i \in 1 .. n : e[i] = SumFunctionOnSet(f, {x \in Items : key[x] = i})
  <2> SUFFICES ASSUME NEW i \in 1 .. n PROVE e[i] = SumFunctionOnSet(f, {x \in Items : key[x] = i})
    OBVIOUS
  <2>1. PICK d : d = days[i]
    OBVIOUS
  <2>2. d \in Nat /\ \E k \in Items : recorded[k] > 0 /\ feed[k].date = d
    BY <1>1, <1>2, <1>4, <2>1
  <2>3. SumFunctionOnSet(f, OnDay(feed, d)) = tree.nodes[d].sales
    BY <1>8, <2>2, DayTotals
  <2>4. OnDay(feed, d) = {x \in Items : key[x] = i}
    BY <1>7, <2>1 DEF OnDay
  <2> QED  BY <1>8, <2>1, <2>3, <2>4
<1>10. PICK U : U = {x \in Items : key[x] \in 1 .. n}
  OBVIOUS
<1>11. SumFunctionOnSet(e, 1 .. n) = SumFunctionOnSet(f, U)
  <2>1. IsFiniteSet(Items) /\ IsFiniteSet(1 .. n)
    BY ItemsFinite, FS_Interval
  <2>2. \A x \in Items : f[x] \in Nat
    BY <1>1, <1>8, PaidFacts
  <2>3. PICK D : D = 1 .. n
    OBVIOUS
  <2>4. \A d \in D : e[d] = SumFunctionOnSet(f, Part(Items, key, {d}))
    <3>1. \A d \in D : {x \in Items : key[x] = d} = Part(Items, key, {d})
      BY DEF Part
    <3> QED  BY <1>9, <2>3, <3>1
  <2>5. IsFiniteSet(D)
    BY <2>1, <2>3
  <2>6. SumFunctionOnSet(e, D) = SumFunctionOnSet(f, Part(Items, key, D))
    <3>1. SumsParts(e, f, key, Items, D)
      BY <2>1, <2>2, <2>4, <2>5 DEF SumsParts
    <3> QED  BY <3>1, SumOnSetParts
  <2> QED  BY <1>10, <2>3, <2>6 DEF Part
<1>12. R \subseteq U
  <2> SUFFICES ASSUME NEW k \in R PROVE k \in U
    OBVIOUS
  <2>1. PICK i \in 1 .. n : days[i] = feed[k].date
    BY <1>3, <1>4
  <2> QED  BY <1>1, <1>7, <1>10, <2>1
<1>13. \A k \in U \ R : recorded[k] = 0
  <2> SUFFICES ASSUME NEW k \in U, k \notin R PROVE recorded[k] = 0
    OBVIOUS
  <2>1. k \in Items /\ feed[k].date \in S
    BY <1>4, <1>7, <1>10
  <2>2. PICK b \in R : feed[k].date = feed[b].date
    BY <1>2, <2>1
  <2>3. k \in Between(first, last)
    BY <2>1, <2>2 DEF Between
  <2>4. ~ (recorded[k] > 0) /\ recorded[k] \in Nat
    BY <1>1, <2>1, <2>3
  <2> QED  BY <2>4
<1>14. SumFunctionOnSet(f, U) = SumFunctionOnSet(f, R)
  <2>1. U \in SUBSET Items
    BY <1>10
  <2> QED  BY <1>1, <1>8, <1>12, <1>13, <2>1, OnlyRecorded
<1>15. SumFunction([i \in DOMAIN days |-> tree.nodes[days[i]].sales]) = SumFunctionOnSet(e, 1 .. n)
  <2>1. e = [i \in DOMAIN days |-> tree.nodes[days[i]].sales] /\ DOMAIN e = 1 .. n
    BY <1>4, <1>8
  <2> QED  BY <2>1 DEF SumFunction
<1> QED  BY <1>8, <1>11, <1>14, <1>15

\* The days of a month are 1 to 31.
LEMMA DatesOfMonth ==
  ASSUME NEW d \in Dates, NEW q \in Nat, d \in q * 100 .. q * 100 + 99
  PROVE  d \in q * 100 + 1 .. q * 100 + 31
<1>1. d \in Nat /\ d % 100 \in 1 .. 31
  BY StoreConstants, SMTT(30) DEF IsDate
<1>2. \A e, p \in Nat : e \in p * 100 .. p * 100 + 99 /\ e % 100 \in 1 .. 31
        => e \in p * 100 + 1 .. p * 100 + 31
  BY SMT
<1> QED  BY <1>1, <1>2

LEMMA MonthlySummaryIsSum ==
  ASSUME SyncInv, StoreInv, NEW y \in Nat, NEW m \in Nat,
         NEW base, base = y * 10000 + m * 100
  PROVE  monthly_summary(y, m) = SumFunctionOnSet(Paid(feed, recorded), Between(base, base + 99))
<1>1. PICK q : q = y * 100 + m
  OBVIOUS
<1>2. q \in Nat /\ base = q * 100 /\ base \in Nat
  BY <1>1
<1>3. PICK first, last, days :
        first = base + 1 /\ last = base + 31 /\ days = range_query(tree, first, last)
  OBVIOUS
<1>4. first \in Int /\ last \in Int /\ last = first + 30 /\ first = y * 10000 + m * 100 + 1
  BY <1>2, <1>3
<1>5. monthly_summary(y, m) = SumFunction([i \in DOMAIN days |-> tree.nodes[days[i]].sales])
  BY <1>3, <1>4 DEF monthly_summary, monthly_total
<1> DEFINE R == {b \in Between(first, last) : recorded[b] > 0}
           W == Between(base, base + 99)
<1>6. R = {b \in Between(first, last) : recorded[b] > 0}
  OBVIOUS
<1>7. W = Between(base, base + 99)
  OBVIOUS
<1> HIDE DEF R, W
<1>8. monthly_summary(y, m) = SumFunctionOnSet(Paid(feed, recorded), R)
  <2>1. SumFunction([i \in DOMAIN days |-> tree.nodes[days[i]].sales])
          = SumFunctionOnSet(Paid(feed, recorded), R)
    BY <1>3, <1>4, <1>6, RangeTotal
  <2> QED  BY <1>5, <2>1
<1>9. /\ \A k \in Items : feed[k].date \in Dates /\ feed[k].date \in Nat
      /\ recorded \in [Items -> Nat]
  BY StoreTypes, FeedFacts DEF StoreInv
<1>10. \A d \in Dates : d \in base .. base + 99 => d \in first .. last
  BY <1>2, <1>3, DatesOfMonth
<1>11. \A d \in Nat : d \in first .. last => d \in base .. base + 99
  BY <1>2, <1>3
<1>12. W \in SUBSET Items /\ R \in SUBSET Items /\ R \subseteq W
  BY <1>6, <1>9, <1>11, <1>7 DEF Between
<1>13. \A k \in W \ R : recorded[k] = 0
  <2> SUFFICES ASSUME NEW k \in W, k \notin R PROVE recorded[k] = 0
    OBVIOUS
  <2>1. k \in Items /\ feed[k].date \in base .. base + 99
    BY <1>7 DEF Between
  <2>2. k \in Between(first, last)
    BY <1>9, <1>10, <2>1 DEF Between
  <2>3. ~ (recorded[k] > 0) /\ recorded[k] \in Nat
    BY <1>6, <1>9, <2>1, <2>2
  <2> QED  BY <2>3
<1>14. SumFunctionOnSet(Paid(feed, recorded), W) = SumFunctionOnSet(Paid(feed, recorded), R)
  BY <1>12, <1>13, OnlyRecorded
<1> QED  BY <1>8, <1>14, <1>7

\* Counting months down goes to the year before, once at most.
LEMMA MonthBackIs ==
  ASSUME NEW back \in 0 .. 11,
         NEW year, year = IF back < Month THEN Year ELSE Year - 1,
         NEW month, month = IF back < Month THEN Month - back ELSE Month - back + 12
  PROVE  MonthBack(back) = <<year, month>> /\ year \in Nat /\ month \in Nat
<1>1. PICK y, m : y = Year /\ m = Month
  OBVIOUS
<1>2. y \in Nat \ {0} /\ m \in 1 .. 12
  BY <1>1, StoreConstants
<1>3. PICK n : n = y * 12 + m - 1 - back
  OBVIOUS
<1>4. MonthBack(back) = <<n \div 12, (n % 12) + 1>>
  BY <1>1, <1>3 DEF MonthBack
<1>5. CASE back < m
  <2>1. n \div 12 = y /\ (n % 12) + 1 = m - back
    BY <1>2, <1>3, <1>5
  <2>2. year = y /\ month = m - back
    BY <1>1, <1>5
  <2> QED  BY <1>2, <1>4, <1>5, <2>1, <2>2
<1>6. CASE ~ (back < m)
  <2>1. n \div 12 = y - 1 /\ (n % 12) + 1 = m - back + 12
    BY <1>2, <1>3, <1>6
  <2>2. year = y - 1 /\ month = m - back + 12
    BY <1>1, <1>6
  <2> QED  BY <1>2, <1>4, <1>6, <2>1, <2>2
<1> QED  BY <1>5, <1>6

\* A bar that has what is recorded of its items when it is computed.
LEMMA NextBarInv ==
  ASSUME SyncInv, StoreInv, WebInv, NEW value, NEW bars, NextBar(bars, value),
         bars = Bars, web.kind # "breakdown", NEW S \in SUBSET Items,
         \A i \in Nat : i = Len(web.values) + 1 => BarItems(i) = S,
         value = SumFunctionOnSet(Paid(feed, recorded), S)
  PROVE  WebInv'
<1>1. /\ web.at = "chart"
      /\ UNCHANGED <<asked, feed, recorded, by_drink>>
      /\ web' = [web EXCEPT !.values = Append(@, value),
                            !.at = IF Len(web.values) + 1 < bars THEN "chart" ELSE "done"]
  BY DEF NextBar, vars, peerVars, storeVars
<1>2. /\ web \in Webs /\ web.j <= web.size + 1 /\ asked \in [Items -> Nat]
      /\ recorded \in [Items -> Nat] /\ feed \in Feeds /\ web.values \in Seq(Nat)
      /\ Len(web.values) \in Nat
  BY StoreTypes, WebTypes DEF WebInv, WebTypeInv, Webs
<1>3. \A k \in Items : asked[k] <= recorded[k]
  BY <1>1 DEF WebInv, RequestInv
<1>4. value \in Nat /\ PaidWithin(value, S)
  <2>1. IsFiniteSet(S)
    BY ItemsFinite
  <2>2. \A k \in S : /\ Paid(feed, asked)[k] \in Nat /\ Paid(feed, recorded)[k] \in Nat
                     /\ Paid(feed, asked)[k] <= Paid(feed, recorded)[k]
    BY <1>2, <1>3, PaidFacts
  <2>3. SumFunctionOnSet(Paid(feed, asked), S) <= SumFunctionOnSet(Paid(feed, recorded), S)
    BY <2>1, <2>2, SumOnSetGrows
  <2>4. SumFunctionOnSet(Paid(feed, recorded), S) \in Nat
    BY <2>1, <2>2, SumOnSetFacts
  <2> QED  BY <2>3, <2>4 DEF Within, PaidWithin
<1>5. PICK values, at_ : /\ values = Append(web.values, value)
                         /\ at_ = IF Len(web.values) + 1 < bars THEN "chart" ELSE "done"
  OBVIOUS
<1>6. /\ values \in Seq(Nat) /\ Len(values) = Len(web.values) + 1 /\ at_ \in {"chart", "done"}
      /\ values[Len(web.values) + 1] = value
      /\ \A i \in 1 .. Len(web.values) : values[i] = web.values[i]
      /\ at_ = "chart" => Len(values) < bars
  BY <1>2, <1>4, <1>5, AppendProperties
<1>7. /\ web'.at = at_ /\ web'.values = values /\ web'.kind = web.kind
      /\ web'.j = web.j /\ web'.size = web.size /\ web' \in Webs
  <2>1. web' = [web EXCEPT !.values = values, !.at = at_]
    BY <1>1, <1>5
  <2> QED  BY <1>2, <1>6, <2>1 DEF Webs
<1>8. WebTypeInv'
  BY <1>1, <1>2, <1>7 DEF WebTypeInv, Webs
<1>9. RequestInv'
  <2>1. Bars' = bars
    BY <1>7 DEF Bars
  <2>2. Len(web.values) < bars
    BY <1>1 DEF WebInv, RequestInv
  <2>3. bars \in Nat
    BY StoreConstants, LenProperties DEF Bars
  <2>4. Len(values) <= bars
    BY <1>2, <1>6, <2>2, <2>3
  <2> QED  BY <1>1, <1>3, <1>6, <1>7, <2>1, <2>4 DEF RequestInv, Reading
<1>10. NodesInv' /\ PlaceInv' /\ TallyInv' /\ DoneInv' /\ BreakdownFailsOnlyOnFirstSale'
  BY <1>6, <1>7 DEF NodesInv, PlaceInv, TallyInv, DoneInv, Reading, BreakdownFailsOnlyOnFirstSale
<1>11. BarsInv'
  <2>1. \A i : BarItems(i)' = BarItems(i)
    BY <1>1, <1>7 DEF BarItems, Between
  <2>2. \A i \in 1 .. Len(web.values) : PaidWithin(web.values[i], BarItems(i))
    BY <1>1 DEF WebInv, BarsInv
  <2>3. ASSUME NEW i \in 1 .. Len(values) PROVE PaidWithin(values[i], BarItems(i))
    <3>1. CASE i \in 1 .. Len(web.values)
      BY <1>6, <2>2, <3>1
    <3>2. CASE i \notin 1 .. Len(web.values)
      <4>1. i = Len(web.values) + 1 /\ i \in Nat
        BY <1>2, <1>6, <3>2
      <4> QED  BY <1>4, <1>6, <4>1
    <3> QED  BY <3>1, <3>2
  <2> QED  BY <1>1, <1>7, <2>1, <2>3 DEF BarsInv, PaidWithin
<1> QED  BY <1>8, <1>9, <1>10, <1>11 DEF WebInv

LEMMA NextDayInv ==
  ASSUME SyncInv, StoreInv, WebInv, NextDay PROVE WebInv'
<1>1. PICK i, value : i = Len(web.values) + 1 /\ value = daily_summary(Days[i])
  OBVIOUS
<1>2. web.kind = "daily" /\ web.at = "chart" /\ NextBar(Len(Days), value)
  BY <1>1 DEF NextDay, NextBar
<1>3. Len(Days) = Bars
  BY <1>2 DEF Bars
<1>4. Days[i] \in Nat
  <2>1. Len(web.values) \in Nat /\ Len(web.values) < Len(Days)
    BY <1>2, <1>3, WebTypes DEF WebInv, RequestInv
  <2>2. Days \in Seq(Nat) /\ Len(Days) \in Nat
    BY StoreConstants, LenProperties
  <2>3. i \in 1 .. Len(Days)
    BY <1>1, <2>1, <2>2
  <2> QED  BY <2>2, <2>3, ElementOfSeq
<1>5. PICK S : S = OnDay(feed, Days[i])
  OBVIOUS
<1>6. S \in SUBSET Items /\ value = SumFunctionOnSet(Paid(feed, recorded), S)
  BY <1>1, <1>4, <1>5, DailySummaryIsSum DEF OnDay
<1>7. BarItems(i) = S
  <2>1. \A k \in Items : feed[k].date \in Nat
    BY FeedFacts DEF StoreInv
  <2>2. Between(Days[i], Days[i]) = S
    BY <1>4, <1>5, <2>1 DEF Between, OnDay
  <2> QED  BY <1>2, <2>2 DEF BarItems
<1>8. web.kind # "breakdown"
  BY <1>2
<1> QED  BY <1>1, <1>2, <1>3, <1>6, <1>7, <1>8, NextBarInv

LEMMA NextMonthInv ==
  ASSUME SyncInv, StoreInv, WebInv, NextMonth PROVE WebInv'
<1>1. PICK i, back : i = Len(web.values) + 1 /\ back = Months - i
  OBVIOUS
<1>2. web.kind = "monthly" /\ web.at = "chart"
  BY DEF NextMonth, NextBar
<1>3. Months = Bars
  BY <1>2 DEF Bars
<1>4. back \in 0 .. 11 /\ Months - 1 - Len(web.values) = back /\ i \in Nat
  <2>1. Len(web.values) \in Nat /\ Len(web.values) < Months /\ Months \in 1 .. 12
    BY <1>2, <1>3, WebTypes, StoreConstants DEF WebInv, RequestInv
  <2> QED  BY <1>1, <2>1, SMTT(30)
<1>5. PICK y, m : /\ y = IF back < Month THEN Year ELSE Year - 1
                  /\ m = IF back < Month THEN Month - back ELSE Month - back + 12
  OBVIOUS
<1>6. MonthBack(back) = <<y, m>> /\ y \in Nat /\ m \in Nat
  BY <1>4, <1>5, MonthBackIs
<1>7. PICK value : value = monthly_summary(y, m)
  OBVIOUS
<1>8. NextBar(Months, value)
  <2>1. PICK month : month = MonthBack(Months - 1 - Len(web.values))
    OBVIOUS
  <2>2. month[1] = y /\ month[2] = m
    BY <1>4, <1>6, <2>1
  <2>3. NextBar(Months, monthly_summary(month[1], month[2]))
    BY <2>1 DEF NextMonth
  <2> QED  BY <1>7, <2>2, <2>3
<1>9. PICK base, S : base = y * 10000 + m * 100 /\ S = Between(base, base + 99)
  OBVIOUS
<1>10. S \in SUBSET Items /\ value = SumFunctionOnSet(Paid(feed, recorded), S)
  BY <1>6, <1>7, <1>9, MonthlySummaryIsSum DEF Between
<1>11. BarItems(i) = S
  BY <1>1, <1>2, <1>5, <1>9 DEF BarItems
<1>12. web.kind # "breakdown"
  BY <1>2
<1> QED  BY <1>1, <1>3, <1>8, <1>10, <1>11, <1>12, NextBarInv


-----------------------------------------------------------------------------
(* The invariant, and what follows from it. *)

LEMMA RespondInv == ASSUME Respond PROVE WebInv'
<1>1. web' = NoRequest /\ asked' = [k \in Items |-> 0]
  BY DEF Respond
<1>2. /\ NoTally \in [Drinks -> Nat] /\ << >> \in Seq(Nat) /\ << >> \in Seq(Dates)
      /\ asked' \in [Items -> Nat]
  BY <1>1, EmptySeq DEF NoTally
<1>3. /\ web'.at = "idle" /\ web'.kind = "breakdown" /\ web'.values = << >>
      /\ web'.j = 1 /\ web'.size = 0
  BY <1>1 DEF NoRequest
<1>4. WebTypeInv'
  <2>1. NoRequest \in Webs
    BY <1>2 DEF NoRequest, Webs
  <2> QED  BY <1>1, <1>2, <1>3, <2>1 DEF WebTypeInv, Webs
<1>5. RequestInv'
  BY <1>1, <1>3 DEF RequestInv, Reading
<1>6. NodesInv' /\ PlaceInv' /\ TallyInv' /\ DoneInv' /\ BarsInv' /\ BreakdownFailsOnlyOnFirstSale'
  BY <1>3 DEF NodesInv, PlaceInv, TallyInv, DoneInv, BarsInv, Reading,
              BreakdownFailsOnlyOnFirstSale
<1> QED  BY <1>4, <1>5, <1>6 DEF WebInv

LEMMA WebInvNext ==
  ASSUME SyncInv, StoreInv, WebInv, SyncInv', StoreInv', [PeerNext]_peerStoreVars
  PROVE  WebInv'
<1>1. CASE Grows /\ UNCHANGED <<web, asked>>
  BY <1>1, WebInvGrows
<1>2. CASE Request
  <2>1. CASE AskBreakdown
    BY <2>1, AskBreakdownInv
  <2>2. CASE FirstNode
    BY <2>2, FirstNodeInv
  <2>3. CASE ReadCount
    BY <2>3, ReadCountInv
  <2>4. CASE ReadAmount
    BY <2>4, ReadAmountInv
  <2>5. CASE NextNode
    BY <2>5, NextNodeInv
  <2>6. CASE LoopFails
    BY <2>6, LoopFailsInv
  <2>7. CASE AskChart("monthly") \/ AskChart("daily")
    BY <2>7, AskChartInv
  <2>8. CASE NextMonth
    BY <2>8, NextMonthInv
  <2>9. CASE NextDay
    BY <2>9, NextDayInv
  <2>10. CASE Respond
    BY <2>10, RespondInv
  <2> QED  BY <1>2, <2>1, <2>2, <2>3, <2>4, <2>5, <2>6, <2>7, <2>8, <2>9, <2>10 DEF Request
<1> QED  BY <1>1, <1>2, StoreStepGrows

LEMMA PeerInvAlways == PeerSpec => [](SyncInv /\ StoreInv /\ WebInv)
<1>1. PeerInit => WebInv
  BY NoRequestInv DEF PeerInit
<1>2. (SyncInv /\ StoreInv) /\ (SyncInv /\ StoreInv)' /\ WebInv /\ [PeerNext]_peerStoreVars => WebInv'
  BY WebInvNext
<1> QED  BY <1>1, <1>2, StoreInvAlways, PTL DEF PeerSpec

LEMMA BarsBound ==
  ASSUME NEW max, max = Max({Months, Len(Days)})
  PROVE  max \in Nat /\ Months <= max /\ Len(Days) <= max
<1>1. PICK a, b : a = Months /\ b = Len(Days)
  OBVIOUS
<1>2. a \in Nat /\ b \in Nat
  BY <1>1, StoreConstants, LenProperties
<1>3. \E m \in {a, b} : \A y \in {a, b} : m >= y
  <2>1. CASE a >= b
    BY <1>2, <2>1
  <2>2. CASE b >= a
    BY <1>2, <2>2
  <2> QED  BY <1>2, <2>1, <2>2
<1>4. Max({a, b}) \in {a, b} /\ \A y \in {a, b} : Max({a, b}) >= y
  BY <1>3, Zenon DEF Max
<1>5. max = Max({a, b})
  BY <1>1
<1> QED  BY <1>1, <1>2, <1>4, <1>5

LEMMA PeerTypes == ASSUME SyncInv, StoreInv, WebInv PROVE PeerTypeOK
<1>1. /\ feed \in Feeds /\ lock \in 0 .. MaxConns
      /\ adding \in {"nothing", "count", "amount"} /\ (lock = 0) = (adding = "nothing")
  BY DEF StoreInv, LockInv
<1>2. Keys(tree) \subseteq Dates
  <2>1. \A k \in Items : feed[k].date \in Dates
    BY FeedFacts DEF StoreInv
  <2> QED  BY <2>1 DEF StoreInv, TreeInv
<1>3. IsTree(tree)
  BY DEF StoreInv, TreeInv, IsBST
<1>4. /\ tree.root \in Dates \cup {None} /\ DOMAIN tree.nodes \subseteq Dates
      /\ \A d \in DOMAIN tree.nodes :
           tree.nodes[d] \in [sales : Nat, left : Dates \cup {None}, right : Dates \cup {None}]
  <2>1. tree.root \in Keys(tree) \cup {None} /\ DOMAIN tree.nodes = Keys(tree)
    BY <1>3 DEF IsTree, Keys
  <2>2. ASSUME NEW d \in Keys(tree)
        PROVE  tree.nodes[d] \in [sales : Nat, left : Dates \cup {None}, right : Dates \cup {None}]
    <3>1. tree.nodes[d] \in [sales : Nat, left : Keys(tree) \cup {None},
                             right : Keys(tree) \cup {None}]
      BY <1>3, <2>2 DEF IsTree
    <3> QED  BY <1>2, <3>1
  <2> QED  BY <1>2, <2>1, <2>2
<1>5. \A d \in Dates : by_drink[d] \in Seq(Entries)
  BY StoreTypes
<1>6. web \in Webs /\ web.j <= web.size + 1 /\ asked \in [Items -> Nat]
  BY DEF WebInv, WebTypeInv, Webs
<1>7. /\ web.at \in {"idle", "nodes", "items", "amount", "chart", "done", "failed"}
      /\ web.kind \in {"breakdown", "monthly", "daily"}
      /\ web.nodes \in Seq(Dates) /\ web.i \in Nat \ {0} /\ web.j \in 1 .. web.size + 1
      /\ web.count \in [Drinks -> Nat] /\ web.amount \in [Drinks -> Nat]
      /\ web.values \in Seq(Nat)
  BY <1>6 DEF Webs
<1>8. Len(web.values) <= Max({Months, Len(Days)})
  <2>1. PICK max : max = Max({Months, Len(Days)})
    OBVIOUS
  <2>2. max \in Nat /\ Months <= max /\ Len(Days) <= max
    BY <2>1, BarsBound
  <2>3. Len(web.values) \in Nat /\ Months \in Nat /\ Len(Days) \in Nat
    BY WebTypes, StoreConstants, LenProperties DEF WebInv
  <2>4. Len(web.values) = 0 \/ Len(web.values) <= Months \/ Len(web.values) <= Len(Days)
    BY DEF WebInv, RequestInv, Bars
  <2> QED  BY <2>1, <2>2, <2>3, <2>4
<1> QED  BY <1>1, <1>4, <1>5, <1>6, <1>7, <1>8 DEF PeerTypeOK

LEMMA BreakdownIsBetween == ASSUME WebInv PROVE BreakdownBetween
<1>1. SUFFICES ASSUME web.at = "done", web.kind = "breakdown", NEW n \in Drinks,
                      NEW S, S = {k \in Between(Year * 10000, Year * 10000 + 9999) : feed[k].drink = n}
               PROVE  /\ Count(S, asked) <= web.count[n] /\ web.count[n] <= Count(S, recorded)
                      /\ Amount(S, asked) <= web.amount[n] /\ web.amount[n] <= Amount(S, recorded)
  BY DEF BreakdownBetween
<1>2. S = YearSold(n)
  BY <1>1 DEF Between, YearSold, ThisYear, YearDates
<1>3. /\ Within(web.count[n], asked, recorded, S)
      /\ PaidWithin(web.amount[n], S)
  BY <1>1, <1>2 DEF WebInv, DoneInv
<1> QED  BY <1>3, AmountIsSum DEF Within, PaidWithin

LEMMA ChartsAreBetween == ASSUME WebInv PROVE ChartsBetween
<1>1. SUFFICES ASSUME web.at = "done", web.kind # "breakdown", NEW i \in DOMAIN web.values
               PROVE  /\ Amount(BarItems(i), asked) <= web.values[i]
                      /\ web.values[i] <= Amount(BarItems(i), recorded)
  BY DEF ChartsBetween, BarItems
<1>2. i \in 1 .. Len(web.values)
  <2>1. web.values \in Seq(Nat)
    BY WebTypes DEF WebInv
  <2> QED  BY <2>1, LenProperties
<1>3. PaidWithin(web.values[i], BarItems(i))
  BY <1>1, <1>2 DEF WebInv, BarsInv
<1> QED  BY <1>3, AmountIsSum DEF Within, PaidWithin

(* The store and the request keep their types: in particular, the tree's    *)
(* links lead to its nodes, and a chart never has more bars than it should  *)
(* (server_db.py, web_server.py:41-90).                                     *)
THEOREM PeerTypesHold == PeerSpec => []PeerTypeOK
BY PeerInvAlways, PeerTypes, PTL

(* What the page shows of this year, read without the lock, lies between    *)
(* what was recorded when it asked and what is when it gets its answer      *)
(* (server_db.py:33-42, web_server.py:79-90).                               *)
THEOREM BreakdownLiesBetween == PeerSpec => []BreakdownBetween
BY PeerInvAlways, BreakdownIsBetween, PTL

(* The page fails only when a drink is sold for the first time on its day   *)
(* while the page reads: never because of sales of other days or drinks     *)
(* (server_db.py:38, sales_tree.py:43).                                     *)
THEOREM FailsOnlyOnFirstSale == PeerSpec => []BreakdownFailsOnlyOnFirstSale
<1>1. WebInv => BreakdownFailsOnlyOnFirstSale
  BY DEF WebInv
<1> QED  BY <1>1, PeerInvAlways, PTL

(* Each bar is the total of its month, across New Year too, or of its day,  *)
(* at some time while the chart was computed (web_server.py:41-75).         *)
THEOREM ChartsLieBetween == PeerSpec => []ChartsBetween
BY PeerInvAlways, ChartsAreBetween, PTL

===============================================================================
