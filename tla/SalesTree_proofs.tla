-------------------------- MODULE SalesTree_proofs --------------------------
(***************************************************************************)
(* What the methods of SalesBST and the binary search return, for trees of *)
(* any size: a tree is filled by insert, whatever the order of the dates,  *)
(* and stays a search tree.                                                *)
(*                                                                         *)
(* A method that goes down the tree is a recursive function on its nodes.  *)
(* That such a function exists, and what holds of all its values, follows  *)
(* from TreeRecursion and TreeInduction.                                   *)
(***************************************************************************)
EXTENDS SalesTree, SortSearch, FoldSums, SequenceTheorems

\* A date YYYYMMDD has at most eight digits.
Limit == 100000000

Keys(t) == DOMAIN t.nodes

\* The nodes of the tree are records whose links lead to nodes.
IsTree(t) ==
  /\ Keys(t) \subseteq 1 .. Limit - 1
  /\ t.root \in Keys(t) \cup {None}
  /\ t.nodes \in [Keys(t) -> [sales : Nat, left : Keys(t) \cup {None}, right : Keys(t) \cup {None}]]
  /\ t = [root |-> t.root, nodes |-> t.nodes]

\* Below node d lie the dates between lo[d] and hi[d]: those before d on its
\* left, those after it on its right, and nothing where there is no link.
Bounds(t, lo, hi) ==
  /\ lo \in [Keys(t) -> 0 .. Limit] /\ hi \in [Keys(t) -> 0 .. Limit]
  /\ t.root = None => Keys(t) = {}
  /\ t.root # None => lo[t.root] = 0 /\ hi[t.root] = Limit
  /\ \A d \in Keys(t) :
       /\ lo[d] < d /\ d < hi[d]
       /\ LET left == t.nodes[d].left IN
            /\ left # None => lo[left] = lo[d] /\ hi[left] = d
            /\ left = None => \A e \in Keys(t) : ~ (lo[d] < e /\ e < d)
       /\ LET right == t.nodes[d].right IN
            /\ right # None => lo[right] = d /\ hi[right] = hi[d]
            /\ right = None => \A e \in Keys(t) : ~ (d < e /\ e < hi[d])

\* Of two nodes one lies below the other, on one of its sides, or they have
\* no dates in common.
Nested(t, lo, hi) ==
  \A d, e \in Keys(t) : d < e =>
    \/ hi[d] <= e /\ lo[e] <= lo[d]
    \/ d <= lo[e] /\ hi[e] <= hi[d]
    \/ hi[d] <= lo[e]

IsBST(t, lo, hi) == IsTree(t) /\ Bounds(t, lo, hi) /\ Nested(t, lo, hi)

\* The nodes below m, m included.
Below(t, lo, hi, m) == {d \in Keys(t) : lo[m] < d /\ d < hi[m]}

LEMMA LimitIsPositive == Limit \in Nat /\ 0 < Limit
BY SMT DEF Limit

LEMMA EmptyIsBST == IsBST(EmptyTree, << >>, << >>)
BY LimitIsPositive DEF IsBST, IsTree, Bounds, Nested, EmptyTree, Keys, None

-----------------------------------------------------------------------------
(* Induction and recursion down the tree. *)

\* What holds of None, and of a node when it holds of both its links, holds of
\* all nodes.
LEMMA TreeInduction ==
  ASSUME NEW t, NEW lo, NEW hi, IsBST(t, lo, hi),
         NEW P, None \in P,
         \A d \in Keys(t) : t.nodes[d].left \in P /\ t.nodes[d].right \in P => d \in P
  PROVE  Keys(t) \subseteq P
<1> DEFINE W == {hi[d] - lo[d] : d \in Keys(t) \ P}
<1> SUFFICES ASSUME Keys(t) \ P # {} PROVE FALSE
  OBVIOUS
<1>1. \A d \in Keys(t) : hi[d] \in Nat /\ lo[d] \in Nat /\ d \in Nat /\ lo[d] < d /\ d < hi[d]
  BY LimitIsPositive DEF IsBST, IsTree, Bounds
<1>2. W \in SUBSET Nat /\ W # {}
  BY <1>1
<1>3. PICK w \in W : \A v \in W : w <= v
  <2> HIDE DEF W
  <2> QED  BY <1>2, LeastElement
<1>4. PICK d \in Keys(t) \ P : w = hi[d] - lo[d]
  BY <1>3
<1>5. \A e \in Keys(t) \ P : hi[d] - lo[d] <= hi[e] - lo[e]
  BY <1>3, <1>4
<1>6. t.nodes[d].left \in Keys(t) \cup {None} /\ t.nodes[d].right \in Keys(t) \cup {None}
  BY DEF IsBST, IsTree
<1>7. t.nodes[d].left \in P
  <2> SUFFICES ASSUME t.nodes[d].left \in Keys(t) \ P PROVE FALSE
    BY <1>6
  <2> DEFINE e == t.nodes[d].left
  <2>1. lo[e] = lo[d] /\ hi[e] = d
    BY <1>1 DEF IsBST, Bounds, None
  <2>2. hi[d] - lo[d] <= hi[e] - lo[e]
    BY <1>5
  <2> QED  BY <1>1, <2>1, <2>2
<1>8. t.nodes[d].right \in P
  <2> SUFFICES ASSUME t.nodes[d].right \in Keys(t) \ P PROVE FALSE
    BY <1>6
  <2> DEFINE e == t.nodes[d].right
  <2>1. lo[e] = d /\ hi[e] = hi[d]
    BY <1>1 DEF IsBST, Bounds, None
  <2>2. hi[d] - lo[d] <= hi[e] - lo[e]
    BY <1>5
  <2> QED  BY <1>1, <2>1, <2>2
<1> QED  BY <1>4, <1>7, <1>8

\* The nodes below a node's links are those below it, without itself.
LEMMA BelowLinks ==
  ASSUME NEW t, NEW lo, NEW hi, IsBST(t, lo, hi), NEW m \in Keys(t)
  PROVE  /\ m \in Below(t, lo, hi, m)
         /\ LET left == t.nodes[m].left IN
              /\ left \in Keys(t) => Below(t, lo, hi, left) = {d \in Below(t, lo, hi, m) : d < m}
              /\ left = None => {d \in Below(t, lo, hi, m) : d < m} = {}
         /\ LET right == t.nodes[m].right IN
              /\ right \in Keys(t) => Below(t, lo, hi, right) = {d \in Below(t, lo, hi, m) : d > m}
              /\ right = None => {d \in Below(t, lo, hi, m) : d > m} = {}
<1>1. \A d \in Keys(t) : /\ hi[d] \in Nat /\ lo[d] \in Nat /\ d \in Nat
                         /\ lo[d] < d /\ d < hi[d] /\ d # None
  BY LimitIsPositive DEF IsBST, IsTree, Bounds, None
<1>2. LET left == t.nodes[m].left IN
        /\ left # None => lo[left] = lo[m] /\ hi[left] = m
        /\ left = None => \A e \in Keys(t) : ~ (lo[m] < e /\ e < m)
  BY DEF IsBST, Bounds
<1>3. LET right == t.nodes[m].right IN
        /\ right # None => lo[right] = m /\ hi[right] = hi[m]
        /\ right = None => \A e \in Keys(t) : ~ (m < e /\ e < hi[m])
  BY DEF IsBST, Bounds
<1>4. m \in Below(t, lo, hi, m)
  BY <1>1 DEF Below
<1>5. ASSUME t.nodes[m].left \in Keys(t)
      PROVE  Below(t, lo, hi, t.nodes[m].left) = {d \in Below(t, lo, hi, m) : d < m}
  BY <1>1, <1>2, <1>5 DEF Below
<1>6. ASSUME t.nodes[m].right \in Keys(t)
      PROVE  Below(t, lo, hi, t.nodes[m].right) = {d \in Below(t, lo, hi, m) : d > m}
  BY <1>1, <1>3, <1>6 DEF Below
<1> QED  BY <1>1, <1>2, <1>3, <1>4, <1>5, <1>6 DEF Below

\* All nodes below m lead to nodes below m.
LEMMA BelowClosed ==
  ASSUME NEW t, NEW lo, NEW hi, IsBST(t, lo, hi), NEW m \in Keys(t), NEW d \in Below(t, lo, hi, m)
  PROVE  /\ t.nodes[d].left \in Below(t, lo, hi, m) \cup {None}
         /\ t.nodes[d].right \in Below(t, lo, hi, m) \cup {None}
<1>1. \A e \in Keys(t) : /\ hi[e] \in Nat /\ lo[e] \in Nat /\ e \in Nat
                         /\ lo[e] < e /\ e < hi[e] /\ e # None
  BY LimitIsPositive DEF IsBST, IsTree, Bounds, None
<1>2. d \in Keys(t) /\ lo[m] < d /\ d < hi[m]
  BY DEF Below
<1>3. lo[m] <= lo[d] /\ hi[d] <= hi[m]
  BY <1>1, <1>2 DEF IsBST, Nested
<1>4. /\ t.nodes[d].left \in Keys(t) \cup {None}
      /\ t.nodes[d].right \in Keys(t) \cup {None}
  BY <1>2 DEF IsBST, IsTree
<1>5. ASSUME t.nodes[d].left \in Keys(t) PROVE t.nodes[d].left \in Below(t, lo, hi, m)
  <2>1. lo[t.nodes[d].left] = lo[d] /\ hi[t.nodes[d].left] = d
    BY <1>1, <1>2, <1>5 DEF IsBST, Bounds
  <2> QED  BY <1>1, <1>2, <1>3, <1>5, <2>1 DEF Below
<1>6. ASSUME t.nodes[d].right \in Keys(t) PROVE t.nodes[d].right \in Below(t, lo, hi, m)
  <2>1. lo[t.nodes[d].right] = d /\ hi[t.nodes[d].right] = hi[d]
    BY <1>1, <1>2, <1>6 DEF IsBST, Bounds
  <2> QED  BY <1>1, <1>2, <1>3, <1>6, <2>1 DEF Below
<1> QED  BY <1>4, <1>5, <1>6

\* g has the values of the recursion on the nodes of S and None.
Recursive(g, t, S, z, G) ==
  /\ g[None] = z
  /\ \A d \in S : g[d] = G[<<d, g[t.nodes[d].left], g[t.nodes[d].right]>>]

\* Whatever is computed for a node from what is computed for its links, there
\* is a function that has all these values.
LEMMA TreeRecursion ==
  ASSUME NEW t, NEW lo, NEW hi, IsBST(t, lo, hi), NEW X, NEW z \in X,
         NEW G \in [Keys(t) \X X \X X -> X]
  PROVE  \E g \in [Keys(t) \cup {None} -> X] : Recursive(g, t, Keys(t), z, G)
<1> DEFINE K == Keys(t)
           B(m) == Below(t, lo, hi, m)
           P == {None} \cup {m \in K : \E g : Recursive(g, t, B(m), z, G)}
<1>1. \A d \in K : d \in Nat /\ d # None
  BY LimitIsPositive DEF IsBST, IsTree, None
<1>2. \A d \in K : t.nodes[d].left \in K \cup {None} /\ t.nodes[d].right \in K \cup {None}
  BY DEF IsBST, IsTree
<1>3. ASSUME NEW m \in K, t.nodes[m].left \in P, t.nodes[m].right \in P
      PROVE  m \in P
  <2> DEFINE left == t.nodes[m].left
             right == t.nodes[m].right
             L == {d \in B(m) : d < m}
             R == {d \in B(m) : d > m}
  <2>1. \E g : Recursive(g, t, L, z, G)
    <3>1. CASE left = None
      <4>1. L = {}
        BY <3>1, BelowLinks
      <4>2. Recursive([d \in {None} |-> z], t, {}, z, G)
        BY DEF Recursive
      <4> HIDE DEF L
      <4> QED  BY <4>1, <4>2
    <3>2. CASE left # None
      <4>1. left \in K /\ \E g : Recursive(g, t, B(left), z, G)
        BY <1>3, <3>2
      <4>2. B(left) = L
        BY <4>1, BelowLinks
      <4> HIDE DEF L, B, left
      <4> QED  BY <4>1, <4>2
    <3> QED  BY <3>1, <3>2
  <2>2. \E g : Recursive(g, t, R, z, G)
    <3>1. CASE right = None
      <4>1. R = {}
        BY <3>1, BelowLinks
      <4>2. Recursive([d \in {None} |-> z], t, {}, z, G)
        BY DEF Recursive
      <4> HIDE DEF R
      <4> QED  BY <4>1, <4>2
    <3>2. CASE right # None
      <4>1. right \in K /\ \E g : Recursive(g, t, B(right), z, G)
        BY <1>3, <3>2
      <4>2. B(right) = R
        BY <4>1, BelowLinks
      <4> HIDE DEF R, B, right
      <4> QED  BY <4>1, <4>2
    <3> QED  BY <3>1, <3>2
  <2>3. PICK gl : Recursive(gl, t, L, z, G)
    BY <2>1
  <2>4. PICK gr : Recursive(gr, t, R, z, G)
    BY <2>2
  <2>5. /\ left \in L \cup {None} /\ right \in R \cup {None}
        /\ \A d \in L : t.nodes[d].left \in L \cup {None} /\ t.nodes[d].right \in L \cup {None}
        /\ \A d \in R : t.nodes[d].left \in R \cup {None} /\ t.nodes[d].right \in R \cup {None}
    <3>1. left \in K => L = B(left) /\ left \in B(left)
      BY BelowLinks
    <3>2. right \in K => R = B(right) /\ right \in B(right)
      BY BelowLinks
    <3>3. left \in K \/ L = {}
      BY <1>2, BelowLinks
    <3>4. right \in K \/ R = {}
      BY <1>2, BelowLinks
    <3>5. \A n \in K : \A d \in B(n) :
            /\ t.nodes[d].left \in B(n) \cup {None}
            /\ t.nodes[d].right \in B(n) \cup {None}
      BY BelowClosed
    <3>6. left \in K \cup {None} /\ right \in K \cup {None}
      BY <1>2
    <3> HIDE DEF L, R, B, left, right
    <3> QED  BY <3>1, <3>2, <3>3, <3>4, <3>5, <3>6
  <2>6. /\ m \in B(m) /\ B(m) = L \cup R \cup {m} /\ m \notin L /\ m \notin R /\ L \cap R = {}
        /\ None \notin L /\ None \notin R /\ m # None
    BY <1>1, BelowLinks DEF Below
  <2> DEFINE g == [d \in B(m) \cup {None} |->
                     IF d = None THEN z
                     ELSE IF d = m THEN G[<<m, gl[left], gr[right]>>]
                     ELSE IF d \in L THEN gl[d] ELSE gr[d]]
  <2>7. /\ g[None] = z /\ g[m] = G[<<m, gl[left], gr[right]>>]
        /\ \A d \in L \cup {None} : g[d] = gl[d]
        /\ \A d \in R \cup {None} : g[d] = gr[d]
    <3>1. gl[None] = z /\ gr[None] = z
      BY <2>3, <2>4 DEF Recursive
    <3> HIDE DEF L, R, B, left, right
    <3> QED  BY <2>6, <3>1
  <2>8. Recursive(g, t, B(m), z, G)
    <3> HIDE DEF g, L, R, B
    <3>1. ASSUME NEW d \in L
          PROVE  g[d] = G[<<d, g[t.nodes[d].left], g[t.nodes[d].right]>>]
      BY <2>3, <2>5, <2>7 DEF Recursive
    <3>2. ASSUME NEW d \in R
          PROVE  g[d] = G[<<d, g[t.nodes[d].left], g[t.nodes[d].right]>>]
      BY <2>4, <2>5, <2>7 DEF Recursive
    <3>3. g[m] = G[<<m, g[t.nodes[m].left], g[t.nodes[m].right]>>]
      BY <2>5, <2>7
    <3> QED  BY <2>6, <2>7, <3>1, <3>2, <3>3 DEF Recursive
  <2> HIDE DEF g, B
  <2> QED  BY <2>8
<1>4. K \subseteq P
  <2> HIDE DEF P
  <2>1. None \in P
    BY DEF P
  <2> QED  BY <1>3, <2>1, TreeInduction
<1>5. \E g : Recursive(g, t, K, z, G)
  <2>1. CASE t.root = None
    <3>1. K = {}
      BY <2>1 DEF IsBST, Bounds
    <3>2. Recursive([d \in {None} |-> z], t, {}, z, G)
      BY DEF Recursive
    <3> QED  BY <3>1, <3>2
  <2>2. CASE t.root # None
    <3>1. t.root \in K /\ lo[t.root] = 0 /\ hi[t.root] = Limit
      BY <2>2 DEF IsBST, Bounds, IsTree
    <3>2. B(t.root) = K
      BY <3>1, LimitIsPositive DEF IsBST, IsTree, Below
    <3>3. \E g : Recursive(g, t, B(t.root), z, G)
      BY <1>1, <1>4, <3>1
    <3> HIDE DEF B, K
    <3> QED  BY <3>2, <3>3
  <2> QED  BY <2>1, <2>2
<1>6. PICK g : Recursive(g, t, K, z, G)
  BY <1>5
<1> DEFINE Q == {d \in K \cup {None} : g[d] \in X}
<1>7. K \subseteq Q
  <2>1. None \in Q
    BY <1>6 DEF Recursive
  <2>2. ASSUME NEW d \in K, t.nodes[d].left \in Q, t.nodes[d].right \in Q PROVE d \in Q
    BY <1>6, <2>2 DEF Recursive
  <2> HIDE DEF Q
  <2> QED  BY <2>1, <2>2, TreeInduction
<1> DEFINE h == [d \in K \cup {None} |-> g[d]]
<1>8. h \in [K \cup {None} -> X]
  BY <1>6, <1>7 DEF Recursive
<1>9. Recursive(h, t, K, z, G)
  BY <1>2, <1>6 DEF Recursive
<1> HIDE DEF h
<1> QED  BY <1>8, <1>9

-----------------------------------------------------------------------------
(* The methods that only look. *)

\* search finds the node of the date, if there is one (sales_tree.py:49-60).
LEMMA SearchFinds ==
  ASSUME NEW t, NEW lo, NEW hi, IsBST(t, lo, hi), NEW date \in Nat
  PROVE  search(t, date) = IF date \in Keys(t) THEN date ELSE None
<1> DEFINE K == Keys(t)
           X == K \cup {None}
           left(d) == t.nodes[d].left
           right(d) == t.nodes[d].right
           Is(f) == f = [node \in DOMAIN t.nodes \cup {None} |->
                           IF node = None \/ date = node THEN node
                           ELSE f[IF date < node THEN t.nodes[node].left ELSE t.nodes[node].right]]
           G == [x \in K \X X \X X |->
                   IF date = x[1] THEN x[1] ELSE IF date < x[1] THEN x[2] ELSE x[3]]
           from == CHOOSE f : Is(f)
<1>1. \A d \in K : /\ d \in Nat /\ d # None /\ lo[d] \in Nat /\ hi[d] \in Nat
                   /\ left(d) \in X /\ right(d) \in X
  BY LimitIsPositive DEF IsBST, IsTree, Bounds, None
<1>2. Is(from)
  <2>1. PICK g \in [X -> X] : Recursive(g, t, K, None, G)
    <3>1. None \in X /\ G \in [K \X X \X X -> X]
      OBVIOUS
    <3> HIDE DEF G, X
    <3> QED  BY <3>1, TreeRecursion DEF X
  <2>2. \A d \in K : g[d] = IF date = d THEN d ELSE IF date < d THEN g[left(d)] ELSE g[right(d)]
    BY <1>1, <2>1 DEF Recursive
  <2>3. Is(g)
    BY <1>1, <2>1, <2>2 DEF Recursive, Keys
  <2> HIDE DEF Is
  <2> QED  BY <2>3
<1>3. /\ from[None] = None
      /\ \A d \in K : from[d] = IF date = d THEN d
                                ELSE IF date < d THEN from[left(d)] ELSE from[right(d)]
  <2> HIDE DEF from
  <2> QED  BY <1>1, <1>2 DEF Keys
<1> DEFINE P == {None} \cup {d \in K : from[d] = IF date \in Below(t, lo, hi, d) THEN date ELSE None}
<1> HIDE DEF from
<1>4. K \subseteq P
  <2>1. ASSUME NEW d \in K, left(d) \in P, right(d) \in P PROVE d \in P
    <3> DEFINE B == Below(t, lo, hi, d)
    <3>1. /\ d \in B
          /\ left(d) \in K => Below(t, lo, hi, left(d)) = {e \in B : e < d}
          /\ left(d) = None => {e \in B : e < d} = {}
          /\ right(d) \in K => Below(t, lo, hi, right(d)) = {e \in B : e > d}
          /\ right(d) = None => {e \in B : e > d} = {}
      BY BelowLinks
    <3>2. CASE date = d
      BY <1>1, <1>3, <3>1, <3>2
    <3>3. CASE date < d
      <4>1. from[d] = from[left(d)]
        BY <1>1, <1>3, <3>3
      <4>2. from[left(d)] = IF date \in B THEN date ELSE None
        BY <1>1, <1>3, <2>1, <3>1, <3>3
      <4> QED  BY <4>1, <4>2
    <3>4. CASE date > d
      <4>1. from[d] = from[right(d)]
        BY <1>1, <1>3, <3>4
      <4>2. from[right(d)] = IF date \in B THEN date ELSE None
        BY <1>1, <1>3, <2>1, <3>1, <3>4
      <4> QED  BY <4>1, <4>2
    <3> QED  BY <1>1, <3>2, <3>3, <3>4
  <2> HIDE DEF P
  <2>2. None \in P
    BY DEF P
  <2> QED  BY <2>1, <2>2, TreeInduction
<1>5. search(t, date) = from[t.root]
  BY DEF search, from
<1>6. CASE t.root = None
  BY <1>3, <1>5, <1>6 DEF IsBST, Bounds
<1>7. CASE t.root # None
  <2>1. t.root \in K /\ Below(t, lo, hi, t.root) = K
    BY <1>1, <1>7, LimitIsPositive DEF IsBST, IsTree, Bounds, Below
  <2> QED  BY <1>4, <1>5, <1>7, <2>1
<1> QED  BY <1>6, <1>7

\* s lists the elements of S, which are numbers, in ascending order.
Ascending(s, S) ==
  /\ s \in Seq(S)
  /\ \A d \in S : \E i \in 1 .. Len(s) : s[i] = d
  /\ \A i, j \in 1 .. Len(s) : i < j => s[i] < s[j]

LEMMA AscendingEmpty == Ascending(<< >>, {})
BY EmptySeq DEF Ascending

LEMMA AscendingOne == ASSUME NEW d PROVE Ascending(<<d>>, {d})
<1>1. <<d>> \in Seq({d}) /\ Len(<<d>>) = 1 /\ <<d>>[1] = d
  OBVIOUS
<1> QED  BY <1>1 DEF Ascending

\* Two lists in a row.
LEMMA AscendingConcat ==
  ASSUME NEW A \in SUBSET Nat, NEW B \in SUBSET Nat, NEW a, NEW b,
         Ascending(a, A), Ascending(b, B), \A x \in A, y \in B : x < y
  PROVE  Ascending(a \o b, A \cup B)
<1> DEFINE s == a \o b
<1>1. a \in Seq(A) /\ b \in Seq(B) /\ Len(a) \in Nat /\ Len(b) \in Nat
  BY LenProperties DEF Ascending
<1>2. a \in Seq(A \cup B) /\ b \in Seq(A \cup B)
  BY <1>1, SeqMonotonic
<1>3. /\ s \in Seq(A \cup B) /\ Len(s) = Len(a) + Len(b)
      /\ \A i \in 1 .. Len(a) + Len(b) : s[i] = IF i <= Len(a) THEN a[i] ELSE b[i - Len(a)]
  BY <1>2, ConcatProperties
<1> HIDE DEF s
<1>4. \A i \in 1 .. Len(a) : a[i] \in A
  BY <1>1, ElementOfSeq
<1>5. \A i \in 1 .. Len(b) : b[i] \in B
  BY <1>1, ElementOfSeq
<1>6. ASSUME NEW d \in A \cup B PROVE \E i \in 1 .. Len(s) : s[i] = d
  <2>1. CASE d \in A
    <3>1. PICK i \in 1 .. Len(a) : a[i] = d
      BY <2>1 DEF Ascending
    <3> QED  BY <1>1, <1>3, <3>1
  <2>2. CASE d \in B
    <3>1. PICK i \in 1 .. Len(b) : b[i] = d
      BY <2>2 DEF Ascending
    <3> DEFINE j == i + Len(a)
    <3>2. /\ j \in 1 .. Len(a) + Len(b) /\ j \in 1 .. Len(s)
          /\ ~ (j <= Len(a)) /\ j - Len(a) = i
      BY <1>1, <1>3, <3>1
    <3> HIDE DEF j
    <3>3. s[j] = b[j - Len(a)]
      BY <1>3, <3>2
    <3> QED  BY <3>1, <3>2, <3>3
  <2> QED  BY <2>1, <2>2
<1>7. ASSUME NEW i \in 1 .. Len(s), NEW j \in 1 .. Len(s), i < j PROVE s[i] < s[j]
  <2>1. CASE j <= Len(a)
    BY <1>1, <1>3, <1>7, <2>1 DEF Ascending
  <2>2. CASE i > Len(a)
    <3>1. i - Len(a) \in 1 .. Len(b) /\ j - Len(a) \in 1 .. Len(b) /\ i - Len(a) < j - Len(a)
      BY <1>1, <1>3, <1>7, <2>2
    <3>2. s[i] = b[i - Len(a)] /\ s[j] = b[j - Len(a)]
      BY <1>1, <1>3, <1>7, <2>2
    <3> QED  BY <3>1, <3>2 DEF Ascending
  <2>3. CASE i <= Len(a) /\ j > Len(a)
    <3>1. i \in 1 .. Len(a) /\ j - Len(a) \in 1 .. Len(b)
      BY <1>1, <1>3, <2>3
    <3>2. s[i] = a[i] /\ s[j] = b[j - Len(a)]
      BY <1>1, <1>3, <2>3
    <3> QED  BY <1>4, <1>5, <3>1, <3>2
  <2> QED  BY <1>1, <1>3, <2>1, <2>2, <2>3
<1> QED  BY <1>3, <1>6, <1>7 DEF Ascending, s

\* Lists of the nodes to the left, of the node and of those to the right.
LEMMA AscendingThree ==
  ASSUME NEW A \in SUBSET Nat, NEW M \in SUBSET Nat, NEW B \in SUBSET Nat,
         NEW a, NEW m, NEW b, Ascending(a, A), Ascending(m, M), Ascending(b, B),
         \A x \in A, y \in M : x < y, \A x \in A, y \in B : x < y, \A x \in M, y \in B : x < y
  PROVE  Ascending(a \o m \o b, A \cup M \cup B)
<1>1. Ascending(a \o m, A \cup M)
  BY AscendingConcat
<1>2. A \cup M \in SUBSET Nat /\ \A x \in A \cup M, y \in B : x < y
  OBVIOUS
<1> QED  BY <1>1, <1>2, AscendingConcat

\* range_query gives the nodes of the range in the order of their dates
\* (sales_tree.py:63-77).
LEMMA RangeAscends ==
  ASSUME NEW t, NEW lo, NEW hi, IsBST(t, lo, hi), NEW start \in Int, NEW end \in Int
  PROVE  Ascending(range_query(t, start, end), {d \in Keys(t) : start <= d /\ d <= end})
<1> DEFINE K == Keys(t)
           X == Seq(K)
           Left(d, s) == IF d > start THEN s ELSE << >>
           Own(d) == IF start <= d /\ d <= end THEN <<d>> ELSE << >>
           Right(d, s) == IF d < end THEN s ELSE << >>
           Is(f) == f = [node \in DOMAIN t.nodes \cup {None} |->
                           IF node = None THEN << >>
                           ELSE (IF node > start THEN f[t.nodes[node].left] ELSE << >>)
                             \o (IF start <= node /\ node <= end THEN <<node>> ELSE << >>)
                             \o (IF node < end THEN f[t.nodes[node].right] ELSE << >>)]
           G == [x \in K \X X \X X |-> Left(x[1], x[2]) \o Own(x[1]) \o Right(x[1], x[3])]
           range == CHOOSE f : Is(f)
<1>1. \A d \in K : /\ d \in Nat /\ d # None /\ lo[d] \in Nat /\ hi[d] \in Nat
                   /\ t.nodes[d].left \in K \cup {None} /\ t.nodes[d].right \in K \cup {None}
  BY LimitIsPositive DEF IsBST, IsTree, Bounds, None
<1>2. Is(range)
  <2>1. PICK g \in [K \cup {None} -> X] : Recursive(g, t, K, << >>, G)
    <3>1. << >> \in X
      OBVIOUS
    <3>2. \A d \in K, l, r \in X : Left(d, l) \o Own(d) \o Right(d, r) \in X
      <4> SUFFICES ASSUME NEW d \in K, NEW l \in X, NEW r \in X
                   PROVE  Left(d, l) \o Own(d) \o Right(d, r) \in X
        OBVIOUS
      <4>1. Left(d, l) \in X /\ Own(d) \in X /\ Right(d, r) \in X
        OBVIOUS
      <4> HIDE DEF Left, Own, Right
      <4>2. Left(d, l) \o Own(d) \in X
        BY <4>1, ConcatProperties
      <4> QED  BY <4>1, <4>2, ConcatProperties
    <3>3. G \in [K \X X \X X -> X]
      <4> HIDE DEF Left, Own, Right, X
      <4> QED  BY <3>2
    <3> HIDE DEF G, X
    <3> QED  BY <3>1, <3>3, TreeRecursion
  <2>2. \A d \in K : g[d] = Left(d, g[t.nodes[d].left]) \o Own(d) \o Right(d, g[t.nodes[d].right])
    <3> HIDE DEF Left, Own, Right, X
    <3> QED  BY <1>1, <2>1 DEF Recursive
  <2>3. g = [d \in K \cup {None} |->
               IF d = None THEN << >>
               ELSE Left(d, g[t.nodes[d].left]) \o Own(d) \o Right(d, g[t.nodes[d].right])]
    <3> HIDE DEF Left, Own, Right, X
    <3> QED  BY <1>1, <2>1, <2>2 DEF Recursive
  <2>4. Is(g)
    BY <2>3 DEF Keys
  <2> HIDE DEF Is
  <2> QED  BY <2>4
<1>3. /\ range[None] = << >>
      /\ \A d \in K : range[d] = Left(d, range[t.nodes[d].left]) \o Own(d)
                                   \o Right(d, range[t.nodes[d].right])
  <2> HIDE DEF range
  <2> QED  BY <1>1, <1>2 DEF Keys
<1> DEFINE In(S) == {d \in S : start <= d /\ d <= end}
           P == {None} \cup {d \in K : Ascending(range[d], In(Below(t, lo, hi, d)))}
<1> HIDE DEF range
<1>4. K \subseteq P
  <2>1. ASSUME NEW d \in K, t.nodes[d].left \in P, t.nodes[d].right \in P PROVE d \in P
    <3> DEFINE B == Below(t, lo, hi, d)
               L == {e \in B : e < d}
               R == {e \in B : e > d}
               left == t.nodes[d].left
               right == t.nodes[d].right
    <3>1. /\ d \in B /\ B \subseteq K
          /\ left \in K => Below(t, lo, hi, left) = L
          /\ left = None => L = {}
          /\ right \in K => Below(t, lo, hi, right) = R
          /\ right = None => R = {}
      BY BelowLinks DEF Below
    <3>2. Ascending(range[left], In(L))
      <4>1. CASE left = None
        <5>1. In(L) = {} /\ range[left] = << >>
          BY <1>3, <3>1, <4>1
        <5> HIDE DEF In, L, left
        <5> QED  BY <5>1, AscendingEmpty
      <4>2. CASE left # None
        <5>1. left \in K /\ Ascending(range[left], In(Below(t, lo, hi, left)))
          BY <2>1, <4>2
        <5> HIDE DEF In, L, left, B
        <5> QED  BY <3>1, <5>1
      <4> QED  BY <4>1, <4>2
    <3>3. Ascending(range[right], In(R))
      <4>1. CASE right = None
        <5>1. In(R) = {} /\ range[right] = << >>
          BY <1>3, <3>1, <4>1
        <5> HIDE DEF In, R, right
        <5> QED  BY <5>1, AscendingEmpty
      <4>2. CASE right # None
        <5>1. right \in K /\ Ascending(range[right], In(Below(t, lo, hi, right)))
          BY <2>1, <4>2
        <5> HIDE DEF In, R, right, B
        <5> QED  BY <3>1, <5>1
      <4> QED  BY <4>1, <4>2
    <3>4. Ascending(Left(d, range[left]), In(L))
      <4>1. CASE d > start
        BY <3>2, <4>1
      <4>2. CASE ~ (d > start)
        <5>1. In(L) = {}
          BY <1>1, <3>1, <4>2
        <5>2. Left(d, range[left]) = << >>
          BY <4>2
        <5> HIDE DEF In, L, Left
        <5> QED  BY <5>1, <5>2, AscendingEmpty
      <4> QED  BY <4>1, <4>2
    <3>5. Ascending(Own(d), In({d}))
      <4>1. CASE start <= d /\ d <= end
        <5>1. In({d}) = {d} /\ Own(d) = <<d>>
          BY <4>1
        <5> HIDE DEF In, Own
        <5> QED  BY <5>1, AscendingOne
      <4>2. CASE ~ (start <= d /\ d <= end)
        <5>1. In({d}) = {} /\ Own(d) = << >>
          BY <4>2
        <5> HIDE DEF In, Own
        <5> QED  BY <5>1, AscendingEmpty
      <4> QED  BY <4>1, <4>2
    <3>6. Ascending(Right(d, range[right]), In(R))
      <4>1. CASE d < end
        BY <3>3, <4>1
      <4>2. CASE ~ (d < end)
        <5>1. In(R) = {}
          BY <1>1, <3>1, <4>2
        <5>2. Right(d, range[right]) = << >>
          BY <4>2
        <5> HIDE DEF In, R, Right
        <5> QED  BY <5>1, <5>2, AscendingEmpty
      <4> QED  BY <4>1, <4>2
    <3>7. /\ In(L) \in SUBSET Nat /\ In({d}) \in SUBSET Nat /\ In(R) \in SUBSET Nat
          /\ \A x \in In(L), y \in In({d}) : x < y
          /\ \A x \in In(L), y \in In(R) : x < y
          /\ \A x \in In({d}), y \in In(R) : x < y
      BY <1>1, <3>1
    <3>8. In(L) \cup In({d}) \cup In(R) = In(B)
      BY <1>1, <3>1
    <3>9. range[d] = Left(d, range[left]) \o Own(d) \o Right(d, range[right])
      BY <1>3
    <3>10. Ascending(range[d], In(L) \cup In({d}) \cup In(R))
      <4> DEFINE before == In(L)
                 here == In({d})
                 after == In(R)
                 a == Left(d, range[left])
                 m == Own(d)
                 b == Right(d, range[right])
      <4>1. Ascending(a, before) /\ Ascending(m, here) /\ Ascending(b, after)
        BY <3>4, <3>5, <3>6
      <4>2. /\ before \in SUBSET Nat /\ here \in SUBSET Nat /\ after \in SUBSET Nat
            /\ \A x \in before, y \in here : x < y
            /\ \A x \in before, y \in after : x < y
            /\ \A x \in here, y \in after : x < y
        BY <3>7
      <4>3. range[d] = a \o m \o b
        BY <3>9
      <4> HIDE DEF before, here, after, a, m, b
      <4>4. Ascending(a \o m \o b, before \cup here \cup after)
        BY <4>1, <4>2, AscendingThree
      <4>5. Ascending(range[d], before \cup here \cup after)
        BY <4>3, <4>4
      <4> QED  BY <4>5 DEF before, here, after
    <3>11. Ascending(range[d], In(B))
      <4> HIDE DEF In, L, R, B
      <4> QED  BY <3>8, <3>10
    <3> QED  BY <3>11
  <2> HIDE DEF P
  <2>2. None \in P
    BY DEF P
  <2> QED  BY <2>1, <2>2, TreeInduction
<1>5. range_query(t, start, end) = range[t.root]
  BY DEF range_query, range
<1>6. CASE t.root = None
  <2>1. In(K) = {} /\ range[t.root] = << >>
    BY <1>3, <1>6 DEF IsBST, Bounds
  <2> QED  BY <1>5, <2>1, AscendingEmpty
<1>7. CASE t.root # None
  <2>1. t.root \in K /\ Below(t, lo, hi, t.root) = K
    BY <1>1, <1>7, LimitIsPositive DEF IsBST, IsTree, Bounds, Below
  <2>2. Ascending(range[t.root], In(Below(t, lo, hi, t.root)))
    BY <1>4, <1>7, <2>1
  <2> HIDE DEF In
  <2>3. Ascending(range[t.root], In(K))
    BY <2>1, <2>2
  <2> QED  BY <1>5, <2>3 DEF In
<1> QED  BY <1>6, <1>7

\* inorder gives all nodes in the order of their dates (sales_tree.py:80-91).
LEMMA InorderAscends ==
  ASSUME NEW t, NEW lo, NEW hi, IsBST(t, lo, hi)
  PROVE  Ascending(inorder(t), Keys(t))
<1> DEFINE K == Keys(t)
           X == Seq(K)
           Is(f) == f = [node \in DOMAIN t.nodes \cup {None} |->
                           IF node = None THEN << >>
                           ELSE f[t.nodes[node].left] \o <<node>> \o f[t.nodes[node].right]]
           G == [x \in K \X X \X X |-> x[2] \o <<x[1]>> \o x[3]]
           list == CHOOSE f : Is(f)
<1>1. \A d \in K : /\ d \in Nat /\ d # None /\ lo[d] \in Nat /\ hi[d] \in Nat
                   /\ t.nodes[d].left \in K \cup {None} /\ t.nodes[d].right \in K \cup {None}
  BY LimitIsPositive DEF IsBST, IsTree, Bounds, None
<1>2. Is(list)
  <2>1. PICK g \in [K \cup {None} -> X] : Recursive(g, t, K, << >>, G)
    <3>1. << >> \in X
      OBVIOUS
    <3>2. \A d \in K, l, r \in X : l \o <<d>> \o r \in X
      <4> SUFFICES ASSUME NEW d \in K, NEW l \in X, NEW r \in X PROVE l \o <<d>> \o r \in X
        OBVIOUS
      <4>1. <<d>> \in X
        OBVIOUS
      <4>2. l \o <<d>> \in X
        BY <4>1, ConcatProperties
      <4> QED  BY <4>2, ConcatProperties
    <3>3. G \in [K \X X \X X -> X]
      <4> HIDE DEF X
      <4> QED  BY <3>2
    <3> HIDE DEF G, X
    <3> QED  BY <3>1, <3>3, TreeRecursion
  <2>2. \A d \in K : g[d] = g[t.nodes[d].left] \o <<d>> \o g[t.nodes[d].right]
    <3> HIDE DEF X
    <3> QED  BY <1>1, <2>1 DEF Recursive
  <2>3. Is(g)
    <3> HIDE DEF X
    <3> QED  BY <1>1, <2>1, <2>2 DEF Recursive, Keys
  <2> HIDE DEF Is
  <2> QED  BY <2>3
<1>3. /\ list[None] = << >>
      /\ \A d \in K : list[d] = list[t.nodes[d].left] \o <<d>> \o list[t.nodes[d].right]
  <2> HIDE DEF list
  <2> QED  BY <1>1, <1>2 DEF Keys
<1> DEFINE P == {None} \cup {d \in K : Ascending(list[d], Below(t, lo, hi, d))}
<1> HIDE DEF list
<1>4. K \subseteq P
  <2>1. ASSUME NEW d \in K, t.nodes[d].left \in P, t.nodes[d].right \in P PROVE d \in P
    <3> DEFINE B == Below(t, lo, hi, d)
               L == {e \in B : e < d}
               R == {e \in B : e > d}
               left == t.nodes[d].left
               right == t.nodes[d].right
    <3>1. /\ d \in B /\ B \subseteq K
          /\ left \in K => Below(t, lo, hi, left) = L
          /\ left = None => L = {}
          /\ right \in K => Below(t, lo, hi, right) = R
          /\ right = None => R = {}
      BY BelowLinks DEF Below
    <3>2. Ascending(list[left], L)
      <4>1. left = None \/ (left \in K /\ Ascending(list[left], Below(t, lo, hi, left)))
        BY <2>1
      <4> HIDE DEF L, R, left, B
      <4> QED  BY <1>3, <3>1, <4>1, AscendingEmpty
    <3>3. Ascending(list[right], R)
      <4>1. right = None \/ (right \in K /\ Ascending(list[right], Below(t, lo, hi, right)))
        BY <2>1
      <4> HIDE DEF L, R, right, B
      <4> QED  BY <1>3, <3>1, <4>1, AscendingEmpty
    <3>4. /\ L \in SUBSET Nat /\ {d} \in SUBSET Nat /\ R \in SUBSET Nat
          /\ \A x \in L, y \in {d} : x < y
          /\ \A x \in L, y \in R : x < y
          /\ \A x \in {d}, y \in R : x < y
          /\ L \cup {d} \cup R = B
      BY <1>1, <3>1
    <3>5. list[d] = list[left] \o <<d>> \o list[right]
      BY <1>3
    <3>6. Ascending(<<d>>, {d})
      BY AscendingOne
    <3>7. Ascending(list[d], L \cup {d} \cup R)
      <4> HIDE DEF L, R, B, left, right
      <4> QED  BY <3>2, <3>3, <3>4, <3>5, <3>6, AscendingThree
    <3>8. Ascending(list[d], B)
      <4> HIDE DEF L, R, B
      <4> QED  BY <3>4, <3>7
    <3> QED  BY <3>8
  <2> HIDE DEF P
  <2>2. None \in P
    BY DEF P
  <2> QED  BY <2>1, <2>2, TreeInduction
<1>5. inorder(t) = list[t.root]
  BY DEF inorder, list
<1>6. CASE t.root = None
  <2>1. K = {} /\ list[t.root] = << >>
    BY <1>3, <1>6 DEF IsBST, Bounds
  <2> QED  BY <1>5, <2>1, AscendingEmpty
<1>7. CASE t.root # None
  <2>1. t.root \in K /\ Below(t, lo, hi, t.root) = K
    BY <1>1, <1>7, LimitIsPositive DEF IsBST, IsTree, Bounds, Below
  <2> QED  BY <1>4, <1>5, <1>7, <2>1
<1> QED  BY <1>6, <1>7

\* The binary search finds the date where an ascending list has it
\* (sort_search.py:47-58).
LEMMA BinarySearchFinds ==
  ASSUME NEW S \in SUBSET Nat, NEW dates, Ascending(dates, S), NEW date \in Nat
  PROVE  LET place == binary_search_sales(dates, date)
         IN  IF date \in S THEN place \in 1 .. Len(dates) /\ dates[place] = date
             ELSE place = 0
<1> DEFINE n == Len(dates)
           Parts == (1 .. n + 1) \X (0 .. n)
           mid(lo, hi) == (lo + hi) \div 2
           Is(f) == f = [part \in (1 .. Len(dates) + 1) \X (0 .. Len(dates)) |->
                      IF part[1] > part[2] THEN 0
                      ELSE IF dates[(part[1] + part[2]) \div 2] = date
                      THEN (part[1] + part[2]) \div 2
                      ELSE IF dates[(part[1] + part[2]) \div 2] < date
                      THEN f[<<(part[1] + part[2]) \div 2 + 1, part[2]>>]
                      ELSE f[<<part[1], (part[1] + part[2]) \div 2 - 1>>]]
           Step(f, lo, hi) ==
             IF lo > hi THEN 0
             ELSE IF dates[mid(lo, hi)] = date THEN mid(lo, hi)
             ELSE IF dates[mid(lo, hi)] < date THEN f[<<mid(lo, hi) + 1, hi>>]
             ELSE f[<<lo, mid(lo, hi) - 1>>]
           Places(lo, hi) == {m \in lo .. hi : dates[m] = date}
           Found(lo, hi) == IF Places(lo, hi) = {} THEN 0 ELSE CHOOSE m \in Places(lo, hi) : TRUE
           between == CHOOSE f : Is(f)
<1>1. /\ n \in Nat
      /\ \A i \in 1 .. n : dates[i] \in Nat /\ dates[i] \in S
      /\ \A i, j \in 1 .. n : i < j => dates[i] < dates[j]
      /\ \A d \in S : \E i \in 1 .. n : dates[i] = d
  BY LenProperties, ElementOfSeq DEF Ascending
<1> HIDE DEF n
<1>2. ASSUME NEW lo \in 1 .. n + 1, NEW hi \in 0 .. n, lo <= hi
      PROVE  /\ mid(lo, hi) \in lo .. hi /\ mid(lo, hi) \in 1 .. n
             /\ mid(lo, hi) + 1 \in 1 .. n + 1 /\ mid(lo, hi) - 1 \in 0 .. n
             /\ dates[mid(lo, hi)] = date => Places(lo, hi) = {mid(lo, hi)}
             /\ dates[mid(lo, hi)] < date => Places(lo, hi) = Places(mid(lo, hi) + 1, hi)
             /\ dates[mid(lo, hi)] > date => Places(lo, hi) = Places(lo, mid(lo, hi) - 1)
  <2>1. /\ mid(lo, hi) \in lo .. hi /\ mid(lo, hi) \in 1 .. n
        /\ mid(lo, hi) + 1 \in 1 .. n + 1 /\ mid(lo, hi) - 1 \in 0 .. n
    BY <1>1, <1>2
  <2> HIDE DEF mid
  <2> QED  BY <1>1, <1>2, <2>1
<1>3. ASSUME NEW lo \in 1 .. n + 1, NEW hi \in 0 .. n,
             NEW f, lo <= hi => /\ f[<<mid(lo, hi) + 1, hi>>] = Found(mid(lo, hi) + 1, hi)
                                /\ f[<<lo, mid(lo, hi) - 1>>] = Found(lo, mid(lo, hi) - 1)
      PROVE  Step(f, lo, hi) = Found(lo, hi)
  <2>1. CASE lo > hi
    <3>1. Places(lo, hi) = {}
      BY <1>1, <2>1
    <3> HIDE DEF Places
    <3> QED  BY <2>1, <3>1
  <2>2. CASE lo <= hi
    <3>0. mid(lo, hi) \in 1 .. n /\ dates[mid(lo, hi)] \in Nat /\ ~ (lo > hi)
      BY <1>1, <1>2, <2>2
    <3>1. CASE dates[mid(lo, hi)] = date
      <4>1. Places(lo, hi) = {mid(lo, hi)}
        BY <1>2, <2>2, <3>1
      <4> HIDE DEF mid, Places
      <4> QED  BY <3>0, <3>1, <4>1
    <3>2. CASE dates[mid(lo, hi)] < date
      <4>1. Places(lo, hi) = Places(mid(lo, hi) + 1, hi)
        BY <1>2, <2>2, <3>2
      <4>2. dates[mid(lo, hi)] # date
        BY <3>0, <3>2
      <4>3. f[<<mid(lo, hi) + 1, hi>>] = Found(mid(lo, hi) + 1, hi)
        BY <1>3, <2>2
      <4> HIDE DEF mid, Places
      <4> QED  BY <3>0, <3>2, <4>1, <4>2, <4>3
    <3>3. CASE dates[mid(lo, hi)] > date
      <4>1. Places(lo, hi) = Places(lo, mid(lo, hi) - 1)
        BY <1>2, <2>2, <3>3
      <4>2. dates[mid(lo, hi)] # date /\ ~ (dates[mid(lo, hi)] < date)
        BY <3>0, <3>3
      <4>3. f[<<lo, mid(lo, hi) - 1>>] = Found(lo, mid(lo, hi) - 1)
        BY <1>3, <2>2
      <4> HIDE DEF mid, Places
      <4> QED  BY <3>0, <3>3, <4>1, <4>2, <4>3
    <3> HIDE DEF mid, Step, Found
    <3> QED  BY <3>0, <3>1, <3>2, <3>3
  <2> HIDE DEF Step, Found
  <2> QED  BY <1>1, <2>1, <2>2
<1>4. ASSUME NEW f PROVE Is(f) <=> f = [part \in Parts |-> Step(f, part[1], part[2])]
  BY DEF n
<1>5. Is(between)
  <2> DEFINE g == [part \in Parts |-> Found(part[1], part[2])]
  <2>1. ASSUME NEW part \in Parts PROVE g[part] = Step(g, part[1], part[2])
    <3> DEFINE lo == part[1]
               hi == part[2]
    <3>1. lo \in 1 .. n + 1 /\ hi \in 0 .. n
      OBVIOUS
    <3>2. \A p \in Parts : g[p] = Found(p[1], p[2])
      OBVIOUS
    <3>3. ASSUME NEW a \in 1 .. n + 1, NEW b \in 0 .. n PROVE g[<<a, b>>] = Found(a, b)
      <4>1. <<a, b>> \in Parts /\ <<a, b>>[1] = a /\ <<a, b>>[2] = b
        OBVIOUS
      <4> HIDE DEF g, Found, Parts
      <4> QED  BY <3>2, <4>1
    <3> HIDE DEF g, lo, hi, Found
    <3>4. lo <= hi => /\ g[<<mid(lo, hi) + 1, hi>>] = Found(mid(lo, hi) + 1, hi)
                      /\ g[<<lo, mid(lo, hi) - 1>>] = Found(lo, mid(lo, hi) - 1)
      <4> HIDE DEF mid
      <4> QED  BY <1>2, <3>1, <3>3
    <3>5. Step(g, lo, hi) = Found(lo, hi)
      <4> HIDE DEF mid, Step
      <4> QED  BY <1>3, <3>1, <3>4
    <3>6. g[part] = Found(lo, hi)
      BY <3>2 DEF lo, hi
    <3> HIDE DEF Step
    <3> QED  BY <3>5, <3>6 DEF lo, hi
  <2>2. g = [part \in Parts |-> g[part]]
    OBVIOUS
  <2>3. g = [part \in Parts |-> Step(g, part[1], part[2])]
    <3> HIDE DEF g, Step
    <3> QED  BY <2>1, <2>2
  <2>4. Is(g)
    <3> HIDE DEF g, Is, Step
    <3> QED  BY <1>4, <2>3
  <2> HIDE DEF Is, g
  <2> QED  BY <2>4
<1>6. ASSUME NEW lo \in 1 .. n + 1, NEW hi \in 0 .. n
      PROVE  between[<<lo, hi>>] = Step(between, lo, hi)
  <2> HIDE DEF between, Is, Step
  <2>1. between = [part \in Parts |-> Step(between, part[1], part[2])]
    BY <1>4, <1>5
  <2>2. <<lo, hi>> \in Parts /\ <<lo, hi>>[1] = lo /\ <<lo, hi>>[2] = hi
    OBVIOUS
  <2> HIDE DEF Parts
  <2>3. \A p \in Parts : between[p] = Step(between, p[1], p[2])
    BY <2>1
  <2> QED  BY <2>2, <2>3
<1>7. ASSUME NEW lo \in 1 .. n + 1, NEW hi \in 0 .. n PROVE between[<<lo, hi>>] = Found(lo, hi)
  <2> DEFINE Bad == {p \in Parts : between[p] # Found(p[1], p[2])}
             W == {n + 1 + p[2] - p[1] : p \in Bad}
  <2> HIDE DEF between, Found, Step
  <2> SUFFICES ASSUME <<lo, hi>> \in Bad PROVE FALSE
    OBVIOUS
  <2>1. W \in SUBSET Nat /\ W # {}
    BY <1>1
  <2>2. PICK w \in W : \A v \in W : w <= v
    <3> HIDE DEF W
    <3> QED  BY <2>1, LeastElement
  <2>3. PICK p \in Bad : w = n + 1 + p[2] - p[1]
    BY <2>2
  <2>4. p[1] \in 1 .. n + 1 /\ p[2] \in 0 .. n /\ p = <<p[1], p[2]>>
    OBVIOUS
  <2>5. ASSUME NEW a \in 1 .. n + 1, NEW b \in 0 .. n, b - a < p[2] - p[1]
        PROVE  between[<<a, b>>] = Found(a, b)
    <3> SUFFICES ASSUME <<a, b>> \in Bad PROVE FALSE
      OBVIOUS
    <3>1. n + 1 + b - a \in W
      OBVIOUS
    <3> HIDE DEF W
    <3> QED  BY <1>1, <2>2, <2>3, <2>4, <2>5, <3>1
  <2> DEFINE x == p[1]
             y == p[2]
  <2>6. x <= y => /\ between[<<mid(x, y) + 1, y>>] = Found(mid(x, y) + 1, y)
                  /\ between[<<x, mid(x, y) - 1>>] = Found(x, mid(x, y) - 1)
    <3> SUFFICES ASSUME x <= y
                 PROVE  /\ between[<<mid(x, y) + 1, y>>] = Found(mid(x, y) + 1, y)
                        /\ between[<<x, mid(x, y) - 1>>] = Found(x, mid(x, y) - 1)
      OBVIOUS
    <3>1. /\ mid(x, y) \in x .. y
          /\ mid(x, y) + 1 \in 1 .. n + 1 /\ mid(x, y) - 1 \in 0 .. n
      BY <1>2, <2>4
    <3>2. y - (mid(x, y) + 1) < y - x /\ (mid(x, y) - 1) - x < y - x
      <4> HIDE DEF mid, x, y
      <4>1. x \in Int /\ y \in Int
        BY <2>4 DEF x, y
      <4> QED  BY <3>1, <4>1
    <3> HIDE DEF mid, Bad
    <3> QED  BY <2>4, <2>5, <3>1, <3>2
  <2>7. Step(between, x, y) = Found(x, y)
    <3> HIDE DEF mid, x, y
    <3>1. x \in 1 .. n + 1 /\ y \in 0 .. n
      BY <2>4 DEF x, y
    <3> QED  BY <1>3, <2>6, <3>1
  <2>8. between[p] = Found(p[1], p[2])
    <3> HIDE DEF mid
    <3> QED  BY <1>6, <2>4, <2>7
  <2> QED  BY <2>8
<1>8. binary_search_sales(dates, date) = between[<<1, n>>]
  BY DEF binary_search_sales, between, n
<1>9. binary_search_sales(dates, date) = Found(1, n)
  <2>1. 1 \in 1 .. n + 1 /\ n \in 0 .. n
    BY <1>1
  <2> HIDE DEF between, Found
  <2> QED  BY <1>7, <1>8, <2>1
<1>10. CASE date \in S
  <2>1. Places(1, n) # {}
    BY <1>1, <1>10
  <2>2. binary_search_sales(dates, date) \in Places(1, n)
    <3> HIDE DEF Places
    <3> QED  BY <1>9, <2>1
  <2> QED  BY <1>10, <2>2 DEF n
<1>11. CASE date \notin S
  <2>1. Places(1, n) = {}
    BY <1>1, <1>11
  <2> QED  BY <1>9, <1>11, <2>1
<1> QED  BY <1>10, <1>11

-----------------------------------------------------------------------------
(* insert. *)

\* The trees that can come of inserting a date.
Grown(t, date) ==
  [root : Nat,
   nodes : [Keys(t) -> [sales : Nat, left : Nat, right : Nat]]
             \cup [Keys(t) \cup {date} -> [sales : Nat, left : Nat, right : Nat]]]

\* The tree with a node for the date that no link leads to yet.
WithNode(t, date, sales) ==
  [d \in Keys(t) \cup {date} |-> IF d = date THEN SalesNode(sales) ELSE t.nodes[d]]

\* What insert makes of a node, given what it makes of the nodes at its links.
IntoNode(t, date, sales, node, left, right) ==
  IF date < node THEN [root |-> node, nodes |-> [left.nodes EXCEPT ![node].left = left.root]]
  ELSE IF date > node
  THEN [root |-> node, nodes |-> [right.nodes EXCEPT ![node].right = right.root]]
  ELSE [root |-> node, nodes |-> [t.nodes EXCEPT ![node].sales = @ + sales]]

LEMMA InsertRecursion ==
  ASSUME NEW t, NEW lo, NEW hi, IsBST(t, lo, hi), NEW date \in 1 .. Limit - 1, NEW sales \in Nat
  PROVE  \E into :
           /\ insert(t, date, sales) = into[t.root]
           /\ into[None] = [root |-> date, nodes |-> WithNode(t, date, sales)]
           /\ \A d \in Keys(t) :
                into[d] = IntoNode(t, date, sales, d, into[t.nodes[d].left], into[t.nodes[d].right])
<1> DEFINE K == Keys(t)
           X == Grown(t, date)
           z == [root |-> date, nodes |-> WithNode(t, date, sales)]
           G == [x \in K \X X \X X |-> IntoNode(t, date, sales, x[1], x[2], x[3])]
           Is(f) == f = [node \in DOMAIN t.nodes \cup {None} |->
             IF node = None
             THEN [root  |-> date,
                   nodes |-> [d \in DOMAIN t.nodes \cup {date} |->
                                IF d = date THEN SalesNode(sales) ELSE t.nodes[d]]]
             ELSE IF date < node
             THEN [root |-> node,
                   nodes |-> [f[t.nodes[node].left].nodes
                                EXCEPT ![node].left = f[t.nodes[node].left].root]]
             ELSE IF date > node
             THEN [root |-> node,
                   nodes |-> [f[t.nodes[node].right].nodes
                                EXCEPT ![node].right = f[t.nodes[node].right].root]]
             ELSE [root |-> node, nodes |-> [t.nodes EXCEPT ![node].sales = @ + sales]]]
           into == CHOOSE f : Is(f)
<1>1. \A d \in K : /\ d \in Nat /\ d # None
                   /\ t.nodes[d].left \in K \cup {None} /\ t.nodes[d].right \in K \cup {None}
                   /\ t.nodes[d] \in [sales : Nat, left : Nat, right : Nat]
  BY LimitIsPositive DEF IsBST, IsTree, None
<1>2. date \in Nat /\ date # None /\ t.nodes \in [K -> [sales : Nat, left : Nat, right : Nat]]
  BY <1>1, LimitIsPositive DEF IsBST, IsTree, None
<1>3. z \in X
  <2>1. SalesNode(sales) \in [sales : Nat, left : Nat, right : Nat]
    BY DEF SalesNode, None
  <2>2. WithNode(t, date, sales) \in [K \cup {date} -> [sales : Nat, left : Nat, right : Nat]]
    BY <1>1, <2>1 DEF WithNode
  <2> QED  BY <1>2, <2>2 DEF Grown
<1>4. ASSUME NEW d \in K, NEW l \in X, NEW r \in X
      PROVE  IntoNode(t, date, sales, d, l, r) \in X
  <2> DEFINE N == [sales : Nat, left : Nat, right : Nat]
  <2>1. ASSUME NEW s \in X
        PROVE  /\ [root |-> d, nodes |-> [s.nodes EXCEPT ![d].left = s.root]] \in X
               /\ [root |-> d, nodes |-> [s.nodes EXCEPT ![d].right = s.root]] \in X
    <3>1. s.root \in Nat /\ (s.nodes \in [K -> N] \/ s.nodes \in [K \cup {date} -> N])
      BY DEF Grown
    <3>2. s.nodes[d] \in N /\ d \in Nat
      BY <1>1, <3>1
    <3>3. [s.nodes[d] EXCEPT !.left = s.root] \in N /\ [s.nodes[d] EXCEPT !.right = s.root] \in N
      BY <3>1, <3>2
    <3>4. /\ \/ [s.nodes EXCEPT ![d].left = s.root] \in [K -> N]
             \/ [s.nodes EXCEPT ![d].left = s.root] \in [K \cup {date} -> N]
          /\ \/ [s.nodes EXCEPT ![d].right = s.root] \in [K -> N]
             \/ [s.nodes EXCEPT ![d].right = s.root] \in [K \cup {date} -> N]
      <4> HIDE DEF N
      <4> QED  BY <3>1, <3>3
    <3> QED  BY <3>2, <3>4 DEF Grown
  <2>2. [root |-> d, nodes |-> [t.nodes EXCEPT ![d].sales = @ + sales]] \in X
    <3>1. [t.nodes[d] EXCEPT !.sales = @ + sales] \in N
      BY <1>1
    <3>2. [t.nodes EXCEPT ![d].sales = @ + sales] \in [K -> N]
      <4> HIDE DEF N
      <4> QED  BY <1>2, <3>1 DEF N
    <3> QED  BY <1>1, <3>2 DEF Grown
  <2> HIDE DEF X
  <2> QED  BY <2>1, <2>2 DEF IntoNode
<1>5. Is(into)
  <2>1. PICK g \in [K \cup {None} -> X] : Recursive(g, t, K, z, G)
    <3>1. G \in [K \X X \X X -> X]
      <4> HIDE DEF X
      <4> QED  BY <1>4
    <3> HIDE DEF G, X, z
    <3> QED  BY <1>3, <3>1, TreeRecursion
  <2>2. \A d \in K : g[d] = IntoNode(t, date, sales, d, g[t.nodes[d].left], g[t.nodes[d].right])
    <3> HIDE DEF X, z
    <3> QED  BY <1>1, <2>1 DEF Recursive
  <2>3. g[None] = z
    BY <2>1 DEF Recursive
  <2>4. g = [d \in K \cup {None} |->
               IF d = None THEN z
               ELSE IntoNode(t, date, sales, d, g[t.nodes[d].left], g[t.nodes[d].right])]
    <3> HIDE DEF X, z
    <3> QED  BY <1>1, <2>1, <2>2, <2>3
  <2>5. Is(g)
    BY <2>4 DEF Keys, IntoNode, WithNode
  <2> HIDE DEF Is
  <2> QED  BY <2>5
<1>6. into = [d \in K \cup {None} |->
                IF d = None THEN z
                ELSE IntoNode(t, date, sales, d, into[t.nodes[d].left], into[t.nodes[d].right])]
  <2> HIDE DEF into
  <2> QED  BY <1>5 DEF Keys, IntoNode, WithNode
<1>7. /\ into[None] = z
      /\ \A d \in K :
           into[d] = IntoNode(t, date, sales, d, into[t.nodes[d].left], into[t.nodes[d].right])
  <2> HIDE DEF into, z
  <2> QED  BY <1>1, <1>6
<1>8. insert(t, date, sales) = into[t.root]
  BY DEF insert, into
<1> HIDE DEF into
<1> QED  BY <1>7, <1>8

\* Where a new date hangs below p, on the side of the missing link.
Slot(t, lo, hi, p, date) ==
  \/ lo[p] < date /\ date < p /\ t.nodes[p].left = None
  \/ p < date /\ date < hi[p] /\ t.nodes[p].right = None

\* The nodes with the new one hung below p.
Hung(t, p, date, sales) ==
  [d \in Keys(t) \cup {date} |->
     IF d = date THEN SalesNode(sales)
     ELSE IF d # p THEN t.nodes[d]
     ELSE IF date < p THEN [t.nodes[p] EXCEPT !.left = date]
     ELSE [t.nodes[p] EXCEPT !.right = date]]

\* A date that has no node gets one, below a node that lacks the link.
LEMMA InsertNew ==
  ASSUME NEW t, NEW lo, NEW hi, IsBST(t, lo, hi), NEW date \in 1 .. Limit - 1, NEW sales \in Nat,
         date \notin Keys(t), t.root # None
  PROVE  \E p \in Keys(t) :
           /\ Slot(t, lo, hi, p, date)
           /\ insert(t, date, sales) = [root |-> t.root, nodes |-> Hung(t, p, date, sales)]
<1> DEFINE K == Keys(t)
<1>1. \A d \in K : /\ d \in Nat /\ d # None /\ lo[d] \in Nat /\ hi[d] \in Nat
                   /\ t.nodes[d].left \in K \cup {None} /\ t.nodes[d].right \in K \cup {None}
                   /\ t.nodes[d] \in [sales : Nat, left : Nat, right : Nat]
                   /\ lo[d] < d /\ d < hi[d]
  BY LimitIsPositive DEF IsBST, IsTree, Bounds, None
<1>2. PICK into :
         /\ insert(t, date, sales) = into[t.root]
         /\ into[None] = [root |-> date, nodes |-> WithNode(t, date, sales)]
         /\ \A d \in K :
              into[d] = IntoNode(t, date, sales, d, into[t.nodes[d].left], into[t.nodes[d].right])
  BY InsertRecursion
<1> DEFINE Hangs(m) == \E p \in Below(t, lo, hi, m) :
                         /\ Slot(t, lo, hi, p, date)
                         /\ into[m] = [root |-> m, nodes |-> Hung(t, p, date, sales)]
           P == {None} \cup {m \in K : lo[m] < date /\ date < hi[m] => Hangs(m)}
<1>3. date \in Nat
  BY LimitIsPositive
<1>4. ASSUME NEW m \in K, t.nodes[m].left \in P, t.nodes[m].right \in P PROVE m \in P
  <2> SUFFICES ASSUME lo[m] < date, date < hi[m] PROVE Hangs(m)
    OBVIOUS
  <2>1. m \in Below(t, lo, hi, m)
    BY BelowLinks
  <2>2. CASE date < m
    <3> DEFINE left == t.nodes[m].left
    <3>1. into[m] = [root |-> m, nodes |-> [into[left].nodes EXCEPT ![m].left = into[left].root]]
      BY <1>2, <2>2 DEF IntoNode
    <3>2. CASE left = None
      <4>1. into[m] = [root |-> m, nodes |-> [WithNode(t, date, sales) EXCEPT ![m].left = date]]
        BY <1>2, <3>1, <3>2
      <4>2. [WithNode(t, date, sales) EXCEPT ![m].left = date] = Hung(t, m, date, sales)
        BY <1>1, <1>3, <2>2 DEF WithNode, Hung
      <4>3. Slot(t, lo, hi, m, date)
        BY <2>2, <3>2 DEF Slot
      <4> QED  BY <2>1, <4>1, <4>2, <4>3
    <3>3. CASE left # None
      <4>1. left \in K /\ lo[left] = lo[m] /\ hi[left] = m
        BY <1>1, <3>3 DEF IsBST, Bounds
      <4>2. Hangs(left)
        BY <1>4, <2>2, <4>1, <3>3
      <4>3. PICK p \in Below(t, lo, hi, left) :
               /\ Slot(t, lo, hi, p, date)
               /\ into[left] = [root |-> left, nodes |-> Hung(t, p, date, sales)]
        BY <4>2
      <4>4. p \in Below(t, lo, hi, m) /\ p # m
        BY <1>1, <4>1, <4>3, BelowLinks DEF Below
      <4>5. [Hung(t, p, date, sales) EXCEPT ![m].left = left] = Hung(t, p, date, sales)
        BY <1>1, <2>2, <4>4 DEF Hung
      <4>6. into[m] = [root |-> m, nodes |-> Hung(t, p, date, sales)]
        <5> HIDE DEF left
        <5> QED  BY <3>1, <4>3, <4>5
      <4> QED  BY <4>3, <4>4, <4>6
    <3> QED  BY <3>2, <3>3
  <2>3. CASE date > m
    <3> DEFINE right == t.nodes[m].right
    <3>1. into[m] = [root |-> m, nodes |-> [into[right].nodes EXCEPT ![m].right = into[right].root]]
      <4>1. ~ (date < m)
        BY <1>1, <1>3, <2>3
      <4>2. into[m] = IntoNode(t, date, sales, m, into[t.nodes[m].left], into[right])
        BY <1>2
      <4> HIDE DEF right
      <4>3. IntoNode(t, date, sales, m, into[t.nodes[m].left], into[right])
              = [root |-> m, nodes |-> [into[right].nodes EXCEPT ![m].right = into[right].root]]
        BY <2>3, <4>1, Zenon DEF IntoNode
      <4> QED  BY <4>2, <4>3
    <3>2. CASE right = None
      <4>1. into[m] = [root |-> m, nodes |-> [WithNode(t, date, sales) EXCEPT ![m].right = date]]
        BY <1>2, <3>1, <3>2
      <4>2. [WithNode(t, date, sales) EXCEPT ![m].right = date] = Hung(t, m, date, sales)
        <5>1. ~ (date < m) /\ date # m
          BY <1>1, <1>3, <2>3
        <5>2. ASSUME NEW d \in K \cup {date}
              PROVE  [WithNode(t, date, sales) EXCEPT ![m].right = date][d]
                       = Hung(t, m, date, sales)[d]
          BY <5>1 DEF WithNode, Hung
        <5> QED  BY <5>2 DEF WithNode, Hung
      <4>3. Slot(t, lo, hi, m, date)
        BY <2>3, <3>2 DEF Slot
      <4> QED  BY <2>1, <4>1, <4>2, <4>3
    <3>3. CASE right # None
      <4>1. right \in K /\ lo[right] = m /\ hi[right] = hi[m]
        BY <1>1, <3>3 DEF IsBST, Bounds
      <4>2. Hangs(right)
        BY <1>4, <2>3, <4>1, <3>3
      <4>3. PICK p \in Below(t, lo, hi, right) :
               /\ Slot(t, lo, hi, p, date)
               /\ into[right] = [root |-> right, nodes |-> Hung(t, p, date, sales)]
        BY <4>2
      <4>4. p \in Below(t, lo, hi, m) /\ p # m
        BY <1>1, <4>1, <4>3, BelowLinks DEF Below
      <4>5. [Hung(t, p, date, sales) EXCEPT ![m].right = right] = Hung(t, p, date, sales)
        BY <1>1, <2>3, <4>4 DEF Hung
      <4>6. into[m] = [root |-> m, nodes |-> Hung(t, p, date, sales)]
        <5> HIDE DEF right
        <5> QED  BY <3>1, <4>3, <4>5
      <4> QED  BY <4>3, <4>4, <4>6
    <3> QED  BY <3>2, <3>3
  <2> QED  BY <1>1, <1>3, <2>2, <2>3
<1>5. K \subseteq P
  <2> HIDE DEF P
  <2>1. None \in P
    BY DEF P
  <2> QED  BY <1>4, <2>1, TreeInduction
<1>6. t.root \in K /\ lo[t.root] = 0 /\ hi[t.root] = Limit
  BY DEF IsBST, IsTree, Bounds
<1>7. Hangs(t.root)
  BY <1>1, <1>5, <1>6, LimitIsPositive
<1> QED  BY <1>2, <1>7 DEF Below

\* A date that has a node gets the sales added there.
LEMMA InsertOld ==
  ASSUME NEW t, NEW lo, NEW hi, IsBST(t, lo, hi), NEW date \in Keys(t), NEW sales \in Nat
  PROVE  insert(t, date, sales)
           = [root |-> t.root, nodes |-> [t.nodes EXCEPT ![date].sales = @ + sales]]
<1> DEFINE K == Keys(t)
           N == [t.nodes EXCEPT ![date].sales = @ + sales]
<1>1. \A d \in K : /\ d \in Nat /\ d # None /\ lo[d] \in Nat /\ hi[d] \in Nat
                   /\ t.nodes[d].left \in K \cup {None} /\ t.nodes[d].right \in K \cup {None}
                   /\ t.nodes[d] \in [sales : Nat, left : Nat, right : Nat]
  BY LimitIsPositive DEF IsBST, IsTree, Bounds, None
<1>2. t.nodes \in [K -> [sales : Nat, left : Nat, right : Nat]] /\ date \in 1 .. Limit - 1
  BY <1>1 DEF IsBST, IsTree
<1>3. PICK into :
         /\ insert(t, date, sales) = into[t.root]
         /\ into[None] = [root |-> date, nodes |-> WithNode(t, date, sales)]
         /\ \A d \in K :
              into[d] = IntoNode(t, date, sales, d, into[t.nodes[d].left], into[t.nodes[d].right])
  BY <1>2, InsertRecursion
<1> DEFINE P == {None} \cup {m \in K : date \in Below(t, lo, hi, m) => into[m] = [root |-> m, nodes |-> N]}
<1>4. ASSUME NEW m \in K, t.nodes[m].left \in P, t.nodes[m].right \in P PROVE m \in P
  <2> SUFFICES ASSUME date \in Below(t, lo, hi, m) PROVE into[m] = [root |-> m, nodes |-> N]
    OBVIOUS
  <2>1. CASE date = m
    <3>1. ~ (date < m) /\ ~ (date > m)
      BY <1>1, <2>1
    <3>2. into[m] = IntoNode(t, date, sales, m, into[t.nodes[m].left], into[t.nodes[m].right])
      BY <1>3
    <3>3. IntoNode(t, date, sales, m, into[t.nodes[m].left], into[t.nodes[m].right])
            = [root |-> m, nodes |-> [t.nodes EXCEPT ![m].sales = @ + sales]]
      BY <3>1, Zenon DEF IntoNode
    <3> QED  BY <2>1, <3>2, <3>3
  <2>2. CASE date < m
    <3> DEFINE left == t.nodes[m].left
    <3>1. left \in K /\ date \in Below(t, lo, hi, left)
      BY <1>1, <2>2, BelowLinks
    <3>2. into[left] = [root |-> left, nodes |-> N]
      BY <1>1, <1>4, <3>1
    <3>3. into[m] = [root |-> m, nodes |-> [N EXCEPT ![m].left = left]]
      <4>1. into[m] = [root |-> m, nodes |-> [into[left].nodes EXCEPT ![m].left = into[left].root]]
        BY <1>3, <2>2 DEF IntoNode
      <4> HIDE DEF N, left
      <4> QED  BY <3>2, <4>1
    <3>4. [N EXCEPT ![m].left = left] = N
      BY <1>1, <1>2, <2>2
    <3> QED  BY <3>3, <3>4
  <2>3. CASE date > m
    <3> DEFINE right == t.nodes[m].right
    <3>1. right \in K /\ date \in Below(t, lo, hi, right)
      BY <1>1, <2>3, BelowLinks
    <3>2. into[right] = [root |-> right, nodes |-> N]
      BY <1>1, <1>4, <3>1
    <3>3. into[m] = [root |-> m, nodes |-> [N EXCEPT ![m].right = right]]
      <4>1. into[m] = [root |-> m,
                       nodes |-> [into[right].nodes EXCEPT ![m].right = into[right].root]]
        <5>1. ~ (date < m)
          BY <1>1, <2>3
        <5>2. into[m] = IntoNode(t, date, sales, m, into[t.nodes[m].left], into[right])
          BY <1>3
        <5> HIDE DEF right
        <5>3. IntoNode(t, date, sales, m, into[t.nodes[m].left], into[right])
                = [root |-> m, nodes |-> [into[right].nodes EXCEPT ![m].right = into[right].root]]
          BY <2>3, <5>1, Zenon DEF IntoNode
        <5> QED  BY <5>2, <5>3
      <4> HIDE DEF N, right
      <4> QED  BY <3>2, <4>1
    <3>4. [N EXCEPT ![m].right = right] = N
      BY <1>1, <1>2, <2>3
    <3> QED  BY <3>3, <3>4
  <2> QED  BY <1>1, <2>1, <2>2, <2>3
<1>5. K \subseteq P
  <2> HIDE DEF P
  <2>1. None \in P
    BY DEF P
  <2> QED  BY <1>4, <2>1, TreeInduction
<1>6. t.root \in K /\ lo[t.root] = 0 /\ hi[t.root] = Limit
  BY DEF IsBST, IsTree, Bounds
<1>7. date \in Below(t, lo, hi, t.root)
  BY <1>1, <1>2, <1>6, LimitIsPositive DEF Below
<1>8. into[t.root] = [root |-> t.root, nodes |-> N]
  BY <1>1, <1>5, <1>6, <1>7
<1> QED  BY <1>3, <1>8

\* The bounds of the nodes when the new one hangs below p.
HungLo(t, lo, p, date) ==
  [d \in Keys(t) \cup {date} |-> IF d # date THEN lo[d] ELSE IF date < p THEN lo[p] ELSE p]
HungHi(t, hi, p, date) ==
  [d \in Keys(t) \cup {date} |-> IF d # date THEN hi[d] ELSE IF date < p THEN p ELSE hi[p]]

\* A tree stays a search tree when a node is hung into a slot.
LEMMA HungIsBST ==
  ASSUME NEW t, NEW lo, NEW hi, IsBST(t, lo, hi), NEW date \in 1 .. Limit - 1, NEW sales \in Nat,
         date \notin Keys(t), t.root # None, NEW p \in Keys(t), Slot(t, lo, hi, p, date)
  PROVE  IsBST([root |-> t.root, nodes |-> Hung(t, p, date, sales)],
               HungLo(t, lo, p, date), HungHi(t, hi, p, date))
<1> DEFINE K == Keys(t)
           L == K \cup {date}
           u == [root |-> t.root, nodes |-> Hung(t, p, date, sales)]
           lo2 == HungLo(t, lo, p, date)
           hi2 == HungHi(t, hi, p, date)
           A == lo2[date]
           B == hi2[date]
           node(d) == Hung(t, p, date, sales)[d]
<1>1. \A d \in K : /\ d \in Nat /\ d # None /\ lo[d] \in Nat /\ hi[d] \in Nat
                   /\ lo[d] \in 0 .. Limit /\ hi[d] \in 0 .. Limit
                   /\ t.nodes[d].left \in K \cup {None} /\ t.nodes[d].right \in K \cup {None}
                   /\ t.nodes[d] \in [sales : Nat, left : Nat, right : Nat]
                   /\ t.nodes[d] \in [sales : Nat, left : K \cup {None}, right : K \cup {None}]
                   /\ lo[d] < d /\ d < hi[d] /\ d \in 0 .. Limit /\ d # date
  BY LimitIsPositive DEF IsBST, IsTree, Bounds, None
<1>2. date \in Nat /\ date # None
  BY LimitIsPositive DEF None
<1>3. \A d \in K : lo2[d] = lo[d] /\ hi2[d] = hi[d]
  BY <1>1 DEF HungLo, HungHi
<1>4. /\ A = IF date < p THEN lo[p] ELSE p
      /\ B = IF date < p THEN p ELSE hi[p]
  BY DEF HungLo, HungHi
<1>5. DOMAIN lo2 = L /\ DOMAIN hi2 = L /\ Keys(u) = L
  BY DEF HungLo, HungHi, Hung, Keys
<1>6. /\ node(date) = SalesNode(sales)
      /\ \A d \in K : d # p => node(d) = t.nodes[d]
      /\ node(p) = IF date < p THEN [t.nodes[p] EXCEPT !.left = date]
                   ELSE [t.nodes[p] EXCEPT !.right = date]
  BY <1>1 DEF Hung
<1>7. \A d \in K : /\ node(d).left \in L \cup {None} /\ node(d).right \in L \cup {None}
                   /\ node(d).sales = t.nodes[d].sales
                   /\ node(d).left = IF d = p /\ date < p THEN date ELSE t.nodes[d].left
                   /\ node(d).right = IF d = p /\ ~ (date < p) THEN date ELSE t.nodes[d].right
                   /\ node(d) \in [sales : Nat, left : L \cup {None}, right : L \cup {None}]
  <2> SUFFICES ASSUME NEW d \in K
               PROVE  /\ node(d).sales = t.nodes[d].sales
                      /\ node(d).left = IF d = p /\ date < p THEN date ELSE t.nodes[d].left
                      /\ node(d).right = IF d = p /\ ~ (date < p) THEN date ELSE t.nodes[d].right
                      /\ node(d) \in [sales : Nat, left : L \cup {None}, right : L \cup {None}]
    OBVIOUS
  <2>1. t.nodes[d] \in [sales : Nat, left : K \cup {None}, right : K \cup {None}]
    BY <1>1
  <2>2. CASE d # p
    <3>1. node(d) = t.nodes[d]
      BY <1>6, <2>2
    <3> HIDE DEF node
    <3> QED  BY <2>1, <2>2, <3>1
  <2>3. CASE d = p /\ date < p
    <3>1. node(d) = [t.nodes[d] EXCEPT !.left = date]
      BY <1>6, <2>3
    <3> HIDE DEF node
    <3> QED  BY <2>1, <2>3, <3>1
  <2>4. CASE d = p /\ ~ (date < p)
    <3>1. node(d) = [t.nodes[d] EXCEPT !.right = date]
      BY <1>6, <2>4
    <3> HIDE DEF node
    <3> QED  BY <2>1, <2>4, <3>1
  <2> QED  BY <2>2, <2>3, <2>4
<1>8. /\ node(date) \in [sales : Nat, left : L \cup {None}, right : L \cup {None}]
      /\ node(date).left = None /\ node(date).right = None
  BY <1>6 DEF SalesNode
<1>9. IsTree(u)
  <2>1. Hung(t, p, date, sales)
          \in [L -> [sales : Nat, left : L \cup {None}, right : L \cup {None}]]
    <3>1. DOMAIN Hung(t, p, date, sales) = L
          /\ Hung(t, p, date, sales) = [d \in L |-> Hung(t, p, date, sales)[d]]
      BY DEF Hung
    <3> QED  BY <1>7, <1>8, <3>1
  <2>2. t.root \in L \cup {None} /\ L \subseteq 1 .. Limit - 1
    BY DEF IsBST, IsTree
  <2> QED  BY <1>5, <2>1, <2>2 DEF IsTree
\* The node hangs between its neighbours.
<1>10. /\ A \in Nat /\ B \in Nat /\ A \in 0 .. Limit /\ B \in 0 .. Limit
       /\ A < date /\ date < B /\ lo[p] <= A /\ B <= hi[p]
       /\ \/ A = lo[p] /\ B = p
          \/ A = p /\ B = hi[p]
  BY <1>1, <1>2, <1>4 DEF Slot
<1>11. \A e \in K : ~ (A < e /\ e < B)
  BY <1>1, <1>2, <1>4 DEF Slot, IsBST, Bounds
<1>12. \A d, e \in K : d < e =>
         \/ hi[d] <= e /\ lo[e] <= lo[d]
         \/ d <= lo[e] /\ hi[e] <= hi[d]
         \/ hi[d] <= lo[e]
  BY DEF IsBST, Nested
<1> HIDE DEF lo2, hi2, A, B, K
<1>13. ASSUME NEW d \in K
       PROVE  /\ d < date => \/ hi[d] <= date /\ A <= lo[d]
                             \/ d <= A /\ B <= hi[d]
                             \/ hi[d] <= A
              /\ date < d => \/ B <= d /\ lo[d] <= A
                             \/ date <= lo[d] /\ hi[d] <= B
                             \/ B <= lo[d]
  <2>1. ~ (A < d /\ d < B)
    BY <1>11
  <2>2. /\ d < p => \/ hi[d] <= p /\ lo[p] <= lo[d]
                    \/ d <= lo[p] /\ hi[p] <= hi[d]
                    \/ hi[d] <= lo[p]
        /\ p < d => \/ hi[p] <= d /\ lo[d] <= lo[p]
                    \/ p <= lo[d] /\ hi[d] <= hi[p]
                    \/ hi[p] <= lo[d]
    BY <1>12 DEF K
  <2>3. /\ d \in Nat /\ lo[d] \in Nat /\ hi[d] \in Nat /\ lo[d] < d /\ d < hi[d]
        /\ p \in Nat /\ lo[p] \in Nat /\ hi[p] \in Nat /\ lo[p] < p /\ p < hi[p] /\ d # date
    BY <1>1 DEF K
  <2> QED  BY <1>2, <1>10, <2>1, <2>2, <2>3
<1>14. Nested(u, lo2, hi2)
  <2> SUFFICES ASSUME NEW d \in L, NEW e \in L, d < e
               PROVE  \/ hi2[d] <= e /\ lo2[e] <= lo2[d]
                      \/ d <= lo2[e] /\ hi2[e] <= hi2[d]
                      \/ hi2[d] <= lo2[e]
    BY <1>5 DEF Nested
  <2>1. CASE d \in K /\ e \in K
    BY <1>3, <1>12, <2>1
  <2>2. CASE d \in K /\ e = date
    BY <1>3, <1>13, <2>2 DEF A, B
  <2>3. CASE d = date /\ e \in K
    BY <1>3, <1>13, <2>3 DEF A, B
  <2>4. CASE d = date /\ e = date
    BY <1>2, <2>4
  <2> QED  BY <2>1, <2>2, <2>3, <2>4
<1>15. ASSUME NEW d \in K, d # p \/ ~ (date < p), t.nodes[d].left = None
       PROVE  ~ (lo[d] < date /\ date < d)
  <2>1. \A e \in K : ~ (lo[d] < e /\ e < d)
    BY <1>15 DEF IsBST, Bounds, K
  <2>2. ~ (lo[d] < p /\ p < d)
    BY <2>1 DEF K
  <2>3. ~ (A < d /\ d < B)
    BY <1>11
  <2>4. /\ d \in Nat /\ lo[d] \in Nat /\ hi[d] \in Nat /\ lo[d] < d /\ d < hi[d]
        /\ p \in Nat /\ lo[p] \in Nat /\ hi[p] \in Nat /\ lo[p] < p /\ p < hi[p] /\ d # date
    BY <1>1 DEF K
  <2>5. /\ d < p => \/ hi[d] <= p /\ lo[p] <= lo[d]
                    \/ d <= lo[p] /\ hi[p] <= hi[d]
                    \/ hi[d] <= lo[p]
        /\ p < d => \/ hi[p] <= d /\ lo[d] <= lo[p]
                    \/ p <= lo[d] /\ hi[d] <= hi[p]
                    \/ hi[p] <= lo[d]
    BY <1>12 DEF K
  <2> QED  BY <1>2, <1>10, <1>15, <2>2, <2>3, <2>4, <2>5
<1>16. ASSUME NEW d \in K, d # p \/ date < p, t.nodes[d].right = None
       PROVE  ~ (d < date /\ date < hi[d])
  <2>1. \A e \in K : ~ (d < e /\ e < hi[d])
    BY <1>16 DEF IsBST, Bounds, K
  <2>2. ~ (d < p /\ p < hi[d])
    BY <2>1 DEF K
  <2>3. ~ (A < d /\ d < B)
    BY <1>11
  <2>4. /\ d \in Nat /\ lo[d] \in Nat /\ hi[d] \in Nat /\ lo[d] < d /\ d < hi[d]
        /\ p \in Nat /\ lo[p] \in Nat /\ hi[p] \in Nat /\ lo[p] < p /\ p < hi[p] /\ d # date
    BY <1>1 DEF K
  <2>5. /\ d < p => \/ hi[d] <= p /\ lo[p] <= lo[d]
                    \/ d <= lo[p] /\ hi[p] <= hi[d]
                    \/ hi[d] <= lo[p]
        /\ p < d => \/ hi[p] <= d /\ lo[d] <= lo[p]
                    \/ p <= lo[d] /\ hi[d] <= hi[p]
                    \/ hi[p] <= lo[d]
    BY <1>12 DEF K
  <2> QED  BY <1>2, <1>10, <1>16, <2>2, <2>3, <2>4, <2>5
<1>17. lo2 \in [L -> 0 .. Limit] /\ hi2 \in [L -> 0 .. Limit]
  <2>1. lo2 = [d \in L |-> lo2[d]] /\ hi2 = [d \in L |-> hi2[d]]
    BY DEF lo2, hi2, HungLo, HungHi, K
  <2>2. \A d \in L : lo2[d] \in 0 .. Limit /\ hi2[d] \in 0 .. Limit
    BY <1>1, <1>3, <1>10 DEF A, B, K
  <2> QED  BY <2>1, <2>2
\* The links of the nodes, one by one.
<1>18. ASSUME NEW d \in K
       PROVE  /\ lo2[d] < d /\ d < hi2[d]
              /\ node(d).left # None => lo2[node(d).left] = lo2[d] /\ hi2[node(d).left] = d
              /\ node(d).left = None => \A e \in L : ~ (lo2[d] < e /\ e < d)
              /\ node(d).right # None => lo2[node(d).right] = d /\ hi2[node(d).right] = hi2[d]
              /\ node(d).right = None => \A e \in L : ~ (d < e /\ e < hi2[d])
  <2>1. /\ lo2[d] = lo[d] /\ hi2[d] = hi[d] /\ lo[d] < d /\ d < hi[d]
    BY <1>1, <1>3 DEF K
  <2>2. /\ t.nodes[d].left # None => lo[t.nodes[d].left] = lo[d] /\ hi[t.nodes[d].left] = d
        /\ t.nodes[d].left = None => \A e \in K : ~ (lo[d] < e /\ e < d)
        /\ t.nodes[d].right # None => lo[t.nodes[d].right] = d /\ hi[t.nodes[d].right] = hi[d]
        /\ t.nodes[d].right = None => \A e \in K : ~ (d < e /\ e < hi[d])
    BY DEF IsBST, Bounds, K
  <2>3. t.nodes[d].left \in K \cup {None} /\ t.nodes[d].right \in K \cup {None}
    BY <1>1 DEF K
  <2>4. /\ node(d).left = IF d = p /\ date < p THEN date ELSE t.nodes[d].left
        /\ node(d).right = IF d = p /\ ~ (date < p) THEN date ELSE t.nodes[d].right
    BY <1>7 DEF K
  <2>5. /\ A = lo2[date] /\ B = hi2[date]
        /\ date < p => A = lo[p] /\ B = p
        /\ ~ (date < p) => A = p /\ B = hi[p]
    BY <1>4 DEF A, B
  <2> HIDE DEF node
  <2>6. node(d).left # None => lo2[node(d).left] = lo2[d] /\ hi2[node(d).left] = d
    BY <1>3, <2>1, <2>2, <2>3, <2>4, <2>5
  <2>7. node(d).right # None => lo2[node(d).right] = d /\ hi2[node(d).right] = hi2[d]
    BY <1>3, <2>1, <2>2, <2>3, <2>4, <2>5
  <2>8. node(d).left = None => \A e \in L : ~ (lo2[d] < e /\ e < d)
    BY <1>2, <1>15, <2>1, <2>2, <2>4
  <2>9. node(d).right = None => \A e \in L : ~ (d < e /\ e < hi2[d])
    BY <1>2, <1>16, <2>1, <2>2, <2>4
  <2> QED  BY <2>1, <2>6, <2>7, <2>8, <2>9
<1>19. /\ lo2[date] < date /\ date < hi2[date]
       /\ \A e \in L : ~ (lo2[date] < e /\ e < date)
       /\ \A e \in L : ~ (date < e /\ e < hi2[date])
  <2>1. A < date /\ date < B /\ A \in Nat /\ B \in Nat
    BY <1>10
  <2>2. \A e \in K : ~ (A < e /\ e < B) /\ e \in Nat
    BY <1>1, <1>11 DEF K
  <2> QED  BY <1>2, <2>1, <2>2 DEF A, B
<1>20. t.root \in K /\ lo2[t.root] = 0 /\ hi2[t.root] = Limit
  <2>1. t.root \in K /\ lo[t.root] = 0 /\ hi[t.root] = Limit
    BY DEF IsBST, IsTree, Bounds, K
  <2> QED  BY <1>3, <2>1
<1>21. Bounds(u, lo2, hi2)
  <2>1. /\ u.root = t.root /\ u.root # None /\ Keys(u) = L
        /\ \A d \in L : u.nodes[d] = node(d)
    BY <1>5 DEF K
  <2>2. /\ lo2[u.root] = 0 /\ hi2[u.root] = Limit
    BY <1>20, <2>1
  <2>3. \A d \in L :
          /\ lo2[d] < d /\ d < hi2[d]
          /\ node(d).left # None => lo2[node(d).left] = lo2[d] /\ hi2[node(d).left] = d
          /\ node(d).left = None => \A e \in L : ~ (lo2[d] < e /\ e < d)
          /\ node(d).right # None => lo2[node(d).right] = d /\ hi2[node(d).right] = hi2[d]
          /\ node(d).right = None => \A e \in L : ~ (d < e /\ e < hi2[d])
    <3> HIDE DEF node
    <3> QED  BY <1>8, <1>18, <1>19
  <2> HIDE DEF u, node, L
  <2> QED  BY <1>17, <2>1, <2>2, <2>3 DEF Bounds
<1> QED  BY <1>9, <1>14, <1>21 DEF IsBST, lo2, hi2

\* Adding to the sales of a node changes no link.
LEMMA AddedIsBST ==
  ASSUME NEW t, NEW lo, NEW hi, IsBST(t, lo, hi), NEW date \in Keys(t), NEW sales \in Nat
  PROVE  /\ IsBST([root |-> t.root, nodes |-> [t.nodes EXCEPT ![date].sales = @ + sales]], lo, hi)
         /\ \A d \in Keys(t) : [t.nodes EXCEPT ![date].sales = @ + sales][d].sales
                                 = t.nodes[d].sales + (IF d = date THEN sales ELSE 0)
<1> DEFINE K == Keys(t)
           N == [sales : Nat, left : K \cup {None}, right : K \cup {None}]
           more == [t.nodes EXCEPT ![date].sales = @ + sales]
           u == [root |-> t.root, nodes |-> more]
<1>1. t.nodes \in [K -> N] /\ t.root \in K \cup {None} /\ K \subseteq 1 .. Limit - 1
  BY DEF IsBST, IsTree
<1>2. [t.nodes[date] EXCEPT !.sales = @ + sales] \in N
  BY <1>1
<1>3. more \in [K -> N]
  <2>1. more = [t.nodes EXCEPT ![date] = [t.nodes[date] EXCEPT !.sales = @ + sales]]
    OBVIOUS
  <2> HIDE DEF N, more
  <2> QED  BY <1>1, <1>2, <2>1
<1>4. \A d \in K : /\ more[d].left = t.nodes[d].left /\ more[d].right = t.nodes[d].right
                   /\ more[d].sales = t.nodes[d].sales + (IF d = date THEN sales ELSE 0)
  BY <1>1
<1>5. Keys(u) = K
  BY <1>1 DEF Keys
<1> HIDE DEF more
<1>6. IsTree(u)
  BY <1>1, <1>3, <1>5 DEF IsTree
<1>7. Bounds(u, lo, hi)
  BY <1>4, <1>5 DEF IsBST, Bounds
<1>8. Nested(u, lo, hi)
  BY <1>5 DEF IsBST, Nested
<1> QED  BY <1>4, <1>6, <1>7, <1>8 DEF IsBST, more

\* The first node of a tree.
LEMMA InsertFirst ==
  ASSUME NEW t, NEW lo, NEW hi, IsBST(t, lo, hi), NEW date \in 1 .. Limit - 1, NEW sales \in Nat,
         t.root = None
  PROVE  LET u == insert(t, date, sales)
         IN  /\ IsBST(u, [d \in {date} |-> 0], [d \in {date} |-> Limit])
             /\ Keys(t) = {} /\ Keys(u) = {date} /\ u.nodes[date].sales = sales
<1> DEFINE u == [root |-> date, nodes |-> [d \in {date} |-> SalesNode(sales)]]
           lo2 == [d \in {date} |-> 0]
           hi2 == [d \in {date} |-> Limit]
<1>1. Keys(t) = {}
  BY DEF IsBST, Bounds
<1>2. insert(t, date, sales) = [root |-> date, nodes |-> WithNode(t, date, sales)]
  BY InsertRecursion
<1>3. insert(t, date, sales) = u
  <2>1. WithNode(t, date, sales) = [d \in {date} |-> SalesNode(sales)]
    BY <1>1 DEF WithNode
  <2> QED  BY <1>2, <2>1
<1>4. /\ Keys(u) = {date} /\ u.nodes[date] = SalesNode(sales) /\ date \in Nat /\ date # None
      /\ 0 < date /\ date < Limit
  BY LimitIsPositive DEF Keys, None
<1>5. IsTree(u)
  BY <1>4 DEF IsTree, SalesNode
<1>6. Bounds(u, lo2, hi2)
  <2>1. lo2[date] = 0 /\ hi2[date] = Limit /\ lo2 \in [{date} -> 0 .. Limit] /\ hi2 \in [{date} -> 0 .. Limit]
    BY LimitIsPositive
  <2> HIDE DEF lo2, hi2
  <2> QED  BY <1>4, <2>1 DEF Bounds, SalesNode
<1>7. Nested(u, lo2, hi2)
  BY <1>4 DEF Nested
<1> QED  BY <1>1, <1>3, <1>4, <1>5, <1>6, <1>7 DEF IsBST, SalesNode

\* Whatever dates a tree has, insert leaves a search tree with one date more
\* at most, and adds the sales to that date's (sales_tree.py:29-47).
LEMMA InsertKeeps ==
  ASSUME NEW t, NEW lo, NEW hi, IsBST(t, lo, hi), NEW date \in 1 .. Limit - 1, NEW sales \in Nat
  PROVE  LET u == insert(t, date, sales)
         IN  /\ \E lo2, hi2 : IsBST(u, lo2, hi2)
             /\ Keys(u) = Keys(t) \cup {date}
             /\ \A d \in Keys(u) :
                  u.nodes[d].sales = (IF d \in Keys(t) THEN t.nodes[d].sales ELSE 0)
                                     + (IF d = date THEN sales ELSE 0)
<1> DEFINE u == insert(t, date, sales)
<1>1. \A d \in Keys(t) : t.nodes[d].sales \in Nat
  BY DEF IsBST, IsTree
<1>2. CASE date \in Keys(t)
  <2>1. u = [root |-> t.root, nodes |-> [t.nodes EXCEPT ![date].sales = @ + sales]]
    BY <1>2, InsertOld
  <2> HIDE DEF u
  <2>2. IsBST(u, lo, hi)
    BY <1>2, <2>1, AddedIsBST
  <2>3. Keys(u) = Keys(t)
    BY <2>1 DEF Keys
  <2>4. \A d \in Keys(t) : u.nodes[d].sales = t.nodes[d].sales + (IF d = date THEN sales ELSE 0)
    BY <1>2, <2>1, AddedIsBST
  <2>5. /\ \E lo2, hi2 : IsBST(u, lo2, hi2)
        /\ Keys(u) = Keys(t) \cup {date}
        /\ \A d \in Keys(u) :
             u.nodes[d].sales = (IF d \in Keys(t) THEN t.nodes[d].sales ELSE 0)
                                + (IF d = date THEN sales ELSE 0)
    BY <1>2, <2>2, <2>3, <2>4
  <2> QED  BY <2>5 DEF u
<1>3. CASE date \notin Keys(t) /\ t.root = None
  <2>1. /\ IsBST(u, [d \in {date} |-> 0], [d \in {date} |-> Limit])
        /\ Keys(t) = {} /\ Keys(u) = {date} /\ u.nodes[date].sales = sales
    BY <1>3, InsertFirst
  <2> HIDE DEF u
  <2>2. /\ \E lo2, hi2 : IsBST(u, lo2, hi2)
        /\ Keys(u) = Keys(t) \cup {date}
        /\ \A d \in Keys(u) :
             u.nodes[d].sales = (IF d \in Keys(t) THEN t.nodes[d].sales ELSE 0)
                                + (IF d = date THEN sales ELSE 0)
    BY <2>1
  <2> QED  BY <2>2 DEF u
<1>4. CASE date \notin Keys(t) /\ t.root # None
  <2>1. PICK p \in Keys(t) :
          /\ Slot(t, lo, hi, p, date)
          /\ u = [root |-> t.root, nodes |-> Hung(t, p, date, sales)]
    BY <1>4, InsertNew
  <2> HIDE DEF u
  <2>2. IsBST(u, HungLo(t, lo, p, date), HungHi(t, hi, p, date))
    BY <1>4, <2>1, HungIsBST
  <2>3. Keys(u) = Keys(t) \cup {date}
    BY <2>1 DEF Hung, Keys
  <2>4. ASSUME NEW d \in Keys(t) \cup {date}
        PROVE  u.nodes[d].sales = IF d = date THEN sales ELSE t.nodes[d].sales
    <3>1. u.nodes[d] = IF d = date THEN SalesNode(sales)
                       ELSE IF d # p THEN t.nodes[d]
                       ELSE IF date < p THEN [t.nodes[p] EXCEPT !.left = date]
                       ELSE [t.nodes[p] EXCEPT !.right = date]
      BY <2>1 DEF Hung
    <3>2. t.nodes[p] \in [sales : Nat, left : Keys(t) \cup {None}, right : Keys(t) \cup {None}]
      BY DEF IsBST, IsTree
    <3>3. /\ [t.nodes[p] EXCEPT !.left = date].sales = t.nodes[p].sales
          /\ [t.nodes[p] EXCEPT !.right = date].sales = t.nodes[p].sales
      BY <3>2
    <3> QED  BY <3>1, <3>3 DEF SalesNode
  <2>5. /\ \E lo2, hi2 : IsBST(u, lo2, hi2)
        /\ \A d \in Keys(u) :
             u.nodes[d].sales = (IF d \in Keys(t) THEN t.nodes[d].sales ELSE 0)
                                + (IF d = date THEN sales ELSE 0)
    BY <1>1, <1>4, <2>2, <2>3, <2>4
  <2> QED  BY <2>3, <2>5 DEF u
<1> QED  BY <1>2, <1>3, <1>4

=============================================================================
