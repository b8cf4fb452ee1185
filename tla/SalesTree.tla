----------------------------- MODULE SalesTree ------------------------------
(***************************************************************************)
(* SalesBST (src/client/core/sales_tree.py): the sales of a machine in a   *)
(* binary search tree keyed by the date, a number YYYYMMDD.                *)
(*                                                                         *)
(* A tree has one node for each date, so the date names the node, and 0    *)
(* stands for None.  A tree is its root and its nodes, a function from     *)
(* their names; a method that goes down the tree is a recursive function   *)
(* on them.  A node's by_drink is left to the module that uses the tree.   *)
(***************************************************************************)
EXTENDS Integers, Sequences, Functions

None == 0

EmptyTree == [root |-> None, nodes |-> << >>]

SalesNode(sales) == [sales |-> sales, left |-> None, right |-> None]

\* Sales of a date that has a node are added up.
insert(tree, date, sales) ==
  LET into[node \in DOMAIN tree.nodes \cup {None}] ==
        IF node = None
        THEN [root  |-> date,
              nodes |-> [d \in DOMAIN tree.nodes \cup {date} |->
                           IF d = date THEN SalesNode(sales) ELSE tree.nodes[d]]]
        ELSE IF date < node
        THEN LET sub == into[tree.nodes[node].left]
             IN  [root |-> node, nodes |-> [sub.nodes EXCEPT ![node].left = sub.root]]
        ELSE IF date > node
        THEN LET sub == into[tree.nodes[node].right]
             IN  [root |-> node, nodes |-> [sub.nodes EXCEPT ![node].right = sub.root]]
        ELSE [root |-> node, nodes |-> [tree.nodes EXCEPT ![node].sales = @ + sales]]
  IN  into[tree.root]

search(tree, date) ==
  LET from[node \in DOMAIN tree.nodes \cup {None}] ==
        IF node = None \/ date = node THEN node
        ELSE from[IF date < node THEN tree.nodes[node].left ELSE tree.nodes[node].right]
  IN  from[tree.root]

\* Subtrees that cannot hold a date of the range are left out.
range_query(tree, start, end) ==
  LET range[node \in DOMAIN tree.nodes \cup {None}] ==
        IF node = None THEN << >>
        ELSE (IF node > start THEN range[tree.nodes[node].left] ELSE << >>)
          \o (IF start <= node /\ node <= end THEN <<node>> ELSE << >>)
          \o (IF node < end THEN range[tree.nodes[node].right] ELSE << >>)
  IN  range[tree.root]

inorder(tree) ==
  LET list[node \in DOMAIN tree.nodes \cup {None}] ==
        IF node = None THEN << >>
        ELSE list[tree.nodes[node].left] \o <<node>> \o list[tree.nodes[node].right]
  IN  list[tree.root]

monthly_total(tree, year, month) ==
  LET first == year * 10000 + month * 100 + 1
      days  == range_query(tree, first, first + 30)
  IN  SumFunction([i \in DOMAIN days |-> tree.nodes[days[i]].sales])

=============================================================================
