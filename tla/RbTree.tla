------------------------------- MODULE RbTree -------------------------------
(***************************************************************************)
(* The trees that rb_gen_ext_key_aug of include/small/rb.h generates:      *)
(* left-leaning red-black trees without parent pointers.                   *)
(*                                                                         *)
(* A node is a number, and a_cmp compares the numbers.  A search key is    *)
(* compared with key(n), which several nodes may share.  node holds the    *)
(* linkage of the nodes in the tree only: a node belongs to its owner      *)
(* before rb_insert and after rb_remove, and following a pointer to it is  *)
(* an error.  What the augmentation callback computes may depend on the    *)
(* nodes below; here it is the set of them, from which everything else the *)
(* callback could compute follows.                                         *)
(***************************************************************************)
EXTENDS Integers, Sequences, SequencesExt, FiniteSets

CONSTANTS Nodes,     \* the nodes, as their a_cmp orders them
          SameKey    \* how many nodes share a search key

RbAssumption == Nodes \subseteq Nat \ {0} /\ SameKey \in Nat \ {0}

VARIABLES rbt_root,
          node       \* the linkage of each node in the tree

vars == <<rbt_root, node>>

Nil == 0
Linkage == [left : Nodes \cup {Nil}, right : Nodes \cup {Nil}, red : BOOLEAN,
            aug : SUBSET Nodes]

\* a_cmp
cmp(a, b) == IF a < b THEN -1 ELSE IF a = b THEN 0 ELSE 1

\* a_cmp_key
key(n) == n \div SameKey
cmp_key(k, n) == cmp(k, key(n))

SearchKeys == {key(n) : n \in Nodes} \cup {0, Cardinality(Nodes) + 1}

left_set(m, n, x) == [m EXCEPT ![n].left = x]
right_set(m, n, x) == [m EXCEPT ![n].right = x]
color_set(m, n, red) == [m EXCEPT ![n].red = red]

\* The tests of the form x != NULL && rbtn_red_get(x).
IsRed(m, n) == n # Nil /\ m[n].red

rotate_left(m, n) ==
    LET r == m[n].right IN left_set(right_set(m, n, m[r].left), r, n)

rotate_right(m, n) ==
    LET r == m[n].left IN right_set(left_set(m, n, m[r].right), r, n)

Below(m, n) == IF n = Nil THEN {} ELSE m[n].aug

\* Altered form of augment: one child is forgotten.
augmentLeft(m, n) == [m EXCEPT ![n].aug = {n} \cup Below(m, m[n].left)]

augment(m, n) ==
    [m EXCEPT ![n].aug = {n} \cup Below(m, m[n].left) \cup Below(m, m[n].right)]

\* A path down the tree is a sequence of nodes, each with the side on which
\* the path goes on.
Entry(n, c) == [node |-> n, cmp |-> c]
child(m, e) == IF e.cmp < 0 THEN m[e.node].left ELSE m[e.node].right

RECURSIVE augment_propagate(_, _, _)

\* The first k nodes of the path, from the bottom.
augment_propagate(m, path, k) ==
    IF k = 0 THEN m ELSE augment_propagate(augment(m, path[k].node), path, k - 1)

\* The subtree below the first k nodes of the path gets a new root.
Link(m, path, k, t) ==
    IF k = 0 THEN m
    ELSE IF path[k].cmp < 0 THEN left_set(m, path[k].node, t)
    ELSE right_set(m, path[k].node, t)

RootAfter(path, k, t, root) == IF k = 0 THEN t ELSE root

Tree(m, root) == [mem |-> m, root |-> root]
-----------------------------------------------------------------------------
\* Searching.

RECURSIVE first(_, _), last(_, _), Wind(_, _, _), KeyWind(_, _, _, _)

\* rbtn_first and rbtn_last below a node
first(m, n) == IF n = Nil \/ m[n].left = Nil THEN n ELSE first(m, m[n].left)
last(m, n) == IF n = Nil \/ m[n].right = Nil THEN n ELSE last(m, m[n].right)

\* The path from n towards node x, down to x or to a leaf.
Wind(m, n, x) ==
    IF n = Nil THEN <<>>
    ELSE LET e == Entry(n, cmp(x, n))
         IN  IF e.cmp = 0 THEN <<e>> ELSE <<e>> \o Wind(m, child(m, e), x)

\* The path from n down to a leaf that turns to the side of eq when a node
\* matches the key.
KeyWind(m, n, k, eq) ==
    IF n = Nil THEN <<>>
    ELSE LET e == Entry(n, cmp_key(k, n))
         IN  <<e>> \o KeyWind(m, child(m, Entry(n, IF e.cmp = 0 THEN eq ELSE e.cmp)), k, eq)

\* The position of the last entry with this comparison, 0 if there is none.
LastWith(path, c) == SelectLastInSeq(path, LAMBDA e : e.cmp = c)
NodeAt(path, i) == IF i = 0 THEN Nil ELSE path[i].node

\* rb_next and rb_prev of a node in the tree
next(n) ==
    IF node[n].right # Nil THEN first(node, node[n].right)
    ELSE LET path == Wind(node, rbt_root, n) IN NodeAt(path, LastWith(path, -1))

prev(n) ==
    IF node[n].left # Nil THEN last(node, node[n].left)
    ELSE LET path == Wind(node, rbt_root, n) IN NodeAt(path, LastWith(path, 1))

\* An iterator is the sequence of nodes from the root to the one it points to.
Upto(path, i) == [j \in 1 .. i |-> path[j].node]
iterator_get(it) == IF it = <<>> THEN Nil ELSE Last(it)

\* The last match met on the path, else the last node left on the other side
\* of the key.
Nearest(path, other) ==
    IF LastWith(path, 0) # 0 THEN LastWith(path, 0) ELSE LastWith(path, other)

nsearch(k) == LET path == KeyWind(node, rbt_root, k, 1) IN NodeAt(path, Nearest(path, -1))
psearch(k) == LET path == KeyWind(node, rbt_root, k, -1) IN NodeAt(path, Nearest(path, 1))

\* The search ends at the first match.
isearch(k) ==
    LET path == KeyWind(node, rbt_root, k, 1)
    IN  Upto(path, SelectInSeq(path, LAMBDA e : e.cmp = 0))
search(k) == iterator_get(isearch(k))

isearch_le(k) == LET path == KeyWind(node, rbt_root, k, 1) IN Upto(path, Nearest(path, 1))
isearch_lt(k) == LET path == KeyWind(node, rbt_root, k, -1) IN Upto(path, LastWith(path, 1))
isearch_gt(k) == LET path == KeyWind(node, rbt_root, k, 1) IN Upto(path, LastWith(path, -1))

\* Altered form of isearch_ge: turns right on a match, as isearch_le does.
isearch_geLast(k) ==
    LET path == KeyWind(node, rbt_root, k, 1) IN Upto(path, Nearest(path, -1))

isearch_ge(k) == LET path == KeyWind(node, rbt_root, k, -1) IN Upto(path, Nearest(path, -1))
-----------------------------------------------------------------------------
\* Iterating.

RECURSIVE go_left_down(_), go_right_down(_), go_left_up(_), go_right_up(_)

go_left_down(n) == IF n = Nil THEN <<>> ELSE <<n>> \o go_left_down(node[n].left)
go_right_down(n) == IF n = Nil THEN <<>> ELSE <<n>> \o go_right_down(node[n].right)

\* Up to the first parent whose left (right) child is not on the path.
go_left_up(it) ==
    LET up == Front(it)
    IN  IF up = <<>> \/ node[Last(up)].left # Last(it) THEN up ELSE go_left_up(up)
go_right_up(it) ==
    LET up == Front(it)
    IN  IF up = <<>> \/ node[Last(up)].right # Last(it) THEN up ELSE go_right_up(up)

icreate(n) ==
    LET path == Wind(node, rbt_root, n)
    IN  Upto(path, SelectInSeq(path, LAMBDA e : e.cmp = 0))
ifirst == go_left_down(rbt_root)
ilast == go_right_down(rbt_root)

\* What inext and iprev leave in the iterator; they return what it pointed to.
inext(it) ==
    IF it = <<>> THEN <<>>
    ELSE IF node[Last(it)].right # Nil THEN it \o go_left_down(node[Last(it)].right)
    ELSE go_right_up(it)

iprev(it) ==
    IF it = <<>> THEN <<>>
    ELSE IF node[Last(it)].left # Nil THEN it \o go_right_down(node[Last(it)].left)
    ELSE go_left_up(it)

RECURSIVE iter_recurse(_, _), iter_start(_, _, _), reverse_iter_recurse(_, _),
          reverse_iter_start(_, _, _)

\* The nodes for which cb is called, when it returns non-NULL for stop only.
Stopped(seen, stop) == seen # <<>> /\ Last(seen) = stop
Then(seen, more, stop) == IF Stopped(seen, stop) THEN seen ELSE seen \o more

iter_recurse(n, stop) ==
    IF n = Nil THEN <<>>
    ELSE Then(Then(iter_recurse(node[n].left, stop), <<n>>, stop),
              iter_recurse(node[n].right, stop), stop)

iter_start(start, n, stop) ==
    CASE cmp(start, n) < 0 -> Then(Then(iter_start(start, node[n].left, stop), <<n>>, stop),
                                   iter_recurse(node[n].right, stop), stop)
      [] cmp(start, n) > 0 -> iter_start(start, node[n].right, stop)
      [] OTHER -> Then(<<n>>, iter_recurse(node[n].right, stop), stop)

iter(start, stop) ==
    IF start # Nil THEN iter_start(start, rbt_root, stop) ELSE iter_recurse(rbt_root, stop)

reverse_iter_recurse(n, stop) ==
    IF n = Nil THEN <<>>
    ELSE Then(Then(reverse_iter_recurse(node[n].right, stop), <<n>>, stop),
              reverse_iter_recurse(node[n].left, stop), stop)

reverse_iter_start(start, n, stop) ==
    CASE cmp(start, n) > 0 ->
             Then(Then(reverse_iter_start(start, node[n].right, stop), <<n>>, stop),
                  reverse_iter_recurse(node[n].left, stop), stop)
      [] cmp(start, n) < 0 -> reverse_iter_start(start, node[n].left, stop)
      [] OTHER -> Then(<<n>>, reverse_iter_recurse(node[n].left, stop), stop)

reverse_iter(start, stop) ==
    IF start # Nil THEN reverse_iter_start(start, rbt_root, stop)
                    ELSE reverse_iter_recurse(rbt_root, stop)

\* A walk is the path to the current node, with the directions allowed at
\* each node when the walk left it.
RECURSIVE WalkUp(_)

Walking(n, dir) == [node |-> n, dir |-> dir]

\* The walk comes back from a left child and may go to the right one.
WalkBack(up, from) ==
    /\ "right" \in Last(up).dir
    /\ node[Last(up).node].right # Nil
    /\ node[Last(up).node].right # from

WalkUp(w) ==
    LET up == Front(w)
    IN  IF up = <<>> THEN <<>>
        ELSE IF WalkBack(up, Last(w).node)
        THEN Append(up, Walking(node[Last(up).node].right, {}))
        ELSE WalkUp(up)

walk_next(w, dir) ==
    IF w = <<>> THEN IF rbt_root = Nil THEN <<>> ELSE <<Walking(rbt_root, {})>>
    ELSE LET n == Last(w).node
             here == Append(Front(w), Walking(n, dir))
         IN  IF "left" \in dir /\ node[n].left # Nil
             THEN Append(here, Walking(node[n].left, {}))
             ELSE IF "right" \in dir /\ node[n].right # Nil
             THEN Append(here, Walking(node[n].right, {}))
             ELSE WalkUp(here)
-----------------------------------------------------------------------------
\* Insertion.

RECURSIVE InsertUnwind(_, _, _, _)

\* cnode gets a red left child with a red left child: rotate, and the colours
\* of a 4-node are split.
FixUp4Node(m, c) ==
    LET t == m[c].left
        m1 == rotate_right(color_set(m, m[t].left, FALSE), c)
    IN  Tree(augment(augment(m1, c), t), t)

Split4Node(m, c) ==
    LET m1 == color_set(color_set(m, m[c].left, FALSE), m[c].right, FALSE)
    IN  Tree(augment(color_set(m1, c, TRUE), c), c)

\* A red right child takes the place, and the colour, of its parent.
LeanLeft(m, c) ==
    LET t == m[c].right
        m1 == color_set(color_set(rotate_left(m, c), t, m[c].red), c, TRUE)
    IN  Tree(augment(augment(m1, c), t), t)

\* Pass a subtree with root sub up to the k-th node of the path.
InsertUnwind(m, path, k, sub) ==
    IF k = 0 THEN Tree(color_set(m, sub, FALSE), sub)
    ELSE LET c == path[k].node
             m1 == Link(m, path, k, sub)
             up == IF path[k].cmp < 0
                   THEN IF IsRed(m1, m1[sub].left) THEN FixUp4Node(m1, c)
                                                  ELSE Tree(augment(m1, c), c)
                   ELSE IF IsRed(m1, m1[c].left) THEN Split4Node(m1, c)
                                                 ELSE LeanLeft(m1, c)
         IN  IF m1[sub].red THEN InsertUnwind(up.mem, path, k - 1, up.root)
             ELSE Tree(augment_propagate(m1, path, k), rbt_root)

NewNode(n) == [left |-> Nil, right |-> Nil, red |-> TRUE, aug |-> {n}]

rb_insert(n) ==
    LET path == Wind(node, rbt_root, n)
        m == [x \in DOMAIN node \cup {n} |-> IF x = n THEN NewNode(n) ELSE node[x]]
        t == InsertUnwind(m, path, Len(path), n)
    IN  /\ n \notin DOMAIN node
        /\ node' = t.mem
        /\ rbt_root' = t.root
-----------------------------------------------------------------------------
\* Removal.

RECURSIVE RemoveUnwind(_, _, _, _, _)

\* Balance is restored below the k-th node, where the subtree has the root t.
Balanced(m, path, k, t, root) ==
    Tree(augment_propagate(Link(m, path, k - 1, t), path, k - 1), RootAfter(path, k - 1, t, root))

\* The right child of p has a red left child, which becomes the root.
RotateRightLeft(m, p) ==
    LET r == m[p].right
        t == m[r].left
        m1 == augment(augment(rotate_right(m, r), r), t)
        m2 == rotate_left(right_set(m1, p, t), p)
    IN  Tree(augment(augment(m2, p), t), t)

RotateLeftUp(m, p) ==
    LET t == m[p].right IN Tree(augment(augment(rotate_left(m, p), p), t), t)

RotateRightUp(m, p) ==
    LET t == m[p].left IN Tree(augment(augment(rotate_right(m, p), p), t), t)

\* The left child u of p is red and its right child has a red left child.
RotateUncle(m, p) ==
    LET u == m[p].left
        t == m[u].right
        m1 == rotate_right(rotate_right(m, p), p)
        m2 == augment(augment(right_set(m1, u, t), p), t)
    IN  Tree(augment(augment(rotate_left(m2, u), u), t), t)

\* The left subtree of the k-th node has lost a black node.
RemoveLeft(m, path, k, root) ==
    LET p == path[k].node
        rightleft == m[m[p].right].left
        t == CASE m[p].red /\ IsRed(m, rightleft) ->
                      RotateRightLeft(color_set(m, p, FALSE), p)
               [] m[p].red /\ ~IsRed(m, rightleft) -> RotateLeftUp(m, p)
               [] ~m[p].red /\ IsRed(m, rightleft) ->
                      RotateRightLeft(color_set(m, rightleft, FALSE), p)
               [] OTHER -> RotateLeftUp(color_set(m, p, TRUE), p)
    IN  IF m[p].red \/ IsRed(m, rightleft)
        THEN Balanced(t.mem, path, k, t.root, root)
        ELSE RemoveUnwind(t.mem, path, k - 1, t.root, root)

\* The right subtree of p, which has a red left child, has lost a black node.
RedLeft(m, p) ==
    LET leftright == m[m[p].left].right
        leftrightleft == m[leftright].left
    IN  IF IsRed(m, leftrightleft) THEN RotateUncle(color_set(m, leftrightleft, FALSE), p)
        ELSE LET t == RotateRightUp(color_set(m, leftright, TRUE), p)
             IN  Tree(color_set(t.mem, t.root, FALSE), t.root)

\* Altered form of BlackLeft: the left child keeps its colour under a red
\* node.
BlackLeftPale(m, p) ==
    LET l == m[p].left
        ll == m[l].left
        m1 == color_set(color_set(m, p, FALSE), ll, FALSE)
    IN  CASE m[p].red /\ IsRed(m, ll) -> RotateRightUp(m1, p)
          [] m[p].red /\ ~IsRed(m, ll) -> Tree(color_set(color_set(m, l, TRUE), p, FALSE), p)
          [] ~m[p].red /\ IsRed(m, ll) -> RotateRightUp(color_set(m, ll, FALSE), p)
          [] OTHER -> Tree(augment(color_set(m, l, TRUE), p), p)

\* ... which has a black left child, and is red or black itself.
BlackLeft(m, p) ==
    LET l == m[p].left
        ll == m[l].left
        m1 == color_set(color_set(color_set(m, p, FALSE), l, TRUE), ll, FALSE)
    IN  CASE m[p].red /\ IsRed(m, ll) -> RotateRightUp(m1, p)
          [] m[p].red /\ ~IsRed(m, ll) -> Tree(color_set(color_set(m, l, TRUE), p, FALSE), p)
          [] ~m[p].red /\ IsRed(m, ll) -> RotateRightUp(color_set(m, ll, FALSE), p)
          [] OTHER -> Tree(augment(color_set(m, l, TRUE), p), p)

\* The right subtree of the k-th node has lost a black node.
RemoveRight(m, path, k, root) ==
    LET p == path[k].node
        l == m[p].left
        red == BlackLeft(m, p)
    IN  CASE m[l].red -> LET t == RedLeft(m, p) IN Balanced(t.mem, path, k, t.root, root)
          [] ~m[l].red /\ m[p].red /\ ~IsRed(m, m[l].left) ->
                 Tree(augment_propagate(red.mem, path, k), root)
          [] ~m[l].red /\ IsRed(m, m[l].left) -> Balanced(red.mem, path, k, red.root, root)
          [] OTHER -> RemoveUnwind(red.mem, path, k - 1, red.root, root)

\* A black node is missing below the k-th node, where the subtree has the
\* root sub.
RemoveUnwind(m, path, k, sub, root) ==
    IF k = 0 THEN Tree(m, sub)
    ELSE LET m1 == Link(m, path, k, sub)
         IN  IF path[k].cmp < 0 THEN RemoveLeft(m1, path, k, root)
                                ELSE RemoveRight(m1, path, k, root)

\* The node at the end of the path is a leaf: take it off.
Prune(m, path, root) ==
    LET k == Len(path)
    IN  IF m[path[k].node].red
        THEN Tree(augment_propagate(left_set(m, path[k - 1].node, Nil), path, k - 1), root)
        ELSE RemoveUnwind(m, path, k - 1, Nil, root)

\* The successor s of n, at the end of the path, takes the place and colour
\* of n, and n those of s.  When s is the right child of n its right pointer
\* points to itself until the pruning sets it.
Swap(m, path, i, root) ==
    LET n == path[i].node
        s == Last(path).node
        m1 == [m EXCEPT ![s] = [@ EXCEPT !.left = m[n].left, !.right = m[n].right,
                                         !.red = m[n].red],
                        ![n].red = m[s].red]
        p1 == [path EXCEPT ![i].node = s, ![Len(path)].node = n]
    IN  Prune(Link(m1, path, i - 1, s), p1, RootAfter(path, i - 1, s, root))

\* A node without a successor below it, but with a left child.
Splice(m, path, root) ==
    LET k == Len(path)
        l == m[path[k].node].left
    IN  Balanced(color_set(m, l, FALSE), path, k, l, root)

rb_remove(n) ==
    LET down == Wind(node, rbt_root, n)
        i == Len(down)
        spine == go_left_down(node[n].right)
        path == [down EXCEPT ![i].cmp = 1] \o [j \in 1 .. Len(spine) |-> Entry(spine[j], -1)]
        t == CASE spine # <<>> -> Swap(node, path, i, rbt_root)
               [] spine = <<>> /\ node[n].left # Nil -> Splice(node, path, rbt_root)
               [] spine = <<>> /\ node[n].left = Nil /\ i = 1 -> Tree(node, Nil)
               [] OTHER -> Prune(node, path, rbt_root)
    IN  /\ n \in DOMAIN node
        /\ node' = [x \in DOMAIN node \ {n} |-> t.mem[x]]
        /\ rbt_root' = t.root

\* rb_new
Init == rbt_root = Nil /\ node = <<>>

Next == \E n \in Nodes : rb_insert(n) \/ rb_remove(n)

Spec == Init /\ [][Next]_vars
-----------------------------------------------------------------------------
\* What the tree is compared with: its nodes in order, and below each node.

RECURSIVE Inorder(_), Preorder(_, _, _), BlackHeight(_), Sorted(_)

Inorder(n) ==
    IF n = Nil THEN <<>> ELSE Inorder(node[n].left) \o <<n>> \o Inorder(node[n].right)

Sorted(S) == IF S = {} THEN <<>> ELSE <<Min(S)>> \o Sorted(S \ {Min(S)})
Least(S) == IF S = {} THEN Nil ELSE Min(S)
Greatest(S) == IF S = {} THEN Nil ELSE Max(S)
InTree == DOMAIN node

\* Black nodes on the way down to the left, -1 if the ways differ.
BlackHeight(n) ==
    IF n = Nil THEN 0
    ELSE LET l == BlackHeight(node[n].left)
             r == BlackHeight(node[n].right)
         IN  IF l = -1 \/ l # r THEN -1 ELSE IF node[n].red THEN l ELSE l + 1

\* A walk that goes left of a node only above lo, and right only below hi.
Directions(n, lo, hi) ==
    (IF lo < n THEN {"left"} ELSE {}) \cup (IF n < hi THEN {"right"} ELSE {})

Preorder(n, lo, hi) ==
    IF n = Nil THEN <<>>
    ELSE <<n>> \o (IF lo < n THEN Preorder(node[n].left, lo, hi) ELSE <<>>)
               \o (IF n < hi THEN Preorder(node[n].right, lo, hi) ELSE <<>>)

RECURSIVE WalkFrom(_, _, _)

WalkFrom(w, lo, hi) ==
    IF w = <<>> THEN <<>>
    ELSE <<Last(w).node>> \o WalkFrom(walk_next(w, Directions(Last(w).node, lo, hi)), lo, hi)

TypeOK == rbt_root \in InTree \cup {Nil} /\ node \in [InTree -> Linkage] /\ InTree \subseteq Nodes

\* After any rb_insert and rb_remove every node is where a search for it
\* arrives, no node and no link is lost, all paths have as many black nodes,
\* and red nodes are left children of black ones; the asserts of rb_remove
\* follow from it.
BalancedTree ==
    /\ Inorder(rbt_root) = Sorted(InTree)
    /\ rbt_root # Nil => ~node[rbt_root].red
    /\ \A n \in InTree : /\ ~IsRed(node, node[n].right)
                         /\ node[n].red => ~IsRed(node, node[n].left)
    /\ BlackHeight(rbt_root) # -1

\* The augmentation callback has been called, from the bottom up, for every
\* node whose subtree rb_insert or rb_remove has changed.
Augmented == \A n \in InTree : node[n].aug = ToSet(Inorder(n))

\* The search functions find the least or the greatest of the nodes that
\* match, or the nearest one that does not, and the iterators among them go
\* on from there to the neighbours in both directions.
FindsNearest ==
    /\ \A k \in SearchKeys :
         LET match == {n \in InTree : key(n) = k}
             less == {n \in InTree : key(n) < k}
             more == {n \in InTree : key(n) > k}
         IN  /\ search(k) \in IF match = {} THEN {Nil} ELSE match
             /\ nsearch(k) = IF match = {} THEN Least(more) ELSE Max(match)
             /\ psearch(k) = IF match = {} THEN Greatest(less) ELSE Min(match)
             /\ isearch(k) = icreate(search(k))
             /\ isearch_le(k) = icreate(Greatest(less \cup match))
             /\ isearch_ge(k) = icreate(Least(more \cup match))
             /\ isearch_lt(k) = icreate(Greatest(less))
             /\ isearch_gt(k) = icreate(Least(more))
    /\ \A n \in InTree :
         /\ iterator_get(icreate(n)) = n
         /\ next(n) = Least({x \in InTree : x > n})
         /\ prev(n) = Greatest({x \in InTree : x < n})
         /\ inext(icreate(n)) = icreate(next(n))
         /\ iprev(icreate(n)) = icreate(prev(n))
    /\ ifirst = icreate(first(node, rbt_root)) /\ first(node, rbt_root) = Least(InTree)
    /\ ilast = icreate(last(node, rbt_root)) /\ last(node, rbt_root) = Greatest(InTree)

\* rb_iter and rb_reverse_iter call back for every node from the first one
\* to the one that stops them, in order, and rb_walk_next visits each node
\* of the subtrees it may enter once, parents first.
VisitsOnce ==
    /\ \A start \in InTree \cup {Nil}, stop \in InTree \cup {Nil} :
         LET Cut(s) == IF stop \in ToSet(s) THEN SubSeq(s, 1, IndexFirstSubSeq(<<stop>>, s)) ELSE s
         IN  /\ iter(start, stop) = Cut(Sorted({n \in InTree : n >= start}))
             /\ reverse_iter(start, stop) =
                  Cut(Reverse(Sorted({n \in InTree : start = Nil \/ n <= start})))
    /\ \A lo, hi \in Nodes \cup {Nil} :
         WalkFrom(walk_next(<<>>, {}), lo, hi) = Preorder(rbt_root, lo, hi)

\* Not so: rb.h:385 says of nsearch and psearch that a match is "the
\* minimal/maximal among the matching keys"; the example below it, and the
\* code, have it the other way round.
NsearchMinimal ==
    \A k \in SearchKeys :
        \A n \in InTree : key(n) = k => nsearch(k) <= n

\* Not so: rb.h:66 derives the height that iterators can follow from the
\* number of nodes, as if a tree of less than 2^h nodes had no more than h
\* levels.
HeightIsLogarithm ==
    \A n \in InTree : \A h \in 0 .. Cardinality(Nodes) :
        Cardinality(InTree) < 2 ^ h => Len(icreate(n)) <= h
=============================================================================
