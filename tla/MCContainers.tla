---------------------------- MODULE MCContainers ----------------------------
(***************************************************************************)
(* Small instances of the intrusive containers: the lock-free LIFO, the    *)
(* trees of rb.h and the lists of rlist.h.  They share no state, so a      *)
(* behaviour is one of one of them: part tells which.                      *)
(***************************************************************************)
EXTENDS LfLifo, TLC

CONSTANTS Parts,          \* the components to run
          MaxNode,        \* the nodes of a tree are 1 .. MaxNode
          Heads, Items, None

VARIABLES part, rbt_root, node, link, lists, stale, loop

rb_vars == <<rbt_root, node>>
rlist_vars == <<link, lists, stale, loop>>

\* Search keys that three nodes match.
Rb == INSTANCE RbTree WITH Nodes <- 1 .. MaxNode, SameKey <- 3

List == INSTANCE RList

ASSUME Rb!RbAssumption /\ List!RListAssumption

MCInit ==
    /\ part \in Parts /\ Init /\ Rb!Init /\ List!Init
    /\ part # "lf_lifo" => \E t \in Threads : owned[t] = Elems

MCNext ==
    \/ part = "lf_lifo" /\ Next /\ UNCHANGED <<part, rb_vars, rlist_vars>>
    \/ part = "rb" /\ Rb!Next /\ UNCHANGED <<part, vars, rlist_vars>>
    \/ part = "rlist" /\ List!Next /\ UNCHANGED <<part, vars, rb_vars>>

MCSpec == MCInit /\ [][MCNext]_<<part, vars, rb_vars, rlist_vars>>

Symmetry == Permutations(Threads) \cup Permutations(Elems)
-----------------------------------------------------------------------------
\* rb_insert and rb_remove keep the tree ordered and balanced.
RbStaysBalanced == part = "rb" => Rb!TypeOK /\ Rb!BalancedTree

\* rb_insert and rb_remove leave every node with what the augmentation
\* callback makes of its subtree as it is now.
RbStaysAugmented == part = "rb" => Rb!Augmented

\* The searches of rb.h find the nearest node on the side they are asked
\* for, iterators go on to its neighbours, and rb_iter, rb_reverse_iter and
\* rb_walk_next visit every node they should, once.
RbFindsAll == part = "rb" => Rb!FindsNearest /\ Rb!VisitsOnce

\* The assignments of rlist.h make the lists they are to make, also of
\* empty lists, of neighbours and of an entry's own list, and
\* rlist_foreach_entry_safe misses and repeats no entry.
RListsAreLinked == part = "rlist" => List!TypeOK /\ List!LinksAreLists /\ List!ForeachVisitsAll
=============================================================================
