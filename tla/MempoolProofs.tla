--------------------------- MODULE MempoolProofs ---------------------------
(***************************************************************************)
(* The invariants of Mempool for every set of slabs and every size of      *)
(* slabs and objects.                                                      *)
(***************************************************************************)
EXTENDS Mempool, TLAPS, FiniteSetTheorems, NumberLemmas

Mslabs == [nfree : Nat, free_list : Seq(Places), free_offset : 0 .. objcount,
           in_hot : BOOLEAN]

IsFunction(m) == m = [s \in DOMAIN m |-> m[s]]

\* What is in a list, and that it is there once.
In(k, q) == \E i \in 1 .. Len(q) : q[i] = k
Distinct(q) == \A i, j \in 1 .. Len(q) : q[i] = q[j] => i = j

\* Slab s, with header x, accounts for its objects; o are the objects that
\* callers have.  Garbage lies below free_offset.
SlabOK(x, s, o) ==
    /\ x \in Mslabs
    /\ x.nfree = Len(x.free_list) + objcount - x.free_offset
    /\ Distinct(x.free_list)
    /\ \A p \in Places : In(p, x.free_list) => p < x.free_offset
    /\ \A p \in Places : <<s, p>> \in o <=> p < x.free_offset /\ ~In(p, x.free_list)

\* The slabs m of the pool, and the objects o.
SlabsOK(m, o) ==
    /\ DOMAIN m \subseteq Slabs
    /\ IsFunction(m)
    /\ \A s \in DOMAIN m : SlabOK(m[s], s, o)
    /\ o \subseteq (DOMAIN m) \X Places

\* h is the tree of hot slabs and f the first of them.
HotOK(m, h, f) ==
    /\ h \subseteq DOMAIN m
    /\ \A s \in DOMAIN m : m[s].in_hot <=> s \in h
    /\ \A s \in h : m[s].nfree > 0
    /\ h = {} => f = NULL
    /\ h # {} => f \in h /\ \A s \in h : f <= s

\* c is the list of cold slabs.
ColdOK(m, h, c) ==
    /\ c \in Seq(Slabs)
    /\ Distinct(c)
    /\ \A s : In(s, c) => /\ s \in DOMAIN m /\ s \notin h
                          /\ m[s].nfree > 0 /\ m[s].nfree < HotFrom

\* sp is the spare slab.
SpareOK(m, h, sp) ==
    sp # NULL => sp \in DOMAIN m /\ sp \notin h /\ m[sp].nfree = objcount

\* Every slab with a free object is in one of the three places.
Reachable(m, h, c, sp) ==
    \A s \in DOMAIN m : m[s].nfree > 0 => s \in h \/ s = sp \/ In(s, c)

PoolOK(m, h, f, c, sp, o) ==
    /\ SlabsOK(m, o)
    /\ HotOK(m, h, f)
    /\ ColdOK(m, h, c)
    /\ SpareOK(m, h, sp)
    /\ Reachable(m, h, c, sp)

IInv == PoolOK(mslab, hot, first_hot, cold, spare, objects)

-----------------------------------------------------------------------------
\* A slab has room for an object behind its header (the assert in
\* mempool_create_with_order).
LEMMA CountPositive ==
    /\ objcount \in Nat \ {0}
    /\ objcount * objsize <= slab_size - mslab_sizeof
<1> DEFINE n == slab_size - mslab_sizeof
<1>1. n \in Nat /\ objsize \in Nat \ {0} /\ objsize <= n
  BY MempoolAssumption
<1> HIDE DEF n
<1>2. n \div objsize \in Nat
  BY <1>1, SMT
<1>3. (n \div objsize) * objsize <= n
  BY <1>1, <1>2, SMT
<1>4. (n \div objsize) # 0
  BY <1>1, <1>2, SMT
<1> QED
  BY <1>2, <1>3, <1>4 DEF objcount, n

\* objcount >> MAX_COLD_FRACTION_LB is no more than objcount.
LEMMA HotFromSmall == HotFrom \in Nat /\ HotFrom <= objcount
<1> DEFINE d == 2 ^ MAX_COLD_FRACTION_LB
<1>1. d \in Nat \ {0} /\ objcount \in Nat
  BY MempoolAssumption, CountPositive
<1> HIDE DEF d
<1>2. objcount \div d \in Nat /\ objcount \div d <= objcount
  BY <1>1, SMT
<1> QED
  BY <1>2 DEF HotFrom, d

\* A list without repetitions is no longer than the set it is taken from.
LEMMA Pigeons ==
    ASSUME NEW S, IsFiniteSet(S), NEW q \in Seq(S), Distinct(q)
    PROVE  Len(q) <= Cardinality(S)
<1>1. Len(q) \in Nat /\ q \in [1 .. Len(q) -> S]
  OBVIOUS
<1>2. q \in Injection(1 .. Len(q), S)
  BY <1>1 DEF Injection, IsInjective, Distinct
<1>3. Cardinality(1 .. Len(q)) <= Cardinality(S)
  BY <1>2, FS_Injection
<1>4. Cardinality(1 .. Len(q)) = Len(q)
  BY <1>1, FS_Interval
<1> QED
  BY <1>3, <1>4

\* Taking the first element off a list.
LEMMA TailRemoves ==
    ASSUME NEW S, NEW q \in Seq(S), q # <<>>, Distinct(q)
    PROVE  /\ Head(q) \in S /\ In(Head(q), q)
           /\ Tail(q) \in Seq(S) /\ Len(Tail(q)) = Len(q) - 1
           /\ Distinct(Tail(q))
           /\ \A k : In(k, Tail(q)) <=> In(k, q) /\ k # Head(q)
<1> DEFINE n == Len(q)
           r == Tail(q)
           h == Head(q)
<1>1. /\ n \in Nat /\ n >= 1 /\ r \in Seq(S) /\ Len(r) = n - 1 /\ h = q[1]
      /\ \A i \in 1 .. n - 1 : r[i] = q[i + 1]
      /\ \A i \in 1 .. n : q[i] \in S
  OBVIOUS
<1>2. \A i, j \in 1 .. n : q[i] = q[j] => i = j
  BY DEF Distinct
<1> SUFFICES /\ h \in S /\ In(h, q)
             /\ Distinct(r)
             /\ \A k : In(k, r) <=> In(k, q) /\ k # h
  BY <1>1
<1> HIDE DEF n, r, h
<1>3. h \in S /\ In(h, q)
  BY <1>1 DEF In, n
<1>4. Distinct(r)
  BY <1>1, <1>2 DEF Distinct
<1>5. ASSUME NEW k, In(k, r) PROVE In(k, q) /\ k # h
  <2>1. PICK i \in 1 .. n - 1 : r[i] = k
    BY <1>1, <1>5 DEF In
  <2>2. i + 1 \in 1 .. n /\ q[i + 1] = k /\ i + 1 # 1 /\ 1 \in 1 .. n
    BY <1>1, <2>1
  <2> QED
    BY <1>1, <1>2, <2>2 DEF In, n
<1>6. ASSUME NEW k, In(k, q), k # h PROVE In(k, r)
  <2>1. PICK i \in 1 .. n : q[i] = k
    BY <1>6 DEF In, n
  <2>2. i - 1 \in 1 .. n - 1 /\ r[i - 1] = k
    BY <1>1, <1>6, <2>1
  <2> QED
    BY <1>1, <2>2 DEF In
<1> QED
  BY <1>3, <1>4, <1>5, <1>6

\* Putting a new first element into a list.
LEMMA PrependAdds ==
    ASSUME NEW S, NEW q \in Seq(S), NEW p \in S, Distinct(q), ~In(p, q)
    PROVE  /\ <<p>> \o q \in Seq(S) /\ Len(<<p>> \o q) = Len(q) + 1
           /\ Distinct(<<p>> \o q)
           /\ \A k : In(k, <<p>> \o q) <=> In(k, q) \/ k = p
<1> DEFINE n == Len(q)
           r == <<p>> \o q
<1>1. /\ n \in Nat /\ r \in Seq(S) /\ Len(r) = n + 1 /\ r[1] = p
      /\ \A i \in 2 .. n + 1 : r[i] = q[i - 1]
  OBVIOUS
<1>2. /\ \A i, j \in 1 .. n : q[i] = q[j] => i = j
      /\ \A i \in 1 .. n : q[i] # p
  BY DEF Distinct, In
<1> SUFFICES Distinct(r) /\ \A k : In(k, r) <=> In(k, q) \/ k = p
  BY <1>1
<1> HIDE DEF n, r
<1>3. \A i \in 1 .. n + 1 : i = 1 \/ (i \in 2 .. n + 1 /\ i - 1 \in 1 .. n)
  BY <1>1
<1>4. ASSUME NEW i \in 1 .. n + 1, NEW j \in 1 .. n + 1, r[i] = r[j] PROVE i = j
  <2>1. CASE i = 1 \/ j = 1
    BY <1>1, <1>2, <1>3, <1>4, <2>1
  <2>2. CASE i # 1 /\ j # 1
    <3>1. i - 1 = j - 1
      BY <1>1, <1>2, <1>3, <1>4, <2>2
    <3> QED
      BY <3>1, <1>1
  <2> QED
    BY <2>1, <2>2
<1>5. Distinct(r)
  BY <1>1, <1>4 DEF Distinct
<1>6. ASSUME NEW k, In(k, r) PROVE In(k, q) \/ k = p
  <2>1. PICK i \in 1 .. n + 1 : r[i] = k
    BY <1>1, <1>6 DEF In
  <2> QED
    BY <1>1, <1>3, <2>1 DEF In, n
<1>7. ASSUME NEW k, In(k, q) PROVE In(k, r)
  <2>1. PICK i \in 1 .. n : q[i] = k
    BY <1>7 DEF In, n
  <2>2. i + 1 \in 2 .. n + 1 /\ i + 1 \in 1 .. n + 1 /\ (i + 1) - 1 = i
    BY <1>1, <2>1
  <2>3. r[i + 1] = k
    BY <1>1, <2>1, <2>2
  <2> QED
    BY <1>1, <2>2, <2>3 DEF In
<1>8. In(p, r)
  BY <1>1 DEF In
<1> QED
  BY <1>5, <1>6, <1>7, <1>8

\* nfree is at most objcount, and less if a caller has an object of the slab.
LEMMA NfreeBounded ==
    ASSUME NEW x, NEW s, NEW o, SlabOK(x, s, o)
    PROVE  /\ x.nfree \in 0 .. objcount
           /\ (\E p \in Places : <<s, p>> \in o) => x.nfree < objcount
<1> DEFINE q == x.free_list
           n == x.free_offset
<1>1. /\ q \in Seq(Places) /\ n \in 0 .. objcount /\ n \in Nat /\ Len(q) \in Nat
      /\ x.nfree = Len(q) + objcount - n /\ objcount \in Nat
      /\ Distinct(q)
      /\ \A k \in Places : In(k, q) => k < n
  BY CountPositive DEF SlabOK, Mslabs
<1> HIDE DEF q, n
<1>2. q \in Seq(0 .. n - 1)
  <2>1. \A i \in 1 .. Len(q) : q[i] \in Places /\ In(q[i], q)
    BY <1>1 DEF In
  <2>2. \A i \in 1 .. Len(q) : q[i] \in 0 .. n - 1
    BY <1>1, <2>1 DEF Places
  <2> QED
    BY <1>1, <2>2
<1>3. IsFiniteSet(0 .. n - 1) /\ Cardinality(0 .. n - 1) = n
  <2>1. 0 \in Int /\ n - 1 \in Int
    BY <1>1
  <2>2. /\ IsFiniteSet(0 .. n - 1)
        /\ Cardinality(0 .. n - 1) = IF 0 > n - 1 THEN 0 ELSE n - 1 - 0 + 1
    BY <2>1, FS_Interval
  <2> QED
    BY <1>1, <2>2
<1>4. Len(q) <= n
  BY <1>1, <1>2, <1>3, Pigeons
<1>5. ASSUME NEW p \in Places, <<s, p>> \in o PROVE Len(q) < n
  <2>1. p < n /\ ~In(p, q)
    BY <1>5 DEF SlabOK, q, n
  <2>2. p \in 0 .. n - 1 /\ \A i \in 1 .. Len(q) : q[i] # p
    BY <1>1, <2>1 DEF Places, In
  <2> DEFINE S == (0 .. n - 1) \ {p}
  <2>3. IsFiniteSet(S) /\ Cardinality(S) = n - 1
    <3>1. /\ IsFiniteSet(S)
          /\ Cardinality(S) = IF p \in 0 .. n - 1 THEN Cardinality(0 .. n - 1) - 1
                                                  ELSE Cardinality(0 .. n - 1)
      BY <1>3, FS_RemoveElement
    <3> QED
      BY <1>3, <2>2, <3>1
  <2>4. q \in Seq(S)
    BY <1>1, <1>2, <2>2
  <2> HIDE DEF S
  <2>5. Len(q) <= Cardinality(S)
    BY <1>1, <2>3, <2>4, Pigeons
  <2> QED
    BY <2>3, <2>5, <1>1
<1>6. x.nfree \in 0 .. objcount
  BY <1>1, <1>4
<1>7. ASSUME NEW p \in Places, <<s, p>> \in o PROVE x.nfree < objcount
  BY <1>1, <1>5, <1>7
<1> QED
  BY <1>6, <1>7

\* mslab_tree_next of the first slab is the first of the others.
LEMMA NextFirst ==
    ASSUME NEW tree, tree \subseteq Nat \ {0}, NEW s \in tree, \A x \in tree : s <= x
    PROVE  LET rest == tree \ {s}
               next == tree_next(tree, s)
           IN  /\ rest = {} => next = NULL
               /\ rest # {} => next \in rest /\ \A x \in rest : next <= x
<1> DEFINE above == {x \in tree : x > s}
<1>1. above = tree \ {s}
  <2>1. s \in Nat /\ \A x \in tree : x \in Nat /\ (x > s <=> x # s)
    OBVIOUS
  <2> QED
    BY <2>1
<1>2. CASE above = {}
  BY <1>1, <1>2 DEF tree_next
<1>3. CASE above # {}
  <2>1. \E x \in above : \A y \in above : x <= y
    BY <1>3, LeastExists
  <2>2. tree_next(tree, s) = CHOOSE x \in above : \A y \in above : x <= y
    BY <1>3 DEF tree_next
  <2> QED
    BY <1>1, <1>3, <2>1, <2>2
<1> QED
  BY <1>2, <1>3

\* rlist_del_entry takes the slab, and nothing else, out of the list.
LEMMA UnlinkRemoves ==
    ASSUME NEW S, NEW c \in Seq(S), NEW s, Distinct(c)
    PROVE  /\ Unlink(c, s) \in Seq(S)
           /\ Distinct(Unlink(c, s))
           /\ \A k : In(k, Unlink(c, s)) <=> In(k, c) /\ k # s
<1> DEFINE r == Unlink(c, s)
           n == Len(c)
<1>1. CASE ~In(s, c)
  <2>1. r = c
    BY <1>1 DEF Unlink, In
  <2> QED
    BY <1>1, <2>1
<1>2. CASE In(s, c)
  <2> DEFINE k == CHOOSE i \in 1 .. n : c[i] = s
  <2>1. k \in 1 .. n /\ c[k] = s
    BY <1>2 DEF In
  <2>2. r = [i \in 1 .. n - 1 |-> IF i < k THEN c[i] ELSE c[i + 1]]
    BY <1>2 DEF Unlink, In
  <2>3. /\ n \in Nat /\ \A i \in 1 .. n : c[i] \in S
        /\ \A i, j \in 1 .. n : c[i] = c[j] => i = j
    BY DEF Distinct
  <2> SUFFICES r \in Seq(S) /\ Distinct(r) /\ \A e : In(e, r) <=> In(e, c) /\ e # s
    OBVIOUS
  <2> HIDE DEF k, r
  <2>4. r \in Seq(S) /\ Len(r) = n - 1
    BY <2>1, <2>2, <2>3
  <2>5. \A i \in 1 .. n - 1 : r[i] = IF i < k THEN c[i] ELSE c[i + 1]
    BY <2>2
  <2>6. Distinct(r)
    <3>1. SUFFICES ASSUME NEW i \in 1 .. n - 1, NEW j \in 1 .. n - 1, r[i] = r[j]
                   PROVE  i = j
      BY <2>4 DEF Distinct
    <3> QED
      BY <2>1, <2>3, <2>5, <3>1
  <2>7. ASSUME NEW e, In(e, r) PROVE In(e, c) /\ e # s
    <3>1. PICK i \in 1 .. n - 1 : r[i] = e
      BY <2>4, <2>7 DEF In
    <3>2. PICK j \in 1 .. n : j # k /\ c[j] = e
      BY <2>1, <2>3, <2>5, <3>1
    <3> QED
      BY <2>1, <2>3, <3>2 DEF In
  <2>8. ASSUME NEW e, In(e, c), e # s PROVE In(e, r)
    <3>1. PICK j \in 1 .. n : c[j] = e
      BY <2>8 DEF In
    <3>2. CASE j < k
      <4>1. j \in 1 .. n - 1 /\ r[j] = e
        BY <2>1, <2>3, <2>5, <3>1, <3>2
      <4> QED
        BY <2>4, <4>1 DEF In
    <3>3. CASE j > k
      <4>1. j - 1 \in 1 .. n - 1 /\ r[j - 1] = e
        BY <2>1, <2>3, <2>5, <3>1, <3>3
      <4> QED
        BY <2>4, <4>1 DEF In
    <3> QED
      BY <2>1, <2>3, <2>8, <3>1, <3>2, <3>3
  <2> QED
    BY <2>4, <2>6, <2>7, <2>8
<1> QED
  BY <1>1, <1>2

-----------------------------------------------------------------------------
\* The object mslab_alloc takes from a slab, and the slab without it.
Taken(x) == IF x.free_list # <<>> THEN Head(x.free_list) ELSE x.free_offset
After(x) ==
    [nfree |-> x.nfree - 1,
     free_list |-> IF x.free_list # <<>> THEN Tail(x.free_list) ELSE <<>>,
     free_offset |-> IF x.free_list # <<>> THEN x.free_offset ELSE x.free_offset + 1,
     in_hot |-> ~(x.nfree = 1)]

\* mslab_alloc takes an object nobody has, and the slab still accounts for
\* all of its objects.
LEMMA TakeKeepsSlab ==
    ASSUME NEW x, NEW s, NEW o, SlabOK(x, s, o), x.nfree > 0
    PROVE  /\ Taken(x) \in Places
           /\ <<s, Taken(x)>> \notin o
           /\ SlabOK(After(x), s, o \cup {<<s, Taken(x)>>})
<1> DEFINE q == x.free_list
           n == x.free_offset
           p == Taken(x)
           y == After(x)
           o2 == o \cup {<<s, p>>}
<1>1. /\ q \in Seq(Places) /\ n \in 0 .. objcount /\ n \in Nat /\ Len(q) \in Nat
      /\ x.nfree \in Nat /\ x.nfree = Len(q) + objcount - n
      /\ Distinct(q)
      /\ \A k \in Places : In(k, q) => k < n
      /\ \A k \in Places : <<s, k>> \in o <=> k < n /\ ~In(k, q)
  BY CountPositive DEF SlabOK, Mslabs
<1>2. objcount \in Nat /\ Places = 0 .. objcount - 1
  BY CountPositive DEF Places
<1>3. \A k \in Places : <<s, k>> \in o2 <=> <<s, k>> \in o \/ k = p
  OBVIOUS
<1>4. /\ y.nfree = x.nfree - 1
      /\ y.free_list = IF q # <<>> THEN Tail(q) ELSE <<>>
      /\ y.free_offset = IF q # <<>> THEN n ELSE n + 1
  BY DEF After
<1>5. ASSUME y.nfree \in Nat, y.free_list \in Seq(Places), y.free_offset \in 0 .. objcount
      PROVE  y \in Mslabs
  BY <1>5 DEF After, Mslabs
<1>6. p = IF q # <<>> THEN Head(q) ELSE n
  BY DEF Taken
<1> SUFFICES /\ p \in Places
             /\ <<s, p>> \notin o
             /\ SlabOK(y, s, o2)
  OBVIOUS
<1> HIDE DEF q, n, p, y, o2
<1>7. CASE q # <<>>
  <2> DEFINE r == Tail(q)
  <2>1. y.free_list = r /\ y.free_offset = n /\ p = Head(q)
    BY <1>4, <1>6, <1>7
  <2>2. /\ p \in Places /\ In(p, q) /\ r \in Seq(Places) /\ Len(r) = Len(q) - 1 /\ Distinct(r)
        /\ \A k : In(k, r) <=> In(k, q) /\ k # p
    BY <1>1, <1>7, <2>1, TailRemoves
  <2> HIDE DEF r
  <2>3. y \in Mslabs /\ y.nfree = Len(r) + objcount - n
    BY <1>1, <1>2, <1>4, <1>5, <2>1, <2>2
  <2>4. p < n /\ <<s, p>> \notin o
    BY <1>1, <2>2
  <2>5. \A k \in Places : In(k, r) => k < n
    BY <1>1, <2>2
  <2>6. \A k \in Places : <<s, k>> \in o2 <=> k < n /\ ~In(k, r)
    BY <1>1, <1>3, <2>2, <2>4
  <2> QED
    BY <2>1, <2>2, <2>3, <2>4, <2>5, <2>6 DEF SlabOK
<1>8. CASE q = <<>>
  <2>1. Len(q) = 0 /\ p = n /\ y.free_list = q /\ y.free_offset = n + 1
    BY <1>4, <1>6, <1>8
  <2>2. n < objcount /\ p \in Places /\ <<s, p>> \notin o
    BY <1>1, <1>2, <2>1
  <2>3. y \in Mslabs /\ y.nfree = Len(q) + objcount - (n + 1)
    BY <1>1, <1>2, <1>4, <1>5, <2>1, <2>2
  <2>4. \A k \in Places : ~In(k, q)
    BY <2>1 DEF In
  <2>5. \A k \in Places : k < n + 1 <=> k < n \/ k = n
    BY <1>1, <1>2
  <2>6. \A k \in Places : <<s, k>> \in o2 <=> k < n + 1 /\ ~In(k, q)
    BY <1>1, <1>3, <2>1, <2>4, <2>5
  <2> QED
    BY <1>1, <2>1, <2>2, <2>3, <2>4, <2>6 DEF SlabOK
<1> QED
  BY <1>7, <1>8

\* The slab once mslab_free has put the object into the garbage list.
Given(x, p) == [x EXCEPT !.nfree = @ + 1, !.free_list = <<p>> \o @]

\* mslab_free puts the object into the garbage list, and the slab still
\* accounts for all of its objects.
LEMMA GiveKeepsSlab ==
    ASSUME NEW x, NEW s, NEW o, NEW p \in Places, SlabOK(x, s, o), <<s, p>> \in o
    PROVE  /\ SlabOK(Given(x, p), s, o \ {<<s, p>>})
           /\ Given(x, p).nfree = x.nfree + 1 /\ Given(x, p).in_hot = x.in_hot
<1> DEFINE q == x.free_list
           n == x.free_offset
           r == <<p>> \o q
           y == Given(x, p)
           o2 == o \ {<<s, p>>}
<1>1. /\ q \in Seq(Places) /\ n \in 0 .. objcount /\ n \in Nat /\ Len(q) \in Nat
      /\ x.nfree \in Nat /\ x.nfree = Len(q) + objcount - n
      /\ Distinct(q)
      /\ \A k \in Places : In(k, q) => k < n
      /\ \A k \in Places : <<s, k>> \in o <=> k < n /\ ~In(k, q)
  BY CountPositive DEF SlabOK, Mslabs
<1>2. objcount \in Nat /\ p < n /\ ~In(p, q)
  BY <1>1, CountPositive
<1>3. \A k \in Places : <<s, k>> \in o2 <=> <<s, k>> \in o /\ k # p
  OBVIOUS
<1>4. y.nfree = x.nfree + 1 /\ y.in_hot = x.in_hot /\ y.free_list = r /\ y.free_offset = n
  BY DEF SlabOK, Mslabs, Given
<1>5. ASSUME NEW l \in Seq(Places)
      PROVE  [x EXCEPT !.nfree = @ + 1, !.free_list = l] \in Mslabs
  <2>1. x \in Mslabs
    BY DEF SlabOK
  <2>2. x.nfree + 1 \in Nat
    BY <1>1
  <2> HIDE DEF q, n, r, y, o2
  <2> QED
    BY <2>1, <2>2 DEF Mslabs
<1>6. /\ r \in Seq(Places) /\ Len(r) = Len(q) + 1 /\ Distinct(r)
      /\ \A k : In(k, r) <=> In(k, q) \/ k = p
  BY <1>1, <1>2, PrependAdds
<1>7. y \in Mslabs
  <2>1. y = [x EXCEPT !.nfree = @ + 1, !.free_list = r]
    BY DEF Given
  <2> HIDE DEF r, y
  <2> QED
    BY <1>5, <1>6, <2>1
<1> SUFFICES SlabOK(y, s, o2)
  BY <1>4
<1> HIDE DEF q, n, r, y, o2
<1>8. y.nfree = Len(r) + objcount - n
  BY <1>1, <1>2, <1>4, <1>6
<1>9. \A k \in Places : In(k, r) => k < n
  BY <1>1, <1>2, <1>6
<1>10. \A k \in Places : <<s, k>> \in o2 <=> k < n /\ ~In(k, r)
  BY <1>1, <1>3, <1>6
<1> QED
  BY <1>4, <1>6, <1>7, <1>8, <1>9, <1>10 DEF SlabOK

\* A slab accounts for its objects whatever happens to those of other slabs.
LEMMA OtherSlab ==
    ASSUME NEW x, NEW s, NEW o, NEW o2, SlabOK(x, s, o),
           \A p \in Places : <<s, p>> \in o <=> <<s, p>> \in o2
    PROVE  SlabOK(x, s, o2)
BY DEF SlabOK

\* in_hot_slabs says nothing about objects.
LEMMA FlagKeepsSlab ==
    ASSUME NEW x, NEW s, NEW o, NEW b \in BOOLEAN, SlabOK(x, s, o)
    PROVE  LET y == [x EXCEPT !.in_hot = b]
           IN  SlabOK(y, s, o) /\ y.nfree = x.nfree /\ y.in_hot = b
<1> DEFINE y == [x EXCEPT !.in_hot = b]
<1>1. /\ y \in Mslabs /\ y.nfree = x.nfree /\ y.free_list = x.free_list
      /\ y.free_offset = x.free_offset /\ y.in_hot = b
  BY DEF SlabOK, Mslabs
<1> HIDE DEF y
<1>2. SlabOK(y, s, o)
  BY <1>1 DEF SlabOK
<1> QED
  BY <1>1, <1>2 DEF y

-----------------------------------------------------------------------------
\* A new object is given out and counted; D are the slabs of the pool.
Gives(D) ==
    /\ \E e : e \notin objects /\ objects' = objects \cup {e}
    /\ used' = used + objsize
    /\ DOMAIN mslab' = D

\* mslab_alloc from s, which is the first slab of the tree, keeps the pool
\* in order, wherever mempool_alloc has taken s from.
LEMMA AllocStep ==
    ASSUME NEW s, NEW m, NEW tree, NEW c, NEW sp,
           s \in tree, PoolOK(m, tree, s, c, sp, objects),
           mslab_alloc(s, m, tree), cold' = c, spare' = sp
    PROVE  IInv' /\ Gives(DOMAIN m)
<1> DEFINE x == m[s]
           y == After(x)
           p == Taken(x)
           o2 == objects \cup {<<s, p>>}
           m2 == [m EXCEPT ![s] = y]
           h2 == IF x.nfree = 1 THEN tree \ {s} ELSE tree
           f2 == IF x.nfree = 1 THEN tree_next(tree, s) ELSE s
<1>1. /\ s \in DOMAIN m /\ SlabOK(x, s, objects) /\ x.nfree > 0
      /\ tree \subseteq DOMAIN m /\ DOMAIN m \subseteq Slabs
      /\ \A t \in tree : s <= t
  BY DEF PoolOK, SlabsOK, HotOK
<1>2. x.nfree \in Nat
  BY <1>1 DEF SlabOK, Mslabs
<1>3. p \in Places /\ <<s, p>> \notin objects /\ SlabOK(y, s, o2)
  BY <1>1, TakeKeepsSlab
<1>4. mslab' = m2 /\ hot' = h2 /\ first_hot' = f2 /\ objects' = o2
  BY DEF mslab_alloc, After, Taken
<1>5. y.nfree = x.nfree - 1 /\ (y.in_hot <=> x.nfree # 1)
  BY DEF After
<1>6. /\ DOMAIN m2 = DOMAIN m /\ m2[s] = y
      /\ \A t \in DOMAIN m \ {s} : m2[t] = m[t]
      /\ IsFunction(m2)
  BY <1>1 DEF IsFunction
<1> HIDE DEF x, y, p, m2
<1>7. SlabsOK(m2, o2)
  <2>1. ASSUME NEW t \in DOMAIN m, t # s PROVE SlabOK(m2[t], t, o2)
    <3>1. SlabOK(m[t], t, objects) /\ m2[t] = m[t]
      BY <1>6, <2>1 DEF PoolOK, SlabsOK
    <3>2. \A k \in Places : <<t, k>> \in objects <=> <<t, k>> \in o2
      BY <2>1
    <3> QED
      BY <3>1, <3>2, OtherSlab
  <2>2. o2 \subseteq (DOMAIN m2) \X Places
    <3>1. objects \subseteq (DOMAIN m) \X Places /\ <<s, p>> \in (DOMAIN m) \X Places
      BY <1>1, <1>3 DEF PoolOK, SlabsOK
    <3> QED
      BY <1>6, <3>1
  <2> QED
    BY <1>1, <1>3, <1>6, <2>1, <2>2 DEF SlabsOK
<1> HIDE DEF o2
<1>8. HotOK(m2, h2, f2)
  <2>1. h2 \subseteq DOMAIN m2 /\ \A t \in h2 : m2[t].nfree > 0
    BY <1>1, <1>2, <1>5, <1>6 DEF PoolOK, HotOK
  <2>2. ASSUME NEW t \in DOMAIN m2 PROVE m2[t].in_hot <=> t \in h2
    <3>1. CASE t = s
      BY <1>5, <1>6, <3>1
    <3>2. CASE t # s
      <4>1. m2[t] = m[t] /\ (t \in h2 <=> t \in tree)
        BY <1>6, <3>2
      <4>2. m[t].in_hot <=> t \in tree
        BY <1>6 DEF PoolOK, HotOK
      <4> QED
        BY <4>1, <4>2
    <3> QED
      BY <3>1, <3>2
  <2>3. /\ h2 = {} => f2 = NULL
        /\ h2 # {} => f2 \in h2 /\ \A t \in h2 : f2 <= t
    <3>1. tree \subseteq Nat \ {0}
      BY <1>1, MempoolAssumption
    <3>2. CASE x.nfree = 1
      BY <1>1, <3>1, <3>2, NextFirst
    <3>3. CASE x.nfree # 1
      BY <1>1, <3>3
    <3> QED
      BY <3>2, <3>3
  <2> QED
    BY <2>1, <2>2, <2>3 DEF HotOK
<1>9. ColdOK(m2, h2, c)
  BY <1>6 DEF PoolOK, ColdOK
<1>10. SpareOK(m2, h2, sp)
  BY <1>6 DEF PoolOK, SpareOK
<1>11. Reachable(m2, h2, c, sp)
  <2>1. SUFFICES ASSUME NEW t \in DOMAIN m, m2[t].nfree > 0
                 PROVE  t \in h2 \/ t = sp \/ In(t, c)
    BY <1>6 DEF Reachable
  <2>2. CASE t = s
    BY <1>2, <1>5, <1>6, <2>1, <2>2
  <2>3. CASE t # s
    BY <1>6, <2>1, <2>3 DEF PoolOK, Reachable
  <2> QED
    BY <2>2, <2>3
<1>12. PoolOK(m2, h2, f2, c, sp, o2)
  BY <1>7, <1>8, <1>9, <1>10, <1>11 DEF PoolOK
<1>13. IInv'
  BY <1>4, <1>12 DEF IInv
<1>14. used' = used + objsize
  BY DEF mslab_alloc
<1>15. Gives(DOMAIN m)
  BY <1>3, <1>4, <1>6, <1>14 DEF Gives, o2
<1> QED
  BY <1>13, <1>15

\* A pool without slabs is in order.
LEMMA EmptyPool == PoolOK(<<>>, {}, NULL, <<>>, NULL, {})
<1>1. SlabsOK(<<>>, {})
  BY DEF SlabsOK, IsFunction
<1>2. HotOK(<<>>, {}, NULL)
  BY DEF HotOK
<1>3. ColdOK(<<>>, {}, <<>>)
  BY DEF ColdOK, Distinct, In
<1> QED
  BY <1>1, <1>2, <1>3 DEF PoolOK, SpareOK, Reachable

\* While there is no first hot slab the tree is empty.
LEMMA NoFirst == ASSUME IInv, first_hot = NULL PROVE hot = {}
BY MempoolAssumption DEF IInv, PoolOK, SlabsOK, HotOK, NULL

\* mempool_alloc puts the spare slab or a cold one into the empty tree.
LEMMA Promote ==
    ASSUME IInv, hot = {}, NEW s \in InPool, mslab[s].nfree > 0,
           NEW c \in Seq(Slabs), Distinct(c), \A k : In(k, c) <=> In(k, cold) /\ k # s,
           NEW sp, sp = IF spare = s THEN NULL ELSE spare
    PROVE  PoolOK([mslab EXCEPT ![s].in_hot = TRUE], hot \cup {s}, s, c, sp, objects)
<1> DEFINE y == [mslab[s] EXCEPT !.in_hot = TRUE]
           m2 == [mslab EXCEPT ![s].in_hot = TRUE]
           h2 == hot \cup {s}
<1>1. SlabsOK(mslab, objects) /\ HotOK(mslab, hot, first_hot)
      /\ ColdOK(mslab, hot, cold) /\ SpareOK(mslab, hot, spare)
      /\ Reachable(mslab, hot, cold, spare)
  BY DEF IInv, PoolOK
<1>2. s \in DOMAIN mslab /\ s \in Nat \ {0}
  BY <1>1, MempoolAssumption DEF InPool, SlabsOK
<1>3. SlabOK(y, s, objects) /\ y.nfree = mslab[s].nfree /\ y.in_hot = TRUE
  <2>1. SlabOK(mslab[s], s, objects)
    BY <1>1, <1>2 DEF SlabsOK
  <2> QED
    BY <2>1, FlagKeepsSlab
<1>4. /\ DOMAIN m2 = DOMAIN mslab /\ m2[s] = y
      /\ \A t \in DOMAIN mslab \ {s} : m2[t] = mslab[t]
      /\ IsFunction(m2)
  BY <1>2 DEF IsFunction
<1> HIDE DEF y, m2
<1>5. SlabsOK(m2, objects)
  <2>1. ASSUME NEW t \in DOMAIN mslab PROVE SlabOK(m2[t], t, objects)
    <3>1. SlabOK(mslab[t], t, objects)
      BY <1>1 DEF SlabsOK
    <3> QED
      BY <1>3, <1>4, <3>1
  <2> QED
    BY <1>1, <1>4, <2>1 DEF SlabsOK
<1>6. HotOK(m2, h2, s)
  <2>1. ASSUME NEW t \in DOMAIN m2 PROVE m2[t].in_hot <=> t \in h2
    <3>1. CASE t = s
      BY <1>3, <1>4, <3>1
    <3>2. CASE t # s
      BY <1>1, <1>4, <3>2 DEF HotOK
    <3> QED
      BY <3>1, <3>2
  <2>2. \A t \in h2 : t = s
    OBVIOUS
  <2>3. h2 # {} /\ s \in h2 /\ s <= s
    BY <1>2
  <2> QED
    BY <1>2, <1>3, <1>4, <2>1, <2>2, <2>3 DEF HotOK
<1>7. ColdOK(m2, h2, c)
  BY <1>1, <1>4 DEF ColdOK
<1>8. SpareOK(m2, h2, sp)
  BY <1>1, <1>4 DEF SpareOK
<1>9. Reachable(m2, h2, c, sp)
  BY <1>1, <1>4 DEF Reachable
<1>10. PoolOK(m2, h2, s, c, sp, objects)
  BY <1>5, <1>6, <1>7, <1>8, <1>9 DEF PoolOK
<1> QED
  BY <1>10 DEF m2

\* mempool_alloc keeps the pool in order when it has a hot slab ...
LEMMA AllocHotIInv == ASSUME IInv, AllocHot PROVE IInv' /\ Gives(DOMAIN mslab)
<1>1. first_hot \in hot
  BY DEF IInv, PoolOK, HotOK, AllocHot
<1>2. PoolOK(mslab, hot, first_hot, cold, spare, objects)
  BY DEF IInv
<1>3. mslab_alloc(first_hot, mslab, hot) /\ cold' = cold /\ spare' = spare
  BY DEF AllocHot
<1> QED
  BY <1>1, <1>2, <1>3, AllocStep

\* ... when it takes the spare ...
LEMMA AllocSpareIInv == ASSUME IInv, AllocSpare PROVE IInv' /\ Gives(DOMAIN mslab)
<1> DEFINE m2 == [mslab EXCEPT ![spare].in_hot = TRUE]
           h2 == hot \cup {spare}
<1>1. hot = {} /\ spare # NULL
  BY NoFirst DEF AllocSpare
<1>2. spare \in InPool /\ mslab[spare].nfree = objcount /\ objcount > 0
  BY <1>1, CountPositive DEF IInv, PoolOK, SpareOK, InPool
<1>3. cold \in Seq(Slabs) /\ Distinct(cold) /\ \A k : In(k, cold) => k # spare
  BY <1>2, CountPositive, HotFromSmall DEF IInv, PoolOK, ColdOK
<1>4. PoolOK(m2, h2, spare, cold, NULL, objects)
  BY <1>1, <1>2, <1>3, Promote
<1>5. mslab_alloc(spare, m2, h2) /\ cold' = cold /\ spare' = NULL
  BY DEF AllocSpare
<1>6. DOMAIN m2 = DOMAIN mslab
  OBVIOUS
<1> HIDE DEF m2
<1>7. IInv' /\ Gives(DOMAIN m2)
  BY <1>4, <1>5, AllocStep
<1> QED
  BY <1>6, <1>7

\* ... when slab_get_with_order gives it a slab ...
LEMMA AllocNewSlabIInv ==
    ASSUME IInv, NEW s \in Slabs, AllocNewSlab(s)
    PROVE  IInv' /\ Gives(DOMAIN mslab \cup {s})
<1> DEFINE y == [mslab_create EXCEPT !.in_hot = TRUE]
           m2 == [t \in InPool \cup {s} |-> IF t = s THEN y ELSE mslab[t]]
           h2 == hot \cup {s}
<1>1. hot = {} /\ spare = NULL /\ s \notin DOMAIN mslab
  BY NoFirst DEF AllocNewSlab, InPool
<1>2. SlabsOK(mslab, objects) /\ HotOK(mslab, hot, first_hot)
      /\ ColdOK(mslab, hot, cold) /\ Reachable(mslab, hot, cold, spare)
  BY DEF IInv, PoolOK
<1>3. s \in Nat \ {0}
  BY MempoolAssumption
<1>4. /\ y.nfree = objcount /\ y.free_list = <<>> /\ y.free_offset = 0 /\ y.in_hot = TRUE
      /\ y \in Mslabs
  <2>1. y.nfree = objcount /\ y.free_list = <<>> /\ y.free_offset = 0 /\ y.in_hot = TRUE
    BY DEF mslab_create
  <2>2. objcount \in Nat /\ 0 \in 0 .. objcount /\ <<>> \in Seq(Places)
    BY CountPositive
  <2>3. mslab_create \in Mslabs
    BY <2>2 DEF mslab_create, Mslabs
  <2>4. y \in Mslabs
    BY <2>3 DEF Mslabs
  <2> QED
    BY <2>1, <2>4
<1>5. /\ DOMAIN m2 = DOMAIN mslab \cup {s} /\ m2[s] = y
      /\ \A t \in DOMAIN mslab : m2[t] = mslab[t]
      /\ IsFunction(m2)
  BY <1>1 DEF InPool, IsFunction
<1>6. mslab_alloc(s, m2, h2) /\ cold' = cold /\ spare' = spare
  BY DEF AllocNewSlab
<1> HIDE DEF y, m2
<1>7. SlabsOK(m2, objects)
  <2>1. \A k \in Places : <<s, k>> \notin objects /\ ~(k < 0)
    <3>1. objects \subseteq (DOMAIN mslab) \X Places
      BY <1>2 DEF SlabsOK
    <3>2. \A k \in Places : k \in Nat
      BY CountPositive DEF Places
    <3> QED
      BY <1>1, <3>1, <3>2
  <2>2. Distinct(y.free_list) /\ (\A k : ~In(k, y.free_list)) /\ Len(y.free_list) = 0
    BY <1>4 DEF Distinct, In
  <2>3. SlabOK(y, s, objects)
    BY <1>4, <2>1, <2>2, CountPositive DEF SlabOK
  <2>4. objects \subseteq (DOMAIN m2) \X Places
    BY <1>2, <1>5 DEF SlabsOK
  <2>5. ASSUME NEW t \in DOMAIN m2 PROVE SlabOK(m2[t], t, objects)
    <3>1. t \in DOMAIN mslab => SlabOK(mslab[t], t, objects)
      BY <1>2 DEF SlabsOK
    <3> QED
      BY <1>5, <2>3, <3>1
  <2>6. DOMAIN m2 \subseteq Slabs
    BY <1>2, <1>5 DEF SlabsOK
  <2> QED
    BY <1>5, <2>4, <2>5, <2>6 DEF SlabsOK
<1>8. HotOK(m2, h2, s)
  <2>1. ASSUME NEW t \in DOMAIN m2 PROVE m2[t].in_hot <=> t \in h2
    <3>1. CASE t = s
      BY <1>4, <1>5, <3>1
    <3>2. CASE t # s
      BY <1>2, <1>5, <3>2 DEF HotOK
    <3> QED
      BY <3>1, <3>2
  <2>2. \A t \in h2 : t = s
    BY <1>1
  <2>3. h2 # {} /\ s \in h2 /\ s <= s
    BY <1>3
  <2> QED
    BY <1>4, <1>5, <2>1, <2>2, <2>3, CountPositive DEF HotOK
<1>9. ColdOK(m2, h2, cold)
  BY <1>1, <1>2, <1>5 DEF ColdOK
<1>10. SpareOK(m2, h2, spare) /\ Reachable(m2, h2, cold, spare)
  BY <1>1, <1>2, <1>5 DEF SpareOK, Reachable
<1>11. PoolOK(m2, h2, s, cold, spare, objects)
  BY <1>7, <1>8, <1>9, <1>10 DEF PoolOK
<1>12. IInv' /\ Gives(DOMAIN m2)
  BY <1>6, <1>11, AllocStep
<1> QED
  BY <1>5, <1>12

\* ... and when it falls back to a cold slab.
LEMMA AllocColdIInv == ASSUME IInv, AllocCold PROVE IInv' /\ Gives(DOMAIN mslab)
<1> DEFINE s == Head(cold)
           c == Tail(cold)
           m2 == [mslab EXCEPT ![s].in_hot = TRUE]
           h2 == hot \cup {s}
<1>1. hot = {} /\ spare = NULL /\ cold # <<>>
  BY NoFirst DEF AllocCold
<1>2. cold \in Seq(Slabs) /\ Distinct(cold)
  BY DEF IInv, PoolOK, ColdOK
<1>3. /\ In(s, cold) /\ c \in Seq(Slabs) /\ Distinct(c)
      /\ \A k : In(k, c) <=> In(k, cold) /\ k # s
  BY <1>1, <1>2, TailRemoves
<1>4. mslab_alloc(s, m2, h2) /\ cold' = c /\ spare' = spare
  BY DEF AllocCold
<1> HIDE DEF s, c
<1>5. s \in InPool /\ mslab[s].nfree > 0 /\ s # NULL
  BY <1>3, MempoolAssumption DEF IInv, PoolOK, SlabsOK, ColdOK, InPool, NULL
<1>6. spare = IF spare = s THEN NULL ELSE spare
  BY <1>1
<1>7. PoolOK(m2, h2, s, c, spare, objects)
  BY <1>1, <1>3, <1>5, <1>6, Promote
<1>8. DOMAIN m2 = DOMAIN mslab
  OBVIOUS
<1> HIDE DEF m2
<1>9. IInv' /\ Gives(DOMAIN m2)
  BY <1>4, <1>7, AllocStep
<1> QED
  BY <1>8, <1>9

-----------------------------------------------------------------------------
\* What mempool_free finds: the object's slab is not the spare, and once the
\* object is in the garbage list the slab accounts for it.
LEMMA FreeFacts ==
    ASSUME IInv, NEW s, NEW p, <<s, p>> \in objects
    PROVE  /\ s \in DOMAIN mslab /\ p \in Places /\ s # spare /\ s \in Nat \ {0}
           /\ mslab[s].nfree \in Nat /\ mslab[s].nfree < objcount
           /\ SlabOK(Freed(s, p), s, objects \ {<<s, p>>})
           /\ Freed(s, p).nfree = mslab[s].nfree + 1
           /\ Freed(s, p).in_hot = mslab[s].in_hot
<1>1. SlabsOK(mslab, objects) /\ SpareOK(mslab, hot, spare)
  BY DEF IInv, PoolOK
<1>2. s \in DOMAIN mslab /\ p \in Places /\ DOMAIN mslab \subseteq Slabs
  BY <1>1 DEF SlabsOK
<1>3. SlabOK(mslab[s], s, objects)
  BY <1>1, <1>2 DEF SlabsOK
<1>4. mslab[s].nfree \in 0 .. objcount /\ mslab[s].nfree < objcount
  BY <1>2, <1>3, NfreeBounded
<1>5. s # spare /\ s \in Nat \ {0} /\ mslab[s].nfree \in Nat
  <2>1. s \in Nat \ {0}
    BY <1>2, MempoolAssumption
  <2>2. s = spare => mslab[s].nfree = objcount
    BY <1>1, <2>1 DEF SpareOK, NULL
  <2>3. objcount \in Nat
    BY CountPositive
  <2> QED
    BY <1>4, <2>1, <2>2, <2>3
<1>6. /\ SlabOK(Freed(s, p), s, objects \ {<<s, p>>})
      /\ Freed(s, p).nfree = mslab[s].nfree + 1
      /\ Freed(s, p).in_hot = mslab[s].in_hot
  <2>1. Freed(s, p) = Given(mslab[s], p)
    BY DEF Freed, Given
  <2> QED
    BY <1>2, <1>3, <2>1, GiveKeepsSlab
<1> QED
  BY <1>2, <1>4, <1>5, <1>6

\* Changing one slab so that it accounts for the objects left.
LEMMA FreeSlabs ==
    ASSUME IInv, NEW s, NEW p, <<s, p>> \in objects, NEW y,
           SlabOK(y, s, objects \ {<<s, p>>})
    PROVE  LET m2 == [mslab EXCEPT ![s] = y]
           IN  /\ SlabsOK(m2, objects \ {<<s, p>>})
               /\ DOMAIN m2 = DOMAIN mslab /\ m2[s] = y
               /\ \A t \in DOMAIN mslab \ {s} : m2[t] = mslab[t]
<1> DEFINE m2 == [mslab EXCEPT ![s] = y]
           o2 == objects \ {<<s, p>>}
<1>1. SlabsOK(mslab, objects)
  BY DEF IInv, PoolOK
<1>2. s \in DOMAIN mslab /\ DOMAIN mslab \subseteq Slabs /\ o2 \subseteq (DOMAIN mslab) \X Places
  BY <1>1 DEF SlabsOK
<1>3. /\ DOMAIN m2 = DOMAIN mslab /\ m2[s] = y
      /\ \A t \in DOMAIN mslab \ {s} : m2[t] = mslab[t]
      /\ IsFunction(m2)
  BY <1>2 DEF IsFunction
<1> HIDE DEF m2
<1>4. ASSUME NEW t \in DOMAIN mslab PROVE SlabOK(m2[t], t, o2)
  <2>1. CASE t = s
    BY <1>3, <2>1
  <2>2. CASE t # s
    <3>1. SlabOK(mslab[t], t, objects)
      BY <1>1 DEF SlabsOK
    <3>2. \A k \in Places : <<t, k>> \in objects <=> <<t, k>> \in o2
      BY <2>2
    <3> QED
      BY <1>3, <2>2, <3>1, <3>2, OtherSlab
  <2> QED
    BY <2>1, <2>2
<1>5. SlabsOK(m2, o2)
  BY <1>2, <1>3, <1>4 DEF SlabsOK
<1> QED
  BY <1>3, <1>5 DEF m2

\* A slab that turns hot when an object of it is freed.
LEMMA FreeToHotIInv ==
    ASSUME IInv, NEW s, NEW p, <<s, p>> \in objects, FreeToHot(s, p),
           objects' = objects \ {<<s, p>>}
    PROVE  IInv'
<1> DEFINE y == [Freed(s, p) EXCEPT !.in_hot = TRUE]
           m2 == [mslab EXCEPT ![s] = y]
           o2 == objects \ {<<s, p>>}
           h2 == hot \cup {s}
           c2 == Unlink(cold, s)
           f2 == IF first_hot = NULL \/ first_hot > s THEN s ELSE first_hot
<1>1. /\ SlabsOK(mslab, objects) /\ HotOK(mslab, hot, first_hot)
      /\ ColdOK(mslab, hot, cold) /\ SpareOK(mslab, hot, spare)
      /\ Reachable(mslab, hot, cold, spare)
  BY DEF IInv, PoolOK
<1>2. /\ s \in DOMAIN mslab /\ s # spare /\ s \in Nat \ {0} /\ mslab[s].nfree \in Nat
      /\ SlabOK(Freed(s, p), s, o2) /\ Freed(s, p).nfree = mslab[s].nfree + 1
  BY FreeFacts
<1>3. SlabOK(y, s, o2) /\ y.nfree = mslab[s].nfree + 1 /\ y.in_hot = TRUE
  BY <1>2, FlagKeepsSlab
<1>4. /\ mslab' = m2 /\ hot' = h2 /\ first_hot' = f2 /\ cold' = c2 /\ spare' = spare
  BY DEF FreeToHot
<1> HIDE DEF y
<1>5. /\ SlabsOK(m2, o2) /\ DOMAIN m2 = DOMAIN mslab /\ m2[s] = y
      /\ \A t \in DOMAIN mslab \ {s} : m2[t] = mslab[t]
  BY <1>3, FreeSlabs
<1>6. c2 \in Seq(Slabs) /\ Distinct(c2) /\ \A k : In(k, c2) <=> In(k, cold) /\ k # s
  BY <1>1, UnlinkRemoves DEF ColdOK
<1> HIDE DEF m2, c2, o2
<1>7. HotOK(m2, h2, f2)
  <2>1. ASSUME NEW t \in DOMAIN m2 PROVE m2[t].in_hot <=> t \in h2
    <3>1. CASE t = s
      BY <1>3, <1>5, <3>1
    <3>2. CASE t # s
      BY <1>1, <1>5, <3>2 DEF HotOK
    <3> QED
      BY <3>1, <3>2
  <2>2. h2 \subseteq DOMAIN m2 /\ \A t \in h2 : m2[t].nfree > 0
    BY <1>1, <1>2, <1>3, <1>5 DEF HotOK
  <2>3. f2 \in h2 /\ \A t \in h2 : f2 <= t
    <3>1. hot \subseteq Nat \ {0}
      BY <1>1, MempoolAssumption DEF HotOK, SlabsOK
    <3> QED
      BY <1>1, <1>2, <3>1 DEF HotOK, NULL
  <2> QED
    BY <2>1, <2>2, <2>3 DEF HotOK
<1>8. ColdOK(m2, h2, c2)
  BY <1>1, <1>5, <1>6 DEF ColdOK
<1>9. SpareOK(m2, h2, spare)
  BY <1>1, <1>2, <1>5 DEF SpareOK
<1>10. Reachable(m2, h2, c2, spare)
  BY <1>1, <1>5, <1>6 DEF Reachable
<1>11. PoolOK(m2, h2, f2, c2, spare, o2)
  BY <1>5, <1>7, <1>8, <1>9, <1>10 DEF PoolOK
<1> QED
  BY <1>4, <1>11 DEF IInv, o2

\* A slab that was full and turns cold.
LEMMA FreeToColdIInv ==
    ASSUME IInv, NEW s, NEW p, <<s, p>> \in objects, FreeToCold(s, p),
           objects' = objects \ {<<s, p>>}
    PROVE  IInv'
<1> DEFINE y == Freed(s, p)
           m2 == [mslab EXCEPT ![s] = y]
           o2 == objects \ {<<s, p>>}
           c2 == <<s>> \o cold
<1>1. /\ SlabsOK(mslab, objects) /\ HotOK(mslab, hot, first_hot)
      /\ ColdOK(mslab, hot, cold) /\ SpareOK(mslab, hot, spare)
      /\ Reachable(mslab, hot, cold, spare)
  BY DEF IInv, PoolOK
<1>2. /\ s \in DOMAIN mslab /\ s # spare /\ s \in Slabs /\ mslab[s].nfree \in Nat
      /\ SlabOK(y, s, o2) /\ y.nfree = mslab[s].nfree + 1 /\ y.in_hot = mslab[s].in_hot
  BY <1>1, FreeFacts DEF SlabsOK
<1>3. /\ mslab' = m2 /\ hot' = hot /\ first_hot' = first_hot /\ cold' = c2 /\ spare' = spare
  BY DEF FreeToCold
<1>4. mslab[s].nfree = 0 /\ s \notin hot /\ ~In(s, cold) /\ y.nfree = 1 /\ 1 < HotFrom
  <2>1. mslab[s].nfree = 0 /\ y.nfree = 1
    BY <1>2 DEF FreeToCold
  <2>2. s \notin hot /\ ~In(s, cold)
    BY <1>1, <2>1 DEF HotOK, ColdOK
  <2>3. ~mslab[s].in_hot
    BY <1>1, <1>2, <2>2 DEF HotOK
  <2>4. ~(1 >= HotFrom)
    BY <2>1, <2>3 DEF FreeToCold, TurnsHot
  <2>5. HotFrom \in Nat
    BY HotFromSmall
  <2>6. 1 < HotFrom
    BY <2>4, <2>5
  <2> QED
    BY <2>1, <2>2, <2>6
<1> HIDE DEF y
<1>5. /\ SlabsOK(m2, o2) /\ DOMAIN m2 = DOMAIN mslab /\ m2[s] = y
      /\ \A t \in DOMAIN mslab \ {s} : m2[t] = mslab[t]
  BY <1>2, FreeSlabs
<1>6. c2 \in Seq(Slabs) /\ Distinct(c2) /\ \A k : In(k, c2) <=> In(k, cold) \/ k = s
  BY <1>1, <1>2, <1>4, PrependAdds DEF ColdOK
<1> HIDE DEF m2, c2, o2
<1>7. HotOK(m2, hot, first_hot)
  <2>1. ASSUME NEW t \in DOMAIN m2 PROVE m2[t].in_hot <=> t \in hot
    BY <1>1, <1>2, <1>5 DEF HotOK
  <2> QED
    BY <1>1, <1>4, <1>5, <2>1 DEF HotOK
<1>8. ColdOK(m2, hot, c2)
  <2>1. \A t : In(t, cold) => /\ t \in DOMAIN mslab /\ t \notin hot
                             /\ mslab[t].nfree > 0 /\ mslab[t].nfree < HotFrom
    BY <1>1 DEF ColdOK
  <2>2. ASSUME NEW t, In(t, c2)
        PROVE  t \in DOMAIN m2 /\ t \notin hot /\ m2[t].nfree > 0 /\ m2[t].nfree < HotFrom
    <3>1. CASE t = s
      BY <1>2, <1>4, <1>5, <3>1
    <3>2. CASE t # s
      <4>1. In(t, cold)
        BY <1>6, <2>2, <3>2
      <4> QED
        BY <1>5, <2>1, <3>2, <4>1
    <3> QED
      BY <3>1, <3>2
  <2> QED
    BY <1>6, <2>2 DEF ColdOK
<1>9. SpareOK(m2, hot, spare)
  BY <1>1, <1>2, <1>5 DEF SpareOK
<1>10. Reachable(m2, hot, c2, spare)
  BY <1>1, <1>5, <1>6 DEF Reachable
<1>11. PoolOK(m2, hot, first_hot, c2, spare, o2)
  BY <1>5, <1>7, <1>8, <1>9, <1>10 DEF PoolOK
<1> QED
  BY <1>3, <1>11 DEF IInv, o2

\* A slab that stays where it is.
LEMMA FreeOtherIInv ==
    ASSUME IInv, NEW s, NEW p, <<s, p>> \in objects, FreeOther(s, p),
           objects' = objects \ {<<s, p>>}
    PROVE  IInv'
<1> DEFINE y == Freed(s, p)
           m2 == [mslab EXCEPT ![s] = y]
           o2 == objects \ {<<s, p>>}
<1>1. /\ SlabsOK(mslab, objects) /\ HotOK(mslab, hot, first_hot)
      /\ ColdOK(mslab, hot, cold) /\ SpareOK(mslab, hot, spare)
      /\ Reachable(mslab, hot, cold, spare)
  BY DEF IInv, PoolOK
<1>2. /\ s \in DOMAIN mslab /\ s # spare /\ mslab[s].nfree \in Nat
      /\ SlabOK(y, s, o2) /\ y.nfree = mslab[s].nfree + 1 /\ y.in_hot = mslab[s].in_hot
  BY FreeFacts
<1>3. /\ mslab' = m2 /\ hot' = hot /\ first_hot' = first_hot /\ cold' = cold /\ spare' = spare
  BY DEF FreeOther
<1>4. mslab[s].nfree > 0 /\ (s \notin hot => y.nfree < HotFrom)
  <2>1. mslab[s].nfree > 0
    BY <1>2 DEF FreeOther
  <2>2. mslab[s].in_hot \/ ~(mslab[s].nfree + 1 >= HotFrom)
    BY DEF FreeOther, TurnsHot
  <2>3. mslab[s].in_hot <=> s \in hot
    BY <1>1, <1>2 DEF HotOK
  <2> QED
    BY <1>2, <2>1, <2>2, <2>3, HotFromSmall
<1> HIDE DEF y
<1>5. /\ SlabsOK(m2, o2) /\ DOMAIN m2 = DOMAIN mslab /\ m2[s] = y
      /\ \A t \in DOMAIN mslab \ {s} : m2[t] = mslab[t]
  BY <1>2, FreeSlabs
<1> HIDE DEF m2, o2
<1>6. HotOK(m2, hot, first_hot)
  <2>1. ASSUME NEW t \in DOMAIN m2 PROVE m2[t].in_hot <=> t \in hot
    BY <1>1, <1>2, <1>5 DEF HotOK
  <2>2. ASSUME NEW t \in hot PROVE m2[t].nfree > 0
    <3>1. t \in DOMAIN mslab /\ mslab[t].nfree > 0
      BY <1>1 DEF HotOK
    <3>2. CASE t = s
      BY <1>2, <1>5, <3>2
    <3>3. CASE t # s
      BY <1>5, <3>1, <3>3
    <3> QED
      BY <3>2, <3>3
  <2>3. /\ hot \subseteq DOMAIN mslab
        /\ hot = {} => first_hot = NULL
        /\ hot # {} => first_hot \in hot /\ \A t \in hot : first_hot <= t
    BY <1>1 DEF HotOK
  <2> QED
    BY <1>5, <2>1, <2>2, <2>3 DEF HotOK
<1>7. ColdOK(m2, hot, cold)
  <2>1. /\ cold \in Seq(Slabs) /\ Distinct(cold)
        /\ \A t : In(t, cold) => /\ t \in DOMAIN mslab /\ t \notin hot
                                /\ mslab[t].nfree > 0 /\ mslab[t].nfree < HotFrom
    BY <1>1 DEF ColdOK
  <2>2. ASSUME NEW t, In(t, cold)
        PROVE  t \in DOMAIN m2 /\ t \notin hot /\ m2[t].nfree > 0 /\ m2[t].nfree < HotFrom
    <3>1. CASE t = s
      <4>1. t \in DOMAIN m2 /\ t \notin hot
        BY <1>5, <2>1, <2>2
      <4>2. m2[t].nfree = mslab[s].nfree + 1 /\ m2[t].nfree < HotFrom
        BY <1>2, <1>4, <1>5, <3>1, <4>1
      <4> QED
        BY <1>2, <4>1, <4>2
    <3>2. CASE t # s
      BY <1>5, <2>1, <2>2, <3>2
    <3> QED
      BY <3>1, <3>2
  <2> QED
    BY <2>1, <2>2 DEF ColdOK
<1>8. SpareOK(m2, hot, spare)
  BY <1>1, <1>2, <1>5 DEF SpareOK
<1>9. Reachable(m2, hot, cold, spare)
  BY <1>1, <1>4, <1>5 DEF Reachable
<1>10. PoolOK(m2, hot, first_hot, cold, spare, o2)
  BY <1>5, <1>6, <1>7, <1>8, <1>9 DEF PoolOK
<1> QED
  BY <1>3, <1>10 DEF IInv, o2

\* slab_put_with_order of an empty slab t, when sp is the spare left.
LEMMA DropSlab ==
    ASSUME NEW m, NEW h, NEW f, NEW c, NEW o, NEW sp, NEW t \in DOMAIN m,
           SlabsOK(m, o), HotOK(m, h, f), ColdOK(m, h, c), SpareOK(m, h, sp),
           t \notin h, m[t].nfree = objcount, sp # t,
           \A s \in DOMAIN m \ {t} : m[s].nfree > 0 => s \in h \/ s = sp \/ In(s, c)
    PROVE  PoolOK(Without(m, t), h, f, c, sp, o)
<1> DEFINE m2 == Without(m, t)
<1>1. /\ DOMAIN m2 = DOMAIN m \ {t} /\ IsFunction(m2)
      /\ \A s \in DOMAIN m2 : m2[s] = m[s]
  BY DEF Without, IsFunction
<1>2. \A k \in Places : <<t, k>> \notin o
  <2>1. SlabOK(m[t], t, o)
    BY DEF SlabsOK
  <2>2. (\E k \in Places : <<t, k>> \in o) => m[t].nfree < objcount
    BY <2>1, NfreeBounded
  <2>3. objcount \in Nat
    BY CountPositive
  <2> QED
    BY <2>2, <2>3
<1>3. ~In(t, c)
  BY HotFromSmall, CountPositive DEF ColdOK
<1> HIDE DEF m2
<1>4. SlabsOK(m2, o)
  <2>1. \A s \in DOMAIN m2 : SlabOK(m2[s], s, o)
    BY <1>1 DEF SlabsOK
  <2>2. o \subseteq (DOMAIN m2) \X Places
    <3>1. o \subseteq (DOMAIN m) \X Places
      BY DEF SlabsOK
    <3> QED
      BY <1>1, <1>2, <3>1
  <2> QED
    BY <1>1, <2>1, <2>2 DEF SlabsOK
<1>5. HotOK(m2, h, f)
  <2>1. \A s \in DOMAIN m2 : m2[s].in_hot <=> s \in h
    BY <1>1 DEF HotOK
  <2> QED
    BY <1>1, <2>1 DEF HotOK
<1>6. ColdOK(m2, h, c)
  BY <1>1, <1>3 DEF ColdOK
<1>7. SpareOK(m2, h, sp)
  BY <1>1 DEF SpareOK
<1>8. Reachable(m2, h, c, sp)
  BY <1>1 DEF Reachable
<1> QED
  BY <1>4, <1>5, <1>6, <1>7, <1>8 DEF PoolOK, m2

\* A slab that loses its last object becomes the spare, and the spare or the
\* slab itself is given back.
LEMMA FreeLastIInv ==
    ASSUME IInv, NEW s, NEW p, <<s, p>> \in objects, FreeLast(s, p),
           objects' = objects \ {<<s, p>>}
    PROVE  IInv'
<1> DEFINE y == [Freed(s, p) EXCEPT !.in_hot = FALSE]
           m2 == [mslab EXCEPT ![s] = y]
           o2 == objects \ {<<s, p>>}
           h2 == hot \ {s}
           f2 == IF first_hot = s THEN tree_next(hot, s) ELSE first_hot
<1>1. /\ SlabsOK(mslab, objects) /\ HotOK(mslab, hot, first_hot)
      /\ ColdOK(mslab, hot, cold) /\ SpareOK(mslab, hot, spare)
      /\ Reachable(mslab, hot, cold, spare)
  BY DEF IInv, PoolOK
<1>2. /\ s \in DOMAIN mslab /\ s # spare /\ s \in Nat \ {0} /\ mslab[s].nfree \in Nat
      /\ SlabOK(Freed(s, p), s, o2) /\ Freed(s, p).nfree = mslab[s].nfree + 1
  BY FreeFacts
<1>3. SlabOK(y, s, o2) /\ y.nfree = mslab[s].nfree + 1 /\ y.in_hot = FALSE
  BY <1>2, FlagKeepsSlab
<1>4. /\ hot' = h2 /\ first_hot' = f2 /\ cold' = cold
      /\ mslab[s].nfree + 1 = objcount
      /\ spare = NULL => spare' = s /\ mslab' = m2
      /\ spare # NULL => /\ spare' = IF spare > s THEN s ELSE spare
                         /\ mslab' = Without(m2, IF spare > s THEN spare ELSE s)
  BY DEF FreeLast
<1>5. s \in hot
  <2>1. mslab[s].in_hot \/ ~(mslab[s].nfree + 1 >= HotFrom)
    BY DEF FreeLast, TurnsHot
  <2>2. mslab[s].in_hot <=> s \in hot
    BY <1>1, <1>2 DEF HotOK
  <2>3. mslab[s].nfree + 1 >= HotFrom
    BY <1>2, <1>4, HotFromSmall, CountPositive
  <2> QED
    BY <2>1, <2>2, <2>3
<1> HIDE DEF y
<1>6. /\ SlabsOK(m2, o2) /\ DOMAIN m2 = DOMAIN mslab /\ m2[s] = y
      /\ \A t \in DOMAIN mslab \ {s} : m2[t] = mslab[t]
  BY <1>3, FreeSlabs
<1> HIDE DEF m2, o2
<1>7. HotOK(m2, h2, f2)
  <2>1. ASSUME NEW t \in DOMAIN m2 PROVE m2[t].in_hot <=> t \in h2
    <3>1. CASE t = s
      BY <1>3, <1>6, <3>1
    <3>2. CASE t # s
      BY <1>1, <1>6, <3>2 DEF HotOK
    <3> QED
      BY <3>1, <3>2
  <2>2. h2 \subseteq DOMAIN m2 /\ \A t \in h2 : m2[t].nfree > 0
    BY <1>1, <1>6 DEF HotOK
  <2>3. hot \subseteq Nat \ {0} /\ first_hot \in hot /\ \A t \in hot : first_hot <= t
    BY <1>1, <1>5, MempoolAssumption DEF HotOK, SlabsOK
  <2>4. /\ h2 = {} => f2 = NULL
        /\ h2 # {} => f2 \in h2 /\ \A t \in h2 : f2 <= t
    <3>1. CASE first_hot = s
      BY <2>3, <3>1, NextFirst
    <3>2. CASE first_hot # s
      BY <2>3, <3>2
    <3> QED
      BY <3>1, <3>2
  <2> QED
    BY <2>1, <2>2, <2>4 DEF HotOK
<1>8. ColdOK(m2, h2, cold)
  BY <1>1, <1>5, <1>6 DEF ColdOK
<1>9. SpareOK(m2, h2, spare) /\ SpareOK(m2, h2, s)
  <2>1. SpareOK(m2, h2, spare)
    BY <1>1, <1>2, <1>6 DEF SpareOK
  <2>2. SpareOK(m2, h2, s)
    BY <1>2, <1>3, <1>4, <1>6 DEF SpareOK
  <2> QED
    BY <2>1, <2>2
<1>10. \A t \in DOMAIN m2 :
          m2[t].nfree > 0 => t \in h2 \/ t = s \/ t = spare \/ In(t, cold)
  BY <1>1, <1>6 DEF Reachable
<1>11. m2[s].nfree = objcount /\ s \notin h2
  BY <1>3, <1>4, <1>6
<1>12. \A t \in DOMAIN m2 : t \in Nat \ {0}
  BY <1>1, <1>6, MempoolAssumption DEF SlabsOK
<1>13. PoolOK(mslab', h2, f2, cold, spare', o2)
  <2>1. CASE spare = NULL
    <3>1. Reachable(m2, h2, cold, s)
      BY <1>10, <1>12, <2>1 DEF Reachable, NULL
    <3>2. PoolOK(m2, h2, f2, cold, s, o2)
      BY <1>6, <1>7, <1>8, <1>9, <3>1 DEF PoolOK
    <3> QED
      BY <1>4, <2>1, <3>2
  <2>2. CASE spare # NULL /\ spare > s
    <3>1. spare \in DOMAIN m2 /\ spare \notin h2 /\ m2[spare].nfree = objcount
      BY <1>9, <2>2 DEF SpareOK
    <3>2. \A t \in DOMAIN m2 \ {spare} : m2[t].nfree > 0 => t \in h2 \/ t = s \/ In(t, cold)
      BY <1>10
    <3>3. PoolOK(Without(m2, spare), h2, f2, cold, s, o2)
      BY <1>2, <1>6, <1>7, <1>8, <1>9, <3>1, <3>2, DropSlab
    <3> QED
      BY <1>4, <2>2, <3>3
  <2>3. CASE spare # NULL /\ ~(spare > s)
    <3>1. s \in DOMAIN m2
      BY <1>2, <1>6
    <3>2. \A t \in DOMAIN m2 \ {s} : m2[t].nfree > 0 => t \in h2 \/ t = spare \/ In(t, cold)
      BY <1>10
    <3>3. PoolOK(Without(m2, s), h2, f2, cold, spare, o2)
      BY <1>2, <1>6, <1>7, <1>8, <1>9, <1>11, <3>1, <3>2, DropSlab
    <3> QED
      BY <1>4, <2>3, <3>3
  <2> QED
    BY <2>1, <2>2, <2>3
<1> QED
  BY <1>4, <1>13 DEF IInv, o2

-----------------------------------------------------------------------------
\* The pool that mempool_create makes is in order.
LEMMA InitIInv == Init => IInv
BY EmptyPool DEF Init, IInv

\* mempool_alloc, mempool_free and mempool_free_spare_slab keep the pool in
\* order.
LEMMA NextIInv == IInv /\ [Next]_vars => IInv'
<1> SUFFICES ASSUME IInv, [Next]_vars PROVE IInv'
  OBVIOUS
<1>1. CASE UNCHANGED vars
  BY <1>1 DEF vars, IInv
<1>2. CASE mempool_alloc
  BY <1>2, AllocHotIInv, AllocSpareIInv, AllocNewSlabIInv, AllocColdIInv DEF mempool_alloc
<1>3. ASSUME NEW e \in objects, mempool_free(e[1], e[2]) PROVE IInv'
  <2>1. <<e[1], e[2]>> \in objects
    BY <1>3 DEF IInv, PoolOK, SlabsOK
  <2>2. objects' = objects \ {<<e[1], e[2]>>}
    BY <1>3 DEF mempool_free
  <2>3. \/ FreeToHot(e[1], e[2]) \/ FreeToCold(e[1], e[2])
        \/ FreeLast(e[1], e[2]) \/ FreeOther(e[1], e[2])
    BY <1>3 DEF mempool_free
  <2> QED
    BY <2>1, <2>2, <2>3, FreeToHotIInv, FreeToColdIInv, FreeLastIInv, FreeOtherIInv
<1>4. CASE mempool_free_spare_slab
  <2>1. /\ SlabsOK(mslab, objects) /\ HotOK(mslab, hot, first_hot)
        /\ ColdOK(mslab, hot, cold) /\ SpareOK(mslab, hot, spare)
        /\ Reachable(mslab, hot, cold, spare)
    BY DEF IInv, PoolOK
  <2>2. spare # NULL /\ spare \in DOMAIN mslab /\ spare \notin hot
        /\ mslab[spare].nfree = objcount
    BY <1>4, <2>1 DEF mempool_free_spare_slab, SpareOK
  <2>3. SpareOK(mslab, hot, NULL)
    BY DEF SpareOK
  <2>4. \A t \in DOMAIN mslab \ {spare} :
           mslab[t].nfree > 0 => t \in hot \/ t = NULL \/ In(t, cold)
    BY <2>1 DEF Reachable
  <2>5. PoolOK(Without(mslab, spare), hot, first_hot, cold, NULL, objects)
    BY <2>1, <2>2, <2>3, <2>4, DropSlab
  <2> QED
    BY <1>4, <2>5 DEF mempool_free_spare_slab, IInv
<1>5. CASE mempool_destroy
  BY <1>5, EmptyPool DEF mempool_destroy, IInv
<1> QED
  BY <1>1, <1>2, <1>3, <1>4, <1>5 DEF Next

-----------------------------------------------------------------------------
\* The statistics of the pool, with what makes them numbers.
StatsInv == IsFiniteSet(DOMAIN mslab) /\ IsFiniteSet(objects) /\ StatsMatch

\* One more and one less, times the size of one.
LEMMA Times ==
    ASSUME NEW n \in Nat, NEW k \in Nat
    PROVE  (n + 1) * k = n * k + k /\ (n - 1) * k = n * k - k /\ n * k \in Nat
OBVIOUS

\* A set of things of one size that gains one ...
LEMMA Gain ==
    ASSUME NEW S, IsFiniteSet(S), NEW e, e \notin S, NEW k \in Nat
    PROVE  /\ IsFiniteSet(S \cup {e})
           /\ Cardinality(S \cup {e}) * k = Cardinality(S) * k + k
<1>1. IsFiniteSet(S \cup {e}) /\ Cardinality(S \cup {e}) = Cardinality(S) + 1
  BY FS_AddElement
<1>2. Cardinality(S) \in Nat
  BY FS_CardinalityType
<1> QED
  BY <1>1, <1>2, Times

\* ... or loses one.
LEMMA Loss ==
    ASSUME NEW S, IsFiniteSet(S), NEW e \in S, NEW k \in Nat
    PROVE  /\ IsFiniteSet(S \ {e})
           /\ Cardinality(S \ {e}) * k = Cardinality(S) * k - k
<1>1. IsFiniteSet(S \ {e}) /\ Cardinality(S \ {e}) = Cardinality(S) - 1
  BY FS_RemoveElement
<1>2. Cardinality(S) \in Nat
  BY FS_CardinalityType
<1> QED
  BY <1>1, <1>2, Times

\* mempool_create sets the statistics to zero.
LEMMA InitStats == Init => StatsInv
<1>1. IsFiniteSet({}) /\ Cardinality({}) = 0
  BY FS_EmptySet
<1>2. ASSUME NEW k \in Nat PROVE 0 = 0 * k
  BY <1>2
<1>3. slab_size \in Nat /\ objsize \in Nat
  BY MempoolAssumption
<1> SUFFICES ASSUME Init PROVE StatsInv
  OBVIOUS
<1>4. DOMAIN mslab = {} /\ objects = {} /\ total = 0 /\ used = 0
  BY DEF Init
<1> QED
  BY <1>1, <1>2, <1>3, <1>4 DEF StatsInv, StatsMatch, InPool

\* Every call keeps the statistics up to date.
LEMMA NextStats == IInv /\ StatsInv /\ [Next]_vars => StatsInv'
<1> SUFFICES ASSUME IInv, StatsInv, [Next]_vars PROVE StatsInv'
  OBVIOUS
<1> DEFINE D == DOMAIN mslab
<1>1. /\ IsFiniteSet(D) /\ IsFiniteSet(objects)
      /\ total = Cardinality(D) * slab_size /\ used = Cardinality(objects) * objsize
      /\ slab_size \in Nat /\ objsize \in Nat
  BY MempoolAssumption DEF StatsInv, StatsMatch, InPool
<1>2. ASSUME \/ DOMAIN mslab' = D /\ total' = total
             \/ \E s : s \notin D /\ DOMAIN mslab' = D \cup {s} /\ total' = total + slab_size
             \/ \E s \in D : DOMAIN mslab' = D \ {s} /\ total' = total - slab_size,
             \/ objects' = objects /\ used' = used
             \/ \E e : e \notin objects /\ objects' = objects \cup {e} /\ used' = used + objsize
             \/ \E e \in objects : objects' = objects \ {e} /\ used' = used - objsize
      PROVE  StatsInv'
  <2> HIDE DEF D
  <2>1. IsFiniteSet(DOMAIN mslab') /\ total' = Cardinality(DOMAIN mslab') * slab_size
    <3>1. CASE DOMAIN mslab' = D /\ total' = total
      BY <1>1, <3>1
    <3>2. ASSUME NEW s, s \notin D, DOMAIN mslab' = D \cup {s}, total' = total + slab_size
          PROVE  IsFiniteSet(DOMAIN mslab') /\ total' = Cardinality(DOMAIN mslab') * slab_size
      <4>1. /\ IsFiniteSet(D \cup {s})
            /\ Cardinality(D \cup {s}) * slab_size = Cardinality(D) * slab_size + slab_size
        BY <1>1, <3>2, Gain
      <4> QED
        BY <1>1, <3>2, <4>1
    <3>3. ASSUME NEW s \in D, DOMAIN mslab' = D \ {s}, total' = total - slab_size
          PROVE  IsFiniteSet(DOMAIN mslab') /\ total' = Cardinality(DOMAIN mslab') * slab_size
      BY <1>1, <3>3, Loss
    <3> QED
      BY <1>2, <3>1, <3>2, <3>3
  <2>2. IsFiniteSet(objects') /\ used' = Cardinality(objects') * objsize
    <3>1. CASE objects' = objects /\ used' = used
      BY <1>1, <3>1
    <3>2. ASSUME NEW e, e \notin objects, objects' = objects \cup {e}, used' = used + objsize
          PROVE  IsFiniteSet(objects') /\ used' = Cardinality(objects') * objsize
      BY <1>1, <3>2, Gain
    <3>3. ASSUME NEW e \in objects, objects' = objects \ {e}, used' = used - objsize
          PROVE  IsFiniteSet(objects') /\ used' = Cardinality(objects') * objsize
      BY <1>1, <3>3, Loss
    <3> QED
      BY <1>2, <3>1, <3>2, <3>3
  <2> QED
    BY <2>1, <2>2 DEF StatsInv, StatsMatch, InPool
<1>3. CASE UNCHANGED vars
  BY <1>2, <1>3 DEF vars
<1>4. CASE mempool_alloc
  <2>1. CASE AllocHot
    BY <1>2, <2>1, AllocHotIInv DEF Gives, AllocHot
  <2>2. CASE AllocSpare
    BY <1>2, <2>2, AllocSpareIInv DEF Gives, AllocSpare
  <2>3. ASSUME NEW s \in Slabs, AllocNewSlab(s) PROVE StatsInv'
    <3>1. s \notin D /\ total' = total + slab_size
      BY <2>3 DEF AllocNewSlab, InPool
    <3>2. Gives(D \cup {s})
      BY <2>3, AllocNewSlabIInv
    <3> QED
      BY <1>2, <3>1, <3>2 DEF Gives
  <2>4. CASE AllocCold
    BY <1>2, <2>4, AllocColdIInv DEF Gives, AllocCold
  <2> QED
    BY <1>4, <2>1, <2>2, <2>3, <2>4 DEF mempool_alloc
<1>5. ASSUME NEW e \in objects, mempool_free(e[1], e[2]) PROVE StatsInv'
  <2>1. e = <<e[1], e[2]>> /\ e[1] \in D
    BY <1>5 DEF IInv, PoolOK, SlabsOK
  <2> DEFINE s == e[1]
             p == e[2]
  <2>2. objects' = objects \ {e} /\ used' = used - objsize
    BY <1>5, <2>1 DEF mempool_free
  <2>3. CASE FreeToHot(s, p) \/ FreeToCold(s, p) \/ FreeOther(s, p)
    <3>1. DOMAIN mslab' = D /\ total' = total
      BY <2>3 DEF FreeToHot, FreeToCold, FreeOther
    <3> QED
      BY <1>2, <2>2, <3>1
  <2>4. CASE FreeLast(s, p)
    <3> DEFINE m2 == [mslab EXCEPT ![s] = [Freed(s, p) EXCEPT !.in_hot = FALSE]]
    <3>1. DOMAIN m2 = D /\ \A t : DOMAIN Without(m2, t) = D \ {t}
      BY DEF Without
    <3> HIDE DEF m2
    <3>2. spare # NULL => spare \in D
      BY DEF IInv, PoolOK, SpareOK
    <3>3. \/ mslab' = m2 /\ total' = total
          \/ /\ spare # NULL
             /\ mslab' = Without(m2, IF spare > s THEN spare ELSE s)
             /\ total' = total - slab_size
      BY <2>4 DEF FreeLast, m2
    <3>4. \/ DOMAIN mslab' = D /\ total' = total
          \/ \E t \in D : DOMAIN mslab' = D \ {t} /\ total' = total - slab_size
      BY <2>1, <3>1, <3>2, <3>3
    <3> QED
      BY <1>2, <2>2, <3>4
  <2> QED
    BY <1>5, <2>3, <2>4 DEF mempool_free
<1>6. CASE mempool_free_spare_slab
  <2>1. spare \in D
    BY <1>6 DEF mempool_free_spare_slab, IInv, PoolOK, SpareOK
  <2>2. DOMAIN mslab' = D \ {spare}
    BY <1>6 DEF mempool_free_spare_slab, Without
  <2> QED
    BY <1>2, <1>6, <2>1, <2>2 DEF mempool_free_spare_slab
<1>7. CASE mempool_destroy
  <2>1. DOMAIN mslab' = {} /\ objects' = {} /\ total' = 0 /\ used' = 0
    BY <1>7 DEF mempool_destroy
  <2>2. IsFiniteSet({}) /\ Cardinality({}) = 0
    BY FS_EmptySet
  <2>3. 0 * slab_size = 0 /\ 0 * objsize = 0
    BY <1>1
  <2> QED
    BY <2>1, <2>2, <2>3 DEF StatsInv, StatsMatch, InPool
<1> QED
  BY <1>3, <1>4, <1>5, <1>6, <1>7 DEF Next

-----------------------------------------------------------------------------
\* The pool is in order after any sequence of calls.
THEOREM PoolInOrder == Spec => [](IInv /\ StatsInv)
<1>1. Init => IInv /\ StatsInv
  BY InitIInv, InitStats
<1>2. IInv /\ StatsInv /\ [Next]_vars => (IInv /\ StatsInv)'
  BY NextIInv, NextStats
<1> QED
  BY <1>1, <1>2, PTL DEF Spec

\* mempool_used, mempool_count and mempool_total tell the truth.
THEOREM StatsAreRight == Spec => []StatsMatch
<1>1. StatsInv => StatsMatch
  BY DEF StatsInv
<1> QED
  BY <1>1, PoolInOrder, PTL

\* No object is given out twice, and none is lost.
THEOREM NoObjectLost == Spec => []ObjectsAccounted
<1>1. IInv => ObjectsAccounted
  <2> SUFFICES ASSUME IInv, NEW s \in DOMAIN mslab
               PROVE  LET x == mslab[s]
                      IN  /\ x.nfree = Len(x.free_list) + objcount - x.free_offset
                          /\ \A i, j \in 1 .. Len(x.free_list) :
                                x.free_list[i] = x.free_list[j] => i = j
                          /\ \A p \in Places :
                                <<s, p>> \in objects <=> p < x.free_offset /\ p \notin Garbage(s)
    BY DEF ObjectsAccounted, InPool
  <2>1. SlabOK(mslab[s], s, objects)
    BY DEF IInv, PoolOK, SlabsOK
  <2>2. \A p : p \in Garbage(s) <=> In(p, mslab[s].free_list)
    BY DEF Garbage, In
  <2>3. \A i, j \in 1 .. Len(mslab[s].free_list) :
           mslab[s].free_list[i] = mslab[s].free_list[j] => i = j
    BY <2>1 DEF SlabOK, Distinct
  <2>4. \A p \in Places :
           <<s, p>> \in objects <=> p < mslab[s].free_offset /\ p \notin Garbage(s)
    BY <2>1, <2>2 DEF SlabOK
  <2>5. mslab[s].nfree = Len(mslab[s].free_list) + objcount - mslab[s].free_offset
    BY <2>1 DEF SlabOK
  <2> QED
    BY <2>3, <2>4, <2>5
<1> QED
  BY <1>1, PoolInOrder, PTL

\* mempool_alloc takes objects from the hot slab with the lowest address.
THEOREM FirstHotRight == Spec => []FirstHotIsFirst
<1>1. IInv => FirstHotIsFirst
  <2> SUFFICES ASSUME IInv PROVE FirstHotIsFirst
    OBVIOUS
  <2>1. HotOK(mslab, hot, first_hot)
    BY DEF IInv, PoolOK
  <2>2. \A s \in InPool : mslab[s].in_hot <=> s \in hot
    BY <2>1 DEF HotOK, InPool
  <2>3. IF hot = {} THEN first_hot = NULL
        ELSE first_hot \in hot /\ \A s \in hot : first_hot <= s
    BY <2>1 DEF HotOK
  <2> QED
    BY <2>2, <2>3 DEF FirstHotIsFirst
<1> QED
  BY <1>1, PoolInOrder, PTL

\* A slab is in one list at most, and mslab_alloc never meets a full slab.
THEOREM SlabsInOneList == Spec => []OneList
<1>1. IInv => OneList
  <2> SUFFICES ASSUME IInv PROVE OneList
    OBVIOUS
  <2>1. /\ SlabsOK(mslab, objects) /\ HotOK(mslab, hot, first_hot)
        /\ ColdOK(mslab, hot, cold) /\ SpareOK(mslab, hot, spare)
    BY DEF IInv, PoolOK
  <2>2. \A s : s \in Cold <=> In(s, cold)
    BY DEF Cold, In
  <2>3. \A i, j \in 1 .. Len(cold) : cold[i] = cold[j] => i = j
    BY <2>1 DEF ColdOK, Distinct
  <2>4. Cold \cap hot = {}
    BY <2>1, <2>2 DEF ColdOK
  <2>5. /\ \A s \in hot \cup Cold : mslab[s].nfree > 0
        /\ \A s \in Cold : mslab[s].nfree < HotFrom
        /\ spare # NULL => mslab[spare].nfree = objcount
    BY <2>1, <2>2 DEF ColdOK, HotOK, SpareOK
  <2>6. spare \notin hot \cup Cold
    <3>1. \A s \in DOMAIN mslab : s # NULL
      BY <2>1, MempoolAssumption DEF SlabsOK, NULL
    <3>2. CASE spare = NULL
      BY <2>1, <2>2, <3>1, <3>2 DEF HotOK, ColdOK
    <3>3. CASE spare # NULL
      <4>1. spare \notin hot /\ ~(mslab[spare].nfree < HotFrom)
        BY <2>1, <3>3, HotFromSmall, CountPositive DEF SpareOK
      <4> QED
        BY <2>5, <4>1
    <3> QED
      BY <3>2, <3>3
  <2> QED
    BY <2>3, <2>4, <2>5, <2>6 DEF OneList
<1> QED
  BY <1>1, PoolInOrder, PTL

\* mempool_alloc fails only when the pool has no free object.
THEOREM FailureMeansFull == Spec => []FailsOnlyWhenFull
<1>1. IInv => FailsOnlyWhenFull
  <2> SUFFICES ASSUME IInv, AllocFails, NEW s \in DOMAIN mslab PROVE mslab[s].nfree = 0
    BY DEF FailsOnlyWhenFull, InPool
  <2>1. hot = {} /\ spare = NULL /\ cold = <<>>
    BY NoFirst DEF AllocFails
  <2>2. s # NULL /\ mslab[s].nfree \in Nat
    BY MempoolAssumption DEF IInv, PoolOK, SlabsOK, SlabOK, Mslabs, NULL
  <2>3. ~In(s, cold)
    BY <2>1 DEF In
  <2>4. ~(mslab[s].nfree > 0)
    BY <2>1, <2>2, <2>3 DEF IInv, PoolOK, Reachable
  <2> QED
    BY <2>2, <2>4
<1> QED
  BY <1>1, PoolInOrder, PTL

\* The variables keep their types; the statistics stay natural numbers
\* although they are counted down.
THEOREM TypeCorrect == Spec => []TypeOK
<1>1. Spec => [](alive \in BOOLEAN)
  <2>1. Init => alive \in BOOLEAN
    BY DEF Init
  <2>2. alive \in BOOLEAN /\ [Next]_vars => (alive \in BOOLEAN)'
    BY DEF Next, vars, mempool_alloc, AllocHot, AllocSpare, AllocNewSlab, AllocCold,
           mempool_free, mempool_free_spare_slab, mempool_destroy
  <2> QED
    BY <2>1, <2>2, PTL DEF Spec
<1>2. IInv /\ StatsInv /\ alive \in BOOLEAN => TypeOK
  <2> SUFFICES ASSUME IInv, StatsInv, alive \in BOOLEAN PROVE TypeOK
    OBVIOUS
  <2>1. /\ SlabsOK(mslab, objects) /\ HotOK(mslab, hot, first_hot)
        /\ ColdOK(mslab, hot, cold) /\ SpareOK(mslab, hot, spare)
    BY DEF IInv, PoolOK
  <2>2. InPool \subseteq Slabs /\ hot \subseteq InPool /\ objects \subseteq InPool \X Places
    BY <2>1 DEF SlabsOK, HotOK, InPool
  <2>3. first_hot \in InPool \cup {NULL} /\ spare \in InPool \cup {NULL}
    BY <2>1 DEF HotOK, SpareOK, InPool
  <2>4. cold \in Seq(InPool)
    <3>1. cold \in Seq(Slabs) /\ \A i \in 1 .. Len(cold) : In(cold[i], cold)
      BY <2>1 DEF ColdOK, In
    <3>2. \A i \in 1 .. Len(cold) : cold[i] \in InPool
      BY <2>1, <3>1 DEF ColdOK, InPool
    <3> QED
      BY <3>1, <3>2
  <2>5. total \in Nat /\ used \in Nat
    <3>1. Cardinality(InPool) \in Nat /\ Cardinality(objects) \in Nat
      BY FS_CardinalityType DEF StatsInv, InPool
    <3> QED
      BY <3>1, Times, MempoolAssumption DEF StatsInv, StatsMatch
  <2> DEFINE R == [nfree : 0 .. objcount, free_list : Seq(Places),
                   free_offset : 0 .. objcount, in_hot : BOOLEAN]
  <2>6. ASSUME NEW s \in InPool PROVE mslab[s] \in R
    <3>1. SlabOK(mslab[s], s, objects)
      BY <2>1 DEF SlabsOK, InPool
    <3>2. mslab[s] \in Mslabs /\ mslab[s].nfree \in 0 .. objcount
      BY <3>1, NfreeBounded DEF SlabOK
    <3> QED
      BY <3>2 DEF Mslabs
  <2> HIDE DEF R
  <2>7. mslab \in [InPool -> R]
    BY <2>1, <2>6 DEF SlabsOK, IsFunction, InPool
  <2> QED
    BY <2>2, <2>3, <2>4, <2>5, <2>7 DEF TypeOK, R
<1> QED
  BY <1>1, <1>2, PoolInOrder, PTL

-----------------------------------------------------------------------------
\* Where the objects lie: behind the header, and one after the other.
LEMMA Layout ==
    ASSUME NEW p \in Places
    PROVE  LET first == offset + p * objsize
           IN  /\ first \in Nat
               /\ mslab_sizeof <= first /\ first + objsize <= slab_size
               /\ \A q \in Places : q < p => offset + q * objsize + objsize <= first
<1> DEFINE n == objcount
           k == objsize
<1>1. n \in Nat /\ k \in Nat /\ n * k <= slab_size - mslab_sizeof
      /\ slab_size \in Nat /\ mslab_sizeof \in Nat
  BY CountPositive, MempoolAssumption
<1>2. Places = 0 .. n - 1 /\ offset = slab_size - n * k
  BY DEF Places, offset
<1> HIDE DEF n, k
<1>3. ASSUME NEW a \in Nat, NEW b \in Nat, a < b PROVE a * k + k <= b * k
  <2>1. PICK d \in Nat : b = a + 1 + d
    <3>1. b - a - 1 \in Nat /\ b = a + 1 + (b - a - 1)
      BY <1>3
    <3> QED
      BY <3>1
  <2>2. b * k = a * k + k + d * k /\ d * k \in Nat /\ a * k \in Nat
    BY <1>1, <2>1
  <2> QED
    BY <1>1, <2>2
<1>4. p \in Nat /\ p < n /\ n * k \in Nat /\ p * k \in Nat
  BY <1>1, <1>2
<1>5. p * k + k <= n * k
  BY <1>1, <1>3, <1>4
<1>6. \A q \in Places : q < p => q * k + k <= p * k /\ q * k \in Nat
  BY <1>1, <1>2, <1>3, <1>4
<1> QED
  BY <1>1, <1>2, <1>4, <1>5, <1>6 DEF k

\* The bytes of objects callers have never overlap and never reach the
\* header or the end of the slab.
THEOREM NoOverlap == Spec => []ObjectsApart
<1>1. IInv => ObjectsApart
  <2> SUFFICES ASSUME IInv, NEW o \in objects
               PROVE  /\ \A b \in Bytes(o) : mslab_sizeof <= b /\ b < slab_size
                      /\ \A q \in objects : q[1] = o[1] /\ q # o => Bytes(o) \cap Bytes(q) = {}
    BY DEF ObjectsApart
  <2>1. \A e \in objects : e[2] \in Places /\ e = <<e[1], e[2]>>
    BY DEF IInv, PoolOK, SlabsOK
  <2>2. objsize \in Nat \ {0} /\ slab_size \in Nat /\ mslab_sizeof \in Nat /\ Places \subseteq Nat
    BY MempoolAssumption, CountPositive DEF Places
  <2>3. \A b \in Bytes(o) : mslab_sizeof <= b /\ b < slab_size
    BY <2>1, <2>2, Layout DEF Bytes
  <2>4. ASSUME NEW q \in objects, q[1] = o[1], q # o PROVE Bytes(o) \cap Bytes(q) = {}
    <3> DEFINE f == offset + o[2] * objsize
               g == offset + q[2] * objsize
    <3>1. o[2] # q[2] /\ o[2] \in Places /\ q[2] \in Places /\ o[2] \in Nat /\ q[2] \in Nat
      BY <2>1, <2>2, <2>4
    <3>2. f \in Nat /\ g \in Nat /\ (f + objsize <= g \/ g + objsize <= f)
      BY <3>1, Layout
    <3>3. Bytes(o) = f .. f + objsize - 1 /\ Bytes(q) = g .. g + objsize - 1
      BY DEF Bytes
    <3> HIDE DEF f, g
    <3> QED
      BY <2>2, <3>2, <3>3
  <2> QED
    BY <2>3, <2>4
<1> QED
  BY <1>1, PoolInOrder, PTL
=============================================================================
