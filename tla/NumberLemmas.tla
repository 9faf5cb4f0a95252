---------------------------- MODULE NumberLemmas ----------------------------
(***************************************************************************)
(* Facts about numbers and sums that several of the proofs use.  A minimal *)
(* counterexample, from LeastExists or SmallestSet, takes the place of an  *)
(* induction.                                                              *)
(***************************************************************************)
EXTENDS Integers, FiniteSets, Functions, TLAPS, FiniteSetTheorems, WellFoundedInduction

\* A set of naturals has a least element.
LEMMA LeastExists ==
    ASSUME NEW T, T \subseteq Nat, T # {}
    PROVE  \E n \in T : \A m \in T : n <= m
<1> DEFINE R == {ss \in Nat \X Nat : ss[1] < ss[2]}
<1>1. IsWellFoundedOn(R, Nat)
  BY NatLessThanWellFounded DEF OpToRel
<1> HIDE DEF R
<1>2. PICK n \in T : \A m \in T : ~(<<m, n>> \in R)
  BY <1>1, WFMin
<1>3. \A m \in T : <<m, n>> \in R <=> m < n
  BY DEF R
<1>4. ASSUME NEW m \in T PROVE n <= m
  <2>1. n \in Nat /\ m \in Nat /\ ~(m < n)
    BY <1>2, <1>3
  <2> QED
    BY <2>1
<1> QED
  BY <1>4

\* A common factor is cancelled.
LEMMA MulLess ==
    ASSUME NEW a \in Int, NEW b \in Int, NEW c \in Nat \ {0}, a * c < b * c
    PROVE  a < b
<1> SUFFICES ASSUME a >= b PROVE FALSE
  OBVIOUS
<1>1. (a - b) * c >= 0
  OBVIOUS
<1> QED
  BY <1>1

\* A multiple added to or taken from a multiple leaves a multiple.
LEMMA MultipleAdded ==
    ASSUME NEW a \in Nat, NEW n \in Int, NEW c \in Nat \ {0},
           a + n * c \in Nat, a % c = 0
    PROVE  (a + n * c) % c = 0
<1> DEFINE b == a + n * c
           q == a \div c
           p == b \div c
<1>1. a = q * c /\ q \in Nat
  OBVIOUS
<1>2. b = p * c + (b % c) /\ p \in Nat /\ b % c \in 0 .. c - 1
  OBVIOUS
<1> HIDE DEF q, p
<1>3. (q + n) * c = p * c + (b % c)
  BY <1>1, <1>2
<1>4. p * c <= (q + n) * c /\ (q + n) * c < p * c + c
  BY <1>1, <1>2, <1>3
<1>5. p < q + n + 1
  <2>1. p * c < (q + n + 1) * c
    BY <1>1, <1>2, <1>4
  <2> QED
    BY <2>1, <1>1, <1>2, MulLess
<1>6. q + n < p + 1
  <2>1. (q + n) * c < (p + 1) * c
    BY <1>1, <1>2, <1>4
  <2> QED
    BY <2>1, <1>1, <1>2, MulLess
<1>7. p = q + n
  BY <1>1, <1>2, <1>5, <1>6
<1> QED
  BY <1>1, <1>2, <1>3, <1>7

\* A number below the modulus is its own remainder.
LEMMA SmallMod ==
    ASSUME NEW a \in Nat, NEW c \in Nat \ {0}, a < c
    PROVE  a % c = a
OBVIOUS

\* A multiple has no remainder.
LEMMA MultipleMod ==
    ASSUME NEW n \in Nat, NEW c \in Nat \ {0}
    PROVE  (n * c) % c = 0
<1>1. 0 % c = 0
  BY SmallMod
<1>2. 0 + n * c \in Nat /\ 0 + n * c = n * c
  OBVIOUS
<1> QED
  BY <1>1, <1>2, MultipleAdded

\* Finite sets stay finite with one element more or less.
LEMMA FiniteChange ==
    ASSUME NEW S, IsFiniteSet(S), NEW e
    PROVE  /\ IsFiniteSet(S \cup {e}) /\ IsFiniteSet(S \ {e})
           /\ \A T \in SUBSET S : IsFiniteSet(T)
BY FS_AddElement, FS_RemoveElement, FS_Subset

\* The empty set is finite.
LEMMA FiniteEmpty == IsFiniteSet({})
BY FS_EmptySet

\* A set of subsets of a finite set has a member without a smaller one in it.
LEMMA SmallestSet ==
    ASSUME NEW D, IsFiniteSet(D), NEW B \in SUBSET SUBSET D, B # {}
    PROVE  \E s \in B : \A t \in s : s \ {t} \notin B
<1> DEFINE Counts == {Cardinality(s) : s \in B}
<1>1. \A s \in B : IsFiniteSet(s) /\ Cardinality(s) \in Nat
  BY FS_Subset, FS_CardinalityType
<1>2. PICK n \in Counts : \A m \in Counts : n <= m
  <2>1. Counts \subseteq Nat /\ Counts # {}
    BY <1>1
  <2> QED
    BY <2>1, LeastExists
<1>3. PICK s \in B : n = Cardinality(s)
  BY <1>2
<1>4. ASSUME NEW t \in s, s \ {t} \in B PROVE FALSE
  <2>1. Cardinality(s \ {t}) = n - 1
    BY <1>1, <1>3, FS_RemoveElement
  <2>2. n <= Cardinality(s \ {t})
    BY <1>2, <1>4
  <2> QED
    BY <1>1, <1>3, <2>1, <2>2
<1> QED
  BY <1>3, <1>4
-----------------------------------------------------------------------------
(***************************************************************************)
(* Sums.  g adds x up over every subset of D.  A sum described so follows  *)
(* a change of one element of x, or of D.                                  *)
(***************************************************************************)
Adds(D, g, x) ==
    /\ g \in [SUBSET D -> Nat]
    /\ g[{}] = 0
    /\ \A S \in SUBSET D : \A t \in S : g[S] = g[S \ {t}] + x[t]

SumsTo(D, x, n) == \E g : Adds(D, g, x) /\ g[D] = n

\* What a fold of x over D computes, for every subset of D.
Folded(D, x, h) ==
    h = [s \in SUBSET D |->
           IF s = {} THEN 0 ELSE x[CHOOSE y \in s : TRUE] + h[s \ {CHOOSE y \in s : TRUE}]]

\* A sum can be computed by a fold.
LEMMA FoldExists ==
    ASSUME NEW D, NEW x \in [D -> Nat], NEW n, SumsTo(D, x, n)
    PROVE  \E h : Folded(D, x, h)
<1> DEFINE Pick(s) == CHOOSE y \in s : TRUE
           E(h) == [s \in SUBSET D |->
                      IF s = {} THEN 0 ELSE x[Pick(s)] + h[s \ {Pick(s)}]]
<1>1. PICK g : Adds(D, g, x)
  BY DEF SumsTo
<1>2. \A s \in SUBSET D : s # {} => Pick(s) \in s
  OBVIOUS
<1> HIDE DEF Pick
<1>3. ASSUME NEW s \in SUBSET D PROVE g[s] = E(g)[s]
  <2>1. CASE s = {}
    BY <1>1, <2>1 DEF Adds
  <2>2. CASE s # {}
    <3>1. Pick(s) \in s
      BY <1>2, <2>2
    <3>2. g[s] = g[s \ {Pick(s)}] + x[Pick(s)]
      BY <1>1, <3>1 DEF Adds
    <3>3. g[s \ {Pick(s)}] \in Nat /\ x[Pick(s)] \in Nat
      BY <1>1, <3>1 DEF Adds
    <3> QED
      BY <2>2, <3>2, <3>3
  <2> QED
    BY <2>1, <2>2
<1>4. g = E(g)
  BY <1>1, <1>3 DEF Adds
<1> QED
  BY <1>4 DEF Folded, Pick

\* Whatever a fold computes is the sum.
LEMMA FoldIsSum ==
    ASSUME NEW D, IsFiniteSet(D), NEW x \in [D -> Nat], NEW n, SumsTo(D, x, n),
           NEW F, Folded(D, x, F)
    PROVE  F[D] = n
<1> DEFINE Pick(s) == CHOOSE y \in s : TRUE
           E(h) == [s \in SUBSET D |->
                      IF s = {} THEN 0 ELSE x[Pick(s)] + h[s \ {Pick(s)}]]
<1>1. PICK g : Adds(D, g, x) /\ g[D] = n
  BY DEF SumsTo
<1>2. \A s \in SUBSET D : s # {} => Pick(s) \in s
  OBVIOUS
<1>3. F = E(F)
  BY DEF Folded
<1> HIDE DEF Pick
<1> DEFINE Bad == {s \in SUBSET D : F[s] # g[s]}
<1>4. ASSUME Bad # {} PROVE FALSE
  <2>1. PICK s \in Bad : \A t \in s : s \ {t} \notin Bad
    BY <1>4, SmallestSet
  <2>2. F[s] = E(F)[s]
    BY <1>3
  <2>3. s # {}
    BY <1>1, <2>1, <2>2 DEF Adds
  <2>4. Pick(s) \in s
    BY <1>2, <2>1, <2>3
  <2>5. F[s \ {Pick(s)}] = g[s \ {Pick(s)}]
    BY <2>1, <2>4
  <2>6. F[s] = x[Pick(s)] + F[s \ {Pick(s)}]
    BY <2>1, <2>2, <2>3
  <2>7. g[s] = g[s \ {Pick(s)}] + x[Pick(s)]
    BY <1>1, <2>1, <2>4 DEF Adds
  <2>8. g[s \ {Pick(s)}] \in Nat /\ x[Pick(s)] \in Nat
    BY <1>1, <2>1, <2>4 DEF Adds
  <2> QED
    BY <2>1, <2>5, <2>6, <2>7, <2>8
<1> QED
  BY <1>1, <1>4

\* That is what SumFunction computes.
LEMMA SumOfFunction ==
    ASSUME NEW D, IsFiniteSet(D), NEW x \in [D -> Nat], NEW n, SumsTo(D, x, n)
    PROVE  SumFunction(x) = n
<1> DEFINE F == CHOOSE h : Folded(D, x, h)
<1>1. SumFunction(x) = F[D]
  <2>1. DOMAIN x = D
    OBVIOUS
  <2>2. SumFunction(x) = SumFunctionOnSet(x, D)
    BY <2>1 DEF SumFunction
  <2>3. SumFunctionOnSet(x, D) = F[D]
    BY DEF SumFunctionOnSet, FoldFunctionOnSet, MapThenFoldSet, Folded
  <2> QED
    BY <2>2, <2>3
<1>2. Folded(D, x, F)
  BY FoldExists
<1> HIDE DEF F
<1> QED
  BY <1>1, <1>2, FoldIsSum

\* Nothing at all adds up to nothing.
LEMMA SumOfZeros == ASSUME NEW D PROVE SumsTo(D, [t \in D |-> 0], 0)
<1> DEFINE g == [S \in SUBSET D |-> 0]
<1>1. Adds(D, g, [t \in D |-> 0])
  BY DEF Adds
<1> QED
  BY <1>1 DEF SumsTo

\* What e contributes to the sum of x over D.
Part(D, x, e) == IF e \in D THEN x[e] ELSE 0

\* The sum changes by what one element e, or its being there, changes.
LEMMA SumChange ==
    ASSUME NEW D, NEW x \in [D -> Nat], NEW n, SumsTo(D, x, n),
           NEW e, NEW D2, NEW x2 \in [D2 -> Nat],
           D \ {e} = D2 \ {e}, \A t \in D \ {e} : x2[t] = x[t]
    PROVE  /\ n \in Nat /\ n - Part(D, x, e) \in Nat
           /\ SumsTo(D2, x2, n - Part(D, x, e) + Part(D2, x2, e))
<1>1. PICK g : Adds(D, g, x) /\ g[D] = n
  BY DEF SumsTo
<1> DEFINE v == Part(D2, x2, e)
           h == [S \in SUBSET D2 |-> IF e \in S THEN g[S \ {e}] + v ELSE g[S]]
<1>2. v \in Nat /\ Part(D, x, e) \in Nat /\ (e \in D2 => v = x2[e])
  BY DEF Part
<1> HIDE DEF v
<1>3. \A S \in SUBSET D2 : S \ {e} \in SUBSET D /\ (e \notin S => S \in SUBSET D)
  OBVIOUS
<1>4. h \in [SUBSET D2 -> Nat] /\ h[{}] = 0
  BY <1>1, <1>2, <1>3 DEF Adds
<1>5. ASSUME NEW S \in SUBSET D2, NEW u \in S PROVE h[S] = h[S \ {u}] + x2[u]
  <2>1. CASE u = e
    BY <1>2, <2>1
  <2>2. CASE u # e /\ e \notin S
    <3>1. g[S] = g[S \ {u}] + x[u] /\ x2[u] = x[u]
      BY <1>1, <1>3, <2>2 DEF Adds
    <3> QED
      BY <2>2, <3>1
  <2>3. CASE u # e /\ e \in S
    <3> DEFINE rest == g[(S \ {u}) \ {e}]
    <3>1. (S \ {e}) \ {u} = (S \ {u}) \ {e}
      OBVIOUS
    <3>2. g[S \ {e}] = g[(S \ {e}) \ {u}] + x[u]
      BY <1>1, <1>3, <2>3 DEF Adds
    <3>3. g[S \ {e}] = rest + x[u]
      BY <3>1, <3>2
    <3>4. h[S] = g[S \ {e}] + v /\ h[S \ {u}] = rest + v
      BY <2>3
    <3>5. rest \in Nat /\ x[u] \in Nat /\ x2[u] = x[u]
      BY <1>1, <1>3, <2>3 DEF Adds
    <3> HIDE DEF h, rest
    <3> QED
      BY <1>2, <3>3, <3>4, <3>5
  <2> QED
    BY <2>1, <2>2, <2>3
<1>6. Adds(D2, h, x2)
  BY <1>4, <1>5 DEF Adds
<1>7. n = g[D \ {e}] + Part(D, x, e) /\ g[D \ {e}] \in Nat
  <2>1. CASE e \in D
    BY <1>1, <2>1 DEF Adds, Part
  <2>2. CASE e \notin D
    <3>1. D \ {e} = D
      BY <2>2
    <3>2. g[D] \in Nat
      BY <1>1 DEF Adds
    <3> QED
      BY <1>1, <2>2, <3>1, <3>2 DEF Part
  <2> QED
    BY <2>1, <2>2
<1>8. h[D2] = g[D \ {e}] + v
  <2>1. CASE e \in D2
    BY <2>1
  <2>2. CASE e \notin D2
    <3>1. D2 = D \ {e} /\ v = 0
      BY <2>2 DEF v, Part
    <3> QED
      BY <1>7, <2>2, <3>1
  <2> QED
    BY <2>1, <2>2
<1>9. SumsTo(D2, x2, h[D2])
  BY <1>6 DEF SumsTo
<1> HIDE DEF h
<1>10. h[D2] = n - Part(D, x, e) + v /\ n \in Nat /\ n - Part(D, x, e) \in Nat
  BY <1>2, <1>7, <1>8
<1> QED
  BY <1>9, <1>10 DEF v

\* The sum over fewer elements is not larger.
LEMMA SumSubset ==
    ASSUME NEW D, IsFiniteSet(D), NEW x \in [D -> Nat], NEW n, SumsTo(D, x, n),
           NEW D2 \in SUBSET D
    PROVE  \E m : SumsTo(D2, [t \in D2 |-> x[t]], m) /\ m <= n
<1>1. PICK g : Adds(D, g, x) /\ g[D] = n
  BY DEF SumsTo
<1> DEFINE h == [S \in SUBSET D2 |-> g[S]]
           y == [t \in D2 |-> x[t]]
<1>2. Adds(D2, h, y)
  BY <1>1 DEF Adds
<1>3. SumsTo(D2, y, g[D2])
  BY <1>2 DEF SumsTo
<1> DEFINE Bad == {S \in SUBSET D : ~(g[D2] <= g[D2 \cup S])}
<1>4. ASSUME Bad # {} PROVE FALSE
  <2>1. PICK s \in Bad : \A t \in s : s \ {t} \notin Bad
    BY <1>4, SmallestSet
  <2>2. g[D2] \in Nat
    BY <1>1 DEF Adds
  <2>3. ASSUME s = {} PROVE FALSE
    <3>1. D2 \cup s = D2
      BY <2>3
    <3>2. ~(g[D2] <= g[D2 \cup s])
      BY <2>1
    <3>3. g[D2] <= g[D2]
      BY <2>2
    <3> QED
      BY <3>1, <3>2, <3>3
  <2>4. PICK t \in s : TRUE
    BY <2>3
  <2>5. g[D2] <= g[D2 \cup (s \ {t})]
    BY <2>1, <2>4
  <2>6. CASE t \in D2
    <3>1. D2 \cup (s \ {t}) = D2 \cup s
      BY <2>6
    <3> QED
      BY <2>1, <2>5, <3>1
  <2>7. CASE t \notin D2
    <3>1. (D2 \cup s) \ {t} = D2 \cup (s \ {t})
      BY <2>7
    <3>2. g[D2 \cup s] = g[(D2 \cup s) \ {t}] + x[t]
      BY <1>1, <2>1, <2>4 DEF Adds
    <3>3. g[D2 \cup (s \ {t})] \in Nat /\ x[t] \in Nat /\ g[D2 \cup s] \in Nat
      BY <1>1, <2>1, <2>4 DEF Adds
    <3>4. g[D2] <= g[D2 \cup s]
      BY <2>2, <2>5, <3>1, <3>2, <3>3
    <3> QED
      BY <2>1, <3>4
  <2> QED
    BY <2>6, <2>7
<1>5. D2 \cup D = D
  OBVIOUS
<1>6. g[D2] <= n
  BY <1>1, <1>4, <1>5
<1> QED
  BY <1>3, <1>6

\* The sum of smaller elements is not larger.
LEMMA SumMonotone ==
    ASSUME NEW D, IsFiniteSet(D), NEW x \in [D -> Nat], NEW y \in [D -> Nat],
           \A t \in D : x[t] <= y[t],
           NEW n, SumsTo(D, x, n), NEW m, SumsTo(D, y, m)
    PROVE  n <= m
<1>1. PICK g : Adds(D, g, x) /\ g[D] = n
  BY DEF SumsTo
<1>2. PICK h : Adds(D, h, y) /\ h[D] = m
  BY DEF SumsTo
<1> DEFINE Bad == {s \in SUBSET D : g[s] > h[s]}
<1>3. ASSUME Bad # {} PROVE FALSE
  <2>1. PICK s \in Bad : \A t \in s : s \ {t} \notin Bad
    BY <1>3, SmallestSet
  <2>2. PICK t \in s : TRUE
    <3>1. ~(g[{}] > h[{}])
      BY <1>1, <1>2 DEF Adds
    <3> QED
      BY <2>1, <3>1
  <2>3. g[s] = g[s \ {t}] + x[t] /\ h[s] = h[s \ {t}] + y[t]
    BY <1>1, <1>2, <2>1, <2>2 DEF Adds
  <2>4. g[s \ {t}] \in Nat /\ h[s \ {t}] \in Nat /\ x[t] <= y[t]
    BY <1>1, <1>2, <2>1, <2>2 DEF Adds
  <2>5. g[s \ {t}] <= h[s \ {t}]
    BY <2>1, <2>2, <2>4
  <2> QED
    BY <2>1, <2>2, <2>3, <2>4, <2>5
<1>4. ~(g[D] > h[D])
  BY <1>3
<1>5. g[D] \in Nat /\ h[D] \in Nat
  BY <1>1, <1>2 DEF Adds
<1> QED
  BY <1>1, <1>2, <1>4, <1>5
=============================================================================
