------------------------- MODULE QuotaLessorProofs -------------------------
(***************************************************************************)
(* What the runs of QuotaLessor check on two threads, for any number of    *)
(* threads, any unit, any limits and any sizes leased.                     *)
(***************************************************************************)
EXTENDS QuotaLessor, TLAPS, NumberLemmas

\* What is described by SumsTo is the sum over the threads.
LEMMA SumIsUnique ==
    ASSUME NEW x \in [Threads -> Nat], NEW n, SumsTo(Threads, x, n)
    PROVE  MapThenSumSet(LAMBDA t : x[t], Threads) = n
<1> DEFINE F == CHOOSE h : Folded(Threads, x, h)
<1>1. MapThenSumSet(LAMBDA t : x[t], Threads) = F[Threads]
  BY DEF MapThenSumSet, MapThenFoldSet, Folded
<1>2. Folded(Threads, x, F)
  BY FoldExists
<1> HIDE DEF F
<1> QED
  BY <1>1, <1>2, FoldIsSum, QuotaLessorAssumption

\* The sum changes by what one thread's counter changes.
LEMMA SumUpdate ==
    ASSUME NEW x \in [Threads -> Nat], NEW n, SumsTo(Threads, x, n),
           NEW t \in Threads, NEW v \in Nat
    PROVE  /\ n \in Nat
           /\ n - x[t] + v \in Nat
           /\ SumsTo(Threads, [x EXCEPT ![t] = v], n - x[t] + v)
<1> DEFINE y == [x EXCEPT ![t] = v]
<1>1. y \in [Threads -> Nat] /\ \A u \in Threads \ {t} : y[u] = x[u]
  OBVIOUS
<1>2. Part(Threads, x, t) = x[t] /\ Part(Threads, y, t) = v
  BY DEF Part
<1> HIDE DEF y
<1>3. /\ n \in Nat /\ n - x[t] \in Nat
      /\ SumsTo(Threads, y, n - x[t] + v)
  BY <1>1, <1>2, SumChange
<1> QED
  BY <1>3 DEF y
-----------------------------------------------------------------------------
(***************************************************************************)
(* Units and bytes.                                                        *)
(***************************************************************************)

\* Units rounds up, by less than a unit.
LEMMA UnitsRoundsUp ==
    ASSUME NEW b \in Nat
    PROVE  /\ Units(b) \in Nat
           /\ Units(b) * QUOTA_UNIT_SIZE \in Nat
           /\ b <= Units(b) * QUOTA_UNIT_SIZE
           /\ Units(b) * QUOTA_UNIT_SIZE < b + QUOTA_UNIT_SIZE
<1> DEFINE U == QUOTA_UNIT_SIZE
           a == b + U - 1
<1>1. U \in Nat \ {0} /\ a \in Nat
  BY QuotaLessorAssumption
<1> HIDE DEF U
<1>2. a \div U \in Nat /\ (a \div U) * U <= a /\ a < (a \div U) * U + U
  BY <1>1
<1>3. Units(b) = a \div U
  BY DEF Units, U
<1> HIDE DEF a
<1>4. /\ Units(b) \in Nat
      /\ Units(b) * U \in Nat
      /\ Units(b) * U <= a
      /\ a < Units(b) * U + U
  BY <1>1, <1>2, <1>3
<1>5. a = b + U - 1
  BY DEF a
<1> QED
  BY <1>1, <1>4, <1>5 DEF U

\* More bytes do not take fewer units.
LEMMA UnitsMonotone ==
    ASSUME NEW a \in Nat, NEW b \in Nat, a <= b
    PROVE  Units(a) <= Units(b)
<1> DEFINE U == QUOTA_UNIT_SIZE
<1>1. U \in Nat \ {0}
  BY QuotaLessorAssumption
<1>2. Units(a) \in Nat /\ Units(a) * U < a + U
  BY UnitsRoundsUp
<1>3. Units(b) \in Nat /\ b <= Units(b) * U
  BY UnitsRoundsUp
<1> HIDE DEF U
<1>4. Units(a) * U < (Units(b) + 1) * U
  BY <1>1, <1>2, <1>3
<1>5. Units(a) < Units(b) + 1
  BY <1>1, <1>2, <1>3, <1>4, MulLess
<1> QED
  BY <1>2, <1>3, <1>5

\* Bytes in whole units are that many units.
LEMMA UnitsOfWhole ==
    ASSUME NEW b \in Nat, b % QUOTA_UNIT_SIZE = 0
    PROVE  Units(b) * QUOTA_UNIT_SIZE = b
<1> DEFINE U == QUOTA_UNIT_SIZE
           q == b \div U
           k == Units(b)
<1>1. U \in Nat \ {0}
  BY QuotaLessorAssumption
<1>2. k \in Nat /\ b <= k * U /\ k * U < b + U
  BY UnitsRoundsUp
<1>3. b % U = 0
  OBVIOUS
<1> HIDE DEF U, k
<1>4. b = q * U /\ q \in Nat
  BY <1>1, <1>3
<1> HIDE DEF q
<1>5. k < q + 1
  <2>1. k * U < (q + 1) * U
    BY <1>1, <1>2, <1>4
  <2> QED
    BY <1>1, <1>2, <1>4, <2>1, MulLess
<1>6. q < k + 1
  <2>1. q * U < (k + 1) * U
    BY <1>1, <1>2, <1>4
  <2> QED
    BY <1>1, <1>2, <1>4, <2>1, MulLess
<1>7. k = q
  BY <1>2, <1>4, <1>5, <1>6
<1>8. k * U = b
  BY <1>4, <1>7
<1> QED
  BY <1>8 DEF k, U

\* QUOTA_USE_MIN is at least two units.
LEMMA UseMin ==
    /\ QUOTA_UNIT_SIZE \in Nat \ {0}
    /\ QUOTA_USE_MIN \in Nat
    /\ 2 * QUOTA_UNIT_SIZE <= QUOTA_USE_MIN
<1> DEFINE U == QUOTA_UNIT_SIZE
           M == USE_MIN_UNITS
<1>1. U \in Nat \ {0} /\ M \in Nat /\ M - 2 \in Nat
  BY QuotaLessorAssumption
<1>2. QUOTA_USE_MIN = U * M
  BY DEF QUOTA_USE_MIN
<1> HIDE DEF U, M
<1>3. U * (M - 2) \in Nat /\ U * (M - 2) = U * M - 2 * U
  BY <1>1
<1>4. U * M \in Nat /\ 2 * U <= U * M
  BY <1>1, <1>3
<1> QED
  BY <1>1, <1>2, <1>4 DEF U
-----------------------------------------------------------------------------
(***************************************************************************)
(* The inductive invariant.  A lease under way is for more than the lessor *)
(* has; it asks for what is missing, or for more, but then for no more     *)
(* than QUOTA_USE_MIN.                                                     *)
(***************************************************************************)
LeaseCovers(t) ==
    ~Idle(t) =>
        /\ required(t, lease[t].size) \in 1 .. lease[t].use
        /\ \/ lease[t].use = required(t, lease[t].size)
           \/ lease[t].use <= QUOTA_USE_MIN

WithinLimit == charged <= total

InUnits == \A t \in Threads : used[t] % QUOTA_UNIT_SIZE = 0

Accounts ==
    /\ SumsTo(Threads, used, charged * QUOTA_UNIT_SIZE)
    /\ \E n : SumsTo(Threads, leased, n)

IInv ==
    /\ TypeOK
    /\ AvailableBounded
    /\ \A t \in Threads : LeaseCovers(t)
    /\ WithinLimit
    /\ InUnits
    /\ Accounts

\* quota_lessor_create establishes the invariant.
LEMMA InitInv == Init => IInv
<1> SUFFICES ASSUME Init PROVE IInv
  OBVIOUS
<1> USE DEF Init
<1>1. TypeOK
  BY QuotaLessorAssumption DEF TypeOK, None
<1>2. AvailableBounded
  BY UseMin DEF AvailableBounded
<1>3. \A t \in Threads : LeaseCovers(t)
  BY DEF LeaseCovers, Idle
<1>4. WithinLimit
  BY QuotaLessorAssumption DEF WithinLimit
<1>5. InUnits
  BY QuotaLessorAssumption DEF InUnits
<1>6. Accounts
  <2>1. charged * QUOTA_UNIT_SIZE = 0
    BY QuotaLessorAssumption
  <2> QED
    BY <2>1, SumOfZeros DEF Accounts
<1> QED
  BY <1>1, <1>2, <1>3, <1>4, <1>5, <1>6 DEF IInv

\* What the arithmetic below needs of thread t.
Counters(t) ==
    /\ total \in Nat /\ charged \in Nat
    /\ used[t] \in Nat /\ leased[t] \in Nat
    /\ lease[t].size \in Nat /\ lease[t].use \in Nat
    /\ leased[t] <= used[t]
    /\ used[t] - leased[t] < 2 * QUOTA_USE_MIN
    /\ used[t] % QUOTA_UNIT_SIZE = 0

\* The invariant says that of every thread.
LEMMA CountersOf == ASSUME IInv, NEW t \in Threads PROVE Counters(t)
<1>1. lease[t] \in [size : Nat, use : Nat]
  BY DEF IInv, TypeOK
<1> QED
  BY <1>1 DEF IInv, TypeOK, AvailableBounded, InUnits, Counters

\* A step that changes a lessor's counters and the quota alike keeps the
\* accounts, and the quota keeps a natural number of units.
LEMMA AccountsStep ==
    ASSUME IInv, NEW t \in Threads, NEW k \in Int, NEW v \in Nat,
           used[t] + k * QUOTA_UNIT_SIZE \in Nat,
           used' = [used EXCEPT ![t] = used[t] + k * QUOTA_UNIT_SIZE],
           leased' = [leased EXCEPT ![t] = v],
           charged' = charged + k
    PROVE  Accounts' /\ InUnits' /\ charged' \in Nat
<1> DEFINE U == QUOTA_UNIT_SIZE
           w == used[t] + k * U
<1>1. U \in Nat \ {0} /\ charged \in Nat
  BY QuotaLessorAssumption DEF IInv, TypeOK
<1>2. used \in [Threads -> Nat] /\ leased \in [Threads -> Nat]
  BY DEF IInv, TypeOK
<1>3. /\ charged * U - used[t] + w \in Nat
      /\ SumsTo(Threads, used', charged * U - used[t] + w)
  BY <1>2, SumUpdate DEF IInv, Accounts
<1>4. \E n : SumsTo(Threads, leased', n)
  BY <1>2, SumUpdate DEF IInv, Accounts
<1>5. (charged + k) * U = charged * U - used[t] + w
  <2>1. used[t] \in Nat
    BY <1>2
  <2> HIDE DEF U
  <2>2. (charged + k) * U = charged * U + k * U
    BY <1>1
  <2> QED
    BY <1>1, <2>1, <2>2
<1>6. Accounts'
  BY <1>3, <1>4, <1>5 DEF Accounts
<1>7. InUnits'
  <2>1. used[t] \in Nat /\ used[t] % U = 0
    BY <1>2 DEF IInv, InUnits
  <2>2. w % U = 0
    BY <1>1, <2>1, MultipleAdded
  <2> QED
    BY <1>2, <2>2 DEF IInv, InUnits
<1>8. charged + k \in Nat
  <2>1. (0 - 1) * U < (charged + k) * U
    BY <1>1, <1>3, <1>5
  <2>2. 0 - 1 < charged + k
    BY <1>1, <2>1, MulLess
  <2> QED
    BY <1>1, <2>2
<1> QED
  BY <1>6, <1>7, <1>8

\* The lessors of the other threads, and their leases, are not touched by a
\* step of t that changes only the entries of t.
LEMMA OthersKept ==
    ASSUME IInv, NEW t \in Threads,
           TypeOK',
           \A u \in Threads \ {t} : /\ used'[u] = used[u]
                                    /\ leased'[u] = leased[u]
                                    /\ lease'[u] = lease[u],
           leased'[t] <= used'[t],
           used'[t] - leased'[t] < 2 * QUOTA_USE_MIN,
           LeaseCovers(t)'
    PROVE  AvailableBounded' /\ \A u \in Threads : LeaseCovers(u)'
<1>1. ASSUME NEW u \in Threads
      PROVE  /\ leased'[u] <= used'[u]
             /\ used'[u] - leased'[u] < 2 * QUOTA_USE_MIN
             /\ LeaseCovers(u)'
  <2>1. CASE u = t
    BY <2>1
  <2>2. CASE u # t
    <3>1. used'[u] = used[u] /\ leased'[u] = leased[u] /\ lease'[u] = lease[u]
      BY <2>2
    <3>2. LeaseCovers(u)' <=> LeaseCovers(u)
      BY <3>1 DEF LeaseCovers, Idle, required
    <3> QED
      BY <3>1, <3>2 DEF IInv, AvailableBounded
  <2> QED
    BY <2>1, <2>2
<1>2. AvailableBounded'
  BY <1>1 DEF AvailableBounded
<1> QED
  BY <1>1, <1>2

\* quota_lease from what the lessor has left.
LEMMA LeaseFastInv ==
    ASSUME IInv, NEW t \in Threads, NEW size \in Sizes, LeaseFast(t, size)
    PROVE  IInv'
<1> USE DEF LeaseFast
<1>1. size \in Nat
  BY QuotaLessorAssumption
<1>2. TypeOK'
  BY <1>1 DEF IInv, TypeOK
<1>3. leased'[t] = leased[t] + size
  BY DEF IInv, TypeOK
<1>4. AvailableBounded' /\ \A u \in Threads : LeaseCovers(u)'
  <2>0. Counters(t)
    BY CountersOf
  <2>1. leased'[t] <= used'[t] /\ used'[t] - leased'[t] < 2 * QUOTA_USE_MIN
    BY <1>1, <1>3, <2>0, UseMin DEF Counters
  <2>2. LeaseCovers(t)'
    BY DEF LeaseCovers, Idle
  <2>3. \A u \in Threads \ {t} : leased'[u] = leased[u]
    BY DEF IInv, TypeOK
  <2> QED
    BY <1>2, <2>1, <2>2, <2>3, OthersKept
<1>5. Accounts' /\ InUnits'
  <2>1. Counters(t)
    BY CountersOf
  <2> DEFINE k == 0
  <2>2. k \in Int /\ used[t] + k * QUOTA_UNIT_SIZE = used[t] /\ charged + k = charged
    BY <2>1, QuotaLessorAssumption DEF Counters
  <2> HIDE DEF k
  <2>3. used' = [used EXCEPT ![t] = used[t] + k * QUOTA_UNIT_SIZE]
    BY <2>2 DEF IInv, TypeOK
  <2>4. charged' = charged + k
    BY <2>2
  <2>5. leased' = [leased EXCEPT ![t] = leased[t] + size]
    OBVIOUS
  <2>6. leased[t] + size \in Nat /\ used[t] + k * QUOTA_UNIT_SIZE \in Nat
    BY <1>1, <2>1, <2>2 DEF Counters
  <2> HIDE DEF LeaseFast
  <2> QED
    BY <2>2, <2>3, <2>4, <2>5, <2>6, AccountsStep
<1>6. WithinLimit'
  BY DEF IInv, WithinLimit
<1> QED
  BY <1>2, <1>4, <1>5, <1>6 DEF IInv

\* A step that leaves the counters alone and changes only the lease of t.
LEMMA LeaseOnlyInv ==
    ASSUME IInv, NEW t \in Threads, NEW l \in [size : Nat, use : Nat],
           lease' = [lease EXCEPT ![t] = l],
           UNCHANGED <<total, charged, used, leased>>,
           LeaseCovers(t)'
    PROVE  IInv'
<1>1. TypeOK'
  BY DEF IInv, TypeOK
<1>2. AvailableBounded' /\ \A u \in Threads : LeaseCovers(u)'
  <2>1. \A u \in Threads \ {t} : lease'[u] = lease[u]
    BY DEF IInv, TypeOK
  <2>2. leased'[t] <= used'[t] /\ used'[t] - leased'[t] < 2 * QUOTA_USE_MIN
    BY CountersOf DEF Counters
  <2> QED
    BY <1>1, <2>1, <2>2, OthersKept
<1>3. Accounts' /\ InUnits' /\ WithinLimit'
  BY DEF IInv, Accounts, InUnits, WithinLimit
<1> QED
  BY <1>1, <1>2, <1>3 DEF IInv

\* quota_lease before its first quota_use.
LEMMA LeaseStartInv ==
    ASSUME IInv, NEW t \in Threads, NEW size \in Sizes, LeaseStart(t, size)
    PROVE  IInv'
<1> DEFINE r == required(t, size)
           use == IF r > QUOTA_USE_MIN THEN r ELSE QUOTA_USE_MIN
           l == [size |-> size, use |-> use]
<1>0. Counters(t)
  BY CountersOf
<1>1. size \in Nat /\ r \in Nat \ {0}
  BY <1>0, QuotaLessorAssumption DEF LeaseStart, required, Counters
<1>2. use \in Nat /\ r <= use /\ (use = r \/ use <= QUOTA_USE_MIN)
  BY <1>1, UseMin
<1>3. lease' = [lease EXCEPT ![t] = l]
  BY DEF LeaseStart
<1>4. UNCHANGED <<total, charged, used, leased>>
  BY DEF LeaseStart
<1> HIDE DEF use
<1>5. lease'[t].size = size /\ lease'[t].use = use
  BY <1>3 DEF IInv, TypeOK
<1>6. required(t, lease[t].size)' = r
  BY <1>4, <1>5 DEF required
<1>7. LeaseCovers(t)'
  BY <1>1, <1>2, <1>5, <1>6 DEF LeaseCovers
<1> QED
  BY <1>1, <1>2, <1>3, <1>4, <1>7, LeaseOnlyInv

\* quota_lease halves what it asks for.
LEMMA LeaseHalveInv ==
    ASSUME IInv, NEW t \in Threads, LeaseHalve(t)
    PROVE  IInv'
<1> DEFINE size == lease[t].size
           use == lease[t].use
           r == required(t, size)
           l == [size |-> size, use |-> Half(use)]
<1>1. size \in Nat /\ use \in Nat
  BY CountersOf DEF Counters
<1>2. r \in 1 .. use /\ (use = r \/ use <= QUOTA_USE_MIN)
  BY DEF LeaseHalve, IInv, LeaseCovers
<1>3. lease' = [lease EXCEPT ![t] = l]
  <2>1. [lease[t] EXCEPT !.use = Half(use)] = l
    <3>1. lease[t] \in [size : Nat, use : Nat]
      BY DEF IInv, TypeOK
    <3> QED
      BY <3>1
  <2> QED
    BY <2>1 DEF LeaseHalve, IInv, TypeOK
<1>4. UNCHANGED <<total, charged, used, leased>>
  BY DEF LeaseHalve
<1>5. r <= Half(use) /\ Half(use) \in Nat /\ Half(use) < use
  BY <1>1, <1>2 DEF LeaseHalve, Half
<1>6. Half(use) <= QUOTA_USE_MIN
  BY <1>1, <1>2, <1>5, UseMin
<1>7. lease'[t].size = size /\ lease'[t].use = Half(use)
  BY <1>3 DEF IInv, TypeOK
<1>8. required(t, lease[t].size)' = r
  BY <1>4, <1>7 DEF required
<1>9. LeaseCovers(t)'
  BY <1>1, <1>2, <1>5, <1>6, <1>7, <1>8 DEF LeaseCovers
<1> QED
  BY <1>1, <1>3, <1>4, <1>5, <1>9, LeaseOnlyInv

\* quota_lease gives up.
LEMMA LeaseFailInv ==
    ASSUME IInv, NEW t \in Threads, LeaseFail(t)
    PROVE  IInv'
<1>1. None \in [size : Nat, use : Nat]
  BY DEF None
<1>2. lease' = [lease EXCEPT ![t] = None] /\ UNCHANGED <<total, charged, used, leased>>
  BY DEF LeaseFail
<1>3. LeaseCovers(t)'
  BY <1>2 DEF LeaseCovers, Idle, IInv, TypeOK
<1> QED
  BY <1>1, <1>2, <1>3, LeaseOnlyInv

\* quota_use succeeds: what the lessor is short of is taken, and what it has
\* left then is less than a unit more than QUOTA_USE_MIN.
LEMMA LeaseUseInv ==
    ASSUME IInv, NEW t \in Threads, LeaseUse(t)
    PROVE  IInv'
<1> DEFINE size == lease[t].size
           use == lease[t].use
           r == required(t, size)
           U == QUOTA_UNIT_SIZE
           k == Units(use)
<1>1. Counters(t)
  BY CountersOf
<1>2. size \in Nat /\ use \in Nat
  BY <1>1 DEF Counters
<1>3. r \in 1 .. use /\ (use = r \/ use <= QUOTA_USE_MIN)
  BY DEF LeaseUse, IInv, LeaseCovers
<1>4. k \in Nat /\ k * U \in Nat /\ use <= k * U /\ k * U < use + U
  BY <1>2, UnitsRoundsUp
<1>5. /\ charged + k <= total
      /\ charged' = charged + k
      /\ used' = [used EXCEPT ![t] = used[t] + k * U]
      /\ leased' = [leased EXCEPT ![t] = leased[t] + size]
      /\ lease' = [lease EXCEPT ![t] = None]
      /\ total' = total
  BY DEF LeaseUse
<1>6. r = size + leased[t] - used[t]
  BY DEF required
<1> HIDE DEF size, use, r, k
<1>7. TypeOK'
  <2>1. None \in [size : Nat, use : Nat]
    BY DEF None
  <2>2. used[t] + k * U \in Nat /\ leased[t] + size \in Nat /\ charged + k \in Nat
    BY <1>1, <1>2, <1>4 DEF Counters
  <2> HIDE DEF U
  <2> QED
    BY <1>5, <2>1, <2>2 DEF IInv, TypeOK
<1>8. AvailableBounded' /\ \A u \in Threads : LeaseCovers(u)'
  <2>1. used'[t] = used[t] + k * U /\ leased'[t] = leased[t] + size
    BY <1>5 DEF IInv, TypeOK
  <2>2. k * U - r = used'[t] - leased'[t]
    BY <1>1, <1>2, <1>4, <1>6, <2>1 DEF Counters
  <2>3. 0 <= k * U - r /\ k * U - r < 2 * QUOTA_USE_MIN
    BY <1>2, <1>3, <1>4, UseMin
  <2>4. used'[t] \in Nat /\ leased'[t] \in Nat
    BY <1>7 DEF TypeOK
  <2>5. leased'[t] <= used'[t] /\ used'[t] - leased'[t] < 2 * QUOTA_USE_MIN
    BY <2>2, <2>3, <2>4
  <2>6. LeaseCovers(t)'
    BY <1>5 DEF LeaseCovers, Idle, IInv, TypeOK
  <2>7. \A u \in Threads \ {t} : /\ used'[u] = used[u]
                                  /\ leased'[u] = leased[u]
                                  /\ lease'[u] = lease[u]
    BY <1>5 DEF IInv, TypeOK
  <2> QED
    BY <1>7, <2>5, <2>6, <2>7, OthersKept
<1>9. Accounts' /\ InUnits'
  <2>1. used[t] + k * U \in Nat /\ leased[t] + size \in Nat /\ k \in Int
    BY <1>1, <1>2, <1>4 DEF Counters
  <2> QED
    BY <1>5, <2>1, AccountsStep
<1>10. WithinLimit'
  BY <1>5 DEF WithinLimit
<1> QED
  BY <1>7, <1>8, <1>9, <1>10 DEF IInv

\* The quota takes back k units from the lessor of t, which leaves it what
\* its leases need and less than twice QUOTA_USE_MIN more.
LEMMA GiveBackInv ==
    ASSUME IInv, NEW t \in Threads, NEW k \in Nat, NEW v \in Nat,
           charged' = charged - k,
           used' = [used EXCEPT ![t] = @ - k * QUOTA_UNIT_SIZE],
           leased' = [leased EXCEPT ![t] = v],
           UNCHANGED <<total, lease>>,
           Idle(t),
           v <= used[t] - k * QUOTA_UNIT_SIZE,
           used[t] - k * QUOTA_UNIT_SIZE - v < 2 * QUOTA_USE_MIN
    PROVE  IInv'
<1> DEFINE U == QUOTA_UNIT_SIZE
           n == 0 - k
<1>1. Counters(t) /\ U \in Nat \ {0}
  BY CountersOf, QuotaLessorAssumption
<1>2. k * U \in Nat /\ n * U = 0 - k * U /\ n \in Int
  <2> HIDE DEF U
  <2> QED
    BY <1>1
<1>3. used[t] - k * U \in Nat /\ used[t] - k * U = used[t] + n * U
  BY <1>1, <1>2 DEF Counters
<1>4. charged' = charged + n
  BY <1>1 DEF Counters
<1> HIDE DEF n
<1>5. used' = [used EXCEPT ![t] = used[t] + n * U]
  BY <1>3
<1>6. Accounts' /\ InUnits' /\ charged' \in Nat
  <2> HIDE DEF U
  <2>1. used[t] + n * U \in Nat
    BY <1>3
  <2> QED
    BY <1>2, <1>4, <1>5, <2>1, AccountsStep DEF U
<1>7. TypeOK'
  BY <1>3, <1>6 DEF IInv, TypeOK
<1>8. AvailableBounded' /\ \A u \in Threads : LeaseCovers(u)'
  <2>1. used'[t] = used[t] - k * U /\ leased'[t] = v
    BY DEF IInv, TypeOK
  <2>2. LeaseCovers(t)'
    BY DEF LeaseCovers, Idle
  <2>3. \A u \in Threads \ {t} : used'[u] = used[u] /\ leased'[u] = leased[u]
    BY DEF IInv, TypeOK
  <2> QED
    BY <1>7, <2>1, <2>2, <2>3, OthersKept
<1>9. WithinLimit'
  BY <1>1 DEF IInv, WithinLimit, Counters
<1> QED
  BY <1>6, <1>7, <1>8, <1>9 DEF IInv

\* quota_end_lease, with and without a release.
LEMMA EndLeaseInv ==
    ASSUME IInv, NEW t \in Threads, NEW size \in 1 .. leased[t], quota_end_lease(t, size)
    PROVE  IInv'
<1> DEFINE available == used[t] - (leased[t] - size)
           release == available - QUOTA_USE_MIN - QUOTA_UNIT_SIZE
           v == leased[t] - size
<1>1. Counters(t)
  BY CountersOf
<1>2. v \in Nat /\ size \in Nat /\ available \in Nat
  BY <1>1 DEF Counters
<1>3. /\ Idle(t)
      /\ leased' = [leased EXCEPT ![t] = v]
      /\ UNCHANGED <<total, lease>>
  BY DEF quota_end_lease
<1>4. CASE available >= 2 * QUOTA_USE_MIN
  <2> DEFINE k == Units(release)
  <2>1. /\ charged' = charged - k
        /\ used' = [used EXCEPT ![t] = @ - k * QUOTA_UNIT_SIZE]
    BY <1>4 DEF quota_end_lease
  <2>2. release \in Nat /\ release = available - QUOTA_USE_MIN - QUOTA_UNIT_SIZE
    BY <1>2, <1>4, UseMin
  <2>3. /\ k \in Nat /\ k * QUOTA_UNIT_SIZE \in Nat
        /\ release <= k * QUOTA_UNIT_SIZE
        /\ k * QUOTA_UNIT_SIZE < release + QUOTA_UNIT_SIZE
    BY <2>2, UnitsRoundsUp
  <2> HIDE DEF k, release
  <2>4. /\ v <= used[t] - k * QUOTA_UNIT_SIZE
        /\ used[t] - k * QUOTA_UNIT_SIZE - v < 2 * QUOTA_USE_MIN
    BY <1>1, <1>2, <2>2, <2>3, UseMin DEF Counters
  <2> HIDE DEF v
  <2> QED
    BY <1>2, <1>3, <2>1, <2>3, <2>4, GiveBackInv
<1>5. CASE ~(available >= 2 * QUOTA_USE_MIN)
  <2> DEFINE k == 0
  <2>1. UNCHANGED <<charged, used>>
    BY <1>5 DEF quota_end_lease
  <2>2. k \in Nat /\ used[t] - k * QUOTA_UNIT_SIZE = used[t] /\ charged - k = charged
    BY <1>1, QuotaLessorAssumption DEF Counters
  <2> HIDE DEF k
  <2>3. used' = [used EXCEPT ![t] = @ - k * QUOTA_UNIT_SIZE] /\ charged' = charged - k
    BY <2>1, <2>2 DEF IInv, TypeOK
  <2>4. v <= used[t] /\ used[t] - v < 2 * QUOTA_USE_MIN
    BY <1>1, <1>2, <1>5, UseMin DEF Counters
  <2>5. /\ v <= used[t] - k * QUOTA_UNIT_SIZE
        /\ used[t] - k * QUOTA_UNIT_SIZE - v < 2 * QUOTA_USE_MIN
    BY <2>2, <2>4
  <2> HIDE DEF v
  <2> QED
    BY <1>2, <1>3, <2>2, <2>3, <2>5, GiveBackInv
<1> QED
  BY <1>4, <1>5

\* quota_lessor_destroy gives everything back.
LEMMA DestroyInv ==
    ASSUME IInv, NEW t \in Threads, quota_lessor_destroy(t)
    PROVE  IInv'
<1> DEFINE k == Units(used[t])
<1>1. Counters(t)
  BY CountersOf
<1>2. k \in Nat /\ k * QUOTA_UNIT_SIZE = used[t]
  BY <1>1, UnitsRoundsUp, UnitsOfWhole DEF Counters
<1>3. /\ charged' = charged - k
      /\ used' = [used EXCEPT ![t] = 0]
      /\ leased' = [leased EXCEPT ![t] = 0]
      /\ Idle(t) /\ UNCHANGED <<total, lease>>
  BY DEF quota_lessor_destroy
<1> HIDE DEF k
<1>4. used[t] - k * QUOTA_UNIT_SIZE = 0
  BY <1>1, <1>2 DEF Counters
<1>5. used' = [used EXCEPT ![t] = @ - k * QUOTA_UNIT_SIZE]
  BY <1>3, <1>4
<1>6. 0 <= used[t] - k * QUOTA_UNIT_SIZE /\ used[t] - k * QUOTA_UNIT_SIZE - 0 < 2 * QUOTA_USE_MIN
  BY <1>4, UseMin
<1> QED
  BY <1>2, <1>3, <1>5, <1>6, GiveBackInv

\* quota_set.
LEMMA SetTotalInv ==
    ASSUME IInv, NEW limit \in Totals, SetTotal(limit)
    PROVE  IInv'
<1> USE DEF SetTotal
<1>1. TypeOK'
  BY QuotaLessorAssumption DEF IInv, TypeOK
<1>2. AvailableBounded' /\ InUnits' /\ Accounts'
  BY DEF IInv, AvailableBounded, InUnits, Accounts
<1>3. \A t \in Threads : LeaseCovers(t)'
  BY DEF IInv, LeaseCovers, Idle, required
<1>4. WithinLimit'
  BY DEF WithinLimit
<1> QED
  BY <1>1, <1>2, <1>3, <1>4 DEF IInv

\* Every step of every thread keeps the invariant.
LEMMA NextInv == IInv /\ [Next]_vars => IInv'
<1> SUFFICES ASSUME IInv, [Next]_vars PROVE IInv'
  OBVIOUS
<1>1. ASSUME NEW t \in Threads, Call(t) PROVE IInv'
  <2>1. CASE \E size \in Sizes : LeaseFast(t, size)
    BY <2>1, LeaseFastInv
  <2>2. CASE \E size \in Sizes : LeaseStart(t, size)
    BY <2>2, LeaseStartInv
  <2>3. CASE \E size \in 1 .. leased[t] : quota_end_lease(t, size)
    BY <2>3, EndLeaseInv
  <2>4. CASE quota_lessor_destroy(t)
    BY <2>4, DestroyInv
  <2> QED
    BY <1>1, <2>1, <2>2, <2>3, <2>4 DEF Call
<1>2. ASSUME NEW t \in Threads, Lease(t) PROVE IInv'
  BY <1>2, LeaseUseInv, LeaseHalveInv, LeaseFailInv DEF Lease
<1>3. ASSUME NEW limit \in Totals, SetTotal(limit) PROVE IInv'
  BY <1>3, SetTotalInv
<1>4. CASE UNCHANGED vars
  BY <1>4 DEF vars, IInv, TypeOK, AvailableBounded, LeaseCovers, Idle, required,
              WithinLimit, InUnits, Accounts
<1> QED
  BY <1>1, <1>2, <1>3, <1>4 DEF Next

\* The invariant implies what the run checks; the bytes leased are fewer than
\* the bytes taken thread by thread, hence in sum.
LEMMA InvMatches == IInv => QuotaMatches
<1> SUFFICES ASSUME IInv PROVE QuotaMatches
  OBVIOUS
<1> DEFINE U == QUOTA_UNIT_SIZE
<1>1. used \in [Threads -> Nat] /\ leased \in [Threads -> Nat]
  BY DEF IInv, TypeOK
<1>2. MapThenSumSet(LAMBDA t : used[t], Threads) = charged * U
  BY <1>1, SumIsUnique DEF IInv, Accounts
<1>3. PICK n : SumsTo(Threads, leased, n)
  BY DEF IInv, Accounts
<1>4. MapThenSumSet(LAMBDA t : leased[t], Threads) = n
  BY <1>1, <1>3, SumIsUnique
<1>5. n <= charged * U
  <2>1. \A t \in Threads : leased[t] <= used[t]
    BY DEF IInv, AvailableBounded
  <2>2. SumsTo(Threads, used, charged * U)
    BY DEF IInv, Accounts
  <2> QED
    BY <1>1, <1>3, <2>1, <2>2, SumMonotone, QuotaLessorAssumption
<1>6. n <= total * U
  <2>1. U \in Nat /\ charged \in Nat /\ total \in Nat /\ charged <= total
    BY QuotaLessorAssumption DEF IInv, TypeOK, WithinLimit
  <2>2. n \in Nat
    BY <1>3 DEF SumsTo, Adds
  <2> HIDE DEF U
  <2>3. (total - charged) * U >= 0 /\ (total - charged) * U = total * U - charged * U
    BY <2>1
  <2> QED
    BY <1>5, <2>1, <2>2, <2>3
<1>7. \A t \in Threads : used[t] % U = 0
  BY DEF IInv, InUnits
<1> QED
  BY <1>2, <1>4, <1>6, <1>7 DEF QuotaMatches

\* A lessor never leases more than it took from the quota, and never keeps
\* twice QUOTA_USE_MIN unleased: the reserve left by quota_end_lease and the
\* rounding in quota_use stay within it.
THEOREM LessorsBounded == Spec => [](TypeOK /\ AvailableBounded)
<1>1. IInv => TypeOK /\ AvailableBounded
  BY DEF IInv
<1> QED
  BY <1>1, InitInv, NextInv, PTL DEF Spec

\* What the source quota has charged is, to the unit, what all the lessors
\* took, whatever they lease, return and destroy at once; and what is leased
\* by all threads together stays within the limit.
THEOREM QuotaAccounted == Spec => []QuotaMatches
BY InitInv, NextInv, InvMatches, PTL DEF Spec

\* quota_lease gives up only if the quota had, at its last attempt, less left
\* than twice what the lease is short of.
LEMMA RefusedStep ==
    ASSUME IInv, Next, NEW t \in Threads,
           ~Idle(t), lease'[t] = None, leased'[t] = leased[t]
    PROVE  charged + Units(2 * required(t, lease[t].size)) > total
<1> DEFINE size == lease[t].size
           use == lease[t].use
           r == required(t, size)
<1>1. Counters(t)
  BY CountersOf
<1>2. r \in 1 .. use
  BY DEF IInv, LeaseCovers
<1>3. lease[t] # None
  BY DEF Idle
<1>4. LeaseFail(t)
  <2>1. ASSUME NEW u \in Threads, Call(u) PROVE FALSE
    <3>1. ASSUME NEW z \in Sizes, LeaseStart(u, z) PROVE FALSE
      <4>1. CASE u = t
        BY <1>3, <3>1, <4>1 DEF LeaseStart, Idle
      <4>2. CASE u # t
        BY <1>3, <3>1, <4>2 DEF LeaseStart, IInv, TypeOK
      <4> QED
        BY <4>1, <4>2
    <3>2. ~ \E z \in Sizes : LeaseStart(u, z)
      BY <3>1
    <3> QED
      BY <1>3, <2>1, <3>2 DEF Call, LeaseFast, quota_end_lease, quota_lessor_destroy
  <2>2. \A limit \in Totals : ~SetTotal(limit)
    BY <1>3 DEF SetTotal
  <2>3. ASSUME NEW u \in Threads \ {t}, Lease(u) PROVE FALSE
    BY <1>3, <2>3 DEF Lease, LeaseUse, LeaseHalve, LeaseFail, IInv, TypeOK
  <2>4. ~LeaseUse(t)
    <3>1. size > 0
      BY <1>1, <1>2 DEF required, Counters
    <3>2. ASSUME LeaseUse(t) PROVE leased'[t] = leased[t] + size
      BY <3>2 DEF LeaseUse, IInv, TypeOK
    <3> QED
      BY <1>1, <3>1, <3>2 DEF Counters
  <2>5. ~LeaseHalve(t)
    <3>1. ASSUME LeaseHalve(t) PROVE lease'[t].use = Half(use)
      BY <3>1 DEF LeaseHalve, IInv, TypeOK
    <3>2. ASSUME LeaseHalve(t) PROVE Half(use) > 0
      BY <1>1, <1>2, <3>2 DEF LeaseHalve, Half, Counters
    <3> QED
      BY <3>1, <3>2 DEF None
  <2> QED
    BY <2>1, <2>2, <2>3, <2>4, <2>5 DEF Next, Lease
<1>5. use \in Nat /\ use <= 2 * r /\ 2 * r \in Nat
  <2>1. Half(use) < r /\ use \in Nat
    BY <1>1, <1>4 DEF LeaseFail, Counters
  <2> QED
    BY <1>2, <2>1 DEF Half
<1>6. Units(use) <= Units(2 * r) /\ Units(use) \in Nat /\ Units(2 * r) \in Nat
  BY <1>5, UnitsMonotone, UnitsRoundsUp
<1>7. charged + Units(use) > total
  BY <1>4 DEF LeaseFail, Refused
<1> QED
  BY <1>1, <1>6, <1>7 DEF Counters

\* Halving what quota_lease asks for does not give up early: a refusal means
\* that the quota had less left, at the last attempt, than twice what the
\* lease was short of.
THEOREM RefusalMeansShort == Spec => RefusedOnlyWhenShort
<1> DEFINE Short == \A t \in Threads :
             ~Idle(t) /\ lease'[t] = None /\ leased'[t] = leased[t]
                => charged + Units(2 * required(t, lease[t].size)) > total
<1>1. IInv /\ [Next]_vars => [Short]_vars
  BY RefusedStep
<1> QED
  BY <1>1, InitInv, NextInv, PTL DEF Spec, RefusedOnlyWhenShort
=============================================================================
