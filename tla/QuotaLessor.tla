---------------------------- MODULE QuotaLessor ----------------------------
(***************************************************************************)
(* The quota lessors of include/small/quota_lessor.h.  Every thread has a  *)
(* lessor of its own that takes large pieces from the common quota and     *)
(* leases bytes of them.  quota_use and quota_release are single steps, as *)
(* AtomicQuota promises; between two attempts of the loop in quota_lease   *)
(* the other threads run.                                                  *)
(***************************************************************************)
EXTENDS Integers, FiniteSets, FiniteSetsExt

CONSTANTS Threads,
          QUOTA_UNIT_SIZE,  \* bytes in a unit of the quota
          USE_MIN_UNITS,    \* units in QUOTA_USE_MIN
          Totals,           \* limits of the quota, in units
          Sizes             \* sizes leased

ASSUME QuotaLessorAssumption ==
    /\ IsFiniteSet(Threads)
    /\ QUOTA_UNIT_SIZE \in Nat \ {0}
    /\ USE_MIN_UNITS \in Nat \ {0, 1}
    /\ Totals \subseteq Nat
    /\ Sizes \subseteq Nat

VARIABLES total,    \* limit of the source quota, in units
          charged,  \* usage of the source quota, in units
          used,     \* lessor->used of each thread
          leased,   \* lessor->leased of each thread
          lease     \* the quota_lease a thread is in: its size and "use", or None

vars == <<total, charged, used, leased, lease>>

QUOTA_USE_MIN == QUOTA_UNIT_SIZE * USE_MIN_UNITS

None == [size |-> 0, use |-> 0]

\* Units that quota_use charges, and quota_release gives back, for so many
\* bytes.
Units(bytes) == (bytes + QUOTA_UNIT_SIZE - 1) \div QUOTA_UNIT_SIZE

TypeOK ==
    /\ total \in Nat /\ charged \in Nat
    /\ used \in [Threads -> Nat]
    /\ leased \in [Threads -> Nat]
    /\ lease \in [Threads -> [size : Nat, use : Nat]]

\* quota_lessor_create in every thread
Init ==
    /\ total \in Totals /\ total >= USE_MIN_UNITS
    /\ charged = 0
    /\ used = [t \in Threads |-> 0]
    /\ leased = [t \in Threads |-> 0]
    /\ lease = [t \in Threads |-> None]

Idle(t) == lease[t] = None

\* Bytes missing in lessor t for a lease of this size.
required(t, size) == size + leased[t] - used[t]

\* quota_lease when what is left in the lessor is enough.
LeaseFast(t, size) ==
    /\ Idle(t)
    /\ leased[t] + size <= used[t]
    /\ leased' = [leased EXCEPT ![t] = @ + size]
    /\ UNCHANGED <<total, charged, used, lease>>

LeaseStart(t, size) ==
    /\ Idle(t)
    /\ leased[t] + size > used[t]
    /\ lease' = [lease EXCEPT ![t] =
                   [size |-> size,
                    use |-> IF required(t, size) > QUOTA_USE_MIN THEN required(t, size)
                                                                 ELSE QUOTA_USE_MIN]]
    /\ UNCHANGED <<total, charged, used, leased>>

\* Altered form of LeaseUse: the bytes asked for are counted, not the units
\* taken.
LeaseUseUnrounded(t) ==
    /\ ~Idle(t)
    /\ charged + Units(lease[t].use) <= total
    /\ charged' = charged + Units(lease[t].use)
    /\ used' = [used EXCEPT ![t] = @ + lease[t].use]
    /\ leased' = [leased EXCEPT ![t] = @ + lease[t].size]
    /\ lease' = [lease EXCEPT ![t] = None]
    /\ UNCHANGED total

\* quota_use succeeds.
LeaseUse(t) ==
    /\ ~Idle(t)
    /\ charged + Units(lease[t].use) <= total
    /\ charged' = charged + Units(lease[t].use)
    /\ used' = [used EXCEPT ![t] = @ + Units(lease[t].use) * QUOTA_UNIT_SIZE]
    /\ leased' = [leased EXCEPT ![t] = @ + lease[t].size]
    /\ lease' = [lease EXCEPT ![t] = None]
    /\ UNCHANGED total

\* Altered form of Half: rounded up.
HalfUp(use) == (use + 1) \div 2

\* Altered form of Half: smaller steps are skipped.
HalfTwice(use) == use \div 4

Half(use) == use \div 2

Refused(t) == charged + Units(lease[t].use) > total

\* quota_use fails and half of it is still enough.
LeaseHalve(t) ==
    /\ ~Idle(t) /\ Refused(t)
    /\ Half(lease[t].use) >= required(t, lease[t].size)
    /\ lease' = [lease EXCEPT ![t].use = Half(@)]
    /\ UNCHANGED <<total, charged, used, leased>>

\* quota_use fails and half of it would not do: quota_lease returns -1.
LeaseFail(t) ==
    /\ ~Idle(t) /\ Refused(t)
    /\ Half(lease[t].use) < required(t, lease[t].size)
    /\ lease' = [lease EXCEPT ![t] = None]
    /\ UNCHANGED <<total, charged, used, leased>>

\* Altered form of quota_end_lease: nothing is ever released.
quota_end_leaseHoards(t, size) ==
    /\ Idle(t)
    /\ size <= leased[t]
    /\ leased' = [leased EXCEPT ![t] = @ - size]
    /\ UNCHANGED <<total, charged, used, lease>>

\* What has accumulated beyond twice QUOTA_USE_MIN is released but for a
\* reserve.
quota_end_lease(t, size) ==
    LET available == used[t] - (leased[t] - size)
        release == available - QUOTA_USE_MIN - QUOTA_UNIT_SIZE
    IN  /\ Idle(t)
        /\ size <= leased[t]
        /\ leased' = [leased EXCEPT ![t] = @ - size]
        /\ IF available >= 2 * QUOTA_USE_MIN
           THEN /\ charged' = charged - Units(release)
                /\ used' = [used EXCEPT ![t] = @ - Units(release) * QUOTA_UNIT_SIZE]
           ELSE UNCHANGED <<charged, used>>
        /\ UNCHANGED <<total, lease>>

\* quota_lessor_destroy, after which the thread may create the lessor anew.
quota_lessor_destroy(t) ==
    /\ Idle(t)
    /\ used[t] # 0
    /\ charged' = charged - Units(used[t])
    /\ used' = [used EXCEPT ![t] = 0]
    /\ leased' = [leased EXCEPT ![t] = 0]
    /\ UNCHANGED <<total, lease>>

\* quota_set fails below the current usage.
SetTotal(limit) ==
    /\ charged <= limit
    /\ total' = limit
    /\ UNCHANGED <<charged, used, leased, lease>>

Call(t) ==
    \/ \E size \in Sizes : LeaseFast(t, size) \/ LeaseStart(t, size)
    \/ \E size \in 1 .. leased[t] : quota_end_lease(t, size)
    \/ quota_lessor_destroy(t)

Lease(t) == LeaseUse(t) \/ LeaseHalve(t) \/ LeaseFail(t)

Next ==
    \/ \E t \in Threads : Call(t) \/ Lease(t)
    \/ \E limit \in Totals : SetTotal(limit)

\* A thread inside quota_lease goes on.
Spec == Init /\ [][Next]_vars /\ \A t \in Threads : WF_vars(Lease(t))
-----------------------------------------------------------------------------
\* A lessor never leases more than it took from the quota, and holds back
\* less than twice QUOTA_USE_MIN unleased.
AvailableBounded ==
    \A t \in Threads :
        /\ leased[t] <= used[t]
        /\ used[t] - leased[t] < 2 * QUOTA_USE_MIN

\* Lessors take from the quota in whole units (asserted when a lessor is
\* destroyed), what the quota has charged is what the lessors took, and the
\* bytes leased by all threads together never exceed the limit.
QuotaMatches ==
    /\ \A t \in Threads : used[t] % QUOTA_UNIT_SIZE = 0
    /\ charged * QUOTA_UNIT_SIZE = MapThenSumSet(LAMBDA t : used[t], Threads)
    /\ MapThenSumSet(LAMBDA t : leased[t], Threads) <= total * QUOTA_UNIT_SIZE

\* quota_lease returns: it does not halve for ever.
LeaseReturns == \A t \in Threads : ~Idle(t) ~> Idle(t)

\* quota_lease refuses only if, at its last attempt, the quota had less left
\* than twice what the lease is short of: halving does not give up early,
\* whatever the other threads take and return in between.
RefusedOnlyWhenShort ==
    [][\A t \in Threads :
         ~Idle(t) /\ lease'[t] = None /\ leased'[t] = leased[t]
            => charged + Units(2 * required(t, lease[t].size)) > total]_vars

\* Not so: what the comment of quota_lease says of -1: "Error, not enough quota".
FailsOnlyWithoutQuota ==
    [][\A t \in Threads :
         LeaseFail(t) => charged + Units(required(t, lease[t].size)) > total]_vars
=============================================================================
