------------------------------- MODULE Quota -------------------------------
(***************************************************************************)
(* The lock-free memory quota of include/small/quota.h, at the grain of    *)
(* its atomic accesses.  The limit and the usage share one 64-bit word,    *)
(* counted in units of QUOTA_UNIT_SIZE bytes; every operation loads the    *)
(* word, computes a new one and installs it with a weak compare-exchange,  *)
(* starting over when that fails.                                          *)
(*                                                                         *)
(* The word is a record [total, used]; both halves are 32-bit in the code  *)
(* and range over 0..UINT32_MAX here, with the code's wrap-around.         *)
(***************************************************************************)
EXTENDS Integers

CONSTANTS NThreads,         \* how many threads share the quota
          QUOTA_UNIT_SIZE,  \* bytes in a unit
          UINT32_MAX,       \* the largest value of one half of the word
          Totals,           \* limits, in bytes, that callers ask for
          Sizes,            \* sizes, in bytes, that callers use and release
          MaxSpurious       \* spurious compare-exchange failures in one call

ASSUME QuotaAssumption ==
    /\ NThreads \in Nat \ {0}
    /\ QUOTA_UNIT_SIZE \in Nat \ {0}
    /\ UINT32_MAX \in Nat \ {0}
    /\ Totals \subseteq 0 .. QUOTA_UNIT_SIZE * UINT32_MAX
    /\ Sizes \subseteq Nat \ {0}
    /\ MaxSpurious \in Nat

VARIABLES value,     \* quota->value
          op,        \* the call a thread is in
          units,     \* its argument, in units
          pc,        \* where the thread is in the retry loop
          seen,      \* the local copy of the word, `value' in the code
          spurious,  \* spurious failures so far in this call
          ret,       \* the outcome of the thread's last completed call
          held       \* units the thread has used and not yet released

vars == <<value, op, units, pc, seen, spurious, ret, held>>

Threads == 1 .. NThreads

QUOTA_MAX == QUOTA_UNIT_SIZE * UINT32_MAX

ToUnits(size) == (size + (QUOTA_UNIT_SIZE - 1)) \div QUOTA_UNIT_SIZE

\* uint32_t new_used_in_units = used_in_units + size_in_units
NewUsed(v, n) == (v.used + n) % (UINT32_MAX + 1)

Zero == [total |-> 0, used |-> 0]
Words == [total : 0 .. UINT32_MAX, used : 0 .. UINT32_MAX]

TypeOK ==
    /\ value \in Words
    /\ op \in [Threads -> {"none", "set", "use", "release"}]
    /\ units \in [Threads -> 0 .. UINT32_MAX]
    /\ pc \in [Threads -> {"idle", "load", "cas"}]
    /\ seen \in [Threads -> Words]
    /\ spurious \in [Threads -> 0 .. MaxSpurious]
    /\ ret \in [Threads -> {"none", "ok", "fail"}]
    /\ held \in [Threads -> Nat]

\* quota_init
Init ==
    /\ \E total \in Totals : value = [total |-> ToUnits(total), used |-> 0]
    /\ op = [t \in Threads |-> "none"]
    /\ units = [t \in Threads |-> 0]
    /\ pc = [t \in Threads |-> "idle"]
    /\ seen = [t \in Threads |-> Zero]
    /\ spurious = [t \in Threads |-> 0]
    /\ ret = [t \in Threads |-> "none"]
    /\ held = [t \in Threads |-> 0]

Begin(t, o, n) ==
    /\ pc[t] = "idle"
    /\ op' = [op EXCEPT ![t] = o]
    /\ units' = [units EXCEPT ![t] = n]
    /\ pc' = [pc EXCEPT ![t] = "load"]
    /\ ret' = [ret EXCEPT ![t] = "none"]
    /\ UNCHANGED <<value, seen, spurious, held>>

\* The locals of a call are dead once it has returned.
Return(t, r) ==
    /\ op' = [op EXCEPT ![t] = "none"]
    /\ pc' = [pc EXCEPT ![t] = "idle"]
    /\ ret' = [ret EXCEPT ![t] = r]
    /\ units' = [units EXCEPT ![t] = 0]
    /\ seen' = [seen EXCEPT ![t] = Zero]
    /\ spurious' = [spurious EXCEPT ![t] = 0]

quota_set(t, total) == Begin(t, "set", ToUnits(total))

quota_use(t, size) ==
    \/ size <= QUOTA_MAX /\ Begin(t, "use", ToUnits(size))
    \/ /\ size > QUOTA_MAX
       /\ pc[t] = "idle"
       /\ ret' = [ret EXCEPT ![t] = "fail"]
       /\ UNCHANGED <<value, op, units, pc, seen, spurious, held>>

\* Callers release only what they hold; quota_release asserts the rest.
quota_release(t, size) ==
    /\ size < QUOTA_MAX
    /\ ToUnits(size) <= held[t]
    /\ Begin(t, "release", ToUnits(size))

\* Altered form of Refused: a lowered limit is not compared with the usage.
RefusedLax(o, n, v) == o = "use" /\ NewUsed(v, n) > v.total

\* Altered form of Refused: the limit itself can not be used up.
RefusedEarly(o, n, v) ==
    \/ o = "set" /\ n < v.used
    \/ o = "use" /\ NewUsed(v, n) >= v.total

\* The checks made between the load and the compare-exchange.
Refused(o, n, v) ==
    \/ o = "set" /\ n < v.used
    \/ o = "use" /\ NewUsed(v, n) > v.total

NewValue(o, n, v) ==
    CASE o = "set"     -> [v EXCEPT !.total = n]
      [] o = "use"     -> [v EXCEPT !.used = NewUsed(v, n)]
      [] o = "release" -> [v EXCEPT !.used = @ - n]

LoadRefused(t) ==
    /\ pc[t] = "load"
    /\ Refused(op[t], units[t], value)
    /\ Return(t, "fail")
    /\ UNCHANGED <<value, held>>

LoadProceed(t) ==
    /\ pc[t] = "load"
    /\ ~Refused(op[t], units[t], value)
    /\ seen' = [seen EXCEPT ![t] = value]
    /\ pc' = [pc EXCEPT ![t] = "cas"]
    /\ UNCHANGED <<value, op, units, spurious, ret, held>>

CasApply(t) ==
    /\ value' = NewValue(op[t], units[t], seen[t])
    /\ held' = [held EXCEPT ![t] = CASE op[t] = "set"     -> @
                                     [] op[t] = "use"     -> @ + units[t]
                                     [] op[t] = "release" -> @ - units[t]]
    /\ Return(t, "ok")

\* Altered form of CasSucceeds: a plain store of the new word.
StoreInsteadOfCas(t) == pc[t] = "cas" /\ CasApply(t)

CasSucceeds(t) ==
    /\ pc[t] = "cas"
    /\ value = seen[t]
    /\ CasApply(t)

\* Altered form of CasFails: the loop retries without loading again.
CasFailsNoReload(t) ==
    /\ pc[t] = "cas"
    /\ value # seen[t]
    /\ UNCHANGED vars

CasFails(t) ==
    /\ pc[t] = "cas"
    /\ value # seen[t]
    /\ pc' = [pc EXCEPT ![t] = "load"]
    /\ seen' = [seen EXCEPT ![t] = Zero]
    /\ UNCHANGED <<value, op, units, spurious, ret, held>>

\* A weak compare-exchange may fail although the word is as expected.
CasFailsSpuriously(t) ==
    /\ pc[t] = "cas"
    /\ value = seen[t]
    /\ spurious[t] < MaxSpurious
    /\ spurious' = [spurious EXCEPT ![t] = @ + 1]
    /\ pc' = [pc EXCEPT ![t] = "load"]
    /\ seen' = [seen EXCEPT ![t] = Zero]
    /\ UNCHANGED <<value, op, units, ret, held>>

Step(t) ==
    \/ LoadRefused(t)
    \/ LoadProceed(t)
    \/ CasSucceeds(t)
    \/ CasFails(t)
    \/ CasFailsSpuriously(t)

Next ==
    \E t \in Threads :
        \/ \E total \in Totals : quota_set(t, total)
        \/ \E size \in Sizes : quota_use(t, size) \/ quota_release(t, size)
        \/ Step(t)

\* A thread inside a call keeps running; nothing forces it to call.
Fairness == \A t \in Threads : WF_vars(Step(t))

Spec == Init /\ [][Next]_vars /\ Fairness
-----------------------------------------------------------------------------
\* quota_get_total_and_used: the usage never exceeds the limit, whatever
\* limit changes and uses race with each other (test/quota.cc counts it).
UsedWithinTotal == value.used <= value.total

\* f[t] is the sum of what threads 1..t hold.
RunningTotals(f) ==
    /\ f[0] = 0
    /\ \A t \in Threads : f[t] = f[t - 1] + held[t]

\* A successful use is charged once and a release takes back exactly what
\* was charged: no update of the word is lost to a concurrent one ("total
\* alloc match" in test/quota.cc).
UsedIsHeld ==
    \E f \in [0 .. NThreads -> 0 .. UINT32_MAX] :
        RunningTotals(f) /\ f[NThreads] = value.used

\* quota_use, line 144: assert(new_used_in_units > used_in_units).
UseDoesNotWrap ==
    \A t \in Threads :
        pc[t] = "load" /\ op[t] = "use" => NewUsed(value, units[t]) > value.used

\* A step in which a call returns.
Completes == \E t \in Threads : pc[t] # "idle" /\ pc'[t] = "idle"

\* The retry loops of quota_set, quota_use and quota_release are lock-free:
\* as long as some thread is inside a call, calls keep returning.  (A given
\* thread may starve; the system may not.)
LockFree ==
    \/ []<>(\A t \in Threads : pc[t] = "idle")
    \/ []<><<Completes>>_vars

Atomic == INSTANCE AtomicQuota WITH Amounts <- 0 .. UINT32_MAX

\* Every call of quota_set, quota_use and quota_release behaves as if it
\* happened at one instant, and -1 is returned only if the limit and usage
\* of that instant called for it.
RefinesAtomicQuota == Atomic!Spec

\* No limit plus request reaches 2^32 units: the arithmetic cannot wrap.
NoWrap ==
    \A total \in Totals, size \in Sizes :
        size <= QUOTA_MAX => ToUnits(total) + ToUnits(size) <= UINT32_MAX
=============================================================================
