---------------------------- MODULE QuotaProofs ----------------------------
(***************************************************************************)
(* Proofs about Quota, for any number of threads and any limits and sizes  *)
(* that keep clear of the 32-bit wrap-around (NoWrap).                     *)
(***************************************************************************)
EXTENDS Quota, TLAPS

TotalUnits == {ToUnits(total) : total \in Totals}
UseUnits == {ToUnits(size) : size \in {s \in Sizes : s <= QUOTA_MAX}}

\* What holds of a call in progress: its argument is one that a caller may
\* pass, and the word it loaded did not call for a refusal.
CallOK(t) ==
    /\ pc[t] = "idle" <=> op[t] = "none"
    /\ op[t] = "set" => units[t] \in TotalUnits
    /\ op[t] = "use" => units[t] \in UseUnits
    /\ op[t] = "release" => units[t] <= held[t]
    /\ pc[t] = "cas" => ~Refused(op[t], units[t], seen[t])

\* UsedIsHeld, with the running totals known to grow: this is what bounds
\* each thread's share by the usage.
Charged ==
    \E f \in [0 .. NThreads -> Nat] :
        /\ RunningTotals(f)
        /\ \A i, j \in 0 .. NThreads : i <= j => f[i] <= f[j]
        /\ f[NThreads] = value.used

IInv ==
    /\ TypeOK
    /\ value.total \in TotalUnits
    /\ UsedWithinTotal
    /\ Charged
    /\ \A t \in Threads : CallOK(t)

-----------------------------------------------------------------------------
\* Rounding up to units: a size within QUOTA_MAX fits in 32 bits.
LEMMA ToUnitsType ==
    ASSUME NEW s \in Nat, s <= QUOTA_MAX
    PROVE  ToUnits(s) \in 0 .. UINT32_MAX
<1> DEFINE U == QUOTA_UNIT_SIZE
           n == (s + (U - 1)) \div U
<1>1. U \in Nat \ {0} /\ UINT32_MAX \in Nat
  BY QuotaAssumption
<1>2. s + (U - 1) \in Nat
  BY <1>1
<1>3. n \in Nat /\ U * n <= s + (U - 1)
  BY <1>1, <1>2, SMTT(30)
<1>4. ASSUME n >= UINT32_MAX + 1 PROVE FALSE
  <2>1. U * n >= U * (UINT32_MAX + 1)
    BY <1>1, <1>3, <1>4
  <2>2. U * (UINT32_MAX + 1) = U * UINT32_MAX + U
    BY <1>1
  <2>3. s <= U * UINT32_MAX
    BY DEF QUOTA_MAX
  <2>4. U * UINT32_MAX \in Nat /\ U * (UINT32_MAX + 1) \in Nat /\ U * n \in Nat
    BY <1>1, <1>3
  <2> QED
    BY <1>1, <1>3, <2>1, <2>2, <2>3, <2>4
<1> QED
  BY <1>1, <1>3, <1>4 DEF ToUnits

\* The units of the limits and of the accepted requests fit in 32 bits.
LEMMA UnitsType ==
    /\ TotalUnits \subseteq 0 .. UINT32_MAX
    /\ UseUnits \subseteq 0 .. UINT32_MAX
  BY ToUnitsType, QuotaAssumption DEF TotalUnits, UseUnits, QUOTA_MAX

\* Without wrap-around the new usage is the plain sum.
LEMMA NewUsedIsSum ==
    ASSUME NoWrap,
           NEW v \in Words, v.total \in TotalUnits, v.used <= v.total,
           NEW n \in UseUnits
    PROVE  NewUsed(v, n) = v.used + n /\ v.used + n <= UINT32_MAX
<1>1. v.total + n <= UINT32_MAX
  BY DEF NoWrap, TotalUnits, UseUnits
<1>2. n \in 0 .. UINT32_MAX /\ UINT32_MAX \in Nat
  BY UnitsType, QuotaAssumption
<1>3. v.used \in Nat /\ v.total \in Nat
  BY QuotaAssumption DEF Words
<1> QED
  BY <1>1, <1>2, <1>3 DEF NewUsed

\* Adding d to one thread's share adds d to the sum.
LEMMA ChargeMoves ==
    ASSUME TypeOK, Charged, NEW t \in Threads, NEW d \in Int,
           held[t] + d \in Nat,
           held' = [held EXCEPT ![t] = @ + d],
           value'.used = value.used + d
    PROVE  Charged'
<1>1. PICK f \in [0 .. NThreads -> Nat] :
        /\ RunningTotals(f)
        /\ \A i, j \in 0 .. NThreads : i <= j => f[i] <= f[j]
        /\ f[NThreads] = value.used
  BY DEF Charged
<1> DEFINE g == [i \in 0 .. NThreads |-> IF i >= t THEN f[i] + d ELSE f[i]]
<1>2. NThreads \in Nat /\ t \in 1 .. NThreads
  BY QuotaAssumption DEF Threads
<1>3. ASSUME NEW i \in 0 .. NThreads, i >= t
      PROVE  f[i] + d \in Nat /\ \A j \in 0 .. t - 1 : f[j] <= f[i] + d
  <2>1. f[t] = f[t - 1] + held[t] /\ f[t] <= f[i]
    BY <1>1, <1>2, <1>3 DEF RunningTotals, Threads
  <2>2. \A j \in 0 .. t - 1 : f[j] <= f[t - 1]
    BY <1>1, <1>2
  <2>3. held[t] \in Nat /\ f[t - 1] \in Nat /\ f[i] \in Nat
    BY <1>2 DEF TypeOK
  <2>4. f[i] + d >= f[t - 1] /\ f[i] + d \in Nat
    BY <2>1, <2>3
  <2>5. \A j \in 0 .. t - 1 : f[j] \in Nat
    BY <1>2
  <2> QED
    BY <2>2, <2>3, <2>4, <2>5
<1>4. g \in [0 .. NThreads -> Nat]
  BY <1>2, <1>3
<1>5. g[0] = 0 /\ g[NThreads] = value'.used
  BY <1>1, <1>2 DEF RunningTotals
<1>6. \A u \in Threads : g[u] = g[u - 1] + held'[u]
  <2> TAKE u \in Threads
  <2>1. u \in 1 .. NThreads /\ u \in 0 .. NThreads /\ u - 1 \in 0 .. NThreads
    BY <1>2 DEF Threads
  <2>2. f[u] = f[u - 1] + held[u] /\ held[u] \in Nat /\ f[u - 1] \in Nat
    BY <1>1, <2>1 DEF RunningTotals, TypeOK
  <2>3. held'[u] = IF u = t THEN held[u] + d ELSE held[u]
    BY DEF TypeOK
  <2> QED
    BY <1>2, <2>1, <2>2, <2>3
<1>7. \A i, j \in 0 .. NThreads : i <= j => g[i] <= g[j]
  <2> SUFFICES ASSUME NEW i \in 0 .. NThreads, NEW j \in 0 .. NThreads, i <= j
               PROVE  g[i] <= g[j]
    OBVIOUS
  <2>1. f[i] <= f[j]
    BY <1>1
  <2> QED
    BY <1>2, <1>3, <2>1
<1> HIDE DEF g
<1> QED
  BY <1>4, <1>5, <1>6, <1>7 DEF Charged, RunningTotals

\* No thread holds more than the usage.
LEMMA HeldWithinUsed ==
    ASSUME TypeOK, Charged, NEW t \in Threads
    PROVE  held[t] <= value.used
<1>1. PICK f \in [0 .. NThreads -> Nat] :
        /\ RunningTotals(f)
        /\ \A i, j \in 0 .. NThreads : i <= j => f[i] <= f[j]
        /\ f[NThreads] = value.used
  BY DEF Charged
<1>2. NThreads \in Nat /\ t \in 1 .. NThreads
  BY QuotaAssumption DEF Threads
<1>3. f[t] = f[t - 1] + held[t] /\ f[t - 1] \in Nat /\ held[t] \in Nat
  BY <1>1, <1>2 DEF RunningTotals, TypeOK
<1>4. f[t] <= f[NThreads]
  BY <1>1, <1>2
<1>5. value.used \in Nat
  BY QuotaAssumption DEF TypeOK, Words
<1> QED
  BY <1>1, <1>3, <1>4, <1>5

-----------------------------------------------------------------------------
\* The invariant holds after quota_init.
LEMMA InitIInv == Init => IInv
<1> SUFFICES ASSUME Init PROVE IInv
  OBVIOUS
<1>1. PICK total \in Totals : value = [total |-> ToUnits(total), used |-> 0]
  BY DEF Init
<1>2. value.total \in TotalUnits /\ value.used = 0
  BY <1>1 DEF TotalUnits
<1>3. value.total \in 0 .. UINT32_MAX /\ UINT32_MAX \in Nat
  BY <1>2, UnitsType, QuotaAssumption
<1>4. value \in Words /\ Zero \in Words
  BY <1>1, <1>3 DEF Words, Zero
<1>5. TypeOK
  BY <1>3, <1>4, QuotaAssumption DEF Init, TypeOK
<1>6. UsedWithinTotal
  BY <1>2, <1>3 DEF UsedWithinTotal
<1>7. Charged
  <2> DEFINE z == [i \in 0 .. NThreads |-> 0]
  <2>1. NThreads \in Nat
    BY QuotaAssumption
  <2>2. z \in [0 .. NThreads -> Nat] /\ z[NThreads] = 0 /\ RunningTotals(z)
    BY <2>1 DEF RunningTotals, Init, Threads
  <2>3. \A i, j \in 0 .. NThreads : i <= j => z[i] <= z[j]
    OBVIOUS
  <2> HIDE DEF z
  <2> QED
    BY <1>2, <2>2, <2>3 DEF Charged
<1>8. \A t \in Threads : CallOK(t)
  BY DEF Init, CallOK
<1> QED
  BY <1>2, <1>5, <1>6, <1>7, <1>8 DEF IInv

\* One step per action; the compare-exchange that succeeds is the only one
\* that moves the word, and there value = seen[t].
LEMMA NextIInv == NoWrap /\ IInv /\ [Next]_vars => IInv'
<1> SUFFICES ASSUME NoWrap, IInv, [Next]_vars PROVE IInv'
  OBVIOUS
<1> USE DEF IInv
<1>0. /\ UINT32_MAX \in Nat /\ MaxSpurious \in Nat
      /\ TotalUnits \subseteq 0 .. UINT32_MAX /\ UseUnits \subseteq 0 .. UINT32_MAX
      /\ Zero \in Words
  BY UnitsType, QuotaAssumption DEF Zero, Words
<1>1. ASSUME NEW t \in Threads, NEW o \in {"set", "use", "release"},
             NEW n \in 0 .. UINT32_MAX, Begin(t, o, n),
             o = "set" => n \in TotalUnits,
             o = "use" => n \in UseUnits,
             o = "release" => n <= held[t]
      PROVE  IInv'
  <2>1. TypeOK'
    BY <1>1 DEF TypeOK, Begin
  <2>2. UsedWithinTotal' /\ Charged' /\ value'.total \in TotalUnits
    BY <1>1 DEF Begin, UsedWithinTotal, Charged, RunningTotals
  <2>3. \A u \in Threads : CallOK(u)'
    BY <1>1 DEF TypeOK, Begin, CallOK, Refused, NewUsed
  <2> QED
    BY <2>1, <2>2, <2>3
<1>2. ASSUME NEW t \in Threads, NEW total \in Totals, quota_set(t, total)
      PROVE  IInv'
  <2>1. ToUnits(total) \in TotalUnits
    BY DEF TotalUnits
  <2> QED
    BY <1>0, <1>1, <1>2, <2>1 DEF quota_set
<1>3. ASSUME NEW t \in Threads, NEW size \in Sizes, quota_use(t, size)
      PROVE  IInv'
  <2>1. CASE size <= QUOTA_MAX /\ Begin(t, "use", ToUnits(size))
    <3>1. ToUnits(size) \in UseUnits
      BY <2>1 DEF UseUnits
    <3> QED
      BY <1>0, <1>1, <2>1, <3>1
  <2>2. CASE /\ pc[t] = "idle"
             /\ ret' = [ret EXCEPT ![t] = "fail"]
             /\ UNCHANGED <<value, op, units, pc, seen, spurious, held>>
    BY <2>2 DEF TypeOK, UsedWithinTotal, Charged, RunningTotals, CallOK, Refused, NewUsed
  <2> QED
    BY <1>3, <2>1, <2>2 DEF quota_use
<1>4. ASSUME NEW t \in Threads, NEW size \in Sizes, quota_release(t, size)
      PROVE  IInv'
  <2>1. ToUnits(size) \in 0 .. UINT32_MAX
    <3>1. QUOTA_MAX \in Nat
      BY QuotaAssumption DEF QUOTA_MAX
    <3> QED
      BY <1>4, <3>1, ToUnitsType, QuotaAssumption DEF quota_release
  <2> QED
    BY <1>1, <1>4, <2>1 DEF quota_release
<1>5. ASSUME NEW t \in Threads, LoadRefused(t)
      PROVE  IInv'
  <2>1. TypeOK'
    BY <1>0, <1>5 DEF TypeOK, LoadRefused, Return
  <2>2. UsedWithinTotal' /\ Charged' /\ value'.total \in TotalUnits
    BY <1>5 DEF LoadRefused, UsedWithinTotal, Charged, RunningTotals
  <2>3. \A u \in Threads : CallOK(u)'
    BY <1>5 DEF TypeOK, LoadRefused, Return, CallOK, Refused, NewUsed
  <2> QED
    BY <2>1, <2>2, <2>3
<1>6. ASSUME NEW t \in Threads, LoadProceed(t)
      PROVE  IInv'
  <2>1. TypeOK'
    BY <1>6 DEF TypeOK, LoadProceed
  <2>2. UsedWithinTotal' /\ Charged' /\ value'.total \in TotalUnits
    BY <1>6 DEF LoadProceed, UsedWithinTotal, Charged, RunningTotals
  <2>3. \A u \in Threads : CallOK(u)'
    BY <1>6 DEF TypeOK, LoadProceed, CallOK, Refused, NewUsed
  <2> QED
    BY <2>1, <2>2, <2>3
<1>7. ASSUME NEW t \in Threads, CasFails(t) \/ CasFailsSpuriously(t)
      PROVE  IInv'
  <2>1. TypeOK'
    BY <1>0, <1>7 DEF TypeOK, CasFails, CasFailsSpuriously
  <2>2. UsedWithinTotal' /\ Charged' /\ value'.total \in TotalUnits
    BY <1>7 DEF CasFails, CasFailsSpuriously, UsedWithinTotal, Charged, RunningTotals
  <2>3. \A u \in Threads : CallOK(u)'
    BY <1>7 DEF TypeOK, CasFails, CasFailsSpuriously, CallOK, Refused, NewUsed
  <2> QED
    BY <2>1, <2>2, <2>3
<1>8. ASSUME NEW t \in Threads, CasSucceeds(t)
      PROVE  IInv'
  <2>0. pc[t] = "cas" /\ value = seen[t] /\ CasApply(t) /\ CallOK(t)
    BY <1>8 DEF CasSucceeds
  <2>1. ~Refused(op[t], units[t], value) /\ op[t] \in {"set", "use", "release"}
    BY <2>0 DEF CallOK, TypeOK
  <2>2. value.used \in Nat /\ value.total \in Nat /\ units[t] \in Nat /\ held[t] \in Nat
    BY <1>0 DEF TypeOK, Words
  <2>r. Return(t, "ok")
    BY <2>0 DEF CasApply
  <2>t. ASSUME value' \in Words, held' \in [Threads -> Nat] PROVE TypeOK'
    <3>1. /\ op' \in [Threads -> {"none", "set", "use", "release"}]
          /\ pc' \in [Threads -> {"idle", "load", "cas"}]
          /\ ret' \in [Threads -> {"none", "ok", "fail"}]
      BY <2>r DEF TypeOK, Return
    <3>2. units' \in [Threads -> 0 .. UINT32_MAX] /\ spurious' \in [Threads -> 0 .. MaxSpurious]
      BY <1>0, <2>r DEF TypeOK, Return
    <3>3. seen' \in [Threads -> Words]
      BY <1>0, <2>r DEF TypeOK, Return
    <3> QED
      BY <2>t, <3>1, <3>2, <3>3 DEF TypeOK
  <2>3. CASE op[t] = "set"
    <3>1. value' = [value EXCEPT !.total = units[t]] /\ held' = held
      BY <2>0, <2>3 DEF CasApply, NewValue, TypeOK
    <3>2. units[t] \in TotalUnits /\ value.used <= units[t]
      BY <2>0, <2>1, <2>2, <2>3 DEF CallOK, Refused
    <3>3. value' \in Words /\ value'.total = units[t] /\ value'.used = value.used
      BY <1>0, <3>1, <3>2 DEF TypeOK, Words
    <3>4. TypeOK'
      BY <2>t, <3>1, <3>3 DEF TypeOK
    <3>5. Charged'
      BY <3>1, <3>3 DEF Charged, RunningTotals
    <3>6. \A u \in Threads : CallOK(u)'
      BY <2>0, <3>1 DEF TypeOK, CasApply, Return, CallOK, Refused, NewUsed
    <3> QED
      BY <3>2, <3>3, <3>4, <3>5, <3>6 DEF UsedWithinTotal
  <2>4. CASE op[t] = "use"
    <3>1. units[t] \in UseUnits
      BY <2>0, <2>4 DEF CallOK
    <3>2. /\ NewUsed(value, units[t]) = value.used + units[t]
          /\ value.used + units[t] <= UINT32_MAX
      BY <3>1, NewUsedIsSum DEF TypeOK, UsedWithinTotal
    <3>3. value.used + units[t] <= value.total
      BY <2>1, <2>2, <2>4, <3>2 DEF Refused
    <3>4. /\ value' = [value EXCEPT !.used = value.used + units[t]]
          /\ held' = [held EXCEPT ![t] = @ + units[t]]
      BY <2>0, <2>4, <3>2 DEF CasApply, NewValue, TypeOK
    <3>5. /\ value' \in Words /\ value'.total = value.total
          /\ value'.used = value.used + units[t]
      BY <1>0, <2>2, <3>2, <3>4 DEF TypeOK, Words
    <3>6. TypeOK'
      BY <2>2, <2>t, <3>4, <3>5 DEF TypeOK
    <3>7. Charged'
      <4>1. units[t] \in Int /\ held[t] + units[t] \in Nat
        BY <2>2
      <4> QED
        BY <3>4, <3>5, <4>1, ChargeMoves
    <3>8. \A u \in Threads : CallOK(u)'
      BY <2>0, <2>2, <3>4 DEF TypeOK, CasApply, Return, CallOK, Refused, NewUsed
    <3> QED
      BY <3>3, <3>5, <3>6, <3>7, <3>8 DEF UsedWithinTotal
  <2>5. CASE op[t] = "release"
    <3>1. units[t] <= held[t] /\ held[t] <= value.used
      BY <2>0, <2>5, HeldWithinUsed DEF CallOK
    <3>2. /\ value' = [value EXCEPT !.used = value.used - units[t]]
          /\ held' = [held EXCEPT ![t] = @ - units[t]]
      BY <2>0, <2>5 DEF CasApply, NewValue, TypeOK
    <3>3. /\ value' \in Words /\ value'.total = value.total
          /\ value'.used = value.used - units[t]
      BY <1>0, <2>2, <3>1, <3>2 DEF TypeOK, Words
    <3>4. held[t] - units[t] \in Nat
      BY <2>2, <3>1
    <3>5. TypeOK'
      BY <2>t, <3>2, <3>3, <3>4 DEF TypeOK
    <3>6. Charged'
      <4> DEFINE d == 0 - units[t]
      <4>1. /\ d \in Int /\ held[t] + d = held[t] - units[t]
            /\ value.used + d = value.used - units[t]
        BY <2>2
      <4> QED
        BY <3>2, <3>3, <3>4, <4>1, ChargeMoves
    <3>7. \A u \in Threads : CallOK(u)'
      BY <2>0, <3>2 DEF TypeOK, CasApply, Return, CallOK, Refused, NewUsed
    <3>8. value'.used <= value'.total
      BY <2>2, <3>1, <3>3 DEF UsedWithinTotal
    <3> QED
      BY <3>3, <3>5, <3>6, <3>7, <3>8 DEF UsedWithinTotal
  <2> QED
    BY <2>1, <2>3, <2>4, <2>5
<1>9. CASE UNCHANGED vars
  BY <1>9 DEF vars, TypeOK, UsedWithinTotal, Charged, RunningTotals, CallOK, Refused, NewUsed
<1> QED
  BY <1>2, <1>3, <1>4, <1>5, <1>6, <1>7, <1>8, <1>9 DEF Next, Step

\* Type correctness: the words stay within their 32-bit halves and no thread
\* ever owes more than it holds.
THEOREM TypeCorrect == NoWrap => (Spec => []TypeOK)
<1> SUFFICES ASSUME NoWrap PROVE Spec => []TypeOK
  OBVIOUS
<1>0. IInv /\ [Next]_vars => IInv'
  BY NextIInv
<1>1. IInv => TypeOK
  BY DEF IInv
<1> QED
  BY <1>0, <1>1, InitIInv, PTL DEF Spec

\* The usage that quota_use and quota_release maintain never exceeds the
\* limit that quota_init and quota_set maintain.
THEOREM UsageWithinLimit == NoWrap => (Spec => []UsedWithinTotal)
<1> SUFFICES ASSUME NoWrap PROVE Spec => []UsedWithinTotal
  OBVIOUS
<1>0. IInv /\ [Next]_vars => IInv'
  BY NextIInv
<1>1. IInv => UsedWithinTotal
  BY DEF IInv
<1> QED
  BY <1>0, <1>1, InitIInv, PTL DEF Spec

\* The usage is the sum of what the threads hold.
THEOREM UsageIsCharged == NoWrap => (Spec => []UsedIsHeld)
<1> SUFFICES ASSUME NoWrap PROVE Spec => []UsedIsHeld
  OBVIOUS
<1>0. IInv /\ [Next]_vars => IInv'
  BY NextIInv
<1>1. IInv => UsedIsHeld
  <2> SUFFICES ASSUME IInv PROVE UsedIsHeld
    OBVIOUS
  <2>1. PICK f \in [0 .. NThreads -> Nat] :
          /\ RunningTotals(f)
          /\ \A i, j \in 0 .. NThreads : i <= j => f[i] <= f[j]
          /\ f[NThreads] = value.used
    BY DEF IInv, Charged
  <2>2. value.used \in 0 .. UINT32_MAX /\ UINT32_MAX \in Nat /\ NThreads \in Nat
    BY QuotaAssumption DEF IInv, TypeOK, Words
  <2>3. \A i \in 0 .. NThreads : f[i] \in 0 .. UINT32_MAX
    BY <2>1, <2>2
  <2>4. f \in [0 .. NThreads -> 0 .. UINT32_MAX]
    BY <2>3
  <2> QED
    BY <2>1, <2>4 DEF UsedIsHeld
<1> QED
  BY <1>0, <1>1, InitIInv, PTL DEF Spec

-----------------------------------------------------------------------------
\* Every step of the retry loops is a step of the atomic quota or leaves its
\* variables alone; a call takes effect where its compare-exchange succeeds,
\* or where it loads a word that makes it return -1.
LEMMA StepRefines ==
    NoWrap /\ IInv /\ [Next]_vars => [Atomic!Next]_(Atomic!vars)
<1> SUFFICES ASSUME NoWrap, IInv, [Next]_vars
             PROVE  [Atomic!Next]_(Atomic!vars)
  OBVIOUS
<1> USE DEF IInv, Atomic!vars
<1>0. /\ UINT32_MAX \in Nat
      /\ TotalUnits \subseteq 0 .. UINT32_MAX /\ UseUnits \subseteq 0 .. UINT32_MAX
      /\ value.used \in Nat /\ value.total \in Nat
      /\ \A t \in Threads : units[t] \in Nat /\ CallOK(t)
  BY UnitsType, QuotaAssumption DEF TypeOK, Words
<1>1. ASSUME NEW t \in Threads, NEW o \in {"set", "use", "release"},
             NEW n \in 0 .. UINT32_MAX, Begin(t, o, n),
             o = "release" => n <= held[t]
      PROVE  Atomic!Next
  <2>1. op[t] = "none"
    BY <1>0, <1>1 DEF Begin, CallOK
  <2>2. Atomic!Invoke(t, o, n)
    BY <1>1, <2>1 DEF Begin, Atomic!Invoke
  <2> QED
    BY <2>2 DEF Atomic!Next
<1>2. ASSUME NEW t \in Threads, NEW total \in Totals, quota_set(t, total)
      PROVE  Atomic!Next
  <2>1. ToUnits(total) \in TotalUnits
    BY DEF TotalUnits
  <2> QED
    BY <1>0, <1>1, <1>2, <2>1 DEF quota_set
<1>3. ASSUME NEW t \in Threads, NEW size \in Sizes, quota_use(t, size)
      PROVE  Atomic!Next
  <2>1. CASE size <= QUOTA_MAX /\ Begin(t, "use", ToUnits(size))
    <3>1. ToUnits(size) \in UseUnits
      BY <2>1 DEF UseUnits
    <3> QED
      BY <1>0, <1>1, <2>1, <3>1
  <2>2. CASE /\ pc[t] = "idle"
             /\ ret' = [ret EXCEPT ![t] = "fail"]
             /\ UNCHANGED <<value, op, units, pc, seen, spurious, held>>
    <3>1. Atomic!Reject(t)
      BY <1>0, <2>2 DEF CallOK, Atomic!Reject
    <3> QED
      BY <3>1 DEF Atomic!Next
  <2> QED
    BY <1>3, <2>1, <2>2 DEF quota_use
<1>4. ASSUME NEW t \in Threads, NEW size \in Sizes, quota_release(t, size)
      PROVE  Atomic!Next
  <2>1. ToUnits(size) \in 0 .. UINT32_MAX
    <3>1. QUOTA_MAX \in Nat
      BY QuotaAssumption DEF QUOTA_MAX
    <3> QED
      BY <1>4, <3>1, ToUnitsType, QuotaAssumption DEF quota_release
  <2> QED
    BY <1>1, <1>4, <2>1 DEF quota_release
<1>5. ASSUME NEW t \in Threads, LoadRefused(t)
      PROVE  Atomic!Next
  <2>1. Atomic!Return(t, "fail") /\ UNCHANGED <<value, held>>
    BY <1>5 DEF LoadRefused, Return, Atomic!Return
  <2>2. CASE op[t] = "set" /\ units[t] < value.used
    <3>1. Atomic!Set(t)
      BY <2>1, <2>2 DEF Atomic!Set
    <3> QED
      BY <3>1 DEF Atomic!Next
  <2>3. CASE op[t] = "use" /\ NewUsed(value, units[t]) > value.total
    <3>1. NewUsed(value, units[t]) = value.used + units[t]
      BY <1>0, <2>3, NewUsedIsSum DEF TypeOK, UsedWithinTotal, CallOK
    <3>2. value.total < value.used + units[t]
      BY <1>0, <2>3, <3>1
    <3>3. Atomic!Use(t)
      BY <2>1, <2>3, <3>2 DEF Atomic!Use
    <3> QED
      BY <3>3 DEF Atomic!Next
  <2> QED
    BY <1>5, <2>2, <2>3 DEF LoadRefused, Refused
<1>6. ASSUME NEW t \in Threads,
             LoadProceed(t) \/ CasFails(t) \/ CasFailsSpuriously(t)
      PROVE  UNCHANGED Atomic!vars
  BY <1>6 DEF LoadProceed, CasFails, CasFailsSpuriously
<1>7. ASSUME NEW t \in Threads, CasSucceeds(t)
      PROVE  Atomic!Next
  <2>0. pc[t] = "cas" /\ value = seen[t] /\ CasApply(t) /\ CallOK(t)
    BY <1>0, <1>7 DEF CasSucceeds
  <2>1. ~Refused(op[t], units[t], value) /\ op[t] \in {"set", "use", "release"}
    BY <2>0 DEF CallOK, TypeOK
  <2>2. Atomic!Return(t, "ok")
    BY <2>0 DEF CasApply, Return, Atomic!Return
  <2>3. CASE op[t] = "set"
    <3>1. value' = [value EXCEPT !.total = units[t]] /\ held' = held
      BY <2>0, <2>3 DEF CasApply, NewValue, TypeOK
    <3>2. value.used <= units[t]
      BY <1>0, <2>1, <2>3 DEF Refused
    <3>3. Atomic!Set(t)
      BY <2>2, <2>3, <3>1, <3>2 DEF Atomic!Set
    <3> QED
      BY <3>3 DEF Atomic!Next
  <2>4. CASE op[t] = "use"
    <3>1. NewUsed(value, units[t]) = value.used + units[t]
      BY <2>0, <2>4, NewUsedIsSum DEF TypeOK, UsedWithinTotal, CallOK
    <3>2. value.used + units[t] <= value.total
      BY <1>0, <2>1, <2>4, <3>1 DEF Refused
    <3>3. /\ value' = [value EXCEPT !.used = @ + units[t]]
          /\ held' = [held EXCEPT ![t] = @ + units[t]]
      BY <2>0, <2>4, <3>1 DEF CasApply, NewValue, TypeOK
    <3>4. Atomic!Use(t)
      BY <2>2, <2>4, <3>2, <3>3 DEF Atomic!Use
    <3> QED
      BY <3>4 DEF Atomic!Next
  <2>5. CASE op[t] = "release"
    <3>1. /\ value' = [value EXCEPT !.used = @ - units[t]]
          /\ held' = [held EXCEPT ![t] = @ - units[t]]
      BY <2>0, <2>5 DEF CasApply, NewValue, TypeOK
    <3>2. Atomic!Release(t)
      BY <2>2, <2>5, <3>1 DEF Atomic!Release
    <3> QED
      BY <3>2 DEF Atomic!Next
  <2> QED
    BY <2>1, <2>3, <2>4, <2>5
<1>8. CASE UNCHANGED vars
  BY <1>8 DEF vars
<1> QED
  BY <1>2, <1>3, <1>4, <1>5, <1>6, <1>7, <1>8 DEF Next, Step

\* The lock-free quota implements the atomic one: any interleaving of
\* quota_set, quota_use and quota_release is equivalent to doing them one
\* at a time.
THEOREM QuotaRefinesAtomicQuota == NoWrap => (Spec => RefinesAtomicQuota)
<1> SUFFICES ASSUME NoWrap PROVE Spec => RefinesAtomicQuota
  OBVIOUS
<1>1. IInv /\ [Next]_vars => IInv'
  BY NextIInv
<1>2. IInv /\ [Next]_vars => [Atomic!Next]_(Atomic!vars)
  BY StepRefines
<1>3. Init => Atomic!Init
  <2> SUFFICES ASSUME Init PROVE Atomic!Init
    OBVIOUS
  <2>1. PICK total \in Totals : value = [total |-> ToUnits(total), used |-> 0]
    BY DEF Init
  <2>2. ToUnits(total) \in 0 .. UINT32_MAX
    BY UnitsType DEF TotalUnits
  <2> QED
    BY <2>1, <2>2 DEF Init, Atomic!Init
<1> QED
  BY <1>1, <1>2, <1>3, InitIInv, PTL DEF Spec, RefinesAtomicQuota, Atomic!Spec
=============================================================================
