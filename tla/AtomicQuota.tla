---------------------------- MODULE AtomicQuota ----------------------------
(***************************************************************************)
(* What struct quota (include/small/quota.h) promises its callers: every   *)
(* quota_set, quota_use and quota_release takes effect at one instant      *)
(* between its call and its return, and is refused only when the limit     *)
(* and the usage of that very instant do not allow it.                     *)
(*                                                                         *)
(* A thread's call is pending while op[t] # "none"; ret[t] is the outcome  *)
(* of its last completed call, held[t] what it has used and not released.  *)
(***************************************************************************)
EXTENDS Naturals

CONSTANTS Threads, Amounts  \* amounts are numbers of units

VARIABLES value,  \* [total, used] in units
          op,     \* the pending call of each thread
          units,  \* its argument, in units
          ret,    \* the outcome of the last completed call
          held    \* units used and not yet released, per thread

vars == <<value, op, units, ret, held>>

Init ==
    /\ \E n \in Amounts : value = [total |-> n, used |-> 0]
    /\ op = [t \in Threads |-> "none"]
    /\ units = [t \in Threads |-> 0]
    /\ ret = [t \in Threads |-> "none"]
    /\ held = [t \in Threads |-> 0]

\* A thread calls; it releases only what it holds.
Invoke(t, o, n) ==
    /\ op[t] = "none"
    /\ o = "release" => n <= held[t]
    /\ op' = [op EXCEPT ![t] = o]
    /\ units' = [units EXCEPT ![t] = n]
    /\ ret' = [ret EXCEPT ![t] = "none"]
    /\ UNCHANGED <<value, held>>

\* A request larger than any limit is refused at once.
Reject(t) ==
    /\ op[t] = "none"
    /\ ret' = [ret EXCEPT ![t] = "fail"]
    /\ UNCHANGED <<value, op, units, held>>

Return(t, r) ==
    /\ op' = [op EXCEPT ![t] = "none"]
    /\ ret' = [ret EXCEPT ![t] = r]
    /\ units' = [units EXCEPT ![t] = 0]

Set(t) ==
    /\ op[t] = "set"
    /\ \/ /\ value.used <= units[t]
          /\ value' = [value EXCEPT !.total = units[t]]
          /\ Return(t, "ok")
       \/ /\ units[t] < value.used
          /\ Return(t, "fail")
          /\ UNCHANGED value
    /\ UNCHANGED held

Use(t) ==
    /\ op[t] = "use"
    /\ \/ /\ value.used + units[t] <= value.total
          /\ value' = [value EXCEPT !.used = @ + units[t]]
          /\ held' = [held EXCEPT ![t] = @ + units[t]]
          /\ Return(t, "ok")
       \/ /\ value.total < value.used + units[t]
          /\ Return(t, "fail")
          /\ UNCHANGED <<value, held>>

Release(t) ==
    /\ op[t] = "release"
    /\ value' = [value EXCEPT !.used = @ - units[t]]
    /\ held' = [held EXCEPT ![t] = @ - units[t]]
    /\ Return(t, "ok")

Next ==
    \E t \in Threads :
        \/ \E o \in {"set", "use", "release"}, n \in Amounts : Invoke(t, o, n)
        \/ Reject(t)
        \/ Set(t)
        \/ Use(t)
        \/ Release(t)

Spec == Init /\ [][Next]_vars
=============================================================================
