---------------------------- MODULE AtomicStack ----------------------------
(***************************************************************************)
(* What the lock-free LIFO (include/small/lf_lifo.h) promises its callers: *)
(* a push puts the element on top of one stack at one instant, a pop takes *)
(* the top element off at one instant, and a pop returns NULL only if the  *)
(* stack was empty at some instant of the call.                            *)
(***************************************************************************)
EXTENDS Sequences

CONSTANTS Threads, Elems, NULL

VARIABLES stack,  \* the elements on the stack, top first
          owned,  \* the elements each thread owns
          op,     \* the pending call of each thread: "none", "push" or "pop"
          arg,    \* the element being pushed
          ret     \* what the last completed pop returned

vars == <<stack, owned, op, arg, ret>>

Init ==
    /\ stack = <<>>
    /\ owned \in [Threads -> SUBSET Elems]
    /\ op = [t \in Threads |-> "none"]
    /\ arg = [t \in Threads |-> NULL]
    /\ ret = [t \in Threads |-> NULL]

CallPush(t, e) ==
    /\ op[t] = "none"
    /\ e \in owned[t]
    /\ owned' = [owned EXCEPT ![t] = @ \ {e}]
    /\ op' = [op EXCEPT ![t] = "push"]
    /\ arg' = [arg EXCEPT ![t] = e]
    /\ UNCHANGED <<stack, ret>>

Push(t) ==
    /\ op[t] = "push"
    /\ stack' = <<arg[t]>> \o stack
    /\ op' = [op EXCEPT ![t] = "none"]
    /\ arg' = [arg EXCEPT ![t] = NULL]
    /\ UNCHANGED <<owned, ret>>

CallPop(t) ==
    /\ op[t] = "none"
    /\ op' = [op EXCEPT ![t] = "pop"]
    /\ ret' = [ret EXCEPT ![t] = NULL]
    /\ UNCHANGED <<stack, owned, arg>>

Pop(t) ==
    /\ op[t] = "pop"
    /\ stack # <<>>
    /\ stack' = Tail(stack)
    /\ owned' = [owned EXCEPT ![t] = @ \cup {Head(stack)}]
    /\ ret' = [ret EXCEPT ![t] = Head(stack)]
    /\ op' = [op EXCEPT ![t] = "none"]
    /\ UNCHANGED arg

PopEmpty(t) ==
    /\ op[t] = "pop"
    /\ stack = <<>>
    /\ op' = [op EXCEPT ![t] = "none"]
    /\ UNCHANGED <<stack, owned, arg, ret>>

Next ==
    \E t \in Threads :
        \/ \E e \in Elems : CallPush(t, e)
        \/ Push(t)
        \/ CallPop(t)
        \/ Pop(t)
        \/ PopEmpty(t)

Spec == Init /\ [][Next]_vars
=============================================================================
