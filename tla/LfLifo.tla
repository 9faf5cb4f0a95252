------------------------------- MODULE LfLifo -------------------------------
(***************************************************************************)
(* The lock-free LIFO of include/small/lf_lifo.h, one step per access to   *)
(* shared memory.  The head is a pointer whose low bits are a counter that *)
(* every push increments (modulo AbaMod, 2^16 in the code) so that a pop   *)
(* can tell that the head it loaded has been popped and pushed again.      *)
(*                                                                         *)
(* An element is user memory: whoever owns it may write into the word that *)
(* links it, and a pop that is about to fail may still read that word.     *)
(* The counter bits of a link are masked off by lf_lifo() on every use, so *)
(* a link is modelled as the pointer alone.                                *)
(*                                                                         *)
(* MaxWindow bounds how many pushes succeed while one pop is between its   *)
(* load of the head and its compare-exchange.  The counter protects a pop  *)
(* as long as MaxWindow < AbaMod.                                          *)
(***************************************************************************)
EXTENDS Naturals, Sequences

CONSTANTS Threads, Elems, NULL, AbaMod, MaxWindow

ASSUME LfLifoAssumption ==
    /\ NULL \notin Elems
    /\ AbaMod \in Nat \ {0}
    /\ MaxWindow \in Nat

VARIABLES head,    \* head->next: [ptr, aba]
          next,    \* the link of each element
          pc,      \* where each thread is
          elem,    \* the element a thread is pushing
          tail,    \* the head as the thread loaded it
          nxt,     \* a pop's local copy of its element's link
          owned,   \* the elements each thread owns
          ret,     \* what the thread's last pop returned
          stack,   \* history: the stack that the successful calls build
          window   \* history: pushes since the pop loaded the head

vars == <<head, next, pc, elem, tail, nxt, owned, ret, stack, window>>

Ptrs == Elems \cup {NULL}
Words == [ptr : Ptrs, aba : 0 .. AbaMod - 1]
Zero == [ptr |-> NULL, aba |-> 0]

Pushing == {"push_load", "push_store", "push_cas"}
Popping == {"pop_load", "pop_next", "pop_cas"}

TypeOK ==
    /\ head \in Words
    /\ next \in [Elems -> Ptrs]
    /\ pc \in [Threads -> {"idle"} \cup Pushing \cup Popping]
    /\ elem \in [Threads -> Ptrs]
    /\ tail \in [Threads -> Words]
    /\ nxt \in [Threads -> Ptrs]
    /\ owned \in [Threads -> SUBSET Elems]
    /\ ret \in [Threads -> Ptrs]
    /\ stack \in Seq(Elems)
    /\ window \in [Threads -> 0 .. MaxWindow]

\* lf_lifo_init, with the elements shared out among the threads.
Init ==
    /\ head = Zero
    /\ next \in [Elems -> {NULL}]
    /\ pc = [t \in Threads |-> "idle"]
    /\ elem = [t \in Threads |-> NULL]
    /\ tail = [t \in Threads |-> Zero]
    /\ nxt = [t \in Threads |-> NULL]
    /\ \E owner \in [Elems -> Threads] :
          owned = [t \in Threads |-> {e \in Elems : owner[e] = t}]
    /\ ret = [t \in Threads |-> NULL]
    /\ stack = <<>>
    /\ window = [t \in Threads |-> 0]

Goto(t, label) == pc' = [pc EXCEPT ![t] = label]

-----------------------------------------------------------------------------
\* lf_lifo_push(head, e)
CallPush(t, e) ==
    /\ pc[t] = "idle"
    /\ e \in owned[t]
    /\ owned' = [owned EXCEPT ![t] = @ \ {e}]
    /\ elem' = [elem EXCEPT ![t] = e]
    /\ Goto(t, "push_load")
    /\ UNCHANGED <<head, next, tail, nxt, ret, stack, window>>

PushLoad(t) ==
    /\ pc[t] = "push_load"
    /\ tail' = [tail EXCEPT ![t] = head]
    /\ Goto(t, "push_store")
    /\ UNCHANGED <<head, next, elem, nxt, owned, ret, stack, window>>

\* Altered form of PushStore: the element keeps the link it had.
PushStoreMissing(t) ==
    /\ pc[t] = "push_store"
    /\ Goto(t, "push_cas")
    /\ UNCHANGED <<head, next, elem, tail, nxt, owned, ret, stack, window>>

PushStore(t) ==
    /\ pc[t] = "push_store"
    /\ next' = [next EXCEPT ![elem[t]] = tail[t].ptr]
    /\ Goto(t, "push_cas")
    /\ UNCHANGED <<head, elem, tail, nxt, owned, ret, stack, window>>

InPopAttempt(t) == pc[t] \in {"pop_next", "pop_cas"}

\* Altered form of PushedHead: the counter stays where it is.
PushedHeadSameAba(e, old) == [ptr |-> e, aba |-> old.aba]
PushedHead(e, old) == [ptr |-> e, aba |-> (old.aba + 1) % AbaMod]

PushCas(t) ==
    /\ pc[t] = "push_cas"
    /\ head = tail[t]
    /\ \A u \in Threads : InPopAttempt(u) => window[u] < MaxWindow
    /\ head' = PushedHead(elem[t], tail[t])
    /\ stack' = <<elem[t]>> \o stack
    /\ window' = [u \in Threads |-> IF InPopAttempt(u) THEN window[u] + 1 ELSE 0]
    /\ elem' = [elem EXCEPT ![t] = NULL]
    /\ tail' = [tail EXCEPT ![t] = Zero]
    /\ Goto(t, "idle")
    /\ UNCHANGED <<next, nxt, owned, ret>>

\* The head has moved, or the weak compare-exchange failed spuriously.
PushRetry(t) ==
    /\ pc[t] = "push_cas"
    /\ tail' = [tail EXCEPT ![t] = Zero]
    /\ Goto(t, "push_load")
    /\ UNCHANGED <<head, next, elem, nxt, owned, ret, stack, window>>

-----------------------------------------------------------------------------
\* lf_lifo_pop(head)
CallPop(t) ==
    /\ pc[t] = "idle"
    /\ ret' = [ret EXCEPT ![t] = NULL]
    /\ Goto(t, "pop_load")
    /\ UNCHANGED <<head, next, elem, tail, nxt, owned, stack, window>>

PopLoadEmpty(t) ==
    /\ pc[t] = "pop_load"
    /\ head.ptr = NULL
    /\ Goto(t, "idle")
    /\ UNCHANGED <<head, next, elem, tail, nxt, owned, ret, stack, window>>

PopLoad(t) ==
    /\ pc[t] = "pop_load"
    /\ head.ptr # NULL
    /\ tail' = [tail EXCEPT ![t] = head]
    /\ window' = [window EXCEPT ![t] = 0]
    /\ Goto(t, "pop_next")
    /\ UNCHANGED <<head, next, elem, nxt, owned, ret, stack>>

\* The element may have a new owner by now; its memory is still mapped.
PopNext(t) ==
    /\ pc[t] = "pop_next"
    /\ nxt' = [nxt EXCEPT ![t] = next[tail[t].ptr]]
    /\ Goto(t, "pop_cas")
    /\ UNCHANGED <<head, next, elem, tail, owned, ret, stack, window>>

\* The locals of a pop attempt are dead once it is over.
EndAttempt(t) ==
    /\ tail' = [tail EXCEPT ![t] = Zero]
    /\ nxt' = [nxt EXCEPT ![t] = NULL]
    /\ window' = [window EXCEPT ![t] = 0]

\* The history stack without its top element.
Popped(s) == IF s = <<>> THEN s ELSE Tail(s)

PoppedHead(new, old) == [ptr |-> new, aba |-> old.aba]

\* What a successful pop installs and returns.
PopTake(t) ==
    /\ head' = PoppedHead(nxt[t], tail[t])
    /\ owned' = [owned EXCEPT ![t] = @ \cup {tail[t].ptr}]
    /\ ret' = [ret EXCEPT ![t] = tail[t].ptr]
    /\ stack' = Popped(stack)
    /\ EndAttempt(t)
    /\ Goto(t, "idle")
    /\ UNCHANGED <<next, elem>>

\* Altered form of PopCas: only the pointers are compared.
PopCasPtrOnly(t) == pc[t] = "pop_cas" /\ head.ptr = tail[t].ptr /\ PopTake(t)

PopCas(t) == pc[t] = "pop_cas" /\ head = tail[t] /\ PopTake(t)

PopRetry(t) ==
    /\ pc[t] = "pop_cas"
    /\ EndAttempt(t)
    /\ Goto(t, "pop_load")
    /\ UNCHANGED <<head, next, elem, owned, ret, stack>>

\* An owner uses its element: the link is overwritten with anything.
Scribble(t, e, p) ==
    /\ pc[t] = "idle"
    /\ e \in owned[t]
    /\ next' = [next EXCEPT ![e] = p]
    /\ UNCHANGED <<head, pc, elem, tail, nxt, owned, ret, stack, window>>

Next ==
    \E t \in Threads :
        \/ \E e \in Elems : CallPush(t, e)
        \/ PushLoad(t)
        \/ PushStore(t)
        \/ PushCas(t)
        \/ PushRetry(t)
        \/ CallPop(t)
        \/ PopLoadEmpty(t)
        \/ PopLoad(t)
        \/ PopNext(t)
        \/ PopCas(t)
        \/ PopRetry(t)
        \/ \E e \in Elems, p \in Ptrs : Scribble(t, e, p)

Spec == Init /\ [][Next]_vars
-----------------------------------------------------------------------------
OnStack(e) == \E i \in 1 .. Len(stack) : stack[i] = e
IsPushed(t, e) == pc[t] \in Pushing /\ elem[t] = e

\* The linked list that starts at the head is the stack that the completed
\* pushes and pops built: no element is skipped, repeated or left dangling.
ListIsStack ==
    /\ head.ptr = IF stack = <<>> THEN NULL ELSE stack[1]
    /\ \A i \in 1 .. Len(stack) :
          next[stack[i]] = IF i < Len(stack) THEN stack[i + 1] ELSE NULL

\* Every element is in exactly one place: on the stack once, owned by one
\* thread, or in the hands of one push.  In particular lf_lifo_pop never
\* hands one slab to two threads.
OnePlace ==
    /\ \A i, j \in 1 .. Len(stack) : stack[i] = stack[j] => i = j
    /\ \A e \in Elems :
          /\ \A t, u \in Threads : e \in owned[t] /\ e \in owned[u] => t = u
          /\ \A t, u \in Threads : IsPushed(t, e) /\ IsPushed(u, e) => t = u
          /\ \A t, u \in Threads : ~(e \in owned[t] /\ IsPushed(u, e))
          /\ \A t \in Threads : OnStack(e) => e \notin owned[t] /\ ~IsPushed(t, e)
          /\ \/ OnStack(e)
             \/ \E t \in Threads : e \in owned[t] \/ IsPushed(t, e)

\* The call of the atomic stack behind a place in the code.
Op(label) == IF label \in Pushing THEN "push"
             ELSE IF label \in Popping THEN "pop" ELSE "none"

Atomic == INSTANCE AtomicStack
    WITH op <- [t \in Threads |-> Op(pc[t])], arg <- elem

\* lf_lifo_push and lf_lifo_pop behave as if each happened at one instant.
RefinesAtomicStack == Atomic!Spec
=============================================================================
