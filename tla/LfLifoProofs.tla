---------------------------- MODULE LfLifoProofs ----------------------------
(***************************************************************************)
(* Proofs about LfLifo, for any threads, elements and counter width, under *)
(* the condition that no pop is overtaken by a full turn of the counter.   *)
(***************************************************************************)
EXTENDS LfLifo, SequenceTheorems, TLAPS

NoTurn == MaxWindow < AbaMod

\* What a push knows: the element is a real one, and once stored its link
\* stays, because nobody else writes it.
PushOK(t) ==
    /\ pc[t] \in Pushing => elem[t] \in Elems
    /\ pc[t] \notin Pushing => elem[t] = NULL
    /\ pc[t] = "push_cas" => next[elem[t]] = tail[t].ptr

\* What a pop knows.  The counter tells how many pushes it has missed; and
\* if it has missed none, its element either left the stack for good (as
\* far as this attempt can tell) or still has the link that was read.
PopOK(t) ==
    InPopAttempt(t) =>
        /\ tail[t].ptr \in Elems
        /\ head.aba = (tail[t].aba + window[t]) % AbaMod
        /\ pc[t] = "pop_cas" /\ window[t] = 0 /\ OnStack(tail[t].ptr)
             => nxt[t] = next[tail[t].ptr]

IInv ==
    /\ TypeOK
    /\ ListIsStack
    /\ OnePlace
    /\ \A t \in Threads : PushOK(t) /\ PopOK(t)

-----------------------------------------------------------------------------
\* Counter arithmetic: fewer than AbaMod pushes change the counter.
LEMMA AbaDetects ==
    ASSUME NEW a \in 0 .. AbaMod - 1, NEW w \in Nat, w < AbaMod,
           (a + w) % AbaMod = a
    PROVE  w = 0
<1>1. AbaMod \in Nat \ {0}
  BY LfLifoAssumption
<1>2. CASE a + w < AbaMod
  BY <1>1, <1>2
<1>3. CASE a + w >= AbaMod
  <2>1. (a + w) % AbaMod = a + w - AbaMod
    BY <1>1, <1>3
  <2> QED
    BY <1>1, <2>1
<1> QED
  BY <1>1, <1>2, <1>3

\* One push after w others: the masked counter of line 86 counts on.
LEMMA AbaSteps ==
    ASSUME NEW a \in 0 .. AbaMod - 1, NEW w \in Nat, w < AbaMod
    PROVE  (((a + w) % AbaMod) + 1) % AbaMod = (a + (w + 1)) % AbaMod
<1>1. AbaMod \in Nat \ {0}
  BY LfLifoAssumption
<1>2. CASE a + w < AbaMod
  BY <1>1, <1>2
<1>3. CASE a + w >= AbaMod
  <2>1. (a + w) % AbaMod = a + w - AbaMod
    BY <1>1, <1>3
  <2>2. CASE a + w + 1 < 2 * AbaMod
    BY <1>1, <1>3, <2>1, <2>2
  <2> QED
    BY <1>1, <1>3, <2>2
<1> QED
  BY <1>1, <1>2, <1>3

\* The loaded head, found again by a pop's compare-exchange, still is the
\* top of the same stack, and the link that was read leads to the second.
LEMMA CasSeesTop ==
    ASSUME NoTurn, IInv, NEW t \in Threads, pc[t] = "pop_cas", head = tail[t]
    PROVE  /\ stack # <<>>
           /\ tail[t].ptr = stack[1]
           /\ nxt[t] = IF 1 < Len(stack) THEN stack[2] ELSE NULL
<1>1. tail[t].ptr \in Elems /\ head.aba = (tail[t].aba + window[t]) % AbaMod
  BY DEF IInv, PopOK, InPopAttempt
<1>2. stack # <<>> /\ tail[t].ptr = stack[1]
  BY <1>1, LfLifoAssumption DEF IInv, ListIsStack
<1>3. Len(stack) \in Nat /\ Len(stack) >= 1
  BY <1>2 DEF IInv, TypeOK
<1>4. OnStack(tail[t].ptr)
  BY <1>2, <1>3 DEF OnStack
<1>5. window[t] = 0
  <2>1. tail[t].aba \in 0 .. AbaMod - 1 /\ window[t] \in Nat /\ window[t] < AbaMod
    BY LfLifoAssumption DEF IInv, TypeOK, Words, NoTurn
  <2> QED
    BY <1>1, <2>1, AbaDetects
<1>6. nxt[t] = next[stack[1]]
  BY <1>2, <1>4, <1>5 DEF IInv, PopOK, InPopAttempt
<1> QED
  BY <1>2, <1>3, <1>6 DEF IInv, ListIsStack

\* The sequence facts about the two ways the stack changes.
LEMMA PushSeq ==
    ASSUME NEW s \in Seq(Elems), NEW e \in Elems, NEW r, r = <<e>> \o s
    PROVE  /\ r \in Seq(Elems) /\ r # <<>>
           /\ Len(r) = Len(s) + 1 /\ Len(s) \in Nat
           /\ r[1] = e
           /\ \A i \in 1 .. Len(s) : r[i + 1] = s[i]
           /\ \A i \in 2 .. Len(r) : r[i] = s[i - 1]
  OBVIOUS

\* A pop of the stack: what is below the top moves up by one.
LEMMA PopSeq ==
    ASSUME NEW s \in Seq(Elems), s # <<>>, NEW r, r = Tail(s)
    PROVE  /\ r \in Seq(Elems)
           /\ Len(s) \in Nat \ {0} /\ Len(r) = Len(s) - 1
           /\ r = <<>> <=> Len(s) = 1
           /\ \A i \in 1 .. Len(r) : r[i] = s[i + 1]
           /\ \A i \in 2 .. Len(s) : r[i - 1] = s[i]
<1>1. r \in Seq(Elems) /\ Len(s) \in Nat \ {0} /\ Len(r) = Len(s) - 1
  OBVIOUS
<1>2. \A i \in 1 .. Len(r) : r[i] = s[i + 1]
  OBVIOUS
<1>3. \A i \in 2 .. Len(s) : r[i - 1] = s[i]
  BY <1>1, <1>2
<1>4. r = <<>> <=> Len(r) = 0
  BY <1>1, EmptySeq
<1> QED
  BY <1>1, <1>2, <1>3, <1>4

-----------------------------------------------------------------------------
\* The invariant holds after lf_lifo_init.
LEMMA InitIInv == Init => IInv
<1> SUFFICES ASSUME Init PROVE IInv
  OBVIOUS
<1> USE DEF Init
<1>1. Zero \in Words /\ Zero.ptr = NULL
  BY LfLifoAssumption DEF Zero, Words, Ptrs
<1>2. PICK owner \in [Elems -> Threads] :
        owned = [t \in Threads |-> {e \in Elems : owner[e] = t}]
  OBVIOUS
<1>3. TypeOK
  <2>1. stack \in Seq(Elems) /\ owned \in [Threads -> SUBSET Elems]
    BY <1>2
  <2> QED
    BY <1>1, <2>1, LfLifoAssumption DEF TypeOK, Ptrs
<1>4. ListIsStack
  BY <1>1 DEF ListIsStack
<1>5. OnePlace
  <2>1. \A e \in Elems, t \in Threads : e \in owned[t] <=> owner[e] = t
    BY <1>2
  <2>2. \A e : ~OnStack(e)
    BY DEF OnStack
  <2>3. \A e \in Elems, t \in Threads : ~IsPushed(t, e)
    BY DEF IsPushed, Pushing
  <2> QED
    BY <1>2, <2>1, <2>2, <2>3 DEF OnePlace
<1>6. \A t \in Threads : PushOK(t) /\ PopOK(t)
  BY DEF PushOK, PopOK, InPopAttempt, Pushing
<1> QED
  BY <1>3, <1>4, <1>5, <1>6 DEF IInv

\* lf_lifo_push is called with an element of the caller's own.
LEMMA CallPushIInv ==
    ASSUME IInv, NEW t \in Threads, NEW e \in Elems, CallPush(t, e)
    PROVE  IInv'
<1> USE DEF IInv, CallPush, Goto
<1>1. TypeOK'
  BY DEF TypeOK, Pushing, Ptrs
<1>2. ListIsStack'
  BY DEF ListIsStack
<1>3. OnePlace'
  <2>1. \A x \in Elems : OnStack(x)' <=> OnStack(x)
    BY DEF OnStack
  <2>2. /\ \A x \in Elems, u \in Threads :
             x \in owned'[u] <=> x \in owned[u] /\ ~(u = t /\ x = e)
        /\ \A x \in Elems, u \in Threads :
             IsPushed(u, x)' <=> (u = t /\ x = e) \/ (u # t /\ IsPushed(u, x))
        /\ \A x \in Elems : ~IsPushed(t, x)
    BY DEF TypeOK, IsPushed, Pushing
  <2>3. \A i, j \in 1 .. Len(stack') : stack'[i] = stack'[j] => i = j
    BY DEF OnePlace
  <2>4. e \in owned[t]
    OBVIOUS
  <2> HIDE DEF CallPush, Goto
  <2> QED
    BY <2>1, <2>2, <2>3, <2>4 DEF OnePlace
<1>4. \A u \in Threads : PushOK(u)' /\ PopOK(u)'
  BY DEF TypeOK, PushOK, PopOK, InPopAttempt, Pushing, OnStack
<1> QED
  BY <1>1, <1>2, <1>3, <1>4

\* Steps that move neither an element nor a link.
LEMMA LocalIInv ==
    ASSUME IInv, NEW t \in Threads,
           PushLoad(t) \/ PushRetry(t) \/ CallPop(t) \/ PopLoadEmpty(t)
             \/ PopLoad(t) \/ PopNext(t) \/ PopRetry(t)
    PROVE  IInv'
<1> USE DEF IInv
<1>0. /\ Zero \in Words /\ AbaMod \in Nat \ {0} /\ MaxWindow \in Nat
      /\ head.aba \in 0 .. AbaMod - 1 /\ head.ptr \in Ptrs
  BY LfLifoAssumption DEF TypeOK, Zero, Words, Ptrs
<1>1. UNCHANGED <<head, next, elem, owned, stack>>
  BY DEF PushLoad, PushRetry, CallPop, PopLoadEmpty, PopLoad, PopNext, PopRetry
<1>2. \A u \in Threads : pc'[u] \in Pushing <=> pc[u] \in Pushing
  BY DEF PushLoad, PushRetry, CallPop, PopLoadEmpty, PopLoad, PopNext, PopRetry,
         Goto, TypeOK, Pushing
<1>3. ListIsStack'
  BY <1>1 DEF ListIsStack
<1>4. OnePlace'
  <2>1. \A x \in Elems : OnStack(x)' <=> OnStack(x)
    BY <1>1 DEF OnStack
  <2>2. \A x \in Elems, u \in Threads : IsPushed(u, x)' <=> IsPushed(u, x)
    BY <1>1, <1>2 DEF IsPushed
  <2> QED
    BY <1>1, <2>1, <2>2 DEF OnePlace
<1>5. CASE PushLoad(t)
  <2>1. TypeOK'
    BY <1>5 DEF PushLoad, Goto, TypeOK, Pushing
  <2>2. \A u \in Threads : PushOK(u)' /\ PopOK(u)'
    BY <1>5 DEF PushLoad, Goto, TypeOK, PushOK, PopOK, InPopAttempt, Pushing, OnStack
  <2> QED
    BY <1>3, <1>4, <2>1, <2>2
<1>6. CASE PushRetry(t)
  <2>1. TypeOK'
    BY <1>0, <1>6 DEF PushRetry, Goto, TypeOK, Pushing
  <2>2. \A u \in Threads : PushOK(u)' /\ PopOK(u)'
    BY <1>6 DEF PushRetry, Goto, TypeOK, PushOK, PopOK, InPopAttempt, Pushing, OnStack
  <2> QED
    BY <1>3, <1>4, <2>1, <2>2
<1>7. CASE CallPop(t)
  <2>1. TypeOK'
    BY <1>0, <1>7 DEF CallPop, Goto, TypeOK, Popping, Ptrs
  <2>2. \A u \in Threads : PushOK(u)' /\ PopOK(u)'
    BY <1>7 DEF CallPop, Goto, TypeOK, PushOK, PopOK, InPopAttempt, Pushing, OnStack
  <2> QED
    BY <1>3, <1>4, <2>1, <2>2
<1>8. CASE PopLoadEmpty(t)
  <2>1. TypeOK'
    BY <1>8 DEF PopLoadEmpty, Goto, TypeOK
  <2>2. \A u \in Threads : PushOK(u)' /\ PopOK(u)'
    BY <1>8 DEF PopLoadEmpty, Goto, TypeOK, PushOK, PopOK, InPopAttempt, Pushing, OnStack
  <2> QED
    BY <1>3, <1>4, <2>1, <2>2
<1>9. CASE PopLoad(t)
  <2>1. TypeOK'
    BY <1>0, <1>9 DEF PopLoad, Goto, TypeOK, Popping
  <2>2. head.ptr \in Elems /\ head.aba = (head.aba + 0) % AbaMod
    BY <1>0, <1>9 DEF PopLoad, Ptrs
  <2>3. \A u \in Threads : PushOK(u)'
    BY <1>9 DEF PopLoad, Goto, TypeOK, PushOK, Pushing
  <2>4. \A u \in Threads : PopOK(u)'
    BY <1>9, <2>2 DEF PopLoad, Goto, TypeOK, PopOK, InPopAttempt, OnStack
  <2> QED
    BY <1>3, <1>4, <2>1, <2>3, <2>4
<1>10. CASE PopNext(t)
  <2>1. tail[t].ptr \in Elems
    BY <1>10 DEF PopNext, PopOK, InPopAttempt
  <2>2. TypeOK'
    BY <1>10, <2>1 DEF PopNext, Goto, TypeOK, Popping
  <2>3. \A u \in Threads : PushOK(u)'
    BY <1>10 DEF PopNext, Goto, TypeOK, PushOK, Pushing
  <2>4. \A u \in Threads : PopOK(u)'
    BY <1>10, <2>1 DEF PopNext, Goto, TypeOK, PopOK, InPopAttempt, OnStack
  <2> QED
    BY <1>3, <1>4, <2>2, <2>3, <2>4
<1>11. CASE PopRetry(t)
  <2>1. TypeOK'
    BY <1>0, <1>11 DEF PopRetry, EndAttempt, Goto, TypeOK, Popping, Ptrs
  <2>2. \A u \in Threads : PushOK(u)' /\ PopOK(u)'
    BY <1>11 DEF PopRetry, EndAttempt, Goto, TypeOK, PushOK, PopOK, InPopAttempt, Pushing, OnStack
  <2> QED
    BY <1>3, <1>4, <2>1, <2>2
<1> QED
  BY <1>5, <1>6, <1>7, <1>8, <1>9, <1>10, <1>11

\* A link is written only by a thread that has the element to itself.
LEMMA WriteIInv ==
    ASSUME IInv, NEW t \in Threads, NEW e \in Elems, NEW p \in Ptrs,
           next' = [next EXCEPT ![e] = p],
           UNCHANGED <<head, elem, tail, nxt, owned, ret, stack, window>>,
           \/ e \in owned[t] /\ UNCHANGED pc
           \/ /\ pc[t] = "push_store" /\ elem[t] = e /\ p = tail[t].ptr
              /\ pc' = [pc EXCEPT ![t] = "push_cas"]
    PROVE  IInv'
<1> USE DEF IInv
<1>1. ~OnStack(e) /\ \A u \in Threads : u # t => ~IsPushed(u, e)
  BY DEF OnePlace, IsPushed, Pushing
<1>2. TypeOK'
  BY DEF TypeOK, Pushing
<1>3. \A i \in 1 .. Len(stack) : stack[i] # e /\ stack[i] \in Elems
  BY <1>1 DEF OnStack, TypeOK
<1>4. ListIsStack'
  BY <1>3 DEF ListIsStack, TypeOK
<1>5. OnePlace'
  <2>1. \A x \in Elems : OnStack(x)' <=> OnStack(x)
    BY DEF OnStack
  <2>2. \A x \in Elems, u \in Threads : IsPushed(u, x)' <=> IsPushed(u, x)
    BY DEF IsPushed, Pushing, TypeOK
  <2> QED
    BY <2>1, <2>2 DEF OnePlace
<1>6. \A u \in Threads : PushOK(u)'
  BY <1>1 DEF PushOK, IsPushed, Pushing, TypeOK, OnePlace
<1>7. \A u \in Threads : PopOK(u)'
  BY <1>1 DEF PopOK, InPopAttempt, TypeOK, OnStack
<1> QED
  BY <1>2, <1>4, <1>5, <1>6, <1>7

\* The compare-exchange of lf_lifo_push succeeds: the element becomes the
\* top, and every other thread's view of the head is one push older.
LEMMA PushCasIInv ==
    ASSUME NoTurn, IInv, NEW t \in Threads, PushCas(t)
    PROVE  IInv'
<1> USE DEF IInv
<1>0. /\ pc[t] = "push_cas" /\ head = tail[t] /\ elem[t] \in Elems
      /\ next[elem[t]] = head.ptr /\ IsPushed(t, elem[t])
      /\ AbaMod \in Nat \ {0} /\ MaxWindow \in Nat /\ MaxWindow < AbaMod
      /\ head.aba \in 0 .. AbaMod - 1 /\ head.ptr \in Ptrs
      /\ Zero \in Words
  BY LfLifoAssumption
     DEF PushCas, PushOK, Pushing, NoTurn, IsPushed, TypeOK, Words, Zero, Ptrs
<1>1. /\ stack' \in Seq(Elems) /\ stack' # <<>>
      /\ Len(stack') = Len(stack) + 1 /\ Len(stack) \in Nat
      /\ stack'[1] = elem[t]
      /\ \A i \in 1 .. Len(stack) : stack'[i + 1] = stack[i]
      /\ \A i \in 2 .. Len(stack') : stack'[i] = stack[i - 1]
  BY <1>0, PushSeq DEF PushCas, TypeOK
<1>2. head' = [ptr |-> elem[t], aba |-> (head.aba + 1) % AbaMod]
  BY <1>0 DEF PushCas, PushedHead
<1>3. TypeOK'
  <2>1. head' \in Words
    BY <1>0, <1>2 DEF Words, Ptrs
  <2>2. window' \in [Threads -> 0 .. MaxWindow]
    BY <1>0 DEF PushCas, TypeOK
  <2> QED
    BY <1>0, <1>1, <2>1, <2>2 DEF PushCas, Goto, TypeOK, Ptrs
<1>4. stack = <<>> <=> Len(stack) = 0
  BY EmptySeq DEF TypeOK
<1>5. ListIsStack'
  <2>1. next' = next /\ head'.ptr = elem[t]
    BY <1>2 DEF PushCas
  <2>2. ASSUME NEW i \in 1 .. Len(stack')
        PROVE  next[stack'[i]] = IF i < Len(stack') THEN stack'[i + 1] ELSE NULL
    <3>1. CASE i = 1
      BY <1>0, <1>1, <1>4, <3>1 DEF ListIsStack
    <3>2. CASE i # 1
      BY <1>1, <3>2 DEF ListIsStack
    <3> QED
      BY <3>1, <3>2
  <2> QED
    BY <1>1, <2>1, <2>2 DEF ListIsStack
<1>6. \A x \in Elems : OnStack(x)' <=> x = elem[t] \/ OnStack(x)
  <2> TAKE x \in Elems
  <2>1. ASSUME OnStack(x)' PROVE x = elem[t] \/ OnStack(x)
    <3>1. PICK i \in 1 .. Len(stack') : stack'[i] = x
      BY <2>1 DEF OnStack
    <3>2. i = 1 \/ i - 1 \in 1 .. Len(stack)
      BY <1>1
    <3> QED
      BY <1>1, <3>1, <3>2 DEF OnStack
  <2>2. ASSUME x = elem[t] PROVE OnStack(x)'
    BY <1>1, <2>2 DEF OnStack
  <2>3. ASSUME OnStack(x) PROVE OnStack(x)'
    BY <1>1, <2>3 DEF OnStack
  <2> QED
    BY <2>1, <2>2, <2>3
<1>7. OnePlace'
  <2>1. \A x \in Elems, u \in Threads : IsPushed(u, x)' <=> u # t /\ IsPushed(u, x)
    BY <1>0 DEF PushCas, Goto, TypeOK, IsPushed, Pushing
  <2>2. \A i, j \in 1 .. Len(stack') : stack'[i] = stack'[j] => i = j
    <3>1. ~OnStack(elem[t])
      BY <1>0 DEF OnePlace
    <3>2. \A i, j \in 1 .. Len(stack) : stack[i] = stack[j] => i = j
      BY DEF OnePlace
    <3> SUFFICES ASSUME NEW i \in 1 .. Len(stack'), NEW j \in 1 .. Len(stack'),
                        stack'[i] = stack'[j]
                 PROVE  i = j
      OBVIOUS
    <3>3. CASE i = 1 \/ j = 1
      BY <1>1, <3>1, <3>3 DEF OnStack
    <3>4. CASE i # 1 /\ j # 1
      <4>1. i - 1 \in 1 .. Len(stack) /\ j - 1 \in 1 .. Len(stack)
        BY <1>1, <3>4
      <4>2. stack[i - 1] = stack[j - 1]
        BY <1>1, <3>4
      <4> QED
        BY <3>2, <4>1, <4>2
    <3> QED
      BY <3>3, <3>4
  <2>3. owned' = owned
    BY DEF PushCas
  <2>4. \A x \in Elems, u \in Threads : OnStack(x)' => x \notin owned'[u] /\ ~IsPushed(u, x)'
    BY <1>0, <1>6, <2>1, <2>3 DEF OnePlace
  <2>5. \A x \in Elems :
          OnStack(x)' \/ \E u \in Threads : x \in owned'[u] \/ IsPushed(u, x)'
    <3> TAKE x \in Elems
    <3>1. OnStack(x) \/ \E u \in Threads : x \in owned[u] \/ IsPushed(u, x)
      BY DEF OnePlace
    <3>2. IsPushed(t, x) => x = elem[t]
      BY DEF IsPushed
    <3> QED
      BY <1>6, <2>1, <2>3, <3>1, <3>2
  <2>6. \A x \in Elems, u, v \in Threads :
          /\ x \in owned'[u] /\ x \in owned'[v] => u = v
          /\ IsPushed(u, x)' /\ IsPushed(v, x)' => u = v
          /\ ~(x \in owned'[u] /\ IsPushed(v, x)')
    BY <2>1, <2>3 DEF OnePlace
  <2> QED
    BY <2>2, <2>4, <2>5, <2>6 DEF OnePlace
<1>8. \A u \in Threads : PushOK(u)'
  BY <1>0 DEF PushCas, Goto, TypeOK, PushOK, Pushing
<1>9. \A u \in Threads : PopOK(u)'
  <2> SUFFICES ASSUME NEW u \in Threads, InPopAttempt(u)' PROVE PopOK(u)'
    BY DEF PopOK
  <2>1. u # t /\ InPopAttempt(u) /\ UNCHANGED <<tail[u], pc[u], nxt[u]>>
    BY <1>0 DEF InPopAttempt, PushCas, Goto, TypeOK
  <2>2. window[u] < MaxWindow /\ window'[u] = window[u] + 1
    BY <2>1 DEF PushCas
  <2>3. /\ tail[u].ptr \in Elems
        /\ head.aba = (tail[u].aba + window[u]) % AbaMod
        /\ tail[u].aba \in 0 .. AbaMod - 1 /\ window[u] \in Nat
    BY <1>0, <2>1 DEF PopOK, TypeOK, Words
  <2>4. head'.aba = (tail[u].aba + window'[u]) % AbaMod
    <3>1. window[u] < AbaMod
      BY <1>0, <2>2, <2>3
    <3>2. (((tail[u].aba + window[u]) % AbaMod) + 1) % AbaMod
            = (tail[u].aba + (window[u] + 1)) % AbaMod
      BY <2>3, <3>1, AbaSteps
    <3> QED
      BY <1>2, <2>2, <2>3, <3>2
  <2>5. window'[u] # 0
    BY <2>2, <2>3
  <2> QED
    BY <2>1, <2>3, <2>4, <2>5 DEF PopOK
<1> QED
  BY <1>3, <1>5, <1>7, <1>8, <1>9

\* The compare-exchange of lf_lifo_pop succeeds: by CasSeesTop the link it
\* installs leads to the second element.
LEMMA PopCasIInv ==
    ASSUME NoTurn, IInv, NEW t \in Threads, PopCas(t)
    PROVE  IInv'
<1> USE DEF IInv
<1>0. /\ pc[t] = "pop_cas" /\ head = tail[t] /\ PopTake(t)
      /\ stack # <<>> /\ tail[t].ptr = stack[1]
      /\ nxt[t] = IF 1 < Len(stack) THEN stack[2] ELSE NULL
  BY CasSeesTop DEF PopCas
<1>1. /\ stack' \in Seq(Elems)
      /\ Len(stack) \in Nat \ {0} /\ Len(stack') = Len(stack) - 1
      /\ stack' = <<>> <=> Len(stack) = 1
      /\ \A i \in 1 .. Len(stack') : stack'[i] = stack[i + 1]
      /\ \A i \in 2 .. Len(stack) : stack'[i - 1] = stack[i]
  <2>1. stack \in Seq(Elems) /\ stack # <<>> /\ stack' = Tail(stack)
    BY <1>0 DEF PopTake, Popped, TypeOK
  <2> HIDE DEF IInv
  <2> QED
    BY ONLY <2>1, PopSeq
<1>2. /\ head' = [ptr |-> nxt[t], aba |-> head.aba] /\ next' = next /\ elem' = elem
      /\ stack[1] \in Elems /\ Zero \in Words /\ MaxWindow \in Nat
      /\ head.aba \in 0 .. AbaMod - 1
  BY <1>0, <1>1, LfLifoAssumption DEF PopTake, PoppedHead, TypeOK, Zero, Words, Ptrs
<1>3. TypeOK'
  <2>1. head' \in Words /\ tail' \in [Threads -> Words]
    BY <1>0, <1>2 DEF TypeOK, Words, PopTake, EndAttempt
  <2> QED
    BY <1>0, <1>1, <1>2, <2>1, LfLifoAssumption, SMTT(30)
       DEF PopTake, EndAttempt, Goto, TypeOK, Ptrs
<1>4. ListIsStack'
  <2>1. head'.ptr = IF stack' = <<>> THEN NULL ELSE stack'[1]
    BY <1>0, <1>1, <1>2
  <2>2. ASSUME NEW i \in 1 .. Len(stack')
        PROVE  next[stack'[i]] = IF i < Len(stack') THEN stack'[i + 1] ELSE NULL
    <3>1. i + 1 \in 1 .. Len(stack)
      BY <1>1
    <3>2. next[stack[i + 1]] = IF i + 1 < Len(stack) THEN stack[i + 2] ELSE NULL
      BY <3>1 DEF ListIsStack
    <3> QED
      BY <1>1, <3>1, <3>2
  <2> QED
    BY <1>2, <2>1, <2>2 DEF ListIsStack
<1>5. \A i, j \in 1 .. Len(stack) : stack[i] = stack[j] => i = j
  BY DEF OnePlace
<1>6. \A x \in Elems : OnStack(x)' <=> x # stack[1] /\ OnStack(x)
  <2> TAKE x \in Elems
  <2>1. ASSUME OnStack(x)' PROVE x # stack[1] /\ OnStack(x)
    <3>1. PICK i \in 1 .. Len(stack') : stack'[i] = x
      BY <2>1 DEF OnStack
    <3>2. i + 1 \in 1 .. Len(stack) /\ stack[i + 1] = x /\ 1 \in 1 .. Len(stack)
          /\ i + 1 # 1
      BY <1>1, <3>1
    <3> QED
      BY <1>5, <3>2 DEF OnStack
  <2>2. ASSUME x # stack[1], OnStack(x) PROVE OnStack(x)'
    BY <1>1, <2>2 DEF OnStack
  <2> QED
    BY <2>1, <2>2
<1>7. OnePlace'
  <2>1. \A x \in Elems, u \in Threads : IsPushed(u, x)' <=> IsPushed(u, x)
    BY <1>0, <1>2 DEF PopTake, Goto, TypeOK, IsPushed, Pushing
  <2>2. \A x \in Elems, u \in Threads :
          x \in owned'[u] <=> x \in owned[u] \/ (u = t /\ x = stack[1])
    BY <1>0 DEF PopTake, TypeOK
  <2>3. \A i, j \in 1 .. Len(stack') : stack'[i] = stack'[j] => i = j
    <3> SUFFICES ASSUME NEW i \in 1 .. Len(stack'), NEW j \in 1 .. Len(stack'),
                        stack'[i] = stack'[j]
                 PROVE  i = j
      OBVIOUS
    <3>1. i + 1 \in 1 .. Len(stack) /\ j + 1 \in 1 .. Len(stack)
          /\ stack[i + 1] = stack[j + 1]
      BY <1>1
    <3> QED
      BY <1>5, <3>1
  <2>4. OnStack(stack[1])
    BY <1>1 DEF OnStack
  <2> QED
    BY <1>2, <1>6, <2>1, <2>2, <2>3, <2>4, SMTT(30) DEF OnePlace
<1>8. \A u \in Threads : PushOK(u)'
  BY <1>0, <1>2 DEF PopTake, EndAttempt, Goto, TypeOK, PushOK, Pushing
<1>9. \A u \in Threads : PopOK(u)'
  <2> SUFFICES ASSUME NEW u \in Threads, InPopAttempt(u)' PROVE PopOK(u)'
    BY DEF PopOK
  <2>1. /\ u # t /\ InPopAttempt(u)
        /\ UNCHANGED <<tail[u], pc[u], nxt[u], window[u], next>>
    BY <1>0, <1>2 DEF InPopAttempt, PopTake, EndAttempt, Goto, TypeOK
  <2>2. head'.aba = head.aba
    BY <1>2
  <2> QED
    BY <1>6, <2>1, <2>2 DEF PopOK
<1> QED
  BY <1>3, <1>4, <1>7, <1>8, <1>9

\* Every step of lf_lifo_push and lf_lifo_pop keeps the invariant, as long
\* as no pop is overtaken by a full turn of the counter.
LEMMA NextIInv == NoTurn /\ IInv /\ [Next]_vars => IInv'
<1> SUFFICES ASSUME NoTurn, IInv, [Next]_vars PROVE IInv'
  OBVIOUS
<1>1. ASSUME NEW t \in Threads, PushStore(t) PROVE IInv'
  <2>1. elem[t] \in Elems /\ tail[t].ptr \in Ptrs
    BY <1>1 DEF PushStore, IInv, PushOK, Pushing, TypeOK, Words
  <2> QED
    BY <1>1, <2>1, WriteIInv DEF PushStore, Goto
<1>2. ASSUME NEW t \in Threads, NEW e \in Elems, NEW p \in Ptrs, Scribble(t, e, p)
      PROVE  IInv'
  BY <1>2, WriteIInv DEF Scribble
<1>3. CASE UNCHANGED vars
  <2> USE <1>3 DEF vars, IInv
  <2>1. \A x \in Elems : OnStack(x)' <=> OnStack(x)
    BY DEF OnStack
  <2>2. \A x \in Elems, u \in Threads : IsPushed(u, x)' <=> IsPushed(u, x)
    BY DEF IsPushed
  <2>3. OnePlace'
    BY <2>1, <2>2 DEF OnePlace
  <2> QED
    BY <2>3 DEF TypeOK, ListIsStack, PushOK, PopOK, InPopAttempt, OnStack
<1> QED
  BY <1>1, <1>2, <1>3, CallPushIInv, LocalIInv, PushCasIInv, PopCasIInv DEF Next

-----------------------------------------------------------------------------
\* Type correctness of the head, the links and the locals of push and pop.
THEOREM TypeCorrect == NoTurn => (Spec => []TypeOK)
<1> SUFFICES ASSUME NoTurn PROVE Spec => []TypeOK
  OBVIOUS
<1>1. IInv /\ [Next]_vars => IInv'
  BY NextIInv
<1>2. IInv => TypeOK
  BY DEF IInv
<1> QED
  BY <1>1, <1>2, InitIInv, PTL DEF Spec

\* lf_lifo_pop never hands one element to two threads and none is lost.
THEOREM NoDoublePop == NoTurn => (Spec => []OnePlace)
<1> SUFFICES ASSUME NoTurn PROVE Spec => []OnePlace
  OBVIOUS
<1>1. IInv /\ [Next]_vars => IInv'
  BY NextIInv
<1>2. IInv => OnePlace
  BY DEF IInv
<1> QED
  BY <1>1, <1>2, InitIInv, PTL DEF Spec

\* The linked list is the stack built by the completed calls.
THEOREM LinksAreStack == NoTurn => (Spec => []ListIsStack)
<1> SUFFICES ASSUME NoTurn PROVE Spec => []ListIsStack
  OBVIOUS
<1>1. IInv /\ [Next]_vars => IInv'
  BY NextIInv
<1>2. IInv => ListIsStack
  BY DEF IInv
<1> QED
  BY <1>1, <1>2, InitIInv, PTL DEF Spec

-----------------------------------------------------------------------------
\* How a change of one program counter shows in the abstract pending calls.
LEMMA OpSteps ==
    ASSUME TypeOK, NEW t \in Threads, NEW label, Goto(t, label)
    PROVE  [u \in Threads |-> Op(pc[u])]'
             = [[u \in Threads |-> Op(pc[u])] EXCEPT ![t] = Op(label)]
<1>1. \A u \in Threads : pc'[u] = IF u = t THEN label ELSE pc[u]
  BY DEF Goto, TypeOK
<1> QED
  BY <1>1

\* The abstract call behind each place in lf_lifo_push and lf_lifo_pop.
LEMMA OpValues ==
    /\ Op("idle") = "none"
    /\ Op("push_load") = "push" /\ Op("push_cas") = "push"
    /\ Op("pop_load") = "pop" /\ Op("pop_cas") = "pop"
  BY DEF Op, Pushing, Popping

\* Every step of push and pop is a step of the atomic stack or invisible in
\* it: the call, the successful compare-exchange, and the load that finds
\* the list empty are the visible ones.
LEMMA StepRefines ==
    NoTurn /\ IInv /\ [Next]_vars => [Atomic!Next]_(Atomic!vars)
<1> SUFFICES ASSUME NoTurn, IInv, [Next]_vars
             PROVE  [Atomic!Next]_(Atomic!vars)
  OBVIOUS
<1> DEFINE ops == [u \in Threads |-> Op(pc[u])]
<1>0. TypeOK
  BY DEF IInv
<1>1. ASSUME NEW t \in Threads, NEW e \in Elems, CallPush(t, e)
      PROVE  Atomic!Next
  <2>1. ops[t] = "none" /\ ops' = [ops EXCEPT ![t] = "push"]
    <3>1. pc[t] = "idle" /\ Goto(t, "push_load")
      BY <1>1 DEF CallPush
    <3> QED
      BY <1>0, <3>1, OpSteps, OpValues
  <2>2. Atomic!CallPush(t, e)
    BY <1>1, <2>1 DEF CallPush, Atomic!CallPush
  <2> QED
    BY <2>2 DEF Atomic!Next
<1>2. ASSUME NEW t \in Threads, CallPop(t)
      PROVE  Atomic!Next
  <2>1. ops[t] = "none" /\ ops' = [ops EXCEPT ![t] = "pop"]
    <3>1. pc[t] = "idle" /\ Goto(t, "pop_load")
      BY <1>2 DEF CallPop
    <3> QED
      BY <1>0, <3>1, OpSteps, OpValues
  <2>2. Atomic!CallPop(t)
    BY <1>2, <2>1 DEF CallPop, Atomic!CallPop
  <2> QED
    BY <2>2 DEF Atomic!Next
<1>3. ASSUME NEW t \in Threads, PushCas(t)
      PROVE  Atomic!Next
  <2>1. ops[t] = "push" /\ ops' = [ops EXCEPT ![t] = "none"]
    <3>1. pc[t] = "push_cas" /\ Goto(t, "idle")
      BY <1>3 DEF PushCas
    <3> QED
      BY <1>0, <3>1, OpSteps, OpValues
  <2>2. Atomic!Push(t)
    BY <1>3, <2>1 DEF PushCas, Atomic!Push
  <2> QED
    BY <2>2 DEF Atomic!Next
<1>4. ASSUME NEW t \in Threads, PopCas(t)
      PROVE  Atomic!Next
  <2>1. ops[t] = "pop" /\ ops' = [ops EXCEPT ![t] = "none"]
    <3>1. pc[t] = "pop_cas" /\ Goto(t, "idle")
      BY <1>4 DEF PopCas, PopTake
    <3> QED
      BY <1>0, <3>1, OpSteps, OpValues
  <2>2. stack # <<>> /\ tail[t].ptr = stack[1]
    BY <1>4, CasSeesTop DEF PopCas
  <2>3. tail[t].ptr = Head(stack)
    BY <1>0, <2>2 DEF TypeOK
  <2>4. Atomic!Pop(t)
    BY <1>4, <2>1, <2>2, <2>3 DEF PopCas, PopTake, Popped, Atomic!Pop
  <2> QED
    BY <2>4 DEF Atomic!Next
<1>5. ASSUME NEW t \in Threads, PopLoadEmpty(t)
      PROVE  Atomic!Next
  <2>1. ops[t] = "pop" /\ ops' = [ops EXCEPT ![t] = "none"]
    <3>1. pc[t] = "pop_load" /\ Goto(t, "idle")
      BY <1>5 DEF PopLoadEmpty
    <3> QED
      BY <1>0, <3>1, OpSteps, OpValues
  <2>2. stack = <<>>
    <3>1. stack # <<>> => stack[1] \in Elems
      BY <1>0 DEF TypeOK
    <3> QED
      BY <1>5, <3>1, LfLifoAssumption DEF PopLoadEmpty, IInv, ListIsStack
  <2>3. Atomic!PopEmpty(t)
    BY <1>5, <2>1, <2>2 DEF PopLoadEmpty, Atomic!PopEmpty
  <2> QED
    BY <2>3 DEF Atomic!Next
<1>6. ASSUME NEW t \in Threads,
             \/ PushLoad(t) \/ PushStore(t) \/ PushRetry(t)
             \/ PopLoad(t) \/ PopNext(t) \/ PopRetry(t)
      PROVE  UNCHANGED Atomic!vars
  <2>1. UNCHANGED <<stack, owned, elem, ret>>
    BY <1>6 DEF PushLoad, PushStore, PushRetry, PopLoad, PopNext, PopRetry
  <2>2. \A u \in Threads : Op(pc'[u]) = Op(pc[u])
    BY <1>0, <1>6 DEF PushLoad, PushStore, PushRetry, PopLoad, PopNext, PopRetry,
                      Goto, TypeOK, Op, Pushing, Popping
  <2>3. ops' = ops
    BY <2>2
  <2> QED
    BY <2>1, <2>3 DEF Atomic!vars
<1>7. ASSUME \/ UNCHANGED vars
             \/ \E t \in Threads, e \in Elems, p \in Ptrs : Scribble(t, e, p)
      PROVE  UNCHANGED Atomic!vars
  <2>1. UNCHANGED <<stack, owned, elem, ret, pc>>
    BY <1>7 DEF vars, Scribble
  <2> QED
    BY <2>1 DEF Atomic!vars
<1> QED
  BY <1>1, <1>2, <1>3, <1>4, <1>5, <1>6, <1>7 DEF Next

\* lf_lifo_push and lf_lifo_pop are linearizable: a client sees one stack on
\* which each call takes effect at one instant between its call and return.
THEOREM LifoRefinesAtomicStack == NoTurn => (Spec => RefinesAtomicStack)
<1> SUFFICES ASSUME NoTurn PROVE Spec => RefinesAtomicStack
  OBVIOUS
<1>1. IInv /\ [Next]_vars => IInv'
  BY NextIInv
<1>2. IInv /\ [Next]_vars => [Atomic!Next]_(Atomic!vars)
  BY StepRefines
<1>3. Init => Atomic!Init
  BY OpValues DEF Init, Atomic!Init
<1> QED
  BY <1>1, <1>2, <1>3, InitIInv, PTL DEF Spec, RefinesAtomicStack, Atomic!Spec
=============================================================================
