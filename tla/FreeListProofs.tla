--------------------------- MODULE FreeListProofs ---------------------------
(***************************************************************************)
(* The linked list of lfreequeue implements FifoList, for any number of    *)
(* goroutines and values.                                                  *)
(***************************************************************************)
EXTENDS FreeList, SequenceTheorems, TLAPS

-----------------------------------------------------------------------------
\* The inductive invariant.

\* A node is linked once, and only after its Enqueue call; the pointer of a node
\* outside the list is nil.
LinkedOnce ==
  /\ \A i, j \in 1..Len(order) : order[i] = order[j] => i = j
  /\ \A i \in 1..Len(order) : order[i] \in used \cup {Dummy}
  /\ order[1] = Dummy
  /\ \A n \in Node : (\A i \in 1..Len(order) : order[i] # n) => next[n] = Nil

\* What a goroutine brings is not in the list yet and is nobody else's.
Bringing(p) ==
  pc[p] \in EnqPc =>
    /\ new[p] \in used
    /\ \A i \in 1..Len(order) : order[i] # new[p]
    /\ \A q \in Proc : q # p /\ pc[q] \in EnqPc => new[q] # new[p]

\* The locals of enqueue: a node at or before the tail, and its successor.
EnqLocals(p) ==
  /\ pc[p] \in {"next", "check", "link", "swing"} =>
       \E i \in 1..tailAt : order[i] = oldTail[p]
  /\ pc[p] \in {"check", "link"} /\ oldNext[p] # Nil => next[oldTail[p]] = oldNext[p]
  /\ pc[p] = "swing" => next[oldTail[p]] = new[p] /\ new[p] # Nil

\* The locals of dequeue: a node at or before the dummy, its successor, and a
\* tail that was not before that node.
DeqLocals(p) ==
  /\ pc[p] \in {"head", "dtail"} => \E i \in 1..headAt : order[i] = oldDummy[p]
  /\ pc[p] \in {"dtail", "dcheck", "take"} /\ oldHead[p] # Nil =>
       next[oldDummy[p]] = oldHead[p]
  /\ pc[p] \in {"dcheck", "take"} =>
       \E i \in 1..headAt : \E j \in i..tailAt :
         order[i] = oldDummy[p] /\ order[j] = oldTail[p]

Inv ==
  /\ TypeOK /\ OneList /\ LinkedOnce
  /\ \A p \in Proc : Bringing(p) /\ EnqLocals(p) /\ DeqLocals(p)

-----------------------------------------------------------------------------
\* The shared state only moves forward.

Forward ==
  /\ Len(order) <= Len(order') /\ \A i \in 1..Len(order) : order'[i] = order[i]
  /\ headAt <= headAt' /\ tailAt <= tailAt'
  /\ \A n \in Node : next[n] # Nil => next'[n] = next[n]

\* What a goroutine remembers stays true while the others move on.
LEMMA LocalsKept ==
  ASSUME TypeOK, OneList, TypeOK', OneList', Forward, NEW p \in Proc,
         pc'[p] = pc[p], new'[p] = new[p], oldTail'[p] = oldTail[p],
         oldNext'[p] = oldNext[p], oldDummy'[p] = oldDummy[p],
         oldHead'[p] = oldHead[p]
  PROVE  /\ EnqLocals(p) => EnqLocals(p)'
         /\ DeqLocals(p) => DeqLocals(p)'
<1>1. /\ headAt \in Nat /\ tailAt \in Nat /\ headAt' \in Nat /\ tailAt' \in Nat
      /\ Len(order) \in Nat /\ Len(order') \in Nat
      /\ headAt <= tailAt /\ tailAt <= Len(order)
  BY DEF TypeOK, OneList
<1>2. \A i \in 1..tailAt : i \in 1..tailAt' /\ order'[i] = order[i]
  BY <1>1 DEF Forward
<1>3. \A i \in 1..headAt : i \in 1..headAt' /\ order'[i] = order[i]
  BY <1>1 DEF Forward
<1>4. \A i \in 1..headAt : \A j \in i..tailAt : j \in i..tailAt' /\ order'[j] = order[j]
  BY <1>1 DEF Forward
<1>5. oldTail[p] \in Node /\ oldDummy[p] \in Node
  BY Zenon DEF TypeOK
<1>6. ASSUME EnqLocals(p) PROVE EnqLocals(p)'
  <2>1. pc[p] \in {"next", "check", "link", "swing"} =>
          \E i \in 1..tailAt' : order'[i] = oldTail[p]
    BY Zenon, <1>2, <1>6 DEF EnqLocals
  <2>2. pc[p] \in {"check", "link"} /\ oldNext[p] # Nil => next'[oldTail[p]] = oldNext[p]
    BY Zenon, <1>5, <1>6 DEF EnqLocals, Forward
  <2>3. pc[p] = "swing" => next'[oldTail[p]] = new[p] /\ new[p] # Nil
    BY Zenon, <1>5, <1>6 DEF EnqLocals, Forward
  <2> QED
    BY Zenon, <2>1, <2>2, <2>3 DEF EnqLocals
<1>7. ASSUME DeqLocals(p) PROVE DeqLocals(p)'
  <2>1. pc[p] \in {"head", "dtail"} => \E i \in 1..headAt' : order'[i] = oldDummy[p]
    BY Zenon, <1>3, <1>7 DEF DeqLocals
  <2>2. pc[p] \in {"dtail", "dcheck", "take"} /\ oldHead[p] # Nil =>
          next'[oldDummy[p]] = oldHead[p]
    BY Zenon, <1>5, <1>7 DEF DeqLocals, Forward
  <2>3. pc[p] \in {"dcheck", "take"} =>
          \E i \in 1..headAt' : \E j \in i..tailAt' :
            order'[i] = oldDummy[p] /\ order'[j] = oldTail[p]
    BY <1>3, <1>4, <1>7 DEF DeqLocals
  <2> QED
    BY Zenon, <2>1, <2>2, <2>3 DEF DeqLocals
<1> QED
  BY Zenon, <1>6, <1>7

-----------------------------------------------------------------------------
\* A step of p changes the control and the locals of p only.

Others(p) ==
  \A q \in Proc : q # p =>
    /\ pc'[q] = pc[q] /\ new'[q] = new[q] /\ oldTail'[q] = oldTail[q]
    /\ oldNext'[q] = oldNext[q] /\ oldDummy'[q] = oldDummy[q]
    /\ oldHead'[q] = oldHead[q]

\* The goroutines other than the one that moves keep their part of the invariant.
LEMMA OthersKept ==
  ASSUME Inv, TypeOK', OneList', Forward, NEW p \in Proc, Others(p),
         NEW q \in Proc, q # p
  PROVE  EnqLocals(q)' /\ DeqLocals(q)'
BY Zenon, LocalsKept DEF Inv, Others

\* A step that touches nothing shared but the counter.
Private == UNCHANGED <<next, dummy, tail, used, order, headAt, tailAt>>

\* A private step of p keeps the invariant if it keeps p's own part.
LEMMA PrivateStep ==
  ASSUME Inv, TypeOK', Private, NEW p \in Proc, Others(p),
         new'[p] = new[p] \/ pc'[p] \notin EnqPc, pc'[p] \in EnqPc => pc[p] \in EnqPc,
         EnqLocals(p)', DeqLocals(p)'
  PROVE  Inv'
<1>1. OneList' /\ LinkedOnce'
  BY Zenon DEF Inv, Private, OneList, LinkedOnce
<1>2. Forward
  <2>1. Len(order) \in Nat /\ headAt \in Nat /\ tailAt \in Nat
    BY DEF Inv, TypeOK
  <2> QED
    BY <2>1 DEF Private, Forward
<1>3. \A q \in Proc : Bringing(q)'
  BY DEF Inv, Private, Others, Bringing
<1>4. \A q \in Proc : EnqLocals(q)' /\ DeqLocals(q)'
  BY Zenon, <1>1, <1>2, OthersKept
<1> QED
  BY Zenon, <1>1, <1>3, <1>4 DEF Inv

\* The accesses between which a goroutine moves.
Pcs == {"idle", "swing", "up", "down"} \cup EnqPc \cup DeqPc

\* A goroutine that goes to its next access goes alone.
LEMMA Goes ==
  ASSUME Inv, NEW p \in Proc, NEW from, NEW to \in Pcs, At(p, from, to)
  PROVE  /\ pc[p] = from /\ pc'[p] = to /\ pc' \in [Proc -> Pcs]
         /\ \A q \in Proc : q # p => pc'[q] = pc[q]
<1>1. pc \in [Proc -> Pcs]
  BY Zenon DEF Inv, TypeOK, Pcs
<1>2. pc[p] = from /\ pc' = [pc EXCEPT ![p] = to]
  BY Zenon DEF At
<1> QED
  BY Zenon, <1>1, <1>2

\* A step of p that writes at most one of its locals is a step of p alone.
LEMMA LocalStep ==
  ASSUME Inv, NEW p \in Proc, NEW from, NEW to \in Pcs, At(p, from, to), UNCHANGED new,
         NEW x,
         \/ UNCHANGED <<oldTail, oldNext, oldDummy, oldHead>>
         \/ oldTail' = [oldTail EXCEPT ![p] = x] /\ UNCHANGED <<oldNext, oldDummy, oldHead>>
         \/ oldNext' = [oldNext EXCEPT ![p] = x] /\ UNCHANGED <<oldTail, oldDummy, oldHead>>
         \/ oldDummy' = [oldDummy EXCEPT ![p] = x] /\ UNCHANGED <<oldTail, oldNext, oldHead>>
         \/ oldHead' = [oldHead EXCEPT ![p] = x] /\ UNCHANGED <<oldTail, oldNext, oldDummy>>
  PROVE  Others(p)
<1>1. \A q \in Proc : q # p => pc'[q] = pc[q]
  BY Zenon, Goes
<1>2. /\ oldTail \in [Proc -> Node] /\ oldNext \in [Proc -> NodeOrNil]
      /\ oldDummy \in [Proc -> Node] /\ oldHead \in [Proc -> NodeOrNil]
  BY Zenon DEF Inv, TypeOK
<1>3. \A q \in Proc : q # p =>
        /\ oldTail'[q] = oldTail[q] /\ oldNext'[q] = oldNext[q]
        /\ oldDummy'[q] = oldDummy[q] /\ oldHead'[q] = oldHead[q]
  BY Zenon, <1>2
<1> QED
  BY Zenon, <1>1, <1>3 DEF Others

\* A step that moves the tail keeps the types.
LEMMA TailTypes ==
  ASSUME Inv, pc' \in [Proc -> Pcs], tail' \in Node, tailAt' \in Nat,
         UNCHANGED <<next, dummy, size, new, locals, used, order, headAt>>
  PROVE  TypeOK'
<1>1. /\ next' = next /\ dummy' = dummy /\ size' = size /\ new' = new
      /\ oldTail' = oldTail /\ oldNext' = oldNext /\ oldDummy' = oldDummy
      /\ oldHead' = oldHead /\ used' = used /\ order' = order /\ headAt' = headAt
  BY Zenon DEF locals
<1> QED
  BY Zenon, <1>1 DEF Inv, TypeOK, Pcs

\* Nobody brings anything else after a step that starts no call and links nothing.
LEMMA BringingKept ==
  ASSUME Inv, UNCHANGED <<used, order, new>>,
         \A q \in Proc : pc'[q] \in EnqPc => pc[q] \in EnqPc
  PROVE  \A q \in Proc : Bringing(q)'
<1>1. used' = used /\ order' = order /\ new' = new
  BY Zenon
<1>2. \A q \in Proc : Bringing(q)
  BY Zenon DEF Inv
<1> QED
  BY Zenon, <1>1, <1>2 DEF Bringing

-----------------------------------------------------------------------------
\* The types.

\* The initial state has the invariant.
LEMMA InvInit == Init => Inv
<1> SUFFICES ASSUME Init PROVE Inv
  BY Zenon
<1>1. TypeOK
  BY NodeAssumption DEF Init, TypeOK, Node, NodeOrNil
<1>2. OneList /\ LinkedOnce
  BY NodeAssumption DEF Init, OneList, LinkedOnce, Node
<1>3. \A p \in Proc : Bringing(p) /\ EnqLocals(p) /\ DeqLocals(p)
  BY Zenon DEF Init, Bringing, EnqLocals, DeqLocals, EnqPc
<1> QED
  BY Zenon, <1>1, <1>2, <1>3 DEF Inv

\* A pointer that is not nil leads to a value: nothing is linked in front of the
\* first dummy.
LEMMA NextIsValue ==
  ASSUME Inv, NEW n \in Node, next[n] # Nil, NEW i \in 1..Len(order), order[i] = n
  PROVE  i < Len(order) /\ next[n] = order[i + 1] /\ next[n] \in Value
<1>1. Len(order) \in Nat /\ i \in Nat /\ 1 <= i /\ headAt \in Nat /\ tailAt \in Nat
  BY DEF Inv, TypeOK
<1>2. i < Len(order) /\ next[n] = order[i + 1]
  BY <1>1 DEF Inv, OneList
<1>3. 1 \in 1..Len(order) /\ i + 1 \in 1..Len(order)
  BY <1>1, <1>2
<1>4. order[1] = Dummy
  BY Zenon DEF Inv, LinkedOnce
<1>5. order[i + 1] # Dummy
  BY <1>1, <1>3, <1>4 DEF Inv, LinkedOnce
<1>6. order[i + 1] \in Node
  BY <1>3 DEF Inv, TypeOK
<1> QED
  BY Zenon, <1>2, <1>5, <1>6 DEF Node

-----------------------------------------------------------------------------
\* The steps that touch nothing shared, of enqueue ...

\* enqueue remembers the node at which the tail is.
LEMMA ReadTailStep ==
  ASSUME Inv, NEW p \in Proc, ReadTail(p) PROVE Inv'
<1>1. TypeOK' /\ Private /\ Others(p) /\ pc[p] = "tail" /\ pc'[p] = "next"
  BY Zenon DEF Inv, TypeOK, ReadTail, At, Private, Others, EnqPc
<1>2. new' = new /\ oldTail'[p] = tail /\ order' = order /\ tailAt' = tailAt
  BY Zenon DEF Inv, TypeOK, ReadTail
<1>3. tailAt \in 1..tailAt /\ order[tailAt] = tail
  BY DEF Inv, TypeOK, OneList
<1>4. EnqLocals(p)' /\ DeqLocals(p)'
  BY Zenon, <1>1, <1>2, <1>3 DEF EnqLocals, DeqLocals
<1> QED
  BY Zenon, <1>1, <1>2, <1>4, PrivateStep DEF EnqPc

\* enqueue remembers a successor that is not nil for good.
LEMMA ReadNextStep ==
  ASSUME Inv, NEW p \in Proc, ReadNext(p) PROVE Inv'
<1>1. TypeOK' /\ Private /\ Others(p) /\ pc[p] = "next" /\ pc'[p] = "check"
  BY Zenon DEF Inv, TypeOK, ReadNext, At, Private, Others, EnqPc
<1>2. /\ new' = new /\ oldTail' = oldTail /\ oldNext'[p] = next[oldTail[p]]
      /\ next' = next /\ order' = order /\ tailAt' = tailAt
  BY Zenon DEF Inv, TypeOK, ReadNext
<1>3. EnqLocals(p)' /\ DeqLocals(p)'
  BY Zenon, <1>1, <1>2 DEF Inv, EnqLocals, DeqLocals
<1> QED
  BY Zenon, <1>1, <1>2, <1>3, PrivateStep DEF EnqPc

\* Both outcomes of the repeated read of the tail are sound.
LEMMA CheckTailStep ==
  ASSUME Inv, NEW p \in Proc, CheckTail(p) PROVE Inv'
<1>1. TypeOK' /\ Private /\ Others(p) /\ pc[p] = "check" /\ pc'[p] \in {"link", "tail"}
  BY Zenon DEF Inv, TypeOK, CheckTail, At, Private, Others, EnqPc, locals
<1>2. /\ new' = new /\ oldTail' = oldTail /\ oldNext' = oldNext
      /\ next' = next /\ order' = order /\ tailAt' = tailAt
  BY Zenon DEF CheckTail, locals
<1>3. EnqLocals(p)' /\ DeqLocals(p)'
  BY Zenon, <1>1, <1>2 DEF Inv, EnqLocals, DeqLocals
<1> QED
  BY Zenon, <1>1, <1>2, <1>3, PrivateStep DEF EnqPc

\* The counter and the end of a call touch no pointer.
LEMMA ReturnStep ==
  ASSUME Inv, NEW p \in Proc, CountUp(p) \/ CountDown(p) \/ Fail(p) PROVE Inv'
<1>0. \E from : Return(p, from)
  BY Zenon DEF CountUp, CountDown, Fail
<1>1. Private /\ Others(p) /\ pc'[p] = "idle"
  <2>1. \A q \in Proc : q # p => new'[q] = new[q]
    BY Zenon DEF Inv, TypeOK, CountUp, CountDown, Fail
  <2> QED
    BY <1>0, <2>1 DEF Inv, TypeOK, CountUp, CountDown, Fail, Return, At, Private, Others
<1>2. TypeOK'
  <2>1. /\ pc' \in [Proc -> {"idle", "swing", "up", "down"} \cup EnqPc \cup DeqPc]
        /\ oldTail' \in [Proc -> Node] /\ oldNext' \in [Proc -> NodeOrNil]
        /\ oldDummy' \in [Proc -> Node] /\ oldHead' \in [Proc -> NodeOrNil]
    BY Zenon, <1>0 DEF Inv, TypeOK, Return, At, Node, NodeOrNil
  <2>2. new' \in [Proc -> Value \cup {Nil}] /\ size' \in Int
    BY DEF Inv, TypeOK, CountUp, CountDown, Fail
  <2> QED
    BY Zenon, <1>1, <2>1, <2>2 DEF Inv, TypeOK, Private
<1>3. EnqLocals(p)' /\ DeqLocals(p)'
  BY Zenon, <1>1 DEF EnqLocals, DeqLocals
<1> QED
  BY Zenon, <1>1, <1>2, <1>3, PrivateStep DEF EnqPc

\* ... and of dequeue.

\* A dequeue starts without locals.
LEMMA DequeueStep ==
  ASSUME Inv, NEW p \in Proc, Dequeue(p) PROVE Inv'
<1>1. TypeOK' /\ Private /\ Others(p) /\ pc'[p] = "dummy"
  BY Zenon DEF Inv, TypeOK, Dequeue, At, Private, Others, DeqPc, locals
<1>2. EnqLocals(p)' /\ DeqLocals(p)'
  BY Zenon, <1>1 DEF EnqLocals, DeqLocals
<1> QED
  BY Zenon, <1>1, <1>2, PrivateStep DEF EnqPc

\* dequeue remembers the node that is the dummy.
LEMMA ReadDummyStep ==
  ASSUME Inv, NEW p \in Proc, ReadDummy(p) PROVE Inv'
<1>1. TypeOK' /\ Private /\ Others(p) /\ pc'[p] = "head"
  BY Zenon DEF Inv, TypeOK, ReadDummy, At, Private, Others, DeqPc
<1>2. oldDummy'[p] = dummy /\ order' = order /\ headAt' = headAt
  BY Zenon DEF Inv, TypeOK, ReadDummy
<1>3. headAt \in 1..headAt /\ order[headAt] = dummy
  BY DEF Inv, TypeOK, OneList
<1>4. EnqLocals(p)' /\ DeqLocals(p)'
  BY Zenon, <1>1, <1>2, <1>3 DEF EnqLocals, DeqLocals
<1> QED
  BY Zenon, <1>1, <1>4, PrivateStep DEF EnqPc

\* dequeue remembers a successor that is not nil for good.
LEMMA ReadHeadStep ==
  ASSUME Inv, NEW p \in Proc, ReadHead(p) PROVE Inv'
<1>1. TypeOK' /\ Private /\ Others(p) /\ pc[p] = "head" /\ pc'[p] = "dtail"
  BY Zenon DEF Inv, TypeOK, ReadHead, At, Private, Others, DeqPc
<1>2. /\ oldDummy' = oldDummy /\ oldHead'[p] = next[oldDummy[p]]
      /\ next' = next /\ order' = order /\ headAt' = headAt
  BY Zenon DEF Inv, TypeOK, ReadHead
<1>3. EnqLocals(p)' /\ DeqLocals(p)'
  BY Zenon, <1>1, <1>2 DEF Inv, EnqLocals, DeqLocals
<1> QED
  BY Zenon, <1>1, <1>3, PrivateStep DEF EnqPc

\* The tail is read after the dummy and is not behind it.
LEMMA ReadDTailStep ==
  ASSUME Inv, NEW p \in Proc, ReadDTail(p) PROVE Inv'
<1>1. TypeOK' /\ Private /\ Others(p) /\ pc[p] = "dtail" /\ pc'[p] = "dcheck"
  BY Zenon DEF Inv, TypeOK, ReadDTail, At, Private, Others, DeqPc
<1>2. /\ oldDummy' = oldDummy /\ oldHead' = oldHead /\ oldTail'[p] = tail
      /\ next' = next /\ order' = order /\ headAt' = headAt /\ tailAt' = tailAt
  BY Zenon DEF Inv, TypeOK, ReadDTail
<1>3. PICK i \in 1..headAt : order[i] = oldDummy[p]
  BY Zenon, <1>1 DEF Inv, DeqLocals
<1>4. tailAt \in i..tailAt /\ order[tailAt] = tail
  BY <1>3 DEF Inv, TypeOK, OneList
<1>5. EnqLocals(p)'
  BY Zenon, <1>1 DEF EnqLocals
<1>6. DeqLocals(p)'
  BY Zenon, <1>1, <1>2, <1>3, <1>4 DEF Inv, DeqLocals
<1> QED
  BY Zenon, <1>1, <1>5, <1>6, PrivateStep DEF EnqPc

\* Both outcomes of the repeated read of the dummy are sound.
LEMMA CheckDummyStep ==
  ASSUME Inv, NEW p \in Proc, CheckDummy(p) PROVE Inv'
<1>1. /\ TypeOK' /\ Private /\ Others(p) /\ pc[p] = "dcheck"
      /\ pc'[p] \in {"take", "dummy"}
  BY Zenon DEF Inv, TypeOK, CheckDummy, At, Private, Others, DeqPc, locals
<1>2. /\ oldDummy' = oldDummy /\ oldHead' = oldHead /\ oldTail' = oldTail
      /\ next' = next /\ order' = order /\ headAt' = headAt /\ tailAt' = tailAt
  BY Zenon DEF CheckDummy, locals
<1>3. EnqLocals(p)' /\ DeqLocals(p)'
  BY Zenon, <1>1, <1>2 DEF Inv, EnqLocals, DeqLocals
<1> QED
  BY Zenon, <1>1, <1>3, PrivateStep DEF EnqPc


-----------------------------------------------------------------------------
\* The steps that change the list.

\* A fresh value is nowhere in the list and nobody else brings it.
LEMMA EnqueueStep ==
  ASSUME Inv, NEW p \in Proc, NEW v \in Value, Enqueue(p, v) PROVE Inv'
<1>1. /\ UNCHANGED <<next, dummy, tail, order, headAt, tailAt>> /\ Others(p)
      /\ pc'[p] = "tail" /\ new'[p] = v /\ v \notin used /\ used' = used \cup {v}
  BY Zenon DEF Inv, TypeOK, Enqueue, At, Others, locals
<1>2. TypeOK'
  BY Zenon DEF Inv, TypeOK, Enqueue, At, locals, EnqPc
<1>3. OneList' /\ LinkedOnce' /\ Forward
  <2>1. Len(order) \in Nat /\ headAt \in Nat /\ tailAt \in Nat
    BY DEF Inv, TypeOK
  <2> QED
    BY <1>1, <2>1 DEF Inv, OneList, LinkedOnce, Forward
<1>4. \A i \in 1..Len(order) : order[i] # v
  BY Zenon, <1>1, NodeAssumption DEF Inv, LinkedOnce
<1>5. ASSUME NEW q \in Proc PROVE Bringing(q)'
  <2>1. order' = order /\ pc'[p] = "tail" /\ new'[p] = v /\ v \notin used /\ used' = used \cup {v}
    BY Zenon, <1>1
  <2>2. \A r \in Proc : Bringing(r)
    BY Zenon DEF Inv
  <2>3. \A r \in Proc : r # p => pc'[r] = pc[r] /\ new'[r] = new[r]
    BY Zenon, <1>1 DEF Others
  <2>4. \A r \in Proc : pc[r] \in EnqPc => new[r] \in used /\ new[r] # v
    BY Zenon, <2>1, <2>2 DEF Bringing
  <2>5. v \in used' /\ \A x \in used : x \in used'
    BY Zenon, <2>1
  <2>6. CASE q = p
    BY Zenon, <1>4, <2>1, <2>3, <2>4, <2>5, <2>6 DEF Bringing
  <2>7. CASE q # p
    <3>1. pc'[q] = pc[q] /\ new'[q] = new[q] /\ Bringing(q)
      BY Zenon, <2>2, <2>3, <2>7
    <3>2. pc[q] \in EnqPc => new[q] \in used' /\ \A i \in 1..Len(order') : order'[i] # new[q]
      BY Zenon, <2>1, <2>5, <3>1 DEF Bringing
    <3>3. ASSUME pc[q] \in EnqPc, NEW r \in Proc, r # q, pc'[r] \in EnqPc PROVE new'[r] # new[q]
      <4>1. CASE r = p
        BY Zenon, <2>1, <2>4, <3>3, <4>1
      <4>2. CASE r # p
        BY Zenon, <2>3, <3>1, <3>3, <4>2 DEF Bringing
      <4> QED
        BY Zenon, <4>1, <4>2
    <3> QED
      BY Zenon, <3>1, <3>2, <3>3 DEF Bringing
  <2> QED
    BY Zenon, <2>6, <2>7
<1>6. EnqLocals(p)' /\ DeqLocals(p)'
  BY Zenon, <1>1 DEF EnqLocals, DeqLocals
<1>7. \A q \in Proc : EnqLocals(q)' /\ DeqLocals(q)'
  BY Zenon, <1>1, <1>2, <1>3, <1>6, OthersKept
<1> QED
  BY Zenon, <1>2, <1>3, <1>5, <1>7 DEF Inv

\* Moving the tail to the successor of a node at which it still is.
LEMMA CasTailStep ==
  ASSUME Inv, NEW old \in Node, NEW n \in Node, n # Nil, next[old] = n, CasTail(old, n),
         UNCHANGED <<next, dummy, used, order, headAt>>
  PROVE  OneList' /\ LinkedOnce' /\ Forward /\ tail' \in Node /\ tailAt' \in Nat
<1>1. Len(order) \in Nat /\ headAt \in Nat /\ tailAt \in Nat
  BY DEF Inv, TypeOK
<1>2. /\ tailAt \in 1..Len(order) /\ order[tailAt] = tail /\ headAt <= tailAt
      /\ 1 <= headAt /\ order[headAt] = dummy
  BY <1>1 DEF Inv, OneList
<1>3. CASE tail = old
  <2>1. tailAt < Len(order) /\ n = order[tailAt + 1]
    BY Zenon, <1>2, <1>3, NextIsValue
  <2>2. tail' = n /\ tailAt' = tailAt + 1
    BY Zenon, <1>3 DEF CasTail
  <2>3. OneList'
    BY <1>1, <1>2, <2>1, <2>2 DEF Inv, OneList
  <2> QED
    BY <1>1, <2>2, <2>3 DEF Inv, LinkedOnce, Forward
<1>4. CASE tail # old
  BY <1>1, <1>4 DEF Inv, TypeOK, OneList, LinkedOnce, Forward, CasTail
<1> QED
  BY Zenon, <1>3, <1>4

\* enqueue helps a tail that lags behind.
LEMMA HelpTailStep ==
  ASSUME Inv, NEW p \in Proc, HelpTail(p) PROVE Inv'
<1>1. /\ UNCHANGED <<next, dummy, used, order, headAt, new>> /\ Others(p)
      /\ pc[p] = "link" /\ pc'[p] = "tail" /\ oldNext[p] # Nil
      /\ CasTail(oldTail[p], oldNext[p])
  BY Zenon DEF Inv, TypeOK, HelpTail, At, Others, locals
<1>2. /\ oldTail[p] \in Node /\ oldNext[p] \in Node
      /\ next[oldTail[p]] = oldNext[p]
  BY Zenon, <1>1 DEF Inv, TypeOK, EnqLocals, NodeOrNil
<1>3. OneList' /\ LinkedOnce' /\ Forward /\ tail' \in Node /\ tailAt' \in Nat
  BY Zenon, <1>1, <1>2, CasTailStep
<1>4. TypeOK'
  <2>1. pc' \in [Proc -> Pcs]
    <3>1. At(p, "link", "tail")
      BY Zenon DEF HelpTail
    <3>2. "tail" \in Pcs
      BY Zenon DEF Pcs, EnqPc, DeqPc
    <3> QED
      BY Zenon, <3>1, <3>2, Goes
  <2>2. UNCHANGED <<next, dummy, size, new, locals, used, order, headAt>>
    BY Zenon DEF HelpTail
  <2> QED
    BY Zenon, <1>3, <2>1, <2>2, TailTypes
<1>5. \A q \in Proc : Bringing(q)'
  <2>1. \A q \in Proc : pc'[q] \in EnqPc => pc[q] \in EnqPc
    BY Zenon, <1>1 DEF Others, EnqPc
  <2>2. UNCHANGED <<used, order, new>>
    BY Zenon, <1>1
  <2> QED
    BY Zenon, <2>1, <2>2, BringingKept
<1>6. EnqLocals(p)' /\ DeqLocals(p)'
  BY Zenon, <1>1 DEF EnqLocals, DeqLocals
<1>7. \A q \in Proc : EnqLocals(q)' /\ DeqLocals(q)'
  BY Zenon, <1>1, <1>3, <1>4, <1>6, OthersKept
<1> QED
  BY Zenon, <1>3, <1>4, <1>5, <1>7 DEF Inv

\* enqueue moves the tail to its own node.
LEMMA SwingTailStep ==
  ASSUME Inv, NEW p \in Proc, SwingTail(p) PROVE Inv'
<1>1. /\ UNCHANGED <<next, dummy, used, order, headAt, new>> /\ Others(p)
      /\ pc[p] = "swing" /\ pc'[p] = "up"
      /\ CasTail(oldTail[p], new[p])
  BY Zenon DEF Inv, TypeOK, SwingTail, At, Others, locals
<1>2. /\ oldTail[p] \in Node /\ new[p] \in Node /\ new[p] # Nil
      /\ next[oldTail[p]] = new[p]
  BY Zenon, <1>1 DEF Inv, TypeOK, EnqLocals, Node
<1>3. OneList' /\ LinkedOnce' /\ Forward /\ tail' \in Node /\ tailAt' \in Nat
  BY Zenon, <1>1, <1>2, CasTailStep
<1>4. TypeOK'
  <2>1. pc' \in [Proc -> Pcs]
    <3>1. At(p, "swing", "up")
      BY Zenon DEF SwingTail
    <3>2. "up" \in Pcs
      BY Zenon DEF Pcs, EnqPc, DeqPc
    <3> QED
      BY Zenon, <3>1, <3>2, Goes
  <2>2. UNCHANGED <<next, dummy, size, new, locals, used, order, headAt>>
    BY Zenon DEF SwingTail
  <2> QED
    BY Zenon, <1>3, <2>1, <2>2, TailTypes
<1>5. \A q \in Proc : Bringing(q)'
  <2>1. \A q \in Proc : pc'[q] \in EnqPc => pc[q] \in EnqPc
    BY Zenon, <1>1 DEF Others, EnqPc
  <2>2. UNCHANGED <<used, order, new>>
    BY Zenon, <1>1
  <2> QED
    BY Zenon, <2>1, <2>2, BringingKept
<1>6. EnqLocals(p)' /\ DeqLocals(p)'
  BY Zenon, <1>1 DEF EnqLocals, DeqLocals
<1>7. \A q \in Proc : EnqLocals(q)' /\ DeqLocals(q)'
  BY Zenon, <1>1, <1>3, <1>4, <1>6, OthersKept
<1> QED
  BY Zenon, <1>3, <1>4, <1>5, <1>7 DEF Inv

\* dequeue helps a tail that still is the dummy.
LEMMA HelpDTailStep ==
  ASSUME Inv, NEW p \in Proc, HelpDTail(p) PROVE Inv'
<1>1. /\ UNCHANGED <<next, dummy, used, order, headAt, new>> /\ Others(p)
      /\ pc[p] = "take" /\ pc'[p] = "dummy" /\ oldHead[p] # Nil
      /\ oldTail[p] = oldDummy[p] /\ CasTail(oldTail[p], oldHead[p])
  BY Zenon DEF Inv, TypeOK, HelpDTail, At, Others, locals
<1>2. /\ oldTail[p] \in Node /\ oldHead[p] \in Node
      /\ next[oldTail[p]] = oldHead[p]
  BY Zenon, <1>1 DEF Inv, TypeOK, DeqLocals, NodeOrNil
<1>3. OneList' /\ LinkedOnce' /\ Forward /\ tail' \in Node /\ tailAt' \in Nat
  BY Zenon, <1>1, <1>2, CasTailStep
<1>4. TypeOK'
  <2>1. pc' \in [Proc -> Pcs]
    <3>1. At(p, "take", "dummy")
      BY Zenon DEF HelpDTail
    <3>2. "dummy" \in Pcs
      BY Zenon DEF Pcs, EnqPc, DeqPc
    <3> QED
      BY Zenon, <3>1, <3>2, Goes
  <2>2. UNCHANGED <<next, dummy, size, new, locals, used, order, headAt>>
    BY Zenon DEF HelpDTail
  <2> QED
    BY Zenon, <1>3, <2>1, <2>2, TailTypes
<1>5. \A q \in Proc : Bringing(q)'
  <2>1. \A q \in Proc : pc'[q] \in EnqPc => pc[q] \in EnqPc
    BY Zenon, <1>1 DEF Others, EnqPc
  <2>2. UNCHANGED <<used, order, new>>
    BY Zenon, <1>1
  <2> QED
    BY Zenon, <2>1, <2>2, BringingKept
<1>6. EnqLocals(p)' /\ DeqLocals(p)'
  BY Zenon, <1>1 DEF EnqLocals, DeqLocals
<1>7. \A q \in Proc : EnqLocals(q)' /\ DeqLocals(q)'
  BY Zenon, <1>1, <1>3, <1>4, <1>6, OthersKept
<1> QED
  BY Zenon, <1>3, <1>4, <1>5, <1>7 DEF Inv

\* The pointer of a node of the list is nil at its end only, and the tail is there.
LEMMA NilIsEnd ==
  ASSUME Inv, NEW i \in 1..tailAt, next[order[i]] = Nil
  PROVE  i = Len(order) /\ tailAt = Len(order)
<1>1. Len(order) \in Nat /\ tailAt \in Nat /\ tailAt <= Len(order)
  BY DEF Inv, TypeOK, OneList
<1>2. i \in 1..Len(order)
  BY <1>1
<1>3. CASE i # Len(order)
  <2>1. i + 1 \in 1..Len(order) /\ next[order[i]] = order[i + 1]
    BY <1>1, <1>2, <1>3 DEF Inv, OneList
  <2>2. order[i + 1] \in Node
    BY <2>1 DEF Inv, TypeOK
  <2> QED
    BY Zenon, <2>1, <2>2, NodeAssumption
<1> QED
  BY <1>1, <1>3

\* A linked node is put behind the last one.
LEMMA LinkStep ==
  ASSUME Inv, NEW p \in Proc, Link(p) PROVE Inv'
<1>1. /\ UNCHANGED <<dummy, tail, size, new, locals, used, headAt, tailAt>> /\ Others(p)
      /\ pc[p] = "link"
  BY Zenon DEF Inv, TypeOK, Link, At, Others, locals
<1>2. /\ Len(order) \in Nat /\ headAt \in Nat /\ tailAt \in Nat /\ order \in Seq(Node)
      /\ headAt <= tailAt /\ tailAt <= Len(order) /\ 1 <= headAt
      /\ order[headAt] = dummy /\ order[tailAt] = tail
      /\ next \in [Node -> NodeOrNil] /\ oldTail[p] \in Node
  BY DEF Inv, TypeOK, OneList
<1>3. PICK i \in 1..tailAt : order[i] = oldTail[p]
  BY Zenon, <1>1 DEF Inv, EnqLocals
<1>4. CASE next[oldTail[p]] = Nil
  <2> DEFINE L == Len(order)
             x == new[p]
  <2>0. 1 \in 1..L /\ \A k \in 1..(L + 1) : k = L + 1 \/ k \in 1..L
    BY <1>2
  <2>1. /\ pc' = [pc EXCEPT ![p] = "swing"] /\ pc'[p] = "swing"
        /\ next' = [next EXCEPT ![oldTail[p]] = x] /\ order' = Append(order, x)
    BY <1>4 DEF Link, At, Inv, TypeOK
  <2>2. /\ x \in Value /\ x \in Node /\ x # Nil /\ x \in used
        /\ \A k \in 1..L : order[k] # x
    BY Zenon, <1>1, NodeAssumption DEF Inv, Bringing, TypeOK, EnqPc, Node
  <2>3. i = L /\ tailAt = L /\ oldTail[p] = order[L]
    BY Zenon, <1>3, <1>4, NilIsEnd
  <2>4. /\ order' \in Seq(Node) /\ Len(order') = L + 1 /\ order'[L + 1] = x
        /\ \A k \in 1..L : order'[k] = order[k]
    BY <1>2, <2>1, <2>2
  <2>5. next' \in [Node -> NodeOrNil]
    BY Zenon, <1>2, <2>1, <2>2 DEF NodeOrNil
  <2>6. TypeOK'
    BY Zenon, <1>1, <2>1, <2>4, <2>5 DEF Inv, TypeOK, locals
  <2>7. \A k \in 1..L : order[k] \in Node /\ (order[k] = order[L] => k = L)
    BY <1>2, <2>3 DEF Inv, LinkedOnce
  <2>8. \A n \in Node : next'[n] = IF n = order[L] THEN x ELSE next[n]
    BY Zenon, <1>2, <2>1, <2>3
  <2>9. next[x] = Nil /\ next[order[L]] = Nil
    BY Zenon, <1>4, <2>2, <2>3 DEF Inv, LinkedOnce
  <2>10. ASSUME NEW k \in 1..(L + 1)
         PROVE  next'[order'[k]] = IF k = L + 1 THEN Nil ELSE order'[k + 1]
    <3>1. CASE k = L + 1
      BY Zenon, <1>2, <2>2, <2>3, <2>4, <2>7, <2>8, <2>9, <3>1
    <3>2. CASE k = L
      BY <1>2, <2>3, <2>4, <2>7, <2>8, <3>2
    <3>3. CASE k < L
      <4>1. k \in 1..L /\ k + 1 \in 1..L /\ next[order[k]] = order[k + 1]
        BY <1>2, <3>3 DEF Inv, OneList
      <4> QED
        BY <1>2, <2>4, <2>7, <2>8, <4>1, <3>3
    <3> QED
      BY <1>2, <3>1, <3>2, <3>3
  <2>11. OneList'
    <3>1. 1 <= headAt' /\ headAt' <= tailAt' /\ tailAt' \in {Len(order') - 1, Len(order')}
      BY <1>1, <1>2, <2>3, <2>4
    <3>2. order'[headAt'] = dummy' /\ order'[tailAt'] = tail'
      BY <1>1, <1>2, <2>4
    <3> QED
      BY Zenon, <2>4, <2>10, <3>1, <3>2 DEF OneList
  <2>12. LinkedOnce'
    <3>0. LinkedOnce /\ used' = used
      BY Zenon, <1>1 DEF Inv
    <3>1. ASSUME NEW j \in 1..(L + 1), NEW k \in 1..(L + 1), order'[j] = order'[k]
          PROVE  j = k
      <4>1. CASE j \in 1..L /\ k \in 1..L
        <5>1. order[j] = order[k]
          BY Zenon, <2>4, <3>1, <4>1
        <5> QED
          BY Zenon, <3>0, <4>1, <5>1 DEF LinkedOnce
      <4>2. CASE j = L + 1 /\ k \in 1..L
        BY Zenon, <2>2, <2>4, <3>1, <4>2
      <4>3. CASE j \in 1..L /\ k = L + 1
        BY Zenon, <2>2, <2>4, <3>1, <4>3
      <4> QED
        BY Zenon, <2>0, <4>1, <4>2, <4>3
    <3>2. \A k \in 1..(L + 1) : order'[k] \in used' \cup {Dummy}
      BY Zenon, <2>2, <2>4, <2>0, <3>0 DEF LinkedOnce
    <3>3. order'[1] = Dummy
      BY Zenon, <2>4, <2>0, <3>0 DEF LinkedOnce
    <3>4. ASSUME NEW n \in Node, \A k \in 1..(L + 1) : order'[k] # n PROVE next'[n] = Nil
      <4>1. \A k \in 1..L : order[k] # n
        BY <1>2, <2>4, <3>4
      <4>2. L \in 1..L
        BY <1>2
      <4> QED
        BY Zenon, <2>8, <4>1, <4>2 DEF Inv, LinkedOnce
    <3> QED
      BY Zenon, <2>4, <3>1, <3>2, <3>3, <3>4 DEF LinkedOnce
  <2>13. Forward
    BY <1>1, <1>2, <2>4, <2>8, <2>9 DEF Forward
  <2>14. ASSUME NEW q \in Proc PROVE Bringing(q)'
    <3>1. CASE q = p
      BY Zenon, <2>1, <3>1 DEF Bringing, EnqPc
    <3>2. CASE q # p
      <4>1. pc'[q] = pc[q] /\ new' = new /\ used' = used
        BY Zenon, <1>1, <3>2 DEF Others
      <4>2. pc[q] \in EnqPc => new[q] # x
        BY Zenon, <1>1, <3>2 DEF Inv, Bringing, EnqPc
      <4>3. pc[q] \in EnqPc => \A k \in 1..(L + 1) : order'[k] # new[q]
        BY Zenon, <2>4, <2>0, <4>2 DEF Inv, Bringing
      <4>4. \A r \in Proc : pc'[r] \in EnqPc => pc[r] \in EnqPc
        BY Zenon, <1>1, <2>1 DEF Others, EnqPc
      <4> QED
        BY Zenon, <2>4, <4>1, <4>3, <4>4 DEF Inv, Bringing
    <3> QED
      BY Zenon, <3>1, <3>2
  <2>15. EnqLocals(p)' /\ DeqLocals(p)'
    <3>1. order'[i] = oldTail[p] /\ i \in 1..tailAt'
      BY Zenon, <1>1, <1>2, <1>3, <2>3, <2>4
    <3>2. next'[oldTail[p]] = new[p]
      BY Zenon, <1>2, <2>1
    <3> QED
      BY Zenon, <1>1, <2>1, <2>2, <3>1, <3>2 DEF EnqLocals, DeqLocals, locals
  <2>16. \A q \in Proc : EnqLocals(q)' /\ DeqLocals(q)'
    BY Zenon, <1>1, <2>6, <2>11, <2>13, <2>15, OthersKept
  <2> QED
    BY Zenon, <2>6, <2>11, <2>12, <2>14, <2>16 DEF Inv
<1>5. CASE next[oldTail[p]] # Nil
  <2>1. UNCHANGED <<next, order>> /\ pc' = [pc EXCEPT ![p] = "tail"] /\ pc'[p] = "tail"
    BY Zenon, <1>5 DEF Link, At, Inv, TypeOK
  <2>2. TypeOK'
    BY Zenon, <1>1, <2>1 DEF Inv, TypeOK, locals, EnqPc
  <2>3. EnqLocals(p)' /\ DeqLocals(p)' /\ Private
    BY Zenon, <1>1, <2>1 DEF EnqLocals, DeqLocals, Private
  <2> QED
    BY Zenon, <1>1, <2>2, <2>3, PrivateStep DEF EnqPc
<1> QED
  BY Zenon, <1>4, <1>5

\* A dequeue that wins the swap takes the node behind the dummy, and the tail is
\* already past the dummy.
LEMMA TakeFacts ==
  ASSUME Inv, NEW p \in Proc, pc[p] = "take", oldHead[p] # Nil,
         oldTail[p] # oldDummy[p], dummy = oldDummy[p]
  PROVE  headAt < tailAt /\ oldHead[p] = order[headAt + 1] /\ oldHead[p] \in Value
<1>1. /\ Len(order) \in Nat /\ headAt \in Nat /\ tailAt \in Nat
      /\ headAt <= tailAt /\ tailAt <= Len(order) /\ 1 <= headAt
      /\ order[headAt] = dummy /\ dummy \in Node
  BY DEF Inv, TypeOK, OneList
<1>2. PICK i \in 1..headAt : \E j \in i..tailAt :
        order[i] = oldDummy[p] /\ order[j] = oldTail[p]
  BY Zenon DEF Inv, DeqLocals
<1>3. PICK j \in i..tailAt : order[i] = oldDummy[p] /\ order[j] = oldTail[p]
  BY Zenon, <1>2
<1>4. i = headAt
  BY <1>1, <1>3 DEF Inv, LinkedOnce
<1>5. headAt < tailAt
  BY <1>1, <1>3, <1>4
<1>6. next[dummy] = oldHead[p]
  BY Zenon DEF Inv, DeqLocals
<1> QED
  BY <1>1, <1>5, <1>6, NextIsValue

\* Taking a node moves the dummy, never past the tail.
LEMMA TakeStep ==
  ASSUME Inv, NEW p \in Proc, Take(p) PROVE Inv'
<1>1. /\ UNCHANGED <<next, tail, size, locals, used, order, tailAt>> /\ Others(p)
      /\ pc[p] = "take" /\ oldHead[p] # Nil /\ oldTail[p] # oldDummy[p]
  BY Zenon DEF Inv, TypeOK, Take, At, Others, locals
<1>2. /\ Len(order) \in Nat /\ headAt \in Nat /\ tailAt \in Nat
      /\ headAt <= tailAt /\ tailAt <= Len(order) /\ 1 <= headAt
  BY DEF Inv, TypeOK, OneList
<1>3. CASE dummy = oldDummy[p]
  <2>1. /\ pc' = [pc EXCEPT ![p] = "down"] /\ pc'[p] = "down"
        /\ dummy' = oldHead[p] /\ headAt' = headAt + 1
        /\ new' = [new EXCEPT ![p] = oldHead[p]]
    BY Zenon, <1>3 DEF Take, At, Inv, TypeOK
  <2>2. headAt < tailAt /\ oldHead[p] = order[headAt + 1] /\ oldHead[p] \in Value
    BY Zenon, <1>1, <1>3, TakeFacts
  <2>3. TypeOK'
    <3>1. new' \in [Proc -> Value \cup {Nil}] /\ dummy' \in Node /\ headAt' \in Nat
      BY <1>2, <2>1, <2>2 DEF Inv, TypeOK, Node
    <3> QED
      BY Zenon, <1>1, <2>1, <3>1 DEF Inv, TypeOK, locals
  <2>4. OneList'
    <3>1. order' = order /\ next' = next /\ tail' = tail /\ tailAt' = tailAt
      BY Zenon, <1>1
    <3>2. 1 <= headAt' /\ headAt' <= tailAt'
      BY <1>2, <2>1, <2>2, <3>1
    <3>3. order'[headAt'] = dummy'
      BY Zenon, <2>1, <2>2, <3>1
    <3>4. OneList
      BY Zenon DEF Inv
    <3> QED
      BY Zenon, <3>1, <3>2, <3>3, <3>4 DEF OneList
  <2>5. LinkedOnce' /\ Forward
    BY <1>1, <1>2, <2>1 DEF Inv, LinkedOnce, Forward
  <2>6. \A q \in Proc : Bringing(q)'
    BY <1>1, <2>1 DEF Inv, Bringing, Others, EnqPc
  <2>7. EnqLocals(p)' /\ DeqLocals(p)'
    BY Zenon, <2>1 DEF EnqLocals, DeqLocals
  <2>8. \A q \in Proc : EnqLocals(q)' /\ DeqLocals(q)'
    BY Zenon, <1>1, <2>3, <2>4, <2>5, <2>7, OthersKept
  <2> QED
    BY Zenon, <2>3, <2>4, <2>5, <2>6, <2>8 DEF Inv
<1>4. CASE dummy # oldDummy[p]
  <2>1. /\ pc' = [pc EXCEPT ![p] = "dummy"] /\ pc'[p] = "dummy"
        /\ UNCHANGED <<dummy, headAt, new>>
    BY Zenon, <1>4 DEF Take, At, Inv, TypeOK
  <2>2. TypeOK'
    BY Zenon, <1>1, <2>1 DEF Inv, TypeOK, locals, DeqPc
  <2>3. EnqLocals(p)' /\ DeqLocals(p)' /\ Private
    BY Zenon, <1>1, <2>1 DEF EnqLocals, DeqLocals, Private
  <2> QED
    BY Zenon, <1>1, <2>1, <2>2, <2>3, PrivateStep DEF EnqPc
<1> QED
  BY Zenon, <1>3, <1>4

\* Every step keeps the invariant.
LEMMA InvNext == Inv /\ [Next]_vars => Inv'
<1> SUFFICES ASSUME Inv, [Next]_vars PROVE Inv'
  BY Zenon
<1>1. CASE Next
  <2>1. PICK p \in Proc : (\E v \in Value : Enqueue(p, v)) \/ Dequeue(p) \/ Inside(p)
    BY Zenon, <1>1 DEF Next
  <2>2. CASE \E v \in Value : Enqueue(p, v)
    BY Zenon, <2>2, EnqueueStep
  <2>3. CASE ReadTail(p) \/ ReadNext(p) \/ CheckTail(p) \/ HelpTail(p) \/ Link(p) \/ SwingTail(p)
    BY Zenon, <2>3, ReadTailStep, ReadNextStep, CheckTailStep, HelpTailStep, LinkStep, SwingTailStep
  <2>4. CASE Dequeue(p) \/ ReadDummy(p) \/ ReadHead(p) \/ ReadDTail(p) \/ CheckDummy(p)
    BY Zenon, <2>4, DequeueStep, ReadDummyStep, ReadHeadStep, ReadDTailStep, CheckDummyStep
  <2>5. CASE HelpDTail(p) \/ Take(p)
    BY Zenon, <2>5, HelpDTailStep, TakeStep
  <2>6. CASE CountUp(p) \/ CountDown(p) \/ Fail(p)
    BY Zenon, <2>6, ReturnStep
  <2> QED
    BY Zenon, <2>1, <2>2, <2>3, <2>4, <2>5, <2>6 DEF Inside
<1>2. CASE UNCHANGED vars
  <2>1. /\ next' = next /\ dummy' = dummy /\ tail' = tail /\ size' = size /\ pc' = pc
        /\ new' = new /\ used' = used /\ order' = order /\ headAt' = headAt /\ tailAt' = tailAt
    BY Zenon, <1>2 DEF vars
  <2>2. /\ oldTail' = oldTail /\ oldNext' = oldNext /\ oldDummy' = oldDummy
        /\ oldHead' = oldHead
    BY Zenon, <1>2 DEF vars, locals
  <2>3. TypeOK'
    BY Zenon, <2>1, <2>2 DEF Inv, TypeOK
  <2>4. OneList' /\ LinkedOnce'
    BY Zenon, <2>1 DEF Inv, OneList, LinkedOnce
  <2>5. \A p \in Proc : Bringing(p)'
    BY Zenon, <2>1, BringingKept
  <2>6. \A p \in Proc : EnqLocals(p)' /\ DeqLocals(p)'
    BY Zenon, <2>1, <2>2 DEF Inv, EnqLocals, DeqLocals
  <2> QED
    BY Zenon, <2>3, <2>4, <2>5, <2>6 DEF Inv
<1> QED
  BY Zenon, <1>1, <1>2

\* The invariant holds in every state.
LEMMA Invariance == Spec => []Inv
  BY InvInit, InvNext, PTL DEF Spec

\* The pointers of lfreequeue form one list at all times, and tail is never behind
\* dummy nor more than one node behind the end: HelpTail and HelpDTail need to
\* move it by one node only, and Take never leaves it behind.
THEOREM ListInvariant == Spec => []OneList
<1>1. Inv => OneList
  BY Zenon DEF Inv
<1> QED
  BY <1>1, Invariance, PTL


-----------------------------------------------------------------------------
\* The refinement.

\* A step of p moves p alone in the abstract list.
LEMMA MovesAlone ==
  ASSUME NEW p \in Proc, Others(p)
  PROVE  Ops' = [Ops EXCEPT ![p] = Op(p)'] /\ Saw' = [Saw EXCEPT ![p] = SawEmpty(p)']
<1>1. \A q \in Proc : q # p => Op(q)' = Op(q) /\ SawEmpty(q)' = SawEmpty(q)
  BY Zenon DEF Others, Op, SawEmpty
<1> QED
  BY Zenon, <1>1 DEF Ops, Saw

\* A step of p that leaves the list, the counter, p's place in its call and what
\* it knows alone is no step of the abstract list.
LEMMA Stutters ==
  ASSUME NEW p \in Proc, Others(p), UNCHANGED <<order, headAt, size, new, used>>,
         Op(p)' = Op(p), SawEmpty(p)' = SawEmpty(p)
  PROVE  UNCHANGED Fifo!vars
<1>1. Ops' = Ops
  BY Zenon, MovesAlone DEF Ops
<1>2. Saw' = Saw
  BY Zenon, MovesAlone DEF Saw
<1>3. Items' = Items
  BY Zenon DEF Items
<1> QED
  BY Zenon, <1>1, <1>2, <1>3 DEF Fifo!vars

\* The start of a call.
LEMMA StartSteps ==
  ASSUME Inv, NEW p \in Proc, (\E v \in Value : Enqueue(p, v)) \/ Dequeue(p)
  PROVE  Fifo!Next
<1>1. Others(p) /\ UNCHANGED <<order, headAt, size>>
  BY Zenon DEF Inv, TypeOK, Enqueue, Dequeue, At, Others, locals
<1>2. Items' = Items
  BY Zenon, <1>1 DEF Items
<1>3. pc[p] = "idle" /\ Ops[p] = "idle" /\ Saw[p] = FALSE
  BY Zenon DEF Enqueue, Dequeue, At, Ops, Op, Saw, SawEmpty, EnqPc, DeqPc
<1>4. CASE \E v \in Value : Enqueue(p, v)
  <2>1. PICK v \in Value : Enqueue(p, v)
    BY Zenon, <1>4
  <2>2. pc'[p] = "tail"
    BY Zenon, <2>1 DEF Inv, TypeOK, Enqueue, At
  <2>3. Op(p)' = "enq" /\ SawEmpty(p)' = FALSE
    BY Zenon, <2>2 DEF Op, SawEmpty, EnqPc, DeqPc
  <2>4. Ops' = [Ops EXCEPT ![p] = "enq"] /\ Saw' = Saw
    BY Zenon, <1>1, <1>3, <2>3, MovesAlone DEF Saw
  <2>5. Fifo!StartEnq(p, v)
    BY Zenon, <1>1, <1>2, <1>3, <2>1, <2>4 DEF Fifo!StartEnq, Fifo!Goto, Enqueue
  <2> QED
    BY Zenon, <2>5 DEF Fifo!Next
<1>5. CASE Dequeue(p)
  <2>1. pc'[p] = "dummy" /\ new' = new /\ used' = used
    BY Zenon, <1>5 DEF Inv, TypeOK, Dequeue, At
  <2>2. Op(p)' = "deq" /\ SawEmpty(p)' = FALSE
    BY Zenon, <2>1 DEF Op, SawEmpty, EnqPc, DeqPc
  <2>3. Ops' = [Ops EXCEPT ![p] = "deq"] /\ Saw' = Saw
    BY Zenon, <1>1, <1>3, <2>2, MovesAlone DEF Saw
  <2>4. Fifo!StartDeq(p)
    BY Zenon, <1>1, <1>2, <1>3, <2>1, <2>3 DEF Fifo!StartDeq, Fifo!Goto
  <2> QED
    BY Zenon, <2>4 DEF Fifo!Next
<1> QED
  BY Zenon, <1>4, <1>5

\* Reads, checks, and moves of the tail are invisible; so is a lost swap.
LEMMA HiddenSteps ==
  ASSUME Inv, NEW p \in Proc,
         \/ ReadTail(p) \/ ReadNext(p) \/ CheckTail(p) \/ HelpTail(p) \/ SwingTail(p)
         \/ Link(p) /\ next[oldTail[p]] # Nil
         \/ ReadDummy(p) \/ ReadDTail(p) \/ HelpDTail(p)
         \/ Take(p) /\ dummy # oldDummy[p]
  PROVE  UNCHANGED Fifo!vars
<1>1. UNCHANGED <<order, headAt, size, new, used>>
  BY Zenon DEF ReadTail, ReadNext, CheckTail, HelpTail, SwingTail, Link,
         ReadDummy, ReadDTail, HelpDTail, Take
<1>2. CASE \/ ReadTail(p) \/ ReadNext(p) \/ CheckTail(p) \/ HelpTail(p)
           \/ Link(p) /\ next[oldTail[p]] # Nil
  <2>1. \E from, to \in EnqPc : At(p, from, to)
    BY Zenon, <1>2 DEF ReadTail, ReadNext, CheckTail, HelpTail, Link, EnqPc
  <2>2. PICK from \in EnqPc, to \in EnqPc : At(p, from, to)
    BY Zenon, <2>1
  <2>3. to \in Pcs
    BY Zenon DEF Pcs
  <2>4. pc[p] \in EnqPc /\ pc'[p] \in EnqPc
    BY Zenon, <2>2, <2>3, Goes
  <2>5. Op(p)' = Op(p)
    BY Zenon, <2>4 DEF Op, EnqPc, DeqPc
  <2>6. SawEmpty(p) = FALSE /\ SawEmpty(p)' = FALSE
    BY Zenon, <2>4 DEF SawEmpty, EnqPc
  <2>7. Others(p)
    <3>1. CASE ReadTail(p) \/ ReadNext(p)
      BY Zenon, <2>2, <2>3, <3>1, LocalStep DEF ReadTail, ReadNext
    <3>2. CASE CheckTail(p) \/ HelpTail(p) \/ Link(p)
      BY Zenon, <2>2, <2>3, <3>2, LocalStep DEF CheckTail, HelpTail, Link, locals
    <3> QED
      BY Zenon, <1>2, <3>1, <3>2
  <2> QED
    BY Zenon, <1>1, <2>5, <2>6, <2>7, Stutters
<1>3. CASE SwingTail(p)
  <2>1. At(p, "swing", "up") /\ "up" \in Pcs /\ UNCHANGED <<new, locals>>
    BY Zenon, <1>3 DEF SwingTail, Pcs
  <2>2. pc[p] = "swing" /\ pc'[p] = "up"
    BY Zenon, <2>1, Goes
  <2>3. Op(p)' = Op(p) /\ SawEmpty(p) = FALSE /\ SawEmpty(p)' = FALSE
    BY Zenon, <2>2 DEF Op, SawEmpty, EnqPc, DeqPc
  <2>4. Others(p)
    BY Zenon, <2>1, LocalStep DEF locals
  <2> QED
    BY Zenon, <1>1, <2>3, <2>4, Stutters
<1>4. CASE ReadDummy(p) \/ ReadDTail(p) \/ HelpDTail(p) \/ (Take(p) /\ dummy # oldDummy[p])
  <2>1. \E from, to \in DeqPc : At(p, from, to)
    BY Zenon, <1>4 DEF ReadDummy, ReadDTail, HelpDTail, Take, DeqPc
  <2>2. PICK from \in DeqPc, to \in DeqPc : At(p, from, to)
    BY Zenon, <2>1
  <2>3. to \in Pcs
    BY Zenon DEF Pcs
  <2>4. pc[p] \in DeqPc /\ pc'[p] \in DeqPc /\ pc[p] = from /\ pc'[p] = to
    BY Zenon, <2>2, <2>3, Goes
  <2>5. Op(p)' = Op(p)
    BY Zenon, <2>4 DEF Op, EnqPc, DeqPc
  <2>6. SawEmpty(p)' = SawEmpty(p)
    <3>1. CASE ReadDummy(p)
      <4>1. pc[p] = "dummy" /\ pc'[p] = "head"
        BY Zenon, <2>4, <3>1, Goes DEF ReadDummy, Pcs, DeqPc
      <4> QED
        BY Zenon, <4>1 DEF SawEmpty
    <3>2. CASE ReadDTail(p)
      <4>1. pc[p] = "dtail" /\ pc'[p] = "dcheck" /\ oldHead' = oldHead
        BY Zenon, <2>4, <3>2, Goes DEF ReadDTail, Pcs, DeqPc
      <4> QED
        BY Zenon, <4>1 DEF SawEmpty
    <3>3. CASE HelpDTail(p) \/ (Take(p) /\ dummy # oldDummy[p])
      <4>1. oldHead[p] # Nil /\ At(p, "take", "dummy")
        BY Zenon, <3>3 DEF HelpDTail, Take
      <4>2. pc'[p] = "dummy"
        BY Zenon, <4>1, Goes DEF Pcs, DeqPc
      <4> QED
        BY Zenon, <4>1, <4>2 DEF SawEmpty
    <3> QED
      BY Zenon, <1>4, <3>1, <3>2, <3>3
  <2>7. Others(p)
    <3>1. CASE ReadDummy(p) \/ ReadDTail(p)
      BY Zenon, <2>2, <2>3, <3>1, LocalStep DEF ReadDummy, ReadDTail
    <3>2. CASE HelpDTail(p) \/ (Take(p) /\ dummy # oldDummy[p])
      BY Zenon, <2>2, <2>3, <3>2, LocalStep DEF HelpDTail, Take, locals
    <3> QED
      BY Zenon, <1>4, <3>1, <3>2
  <2> QED
    BY Zenon, <1>1, <2>5, <2>6, <2>7, Stutters
<1> QED
  BY Zenon, <1>2, <1>3, <1>4

\* A won swap of the last pointer puts the value at the end of the abstract list.
LEMMA LinkShows ==
  ASSUME Inv, NEW p \in Proc, Link(p), next[oldTail[p]] = Nil PROVE Fifo!Link(p)
<1>1. /\ Others(p) /\ UNCHANGED <<size, new, used, headAt>> /\ order' = Append(order, new[p])
      /\ pc[p] = "link" /\ pc'[p] = "swing"
  BY DEF Inv, TypeOK, Link, At, Others, locals
<1>2. Ops[p] = "enq" /\ Saw[p] = FALSE
  BY Zenon, <1>1 DEF Ops, Op, Saw, SawEmpty, EnqPc, DeqPc
<1>3. Op(p)' = "linked" /\ SawEmpty(p)' = FALSE
  BY Zenon, <1>1 DEF Op, SawEmpty, EnqPc, DeqPc
<1>4. Ops' = [Ops EXCEPT ![p] = "linked"] /\ Saw' = Saw
  BY Zenon, <1>1, <1>2, <1>3, MovesAlone DEF Saw
<1>5. Items' = Append(Items, new[p])
  <2>1. /\ order \in Seq(Node) /\ Len(order) \in Nat /\ headAt \in 1..Len(order)
        /\ new[p] \in Node
    <3>1. order \in Seq(Node) /\ Len(order) \in Nat
      BY DEF Inv, TypeOK
    <3>2. headAt \in 1..Len(order)
      BY <3>1 DEF Inv, TypeOK, OneList
    <3>3. new[p] \in used /\ used \subseteq Value
      BY Zenon, <1>1 DEF Inv, TypeOK, Bringing, EnqPc
    <3> QED
      BY Zenon, <3>1, <3>2, <3>3 DEF Node
  <2>2. /\ Items \in Seq(Node) /\ Len(Items) = Len(order) - headAt
        /\ \A k \in 1..(Len(order) - headAt) : Items[k] = order[headAt + k]
    BY <2>1 DEF Items
  <2>3. order' \in Seq(Node) /\ Len(order') = Len(order) + 1
    BY <1>1, <2>1
  <2>4. /\ Items' \in Seq(Node) /\ Len(Items') = Len(order) + 1 - headAt
        /\ \A k \in 1..(Len(order) + 1 - headAt) : Items'[k] = order'[headAt + k]
    BY <1>1, <2>1, <2>3 DEF Items
  <2>5. \A k \in 1..Len(order) : order'[k] = order[k]
    BY <1>1, <2>1
  <2>6. order'[Len(order) + 1] = new[p]
    BY <1>1, <2>1
  <2> DEFINE A == Append(Items, new[p])
  <2>7. /\ A \in Seq(Node) /\ Len(A) = Len(Items) + 1 /\ A[Len(Items) + 1] = new[p]
        /\ \A k \in 1..Len(Items) : A[k] = Items[k]
    BY <2>1, <2>2, AppendProperties
  <2> HIDE DEF A
  <2>8. ASSUME NEW k \in 1..(Len(order) + 1 - headAt) PROVE Items'[k] = A[k]
    <3>1. CASE k = Len(order) + 1 - headAt
      <4>1. k = Len(Items) + 1 /\ headAt + k = Len(order) + 1
        BY <2>1, <2>2, <3>1
      <4> QED
        BY Zenon, <2>4, <2>6, <2>7, <4>1
    <3>2. CASE k < Len(order) + 1 - headAt
      <4>1. k \in 1..(Len(order) - headAt) /\ headAt + k \in 1..Len(order)
        BY <2>1, <3>2
      <4> QED
        BY Zenon, <2>2, <2>4, <2>5, <2>7, <4>1
    <3> QED
      BY <2>1, <3>1, <3>2
  <2>9. Len(A) = Len(Items') /\ \A k \in 1..Len(Items') : Items'[k] = A[k]
    BY <2>1, <2>2, <2>4, <2>7, <2>8
  <2>10. Items' = A
    BY Zenon, <2>4, <2>7, <2>9, SeqEqual
  <2> QED
    BY Zenon, <2>10 DEF A
<1> QED
  BY Zenon, <1>1, <1>2, <1>4, <1>5 DEF Fifo!Link, Fifo!Goto

\* A won swap of the dummy takes the first value of the abstract list.
LEMMA TakeShows ==
  ASSUME Inv, NEW p \in Proc, Take(p), dummy = oldDummy[p] PROVE Fifo!Take(p)
<1>1. /\ Others(p) /\ UNCHANGED <<size, used, order>> /\ headAt' = headAt + 1
      /\ new' = [new EXCEPT ![p] = oldHead[p]] /\ pc[p] = "take" /\ pc'[p] = "down"
      /\ oldHead[p] # Nil /\ oldTail[p] # oldDummy[p]
  BY Zenon DEF Inv, TypeOK, Take, At, Others, locals
<1>2. Ops[p] = "deq" /\ Saw[p] = FALSE
  BY Zenon, <1>1 DEF Ops, Op, Saw, SawEmpty, EnqPc, DeqPc
<1>3. Op(p)' = "taken" /\ SawEmpty(p)' = FALSE
  BY Zenon, <1>1 DEF Op, SawEmpty, EnqPc, DeqPc
<1>4. Ops' = [Ops EXCEPT ![p] = "taken"] /\ Saw' = Saw
  BY Zenon, <1>1, <1>2, <1>3, MovesAlone DEF Saw
<1>5. headAt < tailAt /\ oldHead[p] = order[headAt + 1]
  BY Zenon, <1>1, TakeFacts
<1>6. Items # << >> /\ Head(Items) = oldHead[p] /\ Items' = Tail(Items)
  <2>1. /\ order \in Seq(Node) /\ Len(order) \in Nat /\ headAt \in Nat
        /\ 1 <= headAt /\ headAt < Len(order)
    <3>1. order \in Seq(Node) /\ headAt \in Nat /\ tailAt \in Nat /\ OneList
      BY Zenon DEF Inv, TypeOK
    <3>2. Len(order) \in Nat
      BY <3>1
    <3>3. 1 <= headAt /\ tailAt \in {Len(order) - 1, Len(order)}
      BY Zenon, <3>1 DEF OneList
    <3> QED
      BY <1>5, <3>1, <3>2, <3>3
  <2>2. headAt + 1 \in 1..Len(order) /\ Len(order) \in (headAt + 1)..Len(order)
    BY <2>1
  <2>3. Head(Items) = order[headAt + 1] /\ Tail(Items) = SubSeq(order, headAt + 2, Len(order))
    BY <2>1, <2>2, HeadTailOfSubSeq DEF Items
  <2>4. Len(Items) = Len(order) - headAt
    BY <2>1 DEF Items
  <2>5. headAt' + 1 = headAt + 2 /\ order' = order
    BY <1>1, <2>1
  <2>6. Items' = SubSeq(order, headAt + 2, Len(order))
    BY Zenon, <2>5 DEF Items
  <2>7. Items # << >>
    <3>1. Len(Items) # 0
      BY <2>1, <2>4
    <3> QED
      BY <3>1
  <2> QED
    BY Zenon, <1>5, <2>3, <2>6, <2>7
<1> QED
  BY Zenon, <1>1, <1>2, <1>4, <1>6 DEF Fifo!Take, Fifo!Goto

\* A dequeue that reads a nil pointer behind the dummy sees the list empty: the
\* node it remembers still is the dummy, and the last one.
LEMMA LookShows ==
  ASSUME Inv, NEW p \in Proc, ReadHead(p) \/ CheckDummy(p)
  PROVE  (\E empty \in BOOLEAN : Fifo!Look(p, empty)) \/ UNCHANGED Fifo!vars
<1>1. Others(p) /\ UNCHANGED <<order, headAt, size, new, used>>
  BY Zenon DEF Inv, TypeOK, ReadHead, CheckDummy, At, Others, locals
<1>2. pc[p] \in DeqPc /\ pc'[p] \in DeqPc
  BY Zenon DEF Inv, TypeOK, ReadHead, CheckDummy, At, DeqPc
<1>3. Op(p) = "deq" /\ Op(p)' = "deq"
  BY Zenon, <1>2 DEF Op, EnqPc, DeqPc
<1>4. Ops[p] = "deq" /\ Ops' = Ops /\ Items' = Items
  BY Zenon, <1>1, <1>3, MovesAlone DEF Ops, Items
<1>5. SawEmpty(p)' \in BOOLEAN /\ Saw' = [Saw EXCEPT ![p] = SawEmpty(p)']
  BY Zenon, <1>1, MovesAlone DEF SawEmpty
<1>6. CASE ReadHead(p)
  <2>1. ASSUME SawEmpty(p)' PROVE Items = << >>
    <3>1. next[oldDummy[p]] = Nil
      BY Zenon, <1>6, <2>1 DEF ReadHead, SawEmpty, Inv, TypeOK
    <3>2. PICK i \in 1..headAt : order[i] = oldDummy[p]
      BY Zenon, <1>6 DEF ReadHead, At, Inv, DeqLocals
    <3>3. /\ headAt \in Nat /\ tailAt \in Nat /\ headAt <= tailAt /\ Len(order) \in Nat
          /\ tailAt <= Len(order)
      BY DEF Inv, TypeOK, OneList
    <3>4. i \in 1..tailAt
      BY <3>3
    <3>5. i = Len(order)
      BY Zenon, <3>1, <3>2, <3>4, NilIsEnd
    <3>6. headAt + 1 \in Int /\ Len(order) \in Int /\ Len(order) < headAt + 1
      BY <3>3, <3>5
    <3> QED
      BY Zenon, <3>6, SubSeqEmpty DEF Items
  <2>2. Fifo!Look(p, SawEmpty(p)')
    BY Zenon, <1>1, <1>4, <1>5, <2>1 DEF Fifo!Look
  <2> QED
    BY Zenon, <1>5, <2>2
<1>7. CASE CheckDummy(p)
  <2>1. CASE At(p, "dcheck", "take")
    <3>1. pc[p] = "dcheck" /\ pc'[p] = "take" /\ oldHead' = oldHead
      BY Zenon, <1>7, <2>1 DEF Inv, TypeOK, At, CheckDummy, locals
    <3>2. SawEmpty(p)' = SawEmpty(p)
      BY Zenon, <3>1 DEF SawEmpty
    <3> QED
      BY Zenon, <1>1, <1>3, <3>2, Stutters
  <2>2. CASE At(p, "dcheck", "dummy")
    <3>1. pc'[p] = "dummy"
      BY Zenon, <2>2 DEF Inv, TypeOK, At
    <3>2. SawEmpty(p)' = FALSE
      BY Zenon, <3>1 DEF SawEmpty
    <3>3. Fifo!Look(p, FALSE)
      BY Zenon, <1>1, <1>4, <1>5, <3>2 DEF Fifo!Look
    <3> QED
      BY Zenon, <3>3
  <2> QED
    BY Zenon, <1>7, <2>1, <2>2 DEF CheckDummy
<1> QED
  BY Zenon, <1>6, <1>7

\* The end of a call.
LEMMA EndShows ==
  ASSUME Inv, NEW p \in Proc, CountUp(p) \/ CountDown(p) \/ Fail(p)
  PROVE  Fifo!CountUp(p) \/ Fifo!CountDown(p) \/ Fifo!Fail(p)
<1>0. \E from : Return(p, from)
  BY Zenon DEF CountUp, CountDown, Fail
<1>1. Others(p) /\ UNCHANGED <<order, headAt, used>> /\ pc'[p] = "idle"
  <2>1. \A q \in Proc : q # p => new'[q] = new[q]
    BY Zenon DEF Inv, TypeOK, CountUp, CountDown, Fail
  <2> QED
    BY Zenon, <1>0, <2>1 DEF Inv, TypeOK, CountUp, CountDown, Fail, Return, At, Others
<1>2. Op(p)' = "idle" /\ SawEmpty(p)' = FALSE
  BY Zenon, <1>1 DEF Op, SawEmpty, EnqPc, DeqPc
<1>3. Ops' = [Ops EXCEPT ![p] = "idle"] /\ Saw' = [Saw EXCEPT ![p] = FALSE] /\ Items' = Items
  BY Zenon, <1>1, <1>2, MovesAlone DEF Items
<1>4. CASE CountUp(p)
  <2>1. pc[p] = "up" /\ new' = new /\ size' = size + 1
    BY Zenon, <1>4 DEF CountUp, Return, At
  <2>2. Ops[p] = "linked" /\ Saw[p] = FALSE
    BY Zenon, <2>1 DEF Ops, Op, Saw, SawEmpty, EnqPc, DeqPc
  <2>3. Saw' = Saw
    BY Zenon, <1>3, <2>2 DEF Saw
  <2> QED
    BY Zenon, <1>1, <1>3, <2>1, <2>2, <2>3 DEF Fifo!CountUp, Fifo!Goto
<1>5. CASE CountDown(p)
  <2>1. pc[p] = "down" /\ new' = new /\ size' = size - 1
    BY Zenon, <1>5 DEF CountDown, Return, At
  <2>2. Ops[p] = "taken" /\ Saw[p] = FALSE
    BY Zenon, <2>1 DEF Ops, Op, Saw, SawEmpty, EnqPc, DeqPc
  <2>3. Saw' = Saw
    BY Zenon, <1>3, <2>2 DEF Saw
  <2> QED
    BY Zenon, <1>1, <1>3, <2>1, <2>2, <2>3 DEF Fifo!CountDown, Fifo!Goto
<1>6. CASE Fail(p)
  <2>1. pc[p] = "take" /\ oldHead[p] = Nil /\ size' = size /\ new' = [new EXCEPT ![p] = Nil]
    BY Zenon, <1>6 DEF Fail, Return, At
  <2>2. Ops[p] = "deq" /\ Saw[p] = TRUE
    BY Zenon, <2>1 DEF Ops, Op, Saw, SawEmpty, EnqPc, DeqPc
  <2> QED
    BY Zenon, <1>1, <1>3, <2>1, <2>2 DEF Fifo!Fail, Fifo!Goto
<1> QED
  BY Zenon, <1>4, <1>5, <1>6

\* The linked list of lfreequeue is a FIFO list for any number of goroutines and
\* values: Link and Take are the steps at which a value enters and leaves, no
\* other access to the shared memory shows.
THEOREM ListImplements == Spec => Implements
<1>1. Init => Fifo!Init
  <2> SUFFICES ASSUME Init PROVE Fifo!Init
    BY Zenon
  <2>1. Items = << >>
    BY SubSeqEmpty DEF Init, Items
  <2>2. \A p \in Proc : Op(p) = "idle" /\ SawEmpty(p) = FALSE
    BY Zenon DEF Init, Op, SawEmpty, EnqPc, DeqPc
  <2> QED
    BY Zenon, <2>1, <2>2 DEF Init, Ops, Saw, Fifo!Init
<1>2. Inv /\ [Next]_vars => [Fifo!Next]_(Fifo!vars)
  <2> SUFFICES ASSUME Inv, [Next]_vars PROVE Fifo!Next \/ UNCHANGED Fifo!vars
    BY Zenon
  <2>1. CASE UNCHANGED vars
    <3>1. Ops' = Ops /\ Saw' = Saw /\ Items' = Items
      BY <2>1 DEF vars, locals, Ops, Op, Saw, SawEmpty, Items
    <3> QED
      BY Zenon, <2>1, <3>1 DEF vars, Fifo!vars
  <2>2. CASE Next
    <3>1. PICK p \in Proc : (\E v \in Value : Enqueue(p, v)) \/ Dequeue(p) \/ Inside(p)
      BY Zenon, <2>2 DEF Next
    <3>2. CASE (\E v \in Value : Enqueue(p, v)) \/ Dequeue(p)
      BY Zenon, <3>2, StartSteps
    <3>3. CASE \/ ReadTail(p) \/ ReadNext(p) \/ CheckTail(p) \/ HelpTail(p) \/ SwingTail(p)
               \/ Link(p) /\ next[oldTail[p]] # Nil
               \/ ReadDummy(p) \/ ReadDTail(p) \/ HelpDTail(p)
               \/ Take(p) /\ dummy # oldDummy[p]
      BY Zenon, <3>3, HiddenSteps
    <3>4. CASE Link(p) /\ next[oldTail[p]] = Nil
      BY Zenon, <3>4, LinkShows DEF Fifo!Next, Fifo!Inside
    <3>5. CASE Take(p) /\ dummy = oldDummy[p]
      BY Zenon, <3>5, TakeShows DEF Fifo!Next, Fifo!Inside
    <3>6. CASE ReadHead(p) \/ CheckDummy(p)
      BY Zenon, <3>6, LookShows DEF Fifo!Next, Fifo!Inside
    <3>7. CASE CountUp(p) \/ CountDown(p) \/ Fail(p)
      BY Zenon, <3>7, EndShows DEF Fifo!Next, Fifo!Inside
    <3> QED
      BY Zenon, <3>1, <3>2, <3>3, <3>4, <3>5, <3>6, <3>7 DEF Inside
  <2> QED
    BY Zenon, <2>1, <2>2
<1> QED
  BY <1>1, <1>2, Invariance, PTL DEF Spec, Implements, Fifo!Spec
=============================================================================
