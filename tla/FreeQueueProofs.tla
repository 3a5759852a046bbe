--------------------------- MODULE FreeQueueProofs ---------------------------
(***************************************************************************)
(* FreeQueue keeps its types, and it loses no value as long as no two      *)
(* calls of Enqueue overlap: for any number of producers, consumers and    *)
(* values.                                                                 *)
(*                                                                         *)
(* Enqueue takes a value off the list without looking at it.  It is safe   *)
(* because the list holds nothing but the value that Enqueue has just put  *)
(* into the slot; and it holds nothing else because the counter, which     *)
(* Enqueue has seen at 0, counts the values in the list and those taken    *)
(* but not counted off yet, less the one linked but not counted yet.  This *)
(* is true of the one producer that is inside Enqueue; when it is done the *)
(* next one takes over.                                                    *)
(***************************************************************************)
EXTENDS FreeQueue, FiniteSetTheorems, TLAPS

Consumer == Taker \cup Poller

\* Where producers and consumers may be, and that they bring a value.
Producing(p) ==
  \/ pc[p] = "idle" /\ op[p] = "idle"
  \/ pc[p] = "offer" /\ op[p] = "idle" /\ arg[p] \in Value
  \/ pc[p] = "again" /\ op[p] \in {"enq", "linked", "idle"} /\ arg[p] \in Value
  \/ pc[p] = "queued"

Consuming(q) ==
  \/ pc[q] \in {"idle", "pull", "receive"} /\ op[q] = "idle"
  \/ pc[q] = "back" /\ op[q] = "idle" /\ arg[q] \in Value
  \/ pc[q] \in {"took", "pulled"} /\ op[q] \in {"deq", "taken", "idle"}

Carrying(x) == op[x] \in {"enq", "linked", "taken"} => val[x] \in Value

Places ==
  /\ \A p \in Producer : Producing(p)
  /\ \A q \in Consumer : Consuming(q)
  /\ \A x \in Proc : Carrying(x)

Typed == TypeOK /\ Places

\* TypeOK in three parts: the list, the calls, and what is in the queue.
ListTyped ==
  /\ items \in Seq(Value) /\ size \in Int /\ used \subseteq Value
  /\ op \in [Proc -> {"idle", "enq", "linked", "deq", "taken"}]
  /\ val \in [Proc -> Value \cup {Nil}]
  /\ sawEmpty \in [Proc -> BOOLEAN]
CallsTyped ==
  /\ pc \in [Proc -> {"idle", "queued", "offer", "again", "took", "pull", "pulled",
                      "back", "receive"}]
  /\ arg \in [Proc -> Value \cup {Nil}]
SlotTyped ==
  /\ watch \in Seq(Value) /\ Len(watch) <= 1 /\ late \in [Value -> Nat]
  /\ queued \subseteq Value /\ got \subseteq Value /\ overlap \in BOOLEAN

-----------------------------------------------------------------------------
\* Types

\* A step of x that takes x to a place where it may be.
LEMMA MovePlaces ==
  ASSUME Places, NEW x \in Proc,
         x \in Producer => Producing(x)', x \in Consumer => Consuming(x)', Carrying(x)',
         \A y \in Proc \ {x} : /\ pc'[y] = pc[y] /\ op'[y] = op[y]
                               /\ arg'[y] = arg[y] /\ val'[y] = val[y]
  PROVE  Places'
<1>1. \A p \in Producer : Producing(p)'
  BY Zenon DEF Places, Producing, Proc
<1>2. \A q \in Consumer : Consuming(q)'
  BY Zenon DEF Places, Consuming, Proc, Consumer
<1>3. \A y \in Proc : Carrying(y)'
  BY Zenon DEF Places, Carrying
<1> QED
  BY Zenon, <1>1, <1>2, <1>3 DEF Places

\* A step inside the list keeps the types and takes its caller on in its method.
LEMMA InListTyped ==
  ASSUME QueueAssumption, Typed, NEW x \in Proc, InList(x)
  PROVE  Typed'
<1> USE DEF QueueAssumption, Typed
<1>1. UNCHANGED <<watch, pc, arg, late, queued, overlap, got>>
  BY Zenon DEF InList
<1>2. CASE List!Link(x)
  <2>1. op[x] = "enq" /\ val[x] \in Value /\ op' = [op EXCEPT ![x] = "linked"]
        /\ items' = Append(items, val[x]) /\ UNCHANGED <<size, val, sawEmpty, used>>
    BY Zenon, <1>2 DEF List!Link, List!Goto, Places, Carrying
  <2>2. TypeOK'
    BY <1>1, <2>1 DEF TypeOK
  <2>3. Places'
    BY <1>1, <2>1 DEF Places, Producing, Consuming, Carrying, TypeOK
  <2> QED
    BY Zenon, <2>2, <2>3
<1>3. CASE List!CountUp(x)
  <2>1. op[x] = "linked" /\ op' = [op EXCEPT ![x] = "idle"]
        /\ size' = size + 1 /\ UNCHANGED <<items, val, sawEmpty, used>>
    BY Zenon, <1>3 DEF List!CountUp, List!Goto
  <2>2. TypeOK'
    BY <1>1, <2>1 DEF TypeOK
  <2>3. Places'
    BY <1>1, <2>1 DEF Places, Producing, Consuming, Carrying, TypeOK
  <2> QED
    BY Zenon, <2>2, <2>3
<1>4. ASSUME NEW e \in BOOLEAN, List!Look(x, e) PROVE Typed'
  <2>1. sawEmpty' = [sawEmpty EXCEPT ![x] = e] /\ UNCHANGED <<items, size, op, val, used>>
    BY Zenon, <1>4 DEF List!Look
  <2>2. TypeOK'
    BY Zenon, <1>1, <2>1 DEF TypeOK
  <2>3. Places'
    BY Zenon, <1>1, <2>1 DEF Places, Producing, Consuming, Carrying
  <2> QED
    BY Zenon, <2>2, <2>3
<1>5. CASE List!Take(x)
  <2>1. items \in Seq(Value) /\ items # << >> /\ Head(items) \in Value /\ Tail(items) \in Seq(Value)
    BY <1>5 DEF List!Take, TypeOK
  <2>2. op[x] = "deq" /\ op' = [op EXCEPT ![x] = "taken"] /\ items' = Tail(items)
        /\ val' = [val EXCEPT ![x] = Head(items)] /\ UNCHANGED <<size, sawEmpty, used>>
    BY Zenon, <1>5 DEF List!Take, List!Goto
  <2>3. TypeOK'
    BY Zenon, <1>1, <2>1, <2>2 DEF TypeOK
  <2>4. Places'
    BY <1>1, <2>1, <2>2 DEF Places, Producing, Consuming, Carrying, TypeOK
  <2> QED
    BY Zenon, <2>3, <2>4
<1>6. CASE List!CountDown(x)
  <2>1. op[x] = "taken" /\ op' = [op EXCEPT ![x] = "idle"]
        /\ size' = size - 1 /\ UNCHANGED <<items, val, sawEmpty, used>>
    BY Zenon, <1>6 DEF List!CountDown, List!Goto
  <2>2. TypeOK'
    BY <1>1, <2>1 DEF TypeOK
  <2>3. Places'
    BY <1>1, <2>1 DEF Places, Producing, Consuming, Carrying, TypeOK
  <2> QED
    BY Zenon, <2>2, <2>3
<1>7. CASE List!Fail(x)
  <2>1. op[x] = "deq" /\ op' = [op EXCEPT ![x] = "idle"] /\ val' = [val EXCEPT ![x] = Nil]
        /\ sawEmpty' = [sawEmpty EXCEPT ![x] = FALSE] /\ UNCHANGED <<items, size, used>>
    BY Zenon, <1>7 DEF List!Fail, List!Goto
  <2>2. TypeOK'
    BY Zenon, <1>1, <2>1 DEF TypeOK
  <2>3. Places'
    BY <1>1, <2>1 DEF Places, Producing, Consuming, Carrying, TypeOK
  <2> QED
    BY Zenon, <2>2, <2>3
<1> QED
  BY Zenon, <1>2, <1>3, <1>4, <1>5, <1>6, <1>7 DEF InList, List!Inside

\* The queue calls the list's methods or leaves it alone.
LEMMA CallListTyped ==
  ASSUME TypeOK, NEW x \in Proc,
         \/ UNCHANGED list
         \/ List!StartDeq(x)
         \/ \E v \in Value : List!StartEnq(x, v)
  PROVE  ListTyped'
<1>1. CASE UNCHANGED list
  BY Zenon, <1>1 DEF list, ListTyped, TypeOK
<1>2. CASE List!StartDeq(x)
  BY Zenon, <1>2 DEF List!StartDeq, List!Goto, ListTyped, TypeOK
<1>3. ASSUME NEW v \in Value, List!StartEnq(x, v) PROVE ListTyped'
  BY Zenon, <1>3 DEF List!StartEnq, List!Goto, ListTyped, TypeOK
<1> QED
  BY Zenon, <1>1, <1>2, <1>3

\* A caller goes on, with its value or with another one.
LEMMA CallMoved ==
  ASSUME TypeOK, NEW x \in Proc,
         NEW to \in {"idle", "queued", "offer", "again", "took", "pull", "pulled", "back", "receive"},
         pc' = [pc EXCEPT ![x] = to],
         arg' = arg \/ \E a \in Value \cup {Nil} : arg' = [arg EXCEPT ![x] = a]
  PROVE  CallsTyped'
<1>1. arg' \in [Proc -> Value \cup {Nil}]
  BY Zenon DEF TypeOK
<1> QED
  BY Zenon, <1>1 DEF TypeOK, CallsTyped

\* The slot is filled, or emptied and its value received.
LEMMA SlotMoved ==
  ASSUME TypeOK, watch' = watch \/ watch' = << >> \/ \E v \in Value : watch' = <<v>>,
         UNCHANGED <<late, queued, overlap>>, got' = got \/ \E v \in Value : got' = got \cup {v}
  PROVE  SlotTyped'
<1>1. watch' \in Seq(Value) /\ Len(watch') <= 1
  <2>1. ASSUME NEW v \in Value PROVE <<v>> \in Seq(Value) /\ Len(<<v>>) = 1
    OBVIOUS
  <2>2. << >> \in Seq(Value) /\ Len(<< >>) = 0
    OBVIOUS
  <2>3. CASE watch' = watch
    BY Zenon, <2>3 DEF TypeOK
  <2>4. CASE watch' = << >>
    BY <2>2, <2>4
  <2>5. ASSUME NEW v \in Value, watch' = <<v>> PROVE watch' \in Seq(Value) /\ Len(watch') <= 1
    BY <2>1, <2>5
  <2> QED
    BY Zenon, <2>3, <2>4, <2>5
<1> QED
  BY Zenon, <1>1 DEF TypeOK, SlotTyped

\* The steps of Enqueue keep the types.
LEMMA ProducerTyped ==
  ASSUME QueueAssumption, Typed, NEW p \in Producer,
         (\E v \in Value : Enqueue(p, v)) \/ Offer(p) \/ Again(p) \/ Return(p)
  PROVE  Typed'
<1> USE DEF QueueAssumption, Typed, Proc, Consumer
<1>1. ASSUME NEW v \in Value, Enqueue(p, v) PROVE Typed'
  <2>1. TypeOK'
    <3>1. ListTyped'
      BY Zenon, <1>1, CallListTyped DEF Enqueue
    <3>2. CallsTyped'
      BY Zenon, <1>1, CallMoved DEF Enqueue, At
    <3>3. SlotTyped'
      BY Zenon, <1>1 DEF Enqueue, At, list, SlotTyped, TypeOK
    <3> QED
      BY Zenon, <3>1, <3>2, <3>3 DEF TypeOK, ListTyped, CallsTyped, SlotTyped
  <2>2. Places'
    <3>1. Producing(p)' /\ Carrying(p)'
      BY Zenon, <1>1 DEF Enqueue, At, list, List!StartEnq, List!StartDeq, List!Goto, TypeOK, Places, Producing, Carrying
    <3>2. \A y \in Proc \ {p} : /\ pc'[y] = pc[y] /\ op'[y] = op[y]
                                 /\ arg'[y] = arg[y] /\ val'[y] = val[y]
      BY Zenon, <1>1 DEF Enqueue, At, list, List!StartEnq, List!StartDeq, List!Goto, TypeOK
    <3> QED
      BY Zenon, <3>1, <3>2, MovePlaces
  <2> QED
    BY Zenon, <2>1, <2>2
<1>2. CASE Offer(p)
  <2>1. arg[p] \in Value /\ <<arg[p]>> \in Seq(Value) /\ Len(<<arg[p]>>) = 1
    BY <1>2 DEF Offer, At, Places, Producing
  <2>2. TypeOK'
    <3>1. ListTyped'
      BY Zenon, <1>2, <2>1, CallListTyped DEF Offer
    <3>2. CallsTyped'
      BY Zenon, <1>2, <2>1, CallMoved DEF Offer, At
    <3>3. SlotTyped'
      BY Zenon, <1>2, <2>1, SlotMoved DEF Offer, Put
    <3> QED
      BY Zenon, <3>1, <3>2, <3>3 DEF TypeOK, ListTyped, CallsTyped, SlotTyped
  <2>3. Places'
    <3>1. Producing(p)' /\ Carrying(p)'
      BY Zenon, <1>2, <2>1 DEF Offer, At, list, List!StartEnq, List!StartDeq, List!Goto, TypeOK, Places, Producing, Carrying
    <3>2. \A y \in Proc \ {p} : /\ pc'[y] = pc[y] /\ op'[y] = op[y]
                                 /\ arg'[y] = arg[y] /\ val'[y] = val[y]
      BY Zenon, <1>2, <2>1 DEF Offer, At, list, List!StartEnq, List!StartDeq, List!Goto, TypeOK
    <3> QED
      BY Zenon, <3>1, <3>2, MovePlaces
  <2> QED
    BY Zenon, <2>2, <2>3
<1>3. CASE Again(p)
  <2>1. arg[p] \in Value /\ <<arg[p]>> \in Seq(Value) /\ Len(<<arg[p]>>) = 1
    BY <1>3 DEF Again, At, Places, Producing
  <2>2. TypeOK'
    <3>1. ListTyped'
      BY Zenon, <1>3, <2>1, CallListTyped DEF Again
    <3>2. CallsTyped'
      BY Zenon, <1>3, <2>1, CallMoved DEF Again, At
    <3>3. SlotTyped'
      BY Zenon, <1>3, <2>1, SlotMoved DEF Again, Put
    <3> QED
      BY Zenon, <3>1, <3>2, <3>3 DEF TypeOK, ListTyped, CallsTyped, SlotTyped
  <2>3. Places'
    <3>1. Producing(p)' /\ Carrying(p)'
      BY Zenon, <1>3, <2>1 DEF Again, At, list, List!StartEnq, List!StartDeq, List!Goto, TypeOK, Places, Producing, Carrying
    <3>2. \A y \in Proc \ {p} : /\ pc'[y] = pc[y] /\ op'[y] = op[y]
                                 /\ arg'[y] = arg[y] /\ val'[y] = val[y]
      BY Zenon, <1>3, <2>1 DEF Again, At, list, List!StartEnq, List!StartDeq, List!Goto, TypeOK
    <3> QED
      BY Zenon, <3>1, <3>2, MovePlaces
  <2> QED
    BY Zenon, <2>2, <2>3
<1>4. CASE Return(p)
  BY Zenon, <1>4 DEF Return, At, list, TypeOK, Places, Producing, Consuming, Carrying
<1> QED
  BY Zenon, <1>1, <1>2, <1>3, <1>4

\* So do the steps of Dequeue and DequeueChan.
LEMMA ConsumerTyped ==
  ASSUME QueueAssumption, Typed, NEW q \in Consumer,
         Dequeue(q) \/ Took(q) \/ DequeueChan(q) \/ Pull(q) \/ Pulled(q) \/ PutBack(q) \/ ReceiveChan(q)
  PROVE  Typed'
<1> USE DEF QueueAssumption, Typed, Proc, Consumer
<1>1. watch # << >> => watch[1] \in Value
  BY DEF TypeOK
<1>2. CASE Dequeue(q)
  <2>1. TypeOK'
    <3>1. ListTyped'
      BY Zenon, <1>2, CallListTyped DEF Dequeue
    <3>2. CallsTyped'
      BY Zenon, <1>2, CallMoved DEF Dequeue, At
    <3>3. SlotTyped'
      BY Zenon, <1>1, <1>2, SlotMoved DEF Dequeue, Free, Receive
    <3> QED
      BY Zenon, <3>1, <3>2, <3>3 DEF TypeOK, ListTyped, CallsTyped, SlotTyped
  <2>2. Places'
    <3>1. Consuming(q)' /\ Carrying(q)'
      BY Zenon, <1>2 DEF Dequeue, At, list, List!StartEnq, List!StartDeq, List!Goto, TypeOK, Places, Consuming, Carrying
    <3>2. \A y \in Proc \ {q} : /\ pc'[y] = pc[y] /\ op'[y] = op[y]
                                 /\ arg'[y] = arg[y] /\ val'[y] = val[y]
      BY Zenon, <1>2 DEF Dequeue, At, list, List!StartEnq, List!StartDeq, List!Goto, TypeOK
    <3> QED
      BY Zenon, <3>1, <3>2, MovePlaces
  <2> QED
    BY Zenon, <2>1, <2>2
<1>3. CASE Took(q)
  <2>1. val[q] \in Value \cup {Nil}
    BY Zenon DEF TypeOK
  <2>2. TypeOK'
    BY Zenon, <1>3, <2>1 DEF Took, At, Receive, list, TypeOK
  <2>3. Places'
    <3>1. Consuming(q)' /\ Carrying(q)'
      BY Zenon, <1>3 DEF Took, At, list, TypeOK, Places, Consuming, Carrying
    <3>2. \A y \in Proc \ {q} : /\ pc'[y] = pc[y] /\ op'[y] = op[y]
                                 /\ arg'[y] = arg[y] /\ val'[y] = val[y]
      BY Zenon, <1>3 DEF Took, At, list, TypeOK
    <3> QED
      BY Zenon, <3>1, <3>2, MovePlaces
  <2> QED
    BY Zenon, <2>2, <2>3
<1>4. CASE DequeueChan(q)
  <2>1. TypeOK'
    BY Zenon, <1>4 DEF DequeueChan, At, list, TypeOK
  <2>2. Places'
    <3>1. Consuming(q)' /\ Carrying(q)'
      BY Zenon, <1>4 DEF DequeueChan, At, list, TypeOK, Places, Consuming, Carrying
    <3>2. \A y \in Proc \ {q} : /\ pc'[y] = pc[y] /\ op'[y] = op[y]
                                 /\ arg'[y] = arg[y] /\ val'[y] = val[y]
      BY Zenon, <1>4 DEF DequeueChan, At, list, TypeOK
    <3> QED
      BY Zenon, <3>1, <3>2, MovePlaces
  <2> QED
    BY Zenon, <2>1, <2>2
<1>5. CASE Pull(q)
  <2>1. TypeOK'
    <3>1. ListTyped'
      BY Zenon, <1>5, CallListTyped DEF Pull
    <3>2. CallsTyped'
      BY Zenon, <1>1, <1>5, CallMoved DEF Pull, At, Free
    <3>3. SlotTyped'
      BY Zenon, <1>1, <1>5, SlotMoved DEF Pull, Free
    <3> QED
      BY Zenon, <3>1, <3>2, <3>3 DEF TypeOK, ListTyped, CallsTyped, SlotTyped
  <2>2. Places'
    <3>1. Consuming(q)' /\ Carrying(q)'
      BY Zenon, <1>1, <1>5 DEF Pull, At, Free, list, List!StartEnq, List!StartDeq, List!Goto, TypeOK, Places, Consuming, Carrying
    <3>2. \A y \in Proc \ {q} : /\ pc'[y] = pc[y] /\ op'[y] = op[y]
                                 /\ arg'[y] = arg[y] /\ val'[y] = val[y]
      BY Zenon, <1>1, <1>5 DEF Pull, At, Free, list, List!StartEnq, List!StartDeq, List!Goto, TypeOK
    <3> QED
      BY Zenon, <3>1, <3>2, MovePlaces
  <2> QED
    BY Zenon, <2>1, <2>2
<1>6. CASE Pulled(q)
  <2>1. TypeOK'
    BY Zenon, <1>6 DEF Pulled, At, list, TypeOK
  <2>2. Places'
    <3>1. Consuming(q)' /\ Carrying(q)'
      BY Zenon, <1>6 DEF Pulled, At, list, TypeOK, Places, Consuming, Carrying
    <3>2. \A y \in Proc \ {q} : /\ pc'[y] = pc[y] /\ op'[y] = op[y]
                                 /\ arg'[y] = arg[y] /\ val'[y] = val[y]
      BY Zenon, <1>6 DEF Pulled, At, list, TypeOK
    <3> QED
      BY Zenon, <3>1, <3>2, MovePlaces
  <2> QED
    BY Zenon, <2>1, <2>2
<1>7. CASE PutBack(q)
  <2>1. arg[q] \in Value /\ <<arg[q]>> \in Seq(Value) /\ Len(<<arg[q]>>) = 1
    BY <1>7 DEF PutBack, At, Places, Consuming
  <2>2. watch' \in Seq(Value) /\ Len(watch') <= 1 /\ late' \in [Value -> Nat]
    <3>1. CASE Free
      <4>1. watch' = <<arg[q]>> /\ late' = late
        BY Zenon, <1>7, <3>1 DEF PutBack, Put, Free
      <4> QED
        BY <2>1, <4>1 DEF TypeOK
    <3>2. CASE ~Free
      <4>1. late' = [late EXCEPT ![arg[q]] = late[arg[q]] + 1] /\ watch' = watch
        BY Zenon, <1>7, <3>2 DEF PutBack, Free
      <4> QED
        BY <2>1, <4>1 DEF TypeOK
    <3> QED
      BY Zenon, <3>1, <3>2
  <2>3. TypeOK'
    BY Zenon, <1>7, <2>2 DEF PutBack, At, list, TypeOK
  <2>4. Places'
    <3>1. Consuming(q)' /\ Carrying(q)'
      BY Zenon, <1>7 DEF PutBack, At, list, TypeOK, Places, Consuming, Carrying
    <3>2. \A y \in Proc \ {q} : /\ pc'[y] = pc[y] /\ op'[y] = op[y]
                                 /\ arg'[y] = arg[y] /\ val'[y] = val[y]
      BY Zenon, <1>7 DEF PutBack, At, list, TypeOK
    <3> QED
      BY Zenon, <3>1, <3>2, MovePlaces
  <2> QED
    BY Zenon, <2>3, <2>4
<1>8. CASE ReceiveChan(q)
  <2>1. TypeOK'
    BY <1>1, <1>8 DEF ReceiveChan, At, Free, Receive, list, TypeOK
  <2>2. Places'
    <3>1. Consuming(q)' /\ Carrying(q)'
      BY Zenon, <1>8 DEF ReceiveChan, At, list, TypeOK, Places, Consuming, Carrying
    <3>2. \A y \in Proc \ {q} : /\ pc'[y] = pc[y] /\ op'[y] = op[y]
                                 /\ arg'[y] = arg[y] /\ val'[y] = val[y]
      BY Zenon, <1>8 DEF ReceiveChan, At, list, TypeOK
    <3> QED
      BY Zenon, <3>1, <3>2, MovePlaces
  <2> QED
    BY Zenon, <2>1, <2>2
<1> QED
  BY Zenon, <1>2, <1>3, <1>4, <1>5, <1>6, <1>7, <1>8

\* So does a goroutine that puts its value back late.
LEMMA PutLateTyped ==
  ASSUME QueueAssumption, Typed, NEW v \in Value, PutLate(v)
  PROVE  Typed'
<1>1. <<v>> \in Seq(Value) /\ Len(<<v>>) = 1 /\ late[v] \in Nat /\ late[v] > 0
  BY DEF PutLate, Typed, TypeOK
<1>2. late' \in [Value -> Nat] /\ watch' = <<v>> /\ UNCHANGED <<list, pc, arg, queued, overlap, got>>
  BY <1>1 DEF PutLate, Put, Typed, TypeOK
<1>3. TypeOK'
  BY <1>1, <1>2 DEF Typed, TypeOK, list
<1>4. Places'
  BY Zenon, <1>2 DEF Typed, Places, Producing, Consuming, Carrying, list
<1> QED
  BY Zenon, <1>3, <1>4 DEF Typed

-----------------------------------------------------------------------------
\* One call of Enqueue at a time

\* v has been received, or will be: no producer can lose it any more.
Safe(v) ==
  \/ v \in got \cup Elements(watch)
  \/ late[v] > 0
  \/ \E q \in Consumer : v \in InHand(q)

Kept(p) == \A v \in queued : Safe(v) \/ v \in Elements(items) \cup InHand(p)

\* While p may take a value off the list, the list holds no value but its own.
Alone(p) ==
  /\ pc[p] = "offer" => items = << >>
  /\ pc[p] = "again" /\ op[p] = "enq" => items = << >> /\ val[p] = arg[p]
  /\ pc[p] = "again" /\ op[p] \in {"linked", "idle"} => Elements(items) \subseteq {arg[p]}
  /\ pc[p] = "queued" /\ op[p] \in {"deq", "taken"} =>
       Elements(items) \subseteq {arg[p]} /\ arg[p] \in Value /\ Safe(arg[p])

Taken == {x \in Proc : op[x] = "taken"}
Uncounted(p) == IF op[p] = "linked" THEN 1 ELSE 0
Sized(p) == size = Len(items) + Cardinality(Taken) - Uncounted(p)

\* No producer but p is inside Enqueue.
Lone(p) == \A x \in Producer \ {p} : pc[x] = "idle"

QueueInv(p) == Typed /\ Lone(p) /\ Kept(p) /\ Alone(p) /\ Sized(p)

\* It holds of some producer until two calls of Enqueue overlap.
Apart == Typed /\ (overlap \/ \E p \in Producer : QueueInv(p))

\* What is in a list.
LEMMA ElementsFacts ==
  /\ Elements(<< >>) = {}
  /\ \A v : Elements(<<v>>) = {v}
  /\ \A s \in Seq(Value), v \in Value : Elements(Append(s, v)) = Elements(s) \cup {v}
  /\ \A s \in Seq(Value) : s # << >> =>
       /\ Head(s) \in Elements(s) /\ Elements(Tail(s)) \subseteq Elements(s)
       /\ Elements(s) \subseteq {Head(s)} \cup Elements(Tail(s))
<1>1. Elements(<< >>) = {}
  BY DEF Elements
<1>2. ASSUME NEW v PROVE Elements(<<v>>) = {v}
  BY DEF Elements
<1>3. ASSUME NEW s \in Seq(Value), NEW v \in Value
      PROVE  Elements(Append(s, v)) = Elements(s) \cup {v}
  BY DEF Elements
<1>4. ASSUME NEW s \in Seq(Value), s # << >>
      PROVE  /\ Head(s) \in Elements(s) /\ Elements(Tail(s)) \subseteq Elements(s)
             /\ Elements(s) \subseteq {Head(s)} \cup Elements(Tail(s))
  <2>1. Len(s) \in Nat /\ Len(s) >= 1 /\ Head(s) = s[1] /\ Len(Tail(s)) = Len(s) - 1
        /\ \A i \in 1..(Len(s) - 1) : Tail(s)[i] = s[i + 1]
    BY <1>4
  <2>2. Elements(s) \subseteq {Head(s)} \cup Elements(Tail(s))
    <3> SUFFICES ASSUME NEW i \in 1..Len(s), i # 1 PROVE s[i] \in Elements(Tail(s))
      BY Zenon, <2>1 DEF Elements
    <3>1. i - 1 \in 1..Len(Tail(s)) /\ Tail(s)[i - 1] = s[i]
      BY <2>1
    <3> QED
      BY Zenon, <3>1 DEF Elements
  <2>3. Head(s) \in Elements(s)
    BY <2>1 DEF Elements
  <2>4. Elements(Tail(s)) \subseteq Elements(s)
    <3> SUFFICES ASSUME NEW i \in 1..Len(Tail(s)) PROVE Tail(s)[i] \in Elements(s)
      BY Zenon DEF Elements
    <3>1. i + 1 \in 1..Len(s) /\ Tail(s)[i] = s[i + 1]
      BY <2>1
    <3> QED
      BY Zenon, <3>1 DEF Elements
  <2> QED
    BY Zenon, <2>2, <2>3, <2>4
<1> QED
  BY Zenon, <1>1, <1>2, <1>3, <1>4

\* What a goroutine has in hand depends on its own call only.
LEMMA InHandSame ==
  ASSUME NEW x \in Proc, pc'[x] = pc[x], op'[x] = op[x], arg'[x] = arg[x], val'[x] = val[x]
  PROVE  InHand(x)' = InHand(x)
BY Zenon DEF InHand

\* The counter and the list agree, whoever takes a step inside the list.
LEMMA SizedStep ==
  ASSUME QueueAssumption, NEW p \in Producer, Typed, Lone(p), Sized(p),
         NEW x \in Proc, List!Inside(x)
  PROVE  Sized(p)'
<1> USE DEF Typed
<1>1. IsFiniteSet(Taken) /\ Cardinality(Taken) \in Nat
  BY Zenon, FS_Subset, FS_CardinalityType DEF Taken, QueueAssumption
<1>2. /\ p \in Proc /\ items \in Seq(Value) /\ size \in Int
      /\ op \in [Proc -> {"idle", "enq", "linked", "deq", "taken"}]
  BY Zenon DEF TypeOK, Proc
<1>3. CASE List!Link(x)
  <2>1. x = p
    BY Zenon, <1>3 DEF List!Link, Places, Consuming, Producing, Lone, Consumer, Proc
  <2>2. Taken' = Taken /\ Uncounted(p) = 0 /\ Uncounted(p)' = 1 /\ size' = size
    BY Zenon, <1>2, <1>3, <2>1 DEF List!Link, List!Goto, Taken, Uncounted
  <2>3. Len(items') = Len(items) + 1
    BY <1>2, <1>3 DEF List!Link
  <2> QED
    BY <1>1, <1>2, <2>2, <2>3 DEF Sized
<1>4. CASE List!CountUp(x)
  <2>1. x = p
    BY Zenon, <1>4 DEF List!CountUp, Places, Consuming, Producing, Lone, Consumer, Proc
  <2>2. Taken' = Taken /\ Uncounted(p) = 1 /\ Uncounted(p)' = 0 /\ size' = size + 1 /\ items' = items
    BY Zenon, <1>2, <1>4, <2>1 DEF List!CountUp, List!Goto, Taken, Uncounted
  <2> QED
    BY <1>1, <1>2, <2>2 DEF Sized
<1>5. CASE \/ \E e \in BOOLEAN : List!Look(x, e)
           \/ List!Fail(x)
  <2>1. Taken' = Taken /\ Uncounted(p)' = Uncounted(p) /\ size' = size /\ items' = items
    BY Zenon, <1>2, <1>5 DEF List!Look, List!Fail, List!Goto, Taken, Uncounted
  <2> QED
    BY Zenon, <2>1 DEF Sized
<1>6. CASE List!Take(x)
  <2>1. Taken' = Taken \cup {x} /\ x \notin Taken /\ Uncounted(p)' = Uncounted(p) /\ size' = size
    BY Zenon, <1>2, <1>6 DEF List!Take, List!Goto, Taken, Uncounted
  <2>2. Cardinality(Taken') = Cardinality(Taken) + 1
    BY Zenon, <1>1, <2>1, FS_AddElement
  <2>3. Len(items') = Len(items) - 1
    BY <1>2, <1>6 DEF List!Take
  <2> QED
    BY SMTT(30), <1>1, <1>2, <2>1, <2>2, <2>3 DEF Sized, Uncounted
<1>7. CASE List!CountDown(x)
  <2>1. Taken' = Taken \ {x} /\ x \in Taken /\ Uncounted(p)' = Uncounted(p)
        /\ size' = size - 1 /\ items' = items
    BY Zenon, <1>2, <1>7 DEF List!CountDown, List!Goto, Taken, Uncounted
  <2>2. Cardinality(Taken') = Cardinality(Taken) - 1
    BY Zenon, <1>1, <2>1, FS_RemoveElement
  <2> QED
    BY <1>1, <1>2, <2>1, <2>2 DEF Sized, Uncounted
<1> QED
  BY Zenon, <1>3, <1>4, <1>5, <1>6, <1>7 DEF List!Inside

\* A step of consumer q: what it takes from one place it brings to another.
LEMMA ConsumerSafe ==
  ASSUME QueueAssumption, Typed, NEW q \in Consumer, NEW v \in Value, Safe(v),
         Dequeue(q) \/ Took(q) \/ DequeueChan(q) \/ Pull(q) \/ Pulled(q) \/ PutBack(q) \/ ReceiveChan(q)
  PROVE  Safe(v)'
<1> USE DEF QueueAssumption, Typed
<1>1. \A r \in Consumer \ {q} : InHand(r)' = InHand(r)
  <2>1. \A r \in Proc \ {q} : /\ pc'[r] = pc[r] /\ op'[r] = op[r]
                              /\ arg'[r] = arg[r] /\ val'[r] = val[r]
    BY DEF Dequeue, Took, DequeueChan, Pull, Pulled, PutBack, ReceiveChan, At, list, TypeOK,
           List!StartDeq, List!Goto
  <2> QED
    BY Zenon, <2>1, InHandSame DEF Consumer, Proc
<1>2. SUFFICES ASSUME v \in got \cup Elements(watch) \cup InHand(q) \/ late[v] > 0
               PROVE  v \in got' \cup Elements(watch') \cup InHand(q)' \/ late'[v] > 0
  BY Zenon, <1>1 DEF Safe
<1>3. watch # << >> => Elements(watch) = {watch[1]}
  BY DEF TypeOK, Elements
<1>4. Elements(<< >>) = {} /\ \A u : Elements(<<u>>) = {u}
  BY Zenon, ElementsFacts
<1>5. q \in Proc
  BY Zenon DEF Consumer, Proc
<1>6. CASE Dequeue(q)
  <2>1. InHand(q) = {} /\ got \subseteq got' /\ late' = late
    BY Zenon, <1>6 DEF Dequeue, At, InHand, Receive
  <2> QED
    BY Zenon, <1>2, <1>3, <1>4, <1>6, <2>1 DEF Dequeue, Free, Receive
<1>7. CASE Took(q)
  <2>1. InHand(q) = {val[q]} /\ got \subseteq got' /\ late' = late /\ watch' = watch
    BY Zenon, <1>7 DEF Took, At, InHand, Receive
  <2> QED
    BY Zenon, <1>2, <1>7, <2>1 DEF Took, Receive
<1>8. CASE DequeueChan(q)
  <2>1. InHand(q) = {}
    BY Zenon, <1>8 DEF DequeueChan, At, InHand
  <2> QED
    BY Zenon, <1>2, <1>8, <2>1 DEF DequeueChan
<1>9. CASE Pull(q)
  <2>1. InHand(q) = {} /\ got' = got /\ late' = late
    BY Zenon, <1>9 DEF Pull, At, InHand
  <2>2. CASE Free
    BY Zenon, <1>2, <1>9, <2>1, <2>2 DEF Pull
  <2>3. CASE ~Free
    <3>1. pc'[q] = "back" /\ arg'[q] = watch[1]
      BY Zenon, <1>5, <1>9, <2>3 DEF Pull, At, TypeOK
    <3>2. InHand(q)' = {watch[1]}
      BY Zenon, <3>1 DEF InHand
    <3> QED
      BY Zenon, <1>2, <1>3, <2>1, <2>3, <3>2 DEF Free
  <2> QED
    BY Zenon, <2>2, <2>3
<1>10. CASE Pulled(q)
  <2>1. InHand(q) = {val[q]} /\ UNCHANGED <<got, late, watch>>
    BY Zenon, <1>10 DEF Pulled, At, InHand
  <2>2. CASE val[q] = v
    <3>1. pc'[q] = "back" /\ arg'[q] = val[q]
      BY Zenon, <1>5, <1>10, <2>2 DEF Pulled, At, TypeOK
    <3>2. InHand(q)' = {val[q]}
      BY Zenon, <3>1 DEF InHand
    <3> QED
      BY Zenon, <2>2, <3>2
  <2> QED
    BY Zenon, <1>2, <2>1, <2>2
<1>11. CASE PutBack(q)
  <2>1. InHand(q) = {arg[q]} /\ got' = got /\ arg[q] \in Value
    BY Zenon, <1>11 DEF PutBack, At, InHand, Places, Consuming
  <2>2. CASE Free
    <3>1. watch' = <<arg[q]>> /\ late' = late /\ watch = << >>
      BY Zenon, <1>11, <2>2 DEF PutBack, Put, Free
    <3> QED
      BY Zenon, <1>2, <1>4, <2>1, <3>1
  <2>3. CASE ~Free
    <3>1. late' = [late EXCEPT ![arg[q]] = late[arg[q]] + 1] /\ watch' = watch
      BY Zenon, <1>11, <2>3 DEF PutBack, Free
    <3>2. late[v] \in Nat /\ late'[v] = IF v = arg[q] THEN late[v] + 1 ELSE late[v]
      BY Zenon, <2>1, <3>1 DEF TypeOK
    <3> QED
      BY <1>2, <2>1, <3>1, <3>2
  <2> QED
    BY Zenon, <2>2, <2>3
<1>12. CASE ReceiveChan(q)
  <2>1. InHand(q) = {} /\ got' = got \cup {watch[1]} /\ late' = late /\ watch # << >>
    BY Zenon, <1>12 DEF ReceiveChan, At, InHand, Receive, Free
  <2> QED
    BY Zenon, <1>2, <1>3, <2>1
<1> QED
  BY Zenon, <1>6, <1>7, <1>8, <1>9, <1>10, <1>11, <1>12

\* A step inside the list, and one that puts a value back late, take nothing from
\* where it is safe; a consumer that takes a value off the list has it in hand.
LEMMA InListSafe ==
  ASSUME QueueAssumption, Typed, NEW x \in Proc, InList(x)
  PROVE  /\ \A v \in Value : Safe(v) => Safe(v)'
         /\ \A v \in Value : x \in Consumer /\ List!Take(x) /\ v = Head(items) => Safe(v)'
<1> USE DEF QueueAssumption, Typed
<1>1. UNCHANGED <<watch, pc, arg, late, queued, overlap, got>>
  BY Zenon DEF InList
<1>2. \A r \in Consumer \ {x} : InHand(r)' = InHand(r)
  <2>1. \A r \in Proc \ {x} : op'[r] = op[r] /\ val'[r] = val[r]
    BY Zenon DEF InList, List!Inside, List!Link, List!CountUp, List!Look, List!Take, List!CountDown,
           List!Fail, List!Goto, TypeOK
  <2> QED
    BY Zenon, <1>1, <2>1, InHandSame DEF Consumer, Proc
<1>3. x \in Consumer => InHand(x) \subseteq InHand(x)'
  <2> SUFFICES ASSUME x \in Consumer, InHand(x) # {} PROVE InHand(x)' = InHand(x)
    BY Zenon
  <2>1. \/ pc[x] = "back" /\ op[x] = "idle"
        \/ pc[x] \in {"took", "pulled"} /\ op[x] \in {"idle", "taken"}
    BY Zenon DEF InHand, Places, Consuming
  <2>2. op[x] = "taken" /\ op'[x] = "idle" /\ val' = val
    BY Zenon, <2>1 DEF InList, List!Inside, List!Link, List!CountUp, List!Look, List!Take,
                List!CountDown, List!Fail, List!Goto, TypeOK
  <2> QED
    BY Zenon, <1>1, <2>1, <2>2 DEF InHand
<1>4. \A v \in Value : Safe(v) => Safe(v)'
  BY Zenon, <1>1, <1>2, <1>3 DEF Safe
<1>5. ASSUME NEW v \in Value, x \in Consumer, List!Take(x), v = Head(items) PROVE Safe(v)'
  <2>1. op'[x] = "taken" /\ val'[x] = v /\ pc[x] \in {"took", "pulled"}
    BY Zenon, <1>5 DEF List!Take, List!Goto, TypeOK, Places, Consuming
  <2>2. InHand(x)' = {v}
    BY Zenon, <1>1, <2>1 DEF InHand
  <2> QED
    BY Zenon, <1>5, <2>2 DEF Safe
<1> QED
  BY Zenon, <1>4, <1>5

LEMMA PutLateSafe ==
  ASSUME QueueAssumption, Typed, NEW u \in Value, PutLate(u), NEW v \in Value, Safe(v)
  PROVE  Safe(v)'
<1>1. \A q \in Consumer : InHand(q)' = InHand(q)
  BY Zenon, InHandSame DEF PutLate, list, Consumer, Proc
<1>2. Elements(watch) = {} /\ Elements(watch') = {u} /\ got' = got
  BY Zenon, ElementsFacts DEF PutLate, Put, Free
<1>3. v # u => late'[v] = late[v]
  BY Zenon DEF PutLate, Typed, TypeOK
<1> QED
  BY Zenon, <1>1, <1>2, <1>3 DEF Safe

\* What others do leaves the producer's values safe.
LEMMA OthersKeep ==
  ASSUME QueueAssumption, NEW p \in Proc, Typed, Kept(p), Alone(p), queued' = queued,
         pc'[p] = pc[p], op'[p] = op[p], arg'[p] = arg[p], val'[p] = val[p],
         \A v \in Value : Safe(v) => Safe(v)',
         Elements(items') \subseteq Elements(items), items = << >> => items' = << >>,
         \A v \in Elements(items) : v \in Elements(items') \/ Safe(v)'
  PROVE  Kept(p)' /\ Alone(p)'
<1>1. InHand(p)' = InHand(p)
  BY Zenon, InHandSame
<1>2. Kept(p)'
  BY Zenon, <1>1 DEF Kept, Typed, TypeOK
<1>3. Alone(p)'
  BY Zenon DEF Alone
<1> QED
  BY Zenon, <1>2, <1>3

\* A step of a consumer.
LEMMA ConsumerKeeps ==
  ASSUME QueueAssumption, NEW p \in Producer, QueueInv(p), NEW q \in Consumer, Take(q) \/ Poll(q)
  PROVE  QueueInv(p)'
<1> USE DEF QueueAssumption, QueueInv
<1>1. p \in Proc /\ q \in Proc /\ p # q
  BY Zenon DEF Consumer, Proc
<1>2. Lone(p)'
  <2>1. \A x \in Proc \ {q} : pc'[x] = pc[x]
    BY Zenon, <1>1 DEF Take, Poll, Dequeue, Took, DequeueChan, Pull, Pulled, PutBack, ReceiveChan,
                InList, At, Typed, TypeOK
  <2> QED
    BY Zenon, <2>1 DEF Lone, Consumer, Proc
<1>3. CASE InList(q)
  <2>1. Typed' /\ Sized(p)'
    BY Zenon, <1>1, <1>3, InListTyped, SizedStep DEF InList
  <2>2. queued' = queued /\ pc'[p] = pc[p] /\ op'[p] = op[p] /\ arg'[p] = arg[p] /\ val'[p] = val[p]
    BY Zenon, <1>1, <1>3 DEF InList, List!Inside, List!Link, List!CountUp, List!Look, List!Take,
                      List!CountDown, List!Fail, List!Goto, Typed, TypeOK
  <2>3. CASE List!Take(q)
    <3>1. items \in Seq(Value) /\ items # << >> /\ items' = Tail(items) /\ Head(items) \in Value
      BY <1>1, <1>3, <2>3 DEF List!Take, Typed, TypeOK
    <3>2. \A v \in Value : v = Head(items) => Safe(v)'
      BY Zenon, <1>1, <1>3, <2>3, InListSafe
    <3>3. /\ Elements(items') \subseteq Elements(items)
          /\ \A v \in Elements(items) : v \in Elements(items') \/ Safe(v)'
      BY SMTT(30), <3>1, <3>2, ElementsFacts
    <3> QED
      BY Zenon, <1>1, <1>3, <2>1, <2>2, <3>1, <3>3, <1>2, InListSafe, OthersKeep
  <2>4. CASE ~List!Take(q)
    <3>1. items' = items
      BY Zenon, <1>1, <1>3, <2>4 DEF InList, List!Inside, List!Link, List!CountUp, List!Look,
                        List!CountDown, List!Fail, Typed, Places, Consuming
    <3> QED
      BY Zenon, <1>1, <1>3, <2>1, <2>2, <3>1, <1>2, InListSafe, OthersKeep
  <2> QED
    BY Zenon, <2>3, <2>4
<1>4. CASE Dequeue(q) \/ Took(q) \/ DequeueChan(q) \/ Pull(q) \/ Pulled(q) \/ PutBack(q)
             \/ ReceiveChan(q)
  <2>1. Typed' /\ \A v \in Value : Safe(v) => Safe(v)'
    BY Zenon, <1>4, ConsumerTyped, ConsumerSafe
  <2>2. /\ queued' = queued /\ items' = items /\ size' = size
        /\ pc'[p] = pc[p] /\ op'[p] = op[p] /\ arg'[p] = arg[p] /\ val'[p] = val[p]
    BY Zenon, <1>1, <1>4 DEF Dequeue, Took, DequeueChan, Pull, Pulled, PutBack, ReceiveChan, At, list,
                      List!StartDeq, List!Goto, Typed, TypeOK
  <2>3. Taken' = Taken
    BY Zenon, <1>1, <1>4 DEF Dequeue, Took, DequeueChan, Pull, Pulled, PutBack, ReceiveChan, At, list,
                      List!StartDeq, List!Goto, Typed, TypeOK, Taken
  <2>4. Sized(p)'
    BY Zenon, <2>2, <2>3 DEF Sized, Uncounted
  <2> QED
    BY Zenon, <1>2, <1>1, <2>1, <2>2, <2>4, OthersKeep
<1> QED
  BY Zenon, <1>3, <1>4 DEF Take, Poll

\* A step of Enqueue itself.
LEMMA ProducerKeeps ==
  ASSUME QueueAssumption, NEW p \in Producer, QueueInv(p),
         (\E v \in Value : Enqueue(p, v)) \/ Offer(p) \/ Again(p) \/ Return(p)
  PROVE  QueueInv(p)'
<1> USE DEF QueueAssumption, QueueInv
<1>1. p \in Producer /\ p \in Proc /\ p \notin Consumer
  BY Zenon DEF Consumer, Proc
<1>2. Typed'
  BY Zenon, <1>1, ProducerTyped
<1>3. \A q \in Consumer : InHand(q)' = InHand(q)
  <2>1. \A q \in Proc \ {p} : /\ pc'[q] = pc[q] /\ op'[q] = op[q]
                              /\ arg'[q] = arg[q] /\ val'[q] = val[q]
    BY DEF Enqueue, Offer, Again, Return, At, list, List!StartEnq, List!StartDeq, List!Goto,
           Typed, TypeOK
  <2> QED
    BY Zenon, <1>1, <2>1, InHandSame DEF Consumer, Proc
<1>4. \/ watch' = watch
      \/ watch = << >> /\ watch' = <<arg[p]>>
  BY Zenon DEF Enqueue, Offer, Again, Return, Put, Free
<1>5. Elements(<< >>) = {} /\ Elements(<<arg[p]>>) = {arg[p]}
  BY Zenon, ElementsFacts
<1>6. \A v \in Value : Safe(v) => Safe(v)'
  BY Zenon, <1>3, <1>4, <1>5 DEF Safe, Enqueue, Offer, Again, Return
<1>7. items' = items /\ size' = size /\ op[p] = "idle" /\ op'[p] \in {"idle", "enq", "deq"}
  BY Zenon, <1>1 DEF Enqueue, Offer, Again, Return, At, list, List!StartEnq, List!StartDeq, List!Goto,
              Typed, TypeOK
<1>8. Sized(p)'
  <2>1. Taken' = Taken
    BY Zenon, <1>1 DEF Enqueue, Offer, Again, Return, At, list, List!StartEnq, List!StartDeq, List!Goto,
                Typed, TypeOK, Taken
  <2> QED
    BY Zenon, <1>7, <2>1 DEF Sized, Uncounted
<1>9. ASSUME NEW v \in Value, Enqueue(p, v) PROVE Kept(p)' /\ Alone(p)'
  <2>1. InHand(p) = {} /\ queued' = queued \cup {v}
    BY Zenon, <1>9 DEF Enqueue, At, InHand
  <2>2. CASE size > 0
    <3>1. pc'[p] = "queued" /\ op'[p] = "enq" /\ val'[p] = v
      BY Zenon, <1>1, <1>9, <2>2 DEF Enqueue, At, List!StartEnq, List!Goto, Typed, TypeOK
    <3>2. InHand(p)' = {v} /\ Alone(p)'
      BY Zenon, <3>1 DEF InHand, Alone
    <3> QED
      BY Zenon, <1>6, <1>7, <2>1, <3>2 DEF Kept, Typed, TypeOK
  <2>3. CASE ~(size > 0)
    <3>1. pc'[p] = "offer" /\ arg'[p] = v
      BY Zenon, <1>1, <1>9, <2>3 DEF Enqueue, At, Typed, TypeOK
    <3>2. IsFiniteSet(Taken)
      BY Zenon, FS_Subset DEF Taken
    <3>3. Cardinality(Taken) \in Nat
      BY Zenon, <3>2, FS_CardinalityType
    <3>4. items = << >>
      <4>1. size \in Int /\ items \in Seq(Value) /\ Len(items) \in Nat
        BY SMTT(30) DEF Typed, TypeOK
      <4>2. Len(items) = 0
        BY <1>7, <2>3, <3>3, <4>1 DEF Sized, Uncounted
      <4> QED
        BY <4>1, <4>2
    <3>5. InHand(p)' = {v} /\ Alone(p)'
      BY Zenon, <1>7, <3>1, <3>4 DEF InHand, Alone
    <3> QED
      BY Zenon, <1>6, <1>7, <2>1, <3>5 DEF Kept, Typed, TypeOK
  <2> QED
    BY Zenon, <2>2, <2>3
<1>10. ASSUME Offer(p) PROVE Kept(p)' /\ Alone(p)'
  <2>1. InHand(p) = {arg[p]} /\ items = << >> /\ queued' = queued /\ arg[p] \in Value
    BY Zenon, <1>1, <1>10 DEF Offer, At, InHand, Alone, Typed, Places, Producing
  <2>2. CASE Free
    <3>1. pc'[p] = "idle" /\ watch' = <<arg[p]>>
      BY Zenon, <1>1, <1>10, <2>2 DEF Offer, At, Put, Typed, TypeOK
    <3>2. Alone(p)' /\ \A v : v = arg[p] => Safe(v)'
      BY Zenon, <1>5, <3>1 DEF Alone, Safe
    <3> QED
      BY Zenon, <1>6, <1>7, <2>1, <3>2 DEF Kept, Typed, TypeOK
  <2>3. CASE ~Free
    <3>1. pc'[p] = "again" /\ op'[p] = "enq" /\ val'[p] = arg[p] /\ arg'[p] = arg[p]
      BY Zenon, <1>1, <1>10, <2>3 DEF Offer, At, List!StartEnq, List!Goto, Typed, TypeOK
    <3>2. InHand(p)' = {arg[p]} /\ Alone(p)'
      BY Zenon, <1>7, <2>1, <3>1 DEF InHand, Alone
    <3> QED
      BY Zenon, <1>6, <1>7, <2>1, <3>2 DEF Kept, Typed, TypeOK
  <2> QED
    BY Zenon, <2>2, <2>3
<1>11. ASSUME Again(p) PROVE Kept(p)' /\ Alone(p)'
  <2>1. InHand(p) = {} /\ queued' = queued /\ arg[p] \in Value /\ Elements(items) \subseteq {arg[p]}
        /\ arg' = arg
    BY Zenon, <1>1, <1>7, <1>11 DEF Again, At, InHand, Alone, Typed, Places, Producing
  <2>2. Kept(p)'
    BY Zenon, <1>6, <1>7, <2>1 DEF Kept, Typed, TypeOK
  <2>3. CASE Free
    <3>1. pc'[p] = "queued" /\ watch' = <<arg[p]>> /\ arg'[p] = arg[p]
      BY Zenon, <1>1, <1>11, <2>3 DEF Again, At, Put, Typed, TypeOK
    <3>2. \A v : v = arg[p] => Safe(v)'
      BY Zenon, <1>5, <3>1 DEF Safe
    <3> QED
      BY Zenon, <1>7, <2>1, <2>2, <3>1, <3>2 DEF Alone
  <2>4. CASE ~Free
    <3>1. pc'[p] = "idle"
      BY Zenon, <1>1, <1>11, <2>4 DEF Again, At, Typed, TypeOK
    <3> QED
      BY Zenon, <2>2, <3>1 DEF Alone
  <2> QED
    BY Zenon, <2>3, <2>4
<1>12. ASSUME Return(p) PROVE Kept(p)' /\ Alone(p)'
  <2>1. InHand(p) = {} /\ queued' = queued /\ pc'[p] = "idle"
    BY Zenon, <1>1, <1>12 DEF Return, At, InHand, Typed, TypeOK
  <2> QED
    BY Zenon, <1>6, <1>7, <2>1 DEF Kept, Alone, Typed, TypeOK
<1>13. Lone(p)'
  <2>1. \A x \in Proc \ {p} : pc'[x] = pc[x]
    BY Zenon, <1>1 DEF Enqueue, Offer, Again, Return, At, Typed, TypeOK
  <2> QED
    BY Zenon, <2>1 DEF Lone, Proc
<1> QED
  BY Zenon, <1>2, <1>8, <1>9, <1>10, <1>11, <1>12, <1>13

\* A step of the producer inside the list.
LEMMA ProducerInList ==
  ASSUME QueueAssumption, NEW p \in Producer, QueueInv(p), InList(p)
  PROVE  QueueInv(p)'
<1> USE DEF QueueAssumption, QueueInv
<1>1. p \in Proc /\ p \notin Consumer /\ p \in Producer
  BY Zenon DEF Consumer, Proc
<1>2. Typed' /\ Sized(p)' /\ \A v \in Value : Safe(v) => Safe(v)'
  BY Zenon, <1>1, InListTyped, SizedStep, InListSafe DEF InList
<1>3. UNCHANGED <<watch, pc, arg, late, queued, overlap, got>> /\ items \in Seq(Value) /\ queued \subseteq Value
  BY Zenon DEF InList, Typed, TypeOK
<1>4. Lone(p)'
  BY Zenon, <1>3 DEF Lone
<1>5. CASE List!Link(p)
  <2>1. op[p] = "enq" /\ op'[p] = "linked" /\ val'[p] = val[p] /\ val[p] \in Value
        /\ items' = Append(items, val[p])
    BY Zenon, <1>1, <1>5 DEF List!Link, List!Goto, Typed, TypeOK, Places, Carrying
  <2>2. Elements(items') = Elements(items) \cup {val[p]}
    BY Zenon, <1>3, <2>1, ElementsFacts
  <2>3. InHand(p) \subseteq {val[p]}
    BY Zenon, <1>1, <2>1 DEF InHand, Typed, Places, Producing
  <2>4. Kept(p)'
    BY Zenon, <1>2, <1>3, <2>2, <2>3 DEF Kept
  <2>5. Alone(p)'
    BY Zenon, <1>1, <1>3, <2>1, <2>2, ElementsFacts DEF Alone, Typed, Places, Producing
  <2> QED
    BY Zenon, <1>2, <1>4, <2>4, <2>5
<1>6. CASE List!Take(p)
  <2>1. /\ op[p] = "deq" /\ op'[p] = "taken" /\ items # << >> /\ items' = Tail(items)
        /\ pc[p] = "queued"
    BY Zenon, <1>1, <1>6 DEF List!Take, List!Goto, Typed, TypeOK, Places, Producing
  <2>2. Elements(items) \subseteq {arg[p]} /\ arg[p] \in Value /\ Safe(arg[p]) /\ InHand(p) = {}
    BY Zenon, <2>1 DEF Alone, InHand
  <2>3. Elements(items') \subseteq {arg[p]}
    BY Zenon, <1>3, <2>1, <2>2, ElementsFacts
  <2>4. Kept(p)'
    BY Zenon, <1>2, <1>3, <2>2 DEF Kept
  <2>5. Alone(p)'
    BY Zenon, <1>2, <1>3, <2>1, <2>2, <2>3 DEF Alone
  <2> QED
    BY Zenon, <1>2, <1>4, <2>4, <2>5
<1>7. CASE \/ List!CountUp(p) \/ (\E e \in BOOLEAN : List!Look(p, e))
           \/ List!CountDown(p) \/ List!Fail(p)
  <2>1. /\ items' = items /\ op[p] \in {"linked", "taken", "deq"}
        /\ op'[p] = op[p] \/ op'[p] = "idle"
    BY Zenon, <1>1, <1>7 DEF List!CountUp, List!Look, List!CountDown, List!Fail, List!Goto, Typed, TypeOK
  <2>2. InHand(p) = {}
    BY Zenon, <1>1, <2>1 DEF InHand, Typed, Places, Producing
  <2>3. Kept(p)'
    BY Zenon, <1>2, <1>3, <2>1, <2>2 DEF Kept
  <2>4. Alone(p)'
    BY Zenon, <1>1, <1>2, <1>3, <2>1 DEF Alone, Typed, Places, Producing
  <2> QED
    BY Zenon, <1>2, <1>4, <2>3, <2>4
<1> QED
  BY Zenon, <1>5, <1>6, <1>7 DEF InList, List!Inside

-----------------------------------------------------------------------------
\* The invariants and what follows from them

\* They hold at the start.
LEMMA InitQueue ==
  ASSUME QueueAssumption
  PROVE  /\ Init => Typed
         /\ \A p \in Producer : Init => QueueInv(p)
<1> USE DEF QueueAssumption
<1>1. ASSUME Init PROVE Typed
  <2>1. ListTyped
    <3>1. items \in Seq(Value) /\ size \in Int /\ used \subseteq Value
      BY <1>1 DEF Init, List!Init
    <3>2. op \in [Proc -> {"idle", "enq", "linked", "deq", "taken"}]
      BY Zenon, <1>1 DEF Init, List!Init
    <3>3. val \in [Proc -> Value \cup {Nil}] /\ sawEmpty \in [Proc -> BOOLEAN]
      BY Zenon, <1>1 DEF Init, List!Init
    <3> QED
      BY Zenon, <3>1, <3>2, <3>3 DEF ListTyped
  <2>2. CallsTyped
    BY Zenon, <1>1 DEF Init, CallsTyped
  <2>3. SlotTyped
    <3>1. watch \in Seq(Value) /\ Len(watch) <= 1 /\ late \in [Value -> Nat]
      BY <1>1 DEF Init
    <3>2. queued \subseteq Value /\ got \subseteq Value /\ overlap \in BOOLEAN
      BY Zenon, <1>1 DEF Init
    <3> QED
      BY Zenon, <3>1, <3>2 DEF SlotTyped
  <2>4. Places
    BY Zenon, <1>1 DEF Init, List!Init, Places, Producing, Consuming, Carrying, Consumer, Proc
  <2> QED
    BY Zenon, <2>1, <2>2, <2>3, <2>4 DEF Typed, TypeOK, ListTyped, CallsTyped, SlotTyped
<1>2. ASSUME NEW p \in Producer, Init PROVE QueueInv(p)
  <2>1. p \in Proc /\ op[p] = "idle" /\ pc[p] = "idle" /\ queued = {} /\ items = << >> /\ size = 0
    BY Zenon, <1>2 DEF Init, List!Init, Proc
  <2>2. Taken = {}
    BY Zenon, <1>2 DEF Init, List!Init, Taken
  <2>3. Sized(p)
    BY <2>1, <2>2, FS_EmptySet DEF Sized, Uncounted
  <2> QED
    BY Zenon, <1>1, <1>2, <2>1, <2>3 DEF QueueInv, Kept, Alone, Lone, Init, Proc
<1> QED
  BY Zenon, <1>1, <1>2

\* Every step keeps the types.
LEMMA StepTyped ==
  ASSUME QueueAssumption
  PROVE  Typed /\ [Next]_vars => Typed'
<1>1. ASSUME Typed, UNCHANGED vars PROVE Typed'
  <2>1. TypeOK'
    BY Zenon, <1>1 DEF Typed, TypeOK, vars, list
  <2>2. Places'
    BY Zenon, <1>1 DEF Typed, Places, Producing, Consuming, Carrying, vars, list
  <2> QED
    BY Zenon, <2>1, <2>2 DEF Typed
<1>2. ASSUME Typed, NEW p \in Producer, (\E v \in Value : Enqueue(p, v)) \/ Finish(p) PROVE Typed'
  BY Zenon, <1>2, ProducerTyped, InListTyped DEF Finish, Proc
<1>3. ASSUME Typed, NEW q \in Consumer, Take(q) \/ Poll(q) PROVE Typed'
  BY Zenon, <1>3, ConsumerTyped, InListTyped DEF Take, Poll, Proc, Consumer
<1>4. ASSUME Typed, NEW v \in Value, PutLate(v) PROVE Typed'
  BY Zenon, <1>4, PutLateTyped
<1> QED
  BY Zenon, <1>1, <1>2, <1>3, <1>4 DEF Next, Consumer

\* When p is not inside Enqueue any producer can take its place.
LEMMA TakesOver ==
  ASSUME QueueAssumption, NEW p \in Producer, QueueInv(p), pc[p] = "idle", NEW x \in Producer
  PROVE  QueueInv(x)
<1>1. pc[x] = "idle" /\ Lone(x)
  BY Zenon DEF QueueInv, Lone
<1>2. InHand(p) = {}
  BY Zenon DEF InHand
<1>3. Kept(x) /\ Alone(x)
  BY Zenon, <1>1, <1>2 DEF QueueInv, Kept, Alone
<1>4. op[p] = "idle" /\ op[x] = "idle"
  BY Zenon, <1>1 DEF QueueInv, Typed, Places, Producing
<1>5. Sized(x)
  BY Zenon, <1>4 DEF QueueInv, Sized, Uncounted
<1> QED
  BY Zenon, <1>1, <1>3, <1>5 DEF QueueInv

\* What the others do, and a late value, leave the producer's values alone.
LEMMA StillKeeps ==
  ASSUME QueueAssumption, NEW p \in Producer, QueueInv(p),
         UNCHANGED vars \/ \E v \in Value : PutLate(v)
  PROVE  QueueInv(p)'
<1>1. CASE UNCHANGED vars
  <2>1. Typed'
    BY Zenon, <1>1, StepTyped DEF QueueInv
  <2>2. \A x \in Proc : InHand(x)' = InHand(x)
    BY Zenon, <1>1, InHandSame DEF vars, list
  <2>3. UNCHANGED <<items, size, op, val, pc, arg, watch, late, queued, got>> /\ p \in Proc
    BY Zenon, <1>1 DEF vars, list, Proc
  <2>4. \A v : Safe(v)' <=> Safe(v)
    BY Zenon, <2>2, <2>3 DEF Safe, Consumer, Proc
  <2>5. Lone(p)' /\ Kept(p)' /\ Alone(p)' /\ Sized(p)'
    BY Zenon, <1>1, <2>2, <2>3, <2>4 DEF QueueInv, Lone, Kept, Alone, Sized, Taken, Uncounted
  <2> QED
    BY Zenon, <2>1, <2>5 DEF QueueInv
<1>2. ASSUME NEW v \in Value, PutLate(v) PROVE QueueInv(p)'
  <2>1. Typed' /\ \A u \in Value : Safe(u) => Safe(u)'
    BY Zenon, <1>2, PutLateTyped, PutLateSafe DEF QueueInv
  <2>2. UNCHANGED <<items, size, op, val, pc, arg, queued>> /\ p \in Proc
    BY Zenon, <1>2 DEF PutLate, list, Proc
  <2>3. Kept(p)' /\ Alone(p)'
    BY Zenon, <1>2, <2>1, <2>2, OthersKeep DEF QueueInv
  <2>4. Lone(p)' /\ Sized(p)'
    BY Zenon, <1>2, <2>2 DEF QueueInv, Lone, Sized, Taken, Uncounted
  <2> QED
    BY Zenon, <2>1, <2>3, <2>4 DEF QueueInv
<1> QED
  BY Zenon, <1>1, <1>2

\* Every step keeps the values until two calls of Enqueue overlap.
LEMMA StepQueue ==
  ASSUME QueueAssumption
  PROVE  Apart /\ [Next]_vars => Apart'
<1> SUFFICES ASSUME Apart, [Next]_vars, ~overlap' PROVE \E p \in Producer : QueueInv(p)'
  BY Zenon, StepTyped DEF Apart
<1>1. ~overlap
  BY Zenon DEF Next, vars, Enqueue, Finish, Take, Poll, Offer, Again, Return, Dequeue, Took,
        DequeueChan, Pull, Pulled, PutBack, ReceiveChan, InList, PutLate
<1>2. PICK p \in Producer : QueueInv(p)
  BY Zenon, <1>1 DEF Apart
<1>3. CASE UNCHANGED vars \/ \E v \in Value : PutLate(v)
  BY Zenon, <1>2, <1>3, StillKeeps
<1>4. ASSUME NEW q \in Consumer, Take(q) \/ Poll(q) PROVE QueueInv(p)'
  BY Zenon, <1>2, <1>4, ConsumerKeeps
<1>5. ASSUME NEW x \in Producer, NEW v \in Value, Enqueue(x, v) PROVE QueueInv(x)'
  <2>1. x # p => pc[p] = "idle"
    BY Zenon, <1>5 DEF Enqueue
  <2>2. QueueInv(x)
    BY Zenon, <1>2, <2>1, TakesOver
  <2> QED
    BY Zenon, <1>5, <2>2, ProducerKeeps
<1>6. ASSUME NEW x \in Producer, Finish(x) PROVE QueueInv(p)'
  <2>1. pc[x] # "idle"
    BY Zenon, <1>2, <1>6 DEF Finish, Offer, Again, Return, InList, At, List!Inside, List!Link,
          List!CountUp, List!Look, List!Take, List!CountDown, List!Fail, QueueInv, Typed, Places,
          Producing
  <2>2. x = p
    BY Zenon, <1>2, <2>1 DEF QueueInv, Lone
  <2> QED
    BY Zenon, <1>2, <1>6, <2>2, ProducerKeeps, ProducerInList DEF Finish
<1> QED
  BY Zenon, <1>2, <1>3, <1>4, <1>5, <1>6 DEF Next, Consumer

\* The variables keep their types, for any number of producers and consumers: the
\* slot (watch) holds one value at most, and Enqueue, Dequeue and DequeueChan bring
\* real values to the slot and the list.
THEOREM TypeCorrect ==
  ASSUME QueueAssumption
  PROVE  Spec => []TypeOK
<1>1. Typed => TypeOK
  BY Zenon DEF Typed
<1> QED
  BY <1>1, InitQueue, StepTyped, PTL DEF Spec

\* For any number of producers no value is lost between the slot and the list, although
\* Enqueue cuts the list without looking at what it cuts off, until two calls of Enqueue
\* overlap.
THEOREM ValuesKept ==
  ASSUME QueueAssumption
  PROVE  Spec => []NothingLost
<1>1. Apart => NothingLost
  <2> SUFFICES ASSUME NEW p \in Producer, QueueInv(p), NEW v \in queued
               PROVE  v \in Somewhere
    BY Zenon DEF NothingLost, Apart
  <2>1. p \in Proc /\ Consumer \subseteq Proc /\ v \in Value
    BY Zenon DEF Proc, Consumer, QueueInv, Typed, TypeOK
  <2> QED
    BY Zenon, <2>1 DEF QueueInv, Kept, Safe, Somewhere
<1>2. Init => Apart
  BY Zenon, InitQueue DEF Apart, QueueAssumption
<1>3. Apart /\ [Next]_vars => Apart'
  BY Zenon, StepQueue
<1> QED
  BY <1>1, <1>2, <1>3, PTL DEF Spec
=============================================================================
