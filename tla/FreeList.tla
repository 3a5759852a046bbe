------------------------------ MODULE FreeList ------------------------------
(***************************************************************************)
(* The lock-free linked list of common/sync/lfreequeue (type queue), one   *)
(* step for each access to shared memory.  A node is known by its value.   *)
(*                                                                         *)
(* The reads of tail, dummy and next are plain reads beside atomic writes, *)
(* and nothing is written between a read and the test that repeats it: the *)
(* compiler may keep the first result.  So a repeated test that would fail *)
(* may also pass.                                                          *)
(***************************************************************************)
EXTENDS Integers, Sequences

CONSTANTS
  Proc,   \* goroutines
  Value,  \* values, each enqueued at most once
  Dummy,  \* the first dummy node
  Nil     \* the nil pointer

Node == Value \cup {Dummy}
NodeOrNil == Node \cup {Nil}

ASSUME NodeAssumption == Dummy \notin Value /\ Nil \notin Node

VARIABLES
  next,     \* next[n]: the pointer of node n
  dummy, tail, size,
  pc,       \* pc[p]: the next access of p
  new,      \* new[p]: the node p adds or has removed
  oldTail, oldNext, oldDummy, oldHead,  \* locals of the two methods
  used,     \* history: the values enqueued so far
  order,    \* history: the nodes in the order in which they were linked
  headAt,   \* history: the place of dummy in order
  tailAt    \* history: the place of tail in order

locals == <<oldTail, oldNext, oldDummy, oldHead>>
vars == <<next, dummy, tail, size, pc, new, locals, used, order, headAt, tailAt>>

\* newQueue
Init ==
  /\ next = [n \in Node |-> Nil]
  /\ dummy = Dummy /\ tail = Dummy /\ size = 0
  /\ pc = [p \in Proc |-> "idle"]
  /\ new = [p \in Proc |-> Nil]
  /\ oldTail = [p \in Proc |-> Dummy] /\ oldNext = [p \in Proc |-> Nil]
  /\ oldDummy = [p \in Proc |-> Dummy] /\ oldHead = [p \in Proc |-> Nil]
  /\ used = {} /\ order = <<Dummy>> /\ headAt = 1 /\ tailAt = 1

At(p, from, to) == pc[p] = from /\ pc' = [pc EXCEPT ![p] = to]

\* The call of p is over, and with it its locals.
Return(p, from) ==
  /\ At(p, from, "idle")
  /\ oldTail' = [oldTail EXCEPT ![p] = Dummy] /\ oldNext' = [oldNext EXCEPT ![p] = Nil]
  /\ oldDummy' = [oldDummy EXCEPT ![p] = Dummy] /\ oldHead' = [oldHead EXCEPT ![p] = Nil]

\* CompareAndSwapPointer(&q.tail, old, n), n the node behind old.
CasTail(old, n) ==
  IF tail = old THEN tail' = n /\ tailAt' = tailAt + 1 ELSE UNCHANGED <<tail, tailAt>>

-----------------------------------------------------------------------------
\* enqueue

Enqueue(p, v) ==
  /\ At(p, "idle", "tail")
  /\ v \notin used
  /\ used' = used \cup {v}
  /\ new' = [new EXCEPT ![p] = v]
  /\ UNCHANGED <<next, dummy, tail, size, locals, order, headAt, tailAt>>

ReadTail(p) ==
  /\ At(p, "tail", "next")
  /\ oldTail' = [oldTail EXCEPT ![p] = tail]
  /\ UNCHANGED <<next, dummy, tail, size, new, oldNext, oldDummy, oldHead, used,
                 order, headAt, tailAt>>

ReadNext(p) ==
  /\ At(p, "next", "check")
  /\ oldNext' = [oldNext EXCEPT ![p] = next[oldTail[p]]]
  /\ UNCHANGED <<next, dummy, tail, size, new, oldTail, oldDummy, oldHead, used,
                 order, headAt, tailAt>>

CheckTail(p) ==
  /\ \/ At(p, "check", "link")
     \/ tail # oldTail[p] /\ At(p, "check", "tail")
  /\ UNCHANGED <<next, dummy, tail, size, new, locals, used, order, headAt, tailAt>>

\* Mutant: the loop does not read q.tail again.
HelpTailStale(p) ==
  /\ oldNext[p] # Nil
  /\ At(p, "link", "next")
  /\ CasTail(oldTail[p], oldNext[p])
  /\ UNCHANGED <<next, dummy, size, new, locals, used, order, headAt>>

\* The tail lags behind: move it and start over.
HelpTail(p) ==
  /\ oldNext[p] # Nil
  /\ At(p, "link", "tail")
  /\ CasTail(oldTail[p], oldNext[p])
  /\ UNCHANGED <<next, dummy, size, new, locals, used, order, headAt>>

\* Mutant: the pointer is written without comparing it.
LinkBlind(p) ==
  /\ oldNext[p] = Nil
  /\ At(p, "link", "swing")
  /\ next' = [next EXCEPT ![oldTail[p]] = new[p]]
  /\ order' = Append(order, new[p])
  /\ UNCHANGED <<dummy, tail, size, new, locals, used, headAt, tailAt>>

\* CompareAndSwapPointer(&oldTail.next, nil, newNode)
Link(p) ==
  /\ oldNext[p] = Nil
  /\ IF next[oldTail[p]] = Nil
     THEN /\ At(p, "link", "swing")
          /\ next' = [next EXCEPT ![oldTail[p]] = new[p]]
          /\ order' = Append(order, new[p])
     ELSE At(p, "link", "tail") /\ UNCHANGED <<next, order>>
  /\ UNCHANGED <<dummy, tail, size, new, locals, used, headAt, tailAt>>

SwingTail(p) ==
  /\ At(p, "swing", "up")
  /\ CasTail(oldTail[p], new[p])
  /\ UNCHANGED <<next, dummy, size, new, locals, used, order, headAt>>

CountUp(p) ==
  /\ Return(p, "up")
  /\ size' = size + 1
  /\ UNCHANGED <<next, dummy, tail, new, used, order, headAt, tailAt>>

-----------------------------------------------------------------------------
\* dequeue

Dequeue(p) ==
  /\ At(p, "idle", "dummy")
  /\ UNCHANGED <<next, dummy, tail, size, new, locals, used, order, headAt, tailAt>>

ReadDummy(p) ==
  /\ At(p, "dummy", "head")
  /\ oldDummy' = [oldDummy EXCEPT ![p] = dummy]
  /\ UNCHANGED <<next, dummy, tail, size, new, oldTail, oldNext, oldHead, used,
                 order, headAt, tailAt>>

ReadHead(p) ==
  /\ At(p, "head", "dtail")
  /\ oldHead' = [oldHead EXCEPT ![p] = next[oldDummy[p]]]
  /\ UNCHANGED <<next, dummy, tail, size, new, oldTail, oldNext, oldDummy, used,
                 order, headAt, tailAt>>

ReadDTail(p) ==
  /\ At(p, "dtail", "dcheck")
  /\ oldTail' = [oldTail EXCEPT ![p] = tail]
  /\ UNCHANGED <<next, dummy, tail, size, new, oldNext, oldDummy, oldHead, used,
                 order, headAt, tailAt>>

CheckDummy(p) ==
  /\ \/ At(p, "dcheck", "take")
     \/ dummy # oldDummy[p] /\ At(p, "dcheck", "dummy")
  /\ UNCHANGED <<next, dummy, tail, size, new, locals, used, order, headAt, tailAt>>

\* The list was empty: return false.
Fail(p) ==
  /\ oldHead[p] = Nil
  /\ Return(p, "take")
  /\ new' = [new EXCEPT ![p] = Nil]
  /\ UNCHANGED <<next, dummy, tail, size, used, order, headAt, tailAt>>

\* The tail still is the dummy: move it and start over.
HelpDTail(p) ==
  /\ oldHead[p] # Nil
  /\ oldTail[p] = oldDummy[p]
  /\ At(p, "take", "dummy")
  /\ CasTail(oldTail[p], oldHead[p])
  /\ UNCHANGED <<next, dummy, size, new, locals, used, order, headAt>>

\* Mutant: the tail is not looked at.
TakeAny(p) ==
  /\ oldHead[p] # Nil
  /\ IF dummy = oldDummy[p]
     THEN /\ At(p, "take", "down")
          /\ dummy' = oldHead[p] /\ headAt' = headAt + 1
          /\ new' = [new EXCEPT ![p] = oldHead[p]]
     ELSE At(p, "take", "dummy") /\ UNCHANGED <<dummy, headAt, new>>
  /\ UNCHANGED <<next, tail, size, locals, used, order, tailAt>>

\* CompareAndSwapPointer(&q.dummy, oldDummy, oldHead)
Take(p) ==
  /\ oldHead[p] # Nil
  /\ oldTail[p] # oldDummy[p]
  /\ IF dummy = oldDummy[p]
     THEN /\ At(p, "take", "down")
          /\ dummy' = oldHead[p] /\ headAt' = headAt + 1
          /\ new' = [new EXCEPT ![p] = oldHead[p]]
     ELSE At(p, "take", "dummy") /\ UNCHANGED <<dummy, headAt, new>>
  /\ UNCHANGED <<next, tail, size, locals, used, order, tailAt>>

CountDown(p) ==
  /\ Return(p, "down")
  /\ size' = size - 1
  /\ UNCHANGED <<next, dummy, tail, new, used, order, headAt, tailAt>>

-----------------------------------------------------------------------------
Inside(p) ==
  \/ ReadTail(p) \/ ReadNext(p) \/ CheckTail(p) \/ HelpTail(p) \/ Link(p)
  \/ SwingTail(p) \/ CountUp(p)
  \/ ReadDummy(p) \/ ReadHead(p) \/ ReadDTail(p) \/ CheckDummy(p) \/ Fail(p)
  \/ HelpDTail(p) \/ Take(p) \/ CountDown(p)

Next == \E p \in Proc : (\E v \in Value : Enqueue(p, v)) \/ Dequeue(p) \/ Inside(p)

Spec == Init /\ [][Next]_vars

\* Every goroutine that is inside a call keeps running.
FairSpec == Spec /\ \A p \in Proc : WF_vars(Inside(p))

-----------------------------------------------------------------------------
EnqPc == {"tail", "next", "check", "link"}
DeqPc == {"dummy", "head", "dtail", "dcheck", "take"}

\* The variables keep their types, and a goroutine its registers.
TypeOK ==
  /\ next \in [Node -> NodeOrNil]
  /\ dummy \in Node /\ tail \in Node /\ size \in Int
  /\ pc \in [Proc -> {"idle", "swing", "up", "down"} \cup EnqPc \cup DeqPc]
  /\ new \in [Proc -> Value \cup {Nil}]
  /\ oldTail \in [Proc -> Node] /\ oldNext \in [Proc -> NodeOrNil]
  /\ oldDummy \in [Proc -> Node] /\ oldHead \in [Proc -> NodeOrNil]
  /\ used \subseteq Value /\ order \in Seq(Node)
  /\ headAt \in Nat /\ tailAt \in Nat

\* The pointers form one list: tail is never behind dummy and at most one node
\* behind the end, whatever goroutine stops between linking its node and moving
\* the tail.
OneList ==
  /\ 1 <= headAt /\ headAt <= tailAt
  /\ tailAt \in {Len(order) - 1, Len(order)}
  /\ order[headAt] = dummy /\ order[tailAt] = tail
  /\ \A i \in 1..Len(order) :
       next[order[i]] = IF i = Len(order) THEN Nil ELSE order[i + 1]

\* Every call returns, as long as finitely many values are enqueued: a
\* goroutine that has to start over has seen another one get ahead.
CallsReturn == \A p \in Proc : pc[p] # "idle" ~> pc[p] = "idle"

Op(p) ==
  CASE pc[p] \in EnqPc -> "enq"
    [] pc[p] \in {"swing", "up"} -> "linked"
    [] pc[p] \in DeqPc -> "deq"
    [] pc[p] = "down" -> "taken"
    [] OTHER -> "idle"

\* A nil pointer read behind the dummy: the list was empty at that time.
SawEmpty(p) == pc[p] \in {"dtail", "dcheck", "take"} /\ oldHead[p] = Nil

Items == SubSeq(order, headAt + 1, Len(order))
Ops == [p \in Proc |-> Op(p)]
Saw == [p \in Proc |-> SawEmpty(p)]

Fifo == INSTANCE FifoList WITH items <- Items, op <- Ops, val <- new, sawEmpty <- Saw

\* However the accesses of the goroutines interleave, the list is a FIFO list:
\* values are added at one end and taken from the other one by one, none is lost
\* or taken twice, and a dequeue fails only if the list was empty meanwhile.
Implements == Fifo!Spec
=============================================================================
