------------------------------ MODULE FreeQueue ------------------------------
(***************************************************************************)
(* The queue of common/sync/lfreequeue (type Queue): the list of FifoList  *)
(* behind a channel of one slot, watch.  A value goes to the slot when the *)
(* list is empty and the slot is free, and to the list otherwise.          *)
(***************************************************************************)
EXTENDS Integers, Sequences, FiniteSets

CONSTANTS
  Producer,  \* goroutines that call Enqueue
  Taker,     \* goroutines that call Dequeue
  Poller,    \* goroutines that receive from DequeueChan
  Value,     \* values, each enqueued at most once
  Nil        \* no value

Proc == Producer \cup Taker \cup Poller

\* A goroutine only produces or only consumes.
QueueAssumption ==
  /\ Nil \notin Value /\ IsFiniteSet(Proc)
  /\ Producer # {} /\ Producer \cap (Taker \cup Poller) = {}

VARIABLES
  items, size, op, val, sawEmpty, used, \* the list, see FifoList
  watch,   \* what is in the slot: at most one value
  pc,      \* pc[p]: where p is outside of the list's methods
  arg,     \* arg[p]: the value p is about to put into the slot
  late,    \* late[v]: goroutines that wait to put v back into the slot
  queued,  \* history: the values Enqueue was called with
  overlap, \* history: Enqueue was called while another call of it was under way
  got      \* history: the values received

List == INSTANCE FifoList
list == <<items, size, op, val, sawEmpty, used>>
vars == <<list, watch, pc, arg, late, queued, overlap, got>>

Init ==
  /\ List!Init
  /\ watch = << >>
  /\ pc = [p \in Proc |-> "idle"]
  /\ arg = [p \in Proc |-> Nil]
  /\ late = [v \in Value |-> 0]
  /\ queued = {} /\ got = {} /\ overlap = FALSE

\* p is at this place, and not inside a method of the list.
At(p, from, to) == pc[p] = from /\ op[p] = "idle" /\ pc' = [pc EXCEPT ![p] = to]

Free == watch = << >>

-----------------------------------------------------------------------------
Put(v) == watch' = <<v>>

\* Enqueue: look at the list's counter first.
Enqueue(p, v) ==
  /\ v \notin queued
  /\ queued' = queued \cup {v}
  /\ overlap' = (overlap \/ \E q \in Producer \ {p} : pc[q] # "idle")
  /\ \/ /\ size > 0
        /\ At(p, "idle", "queued")
        /\ List!StartEnq(p, v)
        /\ UNCHANGED arg
     \/ /\ ~(size > 0)
        /\ At(p, "idle", "offer")
        /\ arg' = [arg EXCEPT ![p] = v]
        /\ UNCHANGED list
  /\ UNCHANGED <<watch, late, got>>

\* The slot if it is free, otherwise the list.
Offer(p) ==
  /\ \/ Free /\ At(p, "offer", "idle") /\ Put(arg[p]) /\ UNCHANGED list
     \/ ~Free /\ At(p, "offer", "again") /\ List!StartEnq(p, arg[p]) /\ UNCHANGED watch
  /\ UNCHANGED <<arg, late, queued, overlap, got>>

\* The slot may have become free meanwhile: put the value there after all and
\* take one off the list.
Again(p) ==
  /\ \/ Free /\ At(p, "again", "queued") /\ Put(arg[p]) /\ List!StartDeq(p)
     \/ ~Free /\ At(p, "again", "idle") /\ UNCHANGED <<list, watch>>
  /\ UNCHANGED <<arg, late, queued, overlap, got>>

\* The list's method has returned and its result is not used.
Return(p) ==
  /\ At(p, "queued", "idle")
  /\ UNCHANGED <<list, watch, arg, late, queued, overlap, got>>

-----------------------------------------------------------------------------
Receive(v) == got' = got \cup {v}

\* Dequeue: the slot first, then the list.
Dequeue(p) ==
  /\ \/ /\ ~Free /\ At(p, "idle", "idle")
        /\ Receive(watch[1]) /\ watch' = << >>
        /\ UNCHANGED list
     \/ Free /\ At(p, "idle", "took") /\ List!StartDeq(p) /\ UNCHANGED <<watch, got>>
  /\ UNCHANGED <<arg, late, queued, overlap>>

\* The list's dequeue has returned, with a value or without.
Took(p) ==
  /\ At(p, "took", "idle")
  /\ IF val[p] = Nil THEN UNCHANGED got ELSE Receive(val[p])
  /\ UNCHANGED <<list, watch, arg, late, queued, overlap>>

-----------------------------------------------------------------------------
\* DequeueChan: is the slot empty?
DequeueChan(p) ==
  /\ At(p, "idle", IF Free THEN "pull" ELSE "receive")
  /\ UNCHANGED <<list, watch, arg, late, queued, overlap, got>>

\* The Dequeue inside it.
Pull(p) ==
  /\ \/ /\ ~Free /\ At(p, "pull", "back")
        /\ arg' = [arg EXCEPT ![p] = watch[1]] /\ watch' = << >>
        /\ UNCHANGED list
     \/ Free /\ At(p, "pull", "pulled") /\ List!StartDeq(p) /\ UNCHANGED <<watch, arg>>
  /\ UNCHANGED <<late, queued, overlap, got>>

\* The Dequeue has returned, with a value or without.
Pulled(p) ==
  /\ At(p, "pulled", IF val[p] = Nil THEN "receive" ELSE "back")
  /\ arg' = [arg EXCEPT ![p] = val[p]]
  /\ UNCHANGED <<list, watch, late, queued, overlap, got>>

\* The value goes into the slot, or to a goroutine that waits to put it there.
PutBack(p) ==
  /\ At(p, "back", "receive")
  /\ IF Free THEN Put(arg[p]) /\ UNCHANGED late
     ELSE late' = [late EXCEPT ![arg[p]] = @ + 1] /\ UNCHANGED watch
  /\ UNCHANGED <<list, arg, queued, overlap, got>>

PutLate(v) ==
  /\ late[v] > 0 /\ Free
  /\ Put(v)
  /\ late' = [late EXCEPT ![v] = @ - 1]
  /\ UNCHANGED <<list, pc, arg, queued, overlap, got>>

\* The caller receives from the channel that DequeueChan has returned.
ReceiveChan(p) ==
  /\ ~Free /\ At(p, "receive", "idle")
  /\ Receive(watch[1]) /\ watch' = << >>
  /\ UNCHANGED <<list, arg, late, queued, overlap>>

-----------------------------------------------------------------------------
\* A step inside the list.  A dequeue that has seen the list empty fails: one
\* that starts over is one that looks later.
InList(p) ==
  /\ List!Inside(p)
  /\ op[p] = "deq" => sawEmpty' # sawEmpty \/ op' # op
  /\ op[p] = "deq" /\ sawEmpty[p] => op' # op
  /\ UNCHANGED <<watch, pc, arg, late, queued, overlap, got>>

Finish(p) == Offer(p) \/ Again(p) \/ Return(p) \/ InList(p)
Take(p) == Dequeue(p) \/ Took(p) \/ InList(p)
Poll(p) ==
  DequeueChan(p) \/ Pull(p) \/ Pulled(p) \/ PutBack(p) \/ ReceiveChan(p) \/ InList(p)

Next ==
  \/ \E p \in Producer : (\E v \in Value : Enqueue(p, v)) \/ Finish(p)
  \/ \E p \in Taker : Take(p)
  \/ \E p \in Poller : Poll(p)
  \/ \E v \in Value : PutLate(v)

Spec == Init /\ [][Next]_vars

\* Goroutines keep running: a producer finishes its call, a consumer calls again.
Fairness ==
  /\ \A p \in Producer : WF_vars(Finish(p))
  /\ \A p \in Taker : WF_vars(Take(p))
  /\ \A p \in Poller : WF_vars(Poll(p))
  /\ \A v \in Value : WF_vars(PutLate(v))

FairSpec == Spec /\ Fairness

-----------------------------------------------------------------------------
Elements(s) == {s[i] : i \in 1..Len(s)}

\* The variables keep their types; the slot holds one value at most.
TypeOK ==
  /\ items \in Seq(Value) /\ size \in Int /\ used \subseteq Value
  /\ op \in [Proc -> {"idle", "enq", "linked", "deq", "taken"}]
  /\ val \in [Proc -> Value \cup {Nil}]
  /\ sawEmpty \in [Proc -> BOOLEAN]
  /\ watch \in Seq(Value) /\ Len(watch) <= 1
  /\ pc \in [Proc -> {"idle", "queued", "offer", "again", "took", "pull", "pulled",
                      "back", "receive"}]
  /\ arg \in [Proc -> Value \cup {Nil}]
  /\ late \in [Value -> Nat]
  /\ queued \subseteq Value /\ got \subseteq Value /\ overlap \in BOOLEAN

\* The value p is carrying from one place to another.
InHand(p) ==
  CASE pc[p] \in {"offer", "back"} -> {arg[p]}
    [] pc[p] \in {"queued", "again"} /\ op[p] = "enq" -> {val[p]}
    [] pc[p] \in {"took", "pulled"} /\ op[p] \in {"idle", "taken"} -> {val[p]}
    [] OTHER -> {}

\* Until it is received a value is in the slot, in the list or on its way.
Somewhere ==
  got \cup Elements(watch) \cup Elements(items)
    \cup {v \in Value : late[v] > 0} \cup UNION {InHand(p) : p \in Proc}

\* No value is lost as long as no two calls of Enqueue overlap, whoever makes them:
\* Enqueue takes a value off the list without looking at it, and it is the value that
\* it has just put into the slot.
NothingLost == ~overlap => queued \subseteq Somewhere

\* Every value is received in the end (TestRead waits for all of them, and ten
\* goroutines of it call Enqueue at the same time).
AllReceived == \A v \in Value : v \in queued ~> v \in got
=============================================================================
