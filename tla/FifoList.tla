------------------------------ MODULE FifoList ------------------------------
(***************************************************************************)
(* What the linked list of common/sync/lfreequeue promises its callers: a  *)
(* value is put at the end in one step and taken from the front in one     *)
(* step; the counter behind seq() follows in a step of its own; a dequeue  *)
(* fails only if the list was empty at some time during the call.          *)
(***************************************************************************)
EXTENDS Integers, Sequences

CONSTANTS
  Proc,   \* goroutines
  Value,  \* values, each enqueued at most once
  Nil     \* no value

VARIABLES
  items,    \* the values in the list
  size,     \* the counter
  op,       \* op[p]: where p is in its call
  val,      \* val[p]: the value p puts or has taken, Nil after a failed dequeue
  sawEmpty, \* sawEmpty[p]: p's dequeue has seen the list empty
  used      \* history: the values enqueued so far

vars == <<items, size, op, val, sawEmpty, used>>

Init ==
  /\ items = << >>
  /\ size = 0
  /\ op = [p \in Proc |-> "idle"]
  /\ val = [p \in Proc |-> Nil]
  /\ sawEmpty = [p \in Proc |-> FALSE]
  /\ used = {}

Goto(p, o) == op' = [op EXCEPT ![p] = o]

\* enqueue(v) is called.
StartEnq(p, v) ==
  /\ op[p] = "idle"
  /\ v \notin used
  /\ Goto(p, "enq")
  /\ val' = [val EXCEPT ![p] = v]
  /\ used' = used \cup {v}
  /\ UNCHANGED <<items, size, sawEmpty>>

Link(p) ==
  /\ op[p] = "enq"
  /\ items' = Append(items, val[p])
  /\ Goto(p, "linked")
  /\ UNCHANGED <<size, val, sawEmpty, used>>

\* The new value is counted and the call returns.
CountUp(p) ==
  /\ op[p] = "linked"
  /\ size' = size + 1
  /\ Goto(p, "idle")
  /\ UNCHANGED <<items, val, sawEmpty, used>>

\* dequeue() is called.
StartDeq(p) ==
  /\ op[p] = "idle"
  /\ Goto(p, "deq")
  /\ UNCHANGED <<items, size, val, sawEmpty, used>>

\* The list is seen to be empty, or the call starts over.
Look(p, empty) ==
  /\ op[p] = "deq"
  /\ empty => items = << >>
  /\ sawEmpty' = [sawEmpty EXCEPT ![p] = empty]
  /\ UNCHANGED <<items, size, op, val, used>>

Take(p) ==
  /\ op[p] = "deq"
  /\ ~sawEmpty[p]
  /\ items # << >>
  /\ items' = Tail(items)
  /\ val' = [val EXCEPT ![p] = Head(items)]
  /\ Goto(p, "taken")
  /\ UNCHANGED <<size, sawEmpty, used>>

\* The taken value is counted off and the call returns it.
CountDown(p) ==
  /\ op[p] = "taken"
  /\ size' = size - 1
  /\ Goto(p, "idle")
  /\ UNCHANGED <<items, val, sawEmpty, used>>

\* dequeue returns false.
Fail(p) ==
  /\ op[p] = "deq"
  /\ sawEmpty[p]
  /\ val' = [val EXCEPT ![p] = Nil]
  /\ Goto(p, "idle")
  /\ sawEmpty' = [sawEmpty EXCEPT ![p] = FALSE]
  /\ UNCHANGED <<items, size, used>>

\* What goes on inside a call of p.
Inside(p) ==
  \/ Link(p) \/ CountUp(p)
  \/ (\E empty \in BOOLEAN : Look(p, empty)) \/ Take(p) \/ CountDown(p) \/ Fail(p)

Next ==
  \E p \in Proc :
    \/ \E v \in Value : StartEnq(p, v)
    \/ StartDeq(p)
    \/ Inside(p)

Spec == Init /\ [][Next]_vars
=============================================================================
