----------------------------- MODULE ChanCluster -----------------------------
(***************************************************************************)
(* The channel cluster (common/chancluster): one channel and one worker    *)
(* goroutine per name, created by the call that needs it, freed when idle, *)
(* and no more of them than an upper limit.  HandleOrRegister, Unregister, *)
(* the workers and Stop run concurrently; a step is one access to shared   *)
(* state.                                                                  *)
(***************************************************************************)
EXTENDS Integers, SequencesExt, FiniteSets

CONSTANTS
  Caller,        \* goroutines that use the cluster
  Name,          \* identities
  Event,         \* events, each handed to the cluster once
  MaxParallel,   \* the upper limit, 0 for none
  Size,          \* capacity of a channel
  MaxUnregister, \* bound: calls of Unregister
  Nil

ASSUME ClusterAssumption ==
  /\ MaxParallel \in Nat /\ Size \in Nat \ {0} /\ MaxUnregister \in Nat
  /\ Nil \notin Event \cup Name /\ Caller \cap Event = {} /\ IsFiniteSet(Event)

\* A controller is known by the event whose call has created it; it is its own
\* worker.
Proc == Caller \cup Event

VARIABLES
  channels,  \* channels[n]: the controller registered for n
  parallel,  \* currentParallel
  queue,     \* queue[c]: what is in the channel of controller c
  open,      \* the controllers whose channel is not closed
  pc,        \* pc[x]: where a caller or a worker is
  ctl,       \* ctl[x]: the controller it works on
  arg,       \* arg[p]: the event caller p brings
  quit,      \* Stop has been called
  target,    \* target[e]: the name event e was handed in for, Nil until then
  dealt,     \* history: the events dealt with
  forced     \* history: calls of Unregister

shared == <<channels, parallel, queue, open>>
history == <<target, dealt, forced>>
vars == <<shared, pc, ctl, arg, quit, history>>

Init ==
  /\ channels = [n \in Name |-> Nil]
  /\ parallel = 0
  /\ queue = [c \in Event |-> << >>] /\ open = {}
  /\ pc = [x \in Proc |-> IF x \in Caller THEN "idle" ELSE "none"]
  /\ ctl = [x \in Proc |-> IF x \in Caller THEN Nil ELSE x]
  /\ arg = [p \in Caller |-> Nil]
  /\ quit = FALSE
  /\ target = [e \in Event |-> Nil] /\ dealt = {} /\ forced = 0

\* close of a closed channel is a panic nobody recovers; it ends the program.
Crashed == \E x \in Proc : pc[x] = "panic"

At(x, from, to) == pc[x] = from /\ ~Crashed /\ pc' = [pc EXCEPT ![x] = to]

Blocked == {p \in Caller : pc[p] = "blocked"}

\* x goes on, and with it a caller that was waiting: it starts over.
AtAndWake(x, from, to, p) ==
  pc[x] = from /\ ~Crashed /\ pc' = [pc EXCEPT ![x] = to, ![p] = "load"]

-----------------------------------------------------------------------------
\* HandleOrRegister and registerOrLoad

Call(p, e, n) ==
  /\ target[e] = Nil
  /\ At(p, "idle", "load")
  /\ target' = [target EXCEPT ![e] = n]
  /\ arg' = [arg EXCEPT ![p] = e]
  /\ UNCHANGED <<shared, ctl, quit, dealt, forced>>

Registered(p) == channels[target[arg[p]]]

Load(p) ==
  /\ \/ At(p, "load", "limit") /\ Registered(p) = Nil /\ UNCHANGED ctl
     \/ /\ At(p, "load", "put") /\ Registered(p) # Nil
        /\ ctl' = [ctl EXCEPT ![p] = Registered(p)]
  /\ UNCHANGED <<shared, arg, quit, history>>

\* At the limit the caller will wait for a worker to end.
Limit(p) ==
  /\ At(p, "limit", IF MaxParallel > 0 /\ parallel + 1 > MaxParallel
                    THEN "block" ELSE "store")
  /\ UNCHANGED <<shared, ctl, arg, quit, history>>

\* this.waitQueue <- struct{}{}, on a channel without a buffer.
Block(p) ==
  /\ At(p, "block", "blocked")
  /\ UNCHANGED <<shared, ctl, arg, quit, history>>

\* LoadOrStore: the loser of a race starts over.
Store(p) ==
  LET e == arg[p] IN
  /\ \/ /\ At(p, "store", "count") /\ Registered(p) = Nil
        /\ channels' = [channels EXCEPT ![target[e]] = e]
        /\ open' = open \cup {e}
        /\ ctl' = [ctl EXCEPT ![p] = e]
     \/ At(p, "store", "load") /\ Registered(p) # Nil /\ UNCHANGED <<channels, open, ctl>>
  /\ UNCHANGED <<parallel, queue, arg, quit, history>>

\* The new controller is counted and its worker started.
Count(p) ==
  /\ pc[p] = "count" /\ ~Crashed
  /\ parallel' = parallel + 1
  /\ pc' = [pc EXCEPT ![p] = "put", ![ctl[p]] = "run"]
  /\ UNCHANGED <<channels, queue, open, ctl, arg, quit, history>>

\* A send to a closed channel panics; the panic is recovered, the event is gone.
Put(p) ==
  LET c == ctl[p] IN
  /\ At(p, "put", "idle")
  /\ \/ /\ c \in open /\ Len(queue[c]) < Size
        /\ queue' = [queue EXCEPT ![c] = Append(@, arg[p])]
     \/ c \notin open /\ UNCHANGED queue
  /\ ctl' = [ctl EXCEPT ![p] = Nil] /\ arg' = [arg EXCEPT ![p] = Nil]
  /\ UNCHANGED <<channels, parallel, open, quit, history>>

Calls(p) == Load(p) \/ Limit(p) \/ Block(p) \/ Store(p) \/ Count(p) \/ Put(p)

-----------------------------------------------------------------------------
\* The worker of a controller that is freed when idle

\* An event is taken from the channel and dealt with.
Deal(c) ==
  /\ queue[c] # << >>
  /\ dealt' = dealt \cup {Head(queue[c])}
  /\ queue' = [queue EXCEPT ![c] = Tail(@)]

Work(c) ==
  /\ \/ At(c, "run", "run") \/ At(c, "wait", "run")
  /\ Deal(c)
  /\ UNCHANGED <<channels, parallel, open, ctl, arg, quit, target, forced>>

\* Nothing to do.  (The length of waitQueue, which has no buffer, is always 0.)
Idle(c) ==
  /\ queue[c] = << >> /\ c \in open /\ ~quit
  /\ At(c, "run", "wait")
  /\ UNCHANGED <<shared, ctl, arg, quit, history>>

\* The worker ends: its channel is closed, the cluster stops, or after a delay.
End(c) ==
  /\ \/ At(c, "run", "uncount") /\ (quit \/ (c \notin open /\ queue[c] = << >>))
     \/ At(c, "wait", "uncount")
  /\ UNCHANGED <<shared, ctl, arg, quit, history>>

\* The worker ends for a caller that waits.
GiveWay(c) ==
  /\ \E p \in Blocked : AtAndWake(c, "wait", "uncount", p)
  /\ UNCHANGED <<shared, ctl, arg, quit, history>>

-----------------------------------------------------------------------------
\* stop, called by the worker at its end and by Unregister

\* Mutant: the slot is not given back.
UncountNot(x) ==
  /\ At(x, "uncount", "delete")
  /\ UNCHANGED <<shared, ctl, arg, quit, history>>

Uncount(x) ==
  /\ At(x, "uncount", "delete")
  /\ parallel' = parallel - 1
  /\ UNCHANGED <<channels, queue, open, ctl, arg, quit, history>>

Delete(x) ==
  /\ At(x, "delete", "wake")
  /\ channels' = [channels EXCEPT ![target[ctl[x]]] = Nil]
  /\ UNCHANGED <<parallel, queue, open, ctl, arg, quit, history>>

\* Mutant: nobody is let in.
WakeNobody(x) ==
  /\ At(x, "wake", "drain")
  /\ UNCHANGED <<shared, ctl, arg, quit, history>>

\* One waiting caller is let in, if there is one now.
Wake(x) ==
  /\ IF Blocked = {} THEN At(x, "wake", "drain")
     ELSE \E p \in Blocked : AtAndWake(x, "wake", "drain", p)
  /\ UNCHANGED <<shared, ctl, arg, quit, history>>

\* Mutant: the channel is closed as it is.
DrainNot(x) ==
  /\ At(x, "drain", IF ctl[x] \in open THEN "close" ELSE "stopped")
  /\ UNCHANGED <<queue, dealt>>
  /\ UNCHANGED <<channels, parallel, open, ctl, arg, quit, target, forced>>

\* What is left in the channel is dealt with.
Drain(x) ==
  LET c == ctl[x] IN
  /\ \/ At(x, "drain", "drain") /\ Deal(c)
     \/ /\ At(x, "drain", IF c \in open THEN "close" ELSE "stopped")
        /\ queue[c] = << >> /\ UNCHANGED <<queue, dealt>>
  /\ UNCHANGED <<channels, parallel, open, ctl, arg, quit, target, forced>>

Close(x) ==
  /\ At(x, "close", IF ctl[x] \in open THEN "stopped" ELSE "panic")
  /\ open' = open \ {ctl[x]}
  /\ UNCHANGED <<channels, parallel, queue, ctl, arg, quit, history>>

Stopping(x) == Uncount(x) \/ Delete(x) \/ Wake(x) \/ Drain(x) \/ Close(x)
Worker(c) == Work(c) \/ Idle(c) \/ End(c) \/ GiveWay(c) \/ Stopping(c)

\* Unregister: stop the controller of a name and delete the name once more.
Unregister(p, n) ==
  /\ forced < MaxUnregister
  /\ channels[n] # Nil
  /\ At(p, "idle", "uncount")
  /\ ctl' = [ctl EXCEPT ![p] = channels[n]]
  /\ forced' = forced + 1
  /\ UNCHANGED <<shared, arg, quit, target, dealt>>

DeleteAgain(p) ==
  /\ At(p, "stopped", "idle")
  /\ channels' = [channels EXCEPT ![target[ctl[p]]] = Nil]
  /\ ctl' = [ctl EXCEPT ![p] = Nil]
  /\ UNCHANGED <<parallel, queue, open, arg, quit, history>>

\* Stop: every worker is told to end.
Stop ==
  /\ ~Crashed /\ ~quit /\ quit' = TRUE
  /\ UNCHANGED <<shared, pc, ctl, arg, history>>

-----------------------------------------------------------------------------
Next ==
  \/ \E p \in Caller :
       \/ \E n \in Name : Unregister(p, n) \/ \E e \in Event : Call(p, e, n)
       \/ Calls(p) \/ Stopping(p) \/ DeleteAgain(p)
  \/ \E c \in Event : Worker(c)
  \/ Stop

Spec == Init /\ [][Next]_vars

\* Goroutines keep running, and the timer of an idle worker runs down.
FairSpec ==
  /\ Spec
  /\ \A p \in Caller : WF_vars(Calls(p) \/ Stopping(p) \/ DeleteAgain(p))
  /\ \A c \in Event : WF_vars(Worker(c))

-----------------------------------------------------------------------------
\* The variables keep their types; no channel holds more than its size.
TypeOK ==
  /\ channels \in [Name -> Event \cup {Nil}]
  /\ parallel \in Int
  /\ queue \in [Event -> Seq(Event)] /\ \A c \in Event : Len(queue[c]) <= Size
  /\ open \subseteq Event
  /\ pc \in [Proc -> {"idle", "none", "load", "limit", "block", "blocked", "store", "count",
                      "put", "run", "wait", "uncount", "delete", "wake", "drain", "close",
                      "stopped", "panic"}]
  /\ ctl \in [Proc -> Event \cup {Nil}]
  /\ arg \in [Caller -> Event \cup {Nil}]
  /\ quit \in BOOLEAN /\ forced \in Nat
  /\ target \in [Event -> Name \cup {Nil}] /\ dealt \subseteq Event

Live == {c \in Event : pc[c] \in {"run", "wait"}}

AtRest ==
  /\ \A p \in Caller : pc[p] \in {"idle", "load", "limit", "block", "blocked"}
  /\ \A c \in Event : pc[c] \in {"none", "run", "wait", "stopped"}

\* currentParallel leaks no slot: while nobody creates or stops a controller it
\* counts no more workers than there are, so that a caller does not wait at the
\* limit for one that is gone.  Unregister takes a controller off the count twice.
NoSlotLost == AtRest => parallel <= Cardinality(Live)

\* Whatever is put into a channel while it is registered is dealt with, also when
\* the worker has decided to end: stop empties the channel after it has taken the
\* channel off the cluster.
KeptIsDealt ==
  \A e \in Event :
    (\E n \in Name : channels[n] # Nil /\ e \in Range(queue[channels[n]]))
      ~> e \in dealt \/ Crashed

\* A caller that waits at the limit is let in as long as there is a worker: one that
\* is idle gives way, one that ends lets a caller in.
WokenUp ==
  \A p \in Caller :
    pc[p] = "blocked" /\ (\E c \in Event : pc[c] \in {"run", "wait", "uncount", "delete", "wake"})
      ~> pc[p] # "blocked" \/ Crashed

\* The wait in Stop for all workers to end is over some time.
StopEnds == quit ~> parallel <= 0 \/ Crashed

\* Every event handed to the cluster is dealt with until the cluster stops
\* (TestUpperLimit waits for all of its 200).
AllDealt == \A e \in Event : target[e] # Nil ~> e \in dealt \/ quit \/ Crashed
=============================================================================
