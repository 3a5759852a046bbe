---------------------------- MODULE ReplaceVote ----------------------------
(***************************************************************************)
(* The vote that ends the replacement of a witness group                   *)
(* (witness/service/rwit).                                                 *)
(*                                                                         *)
(* A chain whose witnesses do not work asks the system contract for new    *)
(* ones.  The system contract marks the chain, and the system witnesses    *)
(* have to agree which unit of the chain was its last.  Every one of them  *)
(* runs a Worker that reads the marks from the system chain, keeps them in *)
(* a store that survives a restart, takes some into memory, votes for the  *)
(* unit at its own tail of the chain and collects equal votes.  Whoever    *)
(* packs a unit of the system chain puts the chains with enough votes into *)
(* a transaction that ends the replacement.                                *)
(*                                                                         *)
(* The system chain is what the contract recorded of the replacements:     *)
(* one sequence of logs per unit.  A request is known by the number of its *)
(* unit, which stands for SysUnitHash as well; a unit of a user chain is   *)
(* known by its height.                                                    *)
(***************************************************************************)
EXTENDS DataSet

CONSTANTS
    Witness,        \* the system witnesses
    Live,           \* those that are ever there
    SCMin,          \* params.GetChainMinVoting(SCAccount)
    MaxPending,     \* maxPending of worker.go
    SleepNumbers,   \* defSleepNumbers of worker.go
    ReplaceWait,    \* system units until a chain may ask again
    Loads           \* bounds of a behaviour, see Init

ASSUME VoteConstants ==
    /\ Live \subseteq Witness
    /\ SCMin \in 1..Cardinality(Witness)
    /\ MaxPending \in Nat /\ SleepNumbers \in Nat /\ ReplaceWait \in Nat

VARIABLES
    load,       \* the bounds of this behaviour
    sys,        \* the system chain
    unit,       \* the height of each user chain
    sysTail,    \* how much of the system chain a node has stored
    userTail,   \* how much of each user chain a node has stored
    mode,       \* where the goroutine of Worker.listen is
    events,     \* eventc
    mem,        \* store, haveJob and dataSet of the Worker
    net,        \* messages on their way
    stops,      \* how often a worker has ended
    joined,     \* history: sysTail when the worker loaded or subscribed
    torn        \* history: the witnesses whose store a crash left in pieces

vars == <<load, sys, unit, sysTail, userTail, mode, events, mem, net, stops, joined, torn>>

(***************************************************************************)
(* The state of the contract as of a unit of the system chain.             *)
(***************************************************************************)
Logged(k, c) == {i \in DOMAIN sys[k] : sys[k][i].chain = c}

GetChainStatus(n, c) ==
    LET at == {k \in 1..n : Logged(k, c) # {}}
    IN  IF at = {} THEN [status |-> "normal", number |-> 0]
        ELSE LET k == Max(at)
             IN  [status |-> sys[k][Max(Logged(k, c))].status, number |-> k]

Underway(n, c) == GetChainStatus(n, c).status = "underway"

(***************************************************************************)
(* The store, haveJob and dataSet of one worker, as a record m; puts are   *)
(* what its handler has written to the store so far.                       *)
(***************************************************************************)
NoJob == [job |-> 0, vote |-> -1, signs |-> {}]
NoVote == -1

NewWorker(store) ==
    [store |-> store, haveJob |-> TRUE, data |-> [c \in Chain |-> NoJob], puts |-> <<>>]

Write(m, puts) == [m EXCEPT !.store = PutAll(@, puts), !.puts = @ \o puts]

Working(m, c) == m.data[c] # NoJob

Pending(m) == Cardinality({c \in Chain : Working(m, c)})

(* PendingChainSet.Add: an entry as new as this one is left alone. *)
StoreAdd(m, c, number) ==
    IF m.store.num[c] >= number THEN m ELSE Write(m, AddWithValue(m.store, c, number))

CanAddJob(m, tail, number) ==
    Pending(m) <= MaxPending /\ tail - number >= SleepNumbers

(* Replace forgets the vote and the signatures of an earlier job. *)
TryAddJob(m, tail, c, number) ==
    IF CanAddJob(m, tail, number)
    THEN [m EXCEPT !.data[c] = [job |-> number, vote |-> NoVote, signs |-> {}]]
    ELSE m

RemoveChain(m, c) == [Write(m, RemoveKey(m.store, c)) EXCEPT !.data[c] = NoJob]

(* Mutated: the old entry of the chain is left where it is. *)
HandleNewChainKept(m, tail, c, number) ==
    TryAddJob([StoreAdd(m, c, number) EXCEPT !.haveJob = TRUE], tail, c, number)

HandleNewChain(m, tail, c, number) ==
    TryAddJob([StoreAdd(RemoveChain(m, c), c, number) EXCEPT !.haveJob = TRUE],
              tail, c, number)

(***************************************************************************)
(* One turn of the loop in loadNewJob; s.more tells whether Range goes on: *)
(* it ends at an empty key, at a key without a value and when its callback *)
(* returns false, as for the first chain that is in memory already.  With  *)
(* update, a chain whose replacement is over is removed, and the last of   *)
(* the store takes its place unseen; a newer request replaces the old one  *)
(* in the store, and yet the old one is tried afterwards.                  *)
(***************************************************************************)
LoadOne(s, i, tail, update) ==
    LET c == s.m.store.slot[i]
        number == s.m.store.num[c]
        now == GetChainStatus(tail, c)
        m == [s.m EXCEPT !.haveJob = TRUE]
        fresh == IF update /\ now.number > number
                 THEN HandleNewChain(m, tail, c, now.number) ELSE m
    IN  IF ~s.more \/ c = NoChain \/ number = 0 THEN [s EXCEPT !.more = FALSE]
        ELSE IF Working(m, c) THEN [m |-> m, more |-> FALSE]
        ELSE IF update /\ now.status = "normal"
        THEN [m |-> RemoveChain(m, c), more |-> TRUE]
        ELSE [m    |-> TryAddJob(fresh, tail, c, number),
              more |-> CanAddJob(fresh, tail, number)]

LoadNewJob(m, tail, update) ==
    IF ~m.haveJob \/ Pending(m) > MaxPending THEN m
    ELSE FoldLeft(LAMBDA s, i : LoadOne(s, i, tail, update),
                  [m |-> [m EXCEPT !.haveJob = FALSE], more |-> TRUE],
                  [i \in 1..m.store.len |-> i - 1]).m

HandleChainDone(m, tail, c) == LoadNewJob(RemoveChain(m, c), tail, FALSE)

(* Mutated: a new unit of a user chain leaves the job as it is. *)
HandleChainEventSys(m, tail, ev) ==
    IF ev.chain # "sys" THEN m
    ELSE IF sys[ev.number] = <<>> THEN LoadNewJob(m, tail, FALSE)
    ELSE FoldLeft(LAMBDA r, l : IF l.status = "normal"
                                THEN HandleChainDone(r, tail, l.chain)
                                ELSE HandleNewChain(r, tail, l.chain, ev.number),
                  m, sys[ev.number])

(* A new unit of a user chain only takes the chain out of memory. *)
HandleChainEvent(m, tail, ev) ==
    IF ev.chain # "sys" THEN [m EXCEPT !.data[ev.chain] = NoJob]
    ELSE IF sys[ev.number] = <<>> THEN LoadNewJob(m, tail, FALSE)
    ELSE FoldLeft(LAMBDA r, l : IF l.status = "normal"
                                THEN HandleChainDone(r, tail, l.chain)
                                ELSE HandleNewChain(r, tail, l.chain, ev.number),
                  m, sys[ev.number])

(***************************************************************************)
(* Votes                                                                   *)
(***************************************************************************)
VoteEnough(d) == Cardinality(d.signs) >= SCMin

(* A signature can be checked against what was signed, and tells who did. *)
Signature(w, job, vote) == [by |-> w, job |-> job, vote |-> vote]

Voters(d) == {s.by : s \in d.signs}

(* getOrCreateMyChoose: the vote made before, or one for the tail. *)
MyChoose(w, d, c) ==
    IF d.vote # NoVote THEN d
    ELSE [d EXCEPT !.vote = userTail[w][c],
                   !.signs = {Signature(w, d.job, userTail[w][c])}]

VoteTo(w, to, c, d) == [kind |-> "vote", from |-> w, to |-> to,
                        chain |-> c, job |-> d.job, vote |-> d.vote]

ReqTo(w, to, c) == [kind |-> "req", from |-> w, to |-> to,
                    chain |-> c, job |-> 0, vote |-> NoVote]

(* Mutated: nobody is ever asked for a vote. *)
GossipOnce(w, c, old, ask) ==
    LET d == MyChoose(w, old, c)
    IN  IF ~VoteEnough(d) /\ old.vote = NoVote
        THEN {VoteTo(w, v, c, d) : v \in Live \ {w}} ELSE {}

(* What doMyChoose sends: a new vote, or one whose unit is no longer the   *)
(* tail, goes to everyone; with an old one that has waited long enough,    *)
(* those whose votes are missing are asked for them.                       *)
Gossip(w, c, old, ask) ==
    LET d == MyChoose(w, old, c)
    IN  IF VoteEnough(d) THEN {}
        ELSE IF old.vote = NoVote \/ d.vote # userTail[w][c]
        THEN {VoteTo(w, v, c, d) : v \in Live \ {w}}
        ELSE IF ask THEN {ReqTo(w, v, c) : v \in Live \ (Voters(d) \cup {w})}
        ELSE {}

(***************************************************************************)
(* Initially every worker of Live runs and nothing has been asked for.     *)
(* The load bounds the behaviour: the system chain no node has seen yet,   *)
(* which chain may ask in which unit of it, the heights that user chains   *)
(* grow to, how many stops there may have been when a witness stops,       *)
(* whether messages get lost, and the last unit of the system chain that   *)
(* need not end a replacement.                                             *)
(***************************************************************************)
Init ==
    /\ load \in Loads
    /\ sys = load.sys
    /\ unit = [c \in Chain |-> 0]
    /\ sysTail = [w \in Witness |-> 0]
    /\ userTail = [w \in Witness |-> [c \in Chain |-> 0]]
    /\ mode = [w \in Witness |-> IF w \in Live THEN "on" ELSE "never"]
    /\ events = [w \in Witness |-> <<>>]
    /\ mem = [w \in Witness |-> [NewWorker(EmptySet) EXCEPT !.haveJob = FALSE]]
    /\ net = {}
    /\ stops = 0
    /\ joined = [w \in Witness |-> 0]
    /\ torn = {}

(***************************************************************************)
(* The chains                                                              *)
(***************************************************************************)
(* A unit of the system chain that ends no replacement: heartbeats. *)
Heartbeat ==
    /\ Len(sys) < load.lastPlain
    /\ sys' = Append(sys, <<>>)
    /\ UNCHANGED <<load, unit, sysTail, userTail, mode, events, mem, net, stops, joined, torn>>

(* ReplaceWitness of the contract: a chain asks, or asks again. *)
Request(c) ==
    /\ <<c, Len(sys) + 1>> \in load.asks
    /\ LET now == GetChainStatus(Len(sys), c)
       IN  now.status = "underway" => Len(sys) + 1 - now.number > ReplaceWait
    /\ sys' = Append(sys, <<[chain |-> c, status |-> "underway"]>>)
    /\ UNCHANGED <<load, unit, sysTail, userTail, mode, events, mem, net, stops, joined, torn>>

(* The old witnesses still finish a unit. *)
Extend(c) ==
    /\ unit[c] < load.height[c]
    /\ unit' = [unit EXCEPT ![c] = @ + 1]
    /\ UNCHANGED <<load, sys, sysTail, userTail, mode, events, mem, net, stops, joined, torn>>

(* Mutated: the subscription outlives the worker. *)
NotifyAlways(w, ev) == events' = [events EXCEPT ![w] = Append(@, ev)]

(* Only a worker that has subscribed is told. *)
Notify(w, ev) ==
    events' = IF mode[w] \in {"on", "stopping"}
              THEN [events EXCEPT ![w] = Append(@, ev)] ELSE events

SyncSys(w) ==
    /\ w \in Live /\ sysTail[w] < Len(sys)
    /\ sysTail' = [sysTail EXCEPT ![w] = @ + 1]
    /\ Notify(w, [chain |-> "sys", number |-> sysTail[w] + 1])
    /\ UNCHANGED <<load, sys, unit, userTail, mode, mem, net, stops, joined, torn>>

SyncUser(w, c) ==
    /\ w \in Live /\ userTail[w][c] < unit[c]
    /\ userTail' = [userTail EXCEPT ![w][c] = @ + 1]
    /\ Notify(w, [chain |-> c, number |-> userTail[w][c] + 1])
    /\ UNCHANGED <<load, sys, unit, sysTail, mode, mem, net, stops, joined, torn>>

(***************************************************************************)
(* The worker's loop                                                       *)
(***************************************************************************)
(* After Stop the select may still choose another case than quite. *)
Looping(w) == mode[w] \in {"on", "stopping"}

Ended(m) == [m EXCEPT !.puts = <<>>]

TakeEvent(w) ==
    /\ Looping(w) /\ events[w] # <<>>
    /\ events' = [events EXCEPT ![w] = Tail(@)]
    /\ UNCHANGED <<sys, sysTail, userTail, mode>>

HandleEvent(w) ==
    /\ TakeEvent(w)
    /\ mem' = [mem EXCEPT ![w] =
                    Ended(HandleChainEvent(@, sysTail[w], Head(events[w])))]
    /\ UNCHANGED <<load, unit, net, stops, joined, torn>>

(* A chain that was put into memory comes out of pended.  The channel only *)
(* wakes the worker, so that it is not part of the state.                  *)
TakePended(w, c) ==
    /\ Looping(w) /\ Working(mem[w], c)
    /\ mem' = [mem EXCEPT ![w].data[c] = MyChoose(w, @, c)]
    /\ net' = net \cup Gossip(w, c, mem[w].data[c], FALSE)
    /\ UNCHANGED <<load, sys, unit, sysTail, userTail, mode, events, stops, joined, torn>>

(* The ticker: ask tells whether the votes are old enough to ask again. *)
CheckVoted(w, ask) ==
    LET m == mem[w]
        cs == {c \in Chain : Working(m, c)}
        chosen == [m EXCEPT !.data = [c \in Chain |-> IF c \in cs
                                        THEN MyChoose(w, m.data[c], c) ELSE NoJob]]
    IN  /\ Looping(w)
        /\ mem' = [mem EXCEPT ![w] = LoadNewJob(chosen, sysTail[w], FALSE)]
        /\ net' = net \cup UNION {Gossip(w, c, m.data[c], ask) : c \in cs}
        /\ UNCHANGED <<load, sys, unit, sysTail, userTail, mode, events, stops, joined, torn>>

(***************************************************************************)
(* Messages are handled beside the loop, from New to Stop.                 *)
(***************************************************************************)
Serving(w) == mode[w] \in {"loaded", "on"}

(* Mutated: the vote need not be for the unit this witness voted for. *)
AddVoteAny(d, v) ==
    IF d.job = v.job /\ d.vote # NoVote /\ v.from \notin Voters(d)
    THEN [d EXCEPT !.signs = @ \cup {Signature(v.from, v.job, v.vote)}] ELSE d

(* AddVote: the hash covers the request and the unit. *)
AddVote(d, v) ==
    IF d.job = v.job /\ d.vote = v.vote /\ v.from \notin Voters(d)
    THEN [d EXCEPT !.signs = @ \cup {Signature(v.from, v.job, v.vote)}] ELSE d

ReceiveVote(w, v) ==
    /\ v \in net /\ v.kind = "vote" /\ v.to = w /\ Serving(w)
    /\ net' = net \ {v}
    /\ mem' = [mem EXCEPT ![w].data[v.chain] =
                    IF Working(mem[w], v.chain) THEN AddVote(@, v) ELSE @]
    /\ UNCHANGED <<load, sys, unit, sysTail, userTail, mode, events, stops, joined, torn>>

ReceiveReq(w, q) ==
    LET d == MyChoose(w, mem[w].data[q.chain], q.chain)
    IN  /\ q \in net /\ q.kind = "req" /\ q.to = w /\ Serving(w)
        /\ IF Working(mem[w], q.chain)
           THEN /\ mem' = [mem EXCEPT ![w].data[q.chain] = d]
                /\ net' = (net \ {q}) \cup {VoteTo(w, q.from, q.chain, d)}
           ELSE net' = net \ {q} /\ UNCHANGED mem
        /\ UNCHANGED <<load, sys, unit, sysTail, userTail, mode, events, stops, joined, torn>>

Lose(m) ==
    /\ m \in net /\ load.lossy
    /\ net' = net \ {m}
    /\ UNCHANGED <<load, sys, unit, sysTail, userTail, mode, events, mem, stops, joined, torn>>

(***************************************************************************)
(* The witness that packs the next unit of the system chain puts the       *)
(* chains with enough votes into one transaction.  The contract takes all  *)
(* of them or, if one is not underway with that request or a signature is  *)
(* for another vote, none.                                                 *)
(***************************************************************************)
Ready(w) == {c \in Chain : Working(mem[w], c) /\ VoteEnough(mem[w].data[c])}

Accepted(w, c) ==
    LET d == mem[w].data[c]
    IN  /\ GetChainStatus(Len(sys), c) = [status |-> "underway", number |-> d.job]
        /\ \A s \in d.signs : s = Signature(s.by, d.job, d.vote)

GenerateTxs(w) ==
    LET cs == SetToSeq(Ready(w))
        good == \A c \in Ready(w) : Accepted(w, c)
    IN  /\ Serving(w) /\ sysTail[w] = Len(sys) /\ cs # <<>>
        /\ Len(sys) < load.lastPlain \/ good
        /\ sys' = Append(sys, IF good
                              THEN [i \in DOMAIN cs |-> [chain |-> cs[i], status |-> "normal"]]
                              ELSE <<>>)
        /\ UNCHANGED <<load, unit, sysTail, userTail, mode, events, mem, net, stops, joined, torn>>

(***************************************************************************)
(* Restarts                                                                *)
(***************************************************************************)
(* Start: the store is loaded with update, before the worker subscribes. *)
Start(w) ==
    /\ mode[w] = "off"
    /\ mode' = [mode EXCEPT ![w] = "loaded"]
    /\ UNCHANGED <<sys, sysTail, userTail, events>>

Load(w) ==
    /\ Start(w)
    /\ mem' = [mem EXCEPT ![w] = Ended(LoadNewJob(@, sysTail[w], TRUE))]
    /\ joined' = [joined EXCEPT ![w] = sysTail[w]]
    /\ UNCHANGED <<load, unit, net, stops, torn>>

Subscribe(w) ==
    /\ mode[w] = "loaded"
    /\ mode' = [mode EXCEPT ![w] = "on"]
    /\ joined' = [joined EXCEPT ![w] = sysTail[w]]
    /\ UNCHANGED <<load, sys, unit, sysTail, userTail, events, mem, net, stops, torn>>

(* Stop: the loop still takes the events that wait, then it returns. *)
Stop(w) ==
    /\ mode[w] = "on" /\ stops < load.stops[w]
    /\ mode' = [mode EXCEPT ![w] = "stopping"]
    /\ stops' = stops + 1
    /\ UNCHANGED <<load, sys, unit, sysTail, userTail, events, mem, net, joined, torn>>

Return(w) ==
    /\ mode[w] = "stopping" /\ events[w] = <<>>
    /\ mode' = [mode EXCEPT ![w] = "off"]
    /\ mem' = [mem EXCEPT ![w] = NewWorker(@.store)]
    /\ UNCHANGED <<load, sys, unit, sysTail, userTail, events, net, stops, joined, torn>>

(* What the handler that may be running writes to the store. *)
Writing(w) ==
    LET m == mem[w]
    IN  IF mode[w] = "off" THEN LoadNewJob(m, sysTail[w], TRUE).puts
        ELSE IF Looping(w) /\ events[w] # <<>>
        THEN HandleChainEvent(m, sysTail[w], Head(events[w])).puts
        ELSE <<>>

(* The process ends at any point, also between two Puts. *)
Crash(w) ==
    /\ mode[w] # "never" /\ stops < load.stops[w]
    /\ mode' = [mode EXCEPT ![w] = "off"]
    /\ stops' = stops + 1
    /\ events' = [events EXCEPT ![w] = <<>>]
    /\ \E n \in 0..Len(Writing(w)) :
        LET store == PutAll(mem[w].store, SubSeq(Writing(w), 1, n))
        IN  /\ mem' = [mem EXCEPT ![w] = NewWorker(store)]
            /\ torn' = IF Whole(store) THEN torn ELSE torn \cup {w}
    /\ UNCHANGED <<load, sys, unit, sysTail, userTail, net, joined>>

Next ==
    \/ Heartbeat
    \/ \E c \in Chain : Request(c)
    \/ \E c \in Chain : Extend(c)
    \/ \E w \in Witness : SyncSys(w)
    \/ \E w \in Witness, c \in Chain : SyncUser(w, c)
    \/ \E w \in Witness : HandleEvent(w)
    \/ \E w \in Witness, c \in Chain : TakePended(w, c)
    \/ \E w \in Witness, ask \in BOOLEAN : CheckVoted(w, ask)
    \/ \E v \in net : ReceiveVote(v.to, v)
    \/ \E q \in net : ReceiveReq(q.to, q)
    \/ \E m \in net : Lose(m)
    \/ \E w \in Witness : GenerateTxs(w)
    \/ \E w \in Witness : Load(w)
    \/ \E w \in Witness : Subscribe(w)
    \/ \E w \in Witness : Stop(w)
    \/ \E w \in Witness : Return(w)
    \/ \E w \in Witness : Crash(w)

(***************************************************************************)
(* The system chain goes on while its witnesses are up (every unit of      *)
(* theirs carries a heartbeat), nodes catch up, a worker's loop is served  *)
(* and ends its start and its stop.  There are finitely many such steps    *)
(* within the bounds, so that weak fairness of their disjunction gets all  *)
(* of them done.  (Where a worker's loop is and what waits for it decide   *)
(* whether it can go on, whatever its handlers do to its memory.)  The     *)
(* ticker of a worker goes on ticking, and a message that is sent again    *)
(* and again gets through to a witness that is there.  Nobody has to ask,  *)
(* to stop or to crash.                                                    *)
(***************************************************************************)
Advance ==
    \/ Heartbeat
    \/ \E w \in Witness :
        \/ SyncSys(w) \/ TakeEvent(w) \/ GenerateTxs(w)
        \/ Start(w) \/ Subscribe(w) \/ Return(w)
        \/ \E c \in Chain : SyncUser(w, c)

Fairness ==
    /\ WF_<<sys, sysTail, userTail, mode, events>>(Advance)
    /\ \A w \in Live :
        /\ WF_vars(CheckVoted(w, TRUE))
        /\ \A v \in Live \ {w} :
            /\ SF_vars(\E m \in net : m.from = v /\ ReceiveVote(w, m))
            /\ SF_vars(\E m \in net : m.from = v /\ ReceiveReq(w, m))

Spec == Init /\ [][Next]_vars /\ Fairness

(***************************************************************************)
(* Properties                                                              *)
(***************************************************************************)
Job == [job : 0..Len(sys), vote : {NoVote} \cup Nat,
        signs : SUBSET [by : Witness, job : 1..Len(sys), vote : Nat]]

(* The chains, the workers' data and the messages have their types; a      *)
(* worker waits with an empty channel unless it has subscribed.            *)
TypeOK ==
    /\ \A w \in Witness :
        /\ sysTail[w] \in 0..Len(sys) /\ joined[w] \in 0..sysTail[w]
        /\ \A c \in Chain : userTail[w][c] \in 0..unit[c] /\ mem[w].data[c] \in Job
        /\ mem[w].haveJob \in BOOLEAN
        /\ mem[w].store.len \in 0..(MaxSlot + 1) /\ mem[w].puts = <<>>
        /\ \A c \in Key : /\ mem[w].store.at[c] \in 0..(MaxSlot + 1)
                          /\ mem[w].store.num[c] \in 0..Len(sys)
        /\ mode[w] \in {"never", "off", "loaded", "on", "stopping"}
        /\ mode[w] \in {"never", "off", "loaded"} => events[w] = <<>>
    /\ net \subseteq [kind : {"vote", "req"}, from : Witness, to : Witness,
                      chain : Chain, job : 0..Len(sys), vote : {NoVote} \cup Nat]

(* The signatures a worker has for its vote are of distinct witnesses and  *)
(* cover exactly this vote: none is left of an earlier request, of an      *)
(* earlier tail of the chain or of a witness with another tail (Replace,   *)
(* ResetMyVote, AddVote).                                                  *)
VotesAgree ==
    \A w \in Witness, c \in Chain :
        LET d == mem[w].data[c]
        IN  /\ Cardinality(Voters(d)) = Cardinality(d.signs)
            /\ \A s \in d.signs : s.job = d.job /\ s.vote = d.vote

(* The units of the system chain whose events the worker has handled. *)
Handled(w) == sysTail[w] - Len(SelectSeq(events[w], LAMBDA e : e.chain = "sys"))

(* What a worker stores and works on is what the contract said in the last *)
(* unit whose event the worker has handled: one entry per chain underway,  *)
(* with the newest request, and no job for any other request.  It holds    *)
(* for every request and every result that came after the worker had       *)
(* subscribed (handleChainEvent, loadNewJob, remove), unless a crash came  *)
(* between two Puts of one change of the store (AddWithValue,              *)
(* RemoveByIndex): all other crashes leave a whole store.  A worker that   *)
(* has just loaded its store, in pieces or not, works on no replacement    *)
(* that was over by then.                                                  *)
InStep ==
    \A w \in Witness, c \in Chain :
        LET m == mem[w]
            now == GetChainStatus(Handled(w), c)
        IN  /\ w \notin torn => Whole(m.store)
            /\ w \notin torn /\ mode[w] = "on" /\ joined[w] < now.number =>
                /\ m.store.num[c] = (IF now.status = "underway" THEN now.number ELSE 0)
                /\ Working(m, c) => m.data[c].job = m.store.num[c]
            /\ mode[w] = "loaded" /\ Working(m, c) => Underway(joined[w], c)

(* The vote of a running worker that has handled every event is for the    *)
(* tail of its chain: a unit that comes late makes it vote again           *)
(* (handleChainEvent).                                                     *)
VoteAtTail ==
    \A w \in Witness, c \in Chain :
        mode[w] = "on" /\ joined[w] = 0 /\ events[w] = <<>> /\ mem[w].data[c].vote # NoVote
            => mem[w].data[c].vote = userTail[w][c]

(* The chain waits, and every worker knows the newest request of it. *)
Known(c) ==
    LET now == GetChainStatus(Len(sys), c)
    IN  /\ now.status = "underway"
        /\ \A w \in Live :
            /\ mode[w] = "on"
            /\ mem[w].store.num[c] = now.number
            /\ Working(mem[w], c) => mem[w].data[c].job = now.number

(* A chain does not wait for ever while all workers know its request: late *)
(* units, differing votes, lost messages and restarts do not leave the     *)
(* replacement open (checkVoted, doMyChoose, handleReq, GenerateTxs),      *)
(* unless a crash came between two Puts of one change of a store.          *)
Served == \A c \in Chain : []<>(Known(c) => Live \cap torn # {})

(* A worker does not for ever leave aside a request that is underway and   *)
(* in its store: the store is there for a worker that starts again after   *)
(* its process ended anywhere (PendingChainSet, loadNewJob, Range).        *)
Resumed ==
    \A w \in Live, c \in Chain :
        []<>~(/\ mode[w] = "on" /\ ~Working(mem[w], c)
              /\ GetChainStatus(Len(sys), c) =
                    [status |-> "underway", number |-> mem[w].store.num[c]])
=============================================================================
