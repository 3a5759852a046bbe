# Nerthus: a TLA+ verification project

Nerthus keeps one chain of *units* for every account. The chains form a DAG
through the system chain that every unit refers to. Each chain has a group of
witnesses (11 for a user chain, 8 votes make a majority) that decide its units
one height after the other with a BFT protocol of the Istanbul family. This
project models the decision of units and what runs it on a node, the system
contract that keeps witnesses, council and chains in order, the payment for
work, and the vote by which a chain gets new witnesses. TLC checks the models on
small instances; TLAPS proves for every instance the safety of the voting rules,
of the engine that follows them, of the queue and the channel cluster beneath
it, and of most of the contract.

## 1. The system and its parts

| Part | Source | State | Operations | Status |
|---|---|---|---|---|
| BFT engine of a chain | `consensus/bft/core`, `validator.go` | view, state, proposal, votes, lock, round-change votes, backlog, clock, activation | `Handle`: NewMessage, NewNumber, NewProposal, NewTx, NewChangeRound; `Start`, `Stop` | modelled |
| Schedule and backend | `consensus/bft/backend` | time-out tasks, local channel, packing goroutines, stored chain | timer loop, `prePackUnit`, `newHeadNumber`, `Commit`, `VerifySeal` | as one engine sees them |
| Object pool | `common/objectpool` | live engines, engines to be freed, waiting queues | `Handle`, `Free`, `CancelFree`, dispatch | effect on one engine only |
| Lock-free queue | `common/sync/lfreequeue` | a linked list, a channel of one slot | `Enqueue`, `Dequeue`, `DequeueChan` | modelled |
| Channel cluster | `common/chancluster` | one queue and worker per chain, a limit on workers | `HandleOrRegister`, worker loop, `stop`, `Unregister`, `Stop` | modelled for channels registered on demand |
| System contract: members | `core/sc` | witnesses, their groups, council, heartbeats, margins | joining, leaving, heartbeats, removal, repair of groups | modelled but for gas and counts |
| System contract: proposals | `core/sc/proposal*.go`, `council.go` | proposals, votes, bids, settings | make, audit, vote, bid, finalize | modelled in part |
| System contract: chains | `core/sc` | group of a chain, replacement, reports, results | assign, replace in two calls, report, vote | modelled in part |
| Settlement | `core/sc/settle*.go`, `additional.go` | reports by period and witness, marks, next period to pay | count a stored unit, daily pass, pay | modelled for user witnesses |
| Unit storage | `core/dagchain_store.go` | bodies, receipts, headers, marks | store a unit | the default way of storing |
| Stored set | `ntsdb/set.go` | length, keys by index, indices and values by key | add, remove, range | modelled |
| Witness replacement | `witness/service/rwit` | requests, votes, a store | events, votes, requests, ticks, start and stop | modelled |
| Everything else | | | | section 6 |

How they interact. A message, a packed unit, a stored unit, a new transaction
or a time-out becomes an event in the channel of its chain (channel cluster).
The channel's worker passes it to the chain's engine in the object pool, which
creates the engine at need and frees it when the chain has no work. The engine
votes through the backend's broadcast; its own messages come back to it through
a local channel. A majority of Commit votes makes the backend store the unit;
storing a unit, from the engine or from synchronisation, is an event again: for
the engine, for the settlement service, which counts the work behind the unit,
and for the worker of witness replacement. Calls of the system contract are
transactions in units of the system chain. They decide who is a witness and
which group a chain has; the worker of `rwit` reads a request for new witnesses
from them and answers with a call that carries the votes of system witnesses.

What makes it hard: votes are lost, repeated and reordered; each engine counts
its own subset of them; locks are taken in different rounds and released by
`checkDeadLock`; the lock is in memory only and the pool frees engines; the
clock is a task in a table that another goroutine reads and deletes; packing
runs beside the event handler; units arrive by synchronisation in the middle of
a vote. In the contract each rule is short, and what is at risk is what several
of them keep together: two tables that must say the same, a margin that must be
paid back once, a proposal that is decided under conditions other than those it
was made under. The services of a node live between a database that survives a
crash and events that do not.

## 2. Modules

| Module | Models |
|---|---|
| `BftVoting` | the voting rules of a whole group: what an engine may sign, lock, forget and store. The abstract specification |
| `BftVotingProofs` | proofs about `BftVoting` |
| `BftCore` | the engine object, method by method: operators from engine records to engine records. No state of its own |
| `BftEngine` | one engine on its node, with an open environment; it implements `BftVoting` |
| `BftRefinement` | the refinement mapping: the engine read as a witness of `BftVoting` |
| `BftCoreProofs`, `BftEngineProofs` | proofs about the engine: what each method does to its votes, its messages and its clock; the actions, the refinement and the theorems |
| `FifoList` | what the linked list of the queue promises. The abstract specification |
| `FreeList` | that list, one step for each access to shared memory; it implements `FifoList` |
| `FreeListProofs` | proof that it does |
| `FreeQueue` | the queue: `FifoList` behind a channel of one slot |
| `ChanCluster` | the channel cluster: callers, workers and the limit on workers |
| `FreeQueueProofs` | proof that the queue loses nothing until two calls of `Enqueue` overlap |
| `ChanClusterProofs` | proof that the cluster leaks no slot |
| `Lists` | lists as the contract keeps and walks them. Operators only |
| `WitnessGroup` | the algorithms of the contract on groups of witnesses: who leaves, who moves, who is promoted. Operators only |
| `Members` | witnesses and council: their entries, heartbeats, exits, removals and margins |
| `Proposals` | proposals from their making to their end |
| `Chains` | the groups of chains, their replacement, reports and arbitration |
| `Settlement` | a node that stores units and counts the work behind them, and the call that pays for it |
| `SystemContract` | the composition of the four, and the properties |
| `MemberProofs`, `ContractProofs` | proofs about the contract: the calls on members, groups and payments, each on its tables; proposals, chains and the theorems |
| `DataSet` | the set that a worker stores its requests in: each operation as the sequence of its writes. Operators only |
| `ReplaceVote` | the workers that vote on the last unit of a chain, beside the system chain |
| `MCBftVoting`, `MCBftEngine`, `MCFreeList`, `MCChanCluster`, `MCContract`, `MCReplaceVote` | instances for TLC (`FreeQueue` is its own) |

### BftVoting

Each honest witness has a view (`seq`, `round`), a `state`, a proposal, a lock
with its round, and a stored chain. `votes` holds every Prepare and Commit an
honest witness has signed and never shrinks, so a vote may reach any witness at
any time or never. The witnesses outside `Honest` are of two kinds: what those
in `Others` have signed is on record in `others` and is theirs to choose, and
all remaining ones may have signed anything. The
history variables `unlocked` and `restarted` record where a lock was given up
by `checkDeadLock` and where an engine was lost. Proposals and round changes
are unconstrained: any proposal may be offered, any higher round entered. The
guard of `checkDeadLock` is reduced to its period; which locks it releases is
left open, so the results hold for any choice.

Agreement needs a condition. A Commit vote is signed in one round and stays
valid for ever (`GetUnitVoter` counts the seals of a unit whatever their
round), but the lock behind it does not survive `checkDeadLock`, `Stop` or a
crash. `Tolerable(G)` says that any two majorities share a witness outside
`G`: with 11 witnesses and 8 votes `G` may have 4 members. `Agreement` claims a
height only when the witnesses that are faulty, or have lost a lock there, are
tolerable together.

### BftCore and BftEngine

`BftCore` has one operator for each method of `core` that changes the engine:
a handler is the composition of the calls in its body, in their order. What
the engine asks of its node (verdict on a proposal, packed unit, pending
transactions, tail of the chain) is a parameter of the step.

`BftEngine` runs one such engine: one action for each event of `core.Handle`,
and actions for the packing goroutine, the timer loop, synchronisation, the
object pool and a crash. The peers are any finite set of messages that may
arrive in any order, any number of times, or never. The history variable
`counted` records the votes of other witnesses the engine has counted (or, in
`Sync`, relied on). `Refinement` says that every step of the engine is a step of
`BftVoting` with this witness as the only honest one, the rest as `Others` and
`counted` as their votes: the engine locks and commits only behind a majority of
its own votes and of votes it has received. Because the environment is open this
carries over to every group of engines whose messages are authentic: the rules
of `BftVoting` constrain each witness by its own state and by the votes that
exist.

Abstractions, and why they lose nothing the properties speak of:

* the witness group is the same at every height, its members are the indices of
  the sorted validator set (the proposer is computed as in
  `nextRoundProposer`);
* `waitingTimes` is left out: while an engine waits, each of the four branches
  it selects (`%11`, `%29`, `%47`, none) may be taken;
* a message set aside and one's own messages wait in `inbox`, a set, and are
  delivered in any order. A failed `Broadcast` is a message never delivered;
* the priority channel only changes the order of events, which is arbitrary;
* a unit is known by its hash; verification has four outcomes (`Verdict`).

### FreeList and FreeQueue

The queue of `lfreequeue` carries verified units to the goroutine that stores
them, events to waiting engines, and new transactions. `FreeList` has one action
for each read, test and compare-and-swap of `enqueue` and `dequeue`. A node is
known by its value, so each value is enqueued once. The plain reads of `tail`,
`dummy` and `next` race with atomic writes: a test that repeats a read may see
the old result again. `order`, `headAt` and `tailAt` are history variables: the
nodes in the order in which they were linked, and the places of `dummy` and
`tail` among them. The abstract list is the part of `order` behind `headAt`.

`FreeQueue` puts `FifoList` behind the slot `watch`. Producers call `Enqueue`,
takers call `Dequeue` again and again (`Clear` is such a loop), pollers receive
from `DequeueChan` again and again. Each test of the slot or of the list's
counter is a step of its own. `late` counts the goroutines that wait to put a
value back. The transaction pool, the queue of units to be stored and the object
pool call `Enqueue` from several goroutines, hence any number of producers;
`overlap` is a history variable that says whether two calls of it have been under
way at the same time.

### ChanCluster

A controller (channel and worker) is created by the call that finds none for
its name, so it is known by the event of that call. Callers and workers have a
program counter; a step is one access to the map, the counter, a channel or
`waitQueue`. `stop` is one piece of code with two callers, the ending worker and
`Unregister`, hence its actions take either. `waitQueue` has no buffer: sending
to it is being in `Blocked`, receiving from it is choosing one of them. A send
to a closed channel drops the event (the panic is recovered in
`putWithContext`), closing twice ends the program (`Crashed`). The idle delay of
ten seconds may run down at any moment. Static registration and several workers
on one channel are left out; every user of on-demand channels asks for one.

### The system contract

`WitnessGroup`, `Members`, `Proposals` and `Chains` follow the files of
`core/sc`; `SystemContract` lets their calls come in any order. A call is one
atomic step: `contract.go` turns an error into a revert of the whole call, so a
call that fails is a step that does not happen. `number` is the height of the
system chain, `wit`, `council`, `props`, `config`, `chain`, `chainsAt` are the
contract's tables. A group is kept twice, as in the contract's storage: as the
list of the group and as the index in the entry of each witness. `held` and
`lost` are history variables: what the contract holds of an account's margins,
and what the account has forfeited.

What is left out: gas; the counts of periods and units that no call of these
modules reads; the cap of the council; all settings but the cap of user
witnesses and the least votes. The coins of a voter are a constant. The sorts of
the code are insertion sorts for lists as short as those modelled (Go's `sort`
uses them up to 12 elements), so that the order of equal elements is the code's.
The exchange of addresses among the winners of a campaign starts at twelve
winners and does not occur. Of the proof in a report only the witnesses it is
against are kept. A report may have a choice without a proof (`ReportChoice`),
both (`ReportProof`) or a proof alone (`ReportUnchosen`); `reopened` is a history
variable, the heights that the last kind has marked although they had a result.
The execution of a replacement carries who signed for the chosen unit (`signs`)
and who sealed it (`seal`), as sequences: the contract counts the signatures and
looks at each signer, but does not compare them, and it asks only at height 0
that the unit is of this chain or of the system chain; the model does the same.
`IsMainSystemWitness` is true of a former system witness; it is modelled as
it is. The comment at `witness_group.go:80-82` gives examples that the code
beneath computes differently ("8=>3", the code gives 0); the model follows the
code. No part of the node calls `SetConfigFinalize` by itself, so nothing is
claimed about a proposal being closed in the end.

A *load* is chosen in Init: the calls that a behaviour uses, the accounts that
they name, and how many heights and proposals there are. It keeps apart
questions that do not concern each other.

### Settlement

The node's side: `WriteBody`, `WriteReceipts`, `WriteBatch` and
`PostChainEvent` are the writes of `writeRightUnit` in their order, under the
lock of the chain but for the last. `db` survives `Restart`, which may come
between any two of them; `phase` and `calc`, the service with its channel, do
not. The service goes through the marks when it starts (`ProcessOld`) and once a
day (`DailyPass`), and through events after it has subscribed (`HandleUnit`);
what a failing `process` leaves is the mark. `Counted` is the loop of
`writeWorkFee`, with its guard against counting twice as it is: it looks at the
proposer's last unit of the period, and leaves the loop there, so that witnesses
before the proposer are counted all the same.

The contract's side: `SettlementCall` is what `contract.go` does for the call,
`GetAdditional` and then `Settlement`. Of the amounts only the periods are kept,
and a witness has a reward for a period if it made a unit in it. The two parts
keep their place differently, fees by the next period to be paid, rewards by the
last one that was; the limit of periods counts from the present period for fees
and from the last payable one for rewards.

Left out: the write-behind of bodies, which is off by default; the removal of
units by arbitration and with it `RollbackWorkFee`; black units, which are not
counted; the shares of system witnesses, council and foundation. The contract
reads the reports from the database of the node that executes it; there is one
node in the model, and whether all nodes have the same reports is not asked.

### ReplaceVote

A chain whose witnesses do not work asks the contract for others, and the system
witnesses have to agree which unit is its last. `sys` is the system chain,
reduced to what the contract logged about replacements; each node has stored a
part of it (`sysTail`) and of each user chain (`userTail`). `mem` holds the
worker's store, which survives a stop or a crash, and its jobs, which do not.
There is one action for each case of the worker's loop, for the two kinds of
messages, for the packing of votes into a transaction, and for start, stop and
crash. The store is the set of `DataSet`, and a handler yields, next to its new
state, the Puts it makes (`puts`): a crash keeps any first part of those of the
handler that may be running, the first load included (`Writing`). `torn` records
the witnesses whose store was left in pieces by that. A request is known by the number of its system unit, a unit by its
height. `pended` only wakes the loop, so that taking a pended request is an
action with the guard of the code. After `Stop` the loop may still take other
cases of its `select` before it sees the closed channel.

`joined` records how far the node was when the worker loaded its store and then
when it subscribed. What came earlier the worker knows only from its store; `InStep` and `VoteAtTail` speak of
what came later. Left out: the wait for connections, which only delays the
start; a loop of a stopped worker that still runs beside that of a new one on
the same store.

## 3. Runs

| Run | Question |
|---|---|
| `voting_agree` | three engines and a witness that signs anything; two rounds with `checkDeadLock` in round 1, or two heights stored by the engine or from a peer; one engine lost and started again. Do chains agree, and locks of one view? |
| `engine_steps` | one engine of three, under three loads: three rounds and proposals that differ from its lock; two heights with early messages, synchronisation, the pool and crashes; time-outs, packing and activation. Is every step one that the voting rules allow, does the engine vote once, does a vote it has the majority for take effect, does it keep its clock? |
| `engine_clocklost`, `engine_future` | two statements of the code's own comments that it does not keep (section 5) |
| `list_fifo` | two goroutines and three values in the linked list: it is a FIFO list and every call returns |
| `queue_lost` | two producers and a taker: is every value received, as a test of the queue expects? (section 5) |
| `cluster_kept` | two callers, two events, room for one worker, one `Unregister`, `Stop`: slots, events put in time, blocked callers |
| `cluster_dealt` | is every event handed to the cluster dealt with? (section 5) |
| `contract_calls` | fifteen accounts and the eleven loads of `MCContract`: the tables agree, margins are paid back once, roles exclude each other, caps and votes are respected when they count, arbitration holds a chain, work is neither lost nor counted or paid twice |
| `contract_timely` | is only who is silent removed as silent? (section 5) |
| `replace_served` | two of three system witnesses, a late unit, lost messages, stops and crashes at any write, a second chain: do votes agree with what they are counted for, does a crash leave a whole store unless it parts one change of it, and is every known request served? |
| `replace_torn` | does a worker take up what is in its store after a crash at any write? (section 5) |

Bounds of the BFT runs. Two hashes are enough for a conflict, and four witnesses
with three votes are the smallest group that tolerates a fault; a group of three
with two votes is used for one engine over several rounds, where the peers are
free anyway. In the group two rounds and a restart let votes of a lock that was
kept, released or forgotten meet those of the next round; the constraint
`RoundsOrHeights` ends a behaviour that would have two rounds and two heights at
once, `OneForgets` one in which a second witness gives up a lock, where
`Agreement` claims nothing any more (the proofs have no such limits). Three rounds of one engine let a lock be
taken, kept through a change and released; two heights let it meet the last
height's leftovers. A load of `BftEngine` bounds messages, backlog, packing,
expired time-outs, synchronised units and restarts, and sets those at zero that
its question does not concern.

Bounds of the queue and the cluster. In the list two goroutines let one find the
other's work half done; three values fill the slot and the list and leave one to
be enqueued. In the cluster one slot, one place in a channel and two events
reach the limit, a full channel, a caller that meets an ending worker and, with
`Unregister`, two goroutines in `stop`. For any number of all these see section
4.

Bounds of the contract. Groups of at most four with three to decide, instead of
11 and 8; seven user witnesses make one group that is full and one with the
minimum, so that a leaving witness forces a repair. Four system witnesses for
three main ones leave one in reserve, and a cap of five leaves room for one more.
Two council members make two thirds both of them and let one be the last. Phases
of a proposal take one height each, so that three or four heights see its whole
life; two or three proposals overlap. A change that lowers the cap of user
witnesses overlaps with a campaign of two for which the old cap has room. In the settlement a period is two heights
and three periods can be claimed; ten heights make five periods, so that calls
are early, late and beyond the limit. The daily pass is checked in a load of its
own without payments: what the contract pays depends on the reports alone. Three units on two chains, two of them in
one period with a witness that worked on both, let the guard of `writeWorkFee`
meet its own unit and another.

Bounds of the replacement. Two live witnesses must both vote, so that every lost
message, late unit or restart matters; one job at a time (`MaxPending`) and a
request behind it exercise the queue of the store. No store gets
longer than two entries, torn ones included, so that `MaxSlot` cuts nothing off.

The bounds end every behaviour of the BFT, contract and replacement runs, so
deadlock is not checked there; pollers alone, and a cluster that has dealt with
all events, may wait for ever. It is checked for the list.

Fairness. The properties of the BFT and contract modules are safety properties
and assume none. `CallsReturn` assumes that a goroutine inside a call keeps
running, `AllReceived` that a producer finishes its call and a consumer calls
again, `KeptIsDealt`, `WokenUp`, `StopEnds` and `AllDealt` that callers and
workers of the cluster keep running and idle timers run down: the Go scheduler
runs every goroutine that can run. With finitely many values the lock-free
retries end; the run says nothing of a goroutine that others overtake for ever.
`Served` and `Resumed` assume that the system chain goes on, that nodes catch up and the
worker's loop is served (weak fairness of `Advance`; there are finitely many such
steps, and whether one is possible depends on the chains, on where the worker's
loop is and on what waits for it, so that it is stated on these variables), that
the worker's ticker ticks, and that of messages sent again and
again one arrives (strong fairness of their receipt). Nobody has to ask, stop or
crash.

The type invariants of `BftVoting`, `FreeList`, `FreeQueue` and `ChanCluster` are
proved (section 4) and not repeated in the runs.

Each property of a passing run has a mutant, a plausible mistake in the mapped
definition (a comparison off by one, a guard or a reset dropped, a value not
carried over) that makes TLC report the property violated.

## 4. Proofs

`BftVotingProofs` proves for every group,
every set of honest witnesses and every number of rounds, heights and restarts:
`TypeCorrect` (`TypeOK`),
`SealedChains` (`StoredIsSealed`), `ChainsAgree` (`Agreement`),
`ViewLocksAgree` (`SameViewLocks`) and `LocksKept` (`LockKept`). The only
assumption is `GroupAssumption`: the group is finite and the bounds are
numbers. Nothing relates `MinVotings` to the size of the group: if majorities
do not intersect, `Tolerable` is false and the claim is empty.

The inductive invariant `Inv` adds to the properties:

* `LockInv`: a lock is on the proposal the engine holds, and the state says
  whether there is a lock;
* `VoteInv`, `HeightInv`: no votes above the engine's height, which is at most
  one above its chain, so that a new height starts without votes;
* `LockBehindCommit` and `CommitOnce`: a witness that has forgotten nothing is
  locked on what its Commit votes of the height were for, hence it has signed
  Commit for one unit, in all rounds together;
* `ViewInv` and `VoteOncePerView`: the same for all votes of one view;
* `LockBacked`: behind every lock is a majority of the view it was taken in.

`MajoritiesMeet` (counting) then gives a witness that is bound by its votes and
has signed for both units. There is one lemma for each action.

`FreeListProofs` proves `ListInvariant` (`OneList`) and `ListImplements` (`Implements`: `FreeList` implements `FifoList`) for any sets of
goroutines and values, from `NodeAssumption`: the dummy and the nil pointer are
no values. Its
invariant adds to `OneList` that a node is linked once (`LinkedOnce`), that a
node being brought is not in the list (`Bringing`), and what the locals of a
call still mean: `enqueue` remembers a node at or before the tail and its
successor (`EnqLocals`), `dequeue` a node at or before the dummy and a tail that
was not before it (`DeqLocals`). The shared state only moves forward
(`Forward`), so the others' locals keep their meaning (`LocalsKept`). A nil
successor then marks the end of the list (`NilIsEnd`), which places a linked
node, and a won swap of the dummy takes the first value (`TakeFacts`). `Link`
and `Take` are the steps that show in `FifoList`.

`FreeQueueProofs` proves `TypeCorrect` (`TypeOK`) and `ValuesKept`
(`NothingLost`: no value is lost until two calls of `Enqueue` overlap) for any
sets of producers and consumers, under `QueueAssumption`, a hypothesis of both
theorems: nil is no value, nobody is both producer and consumer, the goroutines
are finitely many. `Enqueue` takes a value off the list without looking at it,
after it has put its own value into the slot; this is safe only if the list holds
nothing else. The invariant `QueueInv(p)`, for the producer `p` that is or was
last inside `Enqueue`, therefore says what the counter counts at any time
(`Sized`: the values in the list and those taken but not counted off, less one
that is linked but not counted), that behind a counter seen at 0 the list holds
only the value of `p` (`Alone`), and that every value is in the list, in the
slot, in somebody's hands or received (`Kept`). `Apart` passes it from one
producer to the next. The hypothesis of the theorem cannot be dropped: run
`queue_lost` shows the loss when two calls overlap.

`ChanClusterProofs` proves `TypeCorrect`
(`TypeOK`: no channel holds more than its size) and `SlotsKept` (`NoSlotLost`)
for any callers, events, names, limit and size, from `ClusterAssumption` (nil is
nobody, callers and events are disjoint, the events are finitely many).
`currentParallel` changes in steps of its own, so the property speaks of it only
at rest. The invariant adds what it counts in between (`Counting`: at most the
workers between their start and their step in `stop`) and that every caller
brings an event of its own (`Places`), so that a new worker has not been counted
before.

`BftCoreProofs` and `BftEngineProofs` prove for one engine, in every group and
under every load: `EngineTypes` (`TypeOK`), `LockIsProposal`
(`LockedOnProposal`), `OneUnitInOneView` (`VoteOnce`), `NoVoteStuck`
(`VotesNotStuck`), `ClockNotLost` (`ClockKept`) and `EngineFollowsRules`
(`Refinement`). The assumptions are `CoreAssumption` (the group has members, a
majority is some of them, the deadlock period is not zero) and `LoadAssumption`
(the engine is one of the group, a load is made of messages and numbers).

The methods come first. `core` handles an event by calling methods on the engine
that call others, and what a call may do to votes is one of few things:
`BftCoreProofs` names them and proves for each method of `BftCore` which it does.
`Quiet`: nothing about the view, the lock or the counted votes changes and no
vote is signed. `VoteAdded`: one vote is signed, for the proposal held.
`RoundStarted` and `HeightStarted`: a view is entered with the fields that
`updateRoundState` and `startNewRound` leave. `MsgHandled`: a message is handled
with one of these effects, or the engine locks or commits behind a majority.
Each of them keeps the engine's part of the inductive invariant (`EngineInv`),
and each action of `BftEngine` is one of them:

* `LockInv`: the state says whether there is a lock, and a lock is on the
  proposal held;
* `CountInv`, `OwnInv`: a vote of its own that the engine counts, or that is on
  its way back to it, it has sent;
* `ViewInv`, `OnceInv`: it has signed nothing beyond its view, nothing in its
  view but for its proposal, and in no view for two units (unless it was lost at
  that height);
* `NotStuck`: no majority of counted votes waits without having had its effect.

`Inv` adds the chain and the histories: the engine is at most one height above
its chain, and what it counts is on record in `counted`. For the refinement each
effect is shown to be a step of `BftVoting` (`Refines...`); a lock or a commit is
backed because the votes behind it are the engine's own, which it has sent, or in
`counted`. Since the engine implements the rules, what is proved about them
holds of it: `BftEngineProofs` instantiates `BftVotingProofs` under the
refinement mapping and obtains `EngineStoresSealed` (a unit that the engine
stores has a majority of Commit votes) and `EngineKeepsLock` (it gives a lock up
only to `checkDeadLock`, a new height or a loss).

`MemberProofs` and `ContractProofs` prove about the system contract, for any
accounts, groups, caps, heights, loads and any order of calls:

* `UnitsAreWhole`, `WorkIsKept`, `UnitsCountedOnce`, `PeriodsPaidOnce`
  (`StoredWhole`, `WorkKept`, `CountedOnce`, `PaidOnce`) from `SettleInv`. The
  invariant adds what is in the database after each write of a unit (`Storing`),
  that the last unit in a report has been counted (`LastCounted`), that a unit
  which is not to be counted twice waits in one place only and is not counted
  while it waits (`OneChance`), that nothing is paid beyond the marks of the
  purse (`Paid`), and that these marks lie in the past (`InPast`);
* `ArbitrationsOpen`, `ArbitratedKeepGroup`, `SettledUnitsStay`
  (`ArbitrationOpen`, `ArbitrationHoldsGroup`, `UnitsStay`) from
  `ArbitrationInv`: a chain in arbitration has a group, and its open heights are
  those without a result and those that a proof without a choice has marked
  again;
* `CouncilAlwaysStands`, `OneProposalOpen`, `ConfigChangedByCouncil`
  (`CouncilStands`, `OneOpen`, `ConfigByCouncil`) from `CouncilInv` and
  `ProposalInv`. `CouncilTable` says that the list of the council and the status
  of the accounts agree and no member is listed twice; `LaterClosed` that all
  proposals before the last of a kind are closed, also at later heights;
  `AuditPassed` that a change of the settings is put to the vote only with two
  thirds of the council behind it.

Many calls loop over a list. A loop is a fold, whose definition is a recursive
function over the sets of indices; no induction over data is needed to reason
about it, since the fold is named as a function of the turns made so far
(`Runs`, `CallRuns`), and a property that one turn keeps is shown for all turns
by induction on a bounded set of numbers. `Lists` defines what the contract needs of
lists with folds and functions, because the provers know nothing of the sorting
and filtering of the library. The assumptions are `GroupSizes`,
`MemberConstants`, `ProposalConstants`, `ChainConstants` and
`SettlementConstants`: numbers are numbers, the lists of the genesis block name
different accounts, and what the loads name exists.

Only model-checked: of the contract the properties that follow a witness through
its group (`GroupsAgree`, `OneRole`, `ChainsAgree`, `OthersKeepDeciding`,
`JoinsWithinCaps`), the margins (`MarginsCovered`, which adds up what each account
has in its open proposals and bids), and its `TypeOK`; `ReplaceVote` with `DataSet`; and all liveness (`CallsReturn`,
`KeptIsDealt`, `WokenUp`, `StopEnds`, `Served`), which is out of the prover's
reach.

## 5. Where comments and code differ

* `ActiveHasClock`: the timer loop deletes the chain's task after it has
  delivered the time-out, and with it a time-out set in between.
* `FutureProposalHandled`: a proposal put off as "future" is not handled again
  when its round ends without a change of state.
* `AllReceived` of `FreeQueue`: an `Enqueue` that has appended its value to the
  list and then finds the slot free puts the value there as well and takes the
  first value off the list, which with a second producer may be the other's. That
  value is lost and its own is received twice (`lfreequeue.go:109-112`); tests of
  the queue want every value back (`lfreequeue_test.go:186-194`, `266-271`). What
  holds instead is `NothingLost`. A poller in place of the taker may also wait at
  the slot for ever while values are in the list (`lfreequeue.go:101-103`).
* `AllDealt` of `ChanCluster`: an event whose controller ends between
  `registerOrLoad` and `put` is dropped without an error, and a caller that
  starts to wait at the limit after the last worker has ended is not woken.
  What holds instead is `KeptIsDealt` and `WokenUp`.
* `TimelyStay`: `witnessIsTimeout` looks up the heartbeats of a user witness in
  the council's table, where it has none (`autoexit.go:37`), although a member
  whose heartbeats are on time is to be kept (`autoexit.go:204`).
* `Resumed`: one change of the stored set is several Puts, and a crash between two
  of them leaves, for one, a length without a key (`ntsdb/set.go:98-99`). `Range`
  ends there, although it is to go on to the last element (`set.go:117`), and the
  worker does not find what it stores behind that place, although the store is
  there so that nothing is lost when the program ends unexpectedly
  (`rwit/README.md:44`). `InStep` and `Served` hold for the other workers.
* `ArbitrationOpen` holds with an exception: a proof without a choice marks the
  height even when its arbitration has a result (`report.go:197`), and nobody can
  end it again, since a vote on a height with a result is refused
  (`report.go:232`). The comment on the report promises that nothing is handled
  twice ("保证不重复处理", `report.go:118`). The nodes of this repository send
  their choice with the proof, and then the whole call is reverted.
* `CountedOnce` holds with an exception that the code's comment "防止重复计数" (avoid
  counting twice, `settle_calc.go:143`) does not have: a unit that the daily pass
  counts while its event is still waiting is counted again if the proposer's
  last unit of the period is another one by then.

## 6. Not modelled

* The object pool's own queues and limit. `BftEngine` has what freeing and
  recreating does to an engine.
* A closed group of engines under fair delivery, hence whether every height
  ends: one engine with an open environment already has more than 300,000 states
  within small bounds. `checkDeadLock` over all distributions of locks belongs
  here too.
* The removal of units from a chain (`chain_branch.go`), and with it the node's
  side of arbitration (`consensus/arbitration`), whose core it is. It goes
  through state, transactions and indices of every unit above, in one database
  batch after another; a faithful model needs the storage of all of them.
* The rest of the storage: caches, the write-behind of bodies (off by default),
  references between chains.
* The node of a council member (`council`): timers, and calls whose effects are in
  `Members`, `Proposals` and `Chains`.
* Witness schedule and mining (`witness`): they tie the transaction pool, the
  engine and the storage together. `BftEngine` takes their effects as inputs: a
  packed unit, an empty pool, a failure.
* Validation and execution of units: a verdict in `BftCore`.
* Transaction pool, synchronisation, peers and their connections: the models
  assume that a unit or a message may arrive late, repeatedly or never.
* Static registration of channels and several workers on one channel in the
  channel cluster; no user of channels on demand asks for them.
* Cleaning of old data, EVM, state trie, encodings, cryptography, RPC, console and
  start-up: input and output, or sequential code on data out of TLC's reach.

Known, and covered by no property:

* `rwit`: a restart while the contract has a newer request than the store puts the
  older one into memory after it (`worker.go:181`, under the comment "以最新位置为准",
  the newest place counts, `worker.go:164`); a crash between the deletion of the
  old request and the insertion of the new one loses both (`worker.go:200-201`); and units that arrive between
  `loadNewJob` and the subscription are not told to the worker (`worker.go:272`);
  hence `joined`. Two workers whose memories are full of different chains wait for
  each other; it takes more than `maxPending` requests at a time
  (`worker.go:112`).
* Channel cluster: callers that test the limit at the same time exceed it by
  their number (`chancluster.go:173`).
* Engine: a packing that fails late disables its chain, and with it the clock,
  while the height is being voted on (`handler.go:377-381`). `ClockKept` leaves
  disabled chains out.
* Contract: the signatures of an execution are counted and not compared with each
  other, and above height 0 the chosen unit need not be of the chain
  (`normal_witenss.go:338-389`); the votes that `rwit` collects are of different
  witnesses and for a unit of the chain. A
  report is reverted as a whole when one of the witnesses it is
  against has left (`report.go:376`); nothing says what should happen.
* Storage with write-behind: `checkData` reads the whole tail unit first, which
  fails on the missing body that it is there to repair (`dagchain_store.go:321`).
* Removal of a unit whose work is not counted yet (`chain_branch.go:145`).
