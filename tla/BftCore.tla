------------------------------- MODULE BftCore -------------------------------
(***************************************************************************)
(* The engine object of one chain (consensus/bft/core): its state as a     *)
(* record, and every method that changes it as an operator from records to *)
(* records.  A call inside a handler is a use of the operator, so a        *)
(* handler is one value and one step of the modules that run it.           *)
(*                                                                         *)
(* What the engine asks of the node around it is a parameter, fixed by the *)
(* caller for the whole step (see Env): the verdict on a proposal, the     *)
(* unit packUnit packs, whether the chain has pending transactions, and    *)
(* the tail of the stored chain.                                           *)
(*                                                                         *)
(* Witnesses are the indices of the sorted validator set, which stays the  *)
(* same at every height.                                                   *)
(***************************************************************************)
EXTENDS Integers, FiniteSets, FiniteSetsExt

CONSTANTS
  N,              \* size of the witness group
  MinVotings,     \* params.GetChainMinVoting: votes that make a majority
  DeadLockPeriod, \* rounds between two runs of checkDeadLock (2 * voteSum)
  Slot,           \* fnv32 of the chain's address
  Hash,           \* unit hashes, told apart at one height
  Author,         \* Author[h]: the witness that packed the unit
  Nil,            \* no hash
  MaxRound        \* bound on rounds

Witness == 0..(N - 1)
Round == 0..MaxRound
HashOrNil == Hash \cup {Nil}

ASSUME CoreAssumption ==
  /\ N \in Nat \ {0}
  /\ MinVotings \in 1..N
  /\ DeadLockPeriod \in Nat \ {0}
  /\ Slot \in Nat
  /\ Author \in [Hash -> Witness]
  /\ Nil \notin Hash
  /\ MaxRound \in Nat

Code == {"Preprepare", "Prepare", "Commit", "RoundChange", "CheckPendingTx"}

\* A consensus message.  A round change has no hash, and neither has the
\* proposal of a proposer that gives its round up.
Msg(c, w, n, r, h) ==
  [code |-> c, from |-> w, seq |-> n, round |-> r, hash |-> h]

\* What one step finds outside the engine.
Env(verdict, pack, exist, tail, last) ==
  [verdict |-> verdict, \* verifyProposal's answer, should it be asked
   pack |-> pack,       \* the unit packUnit returns, Nil for an error
   exist |-> exist,     \* existTx
   tail |-> tail,       \* height of the stored chain
   last |-> last]       \* who packed the unit at its tail, Nil at height 0

\* "ok"; "future", an error that is not IsBadUnitErr; "bad", any other error;
\* "nolib", the errFutureMessage of verifyProposal itself.
Verdict == {"ok", "future", "bad", "nolib"}

F == N \div 3

\* TwoThirdsMajority is MinVotings - 1 and every test is "more than".
Majority(S) == Cardinality(S) > MinVotings - 1

\* nextRoundProposer
CalcProposer(env, r) ==
  IF env.last = Nil THEN (env.tail + 1 + Slot + r) % N
                    ELSE (env.last + r + 1) % N

NoVotes == [r \in Round |-> {}]
NoHashes == [w \in Witness |-> Nil]

\* The engine core.New returns, before Start.
New(w) ==
  [self |-> w, seq |-> 0, round |-> 0, state |-> "AcceptRequest",
   proposer |-> 0,
   preprepare |-> Nil, prepares |-> {}, commits |-> {}, \* current
   lock |-> Nil, lockRound |-> 0,                       \* current.polcRound
   pending |-> Nil,                                     \* current.pendingRequest
   rcs |-> NoVotes,                                     \* roundChangeSet
   waiting |-> FALSE,                                   \* waitingForRoundChange
   lockHashes |-> NoHashes,
   backlog |-> {},
   armed |-> FALSE,     \* the chain has a task in the timer schedule
   deleting |-> FALSE,  \* timerSchedule.loop has yet to delete a task it ran
   fired |-> {},        \* rounds whose time-outs are on their way to Handle
   activated |-> FALSE,
   packing |-> 0,       \* goroutines of activateChain at work
   requests |-> {},     \* packed units on their way to Handle
   inbox |-> {},        \* own and set-aside messages on their way to Handle
   sent |-> {}]         \* every message broadcast

Locked(e) == e.lock # Nil

-----------------------------------------------------------------------------
\* The timer of the chain.  A time-out that fired before stopTimer is refused
\* by roundchangeResetTime.

SetTimeout(e) == [e EXCEPT !.armed = TRUE]

StopTimer(e) == [e EXCEPT !.armed = FALSE, !.fired = {}]

\* disabledChain: the object pool may free the engine from here on.
DisabledChain(e) == [StopTimer(e) EXCEPT !.activated = FALSE]

\* activateChain: the proposer packs in a goroutine of its own.
ActivateChain(e) ==
  IF e.activated THEN e
  ELSE [SetTimeout(e) EXCEPT
          !.activated = TRUE,
          !.packing = IF e.proposer = e.self THEN @ + 1 ELSE @]

RefreshChainStatus(e, env) ==
  IF env.exist THEN ActivateChain([e EXCEPT !.activated = FALSE])
               ELSE DisabledChain(e)

-----------------------------------------------------------------------------
\* Messages in, and messages out.

CheckMessage(e, m) ==
  IF m.seq > e.seq THEN "futureUnit"
  ELSE IF m.seq < e.seq \/ m.round < e.round THEN "old"
  ELSE IF m.code = "RoundChange" THEN "ok"
  ELSE IF m.round > e.round THEN "future"
  ELSE IF e.state = "AcceptRequest"
       THEN IF m.code \in {"Prepare", "Commit"} THEN "future" ELSE "ok"
  ELSE IF e.state = "Committed" THEN "old" ELSE "ok"

Future(e, m) == CheckMessage(e, m) \in {"future", "futureUnit"}

StoreBacklog(e, m) == [e EXCEPT !.backlog = @ \cup {m}]

\* A message set aside comes back through the local channel; an old one goes.
ProcessBacklog(e) ==
  [e EXCEPT
    !.backlog = {m \in @ : Future(e, m)},
    !.inbox = @ \cup {m \in e.backlog : CheckMessage(e, m) = "ok"}]

\* Mutant: what was set aside stays there.
SetStateOnly(e, s) ==
  LET a == IF e.state = "AcceptRequest" /\ s = "Preprepared"
           THEN ActivateChain(e) ELSE e
  IN  [a EXCEPT !.state = s]

SetState(e, s) ==
  IF e.state = s THEN e
  ELSE LET a == IF e.state = "AcceptRequest" /\ s = "Preprepared"
                THEN ActivateChain(e) ELSE e
       IN  ProcessBacklog([a EXCEPT !.state = s])

\* broadcast: to the peers, and to this engine through the local channel.
Broadcast(e, c, r, h) ==
  LET m == Msg(c, e.self, e.seq, r, h)
  IN  [e EXCEPT !.sent = @ \cup {m}, !.inbox = @ \cup {m}]

SendPreprepare(e, h) ==
  IF e.proposer = e.self THEN Broadcast(e, "Preprepare", e.round, h) ELSE e

SendGiveUpPreprepare(e) ==
  IF e.proposer = e.self /\ e.pending = Nil
  THEN Broadcast(e, "Preprepare", e.round, Nil) ELSE e

SendPrepare(e) == Broadcast(e, "Prepare", e.round, e.preprepare)
SendCommit(e) == Broadcast(e, "Commit", e.round, e.preprepare)
SendCheckPendingTx(e) == Broadcast(e, "CheckPendingTx", e.round, e.preprepare)

\* Mutant: the round change is sent without a new time-out.
SendRoundChangeOnce(e, r) ==
  Broadcast([e EXCEPT !.waiting = TRUE], "RoundChange", r, Nil)

\* sendRoundChange and catchUpRound: ask for round r and wait again.
SendRoundChange(e, r) ==
  Broadcast(SetTimeout([e EXCEPT !.waiting = TRUE]), "RoundChange", r, Nil)

\* MaxRound(num), or -1: the highest round num witnesses have asked for.
MaxRoundOf(e, num) ==
  Max({-1} \cup {r \in Round : e.rcs[r] # {} /\ Cardinality(e.rcs[r]) >= num})

SendNextRoundChange(e) ==
  LET r == MaxRoundOf(e, F + 1)
  IN  SendRoundChange(e, IF r > e.round THEN r ELSE e.round + 1)

-----------------------------------------------------------------------------
\* Rounds and heights.

\* checkDeadLock: every DeadLockPeriod rounds an engine that has seen enough
\* witnesses propose gives its lock up, unless some hash with more than one
\* vote has fewer votes than its own.
CheckDeadLock(e) ==
  LET noted == {w \in Witness : e.lockHashes[w] # Nil}
      sum(h) == Cardinality({w \in noted : e.lockHashes[w] = h})
  IN  IF /\ noted # {}
         /\ e.round % DeadLockPeriod = 0
         /\ Majority(noted)
         /\ \A h \in Hash : ~(sum(h) > 1 /\ sum(h) < sum(e.lock))
      THEN [e EXCEPT !.lock = Nil, !.lockRound = 0, !.lockHashes = NoHashes]
      ELSE e

\* prePackUnit: the packed unit comes back as a NewProposal event.
Request(e, env) ==
  [e EXCEPT !.requests = @ \cup {[seq |-> env.tail + 1, hash |-> env.pack]}]

\* startNewRound, the proposer's part: the locked unit first, then the unit it
\* has packed, then a unit packed now.
Propose(e, env) ==
  IF e.proposer # e.self THEN e
  ELSE IF Locked(e) THEN SendPreprepare(e, e.preprepare)
  ELSE IF e.pending # Nil THEN SendPreprepare(e, e.pending)
  ELSE IF env.pack # Nil THEN Request(e, env)
  ELSE SendGiveUpPreprepare(e)

\* Mutant: the proposal is not carried into the round with its lock.
StartRoundBare(e, r, env) ==
  IF e.round >= r THEN e
  ELSE LET n == [e EXCEPT
                   !.round = r, !.prepares = {}, !.commits = {},
                   !.preprepare = Nil, !.rcs = NoVotes, !.waiting = FALSE,
                   !.proposer = CalcProposer(env, r)]
       IN  SetTimeout(CheckDeadLock(SetState(n, "AcceptRequest")))

\* Mutant: the current round may start again.
StartRoundAgain(e, r, env) ==
  IF e.round > r THEN e
  ELSE LET n == [e EXCEPT
                   !.round = r, !.prepares = {}, !.commits = {},
                   !.preprepare = IF Locked(e) THEN @ ELSE Nil,
                   !.rcs = NoVotes, !.waiting = FALSE,
                   !.proposer = CalcProposer(env, r)]
       IN  SetTimeout(CheckDeadLock(Propose(SetState(n, "AcceptRequest"), env)))

\* startNewRound(r), r > 0; updateRoundState carries lock and proposal over.
StartRound(e, r, env) ==
  IF e.round >= r THEN e
  ELSE LET n == [e EXCEPT
                   !.round = r, !.prepares = {}, !.commits = {},
                   !.preprepare = IF Locked(e) THEN @ ELSE Nil,
                   !.rcs = NoVotes, !.waiting = FALSE,
                   !.proposer = CalcProposer(env, r)]
       IN  SetTimeout(CheckDeadLock(Propose(SetState(n, "AcceptRequest"), env)))

\* startNewRound(0): the round state of the height above the stored chain.
StartHeight(e, env) ==
  IF env.tail < e.seq THEN e
  ELSE LET n == [e EXCEPT
                   !.seq = env.tail + 1, !.round = 0,
                   !.prepares = {}, !.commits = {}, !.preprepare = Nil,
                   !.lock = Nil, !.lockRound = 0, !.pending = Nil,
                   !.rcs = NoVotes, !.waiting = FALSE,
                   !.proposer = CalcProposer(env, 0)]
       IN  StopTimer([SetState(n, "AcceptRequest") EXCEPT !.lockHashes = NoHashes])

\* core.Start
Start(e, env) == RefreshChainStatus(StartHeight(e, env), env)

\* LockHash, with the view of the lock.
LockHash(e) == [e EXCEPT !.lock = e.preprepare, !.lockRound = e.round]

\* commit and handleFinalCommitted; backend.Commit is the caller's.
Commit(e) == [StopTimer(SetState(e, "Committed")) EXCEPT !.waiting = FALSE]

-----------------------------------------------------------------------------
\* Message handlers.

\* noteDiffHash: from the first proposal that differs from the lock on, note
\* what every proposer proposes.
NoteDiffHash(e, w, h) ==
  IF e.lockHashes # NoHashes THEN [e EXCEPT !.lockHashes[w] = h]
  ELSE IF Locked(e) /\ e.lock # h
       THEN [e EXCEPT !.lockHashes = [@ EXCEPT ![e.self] = e.lock, ![w] = h]]
       ELSE e

AcceptPreprepare(e, h) == SetTimeout(StopTimer([e EXCEPT !.preprepare = h]))

\* Mutant: the lock is not asked for.
TakeProposalLocked(e, m) ==
  IF e.state # "AcceptRequest" THEN e
  ELSE SendPrepare(SetState(AcceptPreprepare(e, m.hash), "Preprepared"))

\* Mutant: the vote is sent before the proposal is accepted.
TakeProposalEarly(e, m) ==
  IF e.state # "AcceptRequest" \/ Locked(e) THEN e
  ELSE SetState(AcceptPreprepare(SendPrepare(e), m.hash), "Preprepared")

\* handlePreprepare once the proposal is verified.
TakeProposal(e, m) ==
  LET n == NoteDiffHash(e, m.from, m.hash)
      a == AcceptPreprepare(n, m.hash)
  IN  IF e.state # "AcceptRequest" THEN e
      ELSE IF ~Locked(e) THEN SendPrepare(SetState(a, "Preprepared"))
      ELSE IF e.lock = m.hash THEN SendCommit(SetState(a, "Prepared"))
      ELSE SendNextRoundChange(n)

\* What follows checkMessage: the handler's result, or the message set aside.
Checked(e, m, result) ==
  IF CheckMessage(e, m) = "ok" THEN result
  ELSE IF Future(e, m) THEN StoreBacklog(e, m) ELSE e

HandlePreprepare(e, m, env) ==
  LET verdict == IF e.pending = m.hash THEN "ok" ELSE env.verdict
  IN  Checked(e, m,
        IF m.from # e.proposer THEN e
        ELSE IF m.hash = Nil THEN SendNextRoundChange(e)
        ELSE CASE verdict = "ok" -> TakeProposal(e, m)
               [] verdict = "future" -> StoreBacklog(e, m)
               [] verdict = "bad" -> SendNextRoundChange(e)
               [] verdict = "nolib" -> StoreBacklog(SendNextRoundChange(e), m))

\* A majority behind the proposal: lock it and vote Commit.
LockProposal(e) == SendCommit(SetState(LockHash(e), "Prepared"))

HandlePrepare(e, m) ==
  LET a == [e EXCEPT !.prepares = @ \cup {m.from}]
  IN  Checked(e, m,
        IF m.hash # e.preprepare \/ m.from \in e.prepares THEN e
        ELSE IF /\ \/ Locked(e) /\ m.hash = e.lock
                   \/ Majority(a.prepares \cup a.commits)
                /\ e.state = "Preprepared"
             THEN LockProposal(a) ELSE a)

HandleCommit(e, m) ==
  LET a == [e EXCEPT !.commits = @ \cup {m.from}]
  IN  Checked(e, m,
        IF m.hash # e.preprepare THEN e
        ELSE IF Majority(a.commits) THEN Commit(LockHash(a))
        ELSE IF /\ e.state = "Preprepared"
                /\ Majority(a.prepares \cup a.commits)
                /\ ~Locked(e)
             THEN LockProposal(a) ELSE a)

HandleRoundChange(e, m, env) ==
  LET a == [e EXCEPT !.rcs[m.round] = @ \cup {m.from}]
  IN  Checked(e, m,
        IF m.from \in e.rcs[m.round] THEN e
        ELSE IF Cardinality(a.rcs[m.round]) = F + 1 /\ m.from # e.self
             THEN SendRoundChange(a, m.round)
        ELSE IF Majority(a.rcs[m.round]) THEN StartRound(a, m.round, env)
        ELSE a)

HandleCheckTx(e, m, env) ==
  IF e.activated THEN e ELSE Checked(e, m, RefreshChainStatus(e, env))

\* handleCheckedMsg
HandleMsg(e, m, env) ==
  CASE m.code = "Preprepare" -> HandlePreprepare(e, m, env)
    [] m.code = "Prepare" -> HandlePrepare(e, m)
    [] m.code = "Commit" -> HandleCommit(e, m)
    [] m.code = "RoundChange" -> HandleRoundChange(e, m, env)
    [] m.code = "CheckPendingTx" -> HandleCheckTx(e, m, env)

-----------------------------------------------------------------------------
\* The other events of Handle.

\* NewNumber: a unit of height n has been stored.
HandleNewNumber(e, n, env) ==
  IF n < e.seq THEN e ELSE RefreshChainStatus(StartHeight(e, env), env)

\* NewProposal: the unit this witness has packed.
HandleRequest(e, q) ==
  LET p == [e EXCEPT !.pending = q.hash]
  IN  IF q.seq # e.seq THEN e
      ELSE IF e.state = "AcceptRequest" THEN SendPreprepare(p, q.hash) ELSE p

\* NewTx
HandleNewTx(e, env) == IF e.activated THEN e ELSE RefreshChainStatus(e, env)

\* NewChangeRound for round r.  waitingTimes is left out: while the engine
\* waits, any of its four branches may be the one whose turn it is.
Branch == {"next", "checkTx", "maxRound", "refresh"}

HandleTimeout(e, r, branch, env) ==
  IF r < e.round THEN e
  ELSE CASE branch = "next" -> SendNextRoundChange(e)
         [] branch = "checkTx" ->
              IF e.round # 0 THEN SendNextRoundChange(e)
              ELSE IF e.state = "AcceptRequest" /\ ~env.exist
                   THEN DisabledChain(e)
              ELSE SendNextRoundChange(SendCheckPendingTx(e))
         [] branch = "maxRound" ->
              IF MaxRoundOf(e, 1) >= 0 THEN SendRoundChange(e, MaxRoundOf(e, 1))
                                       ELSE SendNextRoundChange(e)
         [] branch = "refresh" ->
              SendNextRoundChange([e EXCEPT !.proposer = 0, !.rcs = NoVotes])

-----------------------------------------------------------------------------
\* Around the engine.

\* The goroutine of activateChain ends; an error disables the chain.
PackDone(e, env) ==
  LET p == [e EXCEPT !.packing = @ - 1]
  IN  IF env.pack # Nil THEN Request(p, env) ELSE DisabledChain(p)

\* timerSchedule.loop runs doFunc on a task that is due, and deletes the
\* chain's task afterwards, whichever task that is by then.
TimerFire(e) == [e EXCEPT !.fired = @ \cup {e.round}, !.deleting = TRUE]
TimerDelete(e) == [e EXCEPT !.armed = FALSE, !.deleting = FALSE]
=============================================================================
