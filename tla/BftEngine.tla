------------------------------ MODULE BftEngine ------------------------------
(***************************************************************************)
(* One witness's engine, run by its node: the events of core.Handle, the   *)
(* goroutine that packs, the timer schedule, the stored chain and the      *)
(* object pool.  The other witnesses are the environment: any message of   *)
(* PeerMsgs may arrive at any time, any number of times or never, and a    *)
(* unit they have sealed may be stored by synchronisation.                 *)
(***************************************************************************)
EXTENDS BftCore, Sequences

CONSTANTS
  Self,        \* this witness
  Loads,       \* what the witness may meet: see LoadAssumption
  MaxSeq,      \* bound on heights
  MaxRestarts  \* bound on restarts

Seqs == 1..MaxSeq

Messages == [code : Code, from : Witness, seq : Seqs, round : 0..(MaxRound + 1),
             hash : HashOrNil]

\* A load says which messages the other witnesses may send, and bounds the
\* heights, the rounds, the messages set aside, the packing goroutines, the
\* time-outs in flight, the heights stored by synchronisation and the restarts
\* of a behaviour.
ASSUME LoadAssumption ==
  /\ Self \in Witness
  /\ MaxSeq \in Nat \ {0} /\ MaxRestarts \in Nat
  /\ \A l \in Loads :
       /\ l.msgs \subseteq Messages
       /\ \A m \in l.msgs : m.from # Self
       /\ l.seq \in Seqs /\ l.round \in Round /\ l.sync \in 0..l.seq
       /\ {l.backlog, l.packing, l.fired} \subseteq Nat
       /\ l.restarts \in 0..MaxRestarts

VARIABLES
  load,      \* the load of this behaviour, fixed from the start
  eng,       \* the engine
  chain,     \* the stored chain: the hash at each height
  heads,     \* heights whose NewNumber events are on their way to Handle
  counted,   \* history: the votes of other witnesses the engine has counted
  unlocked,  \* history: heights at which checkDeadLock released a lock
  restarted, \* history: heights at which the engine was lost
  restarts   \* how many times it was

vars == <<load, eng, chain, heads, counted, unlocked, restarted, restarts>>

EnvOf(verdict, pack, exist, c) ==
  Env(verdict, pack, exist, Len(c), IF c = << >> THEN Nil ELSE Author[c[Len(c)]])

\* What the node may answer in one step; an event that does not ask a question
\* gets one answer to it.
Envs(verdicts, packs, exists) ==
  {EnvOf(v, p, x, chain) : v \in verdicts, p \in packs, x \in exists}

\* packUnit fails, or packs a unit of this witness.
Packs == {Nil} \cup {h \in Hash : Author[h] = Self}

Within(e) ==
  /\ e.seq <= load.seq
  /\ e.round <= load.round
  /\ Cardinality(e.backlog) <= load.backlog
  /\ e.packing <= load.packing
  /\ Cardinality(e.fired) <= load.fired

-----------------------------------------------------------------------------
Init ==
  /\ load \in Loads
  /\ chain = << >>
  /\ \E env \in Envs({"ok"}, {Nil}, BOOLEAN) : eng = Start(New(Self), env)
  /\ Within(eng)
  /\ heads = {}
  /\ counted = {}
  /\ unlocked = {}
  /\ restarted = {}
  /\ restarts = 0

PeerVote(t, w, n, r, h) ==
  [type |-> t, from |-> w, seq |-> n, round |-> r, hash |-> h]

\* The votes of other witnesses an engine counts in its view.
Counts(e) ==
  {PeerVote("Prepare", w, e.seq, e.round, e.preprepare) : w \in e.prepares \ {Self}}
  \cup {PeerVote("Commit", w, e.seq, e.round, e.preprepare) : w \in e.commits \ {Self}}

\* One event handled, with the history of counted votes and of locks that
\* checkDeadLock releases.
Step(e) ==
  /\ Within(e)
  /\ eng' = e
  /\ counted' = counted \cup Counts(e)
  /\ unlocked' = IF Locked(eng) /\ ~Locked(e) /\ e.seq = eng.seq
                 THEN unlocked \cup {e.seq} ELSE unlocked
  /\ UNCHANGED <<load, restarted, restarts>>

\* backend.Commit inserts the unit, or fails and does not tell the engine.
Insert(h) ==
  \/ UNCHANGED <<chain, heads>>
  \/ /\ eng.seq = Len(chain) + 1
     /\ chain' = Append(chain, h)
     /\ heads' = heads \cup {eng.seq}

\* NewMessage
Receive(m) ==
  /\ m.round <= load.round
  /\ \E env \in Envs(IF m.code = "Preprepare" THEN Verdict ELSE {"ok"},
                     IF m.code = "RoundChange" THEN Packs ELSE {Nil},
                     IF m.code = "CheckPendingTx" THEN BOOLEAN ELSE {TRUE}) :
       LET e == HandleMsg([eng EXCEPT !.inbox = @ \ {m}], m, env)
       IN  /\ Step(e)
           /\ IF e.state = "Committed" /\ eng.state # "Committed"
              THEN Insert(e.preprepare) ELSE UNCHANGED <<chain, heads>>

\* NewNumber
NewNumber(n) ==
  /\ n \in heads
  /\ heads' = heads \ {n}
  /\ \E env \in Envs({"ok"}, {Nil}, BOOLEAN) : Step(HandleNewNumber(eng, n, env))
  /\ UNCHANGED chain

\* NewProposal
NewProposal(q) ==
  /\ q \in eng.requests
  /\ Step(HandleRequest([eng EXCEPT !.requests = @ \ {q}], q))
  /\ UNCHANGED <<chain, heads>>

\* NewTx
NewTx ==
  /\ ~eng.activated
  /\ \E env \in Envs({"ok"}, {Nil}, BOOLEAN) : Step(HandleNewTx(eng, env))
  /\ UNCHANGED <<chain, heads>>

\* NewChangeRound
ChangeRound(r) ==
  /\ r \in eng.fired
  /\ \E env \in Envs({"ok"}, {Nil}, BOOLEAN), b \in Branch :
       /\ b = "next" \/ eng.waiting
       /\ Step(HandleTimeout([eng EXCEPT !.fired = @ \ {r}], r, b, env))
  /\ UNCHANGED <<chain, heads>>

Pack ==
  /\ eng.packing > 0
  /\ \E env \in Envs({"ok"}, Packs, {TRUE}) : Step(PackDone(eng, env))
  /\ UNCHANGED <<chain, heads>>

Timer ==
  /\ \/ eng.armed /\ ~eng.deleting /\ Step(TimerFire(eng))
     \/ eng.deleting /\ Step(TimerDelete(eng))
  /\ UNCHANGED <<chain, heads>>

\* A sealed unit arrives from a peer and is stored (VerifySeal).
Sync(h) ==
  LET n == Len(chain) + 1
      mine == {m \in eng.sent : m.code = "Commit" /\ m.seq = n /\ m.hash = h}
  IN  /\ n <= load.sync
      /\ Majority((Witness \ {Self}) \cup {m.from : m \in mine})
      /\ chain' = Append(chain, h)
      /\ heads' = heads \cup {n}
      /\ counted' = counted \cup {PeerVote("Commit", w, n, 0, h) : w \in Witness \ {Self}}
      /\ UNCHANGED <<load, eng, unlocked, restarted, restarts>>

\* A new engine for the chain; kept is what survives of the old one.
Replace(kept) ==
  /\ restarts < load.restarts
  /\ Len(chain) + 1 <= load.seq
  /\ \E env \in Envs({"ok"}, {Nil}, BOOLEAN) : eng' = Start(kept, env)
  /\ Within(eng')
  /\ restarts' = restarts + 1
  /\ restarted' = restarted \cup {Len(chain) + 1}
  /\ UNCHANGED <<load, chain, counted, unlocked>>

\* The object pool frees an inactive engine (core.Stop); events still in the
\* channels reach the engine that the next of them creates.
Free ==
  /\ ~eng.activated
  /\ Replace([New(Self) EXCEPT !.inbox = eng.inbox, !.requests = eng.requests,
                               !.deleting = eng.deleting, !.sent = eng.sent])
  /\ UNCHANGED heads

\* The node crashes: only the stored chain survives.
Crash ==
  /\ Replace([New(Self) EXCEPT !.sent = eng.sent])
  /\ heads' = {}

Next ==
  \/ \E m \in eng.inbox \cup load.msgs : Receive(m)
  \/ \E n \in heads : NewNumber(n)
  \/ \E q \in eng.requests : NewProposal(q)
  \/ NewTx
  \/ \E r \in eng.fired : ChangeRound(r)
  \/ Pack
  \/ Timer
  \/ \E h \in Hash : Sync(h)
  \/ Free
  \/ Crash

Spec == Init /\ [][Next]_vars

-----------------------------------------------------------------------------
\* The engine's fields keep their types, and it votes for no empty proposal.
TypeOK ==
  /\ eng.seq \in Seqs /\ eng.round \in Round
  /\ eng.state \in {"AcceptRequest", "Preprepared", "Prepared", "Committed"}
  /\ eng.proposer \in Witness
  /\ {eng.preprepare, eng.lock, eng.pending} \subseteq HashOrNil
  /\ eng.lockRound \in Round
  /\ eng.prepares \subseteq Witness /\ eng.commits \subseteq Witness
  /\ eng.rcs \in [Round -> SUBSET Witness]
  /\ eng.lockHashes \in [Witness -> HashOrNil]
  /\ eng.backlog \cup eng.inbox \cup eng.sent \subseteq Messages
  /\ \A m \in eng.sent : m.code \in {"Prepare", "Commit"} => m.hash # Nil
  /\ eng.fired \subseteq Round
  /\ {eng.waiting, eng.armed, eng.deleting, eng.activated} \subseteq BOOLEAN
  /\ eng.packing \in 0..load.packing
  /\ eng.requests \subseteq [seq : 1..(MaxSeq + 1), hash : Hash]
  /\ chain \in Seq(Hash)
  /\ heads \subseteq Seqs /\ unlocked \subseteq Seqs /\ restarted \subseteq Seqs
  /\ restarts \in 0..load.restarts

\* A locked engine holds the locked unit as its proposal, so that startNewRound
\* can propose it again; and an engine that still counts Prepare votes holds no
\* lock ("it can only process on the locked block", handlePrepare).
LockedOnProposal ==
  /\ Locked(eng) => eng.preprepare = eng.lock
  /\ eng.state = "Preprepared" => ~Locked(eng)
  /\ eng.state \in {"Prepared", "Committed"} => Locked(eng)

\* In one view the engine votes for one unit only, Prepare and Commit votes
\* together, whatever proposals, votes and round changes reach it, unless the
\* engine was lost at that height.
VoteOnce ==
  \A m, k \in {s \in eng.sent : s.code \in {"Prepare", "Commit"}} :
    /\ m.seq = k.seq /\ m.round = k.round
    /\ m.seq \notin restarted
    => m.hash = k.hash

\* No vote that the engine could count stays set aside: setState hands the
\* backlog back whenever the state in which votes are refused ends.
VotesNotStuck ==
  \A m \in eng.backlog :
    m.code \in {"Prepare", "Commit"} => CheckMessage(eng, m) # "ok"

HasClock == eng.armed \/ eng.round \in eng.fired

\* An active engine that has not decided loses its clock only to the task
\* deletion of the timer loop: every handler that uses a time-out up, or stops
\* the timer, sets it again, decides or disables the chain.
ClockKept ==
  [][HasClock /\ ~HasClock' /\ eng'.activated /\ eng'.state # "Committed"
       => eng.deleting]_vars

\* The chain's clock runs as long as the chain is active and undecided.
ActiveHasClock == eng.activated /\ eng.state # "Committed" => HasClock

\* A proposal that verifyProposal has put off is handled again while its round
\* lasts ("if it's a future block, we will handle it again after the duration",
\* handlePreprepare).
FutureProposalHandled ==
  \A m \in eng.backlog :
    m.code = "Preprepare" /\ m.seq = eng.seq => m.round >= eng.round
=============================================================================
