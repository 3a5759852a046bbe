--------------------------- MODULE BftEngineProofs ---------------------------
(***************************************************************************)
(* The engine of one witness keeps its invariants and implements the       *)
(* voting rules of BftVoting, for every group, every load and every bound. *)
(***************************************************************************)
EXTENDS BftCoreProofs, FiniteSetTheorems

-----------------------------------------------------------------------------
\* The inductive invariant.

\* What an engine's state says of its proposal and its lock.
LockInv(e) ==
  /\ Locked(e) => e.preprepare = e.lock
  /\ ~Locked(e) => e.lockRound = 0
  /\ e.state = "Preprepared" => ~Locked(e) /\ e.preprepare # Nil
  /\ e.state \in {"Prepared", "Committed"} => Locked(e)

\* The votes it counts of its own it has sent, and none before a proposal.
CountInv(e) ==
  /\ e.state = "AcceptRequest" => e.prepares = {} /\ e.commits = {}
  /\ Self \in e.prepares => Msg("Prepare", Self, e.seq, e.round, e.preprepare) \in e.sent
  /\ Self \in e.commits => Msg("Commit", Self, e.seq, e.round, e.preprepare) \in e.sent

\* Its own messages on their way to it, it has sent; its votes are for units.
OwnInv(e) ==
  /\ \A m \in e.inbox \cup e.backlog : m.from = Self => m \in e.sent
  /\ \A m \in e.sent : m.code \in VoteCode => m.from = Self /\ m.round \in Round /\ m.hash \in Hash

\* It has voted in no view beyond its own, and in its own view for its proposal;
\* R are the heights at which it was lost.
ViewInv(e, R) ==
  \A m \in e.sent :
    m.code \in VoteCode =>
      /\ m.seq <= e.seq
      /\ m.seq = e.seq /\ m.seq \notin R =>
           /\ m.round <= e.round
           /\ m.round = e.round => m.hash = e.preprepare /\ e.state # "AcceptRequest"

\* One unit in one view.
OnceInv(e, R) ==
  \A m, k \in e.sent :
    /\ m.code \in VoteCode /\ k.code \in VoteCode
    /\ m.seq = k.seq /\ m.round = k.round /\ m.seq \notin R
    => m.hash = k.hash

EngineInv(e, R) ==
  /\ e \in Engine /\ e.seq \in Seqs
  /\ LockInv(e) /\ CountInv(e) /\ OwnInv(e) /\ ViewInv(e, R) /\ OnceInv(e, R)
  /\ NotStuck(e)

PeerVotes ==
  [type : VoteCode, from : Witness \ {Self}, seq : Seqs, round : Round, hash : Hash]

\* The engine beside the chain and the histories.
Inv ==
  /\ EngineInv(eng, restarted)
  /\ load \in Loads /\ eng.packing <= load.packing
  /\ chain \in Seq(Hash) /\ Len(chain) <= MaxSeq /\ eng.seq <= Len(chain) + 1
  /\ heads \subseteq Seqs /\ unlocked \subseteq Seqs /\ restarted \subseteq Seqs
  /\ restarts \in 0..load.restarts
  /\ Counts(eng) \subseteq counted /\ counted \subseteq PeerVotes

-----------------------------------------------------------------------------
\* The votes a decision takes are a number.
LEMMA VotingsNat == MinVotings \in Nat
  BY CoreAssumption

\* A step that leaves the engine and the heights at which it was lost alone
\* leaves what is said of them alone.
LEMMA EngineSame ==
  ASSUME EngineInv(eng, restarted), UNCHANGED <<eng, restarted>>
  PROVE  EngineInv(eng, restarted)' /\ Counts(eng)' = Counts(eng)
<1>1. eng' = eng /\ restarted' = restarted
  BY Zenon
<1>2. LockInv(eng)' /\ CountInv(eng)'
  BY Zenon, <1>1 DEF EngineInv, LockInv, CountInv
<1>3. OwnInv(eng)' /\ NotStuck(eng)'
  BY Zenon, <1>1 DEF EngineInv, OwnInv, NotStuck
<1>4. ViewInv(eng, restarted)'
  BY Zenon, <1>1 DEF EngineInv, ViewInv
<1>5. OnceInv(eng, restarted)'
  BY Zenon, <1>1 DEF EngineInv, OnceInv
<1>6. Counts(eng)' = Counts(eng)
  BY Zenon, <1>1 DEF Counts
<1> QED
  BY Zenon, <1>1, <1>2, <1>3, <1>4, <1>5, <1>6 DEF EngineInv

\* Every effect keeps the engine's invariant.

\* A quiet call keeps the engine's invariant.
LEMMA QuietInv ==
  ASSUME NEW e, NEW d, NEW R, EngineInv(e, R), Quiet(d, e) PROVE EngineInv(d, R)
<1>1. /\ d \in Engine /\ SameView(d, e) /\ NotStuck(d) /\ e.sent \subseteq d.sent
      /\ \A m \in d.sent : m.code \in VoteCode => m \in e.sent
  BY Zenon DEF Quiet, Keeps, EngineInv
<1>2. d.seq \in Seqs /\ LockInv(d)
  BY Zenon, <1>1 DEF SameView, EngineInv, LockInv, Locked
<1>3. CountInv(d)
  BY Zenon, <1>1 DEF SameView, EngineInv, CountInv
<1>4. OwnInv(d)
  BY Zenon, <1>1 DEF EngineInv, OwnInv, Quiet, Keeps
<1>5. ViewInv(d, R)
  BY Zenon, <1>1 DEF EngineInv, ViewInv, SameView
<1>6. OnceInv(d, R)
  BY Zenon, <1>1 DEF EngineInv, OnceInv
<1> QED
  BY Zenon, <1>1, <1>2, <1>3, <1>4, <1>5, <1>6 DEF EngineInv

\* The fields of a message.
LEMMA MsgFields ==
  \A c, w, n, r, h : /\ Msg(c, w, n, r, h).code = c /\ Msg(c, w, n, r, h).from = w
                     /\ Msg(c, w, n, r, h).seq = n /\ Msg(c, w, n, r, h).round = r
                     /\ Msg(c, w, n, r, h).hash = h
  BY DEF Msg

\* A vote that respects the engine's earlier votes.
LEMMA VoteAddedInv ==
  ASSUME NEW e, NEW d, NEW R, EngineInv(e, R), Keeps(d, e), NEW c \in VoteCode,
         VoteAdded(d, e, c), d.seq = e.seq, d.round = e.round,
         d.preprepare \in Hash, d.state # "AcceptRequest",
         e.state = "AcceptRequest" \/ e.preprepare = d.preprepare
  PROVE  OwnInv(d) /\ ViewInv(d, R) /\ OnceInv(d, R)
<1> DEFINE v == Msg(c, Self, e.seq, e.round, d.preprepare)
<1>1. /\ v.code = c /\ v.from = Self /\ v.seq = e.seq /\ v.round = e.round
      /\ v.hash = d.preprepare
  BY MsgFields
<1>2. v \in d.sent /\ \A m \in d.sent \ e.sent : m.code \in VoteCode => m = v
  BY Zenon DEF VoteAdded
<1> HIDE DEF v
<1>3. /\ d \in Engine /\ e \in Engine
      /\ e.round \in Round /\ e.seq \in Nat /\ e.seq <= e.seq /\ e.round <= e.round
  BY SMTT(30), CoreAssumption DEF EngineInv, Engine, Keeps, Round
<1>4. OwnInv(d)
  BY Zenon, <1>1, <1>2, <1>3 DEF EngineInv, OwnInv, Keeps
<1>5. ViewInv(d, R)
  BY Zenon, <1>1, <1>2, <1>3 DEF EngineInv, ViewInv
<1>6. OnceInv(d, R)
  BY <1>1, <1>2, <1>3 DEF EngineInv, ViewInv, OnceInv
<1> QED
  BY Zenon, <1>4, <1>5, <1>6

\* Accepting a proposal keeps the invariant: in AcceptRequest the engine has not
\* voted in its view.
LEMMA AcceptedInv ==
  ASSUME NEW e, NEW d, NEW R, EngineInv(e, R), NEW h \in Hash, Accepted(d, e, h)
  PROVE  EngineInv(d, R)
<1>1. OwnInv(d) /\ ViewInv(d, R) /\ OnceInv(d, R)
  BY Zenon, VoteAddedInv DEF Accepted, VoteCode
<1>2. LockInv(d) /\ CountInv(d)
  BY Zenon, CoreAssumption DEF EngineInv, Accepted, LockInv, CountInv, Locked, SameLock, SameCounts
<1> QED
  BY Zenon, <1>1, <1>2 DEF EngineInv, Accepted, Keeps

\* Committing to the locked unit again keeps the invariant.
LEMMA RecommittedInv ==
  ASSUME NEW e, NEW d, NEW R, EngineInv(e, R), NEW h \in Hash, Recommitted(d, e, h)
  PROVE  EngineInv(d, R)
<1>1. OwnInv(d) /\ ViewInv(d, R) /\ OnceInv(d, R)
  BY Zenon, VoteAddedInv DEF Recommitted, VoteCode
<1>2. LockInv(d) /\ CountInv(d)
  BY Zenon, CoreAssumption DEF EngineInv, Recommitted, LockInv, CountInv, Locked, SameLock, SameCounts
<1> QED
  BY Zenon, <1>1, <1>2 DEF EngineInv, Recommitted, Keeps

\* A counted vote of the engine's own is one it has sent.
LEMMA CountsTooInv ==
  ASSUME NEW e, NEW d, NEW R, EngineInv(e, R), Keeps(d, e), d.state # "AcceptRequest",
         d.seq = e.seq, d.round = e.round, d.preprepare = e.preprepare,
         NEW m \in Messages, m.from = Self => m \in e.sent, CountsToo(d, e, m)
  PROVE  CountInv(d)
<1>1. m = Msg(m.code, m.from, m.seq, m.round, m.hash)
  BY Zenon DEF Messages, Msg
<1>2. m.from = Self => Msg(m.code, Self, e.seq, e.round, e.preprepare) \in e.sent
  BY Zenon, <1>1 DEF CountsToo
<1> QED
  BY Zenon, <1>2 DEF EngineInv, CountInv, CountsToo, Keeps, VoteCode

\* Counting a vote keeps the invariant.
LEMMA VoteCountedInv ==
  ASSUME NEW e, NEW d, NEW R, EngineInv(e, R),
         NEW m \in Messages, m.from = Self => m \in e.sent, VoteCounted(d, e, m)
  PROVE  EngineInv(d, R)
<1>1. CountInv(d)
  BY Zenon, CountsTooInv DEF VoteCounted
<1>2. /\ d \in Engine /\ NotStuck(d) /\ e.sent \subseteq d.sent
      /\ \A k \in d.sent : k.code \in VoteCode => k \in e.sent
  BY Zenon DEF VoteCounted, NoVoteAdded, Keeps, EngineInv
<1>3. d.seq \in Seqs /\ LockInv(d)
  BY Zenon DEF VoteCounted, EngineInv, LockInv, Locked, SameLock
<1>4. OwnInv(d)
  BY Zenon, <1>2 DEF EngineInv, OwnInv, VoteCounted, Keeps
<1>5. ViewInv(d, R)
  BY Zenon, <1>2 DEF EngineInv, ViewInv, VoteCounted
<1>6. OnceInv(d, R)
  BY Zenon, <1>2 DEF EngineInv, OnceInv
<1> QED
  BY Zenon, <1>1, <1>2, <1>3, <1>4, <1>5, <1>6 DEF EngineInv

\* Locking the proposal keeps the invariant: the Commit vote is for the unit of
\* the Prepare vote.
LEMMA LockTakenInv ==
  ASSUME NEW e, NEW d, NEW R, EngineInv(e, R),
         NEW m \in Messages, m.from = Self => m \in e.sent, LockTaken(d, e, m)
  PROVE  EngineInv(d, R)
<1>1. CountInv(d)
  BY Zenon, CountsTooInv DEF LockTaken
<1>2. d.preprepare \in Hash /\ d.preprepare # Nil
  BY Zenon, CoreAssumption DEF LockTaken, EngineInv, LockInv, Engine, HashOrNil
<1>3. OwnInv(d) /\ ViewInv(d, R) /\ OnceInv(d, R)
  BY Zenon, <1>2, VoteAddedInv DEF LockTaken, VoteCode
<1>4. LockInv(d)
  BY Zenon, <1>2 DEF LockTaken, LockInv, Locked
<1> QED
  BY Zenon, <1>1, <1>3, <1>4 DEF EngineInv, LockTaken, Keeps

\* Deciding keeps the invariant.
LEMMA DecidedInv ==
  ASSUME NEW e, NEW d, NEW R, EngineInv(e, R),
         NEW m \in Messages, m.from = Self => m \in e.sent, Decided(d, e, m)
  PROVE  EngineInv(d, R)
<1>1. CountInv(d)
  BY Zenon, CountsTooInv DEF Decided
<1>2. /\ d \in Engine /\ NotStuck(d) /\ e.sent \subseteq d.sent
      /\ \A k \in d.sent : k.code \in VoteCode => k \in e.sent
  BY Zenon DEF Decided, NoVoteAdded, Keeps, EngineInv
<1>3. d.seq \in Seqs /\ LockInv(d)
  BY Zenon DEF Decided, EngineInv, LockInv, Locked
<1>4. OwnInv(d)
  BY Zenon, <1>2 DEF EngineInv, OwnInv, Decided, Keeps
<1>5. ViewInv(d, R)
  BY Zenon, <1>2 DEF EngineInv, ViewInv, Decided
<1>6. OnceInv(d, R)
  BY Zenon, <1>2 DEF EngineInv, OnceInv
<1> QED
  BY Zenon, <1>1, <1>2, <1>3, <1>4, <1>5, <1>6 DEF EngineInv

\* A higher round keeps the invariant: no vote lies in it yet.
LEMMA RoundStartedInv ==
  ASSUME NEW e, NEW d, NEW R, EngineInv(e, R), NEW r \in Round, RoundStarted(d, e, r)
  PROVE  EngineInv(d, R)
<1>1. /\ d \in Engine /\ NotStuck(d) /\ e.sent \subseteq d.sent
      /\ \A k \in d.sent : k.code \in VoteCode => k \in e.sent
  BY Zenon DEF RoundStarted, Keeps, EngineInv
<1>2. d.seq \in Seqs /\ LockInv(d) /\ CountInv(d)
  BY Zenon DEF RoundStarted, EngineInv, LockInv, CountInv, Locked
<1>3. OwnInv(d)
  BY Zenon, <1>1 DEF EngineInv, OwnInv, RoundStarted, Keeps
<1>4. ViewInv(d, R)
  <2>1. e.round \in Int /\ r \in Int /\ e.round < r
    BY CoreAssumption DEF EngineInv, Engine, Round, RoundStarted
  <2>2. \A m \in e.sent : m.round \in Int
    BY CoreAssumption DEF EngineInv, Engine, Messages
  <2> QED
    BY <1>1, <2>1, <2>2 DEF EngineInv, ViewInv, RoundStarted
<1>5. OnceInv(d, R)
  BY Zenon, <1>1 DEF EngineInv, OnceInv
<1> QED
  BY Zenon, <1>1, <1>2, <1>3, <1>4, <1>5 DEF EngineInv

\* A new height begins with no vote in it, or R has the height.
LEMMA HeightStartedInv ==
  ASSUME NEW e, NEW d, NEW R, NEW n \in Seqs, OwnInv(e), OnceInv(e, R),
         \A m \in e.sent : m.code \in VoteCode => m.seq <= n /\ (m.seq = n => n \in R),
         HeightStarted(d, e, n)
  PROVE  EngineInv(d, R)
<1>1. /\ d \in Engine /\ NotStuck(d) /\ e.sent \subseteq d.sent
      /\ \A k \in d.sent : k.code \in VoteCode => k \in e.sent
  BY Zenon, NotStuckAccepting DEF HeightStarted
<1>2. d.seq \in Seqs /\ LockInv(d) /\ CountInv(d)
  BY Zenon DEF HeightStarted, LockInv, CountInv, Locked
<1>3. OwnInv(d)
  BY Zenon, <1>1 DEF OwnInv, HeightStarted
<1>4. ViewInv(d, R)
  BY Zenon, <1>1 DEF ViewInv, HeightStarted
<1>5. OnceInv(d, R)
  BY Zenon, <1>1 DEF OnceInv
<1> QED
  BY Zenon, <1>1, <1>2, <1>3, <1>4, <1>5 DEF EngineInv

-----------------------------------------------------------------------------
\* The steps of the node around the engine.

\* What the node answers has its types, and its tail is the chain's.
LEMMA EnvsOK ==
  ASSUME Inv, NEW V \in SUBSET Verdict, NEW P \in SUBSET HashOrNil, NEW X,
         NEW env \in Envs(V, P, X)
  PROVE  EnvOK(env) /\ env.tail = Len(chain)
<1>1. PICK v \in V, p \in P, x \in X : env = EnvOf(v, p, x, chain)
  BY DEF Envs
<1>2. /\ env.tail = Len(chain) /\ env.pack = p /\ env.verdict = v
      /\ env.last = IF chain = << >> THEN Nil ELSE Author[chain[Len(chain)]]
  BY Zenon, <1>1 DEF EnvOf, Env
<1>3. chain # << >> => chain[Len(chain)] \in Hash
  BY DEF Inv
<1>4. env.last \in Witness \cup {Nil}
  BY Zenon, <1>2, <1>3, CoreAssumption
<1>5. env.tail \in 0..MaxSeq
  BY <1>2, LoadAssumption DEF Inv
<1> QED
  BY Zenon, <1>2, <1>4, <1>5 DEF EnvOK

\* The votes counted are votes of the others for units.
LEMMA CountsTyped ==
  ASSUME NEW e, NEW R, EngineInv(e, R) PROVE Counts(e) \subseteq PeerVotes
<1>1. CASE e.state = "AcceptRequest"
  BY Zenon, <1>1 DEF EngineInv, CountInv, Counts
<1>2. CASE e.state # "AcceptRequest"
  <2>1. e.preprepare \in Hash
    BY Zenon, <1>2, CoreAssumption DEF EngineInv, LockInv, Engine, States, HashOrNil, Locked
  <2>2. e.seq \in Seqs /\ e.round \in Round /\ e.prepares \subseteq Witness /\ e.commits \subseteq Witness
    BY Zenon DEF EngineInv, Engine
  <2>3. \A w \in Witness \ {Self}, c \in VoteCode : PeerVote(c, w, e.seq, e.round, e.preprepare) \in PeerVotes
    BY Zenon, <2>1, <2>2 DEF PeerVote, PeerVotes
  <2> QED
    BY Zenon, <2>2, <2>3 DEF Counts, VoteCode
<1> QED
  BY Zenon, <1>1, <1>2

\* A step that keeps the engine's invariant and the chain's keeps Inv.
LEMMA StepInv ==
  ASSUME Inv, NEW e, Step(e), EngineInv(e, restarted),
         chain' \in Seq(Hash), Len(chain') <= MaxSeq, e.seq <= Len(chain') + 1,
         heads' \subseteq Seqs
  PROVE  Inv'
<1>1. eng' = e /\ UNCHANGED <<load, restarted, restarts>> /\ Within(e)
  BY Zenon DEF Step
<1>2. EngineInv(eng, restarted)'
  BY ZenonT(40), <1>1 DEF EngineInv, LockInv, CountInv, OwnInv, ViewInv, OnceInv, NotStuck
<1>3. Counts(eng)' \subseteq counted' /\ counted' \subseteq PeerVotes
  BY Zenon, <1>1, CountsTyped DEF Step, Inv, Counts
<1>4. unlocked' \subseteq Seqs
  BY Zenon DEF Step, Inv, EngineInv
<1> QED
  BY Zenon, <1>1, <1>2, <1>3, <1>4 DEF Inv, Within

\* The engine without a message it has taken.
LEMMA TakenInv ==
  ASSUME Inv, NEW m
  PROVE  Quiet([eng EXCEPT !.inbox = @ \ {m}], eng)
<1>1. eng \in Engine
  BY Zenon DEF Inv, EngineInv
<1>2. PICK x \in SUBSET Messages : x = eng.inbox \ {m}
  BY Zenon, <1>1 DEF Engine
<1> DEFINE d == [eng EXCEPT !.inbox = x]
<1>3. d \in Engine
  BY <1>1 DEF Engine
<1>4. SameView(d, eng) /\ d.sent = eng.sent /\ d.inbox \subseteq eng.inbox /\ d.backlog = eng.backlog /\ (Clocked(eng) => Clocked(d))
  BY Zenon, <1>1, <1>2 DEF Engine, SameView, Clocked
<1> QED
  BY Zenon, <1>1, <1>2, <1>3, <1>4, QuietFields

\* What calls keep, they keep after a quiet call.
LEMMA KeepsAfterQuiet ==
  ASSUME NEW d, NEW x, NEW e, Keeps(d, x), Quiet(x, e) PROVE Keeps(d, e)
  BY Zenon DEF Keeps, Quiet

\* Handling a message, seen from the engine that still had it.
LEMMA HandledAfterQuiet ==
  ASSUME NEW d, NEW x, NEW e, NEW m, MsgHandled(d, x, m), Quiet(x, e)
  PROVE  MsgHandled(d, e, m)
<1>1. /\ x.seq = e.seq /\ x.round = e.round /\ x.state = e.state
      /\ x.preprepare = e.preprepare /\ x.prepares = e.prepares /\ x.commits = e.commits
      /\ x.lock = e.lock /\ x.lockRound = e.lockRound
      /\ \A k \in x.sent \ e.sent : k.code \notin VoteCode
  BY Zenon DEF Quiet, SameView
<1>2. Keeps(d, x) => Keeps(d, e)
  BY Zenon, KeepsAfterQuiet
<1>3. NoVoteAdded(d, x) => NoVoteAdded(d, e)
  BY Zenon, <1>1 DEF NoVoteAdded
<1>4. \A c \in VoteCode : VoteAdded(d, x, c) => VoteAdded(d, e, c)
  BY Zenon, <1>1 DEF VoteAdded
<1>5. Quiet(d, x) => Quiet(d, e)
  BY Zenon, QuietTrans
<1>6. \A h : Accepted(d, x, h) => Accepted(d, e, h)
  BY Zenon, <1>1, <1>2, <1>4 DEF Accepted, SameCounts, SameLock, Locked, VoteCode
<1>7. \A h : Recommitted(d, x, h) => Recommitted(d, e, h)
  BY Zenon, <1>1, <1>2, <1>4 DEF Recommitted, SameCounts, SameLock, VoteCode
<1>8. CountsToo(d, x, m) => CountsToo(d, e, m)
  BY Zenon, <1>1 DEF CountsToo
<1>9. VoteCounted(d, x, m) => VoteCounted(d, e, m)
  BY Zenon, <1>1, <1>2, <1>3, <1>8 DEF VoteCounted, SameLock
<1>10. LockTaken(d, x, m) => LockTaken(d, e, m)
  BY Zenon, <1>1, <1>2, <1>4, <1>8 DEF LockTaken, VoteCode
<1>11. Decided(d, x, m) => Decided(d, e, m)
  BY Zenon, <1>1, <1>2, <1>3, <1>8 DEF Decided
<1>12. RoundStarted(d, x, m.round) => RoundStarted(d, e, m.round)
  <2>1. NoVoteAdded(d, x) => NoVoteAdded(d, e)
    BY Zenon, <1>3
  <2> QED
    BY Zenon, <1>1, <1>2, <2>1 DEF RoundStarted, Locked, NoVoteAdded
<1> QED
  BY Zenon, <1>5, <1>6, <1>7, <1>9, <1>10, <1>11, <1>12 DEF MsgHandled

\* A message taken from the queue or from a peer is one the engine may handle.
LEMMA ReceiveHandles ==
  ASSUME Inv, NEW m \in eng.inbox \cup load.msgs, Receive(m)
  PROVE  /\ m \in Messages /\ m.round \in Round /\ (m.from = Self => m \in eng.sent)
         /\ MsgHandled(eng', eng, m) /\ Step(eng')
         /\ IF eng'.state = "Committed" /\ eng.state # "Committed"
            THEN Insert(eng'.preprepare) ELSE UNCHANGED <<chain, heads>>
<1> DEFINE x == [eng EXCEPT !.inbox = @ \ {m}]
<1>1. load \in Loads /\ eng \in Engine
  BY Zenon DEF Inv, EngineInv
<1>2. m \in Messages /\ (m.from = Self => m \in eng.sent)
  BY Zenon, <1>1, LoadAssumption DEF Inv, EngineInv, OwnInv, Engine
<1>3. m.round \in Round
  BY <1>1, <1>2, LoadAssumption, CoreAssumption DEF Receive, Messages, Round
<1>4. Quiet(x, eng) /\ EngineInv(x, restarted)
  BY Zenon, TakenInv, QuietInv DEF Inv
<1>5. x \in Engine /\ x.seq \in Seqs /\ LockState(x) /\ (m.from = Self => m \in x.sent)
  BY Zenon, <1>2, <1>4 DEF EngineInv, LockInv, LockState, Quiet, Keeps
<1>6. PICK env \in Envs(IF m.code = "Preprepare" THEN Verdict ELSE {"ok"},
                        IF m.code = "RoundChange" THEN Packs ELSE {Nil},
                        IF m.code = "CheckPendingTx" THEN BOOLEAN ELSE {TRUE}) :
        LET e == HandleMsg(x, m, env)
        IN  /\ Step(e)
            /\ IF e.state = "Committed" /\ eng.state # "Committed"
               THEN Insert(e.preprepare) ELSE UNCHANGED <<chain, heads>>
  BY Zenon DEF Receive
<1>7. EnvOK(env)
  <2>1. (IF m.code = "Preprepare" THEN Verdict ELSE {"ok"}) \in SUBSET Verdict
    BY Zenon DEF Verdict
  <2>2. (IF m.code = "RoundChange" THEN Packs ELSE {Nil}) \in SUBSET HashOrNil
    BY Zenon DEF Packs, HashOrNil
  <2> QED
    BY Zenon, <2>1, <2>2, EnvsOK
<1> HIDE DEF x
<1>8. MsgHandled(HandleMsg(x, m, env), x, m)
  BY Zenon, <1>2, <1>3, <1>5, <1>7, HandleMsgHandles
<1>9. MsgHandled(HandleMsg(x, m, env), eng, m)
  BY Zenon, <1>4, <1>8, HandledAfterQuiet
<1>10. eng' = HandleMsg(x, m, env)
  BY Zenon, <1>6 DEF Step
<1> QED
  BY Zenon, <1>2, <1>3, <1>6, <1>9, <1>10

\* Every other event leaves the voting state alone or starts a height.
EventHandled ==
  /\ Step(eng') /\ chain' = chain /\ heads' \subseteq heads
  /\ \/ Quiet(eng', eng)
     \/ Len(chain) >= eng.seq /\ HeightStarted(eng', eng, Len(chain) + 1)

\* Each event other than a message, and the timer's tick, is such a step.
LEMMA EventHandles ==
  ASSUME Inv,
         \/ \E n \in heads : NewNumber(n)
         \/ \E q \in eng.requests : NewProposal(q)
         \/ NewTx
         \/ \E r \in eng.fired : ChangeRound(r)
         \/ Pack
         \/ Step(TimerFire(eng)) /\ UNCHANGED <<chain, heads>>
  PROVE  EventHandled
<1>1. eng \in Engine /\ eng.seq \in Seqs
  BY Zenon DEF Inv, EngineInv
<1>2. \A X : \A env \in Envs({"ok"}, {Nil}, X) : EnvOK(env) /\ env.tail = Len(chain)
  <2>1. {"ok"} \in SUBSET Verdict /\ {Nil} \in SUBSET HashOrNil
    BY Zenon DEF Verdict, HashOrNil
  <2> QED
    BY Zenon, <2>1, EnvsOK
<1>3. ASSUME NEW e, Step(e) PROVE eng' = e
  BY Zenon, <1>3 DEF Step
<1>4. ASSUME NEW n \in heads, NewNumber(n) PROVE EventHandled
  <2>1. PICK env \in Envs({"ok"}, {Nil}, BOOLEAN) : Step(HandleNewNumber(eng, n, env))
    BY Zenon, <1>4 DEF NewNumber
  <2>2. EnvOK(env) /\ env.tail = Len(chain)
    BY Zenon, <1>2
  <2>3. eng' = HandleNewNumber(eng, n, env)
    BY Zenon, <2>1, <1>3
  <2>4. \/ Quiet(eng', eng)
        \/ Len(chain) >= eng.seq /\ HeightStarted(eng', eng, Len(chain) + 1)
    BY Zenon, <1>1, <2>2, <2>3, HandleNewNumberStarts
  <2> QED
    BY Zenon, <1>4, <2>1, <2>3, <2>4 DEF NewNumber, EventHandled
<1>5. ASSUME NEW q \in eng.requests, NewProposal(q) PROVE EventHandled
  <2>1. PICK y \in SUBSET [seq : 1..(MaxSeq + 1), hash : Hash] : y = eng.requests \ {q}
    BY Zenon, <1>1 DEF Engine
  <2> DEFINE x == [eng EXCEPT !.requests = y]
  <2>2. [eng EXCEPT !.requests = @ \ {q}] = x
    BY Zenon, <1>1, <2>1 DEF Engine
  <2>3. x \in Engine
    BY <1>1 DEF Engine
  <2>4. SameView(x, eng) /\ x.sent = eng.sent /\ x.inbox = eng.inbox /\ x.backlog = eng.backlog /\ (Clocked(eng) => Clocked(x))
    BY Zenon, <1>1 DEF Engine, SameView, Clocked
  <2> HIDE DEF x
  <2>5. Quiet(x, eng) /\ x.seq \in Seqs
    BY Zenon, <1>1, <2>3, <2>4, QuietFields DEF SameView
  <2>6. q.hash \in Hash
    BY Zenon, <1>1 DEF Engine
  <2>7. Quiet(HandleRequest(x, q), eng)
    BY Zenon, <2>3, <2>5, <2>6, QuietHandleRequest, QuietTrans
  <2>8. Step(HandleRequest(x, q)) /\ UNCHANGED <<chain, heads>>
    BY Zenon, <1>5, <2>2 DEF NewProposal
  <2>9. eng' = HandleRequest(x, q)
    BY Zenon, <2>8, <1>3
  <2> QED
    BY Zenon, <2>7, <2>8, <2>9 DEF EventHandled
<1>6. ASSUME NewTx PROVE EventHandled
  <2>1. PICK env \in Envs({"ok"}, {Nil}, BOOLEAN) : Step(HandleNewTx(eng, env))
    BY Zenon, <1>6 DEF NewTx
  <2>2. Quiet(HandleNewTx(eng, env), eng)
    BY Zenon, <1>1, QuietSelf, QuietRefresh DEF HandleNewTx
  <2>3. eng' = HandleNewTx(eng, env)
    BY Zenon, <2>1, <1>3
  <2> QED
    BY Zenon, <1>6, <2>1, <2>2, <2>3 DEF NewTx, EventHandled
<1>7. ASSUME NEW r \in eng.fired, ChangeRound(r) PROVE EventHandled
  <2>1. PICK env \in Envs({"ok"}, {Nil}, BOOLEAN), b \in Branch :
          Step(HandleTimeout([eng EXCEPT !.fired = @ \ {r}], r, b, env))
    BY Zenon, <1>7 DEF ChangeRound
  <2> DEFINE d == HandleTimeout([eng EXCEPT !.fired = @ \ {r}], r, b, env)
  <2>2. Quiet(d, eng)
    BY Zenon, <1>1, QuietHandleTimeout
  <2>3. Step(d)
    BY Zenon, <2>1
  <2> HIDE DEF d
  <2>4. eng' = d
    BY Zenon, <2>3, <1>3
  <2> QED
    BY Zenon, <1>7, <2>2, <2>3, <2>4 DEF ChangeRound, EventHandled
<1>8. ASSUME Pack PROVE EventHandled
  <2>1. PICK env \in Envs({"ok"}, Packs, {TRUE}) : Step(PackDone(eng, env))
    BY Zenon, <1>8 DEF Pack
  <2>2. EnvOK(env)
    <3>1. {"ok"} \in SUBSET Verdict /\ Packs \in SUBSET HashOrNil
      BY Zenon DEF Verdict, HashOrNil, Packs
    <3> QED
      BY Zenon, <3>1, EnvsOK
  <2>3. Quiet(PackDone(eng, env), eng)
    BY Zenon, <1>1, <1>8, <2>2, QuietPackDone DEF Pack
  <2>4. eng' = PackDone(eng, env)
    BY Zenon, <2>1, <1>3
  <2> QED
    BY Zenon, <1>8, <2>1, <2>3, <2>4 DEF Pack, EventHandled
<1>9. ASSUME Step(TimerFire(eng)), UNCHANGED <<chain, heads>> PROVE EventHandled
  <2>1. Quiet(TimerFire(eng), eng)
    BY Zenon, <1>1, QuietTimerFire
  <2>2. eng' = TimerFire(eng)
    BY Zenon, <1>9, <1>3
  <2> QED
    BY Zenon, <1>9, <2>1, <2>2 DEF EventHandled
<1> QED
  BY Zenon, <1>4, <1>5, <1>6, <1>7, <1>8, <1>9

\* A new engine that takes over messages and requests of the old one.
Fresh(e) ==
  /\ e \in Engine /\ e.seq = 0 /\ e.backlog = {} /\ e.packing = 0

\* core.New makes a fresh engine.
LEMMA NewFresh ==
  /\ Fresh(New(Self)) /\ New(Self).sent = {} /\ New(Self).inbox = {}
<1>1. /\ NoVotes \in [Round -> SUBSET Witness] /\ NoHashes \in [Witness -> HashOrNil]
      /\ Nil \in HashOrNil /\ 0 \in Round /\ 0 \in Witness
  BY CoreAssumption DEF NoVotes, NoHashes, HashOrNil, Round, Witness
<1>2. New(Self) \in Engine
  BY Zenon, <1>1 DEF New, Engine, States
<1> QED
  BY Zenon, <1>2 DEF New, Fresh

\* The engine is lost and a new one starts above the stored chain.
LEMMA ReplaceStarts ==
  ASSUME Inv, NEW kept, Fresh(kept), kept.sent = eng.sent, kept.inbox \subseteq eng.inbox,
         Replace(kept)
  PROVE  /\ Len(chain) + 1 \in Seqs /\ HeightStarted(eng', kept, Len(chain) + 1)
         /\ EngineInv(eng', restarted')
         /\ \A m \in eng'.sent : m.code \in VoteCode => m \in eng.sent
         /\ eng.sent \subseteq eng'.sent
<1>1. Len(chain) \in Nat /\ Len(chain) + 1 \in Seqs /\ eng.seq \in Nat
  BY LoadAssumption DEF Inv, Replace, Seqs, EngineInv
<1>2. PICK env \in Envs({"ok"}, {Nil}, BOOLEAN) : eng' = Start(kept, env)
  BY Zenon DEF Replace
<1>3. EnvOK(env) /\ env.tail = Len(chain)
  <2>1. {"ok"} \in SUBSET Verdict /\ {Nil} \in SUBSET HashOrNil
    BY Zenon DEF Verdict, HashOrNil
  <2> QED
    BY Zenon, <2>1, EnvsOK
<1>4. HeightStarted(eng', kept, Len(chain) + 1)
  BY <1>1, <1>2, <1>3, StartStarts DEF Fresh
<1>5. restarted' = restarted \cup {Len(chain) + 1}
  BY Zenon DEF Replace
<1>6. OwnInv(kept) /\ OnceInv(kept, restarted')
  BY Zenon, <1>5 DEF Inv, EngineInv, OwnInv, OnceInv, Fresh
<1>7. \A m \in kept.sent : m.code \in VoteCode =>
        m.seq <= Len(chain) + 1 /\ (m.seq = Len(chain) + 1 => Len(chain) + 1 \in restarted')
  <2>1. \A m \in kept.sent : m.seq \in Nat
    BY LoadAssumption DEF Fresh, Engine, Messages, Seqs
  <2>2. \A m \in kept.sent : m.code \in VoteCode => m.seq <= eng.seq
    BY Zenon DEF Inv, EngineInv, ViewInv
  <2>3. eng.seq <= Len(chain) + 1
    BY Zenon DEF Inv
  <2> QED
    BY <1>1, <1>5, <2>1, <2>2, <2>3
<1>8. EngineInv(eng', restarted')
  BY Zenon, <1>1, <1>4, <1>6, <1>7, HeightStartedInv
<1> QED
  BY Zenon, <1>1, <1>4, <1>8 DEF HeightStarted

\* The two ways to lose an engine.
LEMMA LostStarts ==
  ASSUME Inv, Free \/ Crash
  PROVE  \E kept : /\ Fresh(kept) /\ kept.sent = eng.sent /\ kept.inbox \subseteq eng.inbox
                   /\ Replace(kept)
<1>1. eng \in Engine
  BY Zenon DEF Inv, EngineInv
<1>2. Fresh(New(Self)) /\ New(Self) \in Engine /\ New(Self).inbox = {}
  BY Zenon, NewFresh DEF Fresh
<1>3. CASE Free
  <2> DEFINE k == [New(Self) EXCEPT !.inbox = eng.inbox, !.requests = eng.requests,
                                    !.deleting = eng.deleting, !.sent = eng.sent]
  <2>1. k \in Engine
    BY Zenon, <1>1, <1>2 DEF Engine
  <2>2. k.sent = eng.sent /\ k.inbox = eng.inbox /\ k.seq = 0 /\ k.backlog = {} /\ k.packing = 0
    BY Zenon, <1>2 DEF Engine, Fresh
  <2>3. Replace(k)
    BY Zenon, <1>3 DEF Free
  <2> QED
    BY Zenon, <2>1, <2>2, <2>3 DEF Fresh
<1>4. CASE Crash
  <2> DEFINE k == [New(Self) EXCEPT !.sent = eng.sent]
  <2>1. k \in Engine
    BY <1>1, <1>2 DEF Engine
  <2>2. k.sent = eng.sent /\ k.inbox = {} /\ k.seq = 0 /\ k.backlog = {} /\ k.packing = 0
    BY Zenon, <1>2 DEF Engine, Fresh
  <2>3. Replace(k)
    BY Zenon, <1>4 DEF Crash
  <2> QED
    BY Zenon, <2>1, <2>2, <2>3 DEF Fresh
<1> QED
  BY Zenon, <1>3, <1>4

-----------------------------------------------------------------------------
\* The invariant holds.

\* The invariant holds when the first engine has started.
LEMMA InitInv == Init => Inv
<1> SUFFICES ASSUME Init PROVE Inv
  BY Zenon
<1>1. PICK env \in Envs({"ok"}, {Nil}, BOOLEAN) : eng = Start(New(Self), env)
  BY Zenon DEF Init
<1>2. EnvOK(env) /\ env.tail = 0
  <2>1. PICK x \in BOOLEAN : env = EnvOf("ok", Nil, x, << >>)
    BY DEF Envs, Init
  <2> QED
    BY <2>1, LoadAssumption DEF EnvOf, Env, EnvOK, HashOrNil, Verdict
<1>3. /\ New(Self) \in Engine /\ New(Self).seq = 0 /\ New(Self).sent = {}
      /\ New(Self).inbox = {} /\ New(Self).backlog = {}
  BY Zenon, NewFresh DEF Fresh
<1>4. HeightStarted(eng, New(Self), 1)
  BY <1>1, <1>2, <1>3, StartStarts
<1>5. 1 \in Seqs
  BY LoadAssumption DEF Seqs
<1>6. OwnInv(New(Self)) /\ OnceInv(New(Self), {})
  BY Zenon, <1>3 DEF OwnInv, OnceInv
<1>7. EngineInv(eng, restarted)
  BY Zenon, <1>3, <1>4, <1>5, <1>6, HeightStartedInv DEF Init
<1>8. Counts(eng) = {}
  BY Zenon, <1>4 DEF HeightStarted, Counts
<1>9. load \in Loads /\ eng.packing <= load.packing /\ 0 \in 0..load.restarts
  BY LoadAssumption DEF Init, Within
<1>10. chain \in Seq(Hash) /\ Len(chain) = 0 /\ Len(chain) <= MaxSeq /\ eng.seq <= Len(chain) + 1
  BY <1>4, LoadAssumption DEF Init, HeightStarted
<1> QED
  BY Zenon, <1>7, <1>8, <1>9, <1>10 DEF Init, Inv

\* A message keeps it.
LEMMA ReceiveInv ==
  ASSUME Inv, NEW m \in eng.inbox \cup load.msgs, Receive(m) PROVE Inv'
<1>1. /\ m \in Messages /\ m.round \in Round /\ (m.from = Self => m \in eng.sent)
      /\ MsgHandled(eng', eng, m) /\ Step(eng')
      /\ IF eng'.state = "Committed" /\ eng.state # "Committed"
         THEN Insert(eng'.preprepare) ELSE UNCHANGED <<chain, heads>>
  BY Zenon, ReceiveHandles
<1>2. EngineInv(eng, restarted)
  BY Zenon DEF Inv
<1>3. EngineInv(eng', restarted)
  BY Zenon, <1>1, <1>2, QuietInv, AcceptedInv, RecommittedInv, VoteCountedInv, LockTakenInv,
     DecidedInv, RoundStartedInv DEF MsgHandled
<1>4. eng'.seq = eng.seq
  BY Zenon, <1>1 DEF MsgHandled, Quiet, SameView, Accepted, Recommitted, VoteCounted, LockTaken,
              Decided, RoundStarted
<1>5. eng'.state = "Committed" => eng'.preprepare \in Hash
  BY Zenon, <1>3, CoreAssumption DEF EngineInv, LockInv, Locked, Engine, HashOrNil
<1>6. /\ chain' \in Seq(Hash) /\ heads' \subseteq Seqs
      /\ Len(chain') <= MaxSeq /\ eng.seq <= Len(chain') + 1
  <2>1. CASE UNCHANGED <<chain, heads>>
    BY Zenon, <2>1 DEF Inv
  <2>2. CASE /\ eng'.state = "Committed" /\ eng.seq = Len(chain) + 1
             /\ chain' = Append(chain, eng'.preprepare)
             /\ heads' = heads \cup {eng.seq}
    <3>1. eng.seq \in Seqs /\ chain \in Seq(Hash) /\ heads \subseteq Seqs
      BY Zenon DEF Inv, EngineInv
    <3>2. chain' \in Seq(Hash) /\ Len(chain') = Len(chain) + 1
      <4> DEFINE h == eng'.preprepare
      <4>1. h \in Hash
        BY Zenon, <1>5, <2>2
      <4>2. chain' = Append(chain, h)
        BY Zenon, <2>2
      <4> HIDE DEF h
      <4> QED
        BY <3>1, <4>1, <4>2
    <3>3. Len(chain) \in Nat /\ eng.seq = Len(chain) + 1 /\ eng.seq <= MaxSeq
      BY <2>2, <3>1, LoadAssumption DEF Seqs
    <3>4. heads' \subseteq Seqs
      BY Zenon, <2>2, <3>1
    <3>5. Len(chain') <= MaxSeq /\ eng.seq <= Len(chain') + 1
      BY <3>2, <3>3
    <3> QED
      BY Zenon, <3>2, <3>4, <3>5
  <2> QED
    BY Zenon, <1>1, <2>1, <2>2 DEF Insert
<1> QED
  BY Zenon, <1>1, <1>3, <1>4, <1>6, StepInv

\* A stored height lies below every vote the engine may sign at the next.
LEMMA NewHeightInv ==
  ASSUME Inv, Len(chain) >= eng.seq, Len(chain) + 1 \in Seqs,
         HeightStarted(eng', eng, Len(chain) + 1)
  PROVE  EngineInv(eng', restarted)
<1>1. OwnInv(eng) /\ OnceInv(eng, restarted)
  BY Zenon DEF Inv, EngineInv
<1>2. \A m \in eng.sent : m.code \in VoteCode => m.seq <= eng.seq
  BY Zenon DEF Inv, EngineInv, ViewInv
<1>3. eng.seq \in Nat /\ Len(chain) \in Nat /\ \A m \in eng.sent : m.seq \in Nat
  BY LoadAssumption DEF Inv, EngineInv, Engine, Messages, Seqs
<1>4. \A m \in eng.sent : m.code \in VoteCode =>
        m.seq <= Len(chain) + 1 /\ (m.seq = Len(chain) + 1 => Len(chain) + 1 \in restarted)
  BY <1>2, <1>3
<1> QED
  BY Zenon, <1>1, <1>4, HeightStartedInv

\* The other events keep it.
LEMMA EventInv ==
  ASSUME Inv, EventHandled PROVE Inv'
<1>1. EngineInv(eng, restarted) /\ Step(eng') /\ chain' = chain /\ heads' \subseteq Seqs
  BY Zenon DEF Inv, EventHandled
<1>2. eng'.seq \in Int => eng'.seq <= MaxSeq
  BY <1>1, LoadAssumption DEF Step, Within, Inv, Seqs
<1>3. CASE Quiet(eng', eng)
  <2>1. EngineInv(eng', restarted)
    BY Zenon, <1>1, <1>3, QuietInv
  <2>2. eng'.seq = eng.seq
    BY Zenon, <1>3 DEF Quiet, SameView
  <2> QED
    BY Zenon, <1>1, <2>1, <2>2, StepInv DEF Inv
<1>4. CASE Len(chain) >= eng.seq /\ HeightStarted(eng', eng, Len(chain) + 1)
  <2>1. eng'.seq = Len(chain) + 1 /\ Len(chain) \in Nat
    BY <1>4 DEF HeightStarted, Inv
  <2>2. Len(chain) + 1 \in Seqs
    BY <1>2, <2>1, LoadAssumption DEF Seqs
  <2>3. EngineInv(eng', restarted)
    BY Zenon, <1>4, <2>2, NewHeightInv
  <2>4. eng'.seq <= Len(chain') + 1
    BY <1>1, <2>1
  <2> QED
    BY Zenon, <1>1, <2>3, <2>4, StepInv DEF Inv
<1> QED
  BY Zenon, <1>3, <1>4 DEF EventHandled

\* A task deleted by the timer loop changes nothing but the clock.
LEMMA TimerDeleteInv ==
  ASSUME Inv, Step(TimerDelete(eng)), UNCHANGED <<chain, heads>>
  PROVE  Inv' /\ SameView(eng', eng) /\ eng'.sent = eng.sent
<1>1. eng' = TimerDelete(eng) /\ EngineInv(eng, restarted)
  BY Zenon DEF Step, Inv
<1>2. /\ eng' \in Engine /\ SameView(eng', eng)
      /\ eng'.sent = eng.sent /\ eng'.inbox = eng.inbox /\ eng'.backlog = eng.backlog
  BY Zenon, <1>1, TimerDeletes DEF EngineInv
<1>3. NotStuck(eng')
  BY Zenon, <1>1, <1>2, SameNotStuck DEF EngineInv
<1>4. EngineInv(eng', restarted)
  <2>1. eng'.seq \in Seqs /\ LockInv(eng') /\ CountInv(eng')
    BY Zenon, <1>1, <1>2 DEF SameView, EngineInv, LockInv, CountInv, Locked
  <2>2. OwnInv(eng') /\ ViewInv(eng', restarted) /\ OnceInv(eng', restarted)
    BY <1>1, <1>2 DEF SameView, EngineInv, OwnInv, ViewInv, OnceInv
  <2> QED
    BY Zenon, <1>2, <1>3, <2>1, <2>2 DEF EngineInv
<1>5. eng'.seq = eng.seq
  BY Zenon, <1>2 DEF SameView
<1> QED
  BY Zenon, <1>1, <1>2, <1>4, <1>5, StepInv DEF Inv

\* A unit stored by synchronisation keeps it.
LEMMA SyncInv == ASSUME Inv, NEW h \in Hash, Sync(h) PROVE Inv'
<1>1. /\ chain \in Seq(Hash) /\ Len(chain) \in Nat /\ load \in Loads
      /\ eng.seq \in Nat /\ eng.seq <= Len(chain) + 1
  BY LoadAssumption DEF Inv, EngineInv, Seqs
<1>2. Len(chain) + 1 \in Seqs
  BY <1>1, LoadAssumption DEF Sync, Seqs
<1>3. chain' = Append(chain, h) /\ heads' = heads \cup {Len(chain) + 1}
      /\ UNCHANGED <<load, eng, unlocked, restarted, restarts>>
  BY Zenon DEF Sync
<1>4. chain' \in Seq(Hash) /\ Len(chain') = Len(chain) + 1
  BY <1>1, <1>3
<1>5. counted \subseteq counted' /\ counted' \subseteq PeerVotes
  <2>1. \A w \in Witness \ {Self} : PeerVote("Commit", w, Len(chain) + 1, 0, h) \in PeerVotes
    BY <1>2, CoreAssumption DEF PeerVote, PeerVotes, VoteCode, Round
  <2> QED
    BY Zenon, <2>1 DEF Sync, Inv
<1>6. Counts(eng)' = Counts(eng) /\ EngineInv(eng, restarted)'
  BY Zenon, <1>3, EngineSame DEF Inv
<1>7. Len(chain') <= MaxSeq /\ eng.seq <= Len(chain') + 1
  BY <1>1, <1>2, <1>4, LoadAssumption DEF Seqs
<1>8. heads' \subseteq Seqs
  BY Zenon, <1>2, <1>3 DEF Inv
<1> QED
  BY Zenon, <1>3, <1>4, <1>5, <1>6, <1>7, <1>8 DEF Inv

\* Losing the engine and starting another keeps it.
LEMMA LostInv == ASSUME Inv, Free \/ Crash PROVE Inv'
<1>1. PICK kept : /\ Fresh(kept) /\ kept.sent = eng.sent /\ kept.inbox \subseteq eng.inbox
                  /\ Replace(kept)
  BY Zenon, LostStarts
<1>2. /\ Len(chain) + 1 \in Seqs /\ HeightStarted(eng', kept, Len(chain) + 1)
      /\ EngineInv(eng', restarted')
  BY Zenon, <1>1, ReplaceStarts
<1>3. /\ UNCHANGED <<load, chain, counted, unlocked>> /\ Within(eng')
      /\ restarted' = restarted \cup {Len(chain) + 1}
      /\ restarts < load.restarts /\ restarts' = restarts + 1
  BY Zenon, <1>1 DEF Replace
<1>4. heads' \subseteq Seqs
  BY Zenon DEF Inv, Free, Crash
<1>5. Counts(eng') = {}
  BY Zenon, <1>2 DEF HeightStarted, Counts
<1>6. (EngineInv(eng, restarted) /\ Counts(eng) \subseteq counted)'
  BY Zenon, <1>2, <1>3, <1>5 DEF EngineInv, LockInv, CountInv, OwnInv, ViewInv, OnceInv, NotStuck, Counts
<1>7. restarts' \in 0..load'.restarts
  BY <1>3, LoadAssumption DEF Inv
<1>8. eng'.packing <= load.packing
  BY Zenon, <1>3 DEF Within
<1>9. eng'.seq <= Len(chain) + 1
  BY <1>2, LoadAssumption DEF HeightStarted, Seqs
<1> QED
  BY Zenon, <1>2, <1>3, <1>4, <1>6, <1>7, <1>8, <1>9 DEF Inv

\* Every step keeps it.
LEMMA NextInv == Inv /\ [Next]_vars => Inv'
<1> SUFFICES ASSUME Inv, [Next]_vars PROVE Inv'
  BY Zenon
<1>1. CASE UNCHANGED vars
  <2>1. EngineInv(eng, restarted)' /\ Counts(eng)' = Counts(eng)
    BY Zenon, <1>1, EngineSame DEF vars, Inv
  <2> QED
    BY Zenon, <1>1, <2>1 DEF vars, Inv
<1>2. ASSUME NEW m \in eng.inbox \cup load.msgs, Receive(m) PROVE Inv'
  BY Zenon, <1>2, ReceiveInv
<1>3. ASSUME \/ \E n \in heads : NewNumber(n)
             \/ \E q \in eng.requests : NewProposal(q)
             \/ NewTx
             \/ \E r \in eng.fired : ChangeRound(r)
             \/ Pack
             \/ Step(TimerFire(eng)) /\ UNCHANGED <<chain, heads>>
      PROVE  Inv'
  BY Zenon, <1>3, EventHandles, EventInv
<1>4. ASSUME Step(TimerDelete(eng)), UNCHANGED <<chain, heads>> PROVE Inv'
  BY Zenon, <1>4, TimerDeleteInv
<1>5. ASSUME NEW h \in Hash, Sync(h) PROVE Inv'
  BY Zenon, <1>5, SyncInv
<1>6. ASSUME Free \/ Crash PROVE Inv'
  BY Zenon, <1>6, LostInv
<1> QED
  BY Zenon, <1>1, <1>2, <1>3, <1>4, <1>5, <1>6 DEF Next, Timer

\* The inductive invariant holds in every reachable state of the engine.
THEOREM Invariance == Spec => []Inv
  BY InitInv, NextInv, PTL DEF Spec

-----------------------------------------------------------------------------
\* What the invariant gives.

\* core keeps its types, and never signs a vote for the empty proposal, in any
\* group and under any load.
THEOREM EngineTypes == Spec => []TypeOK
<1>1. Inv => TypeOK
  <2> SUFFICES ASSUME Inv PROVE TypeOK
    BY Zenon
  <2>1. eng \in Engine /\ eng.seq \in Seqs /\ load \in Loads /\ OwnInv(eng)
    BY Zenon DEF Inv, EngineInv
  <2>2. \A m \in eng.sent : m.code \in {"Prepare", "Commit"} => m.hash # Nil
    BY Zenon, <2>1, CoreAssumption DEF OwnInv, VoteCode
  <2>3. eng.packing \in 0..load.packing
    BY <2>1, LoadAssumption DEF Inv, Engine
  <2> QED
    BY Zenon, <2>1, <2>2, <2>3 DEF Inv, TypeOK, Engine, States
<1> QED
  BY <1>1, Invariance, PTL

\* A locked engine holds the locked unit as its proposal, an engine in Preprepared
\* holds no lock, and one in Prepared or Committed does.
THEOREM LockIsProposal == Spec => []LockedOnProposal
<1>1. Inv => LockedOnProposal
  BY Zenon DEF Inv, EngineInv, LockInv, LockedOnProposal
<1> QED
  BY <1>1, Invariance, PTL

\* An engine that is not lost votes for one unit in one view, Prepare and Commit
\* votes together, whatever reaches it.
THEOREM OneUnitInOneView == Spec => []VoteOnce
<1>1. Inv => VoteOnce
  BY Zenon DEF Inv, EngineInv, OnceInv, VoteOnce, VoteCode
<1> QED
  BY <1>1, Invariance, PTL

\* No vote that the engine could count now stays in the backlog.
THEOREM NoVoteStuck == Spec => []VotesNotStuck
<1>1. Inv => VotesNotStuck
  BY Zenon DEF Inv, EngineInv, NotStuck, VotesNotStuck, VoteCode
<1> QED
  BY <1>1, Invariance, PTL

\* An active, undecided engine loses its clock only to the task deletion of the
\* timer loop.
THEOREM ClockNotLost == Spec => ClockKept
<1>1. Inv /\ [Next]_vars =>
        [HasClock /\ ~HasClock' /\ eng'.activated /\ eng'.state # "Committed"
           => eng.deleting]_vars
  <2> SUFFICES ASSUME Inv, Next, HasClock, eng'.activated, eng'.state # "Committed",
                      ~eng.deleting
               PROVE  HasClock'
    BY Zenon
  <2>1. SUFFICES Clocked(eng')
    BY Zenon DEF Clocked, HasClock
  <2>2. Clocked(eng)
    BY Zenon DEF Clocked, HasClock
  <2>3. ASSUME Keeps(eng', eng) \/ (\E k : HeightStarted(eng', k, Len(chain) + 1))
        PROVE  Clocked(eng')
    BY Zenon, <2>2, <2>3 DEF Keeps, HeightStarted
  <2>4. ASSUME NEW m \in eng.inbox \cup load.msgs, Receive(m) PROVE Clocked(eng')
    BY Zenon, <2>3, <2>4, ReceiveHandles
       DEF MsgHandled, Quiet, Accepted, Recommitted, VoteCounted, LockTaken, Decided, RoundStarted
  <2>5. ASSUME \/ \E n \in heads : NewNumber(n)
               \/ \E q \in eng.requests : NewProposal(q)
               \/ NewTx
               \/ \E r \in eng.fired : ChangeRound(r)
               \/ Pack
               \/ Step(TimerFire(eng)) /\ UNCHANGED <<chain, heads>>
        PROVE  Clocked(eng')
    BY Zenon, <2>3, <2>5, EventHandles DEF EventHandled, Quiet
  <2>6. ASSUME NEW h \in Hash, Sync(h) PROVE Clocked(eng')
    BY Zenon, <2>2, <2>6 DEF Sync
  <2>7. ASSUME Free \/ Crash PROVE Clocked(eng')
    BY Zenon, <2>3, <2>7, LostStarts, ReplaceStarts
  <2> QED
    BY Zenon, <2>4, <2>5, <2>6, <2>7 DEF Next, Timer
<1> QED
  BY <1>1, Invariance, PTL DEF Spec, ClockKept

-----------------------------------------------------------------------------
\* The refinement.

\* A chain has finitely many witnesses.
LEMMA FiniteGroup == IsFiniteSet(Witness)
  BY FS_Interval, CoreAssumption DEF Witness

\* More voters are no less a majority.
LEMMA MajorityGrows ==
  ASSUME NEW S, NEW T \in SUBSET Witness, S \subseteq T, Majority(S) PROVE Majority(T)
<1>1. IsFiniteSet(Witness)
  BY Zenon, FiniteGroup
<1>2. IsFiniteSet(T) /\ IsFiniteSet(S) /\ Cardinality(S) <= Cardinality(T)
  BY Zenon, <1>1, FS_Subset
<1>3. Cardinality(S) \in Nat /\ Cardinality(T) \in Nat
  BY Zenon, <1>2, FS_CardinalityType
<1> QED
  BY <1>2, <1>3, CoreAssumption DEF Majority, Witness

INSTANCE BftRefinement

\* The functions on {Self} of the refinement mapping.
LEMMA OneFacts ==
  /\ \A x : One(x)[Self] = x
  /\ \A x, y : [One(x) EXCEPT ![Self] = y] = One(y)
BY Zenon DEF One

\* The voting state of the engine after a step.
LEMMA OnePrimed ==
  /\ One(eng.seq)' = One(eng'.seq) /\ One(eng.round)' = One(eng'.round)
  /\ One(eng.state)' = One(eng'.state) /\ One(eng.preprepare)' = One(eng'.preprepare)
  /\ One(eng.lock)' = One(eng'.lock) /\ One(eng.lockRound)' = One(eng'.lockRound)
  /\ One(chain)' = One(chain')
BY Zenon DEF One

\* What the abstract specification says of the votes counted: only that other
\* witnesses have signed them, and that they are never taken back.
LEMMA CountedSigned == ASSUME Inv, Inv', counted \subseteq counted' PROVE Voting!OthersSign
<1>1. PeerVotes \subseteq {v \in Voting!Votes : v.from \in Witness \ {Self}}
  BY Zenon DEF PeerVotes, VoteCode, Voting!Votes, Voting!Seqs, Seqs, Voting!Round, Round
<1>2. counted' \subseteq PeerVotes
  BY Zenon DEF Inv, PeerVotes, VoteCode, Seqs, Round, Witness
<1> QED
  BY Zenon, <1>1, <1>2 DEF Voting!OthersSign

\* A step that signs no vote, and a step that signs one.
LEMMA NoneSigned ==
  ASSUME eng.sent \subseteq eng'.sent, NoVoteAdded(eng', eng) PROVE VotesSent' = VotesSent
<1>1. {s \in eng'.sent : s.code \in {"Prepare", "Commit"}} = {s \in eng.sent : s.code \in {"Prepare", "Commit"}}
  BY Zenon DEF NoVoteAdded, VoteCode
<1> QED
  BY Zenon, <1>1 DEF VotesSent

\* A step that signs one vote.
LEMMA OneSigned ==
  ASSUME NEW c \in VoteCode, eng.sent \subseteq eng'.sent, VoteAdded(eng', eng, c)
  PROVE  VotesSent' = VotesSent \cup {Voting!Vote(c, Self, eng.seq, eng.round, eng'.preprepare)}
<1> DEFINE v == Msg(c, Self, eng.seq, eng.round, eng'.preprepare)
           of(m) == [type |-> m.code, from |-> Self, seq |-> m.seq, round |-> m.round,
                     hash |-> m.hash]
<1>1. v.code = c /\ of(v) = Voting!Vote(c, Self, eng.seq, eng.round, eng'.preprepare)
  BY Zenon DEF Msg, Voting!Vote
<1>2. v \in eng'.sent /\ \A m \in eng'.sent \ eng.sent : m.code \in VoteCode => m = v
  BY Zenon DEF VoteAdded
<1> HIDE DEF v
<1>3. {s \in eng'.sent : s.code \in VoteCode} = {s \in eng.sent : s.code \in VoteCode} \cup {v}
  BY Zenon, <1>1, <1>2
<1>4. VotesSent' = {of(m) : m \in {s \in eng'.sent : s.code \in VoteCode}}
      /\ VotesSent = {of(m) : m \in {s \in eng.sent : s.code \in VoteCode}}
  BY Zenon DEF VotesSent, VoteCode
<1> HIDE DEF of
<1> QED
  BY Zenon, <1>1, <1>3, <1>4

\* The votes the engine counts are on record.
LEMMA CountsHeard ==
  ASSUME Inv, Inv', NEW m \in Messages, CountsToo(eng', eng, m),
         m.from = Self => m \in eng.sent,
         eng'.seq = eng.seq, eng'.round = eng.round, eng'.preprepare = eng.preprepare
  PROVE  /\ eng'.commits \subseteq
              Voting!Committers(Voting!OnRecord, eng.seq, eng.round, eng.preprepare)
         /\ eng'.prepares \cup eng'.commits \subseteq
              Voting!PrepareOrCommit(Voting!OnRecord, eng.seq, eng.round, eng.preprepare)
<1>1. eng'.commits \subseteq Witness /\ eng'.prepares \subseteq Witness
  BY Zenon DEF Inv, EngineInv, Engine, Witness
<1>2. Counts(eng') \subseteq counted'
  BY Zenon DEF Inv, Counts
<1>3. ASSUME NEW c \in VoteCode, Msg(c, Self, eng.seq, eng.round, eng.preprepare) \in eng.sent
      PROVE  Voting!Vote(c, Self, eng.seq, eng.round, eng.preprepare) \in VotesSent
  <2> DEFINE v == Msg(c, Self, eng.seq, eng.round, eng.preprepare)
  <2>1. v \in {s \in eng.sent : s.code \in {"Prepare", "Commit"}}
    BY Zenon, <1>3 DEF Msg, VoteCode
  <2>2. /\ v.code = c /\ v.seq = eng.seq /\ v.round = eng.round /\ v.hash = eng.preprepare
    BY Zenon DEF Msg
  <2> HIDE DEF v
  <2> QED
    BY Zenon, <2>1, <2>2 DEF VotesSent, Voting!Vote
<1>4. m.from = Self => Msg(m.code, Self, eng.seq, eng.round, eng.preprepare) \in eng.sent
  <2>1. m = Msg(m.code, m.from, m.seq, m.round, m.hash)
    BY Zenon DEF Messages, Msg
  <2> QED
    BY Zenon, <2>1 DEF CountsToo
<1>5. CountInv(eng)
  BY Zenon DEF Inv, EngineInv
<1>6. ASSUME NEW w \in eng'.commits
      PROVE  Voting!Vote("Commit", w, eng.seq, eng.round, eng.preprepare) \in VotesSent \cup counted'
  <2>1. CASE w = Self
    <3>1. Msg("Commit", Self, eng.seq, eng.round, eng.preprepare) \in eng.sent
      BY Zenon, <1>4, <1>5, <1>6, <2>1 DEF CountInv, CountsToo, VoteCode
    <3> QED
      BY Zenon, <1>3, <2>1, <3>1 DEF VoteCode
  <2>2. CASE w # Self
    <3>1. PeerVote("Commit", w, eng.seq, eng.round, eng.preprepare) \in Counts(eng')
      BY Zenon, <1>6, <2>2 DEF Counts
    <3> QED
      BY Zenon, <1>2, <3>1 DEF PeerVote, Voting!Vote
  <2> QED
    BY Zenon, <2>1, <2>2
<1>7. ASSUME NEW w \in eng'.prepares
      PROVE  Voting!Vote("Prepare", w, eng.seq, eng.round, eng.preprepare) \in VotesSent \cup counted'
  <2>1. CASE w = Self
    <3>1. Msg("Prepare", Self, eng.seq, eng.round, eng.preprepare) \in eng.sent
      BY Zenon, <1>4, <1>5, <1>7, <2>1 DEF CountInv, CountsToo, VoteCode
    <3> QED
      BY Zenon, <1>3, <2>1, <3>1 DEF VoteCode
  <2>2. CASE w # Self
    <3>1. PeerVote("Prepare", w, eng.seq, eng.round, eng.preprepare) \in Counts(eng')
      BY Zenon, <1>7, <2>2 DEF Counts
    <3> QED
      BY Zenon, <1>2, <3>1 DEF PeerVote, Voting!Vote
  <2> QED
    BY Zenon, <2>1, <2>2
<1> QED
  BY Zenon, <1>1, <1>6, <1>7 DEF Voting!Committers, Voting!PrepareOrCommit, Voting!Heard, Voting!OnRecord

\* Init
LEMMA RefinesInit == Init => Voting!Init
<1> SUFFICES ASSUME Init PROVE Voting!Init
  BY Zenon
<1>1. PICK env \in Envs({"ok"}, {Nil}, BOOLEAN) : eng = Start(New(Self), env)
  BY Zenon DEF Init
<1>2. EnvOK(env) /\ env.tail = 0
  <2>1. PICK x \in BOOLEAN : env = EnvOf("ok", Nil, x, << >>)
    BY DEF Envs, Init
  <2> QED
    BY <2>1, LoadAssumption DEF EnvOf, Env, EnvOK, HashOrNil, Verdict
<1>3. New(Self) \in Engine /\ New(Self).seq = 0 /\ New(Self).sent = {}
  BY Zenon, NewFresh DEF Fresh
<1>4. HeightStarted(eng, New(Self), 1)
  BY <1>1, <1>2, <1>3, StartStarts
<1>5. VotesSent = {}
  BY Zenon, <1>3, <1>4 DEF HeightStarted, VotesSent, VoteCode
<1> QED
  BY Zenon, <1>4, <1>5 DEF Init, Voting!Init, HeightStarted, One

\* Handlers that change no voting state may still count votes of others.
LEMMA RefinesQuiet ==
  ASSUME Inv, Inv', eng.sent \subseteq eng'.sent, NoVoteAdded(eng', eng), counted \subseteq counted',
         eng'.seq = eng.seq, eng'.round = eng.round, eng'.state = eng.state,
         eng'.preprepare = eng.preprepare, SameLock(eng', eng),
         UNCHANGED <<chain, unlocked, restarted, restarts>>
  PROVE  Voting!Next
<1>1. Voting!OthersSign
  BY Zenon, CountedSigned
<1>2. VotesSent' = VotesSent
  BY Zenon, NoneSigned
<1> QED
  BY Zenon, <1>1, <1>2, OnePrimed DEF Voting!Next, Voting!own, SameLock

\* The instance counts as the engine does.
LEMMA SameMajority == ASSUME NEW S, Majority(S) PROVE Voting!Majority(S)
<1>1. Voting!Cardinality(S) = Cardinality(S)
  BY Zenon DEF Cardinality, Voting!Cardinality
<1> QED
  BY Zenon, <1>1 DEF Majority, Voting!Majority

\* What a step of the engine leaves to be shown.
LEMMA OneSteps ==
  ASSUME Inv, Inv', counted \subseteq counted', Voting!Step(Self) PROVE Voting!Next
  BY Zenon, CountedSigned DEF Voting!Next

\* Accepting a proposal is AcceptProposal.
LEMMA RefinesAccepted ==
  ASSUME Inv, Inv', NEW h \in Hash, Accepted(eng', eng, h), Step(eng'), chain' = chain
  PROVE  Voting!Step(Self)
<1>1. VotesSent' = VotesSent \cup {Voting!Vote("Prepare", Self, eng.seq, eng.round, h)}
  BY Zenon, OneSigned DEF Accepted, Keeps, VoteCode
<1>2. unlocked' = unlocked /\ restarted' = restarted /\ restarts' = restarts
  BY Zenon DEF Step, Accepted
<1>3. Voting!AcceptProposal(Self, h)
  BY ZenonT(40), <1>1, <1>2, OneFacts, OnePrimed DEF Accepted, SameLock, Locked, Voting!AcceptProposal, Voting!Sign
<1> QED
  BY Zenon, <1>3 DEF Voting!Step

\* Committing to the locked unit again is RecommitLocked.
LEMMA RefinesRecommitted ==
  ASSUME Inv, Inv', NEW h \in Hash, Recommitted(eng', eng, h), Step(eng'), chain' = chain
  PROVE  Voting!Step(Self)
<1>1. VotesSent' = VotesSent \cup {Voting!Vote("Commit", Self, eng.seq, eng.round, h)}
  BY Zenon, OneSigned DEF Recommitted, Keeps, VoteCode
<1>2. unlocked' = unlocked /\ restarted' = restarted /\ restarts' = restarts
  BY Zenon DEF Step, Recommitted, SameLock, Locked
<1>3. Voting!RecommitLocked(Self, h)
  BY ZenonT(40), <1>1, <1>2, OneFacts, OnePrimed DEF Recommitted, SameLock, Voting!RecommitLocked, Voting!Sign
<1> QED
  BY Zenon, <1>3 DEF Voting!Step

\* Locking is LockProposal: the votes behind it are on record, and the engine's
\* own among them it had signed before.
LEMMA RefinesLockTaken ==
  ASSUME Inv, Inv', NEW m \in Messages, LockTaken(eng', eng, m), m.from = Self => m \in eng.sent,
         Step(eng'), chain' = chain
  PROVE  Voting!Step(Self)
<1>1. VotesSent' = VotesSent \cup {Voting!Vote("Commit", Self, eng.seq, eng.round, eng.preprepare)}
  BY Zenon, OneSigned DEF LockTaken, Keeps, VoteCode
<1>2. unlocked' = unlocked /\ restarted' = restarted /\ restarts' = restarts
  BY Zenon DEF Step, LockTaken, Locked, Inv, EngineInv, LockInv
<1> DEFINE T == Voting!PrepareOrCommit(Voting!OnRecord, eng.seq, eng.round, eng.preprepare)
<1>3. eng'.prepares \cup eng'.commits \subseteq T
  BY Zenon, CountsHeard DEF LockTaken
<1>4. T \in SUBSET Witness
  BY Zenon DEF Voting!PrepareOrCommit, Voting!Committers
<1> HIDE DEF T
<1>5. Voting!Majority(T)
  BY Zenon, <1>3, <1>4, MajorityGrows, SameMajority DEF LockTaken
<1>6. Voting!Majority(Voting!PrepareOrCommit(Voting!OnRecord, One(eng.seq)[Self],
                                           One(eng.round)[Self], One(eng.preprepare)[Self]))
  BY <1>5, OneFacts DEF T
<1>7. Voting!LockProposal(Self)
  BY <1>1, <1>2, <1>6, OneFacts, OnePrimed DEF LockTaken, Voting!LockProposal, Voting!Sign
<1> QED
  BY Zenon, <1>7 DEF Voting!Step

\* Deciding is CommitProposal, whether backend.Commit inserts the unit or fails.
LEMMA RefinesDecided ==
  ASSUME Inv, Inv', NEW m \in Messages, Decided(eng', eng, m), m.from = Self => m \in eng.sent,
         Step(eng'), Insert(eng.preprepare)
  PROVE  Voting!Step(Self)
<1>1. VotesSent' = VotesSent
  BY Zenon, NoneSigned DEF Decided, Keeps
<1>2. unlocked' = unlocked /\ restarted' = restarted /\ restarts' = restarts
  BY Zenon DEF Step, Decided, Locked, Inv, EngineInv, LockInv
<1> DEFINE T == Voting!Committers(Voting!OnRecord, eng.seq, eng.round, eng.preprepare)
<1>3. eng'.commits \subseteq T
  BY Zenon, CountsHeard DEF Decided
<1>4. T \in SUBSET Witness
  BY Zenon DEF Voting!Committers
<1> HIDE DEF T
<1>5. Voting!Majority(T)
  BY Zenon, <1>3, <1>4, MajorityGrows, SameMajority DEF Decided
<1>6. One(chain') \in {One(chain), Voting!Extends(Self, eng.seq, eng.preprepare)}
  BY Zenon, OneFacts DEF Insert, Voting!Extends
<1>7. Voting!Majority(Voting!Committers(Voting!OnRecord, One(eng.seq)[Self],
                                      One(eng.round)[Self], One(eng.preprepare)[Self]))
  BY <1>5, OneFacts DEF T
<1>8. One(chain)' \in {One(chain), Voting!Extends(Self, One(eng.seq)[Self], One(eng.preprepare)[Self])}
  BY ZenonT(40), <1>6, OneFacts, OnePrimed
<1>9. Voting!CommitProposal(Self)
  BY <1>1, <1>2, <1>7, <1>8, OneFacts, OnePrimed DEF Decided, Voting!CommitProposal
<1> QED
  BY Zenon, <1>9 DEF Voting!Step

\* Entering a round is ChangeRound, and a lock that checkDeadLock releases is
\* noted.
LEMMA RefinesRoundStarted ==
  ASSUME Inv, Inv', NEW r \in Round, RoundStarted(eng', eng, r), Step(eng'), chain' = chain
  PROVE  Voting!Step(Self)
<1>1. VotesSent' = VotesSent
  BY Zenon, NoneSigned DEF RoundStarted, Keeps, NoVoteAdded
<1>2. restarted' = restarted /\ restarts' = restarts
  BY Zenon DEF Step
<1>3. One(eng'.preprepare) = [One(eng.preprepare) EXCEPT ![Self] = IF One(eng.lock)[Self] = Nil THEN Nil ELSE @]
  <2>1. CASE eng.lock = Nil
    BY <2>1, OneFacts DEF RoundStarted, Locked
  <2>2. CASE eng.lock # Nil
    BY Zenon, <2>2, OneFacts DEF RoundStarted, Locked
  <2> QED
    BY Zenon, <2>1, <2>2
<1>4. /\ r \in Voting!Round
      /\ r > One(eng.round)[Self]
      /\ One(eng.round)' = [One(eng.round) EXCEPT ![Self] = r]
      /\ One(eng.state)' = [One(eng.state) EXCEPT ![Self] = "AcceptRequest"]
      /\ One(eng.preprepare)' = [One(eng.preprepare) EXCEPT ![Self] = IF One(eng.lock)[Self] = Nil THEN Nil ELSE @]
      /\ UNCHANGED <<One(eng.seq), VotesSent, One(chain), {Self} \X restarted, restarts>>
  <2>1. r \in Voting!Round
    BY Zenon DEF Round, Voting!Round
  <2>2. eng'.seq = eng.seq /\ eng'.round = r /\ eng'.state = "AcceptRequest" /\ r > eng.round
    BY Zenon DEF RoundStarted
  <2>3. One(eng.round)' = One(r) /\ One(eng.state)' = One("AcceptRequest") /\ One(eng.seq)' = One(eng.seq)
    BY Zenon, <2>2, OnePrimed
  <2>4. One(chain)' = One(chain)
    BY Zenon, OnePrimed
  <2>5. One(eng.preprepare)' = [One(eng.preprepare) EXCEPT ![Self] = IF One(eng.lock)[Self] = Nil THEN Nil ELSE @]
    BY Zenon, <1>3, OnePrimed
  <2>6. /\ r > One(eng.round)[Self]
        /\ One(eng.round)' = [One(eng.round) EXCEPT ![Self] = r]
        /\ One(eng.state)' = [One(eng.state) EXCEPT ![Self] = "AcceptRequest"]
    BY Zenon, <2>2, <2>3, OneFacts
  <2> QED
    BY Zenon, <1>1, <1>2, <2>1, <2>3, <2>4, <2>5, <2>6
<1>5. CASE eng'.lock = eng.lock /\ eng'.lockRound = eng.lockRound
  <2>1. unlocked' = unlocked
    BY Zenon, <1>5 DEF Step, Locked
  <2>2. UNCHANGED <<One(eng.lock), One(eng.lockRound), {Self} \X unlocked>>
    BY Zenon, <1>5, <2>1, OnePrimed
  <2> QED
    BY Zenon, <1>4, <2>2 DEF Voting!Step, Voting!ChangeRound
<1>6. CASE r % DeadLockPeriod = 0 /\ eng'.lock = Nil /\ eng'.lockRound = 0 /\ eng.lock # Nil
  <2>1. unlocked' = unlocked \cup {eng.seq}
    BY Zenon, <1>6 DEF Step, Locked, RoundStarted
  <2>2. ({Self} \X unlocked)' = ({Self} \X unlocked) \cup {<<Self, eng.seq>>}
    BY <2>1
  <2>3. ({Self} \X unlocked)' = ({Self} \X unlocked) \cup {<<Self, One(eng.seq)[Self]>>}
    BY Zenon, <2>2, OneFacts
  <2>4. /\ One(eng.lock)[Self] # Nil
        /\ One(eng.lock)' = [One(eng.lock) EXCEPT ![Self] = Nil]
        /\ One(eng.lockRound)' = [One(eng.lockRound) EXCEPT ![Self] = 0]
    BY Zenon, <1>6, OneFacts, OnePrimed
  <2> QED
    BY Zenon, <1>4, <1>6, <2>3, <2>4 DEF Voting!Step, Voting!ChangeRound
<1>7. CASE eng'.lock = Nil /\ eng'.lockRound = 0 /\ eng.lock = Nil
  BY Zenon, <1>5, <1>7 DEF Inv, EngineInv, LockInv, Locked
<1> QED
  BY Zenon, <1>5, <1>6, <1>7 DEF RoundStarted

\* A new height starts above the stored chain.
LEMMA RefinesFresh ==
  ASSUME Inv, Inv', NEW k, HeightStarted(eng', k, Len(chain) + 1), k.sent = eng.sent,
         UNCHANGED <<chain, unlocked>>
  PROVE  Voting!FreshHeight(Self)
<1>1. VotesSent' = VotesSent
  BY Zenon, NoneSigned DEF HeightStarted, NoVoteAdded
<1>2. Len(chain) + 1 \in Voting!Seqs
  BY Zenon DEF Inv, EngineInv, HeightStarted, Seqs, Voting!Seqs
<1> QED
  BY <1>1, <1>2, OneFacts, OnePrimed DEF HeightStarted, Voting!FreshHeight

\* Entering a height is NewHeight.
LEMMA RefinesHeightStarted ==
  ASSUME Inv, Inv', Len(chain) >= eng.seq, HeightStarted(eng', eng, Len(chain) + 1),
         Step(eng'), chain' = chain
  PROVE  Voting!Step(Self)
<1>1. eng'.seq # eng.seq
  BY LoadAssumption DEF HeightStarted, Inv, EngineInv, Seqs
<1>2. unlocked' = unlocked /\ restarted' = restarted /\ restarts' = restarts
  BY Zenon, <1>1 DEF Step
<1>3. Voting!FreshHeight(Self)
  BY Zenon, <1>2, RefinesFresh
<1> QED
  BY <1>2, <1>3, OneFacts DEF Voting!Step, Voting!NewHeight

\* Losing the engine is Restart.
LEMMA RefinesLost ==
  ASSUME Inv, Inv', Free \/ Crash PROVE Voting!Step(Self) /\ counted' = counted
<1>1. PICK kept : /\ Fresh(kept) /\ kept.sent = eng.sent /\ kept.inbox \subseteq eng.inbox
                  /\ Replace(kept)
  BY Zenon, LostStarts
<1>2. HeightStarted(eng', kept, Len(chain) + 1)
  BY Zenon, <1>1, ReplaceStarts
<1>3. /\ UNCHANGED <<load, chain, counted, unlocked>>
      /\ restarted' = restarted \cup {Len(chain) + 1}
      /\ restarts < load.restarts /\ restarts' = restarts + 1
  BY Zenon, <1>1 DEF Replace
<1>4. Voting!FreshHeight(Self)
  BY Zenon, <1>1, <1>2, <1>3, RefinesFresh
<1>5. restarts < MaxRestarts
  BY <1>3, LoadAssumption DEF Inv
<1>6. ({Self} \X restarted)' = ({Self} \X restarted) \cup {<<Self, Len(chain) + 1>>}
  BY <1>3
<1> QED
  BY Zenon, <1>3, <1>4, <1>5, <1>6, OneFacts DEF Voting!Step, Voting!Restart

\* The seals of a unit from a peer are votes on record: those of the others are
\* counted now, the engine's own it has sent.
LEMMA RefinesSync ==
  ASSUME Inv, Inv', NEW h \in Hash, Sync(h) PROVE Voting!Step(Self) /\ counted \subseteq counted'
<1> DEFINE n == Len(chain) + 1
           mine == {m \in eng.sent : m.code = "Commit" /\ m.seq = n /\ m.hash = h}
           S == (Witness \ {Self}) \cup {m.from : m \in mine}
           T == Voting!Sealers(Voting!OnRecord, n, h)
<1>1. /\ Majority(S) /\ chain' = Append(chain, h)
      /\ counted' = counted \cup {PeerVote("Commit", w, n, 0, h) : w \in Witness \ {Self}}
      /\ UNCHANGED <<eng, unlocked, restarted, restarts>>
  BY Zenon DEF Sync
<1>2. VotesSent' = VotesSent /\ 0 \in Voting!Round
  BY <1>1, CoreAssumption DEF VotesSent, Voting!Round
<1>3. T \in SUBSET Witness
  BY Zenon DEF Voting!Sealers, Voting!Committers
<1>4. ASSUME NEW w \in Witness \ {Self} PROVE w \in T
  <2>1. Voting!Vote("Commit", w, n, 0, h) \in counted'
    BY Zenon, <1>1 DEF PeerVote, Voting!Vote
  <2>2. w \in Voting!Committers(Voting!OnRecord, n, 0, h)
    BY Zenon, <2>1 DEF Voting!Committers, Voting!Heard, Voting!OnRecord
  <2> QED
    BY Zenon, <1>2, <2>2 DEF Voting!Sealers
<1>5. ASSUME NEW m \in mine PROVE m.from \in T
  <2>1. m.from = Self /\ m.round \in Voting!Round /\ Self \in Witness
    BY Zenon, <1>5, LoadAssumption DEF Inv, EngineInv, OwnInv, VoteCode, Round, Voting!Round
  <2>2. Voting!Vote("Commit", Self, n, m.round, h) \in VotesSent
    <3>1. m \in {s \in eng.sent : s.code \in {"Prepare", "Commit"}}
      BY Zenon, <1>5
    <3> QED
      BY Zenon, <1>5, <3>1 DEF VotesSent, Voting!Vote
  <2>3. Self \in Voting!Committers(Voting!OnRecord, n, m.round, h)
    BY Zenon, <2>1, <2>2 DEF Voting!Committers, Voting!Heard, Voting!OnRecord
  <2> QED
    BY Zenon, <2>1, <2>3 DEF Voting!Sealers
<1>6. S \subseteq T
  BY Zenon, <1>4, <1>5
<1> HIDE DEF S, T
<1>7. Voting!Majority(T)
  BY Zenon, <1>1, <1>3, <1>6, MajorityGrows, SameMajority
<1>8. n \in Voting!Seqs
  BY <1>1, LoadAssumption DEF Inv, Voting!Seqs
<1>9. One(chain') = Voting!Extends(Self, n, h)
  BY Zenon, <1>1, OneFacts DEF Voting!Extends
<1>10. Voting!StoreSealed(Self, h)
  BY Zenon, <1>1, <1>2, <1>7, <1>8, <1>9, OneFacts, OnePrimed DEF Voting!StoreSealed, T
<1> QED
  BY Zenon, <1>1, <1>10 DEF Voting!Step

\* Every message handled is a step of the rules.
LEMMA RefinesReceive ==
  ASSUME Inv, Inv', NEW m \in eng.inbox \cup load.msgs, Receive(m) PROVE Voting!Next
<1>1. /\ m \in Messages /\ m.round \in Round /\ (m.from = Self => m \in eng.sent)
      /\ MsgHandled(eng', eng, m) /\ Step(eng')
      /\ IF eng'.state = "Committed" /\ eng.state # "Committed"
         THEN Insert(eng'.preprepare) ELSE UNCHANGED <<chain, heads>>
  BY Zenon, ReceiveHandles
<1>2. counted \subseteq counted' /\ UNCHANGED <<restarted, restarts>>
  BY Zenon, <1>1 DEF Step
<1>3. CASE Quiet(eng', eng)
  <2>1. unlocked' = unlocked /\ chain' = chain
    BY Zenon, <1>1, <1>3 DEF Step, Quiet, SameView, Locked
  <2> QED
    BY Zenon, <1>2, <1>3, <2>1, RefinesQuiet DEF Quiet, Keeps, SameView, NoVoteAdded, SameLock
<1>4. CASE VoteCounted(eng', eng, m)
  <2>1. unlocked' = unlocked /\ chain' = chain
    BY Zenon, <1>1, <1>4 DEF Step, VoteCounted, SameLock, Locked
  <2> QED
    BY Zenon, <1>2, <1>4, <2>1, RefinesQuiet DEF VoteCounted, Keeps
<1>5. CASE m.hash \in Hash /\ (Accepted(eng', eng, m.hash) \/ Recommitted(eng', eng, m.hash))
  <2>1. chain' = chain
    BY Zenon, <1>1, <1>5 DEF Accepted, Recommitted
  <2> QED
    BY Zenon, <1>1, <1>2, <1>5, <2>1, RefinesAccepted, RefinesRecommitted, OneSteps
<1>6. CASE LockTaken(eng', eng, m)
  <2>1. chain' = chain
    BY Zenon, <1>1, <1>6 DEF LockTaken
  <2> QED
    BY Zenon, <1>1, <1>2, <1>6, <2>1, RefinesLockTaken, OneSteps
<1>7. CASE Decided(eng', eng, m)
  <2>1. Insert(eng.preprepare)
    BY Zenon, <1>1, <1>7 DEF Decided
  <2> QED
    BY Zenon, <1>1, <1>2, <1>7, <2>1, RefinesDecided, OneSteps
<1>8. CASE m.round \in Round /\ RoundStarted(eng', eng, m.round)
  <2>1. chain' = chain
    BY Zenon, <1>1, <1>8 DEF RoundStarted
  <2> QED
    BY Zenon, <1>1, <1>2, <1>8, <2>1, RefinesRoundStarted, OneSteps
<1> QED
  BY Zenon, <1>1, <1>3, <1>4, <1>5, <1>6, <1>7, <1>8 DEF MsgHandled

\* Every other event is one.
LEMMA RefinesEvent == ASSUME Inv, Inv', EventHandled PROVE Voting!Next
<1>1. counted \subseteq counted' /\ UNCHANGED <<restarted, restarts>> /\ Step(eng') /\ chain' = chain
  BY Zenon DEF EventHandled, Step
<1>2. CASE Quiet(eng', eng)
  <2>1. unlocked' = unlocked
    BY Zenon, <1>1, <1>2 DEF Step, Quiet, SameView, Locked
  <2> QED
    BY Zenon, <1>1, <1>2, <2>1, RefinesQuiet DEF Quiet, Keeps, SameView, NoVoteAdded, SameLock
<1>3. CASE Len(chain) >= eng.seq /\ HeightStarted(eng', eng, Len(chain) + 1)
  BY Zenon, <1>1, <1>3, RefinesHeightStarted, OneSteps
<1> QED
  BY Zenon, <1>2, <1>3 DEF EventHandled

\* The task deletion is none of the rules' business.
LEMMA RefinesTimerDelete ==
  ASSUME Inv, Inv', Step(TimerDelete(eng)), UNCHANGED <<chain, heads>> PROVE Voting!Next
<1>1. SameView(eng', eng) /\ eng'.sent = eng.sent
  BY Zenon, TimerDeleteInv
<1>2. eng' = TimerDelete(eng)
  BY Zenon DEF Step
<1>3. counted \subseteq counted' /\ UNCHANGED <<chain, unlocked, restarted, restarts>>
  BY Zenon, <1>1, <1>2 DEF Step, SameView, Locked
<1> QED
  BY Zenon, <1>1, <1>3, RefinesQuiet DEF SameView, NoVoteAdded, SameLock

\* Every step of the engine is a step of the rules, or changes nothing they speak
\* of.
LEMMA RefinesNext == Inv /\ Inv' /\ [Next]_vars => [Voting!Next]_(Voting!vars)
<1> SUFFICES ASSUME Inv, Inv', [Next]_vars PROVE [Voting!Next]_(Voting!vars)
  BY Zenon
<1>1. CASE UNCHANGED vars
  BY Zenon, <1>1 DEF vars, Voting!vars, Voting!own, One, VotesSent
<1>2. ASSUME NEW m \in eng.inbox \cup load.msgs, Receive(m) PROVE Voting!Next
  BY Zenon, <1>2, RefinesReceive
<1>3. ASSUME \/ \E n \in heads : NewNumber(n)
             \/ \E q \in eng.requests : NewProposal(q)
             \/ NewTx
             \/ \E r \in eng.fired : ChangeRound(r)
             \/ Pack
             \/ Step(TimerFire(eng)) /\ UNCHANGED <<chain, heads>>
      PROVE  Voting!Next
  BY Zenon, <1>3, EventHandles, RefinesEvent
<1>4. ASSUME Step(TimerDelete(eng)), UNCHANGED <<chain, heads>> PROVE Voting!Next
  BY Zenon, <1>4, RefinesTimerDelete
<1>5. ASSUME NEW h \in Hash, Sync(h) PROVE Voting!Next
  BY Zenon, <1>5, RefinesSync, OneSteps
<1>6. ASSUME Free \/ Crash PROVE Voting!Next
  <2>1. Voting!Step(Self) /\ counted' = counted
    BY Zenon, <1>6, RefinesLost
  <2> QED
    BY Zenon, <2>1, OneSteps
<1> QED
  BY Zenon, <1>1, <1>2, <1>3, <1>4, <1>5, <1>6 DEF Next, Timer

\* The engine implements the voting rules: the first state of core maps to the
\* rules' initial state, and every event, tick, loss or synchronised unit to one
\* of their steps or to none.
THEOREM EngineFollowsRules == Spec => Refinement
<1>1. Init => Voting!Init
  BY Zenon, RefinesInit
<1> QED
  BY <1>1, Invariance, RefinesNext, PTL DEF Spec, Refinement, Voting!Spec

-----------------------------------------------------------------------------
\* The theorems of BftVotingProofs, for this engine's chain and votes.
Rules == INSTANCE BftVotingProofs WITH
  Honest <- {Self}, Others <- Witness \ {Self}, others <- counted,
  seq <- One(eng.seq), round <- One(eng.round), state <- One(eng.state),
  preprepare <- One(eng.preprepare), lock <- One(eng.lock),
  lockRound <- One(eng.lockRound), votes <- VotesSent, chain <- One(chain),
  unlocked <- {Self} \X unlocked, restarted <- {Self} \X restarted

\* The rules' assumptions hold for one engine among the witnesses of its chain.
LEMMA RulesAssumption ==
  /\ Rules!IsFiniteSet(Witness) /\ {Self} \subseteq Witness
  /\ Witness \ {Self} \subseteq Witness \ {Self} /\ Nil \notin Hash
  /\ MinVotings \in Nat /\ MaxRestarts \in Nat /\ MaxRound \in Nat
  /\ MaxSeq \in Nat \ {0} /\ DeadLockPeriod \in Nat \ {0}
<1>1. Rules!IsFiniteSet(Witness)
  BY Zenon, FiniteGroup DEF IsFiniteSet, Rules!IsFiniteSet
<1> QED
  BY Zenon, <1>1, VotingsNat, CoreAssumption, LoadAssumption

\* The engine's behaviours are behaviours of the rules.
LEMMA EngineObeys == Spec => Rules!Spec
<1>1. Voting!Init => Rules!Init
  BY Zenon DEF Voting!Init, Rules!Init
<1>2. Voting!Next => Rules!Next
  BY Zenon DEF Voting!own, Rules!own, Voting!Next, Rules!Next, Voting!OthersSign,
         Rules!OthersSign, Voting!Votes, Rules!Votes, Voting!Round, Rules!Round,
         Voting!Seqs, Rules!Seqs, Voting!Step, Rules!Step, Voting!AcceptProposal,
         Rules!AcceptProposal, Voting!RecommitLocked, Rules!RecommitLocked,
         Voting!LockProposal, Rules!LockProposal, Voting!CommitProposal,
         Rules!CommitProposal, Voting!StoreSealed, Rules!StoreSealed,
         Voting!ChangeRound, Rules!ChangeRound, Voting!NewHeight, Rules!NewHeight,
         Voting!Restart, Rules!Restart, Voting!FreshHeight, Rules!FreshHeight,
         Voting!Extends, Rules!Extends, Voting!Sign, Rules!Sign, Voting!Vote,
         Rules!Vote, Voting!Majority, Rules!Majority, Voting!PrepareOrCommit,
         Rules!PrepareOrCommit, Voting!Committers, Rules!Committers, Voting!Sealers,
         Rules!Sealers, Voting!Heard, Rules!Heard, Voting!OnRecord, Rules!OnRecord,
         Voting!Cardinality, Rules!Cardinality
<1>3. [Voting!Next]_(Voting!vars) => [Rules!Next]_(Rules!vars)
  <2> SUFFICES ASSUME [Voting!Next]_(Voting!vars) PROVE Rules!Next \/ Rules!vars' = Rules!vars
    BY Zenon
  <2> QED
    BY Zenon, <1>2 DEF Voting!vars, Rules!vars, Voting!own, Rules!own
<1>4. Refinement => Rules!Spec
  BY <1>1, <1>3, PTL DEF Refinement, Voting!Spec, Rules!Spec
<1> QED
  BY <1>4, EngineFollowsRules, PTL

\* Every unit in the engine's chain, whether handleCommit or VerifySeal let it
\* in, carries Commit votes of a majority: the engine's own, which it has sent,
\* and those of others, which it has counted.
THEOREM EngineStoresSealed == Spec => []Rules!StoredIsSealed
<1>1. Rules!Spec => []Rules!StoredIsSealed
  BY Zenon, RulesAssumption, Rules!SealedChains
<1> QED
  BY <1>1, EngineObeys, PTL

\* The engine never exchanges a lock for another: a lock ends with its height, in
\* checkDeadLock or with the engine.
THEOREM EngineKeepsLock == Spec => Rules!LockKept
<1>1. Rules!Spec => Rules!LockKept
  BY Zenon, RulesAssumption, Rules!LocksKept
<1> QED
  BY <1>1, EngineObeys, PTL
=============================================================================
