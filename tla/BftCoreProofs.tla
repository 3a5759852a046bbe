---------------------------- MODULE BftCoreProofs ----------------------------
(***************************************************************************)
(* What the methods of the engine object do to its voting state, its       *)
(* messages and its clock.                                                 *)
(***************************************************************************)
EXTENDS BftEngine, WellFoundedInduction, TLAPS

States == {"AcceptRequest", "Preprepared", "Prepared", "Committed"}

\* The engine objects.
Engine ==
  [self : {Self}, seq : Nat, round : Round, state : States, proposer : Witness,
   preprepare : HashOrNil, prepares : SUBSET Witness, commits : SUBSET Witness,
   lock : HashOrNil, lockRound : Round, pending : HashOrNil,
   rcs : [Round -> SUBSET Witness], waiting : BOOLEAN,
   lockHashes : [Witness -> HashOrNil], backlog : SUBSET Messages,
   armed : BOOLEAN, deleting : BOOLEAN, fired : SUBSET Round,
   activated : BOOLEAN, packing : Nat,
   requests : SUBSET [seq : 1..(MaxSeq + 1), hash : Hash],
   inbox : SUBSET Messages, sent : SUBSET Messages]

VoteCode == {"Prepare", "Commit"}

\* d votes on what e votes on.
SameView(d, e) ==
  /\ d.seq = e.seq /\ d.round = e.round /\ d.state = e.state
  /\ d.preprepare = e.preprepare /\ d.prepares = e.prepares /\ d.commits = e.commits
  /\ d.lock = e.lock /\ d.lockRound = e.lockRound

\* The time-out is set, or on its way, or not needed.
Clocked(e) == e.armed \/ e.round \in e.fired \/ ~e.activated \/ e.state = "Committed"

\* No vote that the engine could count is set aside.
NotStuck(e) ==
  \A m \in e.backlog : m.code \in VoteCode => CheckMessage(e, m) # "ok"

\* What every call keeps, from e to d: no message is forgotten, a message of the
\* engine's own is one it has sent, no vote is stuck, no clock is lost.
Keeps(d, e) ==
  /\ d \in Engine
  /\ e.sent \subseteq d.sent
  /\ \A m \in d.inbox \cup d.backlog :
       m.from = Self => m \in e.inbox \cup e.backlog \cup d.sent
  /\ NotStuck(e) => NotStuck(d)
  /\ Clocked(e) => Clocked(d)

\* d is e after calls that sign no vote and change no voting state.
Quiet(d, e) ==
  /\ Keeps(d, e)
  /\ SameView(d, e)
  /\ \A m \in d.sent \ e.sent : m.code \notin VoteCode

\* d is e in state s.
StateSet(d, e, s) ==
  /\ d \in Engine
  /\ SameView(d, [e EXCEPT !.state = s])
  /\ d.sent = e.sent /\ d.backlog \subseteq e.backlog
  /\ d.inbox \subseteq e.inbox \cup e.backlog
  /\ e.state # "Committed" /\ Clocked(e) => Clocked(d)
  /\ s # e.state => NotStuck(d)

-----------------------------------------------------------------------------
\* Calls that leave the voting state alone

\* Doing nothing is quiet.
LEMMA QuietSelf == \A e \in Engine : Quiet(e, e)
  BY Zenon DEF Quiet, Keeps, SameView

\* Two quiet calls in a row are one.
LEMMA QuietTrans ==
  ASSUME NEW c, NEW d, NEW e, Quiet(c, d), Quiet(d, e) PROVE Quiet(c, e)
  BY Zenon DEF Quiet, Keeps, SameView

\* Whether a vote is stuck depends on the view and the backlog only.
LEMMA SameNotStuck ==
  ASSUME NEW d, NEW e, SameView(d, e), d.backlog = e.backlog, NotStuck(e)
  PROVE  NotStuck(d)
  BY Zenon DEF NotStuck, SameView, CheckMessage

\* An assignment to fields outside the voting state, the messages and the clock.
LEMMA QuietFields ==
  ASSUME NEW d \in Engine, NEW e \in Engine, SameView(d, e),
         d.sent = e.sent, d.inbox \subseteq e.inbox, d.backlog = e.backlog,
         Clocked(e) => Clocked(d)
  PROVE  Quiet(d, e)
  BY Zenon, SameNotStuck DEF Quiet, Keeps

\* setTimeout sets the clock and touches nothing else.
LEMMA QuietSetTimeout ==
  ASSUME NEW e \in Engine PROVE Quiet(SetTimeout(e), e) /\ SetTimeout(e).armed
<1> DEFINE d == [e EXCEPT !.armed = TRUE]
<1>1. d \in Engine
  BY Zenon DEF Engine
<1>2. d.armed /\ SameView(d, e) /\ d.sent = e.sent /\ d.inbox = e.inbox /\ d.backlog = e.backlog
  BY Zenon DEF Engine, SameView
<1> QED
  BY Zenon, <1>1, <1>2, QuietFields DEF Clocked, SetTimeout

\* activateChain is quiet: it sets the clock of a chain that it wakes.
LEMMA QuietActivate ==
  ASSUME NEW e \in Engine PROVE Quiet(ActivateChain(e), e)
<1>1. CASE e.activated
  BY Zenon, <1>1, QuietSelf DEF ActivateChain
<1>2. CASE ~e.activated
  <2>1. PICK k \in Nat : k = IF e.proposer = e.self THEN e.packing + 1 ELSE e.packing
    BY DEF Engine
  <2> DEFINE d == [e EXCEPT !.armed = TRUE, !.activated = TRUE, !.packing = k]
  <2>2. d \in Engine
    BY Zenon DEF Engine
  <2>3. d.armed /\ SameView(d, e) /\ d.sent = e.sent /\ d.inbox = e.inbox /\ d.backlog = e.backlog
    BY Zenon DEF Engine, SameView
  <2>4. ActivateChain(e) = d
    BY Zenon, <1>2, <2>1 DEF ActivateChain, SetTimeout, Engine
  <2> QED
    BY Zenon, <2>4, <2>2, <2>3, QuietFields DEF Clocked
<1> QED
  BY Zenon, <1>1, <1>2

\* disabledChain is quiet: a chain that sleeps needs no clock.
LEMMA QuietDisabled ==
  ASSUME NEW e \in Engine
  PROVE  Quiet(DisabledChain(e), e) /\ ~DisabledChain(e).activated
<1> DEFINE d == [e EXCEPT !.armed = FALSE, !.fired = {}, !.activated = FALSE]
<1>1. DisabledChain(e) = d
  BY Zenon DEF DisabledChain, StopTimer, Engine
<1>2. d \in Engine
  BY ZenonT(40) DEF Engine
<1>3. ~d.activated /\ SameView(d, e) /\ d.sent = e.sent /\ d.inbox = e.inbox /\ d.backlog = e.backlog
  BY Zenon DEF Engine, SameView
<1> QED
  BY Zenon, <1>1, <1>2, <1>3, QuietFields DEF Clocked

\* refreshChainStatus is quiet, and leaves a clock or a sleeping chain.
LEMMA QuietRefresh ==
  ASSUME NEW e \in Engine, NEW env
  PROVE  /\ Quiet(RefreshChainStatus(e, env), e)
         /\ Clocked(RefreshChainStatus(e, env))
<1>1. CASE env.exist
  <2> DEFINE a == [e EXCEPT !.activated = FALSE]
  <2>1. a \in Engine
    BY Zenon DEF Engine
  <2>2. ~a.activated /\ SameView(a, e) /\ a.sent = e.sent /\ a.inbox = e.inbox /\ a.backlog = e.backlog
    BY Zenon DEF Engine, SameView
  <2>3. Quiet(a, e) /\ Clocked(a)
    BY Zenon, <2>1, <2>2, QuietFields DEF Clocked
  <2>4. Quiet(ActivateChain(a), a)
    BY Zenon, <2>1, QuietActivate
  <2> QED
    BY Zenon, <1>1, <2>3, <2>4, QuietTrans DEF RefreshChainStatus, Quiet, Keeps
<1>2. CASE ~env.exist
  BY Zenon, <1>2, QuietDisabled DEF RefreshChainStatus, Clocked
<1> QED
  BY Zenon, <1>1, <1>2

\* In AcceptRequest every vote is put off.
LEMMA NotStuckAccepting == \A e : e.state = "AcceptRequest" => NotStuck(e)
  BY Zenon DEF NotStuck, CheckMessage, VoteCode

\* setState: what was set aside comes back, unless it is still early or is old.
LEMMA SetStateSets ==
  ASSUME NEW e \in Engine, NEW s \in States PROVE StateSet(SetState(e, s), e, s)
<1>1. CASE e.state = s
  BY <1>1 DEF SetState, StateSet, SameView, Engine
<1>2. CASE e.state # s
  <2> DEFINE a == IF e.state = "AcceptRequest" /\ s = "Preprepared" THEN ActivateChain(e) ELSE e
             b == [a EXCEPT !.state = s]
             d == ProcessBacklog(b)
  <2>1. Quiet(a, e) /\ a.sent = e.sent /\ a.inbox = e.inbox /\ a.backlog = e.backlog
    <3>1. ActivateChain(e).sent = e.sent /\ ActivateChain(e).inbox = e.inbox /\ ActivateChain(e).backlog = e.backlog
      BY Zenon DEF ActivateChain, SetTimeout, Engine
    <3> QED
      BY Zenon, <3>1, QuietSelf, QuietActivate
  <2> HIDE DEF a
  <2>2. b \in Engine /\ SameView(b, [e EXCEPT !.state = s])
    BY <2>1 DEF Quiet, Keeps, Engine, SameView
  <2>3. b.sent = a.sent /\ b.inbox = a.inbox /\ b.backlog = a.backlog /\ b.state = s
    BY Zenon, <2>1 DEF Quiet, Keeps, Engine
  <2>4. e.state # "Committed" /\ Clocked(e) => Clocked(b)
    BY Zenon, <2>1 DEF Quiet, Keeps, Engine, Clocked, SameView
  <2> HIDE DEF b
  <2>5. /\ d.backlog = {m \in b.backlog : Future(b, m)}
        /\ d.inbox = b.inbox \cup {m \in b.backlog : CheckMessage(b, m) = "ok"}
        /\ d.sent = b.sent /\ SameView(d, b) /\ (Clocked(b) => Clocked(d))
    BY Zenon, <2>2 DEF ProcessBacklog, Engine, SameView, Clocked
  <2>6. d \in Engine
    <3>1. PICK x \in SUBSET Messages, y \in SUBSET Messages : x = {m \in b.backlog : Future(b, m)} /\ y = b.inbox \cup {m \in b.backlog : CheckMessage(b, m) = "ok"}
      BY Zenon, <2>2 DEF Engine
    <3>2. d = [b EXCEPT !.backlog = x, !.inbox = y]
      BY Zenon, <2>2, <3>1 DEF ProcessBacklog, Engine
    <3>3. [b EXCEPT !.backlog = x, !.inbox = y] \in Engine
      BY Zenon, <2>2 DEF Engine
    <3> QED
      BY Zenon, <3>2, <3>3
  <2>7. NotStuck(d)
    BY Zenon, <2>5 DEF NotStuck, Future, SameView, CheckMessage
  <2>8. SetState(e, s) = d
    BY Zenon, <1>2 DEF SetState, a, b
  <2> HIDE DEF d
  <2>9. StateSet(d, e, s)
    BY Zenon, <2>1, <2>2, <2>3, <2>4, <2>5, <2>6, <2>7 DEF StateSet, SameView
  <2> QED
    BY Zenon, <2>8, <2>9
<1> QED
  BY Zenon, <1>1, <1>2

-----------------------------------------------------------------------------
\* Messages out

\* broadcast changes nothing but what is sent and what comes back.
LEMMA BroadcastSends ==
  ASSUME NEW e \in Engine, e.seq \in Seqs, NEW c \in Code,
         NEW r \in 0..(MaxRound + 1), NEW h \in HashOrNil
  PROVE  LET m == Msg(c, Self, e.seq, r, h)
             d == Broadcast(e, c, r, h)
         IN  /\ d \in Engine /\ SameView(d, e) /\ m \in Messages
             /\ d.sent = e.sent \cup {m} /\ d.inbox = e.inbox \cup {m}
             /\ d.backlog = e.backlog
             /\ d.armed = e.armed /\ d.fired = e.fired /\ d.activated = e.activated
<1> DEFINE m == Msg(c, Self, e.seq, r, h)
<1>1. m \in Messages
  BY Zenon, LoadAssumption DEF Msg, Messages
<1>2. PICK x \in SUBSET Messages, y \in SUBSET Messages :
        x = e.sent \cup {m} /\ y = e.inbox \cup {m}
  BY Zenon, <1>1 DEF Engine
<1> DEFINE d == [e EXCEPT !.sent = x, !.inbox = y]
<1>3. Broadcast(e, c, r, h) = d
  BY Zenon, <1>2 DEF Broadcast, Engine
<1>4. d \in Engine
  BY Zenon DEF Engine
<1>5. /\ SameView(d, e) /\ d.sent = x /\ d.inbox = y /\ d.backlog = e.backlog
      /\ d.armed = e.armed /\ d.fired = e.fired /\ d.activated = e.activated
  BY Zenon DEF Engine, SameView
<1> QED
  BY Zenon, <1>1, <1>2, <1>3, <1>4, <1>5

\* A broadcast that is no vote is quiet.
LEMMA QuietBroadcast ==
  ASSUME NEW e \in Engine, e.seq \in Seqs, NEW c \in Code \ VoteCode,
         NEW r \in 0..(MaxRound + 1), NEW h \in HashOrNil
  PROVE  Quiet(Broadcast(e, c, r, h), e)
<1> DEFINE d == Broadcast(e, c, r, h)
           m == Msg(c, Self, e.seq, r, h)
<1>1. /\ d \in Engine /\ SameView(d, e)
      /\ d.sent = e.sent \cup {m} /\ d.inbox = e.inbox \cup {m}
      /\ d.backlog = e.backlog
      /\ d.armed = e.armed /\ d.fired = e.fired /\ d.activated = e.activated
  BY BroadcastSends
<1>2. m.code = c
  BY Zenon DEF Msg
<1> HIDE DEF d, m
<1>3. Quiet(d, e)
  BY Zenon, <1>1, <1>2, SameNotStuck DEF Quiet, Keeps, Clocked, SameView
<1> QED
  BY Zenon, <1>3 DEF d

\* sendPreprepare signs no vote.
LEMMA QuietSendPreprepare ==
  ASSUME NEW e \in Engine, e.seq \in Seqs, NEW h \in HashOrNil
  PROVE  Quiet(SendPreprepare(e, h), e)
<1>1. e.round \in 0..(MaxRound + 1) /\ "Preprepare" \in Code \ VoteCode
  BY CoreAssumption DEF Engine, Round, Code, VoteCode
<1> QED
  BY Zenon, <1>1, QuietBroadcast, QuietSelf DEF SendPreprepare

\* sendCheckPendingTx signs no vote.
LEMMA QuietSendCheckPendingTx ==
  ASSUME NEW e \in Engine, e.seq \in Seqs PROVE Quiet(SendCheckPendingTx(e), e)
<1>1. e.round \in 0..(MaxRound + 1) /\ "CheckPendingTx" \in Code \ VoteCode /\ e.preprepare \in HashOrNil
  BY CoreAssumption DEF Engine, Round, Code, VoteCode
<1> QED
  BY Zenon, <1>1, QuietBroadcast DEF SendCheckPendingTx

\* sendRoundChange signs no vote and sets the clock again.
LEMMA QuietSendRoundChange ==
  ASSUME NEW e \in Engine, e.seq \in Seqs, NEW r \in 0..(MaxRound + 1)
  PROVE  Quiet(SendRoundChange(e, r), e) /\ SendRoundChange(e, r).armed
<1> DEFINE a == [e EXCEPT !.waiting = TRUE]
<1>1. a \in Engine
  BY Zenon DEF Engine
<1>2. SameView(a, e) /\ a.sent = e.sent /\ a.inbox = e.inbox /\ a.backlog = e.backlog /\ (Clocked(e) => Clocked(a))
  BY Zenon DEF Engine, SameView, Clocked
<1>3. Quiet(a, e)
  BY Zenon, <1>1, <1>2, QuietFields
<1> HIDE DEF a
<1> DEFINE b == SetTimeout(a)
<1>4. Quiet(b, a) /\ b.armed
  BY Zenon, <1>1, QuietSetTimeout
<1> HIDE DEF b
<1>5. b \in Engine /\ b.seq \in Seqs /\ "RoundChange" \in Code \ VoteCode /\ Nil \in HashOrNil
  BY Zenon, <1>3, <1>4 DEF Quiet, Keeps, SameView, Code, VoteCode, HashOrNil
<1> DEFINE c == Broadcast(b, "RoundChange", r, Nil)
<1>6. Quiet(c, b)
  BY Zenon, <1>5, QuietBroadcast
<1>7. c.armed
  BY Zenon, <1>4, <1>5, BroadcastSends
<1>8. SendRoundChange(e, r) = c
  BY Zenon DEF SendRoundChange, a, b
<1> HIDE DEF c
<1> QED
  BY Zenon, <1>3, <1>4, <1>6, <1>7, <1>8, QuietTrans

\* A set of numbers has a least one.
LEMMA LeastNumber ==
  ASSUME NEW T \in SUBSET Nat, T # {} PROVE \E t \in T : \A y \in T : t <= y
<1> DEFINE R == OpToRel(<, Nat)
<1>1. IsWellFoundedOn(R, Nat)
  BY Zenon, NatLessThanWellFounded
<1>2. \A x, y \in Nat : x < y => <<x, y>> \in R
  BY Zenon DEF OpToRel
<1> HIDE DEF R
<1>3. PICK t \in T : \A y \in T : ~(<<y, t>> \in R)
  BY Zenon, <1>1, WFMin
<1>4. \A y \in T : ~(y < t)
  BY Zenon, <1>2, <1>3
<1> QED
  BY <1>4

\* A set of rounds has a highest one.
LEMMA HighestRound ==
  ASSUME NEW S \in SUBSET (-1..MaxRound), S # {} PROVE Max(S) \in S
<1> DEFINE T == {n \in Nat : MaxRound - n \in S}
<1>1. PICK s \in S : s \in -1..MaxRound
  BY Zenon
<1>2. MaxRound - s \in T
  BY <1>1, CoreAssumption
<1>3. PICK t \in T : \A y \in T : t <= y
  BY Zenon, <1>2, LeastNumber
<1>4. \A y \in S : MaxRound - y \in T
  BY CoreAssumption
<1>5. \A y \in S : MaxRound - t >= y
  BY <1>3, <1>4, CoreAssumption
<1> QED
  BY Zenon, <1>3, <1>5 DEF Max

\* MaxRound of the round-change set is a round, or -1 when no round has enough votes.
LEMMA MaxRoundType ==
  ASSUME NEW e \in Engine, NEW num PROVE MaxRoundOf(e, num) \in -1..MaxRound
<1> DEFINE S == {-1} \cup {r \in Round : e.rcs[r] # {} /\ Cardinality(e.rcs[r]) >= num}
<1>1. S \in SUBSET (-1..MaxRound) /\ S # {}
  BY CoreAssumption DEF Round
<1>2. Max(S) \in -1..MaxRound
  BY Zenon, <1>1, HighestRound
<1> QED
  BY Zenon, <1>2 DEF MaxRoundOf

\* sendNextRoundChange signs no vote and sets the clock again.
LEMMA QuietSendNext ==
  ASSUME NEW e \in Engine, e.seq \in Seqs
  PROVE  Quiet(SendNextRoundChange(e), e) /\ SendNextRoundChange(e).armed
<1> DEFINE r == MaxRoundOf(e, F + 1)
           k == IF r > e.round THEN r ELSE e.round + 1
<1>1. r \in -1..MaxRound /\ e.round \in Round
  BY Zenon, MaxRoundType DEF Engine
<1> HIDE DEF r
<1>2. k \in 0..(MaxRound + 1)
  BY <1>1, CoreAssumption DEF Round
<1> HIDE DEF k
<1>3. SendNextRoundChange(e) = SendRoundChange(e, k)
  BY Zenon DEF SendNextRoundChange, k, r
<1> QED
  BY Zenon, <1>2, <1>3, QuietSendRoundChange

\* A message put off is one the engine sent, one of another witness, or one it
\* still has; a vote is put off only when it cannot be counted.
LEMMA QuietStoreBacklog ==
  ASSUME NEW e \in Engine, NEW m \in Messages, m.from = Self => m \in e.sent,
         m.code \in VoteCode => CheckMessage(e, m) # "ok"
  PROVE  Quiet(StoreBacklog(e, m), e)
<1>1. PICK x \in SUBSET Messages : x = e.backlog \cup {m}
  BY Zenon DEF Engine
<1> DEFINE d == [e EXCEPT !.backlog = x]
<1>2. StoreBacklog(e, m) = d
  BY Zenon, <1>1 DEF StoreBacklog, Engine
<1>3. d \in Engine
  BY DEF Engine
<1>4. SameView(d, e) /\ d.sent = e.sent /\ d.inbox = e.inbox /\ d.backlog = x /\ (Clocked(e) => Clocked(d))
  BY Zenon DEF Engine, SameView, Clocked
<1> HIDE DEF d
<1>5. NotStuck(e) => NotStuck(d)
  BY Zenon, <1>1, <1>4 DEF NotStuck, SameView, CheckMessage
<1> QED
  BY Zenon, <1>1, <1>2, <1>3, <1>4, <1>5 DEF Quiet, Keeps

\* Noting that a peer is locked on another hash is quiet.
LEMMA QuietNoteDiffHash ==
  ASSUME NEW e \in Engine, NEW w \in Witness, NEW h \in HashOrNil
  PROVE  Quiet(NoteDiffHash(e, w, h), e)
<1>1. PICK x \in [Witness -> HashOrNil] : NoteDiffHash(e, w, h) = [e EXCEPT !.lockHashes = x]
  <2>1. e.lockHashes \in [Witness -> HashOrNil] /\ e.lock \in HashOrNil
    BY Zenon DEF Engine
  <2>2. CASE e.lockHashes # NoHashes
    <3>1. [e EXCEPT !.lockHashes[w] = h] = [e EXCEPT !.lockHashes = [e.lockHashes EXCEPT ![w] = h]]
      BY Zenon DEF Engine
    <3>2. [e.lockHashes EXCEPT ![w] = h] \in [Witness -> HashOrNil]
      BY Zenon, <2>1
    <3> QED
      BY Zenon, <2>2, <3>1, <3>2 DEF NoteDiffHash
  <2>3. CASE e.lockHashes = NoHashes /\ Locked(e) /\ e.lock # h
    <3>1. [e.lockHashes EXCEPT ![e.self] = e.lock, ![w] = h] \in [Witness -> HashOrNil]
      BY Zenon, <2>1
    <3>2. NoteDiffHash(e, w, h) = [e EXCEPT !.lockHashes = [e.lockHashes EXCEPT ![e.self] = e.lock, ![w] = h]]
      BY Zenon, <2>3 DEF NoteDiffHash, Engine
    <3> QED
      BY Zenon, <3>1, <3>2
  <2>4. CASE e.lockHashes = NoHashes /\ ~(Locked(e) /\ e.lock # h)
    <3>1. e = [e EXCEPT !.lockHashes = e.lockHashes]
      BY Zenon DEF Engine
    <3> QED
      BY Zenon, <2>1, <2>4, <3>1 DEF NoteDiffHash
  <2> QED
    BY Zenon, <2>2, <2>3, <2>4
<1> DEFINE d == [e EXCEPT !.lockHashes = x]
<1>2. d \in Engine
  BY DEF Engine
<1>3. SameView(d, e) /\ d.sent = e.sent /\ d.inbox = e.inbox /\ d.backlog = e.backlog /\ (Clocked(e) => Clocked(d))
  BY Zenon DEF Engine, SameView, Clocked
<1> QED
  BY Zenon, <1>1, <1>2, <1>3, QuietFields

-----------------------------------------------------------------------------
\* Rounds and heights

\* What the node may answer.
EnvOK(env) ==
  /\ env.tail \in 0..MaxSeq /\ env.pack \in HashOrNil
  /\ env.last \in Witness \cup {Nil} /\ env.verdict \in Verdict

\* CalcProposer names a witness.
LEMMA ProposerType ==
  ASSUME NEW env, EnvOK(env), NEW r \in Nat PROVE CalcProposer(env, r) \in Witness
<1>1. \A x \in Nat : x % N \in Witness
  BY CoreAssumption DEF Witness
<1>2. CASE env.last = Nil
  <2>1. env.tail + 1 + Slot + r \in Nat
    BY CoreAssumption, LoadAssumption DEF EnvOK
  <2> QED
    BY Zenon, <1>1, <1>2, <2>1 DEF CalcProposer
<1>3. CASE env.last # Nil
  <2>1. env.last \in Nat
    BY <1>3, CoreAssumption DEF EnvOK, Witness
  <2>2. env.last + r + 1 \in Nat
    BY <2>1
  <2> QED
    BY Zenon, <1>1, <1>3, <2>2 DEF CalcProposer
<1> QED
  BY Zenon, <1>2, <1>3

\* Handing the packed unit to the engine is quiet.
LEMMA QuietRequest ==
  ASSUME NEW e \in Engine, NEW env, EnvOK(env), env.pack # Nil
  PROVE  Quiet(Request(e, env), e)
<1>1. PICK x \in SUBSET [seq : 1..(MaxSeq + 1), hash : Hash] :
        x = e.requests \cup {[seq |-> env.tail + 1, hash |-> env.pack]}
  <2>1. env.tail + 1 \in 1..(MaxSeq + 1) /\ env.pack \in Hash
    BY LoadAssumption DEF EnvOK, HashOrNil
  <2>2. e.requests \in SUBSET [seq : 1..(MaxSeq + 1), hash : Hash]
    BY Zenon DEF Engine
  <2>3. [seq |-> env.tail + 1, hash |-> env.pack] \in [seq : 1..(MaxSeq + 1), hash : Hash]
    BY Zenon, <2>1
  <2> QED
    BY Zenon, <2>2, <2>3
<1> DEFINE d == [e EXCEPT !.requests = x]
<1>2. Request(e, env) = d
  BY Zenon, <1>1 DEF Request, Engine
<1>3. d \in Engine
  BY DEF Engine
<1>4. SameView(d, e) /\ d.sent = e.sent /\ d.inbox = e.inbox /\ d.backlog = e.backlog /\ (Clocked(e) => Clocked(d))
  BY Zenon DEF Engine, SameView, Clocked
<1> QED
  BY Zenon, <1>2, <1>3, <1>4, QuietFields

\* Starting to pack, or proposing the locked or the pending unit, is quiet.
LEMMA QuietPropose ==
  ASSUME NEW e \in Engine, e.seq \in Seqs, NEW env, EnvOK(env)
  PROVE  Quiet(Propose(e, env), e)
<1>1. e.preprepare \in HashOrNil /\ e.pending \in HashOrNil /\ Nil \in HashOrNil
  BY Zenon DEF Engine, HashOrNil
<1>2. Quiet(SendGiveUpPreprepare(e), e)
  <2>1. e.round \in 0..(MaxRound + 1) /\ "Preprepare" \in Code \ VoteCode
    BY CoreAssumption DEF Engine, Round, Code, VoteCode
  <2> QED
    BY Zenon, <1>1, <2>1, QuietBroadcast, QuietSelf DEF SendGiveUpPreprepare
<1> QED
  BY Zenon, <1>1, <1>2, QuietSelf, QuietSendPreprepare, QuietRequest DEF Propose

\* checkDeadLock keeps everything but the lock, which it may release in every
\* DeadLockPeriod-th round.
LEMMA CheckDeadLockReleases ==
  ASSUME NEW e \in Engine
  PROVE  LET d == CheckDeadLock(e)
         IN  \/ d = e
             \/ /\ e.round % DeadLockPeriod = 0
                /\ d \in Engine
                /\ SameView(d, [e EXCEPT !.lock = Nil, !.lockRound = 0])
                /\ d.sent = e.sent /\ d.inbox = e.inbox /\ d.backlog = e.backlog
<1> DEFINE d == [e EXCEPT !.lock = Nil, !.lockRound = 0, !.lockHashes = NoHashes]
<1>1. CheckDeadLock(e) = e \/ (CheckDeadLock(e) = d /\ e.round % DeadLockPeriod = 0)
  BY Zenon DEF CheckDeadLock
<1>2. d \in Engine
  <2>1. NoHashes \in [Witness -> HashOrNil] /\ Nil \in HashOrNil /\ 0 \in Round
    BY CoreAssumption DEF NoHashes, HashOrNil, Round
  <2> QED
    BY Zenon, <2>1 DEF Engine
<1>3. /\ SameView(d, [e EXCEPT !.lock = Nil, !.lockRound = 0])
      /\ d.sent = e.sent /\ d.inbox = e.inbox /\ d.backlog = e.backlog
  BY Zenon DEF Engine, SameView
<1> QED
  BY Zenon, <1>1, <1>2, <1>3

\* d is e after startNewRound(r).
RoundStarted(d, e, r) ==
  /\ Keeps(d, e)
  /\ r > e.round
  /\ d.seq = e.seq /\ d.round = r /\ d.state = "AcceptRequest"
  /\ d.prepares = {} /\ d.commits = {}
  /\ d.preprepare = IF Locked(e) THEN e.preprepare ELSE Nil
  /\ \/ d.lock = e.lock /\ d.lockRound = e.lockRound
     \/ r % DeadLockPeriod = 0 /\ d.lock = Nil /\ d.lockRound = 0
  /\ \A m \in d.sent \ e.sent : m.code \notin VoteCode

\* startNewRound(r) of a higher round enters it: the lock survives unless
\* checkDeadLock releases it, and no vote is signed.
LEMMA StartRoundStarts ==
  ASSUME NEW e \in Engine, e.seq \in Seqs, NEW r \in Round, r > e.round,
         NEW env, EnvOK(env)
  PROVE  RoundStarted(StartRound(e, r, env), e, r)
<1>1. PICK p \in HashOrNil, w \in Witness :
        p = (IF Locked(e) THEN e.preprepare ELSE Nil) /\ w = CalcProposer(env, r)
  <2>1. (IF Locked(e) THEN e.preprepare ELSE Nil) \in HashOrNil
    BY Zenon DEF Engine, HashOrNil
  <2>2. r \in Nat
    BY CoreAssumption DEF Round
  <2> QED
    BY Zenon, <2>1, <2>2, ProposerType
<1> DEFINE n == [e EXCEPT !.round = r, !.prepares = {}, !.commits = {},
                          !.preprepare = p, !.rcs = NoVotes, !.waiting = FALSE,
                          !.proposer = w]
           s == SetState(n, "AcceptRequest")
           q == Propose(s, env)
           c == CheckDeadLock(q)
           d == SetTimeout(c)
<1>2. StartRound(e, r, env) = d
  <2>1. ~(e.round >= r)
    BY CoreAssumption DEF Engine, Round
  <2>2. [e EXCEPT
           !.round = r, !.prepares = {}, !.commits = {},
           !.preprepare = IF Locked(e) THEN @ ELSE Nil,
           !.rcs = NoVotes, !.waiting = FALSE,
           !.proposer = CalcProposer(env, r)] = n
    BY Zenon, <1>1 DEF Engine
  <2> QED
    BY Zenon, <2>1, <2>2 DEF StartRound
<1>3. n \in Engine
  <2>1. NoVotes \in [Round -> SUBSET Witness]
    BY Zenon DEF NoVotes
  <2> QED
    BY ZenonT(40), <2>1 DEF Engine
<1>4. /\ n.seq = e.seq /\ n.round = r /\ n.prepares = {} /\ n.commits = {}
      /\ n.preprepare = p /\ n.lock = e.lock /\ n.lockRound = e.lockRound
      /\ n.sent = e.sent /\ n.inbox = e.inbox /\ n.backlog = e.backlog
  BY Zenon DEF Engine
<1> HIDE DEF n
<1>5. StateSet(s, n, "AcceptRequest")
  BY Zenon, <1>3, SetStateSets DEF States
<1>6. /\ s \in Engine /\ s.state = "AcceptRequest" /\ s.seq = e.seq /\ s.round = r
      /\ s.prepares = {} /\ s.commits = {} /\ s.preprepare = p
      /\ s.lock = e.lock /\ s.lockRound = e.lockRound
      /\ s.sent = e.sent /\ s.inbox \cup s.backlog \subseteq e.inbox \cup e.backlog
  BY Zenon, <1>3, <1>4, <1>5 DEF StateSet, SameView, Engine
<1> HIDE DEF s
<1>7. Quiet(q, s)
  BY Zenon, <1>6, QuietPropose
<1> HIDE DEF q
<1>8. q \in Engine /\ q.round = r
  BY Zenon, <1>6, <1>7 DEF Quiet, Keeps, SameView
<1>9. \/ c = q
      \/ /\ r % DeadLockPeriod = 0
         /\ c \in Engine
         /\ SameView(c, [q EXCEPT !.lock = Nil, !.lockRound = 0])
         /\ c.sent = q.sent /\ c.inbox = q.inbox /\ c.backlog = q.backlog
  BY Zenon, <1>8, CheckDeadLockReleases
<1> HIDE DEF c
<1>10. /\ c \in Engine
       /\ c.sent = q.sent /\ c.inbox = q.inbox /\ c.backlog = q.backlog
       /\ c.seq = q.seq /\ c.round = q.round /\ c.state = q.state
       /\ c.prepares = q.prepares /\ c.commits = q.commits /\ c.preprepare = q.preprepare
       /\ \/ c.lock = q.lock /\ c.lockRound = q.lockRound
          \/ r % DeadLockPeriod = 0 /\ c.lock = Nil /\ c.lockRound = 0
  BY Zenon, <1>8, <1>9 DEF SameView, Engine
<1>11. Quiet(d, c) /\ d.armed
  BY Zenon, <1>10, QuietSetTimeout
<1> HIDE DEF d
<1>12. d.state = "AcceptRequest"
  BY <1>6, <1>7, <1>10, <1>11 DEF Quiet, SameView
<1>13. Keeps(d, e)
  <2>1. e.sent \subseteq d.sent /\ d \in Engine
    BY Zenon, <1>6, <1>7, <1>10, <1>11 DEF Quiet, Keeps
  <2>2. \A m \in d.inbox \cup d.backlog :
          m.from = Self => m \in e.inbox \cup e.backlog \cup d.sent
    BY Zenon, <1>6, <1>7, <1>10, <1>11 DEF Quiet, Keeps
  <2>3. NotStuck(d) /\ Clocked(d)
    BY Zenon, <1>11, <1>12, NotStuckAccepting DEF Clocked
  <2> QED
    BY Zenon, <2>1, <2>2, <2>3 DEF Keeps
<1>14. \A m \in d.sent \ e.sent : m.code \notin VoteCode
  BY Zenon, <1>6, <1>7, <1>10, <1>11 DEF Quiet
<1> QED
  BY <1>1, <1>2, <1>6, <1>7, <1>10, <1>11, <1>12, <1>13, <1>14 DEF RoundStarted, Quiet, SameView

\* d is e after startNewRound(0) at height n, and what follows it.
HeightStarted(d, e, n) ==
  /\ d \in Engine
  /\ d.seq = n /\ d.round = 0 /\ d.state = "AcceptRequest"
  /\ d.prepares = {} /\ d.commits = {} /\ d.preprepare = Nil
  /\ d.lock = Nil /\ d.lockRound = 0
  /\ e.sent \subseteq d.sent /\ \A m \in d.sent \ e.sent : m.code \notin VoteCode
  /\ \A m \in d.inbox \cup d.backlog :
       m.from = Self => m \in e.inbox \cup e.backlog \cup d.sent
  /\ Clocked(d)

\* startNewRound(0) above the stored chain enters the next height.
LEMMA StartStarts ==
  ASSUME NEW e \in Engine, NEW env, EnvOK(env), env.tail >= e.seq
  PROVE  HeightStarted(Start(e, env), e, env.tail + 1)
<1>1. PICK w \in Witness : w = CalcProposer(env, 0)
  BY Zenon, ProposerType
<1>2. PICK k \in Nat : k = env.tail + 1
  BY LoadAssumption DEF EnvOK
<1> DEFINE n == [e EXCEPT !.seq = k, !.round = 0, !.prepares = {}, !.commits = {},
                          !.preprepare = Nil, !.lock = Nil, !.lockRound = 0,
                          !.pending = Nil, !.rcs = NoVotes, !.waiting = FALSE,
                          !.proposer = w]
           s == SetState(n, "AcceptRequest")
           c == [s EXCEPT !.lockHashes = NoHashes, !.armed = FALSE, !.fired = {}]
           d == RefreshChainStatus(c, env)
<1>3. n \in Engine
  <2>1. NoVotes \in [Round -> SUBSET Witness] /\ Nil \in HashOrNil /\ 0 \in Round
    BY CoreAssumption DEF NoVotes, HashOrNil, Round
  <2> QED
    BY ZenonT(40), <2>1 DEF Engine
<1>4. /\ n.seq = k /\ n.round = 0 /\ n.prepares = {} /\ n.commits = {}
      /\ n.preprepare = Nil /\ n.lock = Nil /\ n.lockRound = 0
      /\ n.sent = e.sent /\ n.inbox = e.inbox /\ n.backlog = e.backlog
  BY Zenon DEF Engine
<1>5. ~(env.tail < e.seq)
  BY LoadAssumption DEF EnvOK, Engine
<1>6. StartHeight(e, env) = StopTimer([s EXCEPT !.lockHashes = NoHashes])
  BY Zenon, <1>1, <1>2, <1>5 DEF StartHeight
<1> HIDE DEF n
<1>7. StateSet(s, n, "AcceptRequest")
  BY Zenon, <1>3, SetStateSets DEF States
<1>8. /\ s \in Engine /\ s.state = "AcceptRequest" /\ s.seq = k /\ s.round = 0
      /\ s.prepares = {} /\ s.commits = {} /\ s.preprepare = Nil
      /\ s.lock = Nil /\ s.lockRound = 0
      /\ s.sent = e.sent /\ s.inbox \cup s.backlog \subseteq e.inbox \cup e.backlog
  BY <1>3, <1>4, <1>7 DEF StateSet, SameView, Engine
<1> HIDE DEF s
<1>9. c \in Engine
  <2>1. NoHashes \in [Witness -> HashOrNil]
    BY Zenon DEF NoHashes, HashOrNil
  <2> QED
    BY ZenonT(40), <1>8, <2>1 DEF Engine
<1>10. SameView(c, s) /\ c.sent = s.sent /\ c.inbox = s.inbox /\ c.backlog = s.backlog
  BY Zenon, <1>8 DEF Engine, SameView
<1>11. StartHeight(e, env) = c
  BY Zenon, <1>6, <1>8 DEF StopTimer, Engine
<1> HIDE DEF c
<1>12. Quiet(d, c) /\ Clocked(d)
  BY Zenon, <1>9, QuietRefresh
<1>13. Start(e, env) = d
  BY Zenon, <1>11 DEF Start
<1> HIDE DEF d
<1> QED
  BY <1>2, <1>8, <1>10, <1>12, <1>13 DEF HeightStarted, Quiet, Keeps, SameView

-----------------------------------------------------------------------------
\* Votes

\* The one vote that d has signed and e had not, if any.
VoteAdded(d, e, c) ==
  LET v == Msg(c, Self, e.seq, e.round, d.preprepare)
  IN  /\ v \in d.sent
      /\ \A m \in d.sent \ e.sent : m.code \in VoteCode => m = v

NoVoteAdded(d, e) == \A m \in d.sent \ e.sent : m.code \notin VoteCode

SameCounts(d, e) == d.prepares = e.prepares /\ d.commits = e.commits

\* d counts the vote m too.
CountsToo(d, e, m) ==
  /\ m.code \in VoteCode /\ m.seq = e.seq /\ m.round = e.round /\ m.hash = e.preprepare
  /\ d.prepares = IF m.code = "Prepare" THEN e.prepares \cup {m.from} ELSE e.prepares
  /\ d.commits = IF m.code = "Commit" THEN e.commits \cup {m.from} ELSE e.commits

SameLock(d, e) == d.lock = e.lock /\ d.lockRound = e.lockRound

Accepted(d, e, h) ==
  /\ Keeps(d, e) /\ VoteAdded(d, e, "Prepare") /\ SameCounts(d, e) /\ SameLock(d, e)
  /\ e.state = "AcceptRequest" /\ ~Locked(e)
  /\ d.seq = e.seq /\ d.round = e.round /\ d.state = "Preprepared" /\ d.preprepare = h

Recommitted(d, e, h) ==
  /\ Keeps(d, e) /\ VoteAdded(d, e, "Commit") /\ SameCounts(d, e) /\ SameLock(d, e)
  /\ e.state = "AcceptRequest" /\ e.lock = h
  /\ d.seq = e.seq /\ d.round = e.round /\ d.state = "Prepared" /\ d.preprepare = h

VoteCounted(d, e, m) ==
  /\ Keeps(d, e) /\ NoVoteAdded(d, e) /\ CountsToo(d, e, m) /\ SameLock(d, e)
  /\ e.state \in {"Preprepared", "Prepared"}
  /\ d.seq = e.seq /\ d.round = e.round /\ d.state = e.state /\ d.preprepare = e.preprepare

LockTaken(d, e, m) ==
  /\ Keeps(d, e) /\ VoteAdded(d, e, "Commit") /\ CountsToo(d, e, m)
  /\ e.state = "Preprepared" /\ Majority(d.prepares \cup d.commits)
  /\ d.seq = e.seq /\ d.round = e.round /\ d.state = "Prepared" /\ d.preprepare = e.preprepare
  /\ d.lock = e.preprepare /\ d.lockRound = e.round

Decided(d, e, m) ==
  /\ Keeps(d, e) /\ NoVoteAdded(d, e) /\ CountsToo(d, e, m)
  /\ e.state \in {"Preprepared", "Prepared"} /\ Majority(d.commits)
  /\ d.seq = e.seq /\ d.round = e.round /\ d.state = "Committed" /\ d.preprepare = e.preprepare
  /\ d.lock = e.preprepare /\ d.lockRound = e.round

\* A vote cast on entering state s.
LEMMA VoteInState ==
  ASSUME NEW a \in Engine, a.seq \in Seqs, NEW s \in States, s # a.state,
         a.state # "Committed", NEW c \in VoteCode
  PROVE  LET b == SetState(a, s)
             d == Broadcast(b, c, b.round, b.preprepare)
             v == Msg(c, Self, a.seq, a.round, a.preprepare)
         IN  /\ d \in Engine /\ SameView(d, [a EXCEPT !.state = s])
             /\ d.sent = a.sent \cup {v} /\ v \in Messages
             /\ d.inbox \cup d.backlog \subseteq a.inbox \cup a.backlog \cup {v}
             /\ NotStuck(d) /\ (Clocked(a) => Clocked(d))
<1> DEFINE b == SetState(a, s)
           d == Broadcast(b, c, b.round, b.preprepare)
           v == Msg(c, Self, a.seq, a.round, a.preprepare)
<1>1. StateSet(b, a, s)
  BY Zenon, SetStateSets
<1> HIDE DEF b
<1>2. /\ b \in Engine /\ b.sent = a.sent /\ NotStuck(b) /\ (Clocked(a) => Clocked(b))
      /\ SameView(b, [a EXCEPT !.state = s])
      /\ b.inbox \cup b.backlog \subseteq a.inbox \cup a.backlog
  BY Zenon, <1>1 DEF StateSet
<1>3. /\ b.seq = a.seq /\ b.round = a.round /\ b.preprepare = a.preprepare
      /\ b.round \in 0..(MaxRound + 1) /\ b.preprepare \in HashOrNil
  BY <1>2, CoreAssumption DEF SameView, Engine, Round
<1>4. /\ d \in Engine /\ SameView(d, b) /\ v \in Messages
      /\ d.sent = b.sent \cup {v} /\ d.inbox = b.inbox \cup {v}
      /\ d.backlog = b.backlog
      /\ d.armed = b.armed /\ d.fired = b.fired /\ d.activated = b.activated
  <2>1. c \in Code
    BY Zenon DEF VoteCode, Code
  <2> QED
    BY <1>2, <1>3, <2>1, BroadcastSends
<1> HIDE DEF d, v
<1>5. NotStuck(d)
  BY Zenon, <1>2, <1>4, SameNotStuck
<1>6. Clocked(b) => Clocked(d)
  BY Zenon, <1>4 DEF Clocked, SameView
<1>7. SameView(d, [a EXCEPT !.state = s])
  BY Zenon, <1>2, <1>4 DEF SameView
<1> QED
  BY Zenon, <1>2, <1>4, <1>5, <1>6, <1>7 DEF b, d, v

\* acceptPreprepare takes the proposal and sets the clock.
LEMMA AcceptPreprepareSets ==
  ASSUME NEW e \in Engine, NEW h \in HashOrNil
  PROVE  LET a == AcceptPreprepare(e, h)
         IN  /\ a \in Engine /\ SameView(a, [e EXCEPT !.preprepare = h]) /\ a.armed
             /\ a.sent = e.sent /\ a.inbox = e.inbox /\ a.backlog = e.backlog
<1> DEFINE a == [e EXCEPT !.preprepare = h, !.armed = TRUE, !.fired = {}]
<1>1. AcceptPreprepare(e, h) = a
  BY Zenon DEF AcceptPreprepare, StopTimer, SetTimeout, Engine
<1>2. a \in Engine
  BY Zenon DEF Engine
<1>3. /\ SameView(a, [e EXCEPT !.preprepare = h]) /\ a.armed
      /\ a.sent = e.sent /\ a.inbox = e.inbox /\ a.backlog = e.backlog
  BY Zenon DEF Engine, SameView
<1> QED
  BY Zenon, <1>1, <1>2, <1>3

\* A verified proposal is accepted, committed again or refused.
LEMMA TakeProposalVotes ==
  ASSUME NEW e \in Engine, e.seq \in Seqs, NEW m \in Messages, m.hash \in Hash
  PROVE  LET d == TakeProposal(e, m)
         IN  Quiet(d, e) \/ Accepted(d, e, m.hash) \/ Recommitted(d, e, m.hash)
<1> DEFINE n == NoteDiffHash(e, m.from, m.hash)
           a == AcceptPreprepare(n, m.hash)
<1>0. m.from \in Witness /\ m.hash \in HashOrNil
  BY Zenon DEF Messages, HashOrNil
<1>1. Quiet(n, e) /\ n.sent = e.sent /\ n.inbox = e.inbox /\ n.backlog = e.backlog
  <2>1. Quiet(n, e)
    BY Zenon, <1>0, QuietNoteDiffHash
  <2> QED
    BY Zenon, <2>1 DEF NoteDiffHash, Engine
<1> HIDE DEF n
<1>2. n \in Engine /\ n.seq \in Seqs
  BY Zenon, <1>1 DEF Quiet, Keeps, SameView
<1>3. /\ a \in Engine /\ SameView(a, [n EXCEPT !.preprepare = m.hash]) /\ a.armed
      /\ a.sent = n.sent /\ a.inbox = n.inbox /\ a.backlog = n.backlog
  BY Zenon, <1>0, <1>2, AcceptPreprepareSets
<1> HIDE DEF a
<1>4. /\ a.seq = e.seq /\ a.round = e.round /\ a.state = e.state /\ a.preprepare = m.hash
      /\ SameCounts(a, e) /\ SameLock(a, e) /\ Clocked(a)
  BY <1>1, <1>2, <1>3 DEF Quiet, SameView, SameCounts, SameLock, Engine, Clocked
<1>5. CASE e.state # "AcceptRequest"
  BY Zenon, <1>5, QuietSelf DEF TakeProposal
<1>6. CASE e.state = "AcceptRequest" /\ ~Locked(e)
  <2> DEFINE b == SetState(a, "Preprepared")
             d == SendPrepare(b)
             v == Msg("Prepare", Self, a.seq, a.round, a.preprepare)
  <2>1. TakeProposal(e, m) = d
    BY Zenon, <1>6 DEF TakeProposal, a, n
  <2>2. /\ d \in Engine /\ SameView(d, [a EXCEPT !.state = "Preprepared"])
        /\ d.sent = a.sent \cup {v}
        /\ d.inbox \cup d.backlog \subseteq a.inbox \cup a.backlog \cup {v}
        /\ NotStuck(d) /\ (Clocked(a) => Clocked(d))
    BY Zenon, <1>3, <1>4, <1>6, VoteInState DEF SendPrepare, States, VoteCode
  <2> HIDE DEF d
  <2>3. SameView(d, [a EXCEPT !.state = "Preprepared"]) => d.seq = a.seq /\ d.round = a.round /\ d.state = "Preprepared" /\ d.preprepare = a.preprepare /\ SameCounts(d, a) /\ SameLock(d, a)
    BY Zenon, <1>3 DEF SameView, Engine, SameCounts, SameLock
  <2>4. Keeps(d, e)
    BY Zenon, <1>1, <1>3, <1>4, <2>2 DEF Keeps
  <2>5. VoteAdded(d, e, "Prepare")
    BY Zenon, <1>1, <1>3, <1>4, <2>2, <2>3 DEF VoteAdded
  <2> QED
    BY Zenon, <1>4, <1>6, <2>1, <2>2, <2>3, <2>4, <2>5 DEF Accepted, SameCounts, SameLock
<1>7. CASE e.state = "AcceptRequest" /\ Locked(e) /\ e.lock = m.hash
  <2> DEFINE b == SetState(a, "Prepared")
             d == SendCommit(b)
             v == Msg("Commit", Self, a.seq, a.round, a.preprepare)
  <2>1. TakeProposal(e, m) = d
    BY Zenon, <1>7 DEF TakeProposal, a, n
  <2>2. /\ d \in Engine /\ SameView(d, [a EXCEPT !.state = "Prepared"])
        /\ d.sent = a.sent \cup {v}
        /\ d.inbox \cup d.backlog \subseteq a.inbox \cup a.backlog \cup {v}
        /\ NotStuck(d) /\ (Clocked(a) => Clocked(d))
    BY Zenon, <1>3, <1>4, <1>7, VoteInState DEF SendCommit, States, VoteCode
  <2> HIDE DEF d
  <2>3. SameView(d, [a EXCEPT !.state = "Prepared"]) => d.seq = a.seq /\ d.round = a.round /\ d.state = "Prepared" /\ d.preprepare = a.preprepare /\ SameCounts(d, a) /\ SameLock(d, a)
    BY Zenon, <1>3 DEF SameView, Engine, SameCounts, SameLock
  <2>4. Keeps(d, e)
    BY Zenon, <1>1, <1>3, <1>4, <2>2 DEF Keeps
  <2>5. VoteAdded(d, e, "Commit")
    BY Zenon, <1>1, <1>3, <1>4, <2>2, <2>3 DEF VoteAdded
  <2> QED
    BY Zenon, <1>4, <1>7, <2>1, <2>2, <2>3, <2>4, <2>5 DEF Recommitted, SameCounts, SameLock
<1>8. CASE e.state = "AcceptRequest" /\ Locked(e) /\ e.lock # m.hash
  <2>1. TakeProposal(e, m) = SendNextRoundChange(n)
    BY Zenon, <1>8 DEF TakeProposal, n
  <2> QED
    BY Zenon, <1>1, <1>2, <2>1, QuietSendNext, QuietTrans
<1> QED
  BY Zenon, <1>5, <1>6, <1>7, <1>8

\* A message that is not handled now is set aside or dropped.
LEMMA QuietUnchecked ==
  ASSUME NEW e \in Engine, NEW m \in Messages, m.from = Self => m \in e.sent,
         NEW result, CheckMessage(e, m) # "ok"
  PROVE  Quiet(Checked(e, m, result), e)
  BY Zenon, QuietStoreBacklog, QuietSelf DEF Checked

\* A vote is handled in its own view, once a proposal is accepted and while it
\* is not decided.
LEMMA VoteChecked ==
  ASSUME NEW e \in Engine, NEW m \in Messages, m.code \in VoteCode,
         CheckMessage(e, m) = "ok"
  PROVE  m.seq = e.seq /\ m.round = e.round /\ e.state \in {"Preprepared", "Prepared"}
<1>1. m.seq \in Int /\ e.seq \in Int /\ m.round \in Int /\ e.round \in Int
  BY LoadAssumption, CoreAssumption DEF Messages, Seqs, Engine, Round
<1>2. e.state \in States
  BY Zenon DEF Engine
<1> QED
  BY <1>1, <1>2 DEF CheckMessage, VoteCode, States

\* A majority behind the proposal.
LEMMA LockProposalVotes ==
  ASSUME NEW e \in Engine, NEW a \in Engine, a.seq \in Seqs, a.state = "Preprepared",
         NEW m, CountsToo(a, e, m), Majority(a.prepares \cup a.commits),
         a.seq = e.seq, a.round = e.round, a.state = e.state, a.preprepare = e.preprepare,
         a.sent = e.sent, a.inbox = e.inbox, a.backlog = e.backlog, Clocked(e) => Clocked(a)
  PROVE  LockTaken(LockProposal(a), e, m)
<1> DEFINE l == [a EXCEPT !.lock = a.preprepare, !.lockRound = a.round]
           d == SendCommit(SetState(l, "Prepared"))
           v == Msg("Commit", Self, l.seq, l.round, l.preprepare)
<1>1. LockProposal(a) = d
  BY Zenon DEF LockProposal, LockHash
<1>2. l \in Engine
  BY Zenon DEF Engine
<1>3. /\ l.seq = a.seq /\ l.round = a.round /\ l.state = "Preprepared" /\ l.preprepare = a.preprepare
      /\ l.lock = a.preprepare /\ l.lockRound = a.round /\ SameCounts(l, a)
      /\ l.sent = a.sent /\ l.inbox = a.inbox /\ l.backlog = a.backlog
      /\ (Clocked(a) => Clocked(l))
  BY Zenon DEF Engine, SameCounts, Clocked
<1> HIDE DEF l
<1>4. /\ d \in Engine /\ SameView(d, [l EXCEPT !.state = "Prepared"])
      /\ d.sent = l.sent \cup {v}
      /\ d.inbox \cup d.backlog \subseteq l.inbox \cup l.backlog \cup {v}
      /\ NotStuck(d) /\ (Clocked(l) => Clocked(d))
  BY Zenon, <1>2, <1>3, VoteInState DEF SendCommit, States, VoteCode
<1> HIDE DEF d
<1>5. /\ d.seq = l.seq /\ d.round = l.round /\ d.state = "Prepared" /\ d.preprepare = l.preprepare
      /\ SameCounts(d, l) /\ SameLock(d, l)
  BY Zenon, <1>2, <1>4 DEF SameView, Engine, SameCounts, SameLock
<1>6. Keeps(d, e)
  BY Zenon, <1>3, <1>4 DEF Keeps
<1>7. VoteAdded(d, e, "Commit")
  BY Zenon, <1>3, <1>4, <1>5 DEF VoteAdded
<1>8. CountsToo(d, e, m) /\ Majority(d.prepares \cup d.commits)
  BY Zenon, <1>3, <1>5 DEF CountsToo, SameCounts
<1> QED
  BY Zenon, <1>1, <1>3, <1>5, <1>6, <1>7, <1>8 DEF LockTaken, SameLock

\* What an engine's state says of its lock.
LockState(e) == e.state = "Preprepared" => ~Locked(e)

\* handlePrepare counts the vote, and may lock the proposal behind it.
LEMMA HandlePrepareVotes ==
  ASSUME NEW e \in Engine, e.seq \in Seqs, LockState(e), NEW m \in Messages,
         m.code = "Prepare", m.from = Self => m \in e.sent
  PROVE  LET d == HandlePrepare(e, m)
         IN  Quiet(d, e) \/ VoteCounted(d, e, m) \/ LockTaken(d, e, m)
<1>1. CASE CheckMessage(e, m) # "ok"
  BY Zenon, <1>1, QuietUnchecked DEF HandlePrepare
<1>2. CASE CheckMessage(e, m) = "ok" /\ (m.hash # e.preprepare \/ m.from \in e.prepares)
  BY Zenon, <1>2, QuietSelf DEF HandlePrepare, Checked
<1>3. CASE CheckMessage(e, m) = "ok" /\ m.hash = e.preprepare /\ m.from \notin e.prepares
  <2>1. PICK x \in SUBSET Witness : x = e.prepares \cup {m.from}
    BY Zenon DEF Engine, Messages
  <2> DEFINE a == [e EXCEPT !.prepares = x]
  <2>2. [e EXCEPT !.prepares = @ \cup {m.from}] = a
    BY Zenon, <2>1 DEF Engine
  <2>3. a \in Engine
    BY DEF Engine
  <2>4. /\ a.seq = e.seq /\ a.round = e.round /\ a.state = e.state /\ a.preprepare = e.preprepare
        /\ a.prepares = x /\ a.commits = e.commits /\ SameLock(a, e)
        /\ a.sent = e.sent /\ a.inbox = e.inbox /\ a.backlog = e.backlog
        /\ (Clocked(e) => Clocked(a))
    BY Zenon DEF Engine, SameLock, Clocked
  <2>5. HandlePrepare(e, m) =
          IF /\ \/ Locked(e) /\ m.hash = e.lock
                \/ Majority(a.prepares \cup a.commits)
             /\ e.state = "Preprepared"
          THEN LockProposal(a) ELSE a
    BY Zenon, <1>3, <2>2 DEF HandlePrepare, Checked
  <2>6. /\ m.seq = e.seq /\ m.round = e.round /\ e.state \in {"Preprepared", "Prepared"}
        /\ m.code \in VoteCode
    <3>1. m.code \in VoteCode
      BY Zenon DEF VoteCode
    <3> QED
      BY Zenon, <1>3, <3>1, VoteChecked
  <2> HIDE DEF a
  <2>7. CountsToo(a, e, m)
    BY Zenon, <1>3, <2>1, <2>4, <2>6 DEF CountsToo
  <2>8. CASE e.state = "Preprepared" /\ Majority(a.prepares \cup a.commits)
    BY Zenon, <2>3, <2>4, <2>5, <2>7, <2>8, LockProposalVotes
  <2>9. CASE ~(e.state = "Preprepared" /\ Majority(a.prepares \cup a.commits))
    <3>1. HandlePrepare(e, m) = a
      BY Zenon, <2>5, <2>9 DEF LockState
    <3>2. NotStuck(e) => NotStuck(a)
      BY Zenon, <2>4 DEF NotStuck, CheckMessage
    <3>3. Keeps(a, e) /\ NoVoteAdded(a, e)
      BY Zenon, <2>3, <2>4, <3>2 DEF Keeps, NoVoteAdded
    <3> QED
      BY Zenon, <2>4, <2>6, <2>7, <3>1, <3>3 DEF VoteCounted
  <2> QED
    BY Zenon, <2>8, <2>9
<1> QED
  BY Zenon, <1>1, <1>2, <1>3

-----------------------------------------------------------------------------
\* What the handlers of core.Handle do to the voting state.

\* handleCommit with a majority of Commit votes: LockHash and commit decide.
LEMMA DecideVotes ==
  ASSUME NEW e \in Engine, NEW a \in Engine, a.state # "Committed",
         e.state \in {"Preprepared", "Prepared"},
         NEW m, CountsToo(a, e, m), Majority(a.commits),
         a.seq = e.seq, a.round = e.round, a.state = e.state, a.preprepare = e.preprepare,
         a.sent = e.sent, a.inbox = e.inbox, a.backlog = e.backlog
  PROVE  Decided(Commit(LockHash(a)), e, m)
<1> DEFINE l == [a EXCEPT !.lock = a.preprepare, !.lockRound = a.round]
           s == SetState(l, "Committed")
           d == [s EXCEPT !.armed = FALSE, !.fired = {}, !.waiting = FALSE]
<1>1. LockHash(a) = l
  BY Zenon DEF LockHash
<1>2. l \in Engine
  BY Zenon DEF Engine
<1>3. /\ l.seq = a.seq /\ l.round = a.round /\ l.state = a.state /\ l.preprepare = a.preprepare
      /\ l.lock = a.preprepare /\ l.lockRound = a.round /\ SameCounts(l, a)
      /\ l.sent = a.sent /\ l.inbox = a.inbox /\ l.backlog = a.backlog
  BY Zenon DEF Engine, SameCounts
<1> HIDE DEF l
<1>4. StateSet(s, l, "Committed")
  BY Zenon, <1>2, SetStateSets DEF States
<1>5. /\ s \in Engine /\ s.state = "Committed" /\ s.seq = e.seq /\ s.round = e.round
      /\ s.preprepare = e.preprepare /\ s.lock = e.preprepare /\ s.lockRound = e.round
      /\ SameCounts(s, a) /\ s.sent = e.sent
      /\ s.inbox \cup s.backlog \subseteq e.inbox \cup e.backlog /\ NotStuck(s)
  BY <1>2, <1>3, <1>4 DEF StateSet, SameView, Engine, SameCounts
<1>6. Commit(l) = d
  BY Zenon, <1>5 DEF Commit, StopTimer, Engine
<1> HIDE DEF s
<1>7. d \in Engine
  BY ZenonT(40), <1>5 DEF Engine
<1>8. SameView(d, s) /\ d.sent = s.sent /\ d.inbox = s.inbox /\ d.backlog = s.backlog
  BY Zenon, <1>5 DEF Engine, SameView
<1> HIDE DEF d
<1>9. NotStuck(d)
  BY Zenon, <1>5, <1>8, SameNotStuck
<1>10. Keeps(d, e)
  BY Zenon, <1>5, <1>7, <1>8, <1>9 DEF Keeps, Clocked, SameView
<1>11. CountsToo(d, e, m) /\ Majority(d.commits)
  BY Zenon, <1>5, <1>8 DEF CountsToo, SameView, SameCounts
<1> QED
  BY Zenon, <1>1, <1>5, <1>6, <1>8, <1>10, <1>11 DEF Decided, SameView, NoVoteAdded

\* handleCommit counts the vote, and may lock or decide behind it.
LEMMA HandleCommitVotes ==
  ASSUME NEW e \in Engine, e.seq \in Seqs, NEW m \in Messages,
         m.code = "Commit", m.from = Self => m \in e.sent
  PROVE  LET d == HandleCommit(e, m)
         IN  Quiet(d, e) \/ VoteCounted(d, e, m) \/ LockTaken(d, e, m) \/ Decided(d, e, m)
<1>1. CASE CheckMessage(e, m) # "ok"
  BY Zenon, <1>1, QuietUnchecked DEF HandleCommit
<1>2. CASE CheckMessage(e, m) = "ok" /\ m.hash # e.preprepare
  BY Zenon, <1>2, QuietSelf DEF HandleCommit, Checked
<1>3. CASE CheckMessage(e, m) = "ok" /\ m.hash = e.preprepare
  <2>1. PICK x \in SUBSET Witness : x = e.commits \cup {m.from}
    BY Zenon DEF Engine, Messages
  <2> DEFINE a == [e EXCEPT !.commits = x]
  <2>2. [e EXCEPT !.commits = @ \cup {m.from}] = a
    BY Zenon, <2>1 DEF Engine
  <2>3. a \in Engine
    BY DEF Engine
  <2>4. /\ a.seq = e.seq /\ a.round = e.round /\ a.state = e.state /\ a.preprepare = e.preprepare
        /\ a.prepares = e.prepares /\ a.commits = x /\ SameLock(a, e)
        /\ a.sent = e.sent /\ a.inbox = e.inbox /\ a.backlog = e.backlog
        /\ (Clocked(e) => Clocked(a))
    BY Zenon DEF Engine, SameLock, Clocked
  <2>5. HandleCommit(e, m) =
          IF Majority(a.commits) THEN Commit(LockHash(a))
          ELSE IF /\ e.state = "Preprepared"
                  /\ Majority(a.prepares \cup a.commits)
                  /\ ~Locked(e)
               THEN LockProposal(a) ELSE a
    BY Zenon, <1>3, <2>2 DEF HandleCommit, Checked
  <2>6. /\ m.seq = e.seq /\ m.round = e.round /\ e.state \in {"Preprepared", "Prepared"}
        /\ m.code \in VoteCode
    <3>1. m.code \in VoteCode
      BY Zenon DEF VoteCode
    <3> QED
      BY Zenon, <1>3, <3>1, VoteChecked
  <2> HIDE DEF a
  <2>7. CountsToo(a, e, m)
    BY Zenon, <1>3, <2>1, <2>4, <2>6 DEF CountsToo
  <2>8. CASE Majority(a.commits)
    BY Zenon, <2>3, <2>4, <2>5, <2>6, <2>7, <2>8, DecideVotes
  <2>9. CASE ~Majority(a.commits) /\ e.state = "Preprepared" /\ Majority(a.prepares \cup a.commits) /\ ~Locked(e)
    BY Zenon, <2>3, <2>4, <2>5, <2>7, <2>9, LockProposalVotes
  <2>10. CASE HandleCommit(e, m) = a
    <3>2. NotStuck(e) => NotStuck(a)
      BY Zenon, <2>4 DEF NotStuck, CheckMessage
    <3>3. Keeps(a, e) /\ NoVoteAdded(a, e)
      BY Zenon, <2>3, <2>4, <3>2 DEF Keeps, NoVoteAdded
    <3> QED
      BY Zenon, <2>4, <2>6, <2>7, <2>10, <3>3 DEF VoteCounted
  <2> QED
    BY Zenon, <2>5, <2>8, <2>9, <2>10
<1> QED
  BY Zenon, <1>1, <1>2, <1>3

\* handlePreprepare accepts the proposal, commits to the locked one again, or
\* changes nothing that the rules speak of.
LEMMA HandlePreprepareVotes ==
  ASSUME NEW e \in Engine, e.seq \in Seqs, NEW m \in Messages,
         m.code = "Preprepare", m.from = Self => m \in e.sent,
         NEW env, EnvOK(env)
  PROVE  LET d == HandlePreprepare(e, m, env)
         IN  \/ Quiet(d, e)
             \/ m.hash \in Hash /\ (Accepted(d, e, m.hash) \/ Recommitted(d, e, m.hash))
<1>1. CASE CheckMessage(e, m) # "ok"
  BY Zenon, <1>1, QuietUnchecked DEF HandlePreprepare
<1>2. CASE CheckMessage(e, m) = "ok"
  <2> DEFINE verdict == IF e.pending = m.hash THEN "ok" ELSE env.verdict
  <2>1. Quiet(e, e) /\ Quiet(SendNextRoundChange(e), e)
    BY Zenon, QuietSelf, QuietSendNext
  <2>2. m.code \notin VoteCode
    BY Zenon DEF VoteCode
  <2>3. Quiet(StoreBacklog(e, m), e)
    BY Zenon, <2>2, QuietStoreBacklog
  <2>4. Quiet(StoreBacklog(SendNextRoundChange(e), m), e)
    <3> DEFINE s == SendNextRoundChange(e)
    <3>1. s \in Engine /\ (m.from = Self => m \in s.sent)
      BY Zenon, <2>1 DEF Quiet, Keeps
    <3> HIDE DEF s
    <3>2. Quiet(StoreBacklog(s, m), s)
      BY Zenon, <2>2, <3>1, QuietStoreBacklog
    <3> QED
      BY Zenon, <2>1, <3>2, QuietTrans DEF s
  <2>5. m.hash # Nil => m.hash \in Hash
    BY Zenon DEF Messages, HashOrNil
  <2>6. m.hash \in Hash => Quiet(TakeProposal(e, m), e) \/ Accepted(TakeProposal(e, m), e, m.hash)
                           \/ Recommitted(TakeProposal(e, m), e, m.hash)
    BY Zenon, TakeProposalVotes
  <2>7. verdict \in {"ok", "future", "bad", "nolib"}
    BY Zenon DEF EnvOK, Verdict
  <2>8. HandlePreprepare(e, m, env) =
          IF m.from # e.proposer THEN e
          ELSE IF m.hash = Nil THEN SendNextRoundChange(e)
          ELSE CASE verdict = "ok" -> TakeProposal(e, m)
                 [] verdict = "future" -> StoreBacklog(e, m)
                 [] verdict = "bad" -> SendNextRoundChange(e)
                 [] verdict = "nolib" -> StoreBacklog(SendNextRoundChange(e), m)
    BY Zenon, <1>2 DEF HandlePreprepare, Checked
  <2> HIDE DEF verdict
  <2> QED
    BY Zenon, <2>1, <2>3, <2>4, <2>5, <2>6, <2>7, <2>8
<1> QED
  BY Zenon, <1>1, <1>2

\* handleRoundChange starts the round behind a majority, or is quiet.
LEMMA HandleRoundChangeStarts ==
  ASSUME NEW e \in Engine, e.seq \in Seqs, NEW m \in Messages,
         m.code = "RoundChange", m.round \in Round, m.from = Self => m \in e.sent,
         NEW env, EnvOK(env)
  PROVE  LET d == HandleRoundChange(e, m, env)
         IN  Quiet(d, e) \/ RoundStarted(d, e, m.round)
<1> DEFINE a == [e EXCEPT !.rcs[m.round] = @ \cup {m.from}]
<1>1. CASE CheckMessage(e, m) # "ok"
  BY Zenon, <1>1, QuietUnchecked DEF HandleRoundChange
<1>2. CASE CheckMessage(e, m) = "ok"
  <2>1. PICK x \in [Round -> SUBSET Witness] : a = [e EXCEPT !.rcs = x]
    <3>1. a = [e EXCEPT !.rcs = [e.rcs EXCEPT ![m.round] = e.rcs[m.round] \cup {m.from}]]
      BY Zenon DEF Engine
    <3>2. [e.rcs EXCEPT ![m.round] = e.rcs[m.round] \cup {m.from}] \in [Round -> SUBSET Witness]
      BY Zenon DEF Engine, Messages
    <3> QED
      BY Zenon, <3>1, <3>2
  <2> HIDE DEF a
  <2>2. a \in Engine
    BY <2>1 DEF Engine
  <2>3. SameView(a, e) /\ a.sent = e.sent /\ a.inbox = e.inbox /\ a.backlog = e.backlog /\ (Clocked(e) => Clocked(a))
    BY Zenon, <2>1 DEF Engine, SameView, Clocked
  <2>4. Quiet(a, e)
    BY Zenon, <2>2, <2>3, QuietFields
  <2>5. a.seq \in Seqs /\ m.round \in 0..(MaxRound + 1)
    BY <2>3, CoreAssumption DEF SameView, Round
  <2>6. Quiet(SendRoundChange(a, m.round), e)
    BY Zenon, <2>2, <2>4, <2>5, QuietSendRoundChange, QuietTrans
  <2>7. Quiet(StartRound(a, m.round, env), e) \/ RoundStarted(StartRound(a, m.round, env), e, m.round)
    <3>1. CASE m.round > a.round
      <4>1. RoundStarted(StartRound(a, m.round, env), a, m.round)
        BY Zenon, <2>2, <2>5, <3>1, StartRoundStarts
      <4> QED
        BY Zenon, <2>3, <2>4, <4>1 DEF RoundStarted, Keeps, Quiet, SameView, Locked
    <3>2. CASE a.round >= m.round
      BY Zenon, <2>4, <3>2 DEF StartRound
    <3> QED
      BY <2>2, <3>1, <3>2, CoreAssumption DEF Engine, Round
  <2>8. HandleRoundChange(e, m, env) =
          IF m.from \in e.rcs[m.round] THEN e
          ELSE IF Cardinality(a.rcs[m.round]) = F + 1 /\ m.from # e.self
               THEN SendRoundChange(a, m.round)
          ELSE IF Majority(a.rcs[m.round]) THEN StartRound(a, m.round, env)
          ELSE a
    BY Zenon, <1>2 DEF HandleRoundChange, Checked, a
  <2> QED
    BY Zenon, <2>4, <2>6, <2>7, <2>8, QuietSelf
<1> QED
  BY Zenon, <1>1, <1>2

\* What handling the message m may do.
MsgHandled(d, e, m) ==
  \/ Quiet(d, e)
  \/ m.hash \in Hash /\ (Accepted(d, e, m.hash) \/ Recommitted(d, e, m.hash))
  \/ VoteCounted(d, e, m) \/ LockTaken(d, e, m) \/ Decided(d, e, m)
  \/ m.round \in Round /\ RoundStarted(d, e, m.round)

\* Handling a message has one of these effects, whatever the message.
LEMMA HandleMsgHandles ==
  ASSUME NEW e \in Engine, e.seq \in Seqs, LockState(e), NEW m \in Messages,
         m.round \in Round, m.from = Self => m \in e.sent, NEW env, EnvOK(env)
  PROVE  MsgHandled(HandleMsg(e, m, env), e, m)
<1>1. CASE m.code = "Preprepare"
  BY Zenon, <1>1, HandlePreprepareVotes DEF HandleMsg, MsgHandled
<1>2. CASE m.code = "Prepare"
  BY Zenon, <1>2, HandlePrepareVotes DEF HandleMsg, MsgHandled
<1>3. CASE m.code = "Commit"
  BY Zenon, <1>3, HandleCommitVotes DEF HandleMsg, MsgHandled
<1>4. CASE m.code = "RoundChange"
  BY Zenon, <1>4, HandleRoundChangeStarts DEF HandleMsg, MsgHandled
<1>5. CASE m.code = "CheckPendingTx"
  <2>1. HandleMsg(e, m, env) = HandleCheckTx(e, m, env)
    BY Zenon, <1>5 DEF HandleMsg
  <2>2. Quiet(HandleCheckTx(e, m, env), e)
    BY Zenon, QuietSelf, QuietUnchecked, QuietRefresh DEF HandleCheckTx, Checked
  <2> QED
    BY Zenon, <2>1, <2>2 DEF MsgHandled
<1>6. m.code \in Code
  BY Zenon DEF Messages
<1> QED
  BY Zenon, <1>1, <1>2, <1>3, <1>4, <1>5, <1>6 DEF Code

\* A stored height: the engine moves above it, unless it is there already.
LEMMA HandleNewNumberStarts ==
  ASSUME NEW e \in Engine, NEW n, NEW env, EnvOK(env)
  PROVE  LET d == HandleNewNumber(e, n, env)
         IN  \/ Quiet(d, e)
             \/ env.tail >= e.seq /\ HeightStarted(d, e, env.tail + 1)
<1>1. CASE env.tail >= e.seq
  <2>1. HeightStarted(Start(e, env), e, env.tail + 1)
    BY Zenon, <1>1, StartStarts
  <2> QED
    BY Zenon, <1>1, <2>1, QuietSelf DEF HandleNewNumber, Start
<1>2. CASE ~(env.tail >= e.seq)
  <2>1. env.tail < e.seq
    BY <1>2, LoadAssumption DEF EnvOK, Engine
  <2> QED
    BY Zenon, <2>1, QuietSelf, QuietRefresh DEF HandleNewNumber, StartHeight
<1> QED
  BY Zenon, <1>1, <1>2

\* handleRequest proposes the unit and signs no vote.
LEMMA QuietHandleRequest ==
  ASSUME NEW e \in Engine, e.seq \in Seqs, NEW q, q.hash \in Hash
  PROVE  Quiet(HandleRequest(e, q), e)
<1> DEFINE p == [e EXCEPT !.pending = q.hash]
<1>1. p \in Engine
  BY DEF Engine, HashOrNil
<1>2. SameView(p, e) /\ p.sent = e.sent /\ p.inbox = e.inbox /\ p.backlog = e.backlog /\ (Clocked(e) => Clocked(p))
  BY Zenon DEF Engine, SameView, Clocked
<1>3. Quiet(p, e)
  BY Zenon, <1>1, <1>2, QuietFields
<1>4. p.seq \in Seqs /\ q.hash \in HashOrNil
  BY Zenon, <1>2 DEF SameView, HashOrNil
<1> HIDE DEF p
<1>5. Quiet(SendPreprepare(p, q.hash), e)
  BY Zenon, <1>1, <1>3, <1>4, QuietSendPreprepare, QuietTrans
<1> QED
  BY Zenon, <1>3, <1>5, QuietSelf DEF HandleRequest, p

\* A time-out taken from the queue, and the change of round it asks for.
LEMMA QuietHandleTimeout ==
  ASSUME NEW e \in Engine, e.seq \in Seqs, NEW r, NEW b \in Branch, NEW env
  PROVE  Quiet(HandleTimeout([e EXCEPT !.fired = @ \ {r}], r, b, env), e)
<1>1. PICK f \in SUBSET Round : f = e.fired \ {r}
  BY Zenon DEF Engine
<1> DEFINE x == [e EXCEPT !.fired = f]
           d == HandleTimeout(x, r, b, env)
<1>2. [e EXCEPT !.fired = @ \ {r}] = x
  BY Zenon, <1>1 DEF Engine
<1>3. x \in Engine
  BY DEF Engine
<1>4. /\ SameView(x, e) /\ x.sent = e.sent /\ x.inbox = e.inbox /\ x.backlog = e.backlog
      /\ x.armed = e.armed /\ x.fired = f /\ x.activated = e.activated
  BY Zenon DEF Engine, SameView
<1> HIDE DEF x
<1>5. x.seq \in Seqs
  BY Zenon, <1>4 DEF SameView
<1>6. CASE r < x.round
  <2>1. Clocked(e) => Clocked(x)
    BY <1>1, <1>3, <1>4, <1>6, CoreAssumption DEF Clocked, SameView, Engine, Round
  <2>2. Quiet(x, e)
    BY Zenon, <1>3, <1>4, <2>1, QuietFields
  <2> QED
    BY Zenon, <1>2, <1>6, <2>2 DEF HandleTimeout
<1>7. CASE ~(r < x.round)
  <2>1. Quiet(SendNextRoundChange(x), x) /\ SendNextRoundChange(x).armed
    BY Zenon, <1>3, <1>5, QuietSendNext
  <2>2. Quiet(DisabledChain(x), x) /\ ~DisabledChain(x).activated
    BY Zenon, <1>3, QuietDisabled
  <2>3. Quiet(SendNextRoundChange(SendCheckPendingTx(x)), x) /\ SendNextRoundChange(SendCheckPendingTx(x)).armed
    <3> DEFINE s == SendCheckPendingTx(x)
    <3>1. Quiet(s, x)
      BY Zenon, <1>3, <1>5, QuietSendCheckPendingTx
    <3> HIDE DEF s
    <3>2. s \in Engine /\ s.seq \in Seqs
      BY Zenon, <1>5, <3>1 DEF Quiet, Keeps, SameView
    <3>3. Quiet(SendNextRoundChange(s), s) /\ SendNextRoundChange(s).armed
      BY Zenon, <3>2, QuietSendNext
    <3> QED
      BY Zenon, <3>1, <3>3, QuietTrans DEF s
  <2>4. MaxRoundOf(x, 1) >= 0 => Quiet(SendRoundChange(x, MaxRoundOf(x, 1)), x) /\ SendRoundChange(x, MaxRoundOf(x, 1)).armed
    <3>1. MaxRoundOf(x, 1) \in -1..MaxRound
      BY Zenon, <1>3, MaxRoundType
    <3>2. MaxRoundOf(x, 1) >= 0 => MaxRoundOf(x, 1) \in 0..(MaxRound + 1)
      BY <3>1, CoreAssumption
    <3> QED
      BY Zenon, <1>3, <1>5, <3>2, QuietSendRoundChange
  <2>5. LET s == [x EXCEPT !.proposer = 0, !.rcs = NoVotes]
        IN  Quiet(SendNextRoundChange(s), x) /\ SendNextRoundChange(s).armed
    <3> DEFINE s == [x EXCEPT !.proposer = 0, !.rcs = NoVotes]
    <3>1. 0 \in Witness /\ NoVotes \in [Round -> SUBSET Witness]
      BY CoreAssumption DEF Witness, NoVotes
    <3>2. s \in Engine
      BY ZenonT(40), <1>3, <3>1 DEF Engine
    <3>3. SameView(s, x) /\ s.sent = x.sent /\ s.inbox = x.inbox /\ s.backlog = x.backlog /\ (Clocked(x) => Clocked(s))
      BY Zenon, <1>3 DEF Engine, SameView, Clocked
    <3> HIDE DEF s
    <3>4. Quiet(s, x) /\ s.seq \in Seqs
      BY Zenon, <1>3, <1>5, <3>2, <3>3, QuietFields DEF SameView
    <3>5. Quiet(SendNextRoundChange(s), s) /\ SendNextRoundChange(s).armed
      BY Zenon, <3>2, <3>4, QuietSendNext
    <3> QED
      BY Zenon, <3>4, <3>5, QuietTrans DEF s
  <2>6. Quiet(d, x) /\ Clocked(d)
    BY Zenon, <1>7, <2>1, <2>2, <2>3, <2>4, <2>5 DEF HandleTimeout, Branch, Clocked
  <2> HIDE DEF d
  <2>7. NotStuck(e) => NotStuck(x)
    BY Zenon, <1>4, SameNotStuck
  <2>8. Quiet(d, e)
    BY Zenon, <1>4, <2>6, <2>7 DEF Quiet, Keeps, SameView
  <2> QED
    BY Zenon, <1>2, <2>8 DEF d
<1> QED
  BY Zenon, <1>6, <1>7

\* The packing goroutine is quiet.
LEMMA QuietPackDone ==
  ASSUME NEW e \in Engine, e.packing > 0, NEW env, EnvOK(env)
  PROVE  Quiet(PackDone(e, env), e)
<1>1. PICK k \in Nat : k = e.packing - 1
  BY DEF Engine
<1> DEFINE p == [e EXCEPT !.packing = k]
<1>2. [e EXCEPT !.packing = @ - 1] = p
  BY Zenon, <1>1 DEF Engine
<1>3. p \in Engine
  BY DEF Engine
<1>4. SameView(p, e) /\ p.sent = e.sent /\ p.inbox = e.inbox /\ p.backlog = e.backlog /\ (Clocked(e) => Clocked(p))
  BY Zenon DEF Engine, SameView, Clocked
<1> HIDE DEF p
<1>5. Quiet(p, e)
  BY Zenon, <1>3, <1>4, QuietFields
<1>6. env.pack # Nil => Quiet(Request(p, env), e)
  BY Zenon, <1>3, <1>5, QuietRequest, QuietTrans
<1>7. Quiet(DisabledChain(p), e)
  BY Zenon, <1>3, <1>5, QuietDisabled, QuietTrans
<1> QED
  BY Zenon, <1>2, <1>6, <1>7 DEF PackDone

\* The timer loop's tick is quiet: the time-out is then on its way.
LEMMA QuietTimerFire ==
  ASSUME NEW e \in Engine PROVE Quiet(TimerFire(e), e)
<1>1. PICK f \in SUBSET Round : f = e.fired \cup {e.round}
  BY Zenon DEF Engine
<1> DEFINE d == [e EXCEPT !.fired = f, !.deleting = TRUE]
<1>2. TimerFire(e) = d
  BY Zenon, <1>1 DEF TimerFire, Engine
<1>3. d \in Engine
  BY Zenon DEF Engine
<1>4. SameView(d, e) /\ d.sent = e.sent /\ d.inbox = e.inbox /\ d.backlog = e.backlog /\ Clocked(d)
  BY Zenon, <1>1 DEF Engine, SameView, Clocked
<1> QED
  BY Zenon, <1>2, <1>3, <1>4, QuietFields

\* The timer loop's task deletion changes the clock alone.
LEMMA TimerDeletes ==
  ASSUME NEW e \in Engine
  PROVE  LET d == TimerDelete(e)
         IN  /\ d \in Engine /\ SameView(d, e)
             /\ d.sent = e.sent /\ d.inbox = e.inbox /\ d.backlog = e.backlog
<1> DEFINE d == [e EXCEPT !.armed = FALSE, !.deleting = FALSE]
<1>1. d \in Engine
  BY Zenon DEF Engine
<1>2. SameView(d, e) /\ d.sent = e.sent /\ d.inbox = e.inbox /\ d.backlog = e.backlog
  BY Zenon DEF Engine, SameView
<1> QED
  BY Zenon, <1>1, <1>2 DEF TimerDelete
=============================================================================
