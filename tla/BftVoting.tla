------------------------------ MODULE BftVoting ------------------------------
(***************************************************************************)
(* The voting rules of one account chain's witness group: what an engine   *)
(* (consensus/bft/core) may sign, lock, forget and store, and nothing of   *)
(* how it gets there.  Proposals, round-change votes, clocks, backlogs and *)
(* activation belong to BftCore, which implements this module; here a      *)
(* witness may be offered any proposal and may enter any higher round.     *)
(*                                                                         *)
(* A unit of the chain is known by its height and its hash.  Votes are     *)
(* never removed, so a vote may be lost, repeated, delayed or reordered on *)
(* its way to any witness.  The witnesses are of three kinds: Honest ones  *)
(* follow the rules here; Others sign what they like, and what they have   *)
(* signed is on record; the rest may have signed anything.                 *)
(***************************************************************************)
EXTENDS Integers, Sequences, FiniteSets

CONSTANTS
  Witness,        \* the chain's witness group
  Honest,         \* the witnesses that run this engine
  Others,         \* witnesses of the environment
  Hash,           \* unit hashes, told apart at one height
  Nil,            \* no hash
  MinVotings,     \* params.GetChainMinVoting: votes that make a majority
  DeadLockPeriod, \* rounds between two runs of checkDeadLock (2 * voteSum)
  MaxRestarts,    \* bound on engine restarts, all witnesses together
  MaxRound,       \* bound on rounds
  MaxSeq          \* bound on heights

Round == 0..MaxRound
Seqs == 1..MaxSeq
State == {"AcceptRequest", "Preprepared", "Prepared", "Committed"}
HashOrNil == Hash \cup {Nil}
Votes == [type : {"Prepare", "Commit"}, from : Witness, seq : Seqs,
          round : Round, hash : Hash]

ASSUME GroupAssumption ==
  /\ IsFiniteSet(Witness)
  /\ Honest \subseteq Witness
  /\ Others \subseteq Witness \ Honest
  /\ Nil \notin Hash
  /\ MinVotings \in Nat
  /\ MaxRestarts \in Nat
  /\ MaxRound \in Nat
  /\ MaxSeq \in Nat \ {0}
  /\ DeadLockPeriod \in Nat \ {0}

VARIABLES
  seq,        \* seq[w]: the height w's engine works on
  round,      \* round[w]: its round at that height
  state,      \* state[w]: its State
  preprepare, \* preprepare[w]: the proposal it holds, or Nil
  lock,       \* lock[w]: the hash it is locked on (polcRound), or Nil
  lockRound,  \* lockRound[w]: the round in which that lock was taken
  votes,      \* every vote an honest witness has signed
  others,     \* the votes on record of the witnesses in Others
  chain,      \* chain[w]: the hashes stored at w, one for each height
  unlocked,   \* history: <<w, n>> when checkDeadLock released w at height n
  restarted,  \* history: <<w, n>> when w lost its engine at height n
  restarts    \* how many restarts there have been

own == <<seq, round, state, preprepare, lock, lockRound, votes, chain,
         unlocked, restarted, restarts>>
vars == <<own, others>>

Vote(t, w, n, r, h) ==
  [type |-> t, from |-> w, seq |-> n, round |-> r, hash |-> h]

\* With the votes V on record: may the vote v be heard?
Heard(V, v) == v \in V \/ v.from \notin Honest \cup Others

\* Commits.Size: the witnesses whose Commit for h in view (n, r) one may hold.
Committers(V, n, r, h) ==
  {x \in Witness : Heard(V, Vote("Commit", x, n, r, h))}

\* GetPrepareOrCommitSize: one vote for each address, whatever its kind.
PrepareOrCommit(V, n, r, h) ==
  Committers(V, n, r, h)
    \cup {x \in Witness : Heard(V, Vote("Prepare", x, n, r, h))}

\* GetUnitVoter: the seals of a unit may come from different rounds.
Sealers(V, n, h) == UNION {Committers(V, n, r, h) : r \in Round}

\* Mutant: the tests are "at least".
MajorityAtLeast(S) == Cardinality(S) >= MinVotings - 1

\* TwoThirdsMajority is MinVotings - 1 and every test is "more than".
Majority(S) == Cardinality(S) > MinVotings - 1

-----------------------------------------------------------------------------
Init ==
  /\ seq = [w \in Honest |-> 1]
  /\ round = [w \in Honest |-> 0]
  /\ state = [w \in Honest |-> "AcceptRequest"]
  /\ preprepare = [w \in Honest |-> Nil]
  /\ lock = [w \in Honest |-> Nil]
  /\ lockRound = [w \in Honest |-> 0]
  /\ votes = {}
  /\ others = {}
  /\ chain = [w \in Honest |-> << >>]
  /\ unlocked = {}
  /\ restarted = {}
  /\ restarts = 0

\* Every vote on record.
Signed == votes \cup others

\* What a step may count: what is on record, and what Others sign meanwhile.
OnRecord == votes \cup others'

\* The witnesses in Others may sign anything in any step.
OthersSign ==
  others' \in {V \in SUBSET {v \in Votes : v.from \in Others} : others \subseteq V}

Sign(t, w, h) == votes' = votes \cup {Vote(t, w, seq[w], round[w], h)}

\* Mutant: the lock is not asked for.
AcceptProposalLocked(w, h) ==
  /\ state[w] = "AcceptRequest"
  /\ preprepare' = [preprepare EXCEPT ![w] = h]
  /\ state' = [state EXCEPT ![w] = "Preprepared"]
  /\ Sign("Prepare", w, h)
  /\ UNCHANGED <<seq, round, lock, lockRound, chain, unlocked,
                 restarted, restarts>>

\* handlePreprepare, no lock held: accept the proposal and vote Prepare.
AcceptProposal(w, h) ==
  /\ state[w] = "AcceptRequest"
  /\ lock[w] = Nil
  /\ preprepare' = [preprepare EXCEPT ![w] = h]
  /\ state' = [state EXCEPT ![w] = "Preprepared"]
  /\ Sign("Prepare", w, h)
  /\ UNCHANGED <<seq, round, lock, lockRound, chain, unlocked,
                 restarted, restarts>>

\* handlePreprepare, the locked unit is proposed again: vote Commit at once.
RecommitLocked(w, h) ==
  /\ state[w] = "AcceptRequest"
  /\ lock[w] = h
  /\ preprepare' = [preprepare EXCEPT ![w] = h]
  /\ state' = [state EXCEPT ![w] = "Prepared"]
  /\ Sign("Commit", w, h)
  /\ UNCHANGED <<seq, round, lock, lockRound, chain, unlocked,
                 restarted, restarts>>

\* handlePrepare and the second branch of handleCommit: a majority of Prepare
\* or Commit votes locks the proposal.
LockProposal(w) ==
  /\ state[w] = "Preprepared"
  /\ Majority(PrepareOrCommit(OnRecord, seq[w], round[w], preprepare[w]))
  /\ lock' = [lock EXCEPT ![w] = preprepare[w]]
  /\ lockRound' = [lockRound EXCEPT ![w] = round[w]]
  /\ state' = [state EXCEPT ![w] = "Prepared"]
  /\ Sign("Commit", w, preprepare[w])
  /\ UNCHANGED <<seq, round, preprepare, chain, unlocked,
                 restarted, restarts>>

\* The units w may store next: its chain only grows at the tail.
Extends(w, n, h) ==
  IF n = Len(chain[w]) + 1 THEN [chain EXCEPT ![w] = Append(@, h)] ELSE chain

\* handleCommit and commit: a majority of Commit votes locks and stores the
\* proposal.  backend.Commit hides a failed insertion from the engine.
CommitProposal(w) ==
  /\ state[w] \in {"Preprepared", "Prepared"}
  /\ Majority(Committers(OnRecord, seq[w], round[w], preprepare[w]))
  /\ lock' = [lock EXCEPT ![w] = preprepare[w]]
  /\ lockRound' = [lockRound EXCEPT ![w] = round[w]]
  /\ state' = [state EXCEPT ![w] = "Committed"]
  /\ chain' \in {chain, Extends(w, seq[w], preprepare[w])}
  /\ UNCHANGED <<seq, round, preprepare, votes, unlocked,
                 restarted, restarts>>

\* Mutant: the seals are not counted.
StoreUnsealed(w, h) ==
  /\ Len(chain[w]) + 1 \in Seqs
  /\ chain' = Extends(w, Len(chain[w]) + 1, h)
  /\ UNCHANGED <<seq, round, state, preprepare, lock, lockRound, votes,
                 unlocked, restarted, restarts>>

\* VerifySeal: a unit that arrives from a peer is stored when MinVotings
\* witnesses have sealed it.
StoreSealed(w, h) ==
  LET n == Len(chain[w]) + 1
  IN  /\ n \in Seqs
      /\ Majority(Sealers(OnRecord, n, h))
      /\ chain' = Extends(w, n, h)
      /\ UNCHANGED <<seq, round, state, preprepare, lock, lockRound, votes,
                     unlocked, restarted, restarts>>

\* Mutant: the round state of the new round starts without the lock.
ChangeRoundUnlocked(w, r) ==
  /\ r > round[w]
  /\ round' = [round EXCEPT ![w] = r]
  /\ state' = [state EXCEPT ![w] = "AcceptRequest"]
  /\ preprepare' = [preprepare EXCEPT ![w] = Nil]
  /\ lock' = [lock EXCEPT ![w] = Nil]
  /\ UNCHANGED <<seq, lockRound, votes, chain, unlocked, restarted, restarts>>

\* startNewRound(r), r > 0, and updateRoundState: a locked witness carries its
\* lock and its proposal into the round, any other drops the proposal.  In
\* every DeadLockPeriod-th round checkDeadLock may then release the lock.
ChangeRound(w, r) ==
  /\ r > round[w]
  /\ round' = [round EXCEPT ![w] = r]
  /\ state' = [state EXCEPT ![w] = "AcceptRequest"]
  /\ preprepare' = [preprepare EXCEPT ![w] = IF lock[w] = Nil THEN Nil ELSE @]
  /\ \/ UNCHANGED <<lock, lockRound, unlocked>>
     \/ /\ r % DeadLockPeriod = 0
        /\ lock[w] # Nil
        /\ lock' = [lock EXCEPT ![w] = Nil]
        /\ lockRound' = [lockRound EXCEPT ![w] = 0]
        /\ unlocked' = unlocked \cup {<<w, seq[w]>>}
  /\ UNCHANGED <<seq, votes, chain, restarted, restarts>>

\* The engine's state at the start of the height above its chain's tail.
FreshHeight(w) ==
  /\ Len(chain[w]) + 1 \in Seqs
  /\ seq' = [seq EXCEPT ![w] = Len(chain[w]) + 1]
  /\ round' = [round EXCEPT ![w] = 0]
  /\ state' = [state EXCEPT ![w] = "AcceptRequest"]
  /\ preprepare' = [preprepare EXCEPT ![w] = Nil]
  /\ lock' = [lock EXCEPT ![w] = Nil]
  /\ lockRound' = [lockRound EXCEPT ![w] = 0]
  /\ UNCHANGED <<votes, chain, unlocked>>

\* startNewRound(0): the height is stored, the engine moves above the tail.
NewHeight(w) ==
  /\ Len(chain[w]) >= seq[w]
  /\ FreshHeight(w)
  /\ UNCHANGED <<restarted, restarts>>

\* core.Stop and a later core.New and Start for the chain: the engine's memory
\* is gone, the stored chain is not.
Restart(w) ==
  /\ restarts < MaxRestarts
  /\ restarts' = restarts + 1
  /\ FreshHeight(w)
  /\ restarted' = restarted \cup {<<w, Len(chain[w]) + 1>>}

Step(w) ==
  \/ \E h \in Hash : AcceptProposal(w, h)
  \/ \E h \in Hash : RecommitLocked(w, h)
  \/ LockProposal(w)
  \/ CommitProposal(w)
  \/ \E h \in Hash : StoreSealed(w, h)
  \/ \E r \in Round : ChangeRound(w, r)
  \/ NewHeight(w)
  \/ Restart(w)

Next == OthersSign /\ (UNCHANGED own \/ \E w \in Honest : Step(w))

Spec == Init /\ [][Next]_vars

-----------------------------------------------------------------------------
\* The variables keep their types.
TypeOK ==
  /\ seq \in [Honest -> Seqs]
  /\ round \in [Honest -> Round]
  /\ state \in [Honest -> State]
  /\ preprepare \in [Honest -> HashOrNil]
  /\ lock \in [Honest -> HashOrNil]
  /\ lockRound \in [Honest -> Round]
  /\ votes \subseteq Votes
  /\ others \subseteq {v \in Votes : v.from \in Others}
  /\ chain \in [Honest -> Seq(Hash)]
  /\ unlocked \subseteq Honest \X Seqs
  /\ restarted \subseteq Honest \X Seqs
  /\ restarts \in 0..MaxRestarts

\* The witnesses whose Commit votes at height n bind nothing: those outside
\* Honest, and those that lost the lock behind an earlier vote.
Forgetful(n) ==
  (Witness \ Honest) \cup {w \in Honest : <<w, n>> \in unlocked \cup restarted}

\* The witnesses that may have voted twice in one view of height n.
Revoting(n) == (Witness \ Honest) \cup {w \in Honest : <<w, n>> \in restarted}

\* Any two majorities share a witness outside G: with 11 witnesses and 8
\* votes, G may have 4 members.
Tolerable(G) == Cardinality(G) < 2 * MinVotings - Cardinality(Witness)

\* No two witnesses store different units at one height, as long as the
\* witnesses that can no longer be held to their Commit votes (faulty ones, and
\* those that lost their lock in checkDeadLock or in a restart) are tolerable.
Agreement ==
  \A v, w \in Honest : \A n \in 1..Len(chain[v]) :
    n <= Len(chain[w]) /\ Tolerable(Forgetful(n)) => chain[v][n] = chain[w][n]

\* handlePrepare and handleCommit lock only behind a majority, so two witnesses
\* that lock in the same view lock the same unit.  Locks taken in different
\* rounds may differ: that is what checkDeadLock is for.
SameViewLocks ==
  \A v, w \in Honest :
    /\ seq[v] = seq[w]
    /\ lock[v] # Nil /\ lock[w] # Nil
    /\ lockRound[v] = lockRound[w]
    /\ Tolerable(Revoting(seq[v]))
    => lock[v] = lock[w]

\* Whatever route a unit took into a chain (the engine's own commit or a peer's
\* sealed unit), a majority of witnesses has signed a Commit for it.
StoredIsSealed ==
  \A w \in Honest : \A n \in 1..Len(chain[w]) :
    Majority(Sealers(Signed, n, chain[w][n]))

\* A lock is never exchanged for another one: it ends with its height, in
\* checkDeadLock or with the engine (updateRoundState carries it through every
\* round change, LockHash may only repeat it).
LockKept ==
  [][\A w \in Honest :
       lock[w] # Nil /\ lock'[w] # lock[w]
         => \/ seq'[w] > seq[w]
            \/ <<w, seq[w]>> \in unlocked' \cup restarted']_vars
=============================================================================
