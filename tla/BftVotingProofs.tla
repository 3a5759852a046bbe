-------------------------- MODULE BftVotingProofs ---------------------------
(***************************************************************************)
(* Proofs about BftVoting, for every witness group, every set of honest    *)
(* witnesses and every bound.                                              *)
(***************************************************************************)
EXTENDS BftVoting, FiniteSetTheorems, TLAPS

-----------------------------------------------------------------------------
\* The inductive invariant.

\* An engine works at most one height above its stored chain.
HeightInv == \A w \in Honest : seq[w] <= Len(chain[w]) + 1

\* What an engine's state says of its proposal and its lock.
LockInv ==
  \A w \in Honest :
    /\ lock[w] # Nil => preprepare[w] = lock[w]
    /\ state[w] = "Preprepared" => lock[w] = Nil /\ preprepare[w] # Nil
    /\ state[w] \in {"Prepared", "Committed"} => lock[w] # Nil

\* Recorded votes are honest ones, of heights the voter has reached.
VoteInv == \A v \in votes : v.from \in Honest /\ v.seq <= seq[v.from]

Forgot(w, n) == <<w, n>> \in unlocked \cup restarted

\* A witness that has forgotten nothing is still locked on the unit its Commit
\* votes of the current height were for.
LockBehindCommit ==
  \A v \in votes :
    v.type = "Commit" /\ v.seq = seq[v.from] /\ ~Forgot(v.from, v.seq)
      => v.hash = lock[v.from]

\* A witness that has forgotten nothing at a height has voted Commit there for
\* one unit only, in all rounds together.
CommitOnce ==
  \A u, v \in votes :
    /\ u.type = "Commit" /\ v.type = "Commit"
    /\ u.from = v.from /\ u.seq = v.seq
    /\ ~Forgot(v.from, v.seq)
    => u.hash = v.hash

\* The votes of an engine that was not restarted at its height are of rounds it
\* has reached, and those of its current view are for its proposal.
ViewInv ==
  \A v \in votes :
    v.seq = seq[v.from] /\ <<v.from, v.seq>> \notin restarted
      => /\ v.round <= round[v.from]
         /\ v.round = round[v.from]
              => /\ state[v.from] # "AcceptRequest"
                 /\ v.hash = preprepare[v.from]

\* In one view an engine that was not restarted at its height votes for one
\* unit.
VoteOncePerView ==
  \A u, v \in votes :
    /\ u.from = v.from /\ u.seq = v.seq /\ u.round = v.round
    /\ <<v.from, v.seq>> \notin restarted
    => u.hash = v.hash

\* Behind every lock is a majority of the view in which it was taken.
LockBacked ==
  \A w \in Honest :
    lock[w] # Nil => Majority(PrepareOrCommit(Signed, seq[w], lockRound[w], lock[w]))

Inv ==
  /\ TypeOK /\ HeightInv /\ LockInv /\ VoteInv
  /\ LockBehindCommit /\ CommitOnce /\ ViewInv /\ VoteOncePerView
  /\ LockBacked /\ StoredIsSealed

-----------------------------------------------------------------------------
\* The types.  A vote is well typed because LockInv gives it a proposal.

\* Every initial state is well typed.
LEMMA TypeInit == Init => TypeOK
BY GroupAssumption DEF Init, TypeOK, Seqs, Round, State, HashOrNil

\* An engine that is put on the height above its chain is well typed.
LEMMA TypeFresh ==
  ASSUME TypeOK, NEW w \in Honest, FreshHeight(w)
  PROVE  /\ seq' \in [Honest -> Seqs]
         /\ round' \in [Honest -> Round]
         /\ state' \in [Honest -> State]
         /\ preprepare' \in [Honest -> HashOrNil]
         /\ lock' \in [Honest -> HashOrNil]
         /\ lockRound' \in [Honest -> Round]
         /\ votes' \subseteq Votes
         /\ chain' \in [Honest -> Seq(Hash)]
         /\ unlocked' \subseteq Honest \X Seqs
BY GroupAssumption DEF FreshHeight, TypeOK, Round, State, HashOrNil

\* Storing a unit keeps the chains sequences of hashes.
LEMMA TypeExtends ==
  ASSUME TypeOK, NEW w \in Honest, NEW n, NEW h \in Hash
  PROVE  Extends(w, n, h) \in [Honest -> Seq(Hash)]
BY DEF Extends, TypeOK

\* What Others have signed stays on record and is well typed.
LEMMA OthersGrow ==
  ASSUME TypeOK, [Next]_vars
  PROVE  /\ others \subseteq others'
         /\ others' \subseteq {v \in Votes : v.from \in Others}
BY Zenon DEF TypeOK, Next, OthersSign, vars

\* No action leaves the types: LockProposal and CommitProposal have a proposal.
LEMMA TypeNext == TypeOK /\ LockInv /\ [Next]_vars => TypeOK'
<1> SUFFICES ASSUME TypeOK, LockInv, [Next]_vars PROVE TypeOK'
  BY Zenon
<1> USE GroupAssumption
<1>0. others' \subseteq {v \in Votes : v.from \in Others}
  BY Zenon, OthersGrow
<1> USE <1>0
<1>1. CASE UNCHANGED own
  BY Zenon, <1>1 DEF own, TypeOK
<1>2. ASSUME NEW w \in Honest, NEW h \in Hash, AcceptProposal(w, h)
      PROVE  TypeOK'
  BY <1>2 DEF AcceptProposal, Sign, Vote, Votes, TypeOK, State, HashOrNil
<1>3. ASSUME NEW w \in Honest, NEW h \in Hash, RecommitLocked(w, h)
      PROVE  TypeOK'
  BY <1>3 DEF RecommitLocked, Sign, Vote, Votes, TypeOK, State, HashOrNil
<1>4. ASSUME NEW w \in Honest, LockProposal(w) PROVE TypeOK'
  BY <1>4 DEF LockProposal, Sign, Vote, Votes, TypeOK, State, HashOrNil, LockInv
<1>5. ASSUME NEW w \in Honest, CommitProposal(w) PROVE TypeOK'
  <2>1. preprepare[w] \in Hash
    BY Zenon, <1>5 DEF CommitProposal, TypeOK, LockInv, HashOrNil
  <2>2. chain' \in [Honest -> Seq(Hash)]
    BY <1>5, <2>1, TypeExtends DEF CommitProposal, TypeOK
  <2> QED
    BY Zenon, <1>5, <2>1, <2>2 DEF CommitProposal, TypeOK, State, HashOrNil
<1>6. ASSUME NEW w \in Honest, NEW h \in Hash, StoreSealed(w, h) PROVE TypeOK'
  <2>1. chain' \in [Honest -> Seq(Hash)]
    BY Zenon, <1>6, TypeExtends DEF StoreSealed
  <2> QED
    BY Zenon, <1>6, <2>1 DEF StoreSealed, TypeOK
<1>7. ASSUME NEW w \in Honest, NEW r \in Round, ChangeRound(w, r) PROVE TypeOK'
  <2>1. /\ round' \in [Honest -> Round] /\ state' \in [Honest -> State]
        /\ preprepare' \in [Honest -> HashOrNil]
    BY Zenon, <1>7 DEF ChangeRound, TypeOK, State, HashOrNil
  <2>2. lock' \in [Honest -> HashOrNil] /\ lockRound' \in [Honest -> Round]
    <3>1. \/ UNCHANGED <<lock, lockRound>>
          \/ /\ lock' = [lock EXCEPT ![w] = Nil]
             /\ lockRound' = [lockRound EXCEPT ![w] = 0]
      BY Zenon, <1>7 DEF ChangeRound
    <3>2. 0 \in Round /\ Nil \in HashOrNil
      BY DEF Round, HashOrNil
    <3> QED
      BY ZenonT(40), <3>1, <3>2 DEF TypeOK
  <2>3. unlocked' \subseteq Honest \X Seqs
    BY <1>7 DEF ChangeRound, TypeOK
  <2> QED
    BY Zenon, <1>7, <2>1, <2>2, <2>3 DEF ChangeRound, TypeOK
<1>8. ASSUME NEW w \in Honest, NewHeight(w) PROVE TypeOK'
  BY Zenon, <1>8, TypeFresh DEF NewHeight, TypeOK
<1>9. ASSUME NEW w \in Honest, Restart(w) PROVE TypeOK'
  <2>1. restarted' \subseteq Honest \X Seqs
    BY <1>9 DEF Restart, FreshHeight, TypeOK
  <2> QED
    BY <1>9, <2>1, TypeFresh DEF Restart, TypeOK
<1>q. QED
  BY Zenon, <1>1, <1>2, <1>3, <1>4, <1>5, <1>6, <1>7, <1>8, <1>9
     DEF Next, Step, vars

-----------------------------------------------------------------------------
\* Majorities.

\* The counted sets are finite, and a larger set of witnesses is still a
\* majority.
LEMMA MajorityGrows ==
  ASSUME NEW S, NEW T, S \subseteq T, T \subseteq Witness, Majority(S)
  PROVE  Majority(T)
<1>1. IsFiniteSet(T) /\ IsFiniteSet(S)
  BY Zenon, GroupAssumption, FS_Subset
<1>2. Cardinality(S) <= Cardinality(T)
  BY Zenon, <1>1, FS_Subset
<1>3. Cardinality(S) \in Nat /\ Cardinality(T) \in Nat
  BY Zenon, <1>1, FS_CardinalityType
<1> QED
  BY <1>2, <1>3, GroupAssumption DEF Majority

\* Any two majorities share a witness outside a tolerable set.
LEMMA MajoritiesMeet ==
  ASSUME NEW S \in SUBSET Witness, NEW T \in SUBSET Witness, NEW G \in SUBSET Witness,
         Majority(S), Majority(T), Tolerable(G)
  PROVE  \E x \in S \cap T : x \notin G
<1>1. /\ IsFiniteSet(S) /\ IsFiniteSet(T) /\ IsFiniteSet(G)
      /\ IsFiniteSet(S \cup T) /\ IsFiniteSet(S \cap T)
  BY Zenon, GroupAssumption, FS_Subset
<1>2. /\ Cardinality(S) \in Nat /\ Cardinality(T) \in Nat /\ Cardinality(G) \in Nat
      /\ Cardinality(S \cup T) \in Nat /\ Cardinality(S \cap T) \in Nat
      /\ Cardinality(Witness) \in Nat
  BY Zenon, <1>1, FS_CardinalityType, GroupAssumption
<1>3. Cardinality(S \cup T) = Cardinality(S) + Cardinality(T) - Cardinality(S \cap T)
  BY Zenon, <1>1, FS_Union
<1>4. Cardinality(S \cup T) <= Cardinality(Witness)
  BY Zenon, GroupAssumption, FS_Subset
<1>5. Cardinality(S \cap T) > Cardinality(G)
  BY <1>2, <1>3, <1>4, GroupAssumption DEF Majority, Tolerable
<1>6. ~(S \cap T \subseteq G)
  BY <1>1, <1>2, <1>5, FS_Subset
<1> QED
  BY Zenon, <1>6

\* Votes are counted by witness, and more votes have more voters.
LEMMA VotersAreWitnesses ==
  \A V, n, r, h :
    /\ Committers(V, n, r, h) \subseteq PrepareOrCommit(V, n, r, h)
    /\ PrepareOrCommit(V, n, r, h) \subseteq Witness
    /\ Sealers(V, n, h) \subseteq Witness
    /\ r \in Round => Committers(V, n, r, h) \subseteq Sealers(V, n, h)
<1>1. \A V, n, r, h : Committers(V, n, r, h) \subseteq Witness
  BY Zenon DEF Committers
<1> QED
  BY <1>1 DEF PrepareOrCommit, Sealers

\* A majority of some votes is one of more votes.
LEMMA MoreVotes ==
  ASSUME NEW V, NEW W, V \subseteq W, NEW n, NEW r, NEW h
  PROVE  /\ Majority(PrepareOrCommit(V, n, r, h))
              => Majority(PrepareOrCommit(W, n, r, h))
         /\ Majority(Sealers(V, n, h)) => Majority(Sealers(W, n, h))
<1>1. \A q : Committers(V, n, q, h) \subseteq Committers(W, n, q, h)
  BY Zenon DEF Committers, Heard
<1>2. PrepareOrCommit(V, n, r, h) \subseteq PrepareOrCommit(W, n, r, h)
  BY Zenon, <1>1 DEF PrepareOrCommit, Heard
<1>3. Sealers(V, n, h) \subseteq Sealers(W, n, h)
  BY Zenon, <1>1 DEF Sealers
<1> QED
  BY Zenon, <1>2, <1>3, VotersAreWitnesses, MajorityGrows

\* Votes are never taken back, so neither is a majority; and what a step counts
\* is on record after it.
LEMMA MajorityKept ==
  ASSUME votes \subseteq votes', others \subseteq others', NEW n, NEW r, NEW h
  PROVE  /\ Majority(PrepareOrCommit(Signed, n, r, h))
              => Majority(PrepareOrCommit(Signed, n, r, h))'
         /\ Majority(PrepareOrCommit(OnRecord, n, r, h))
              => Majority(PrepareOrCommit(Signed, n, r, h))'
         /\ Majority(Sealers(Signed, n, h)) => Majority(Sealers(Signed, n, h))'
         /\ Majority(Sealers(OnRecord, n, h)) => Majority(Sealers(Signed, n, h))'
<1>1. Signed \subseteq Signed' /\ OnRecord \subseteq Signed'
  BY Zenon DEF Signed, OnRecord
<1>2. Majority(PrepareOrCommit(Signed, n, r, h))'
        <=> Majority(PrepareOrCommit(Signed', n, r, h))
  BY Zenon DEF Majority, PrepareOrCommit, Committers, Heard
<1>3. Majority(Sealers(Signed, n, h))' <=> Majority(Sealers(Signed', n, h))
  BY Zenon DEF Majority, Sealers, Committers, Heard
<1> HIDE DEF Signed, OnRecord
<1> QED
  BY Zenon, <1>1, <1>2, <1>3, MoreVotes

\* The votes on record of an honest witness are the ones it signed.
LEMMA HonestHeard ==
  ASSUME TypeOK, NEW x \in Honest, NEW t, NEW n, NEW r, NEW h,
         Heard(Signed, Vote(t, x, n, r, h))
  PROVE  Vote(t, x, n, r, h) \in votes
<1>1. Vote(t, x, n, r, h).from = x
  BY Zenon DEF Vote
<1>2. \A v \in others : v.from \in Others
  BY Zenon DEF TypeOK
<1> QED
  BY Zenon, <1>1, <1>2, GroupAssumption DEF Heard, Signed

-----------------------------------------------------------------------------
\* Each action preserves the invariant.

\* What holds of the initial states.
LEMMA InvInit == Init => Inv
<1> SUFFICES ASSUME Init PROVE Inv
  BY Zenon
<1>1. TypeOK
  BY Zenon, TypeInit
<1>2. \A w \in Honest : Len(chain[w]) = 0
  BY Zenon DEF Init
<1>3. HeightInv /\ LockInv /\ VoteInv /\ LockBacked
  BY <1>2, GroupAssumption DEF Init, HeightInv, LockInv, VoteInv, LockBacked
<1>4. LockBehindCommit /\ CommitOnce /\ ViewInv /\ VoteOncePerView
  BY Zenon DEF Init, LockBehindCommit, CommitOnce, ViewInv, VoteOncePerView
<1>5. StoredIsSealed
  BY <1>2 DEF StoredIsSealed
<1> QED
  BY Zenon, <1>1, <1>3, <1>4, <1>5 DEF Inv

\* Majorities behind locks and stored units outlive a step that changes neither.
LEMMA BackingKept ==
  ASSUME Inv, votes \subseteq votes', others \subseteq others',
         UNCHANGED <<seq, lock, lockRound, chain>>
  PROVE  LockBacked' /\ StoredIsSealed'
<1>1. LockBacked'
  BY Zenon, MajorityKept DEF Inv, LockBacked
<1>2. StoredIsSealed'
  BY Zenon, MajorityKept DEF Inv, StoredIsSealed
<1> QED
  BY Zenon, <1>1, <1>2

\* An accepted proposal is voted for once in the view, and the witness holds no
\* lock that the vote could contradict.
LEMMA AcceptProposalStep ==
  ASSUME Inv, TypeOK', others \subseteq others',
         NEW w \in Honest, NEW h \in Hash, AcceptProposal(w, h)
  PROVE  Inv'
<1> DEFINE new == Vote("Prepare", w, seq[w], round[w], h)
<1>1. votes' = votes \cup {new}
  BY Zenon DEF AcceptProposal, Sign
<1>2. /\ new.type = "Prepare" /\ new.from = w /\ new.seq = seq[w]
      /\ new.round = round[w] /\ new.hash = h
  BY Zenon DEF Vote
<1>3. /\ UNCHANGED <<seq, round, lock, lockRound, chain, unlocked, restarted>>
      /\ state[w] = "AcceptRequest" /\ lock[w] = Nil
      /\ preprepare' = [preprepare EXCEPT ![w] = h]
      /\ state' = [state EXCEPT ![w] = "Preprepared"]
  BY Zenon DEF AcceptProposal
<1> HIDE DEF new
<1>4. HeightInv'
  BY Zenon, <1>3 DEF Inv, HeightInv
<1>5. LockInv'
  BY Zenon, <1>3, GroupAssumption DEF Inv, TypeOK, LockInv
<1>6. VoteInv'
  BY <1>1, <1>2, <1>3, GroupAssumption DEF Inv, TypeOK, VoteInv, Seqs
<1>7. LockBehindCommit' /\ CommitOnce'
  BY <1>1, <1>2, <1>3 DEF Inv, LockBehindCommit, CommitOnce, Forgot
<1>8. ViewInv'
  <2> SUFFICES ASSUME NEW v \in votes', v.seq = seq'[v.from],
                      <<v.from, v.seq>> \notin restarted'
               PROVE  /\ v.round <= round'[v.from]
                      /\ v.round = round'[v.from]
                           => /\ state'[v.from] # "AcceptRequest"
                              /\ v.hash = preprepare'[v.from]
    BY Zenon DEF ViewInv
  <2>1. CASE v = new
    BY <1>2, <1>3, <2>1, GroupAssumption DEF Inv, TypeOK, Round
  <2>2. CASE v \in votes
    BY Zenon, <1>3, <2>2 DEF Inv, TypeOK, VoteInv, ViewInv
  <2> QED
    BY Zenon, <1>1, <2>1, <2>2
<1>9. VoteOncePerView'
  BY <1>1, <1>2, <1>3 DEF Inv, ViewInv, VoteOncePerView
<1> QED
  BY Zenon, <1>1, <1>3, <1>4, <1>5, <1>6, <1>7, <1>8, <1>9, BackingKept DEF Inv

\* The Commit for the locked unit repeats the lock.
LEMMA RecommitLockedStep ==
  ASSUME Inv, TypeOK', others \subseteq others',
         NEW w \in Honest, NEW h \in Hash, RecommitLocked(w, h)
  PROVE  Inv'
<1> DEFINE new == Vote("Commit", w, seq[w], round[w], h)
<1>1. votes' = votes \cup {new}
  BY Zenon DEF RecommitLocked, Sign
<1>2. /\ new.type = "Commit" /\ new.from = w /\ new.seq = seq[w]
      /\ new.round = round[w] /\ new.hash = h
  BY Zenon DEF Vote
<1>3. /\ UNCHANGED <<seq, round, lock, lockRound, chain, unlocked, restarted>>
      /\ state[w] = "AcceptRequest" /\ lock[w] = h
      /\ preprepare' = [preprepare EXCEPT ![w] = h]
      /\ state' = [state EXCEPT ![w] = "Prepared"]
  BY Zenon DEF RecommitLocked
<1> HIDE DEF new
<1>4. HeightInv'
  BY Zenon, <1>3 DEF Inv, HeightInv
<1>5. LockInv'
  BY <1>3, GroupAssumption DEF Inv, TypeOK, LockInv
<1>6. VoteInv'
  BY <1>1, <1>2, <1>3, GroupAssumption DEF Inv, TypeOK, VoteInv, Seqs
<1>7. LockBehindCommit'
  BY Zenon, <1>1, <1>2, <1>3 DEF Inv, LockBehindCommit, Forgot
<1>8. CommitOnce'
  BY <1>1, <1>2, <1>3 DEF Inv, LockBehindCommit, CommitOnce, Forgot
<1>9. ViewInv'
  <2> SUFFICES ASSUME NEW v \in votes', v.seq = seq'[v.from],
                      <<v.from, v.seq>> \notin restarted'
               PROVE  /\ v.round <= round'[v.from]
                      /\ v.round = round'[v.from]
                           => /\ state'[v.from] # "AcceptRequest"
                              /\ v.hash = preprepare'[v.from]
    BY Zenon DEF ViewInv
  <2>1. CASE v = new
    BY <1>2, <1>3, <2>1, GroupAssumption DEF Inv, TypeOK, Round
  <2>2. CASE v \in votes
    BY Zenon, <1>3, <2>2 DEF Inv, TypeOK, VoteInv, ViewInv
  <2> QED
    BY Zenon, <1>1, <2>1, <2>2
<1>10. VoteOncePerView'
  BY <1>1, <1>2, <1>3 DEF Inv, ViewInv, VoteOncePerView
<1> QED
  BY Zenon, <1>1, <1>3, <1>4, <1>5, <1>6, <1>7, <1>8, <1>9, <1>10, BackingKept DEF Inv

\* A lock is taken by a witness without one, on the proposal it has voted for,
\* behind the majority that the guard counts.
LEMMA LockProposalStep ==
  ASSUME Inv, TypeOK', others \subseteq others',
         NEW w \in Honest, LockProposal(w)
  PROVE  Inv'
<1> DEFINE h == preprepare[w]
           new == Vote("Commit", w, seq[w], round[w], h)
<1>1. votes' = votes \cup {new}
  BY Zenon DEF LockProposal, Sign
<1>2. /\ new.type = "Commit" /\ new.from = w /\ new.seq = seq[w]
      /\ new.round = round[w] /\ new.hash = h
  BY Zenon DEF Vote
<1>3. /\ UNCHANGED <<seq, round, preprepare, chain, unlocked, restarted>>
      /\ state[w] = "Preprepared"
      /\ lock' = [lock EXCEPT ![w] = h]
      /\ lockRound' = [lockRound EXCEPT ![w] = round[w]]
      /\ state' = [state EXCEPT ![w] = "Prepared"]
      /\ Majority(PrepareOrCommit(OnRecord, seq[w], round[w], h))
  BY Zenon DEF LockProposal
<1>0. lock[w] = Nil /\ h # Nil /\ h = preprepare[w]
  BY Zenon, <1>3 DEF Inv, LockInv
<1> HIDE DEF new, h
<1>4. HeightInv'
  BY Zenon, <1>3 DEF Inv, HeightInv
<1>5. LockInv'
  BY Zenon, <1>0, <1>3, GroupAssumption DEF Inv, TypeOK, LockInv
<1>6. VoteInv'
  BY <1>1, <1>2, <1>3, GroupAssumption DEF Inv, TypeOK, VoteInv, Seqs
<1>7. \A v \in votes : v.type = "Commit" /\ v.from = w /\ v.seq = seq[w] => Forgot(w, v.seq)
  BY Zenon, <1>0, GroupAssumption DEF Inv, TypeOK, Votes, LockBehindCommit
<1>8. LockBehindCommit'
  BY Zenon, <1>1, <1>2, <1>3, <1>7 DEF Inv, TypeOK, VoteInv, LockBehindCommit, Forgot
<1>9. CommitOnce'
  BY <1>1, <1>2, <1>3, <1>7 DEF Inv, CommitOnce, Forgot
<1>10. ViewInv'
  <2> SUFFICES ASSUME NEW v \in votes', v.seq = seq'[v.from],
                      <<v.from, v.seq>> \notin restarted'
               PROVE  /\ v.round <= round'[v.from]
                      /\ v.round = round'[v.from]
                           => /\ state'[v.from] # "AcceptRequest"
                              /\ v.hash = preprepare'[v.from]
    BY Zenon DEF ViewInv
  <2>1. CASE v = new
    BY <1>0, <1>2, <1>3, <2>1, GroupAssumption DEF Inv, TypeOK, Round
  <2>2. CASE v \in votes
    BY Zenon, <1>3, <2>2 DEF Inv, TypeOK, VoteInv, ViewInv
  <2> QED
    BY Zenon, <1>1, <2>1, <2>2
<1>11. VoteOncePerView'
  BY <1>0, <1>1, <1>2, <1>3 DEF Inv, ViewInv, VoteOncePerView
<1>12. LockBacked'
  <2> SUFFICES ASSUME NEW x \in Honest, lock'[x] # Nil
               PROVE  Majority(PrepareOrCommit(Signed, seq[x], lockRound[x], lock[x]))'
    BY Zenon DEF LockBacked
  <2>1. CASE x = w
    BY Zenon, <1>1, <1>3, <2>1, MajorityKept DEF Inv, TypeOK
  <2>2. CASE x # w
    BY Zenon, <1>1, <1>3, <2>2, MajorityKept DEF Inv, TypeOK, LockBacked
  <2> QED
    BY Zenon, <2>1, <2>2
<1>13. StoredIsSealed'
  BY Zenon, <1>1, <1>3, MajorityKept DEF Inv, StoredIsSealed
<1> QED
  BY Zenon, <1>4, <1>5, <1>6, <1>8, <1>9, <1>10, <1>11, <1>12, <1>13 DEF Inv


-----------------------------------------------------------------------------
\* The actions that store a unit or enter a round or a height preserve the
\* invariant.

\* Storing adds at most the unit h of height n to w's chain.
LEMMA ExtendsAddsOne ==
  ASSUME TypeOK, NEW w \in Honest, NEW n \in Nat, NEW h \in Hash,
         NEW x \in Honest
  PROVE  /\ Len(chain[x]) <= Len(Extends(w, n, h)[x])
         /\ \A i \in 1..Len(Extends(w, n, h)[x]) :
              \/ i \in 1..Len(chain[x]) /\ Extends(w, n, h)[x][i] = chain[x][i]
              \/ i = n /\ Extends(w, n, h)[x][i] = h
<1>1. chain[x] \in Seq(Hash) /\ chain[w] \in Seq(Hash)
  BY Zenon DEF TypeOK
<1>2. CASE n = Len(chain[w]) + 1 /\ x = w
  <2>1. Extends(w, n, h)[x] = Append(chain[x], h)
    BY Zenon, <1>2 DEF Extends, TypeOK
  <2> QED
    BY <1>1, <1>2, <2>1
<1>3. CASE ~(n = Len(chain[w]) + 1 /\ x = w)
  <2>1. Extends(w, n, h)[x] = chain[x]
    BY Zenon, <1>3 DEF Extends, TypeOK
  <2> QED
    BY <1>1, <2>1
<1> QED
  BY Zenon, <1>2, <1>3

\* A step that stores at most one sealed unit, and signs nothing, keeps the
\* heights of the chains and their seals.
LEMMA StoreKept ==
  ASSUME Inv, UNCHANGED <<votes, seq>>, others \subseteq others',
         NEW w \in Honest, NEW n \in Nat, NEW h \in Hash,
         Majority(Sealers(OnRecord, n, h)), chain' \in {chain, Extends(w, n, h)}
  PROVE  HeightInv' /\ StoredIsSealed'
<1>1. \A x \in Honest :
        /\ Len(chain[x]) <= Len(chain'[x])
        /\ \A i \in 1..Len(chain'[x]) :
             \/ i \in 1..Len(chain[x]) /\ chain'[x][i] = chain[x][i]
             \/ i = n /\ chain'[x][i] = h
  <2>1. CASE chain' = chain
    BY <2>1 DEF Inv, TypeOK
  <2>2. CASE chain' = Extends(w, n, h)
    BY <2>2, ExtendsAddsOne DEF Inv
  <2> QED
    BY Zenon, <2>1, <2>2
<1>2. \A x \in Honest : Len(chain[x]) \in Nat /\ seq[x] \in Nat
  BY GroupAssumption DEF Inv, TypeOK, Seqs
<1>3. HeightInv'
  <2> SUFFICES ASSUME NEW x \in Honest PROVE seq[x] <= Len(chain'[x]) + 1
    BY Zenon DEF HeightInv
  <2>1. CASE chain' = chain
    BY Zenon, <2>1 DEF Inv, HeightInv
  <2>2. CASE chain' = Extends(w, n, h)
    <3>1. Len(chain'[x]) \in Nat
      BY <2>2, TypeExtends DEF Inv
    <3> QED
      BY <1>1, <1>2, <3>1 DEF Inv, HeightInv
  <2> QED
    BY Zenon, <2>1, <2>2
<1>4. /\ \A i, g : Majority(Sealers(Signed, i, g)) => Majority(Sealers(Signed, i, g))'
      /\ Majority(Sealers(Signed, n, h))'
  BY Zenon, MajorityKept
<1>5. StoredIsSealed'
  BY Zenon, <1>1, <1>4 DEF Inv, StoredIsSealed
<1> QED
  BY Zenon, <1>3, <1>5

\* A witness commits the proposal it is locked on, or locks it on the way, and
\* the Commit votes it counts are the seals of the stored unit.
LEMMA CommitProposalStep ==
  ASSUME Inv, TypeOK', others \subseteq others',
         NEW w \in Honest, CommitProposal(w)
  PROVE  Inv'
<1> DEFINE h == preprepare[w]
<1>1. /\ UNCHANGED <<seq, round, preprepare, votes, unlocked, restarted>>
      /\ state[w] \in {"Preprepared", "Prepared"}
      /\ lock' = [lock EXCEPT ![w] = h]
      /\ lockRound' = [lockRound EXCEPT ![w] = round[w]]
      /\ state' = [state EXCEPT ![w] = "Committed"]
      /\ chain' \in {chain, Extends(w, seq[w], h)}
      /\ Majority(Committers(OnRecord, seq[w], round[w], h))
  BY Zenon DEF CommitProposal
<1>2. h = preprepare[w] /\ lock[w] \in {Nil, h} /\ h \in Hash /\ h # Nil
  BY Zenon, <1>1, GroupAssumption DEF Inv, TypeOK, LockInv, HashOrNil
<1> HIDE DEF h
<1>3. LockInv'
  BY Zenon, <1>1, <1>2, GroupAssumption DEF Inv, TypeOK, LockInv
<1>4. VoteInv' /\ CommitOnce' /\ VoteOncePerView'
  BY <1>1 DEF Inv, VoteInv, CommitOnce, VoteOncePerView, Forgot
<1>5. LockBehindCommit'
  BY <1>1, <1>2, GroupAssumption
     DEF Inv, TypeOK, VoteInv, Votes, LockBehindCommit, Forgot
<1>6. ViewInv'
  BY Zenon, <1>1 DEF Inv, TypeOK, VoteInv, ViewInv
<1>7. /\ Majority(PrepareOrCommit(OnRecord, seq[w], round[w], h))
      /\ Majority(Sealers(OnRecord, seq[w], h))
  BY Zenon, <1>1, VotersAreWitnesses, MajorityGrows DEF Inv, TypeOK
<1>8. LockBacked'
  <2> SUFFICES ASSUME NEW x \in Honest, lock'[x] # Nil
               PROVE  Majority(PrepareOrCommit(Signed, seq[x], lockRound[x], lock[x]))'
    BY Zenon DEF LockBacked
  <2>1. CASE x = w
    BY Zenon, <1>1, <1>7, <2>1, MajorityKept DEF Inv, TypeOK
  <2>2. CASE x # w
    BY Zenon, <1>1, <2>2, MajorityKept DEF Inv, TypeOK, LockBacked
  <2> QED
    BY Zenon, <2>1, <2>2
<1>9. HeightInv' /\ StoredIsSealed'
  <2>1. seq[w] \in Nat
    BY GroupAssumption DEF Inv, TypeOK, Seqs
  <2> QED
    BY Zenon, <1>1, <1>2, <1>7, <2>1, StoreKept
<1> QED
  BY Zenon, <1>3, <1>4, <1>5, <1>6, <1>8, <1>9 DEF Inv

\* VerifySeal counts the seals of the unit that is stored.
LEMMA StoreSealedStep ==
  ASSUME Inv, TypeOK', others \subseteq others',
         NEW w \in Honest, NEW h \in Hash, StoreSealed(w, h)
  PROVE  Inv'
<1> DEFINE n == Len(chain[w]) + 1
<1>1. /\ UNCHANGED <<seq, round, state, preprepare, lock, lockRound, votes,
                     unlocked, restarted>>
      /\ Majority(Sealers(OnRecord, n, h))
      /\ chain' = Extends(w, n, h)
  BY Zenon DEF StoreSealed
<1>2. n \in Nat
  BY DEF Inv, TypeOK
<1> HIDE DEF n
<1>3. HeightInv' /\ StoredIsSealed'
  BY Zenon, <1>1, <1>2, StoreKept
<1>4. LockBacked'
  BY Zenon, <1>1, MajorityKept DEF Inv, LockBacked
<1> QED
  BY <1>1, <1>3, <1>4
     DEF Inv, LockInv, VoteInv, LockBehindCommit, CommitOnce, ViewInv,
         VoteOncePerView, Forgot

\* No vote of the new round exists yet.  A released lock is on record.
LEMMA ChangeRoundStep ==
  ASSUME Inv, TypeOK', others \subseteq others',
         NEW w \in Honest, NEW r \in Round, ChangeRound(w, r)
  PROVE  Inv'
<1>1. /\ UNCHANGED <<seq, votes, chain, restarted>>
      /\ r > round[w]
      /\ round' = [round EXCEPT ![w] = r]
      /\ state' = [state EXCEPT ![w] = "AcceptRequest"]
      /\ preprepare' = [preprepare EXCEPT ![w] = IF lock[w] = Nil THEN Nil ELSE @]
  BY Zenon DEF ChangeRound
<1>2. \/ UNCHANGED <<lock, lockRound, unlocked>>
      \/ /\ lock' = [lock EXCEPT ![w] = Nil]
         /\ lockRound' = [lockRound EXCEPT ![w] = 0]
         /\ unlocked' = unlocked \cup {<<w, seq[w]>>}
  BY Zenon DEF ChangeRound
<1>3. HeightInv' /\ VoteInv' /\ VoteOncePerView' /\ StoredIsSealed'
  <2>1. StoredIsSealed'
    BY Zenon, <1>1, MajorityKept DEF Inv, StoredIsSealed
  <2> QED
    BY Zenon, <1>1, <2>1 DEF Inv, HeightInv, VoteInv, VoteOncePerView
<1>4. LockInv'
  BY <1>1, <1>2 DEF Inv, TypeOK, LockInv
<1>5. LockBehindCommit'
  BY <1>1, <1>2 DEF Inv, TypeOK, VoteInv, LockBehindCommit, Forgot
<1>6. CommitOnce'
  BY <1>1, <1>2 DEF Inv, CommitOnce, Forgot
<1>7. ViewInv'
  <2> SUFFICES ASSUME NEW v \in votes, v.seq = seq[v.from],
                      <<v.from, v.seq>> \notin restarted
               PROVE  /\ v.round <= round'[v.from]
                      /\ v.round = round'[v.from]
                           => /\ state'[v.from] # "AcceptRequest"
                              /\ v.hash = preprepare'[v.from]
    BY Zenon, <1>1 DEF ViewInv
  <2>1. v.round \in Int /\ round[v.from] \in Int /\ v.round <= round[v.from]
    BY SMTT(30), GroupAssumption DEF Inv, TypeOK, Votes, Round, VoteInv, ViewInv
  <2>2. CASE v.from = w
    BY <1>1, <2>1, <2>2, GroupAssumption DEF Inv, TypeOK, Round
  <2>3. CASE v.from # w
    BY Zenon, <1>1, <2>3 DEF Inv, TypeOK, VoteInv, ViewInv
  <2> QED
    BY Zenon, <2>2, <2>3
<1>8. LockBacked'
  <2> SUFFICES ASSUME NEW x \in Honest, lock'[x] # Nil
               PROVE  Majority(PrepareOrCommit(Signed, seq[x], lockRound[x], lock[x]))'
    BY Zenon DEF LockBacked
  <2>1. lock'[x] = lock[x] /\ lockRound'[x] = lockRound[x]
    BY Zenon, <1>2 DEF Inv, TypeOK
  <2> QED
    BY Zenon, <1>1, <2>1, MajorityKept DEF Inv, LockBacked
<1> QED
  BY Zenon, <1>3, <1>4, <1>5, <1>6, <1>7, <1>8 DEF Inv

\* At a height the engine enters for the first time it has no votes; at one it
\* enters again it is recorded as restarted.
LEMMA FreshHeightStep ==
  ASSUME Inv, TypeOK', others \subseteq others',
         NEW w \in Honest, FreshHeight(w),
         restarted \subseteq restarted',
         seq[w] <= Len(chain[w]) \/ <<w, Len(chain[w]) + 1>> \in restarted'
  PROVE  Inv'
<1> DEFINE n == Len(chain[w]) + 1
<1>1. /\ UNCHANGED <<votes, chain, unlocked>>
      /\ seq' = [seq EXCEPT ![w] = n]
      /\ round' = [round EXCEPT ![w] = 0]
      /\ state' = [state EXCEPT ![w] = "AcceptRequest"]
      /\ preprepare' = [preprepare EXCEPT ![w] = Nil]
      /\ lock' = [lock EXCEPT ![w] = Nil]
      /\ lockRound' = [lockRound EXCEPT ![w] = 0]
  BY Zenon DEF FreshHeight
<1>2. n = Len(chain[w]) + 1 /\ n \in Int /\ seq[w] \in Int /\ seq[w] <= n
  BY GroupAssumption DEF Inv, TypeOK, Seqs, HeightInv
<1>3. seq[w] < n \/ <<w, n>> \in restarted'
  BY <1>2
<1> HIDE DEF n
<1>4. HeightInv'
  BY <1>1, <1>2 DEF Inv, TypeOK, HeightInv
<1>5. LockInv'
  BY SMTT(30), <1>1 DEF Inv, TypeOK, LockInv
<1>6. \A v \in votes : /\ v.seq \in Int /\ v.from \in Honest
                       /\ v.from = w /\ v.seq = n => <<w, n>> \in restarted'
  BY SMTT(30), <1>2, <1>3, GroupAssumption DEF Inv, TypeOK, Votes, Seqs, VoteInv
<1>7. VoteInv'
  <2> SUFFICES ASSUME NEW v \in votes PROVE v.seq <= seq'[v.from]
    BY Zenon, <1>1, <1>6 DEF VoteInv
  <2> QED
    BY <1>1, <1>2, <1>6 DEF Inv, TypeOK, VoteInv
<1>8. CommitOnce' /\ VoteOncePerView'
  BY <1>1 DEF Inv, CommitOnce, VoteOncePerView, Forgot
<1>9. LockBehindCommit'
  BY Zenon, <1>1, <1>6 DEF Inv, TypeOK, LockBehindCommit, Forgot
<1>10. ViewInv'
  BY Zenon, <1>1, <1>6 DEF Inv, TypeOK, ViewInv
<1>11. LockBacked'
  <2> SUFFICES ASSUME NEW x \in Honest, lock'[x] # Nil
               PROVE  Majority(PrepareOrCommit(Signed, seq[x], lockRound[x], lock[x]))'
    BY Zenon DEF LockBacked
  <2>1. seq'[x] = seq[x] /\ lock'[x] = lock[x] /\ lockRound'[x] = lockRound[x]
    BY Zenon, <1>1 DEF Inv, TypeOK
  <2> QED
    BY Zenon, <1>1, <2>1, MajorityKept DEF Inv, LockBacked
<1>12. StoredIsSealed'
  BY Zenon, <1>1, MajorityKept DEF Inv, StoredIsSealed
<1> QED
  BY Zenon, <1>4, <1>5, <1>7, <1>8, <1>9, <1>10, <1>11, <1>12 DEF Inv

\* Every step preserves the invariant.
LEMMA InvNext == Inv /\ [Next]_vars => Inv'
<1> SUFFICES ASSUME Inv, [Next]_vars PROVE Inv'
  BY Zenon
<1>0. TypeOK'
  BY Zenon, TypeNext DEF Inv
<1>o. others \subseteq others'
  BY Zenon, OthersGrow DEF Inv
<1>1. CASE UNCHANGED own
  <2>1. LockBacked' /\ StoredIsSealed'
    BY Zenon, <1>o, <1>1, BackingKept DEF own
  <2> QED
    BY ZenonT(40), <1>0, <1>1, <2>1
       DEF own, Inv, HeightInv, LockInv, VoteInv, LockBehindCommit, CommitOnce,
           ViewInv, VoteOncePerView, Forgot
<1>2. ASSUME NEW w \in Honest, NewHeight(w) PROVE Inv'
  BY Zenon, <1>0, <1>o, <1>2, FreshHeightStep DEF NewHeight, Inv, TypeOK
<1>3. ASSUME NEW w \in Honest, Restart(w) PROVE Inv'
  BY Zenon, <1>0, <1>o, <1>3, FreshHeightStep DEF Restart
<1> QED
  BY Zenon, <1>0, <1>o, <1>1, <1>2, <1>3, AcceptProposalStep, RecommitLockedStep,
     LockProposalStep, CommitProposalStep, StoreSealedStep, ChangeRoundStep
     DEF Next, Step, vars

-----------------------------------------------------------------------------
\* What the invariant gives.

\* In every reachable state of the voting rules the invariant holds.
THEOREM InvHolds == Spec => []Inv
BY InvInit, InvNext, PTL DEF Spec

\* The voting rules keep their types: in particular an engine never votes for,
\* locks or stores the empty proposal.
THEOREM TypeCorrect == Spec => []TypeOK
<1>1. Inv => TypeOK
  BY Zenon DEF Inv
<1> QED
  BY InvHolds, <1>1, PTL

\* Every unit in a chain, whether committed by the engine or stored through
\* VerifySeal, carries the seals of a majority.
THEOREM SealedChains == Spec => []StoredIsSealed
<1>1. Inv => StoredIsSealed
  BY Zenon DEF Inv
<1> QED
  BY InvHolds, <1>1, PTL

\* Two sealed units of a height are the same: a witness that is bound by its
\* Commit votes has sealed both.
LEMMA OneSealedUnit ==
  ASSUME Inv, NEW n, NEW a, NEW b, Tolerable(Forgetful(n)),
         Majority(Sealers(Signed, n, a)), Majority(Sealers(Signed, n, b))
  PROVE  a = b
<1>1. PICK x \in Sealers(Signed, n, a) \cap Sealers(Signed, n, b) : x \notin Forgetful(n)
  <2>1. Forgetful(n) \subseteq Witness
    BY Zenon, GroupAssumption DEF Forgetful
  <2> QED
    BY Zenon, <2>1, VotersAreWitnesses, MajoritiesMeet
<1>2. x \in Honest /\ ~Forgot(x, n)
  BY Zenon, <1>1, VotersAreWitnesses DEF Forgetful, Forgot
<1>3. PICK r \in Round : x \in Committers(Signed, n, r, a)
  BY Zenon, <1>1 DEF Sealers
<1>4. PICK q \in Round : x \in Committers(Signed, n, q, b)
  BY Zenon, <1>1 DEF Sealers
<1>5. /\ Vote("Commit", x, n, r, a) \in votes
      /\ Vote("Commit", x, n, q, b) \in votes
  BY Zenon, <1>2, <1>3, <1>4, HonestHeard DEF Committers, Inv
<1> QED
  BY Zenon, <1>2, <1>5 DEF Inv, CommitOnce, Vote

\* At every height at which the witnesses that lost their locks and the faulty
\* ones are tolerable together, all chains hold the same unit.
THEOREM ChainsAgree == Spec => []Agreement
<1>1. Inv => Agreement
  <2> SUFFICES ASSUME Inv, NEW v \in Honest, NEW w \in Honest,
                      NEW n \in 1..Len(chain[v]), n <= Len(chain[w]),
                      Tolerable(Forgetful(n))
               PROVE  chain[v][n] = chain[w][n]
    BY DEF Agreement
  <2>1. n \in 1..Len(chain[w])
    BY DEF Inv, TypeOK
  <2> QED
    BY Zenon, <2>1, OneSealedUnit DEF Inv, StoredIsSealed
<1> QED
  BY InvHolds, <1>1, PTL

\* Locks taken in one view are on one unit: a witness that votes once in a view
\* is in both majorities.
THEOREM ViewLocksAgree == Spec => []SameViewLocks
<1>1. Inv => SameViewLocks
  <2> SUFFICES ASSUME Inv, NEW v \in Honest, NEW w \in Honest,
                      seq[v] = seq[w], lock[v] # Nil, lock[w] # Nil,
                      lockRound[v] = lockRound[w], Tolerable(Revoting(seq[v]))
               PROVE  lock[v] = lock[w]
    BY Zenon DEF SameViewLocks
  <2> DEFINE n == seq[v]
             r == lockRound[v]
  <2>1. PICK x \in PrepareOrCommit(Signed, n, r, lock[v])
                     \cap PrepareOrCommit(Signed, n, r, lock[w]) :
          x \notin Revoting(n)
    <3>1. Revoting(n) \subseteq Witness
      BY Zenon, GroupAssumption DEF Revoting
    <3>2. /\ Majority(PrepareOrCommit(Signed, n, r, lock[v]))
          /\ Majority(PrepareOrCommit(Signed, n, r, lock[w]))
      BY Zenon DEF Inv, LockBacked
    <3>3. /\ PrepareOrCommit(Signed, n, r, lock[v]) \in SUBSET Witness
          /\ PrepareOrCommit(Signed, n, r, lock[w]) \in SUBSET Witness
      BY Zenon, VotersAreWitnesses
    <3>4. Tolerable(Revoting(n))
      BY Zenon
    <3> HIDE DEF n, r
    <3> QED
      BY Zenon, <3>1, <3>2, <3>3, <3>4, MajoritiesMeet
  <2>2. x \in Honest /\ <<x, n>> \notin restarted
    BY Zenon, <2>1, VotersAreWitnesses DEF Revoting
  <2>3. \A h : x \in PrepareOrCommit(Signed, n, r, h)
          => \E t \in {"Prepare", "Commit"} : Vote(t, x, n, r, h) \in votes
    BY Zenon, <2>2, HonestHeard DEF PrepareOrCommit, Committers, Inv
  <2> HIDE DEF n, r
  <2>4. PICK t \in {"Prepare", "Commit"} : Vote(t, x, n, r, lock[v]) \in votes
    BY Zenon, <2>1, <2>3
  <2>5. PICK t2 \in {"Prepare", "Commit"} : Vote(t2, x, n, r, lock[w]) \in votes
    BY Zenon, <2>1, <2>3
  <2> QED
    BY Zenon, <2>2, <2>4, <2>5 DEF Inv, VoteOncePerView, Vote
<1> QED
  BY InvHolds, <1>1, PTL

\* LockHash never replaces a lock: no action changes it within a height except
\* the recorded ones, checkDeadLock and a restart.
THEOREM LocksKept == Spec => LockKept
<1> DEFINE Kept ==
      \A w \in Honest :
        lock[w] # Nil /\ lock'[w] # lock[w]
          => \/ seq'[w] > seq[w]
             \/ <<w, seq[w]>> \in unlocked' \cup restarted'
<1>1. Inv /\ [Next]_vars => [Kept]_vars
  <2> SUFFICES ASSUME Inv, Next, NEW w \in Honest, lock[w] # Nil, lock'[w] # lock[w]
               PROVE  \/ seq'[w] > seq[w]
                      \/ <<w, seq[w]>> \in unlocked' \cup restarted'
    BY Zenon
  <2>1. PICK x \in Honest :
          \/ \E h \in Hash : AcceptProposal(x, h) \/ RecommitLocked(x, h)
                             \/ StoreSealed(x, h)
          \/ LockProposal(x) \/ CommitProposal(x)
          \/ \E r \in Round : ChangeRound(x, r)
          \/ NewHeight(x) \/ Restart(x)
    BY Zenon DEF Next, Step, own
  <2>2. ASSUME NEW h \in Hash,
               AcceptProposal(x, h) \/ RecommitLocked(x, h) \/ StoreSealed(x, h)
        PROVE  lock' = lock
    BY Zenon, <2>2 DEF AcceptProposal, RecommitLocked, StoreSealed
  <2>3. CASE LockProposal(x) \/ CommitProposal(x)
    <3>1. preprepare[x] = lock[x] \/ lock[x] = Nil
      BY Zenon DEF Inv, LockInv
    <3>2. lock' = [lock EXCEPT ![x] = preprepare[x]]
      BY Zenon, <2>3 DEF LockProposal, CommitProposal
    <3>3. lock'[w] = lock[w]
      BY Zenon, <3>1, <3>2 DEF Inv, TypeOK
    <3> QED
      BY Zenon, <3>3
  <2>4. ASSUME NEW r \in Round, ChangeRound(x, r)
        PROVE  <<w, seq[w]>> \in unlocked'
    <3>1. /\ lock' = [lock EXCEPT ![x] = Nil]
          /\ unlocked' = unlocked \cup {<<x, seq[x]>>}
      BY Zenon, <2>4 DEF ChangeRound
    <3>2. x = w
      BY Zenon, <3>1 DEF Inv, TypeOK
    <3> QED
      BY Zenon, <3>1, <3>2
  <2>5. CASE NewHeight(x)
    <3>1. /\ lock' = [lock EXCEPT ![x] = Nil]
          /\ seq' = [seq EXCEPT ![x] = Len(chain[x]) + 1]
          /\ Len(chain[x]) >= seq[x]
      BY Zenon, <2>5 DEF NewHeight, FreshHeight
    <3>2. x = w
      BY Zenon, <3>1 DEF Inv, TypeOK
    <3> QED
      BY <3>1, <3>2, GroupAssumption DEF Inv, TypeOK, Seqs
  <2>6. CASE Restart(x)
    <3>1. /\ lock' = [lock EXCEPT ![x] = Nil]
          /\ seq' = [seq EXCEPT ![x] = Len(chain[x]) + 1]
          /\ restarted' = restarted \cup {<<x, Len(chain[x]) + 1>>}
      BY Zenon, <2>6 DEF Restart, FreshHeight
    <3>2. x = w
      BY Zenon, <3>1 DEF Inv, TypeOK
    <3>3. Len(chain[w]) \in Nat /\ seq[w] \in Int /\ seq[w] <= Len(chain[w]) + 1
      BY GroupAssumption DEF Inv, TypeOK, Seqs, HeightInv
    <3>4. seq'[w] > seq[w] \/ seq[w] = Len(chain[w]) + 1
      BY <3>1, <3>2, <3>3 DEF Inv, TypeOK
    <3> QED
      BY Zenon, <3>1, <3>2, <3>4
  <2> QED
    BY Zenon, <2>1, <2>2, <2>3, <2>4, <2>5, <2>6
<1> QED
  BY InvHolds, <1>1, PTL DEF Spec, LockKept
=============================================================================
