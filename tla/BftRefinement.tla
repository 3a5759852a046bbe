---------------------------- MODULE BftRefinement ----------------------------
(***************************************************************************)
(* The engine of one witness read as a witness of BftVoting: its voting    *)
(* state is the engine's, the votes on record are those it has sent, and   *)
(* the votes of the others are those it has counted.  The parameters are   *)
(* those of BftEngine.                                                     *)
(***************************************************************************)
CONSTANTS
  Witness, Self, Hash, Nil, MinVotings, DeadLockPeriod, MaxRestarts, MaxRound,
  MaxSeq

VARIABLES eng, counted, chain, unlocked, restarted, restarts

One(x) == [w \in {Self} |-> x]

VotesSent ==
  {[type |-> m.code, from |-> Self, seq |-> m.seq, round |-> m.round,
    hash |-> m.hash] : m \in {s \in eng.sent : s.code \in {"Prepare", "Commit"}}}

Voting == INSTANCE BftVoting WITH
  Honest <- {Self}, Others <- Witness \ {Self}, others <- counted,
  seq <- One(eng.seq), round <- One(eng.round), state <- One(eng.state),
  preprepare <- One(eng.preprepare), lock <- One(eng.lock),
  lockRound <- One(eng.lockRound), votes <- VotesSent, chain <- One(chain),
  unlocked <- {Self} \X unlocked, restarted <- {Self} \X restarted

\* Every step of the engine, whatever its node and its peers do, is a step the
\* voting rules allow, or changes nothing they speak of.
Refinement == Voting!Spec
=============================================================================
