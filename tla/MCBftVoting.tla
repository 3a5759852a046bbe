---------------------------- MODULE MCBftVoting ----------------------------
EXTENDS BftVoting, TLC

Symmetry == Permutations(Honest) \cup Permutations(Hash)

\* Two rounds at the first height, or two heights of one round each.
RoundsOrHeights ==
  (\E w \in Honest : seq[w] > 1 \/ Len(chain[w]) > 1)
  => /\ \A w \in Honest : round[w] = 0
     /\ \A v \in votes : v.round = 0

\* One witness has given up a lock or was restarted.  Together with the faulty one
\* it is not tolerable any more, and Agreement says nothing of the height.
OneForgets == Cardinality(unlocked \cup restarted) <= 1
=============================================================================
