----------------------------- MODULE MCBftEngine -----------------------------
EXTENDS BftEngine, TLC

INSTANCE BftRefinement

CONSTANTS u1, u2

MCAuthor == (u1 :> 0) @@ (u2 :> 1)

\* Everything witnesses in ws may say of a height, in rounds rs.
Talk(codes, ws, n, rs, hs) ==
  {Msg(c, w, n, r, IF c = "RoundChange" THEN Nil ELSE h) :
     c \in codes, w \in ws, r \in rs, h \in hs}

\* Any proposals of three rounds, votes for any unit in the first and for one of
\* them in the second.
PeersLocks ==
  Talk({"Preprepare"}, {1, 2}, 1, {0, 1, 2}, Hash)
  \cup Talk({"Prepare", "Commit"}, {1}, 1, {0}, Hash)
  \cup Talk({"Prepare"}, {1}, 1, {1}, {u1})
  \cup Talk({"RoundChange"}, {1, 2}, 1, {1, 2}, {Nil})

\* Two heights, one round of votes each, messages of the second height early.
PeersHeights ==
  Talk({"Preprepare"}, {1}, 1, {0}, Hash)
  \cup Talk({"Preprepare"}, {1, 2}, 2, {0}, {u1})
  \cup Talk({"Commit"}, {1}, 1, {0}, {u1}) \cup Talk({"Commit"}, {1}, 2, {0}, {u1})

\* Hardly any messages: what the clock, the packing and the pool do in three
\* rounds, the last of which this witness proposes in.
PeersClock ==
  Talk({"RoundChange"}, {1}, 1, {2}, {Nil})
  \cup Talk({"CheckPendingTx"}, {1}, 1, {0}, {Nil})
  \cup Talk({"Preprepare"}, {1}, 1, {0}, {u2})

Load(msgs, n, r, backlog, packing, fired, sync, lost) ==
  [msgs |-> msgs, seq |-> n, round |-> r, backlog |-> backlog,
   packing |-> packing, fired |-> fired, sync |-> sync, restarts |-> lost]

LoadLocks == Load(PeersLocks, 1, 2, 0, 0, 0, 0, 0)
LoadHeights == Load(PeersHeights, 2, 0, 1, 0, 0, 1, 1)
LoadClock == Load(PeersClock, 1, 2, 0, 1, 1, 0, 0)

LoadsAll == {LoadLocks, LoadHeights, LoadClock}
LoadsClock == {LoadClock}
LoadsFuture == {[LoadLocks EXCEPT !.backlog = 1]}
=============================================================================
