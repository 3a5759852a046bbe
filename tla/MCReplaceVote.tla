--------------------------- MODULE MCReplaceVote ---------------------------
EXTENDS ReplaceVote, TLC

CONSTANTS w1, w2, w3, c1, c2

Asked == <<<<[chain |-> c1, status |-> "underway"]>>>>

(* The last unit of the chain is late. *)
LoadLate == [sys |-> Asked, asks |-> {}, height |-> c1 :> 1 @@ c2 :> 0,
             stops |-> [w \in Witness |-> 0], lossy |-> TRUE, lastPlain |-> 2]

(* A worker stops or crashes while the chain asks and asks again. *)
LoadRestart == [sys |-> Asked, asks |-> {<<c1, 2>>}, height |-> [c \in Chain |-> 0],
                stops |-> [w \in Witness |-> IF w = w1 THEN 1 ELSE 0],
                lossy |-> FALSE, lastPlain |-> 3]

(* A worker is stopped twice, also while it loads its store. *)
LoadAgain == [LoadRestart EXCEPT !.asks = {},
                                 !.stops = [w \in Witness |-> IF w = w1 THEN 2 ELSE 0],
                                 !.lastPlain = 2]

(* A second chain asks while the first one is voted on. *)
LoadTwo == [sys |-> Asked, asks |-> {<<c2, 2>>}, height |-> [c \in Chain |-> 0],
            stops |-> [w \in Witness |-> 0], lossy |-> FALSE, lastPlain |-> 2]

LoadsRestart == {LoadRestart}
LoadsAll == {LoadLate, LoadRestart, LoadAgain, LoadTwo}
=============================================================================
