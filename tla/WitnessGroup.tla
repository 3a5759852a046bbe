---------------------------- MODULE WitnessGroup ----------------------------
(***************************************************************************)
(* The witness groups of the system contract (core/sc/witness_group.go):   *)
(* how a new witness is put into a group, how the groups are rebalanced    *)
(* when a witness leaves, and how a chain is given a group.                *)
(*                                                                         *)
(* These are pure algorithms over the contract's tables.  A table of       *)
(* groups is a record                                                      *)
(*                                                                         *)
(*   groups : group index -> the witnesses of the group, in StateSet order *)
(*   at     : witness -> the group_index stored in the witness's own entry *)
(*                                                                         *)
(* so that "the group lists w" and "w says it is in the group" are two     *)
(* pieces of state, as they are in the contract's storage.  Group 0 is     *)
(* the group of system witnesses; the groups 1, 2, ... serve user chains.  *)
(***************************************************************************)
EXTENDS Lists

CONSTANTS
    UCMin,      \* ConfigParamsUCMinVotings: fewer witnesses cannot decide
    UCMax,      \* ConfigParamsUCWitness: a user group is full
    SCCap       \* ConfigParamsSCWitnessCap: the system group is full

ASSUME GroupSizes == UCMin \in 1..UCMax /\ UCMax \in Nat /\ SCCap \in Nat

SysGroup == 0

UserGroups(t) == DOMAIN t.groups \ {SysGroup}

(***************************************************************************)
(* A witness joins                                                         *)
(***************************************************************************)
Join(t, g, w) ==
    [groups |-> [h \in DOMAIN t.groups \cup {g} |->
                    IF h # g THEN t.groups[h]
                    ELSE IF g \in DOMAIN t.groups THEN Append(t.groups[g], w)
                    ELSE <<w>>],
     at     |-> [t.at EXCEPT ![w] = g]]

CanApplyWitnessGroupOfSys(t) == Len(t.groups[SysGroup]) + 1 <= SCCap

ApplyWitnessGroupOfSys(t, w) == Join(t, SysGroup, w)

(* A group with exactly the minimum has priority 0, as an empty one has. *)
JoinPriority(c) ==
    IF c < UCMin THEN c ELSE IF c > UCMin THEN UCMax - c ELSE 0

(* Mutated: a new group leaves a gap in the indices. *)
GroupForWitnessGap(t) ==
    LET open == {g \in UserGroups(t) : Len(t.groups[g]) # UCMax}
    IN  IF open # {} THEN Min(open) ELSE Cardinality(DOMAIN t.groups) + 1

(* A group that lacks one witness to be able to decide goes first, in the  *)
(* order of the indices; then the highest priority; then a new group.      *)
GroupForWitness(t) ==
    LET size(g) == Len(t.groups[g])
        open == {g \in UserGroups(t) : size(g) # UCMax}
        lacksOne == {g \in open : size(g) = UCMin - 1}
        before(g, h) == \/ JoinPriority(size(g)) > JoinPriority(size(h))
                        \/ /\ JoinPriority(size(g)) = JoinPriority(size(h))
                           /\ g <= h
    IN  IF lacksOne # {} THEN Min(lacksOne)
        ELSE IF open # {} THEN CHOOSE g \in open : \A h \in open : before(g, h)
        ELSE Cardinality(DOMAIN t.groups)

ApplyWitnessGroupOfUser(t, w) == Join(t, GroupForWitness(t), w)

(***************************************************************************)
(* A witness leaves, and the groups are repaired                           *)
(***************************************************************************)
(* Mutated: the witness's own entry keeps the old group. *)
MoveWitnessList(t, w, new) ==
    [t EXCEPT !.groups = [@ EXCEPT ![t.at[w]] = RemoveOrder(@, w), ![new] = Append(@, w)]]

(* removeWtinessGroup: one witness moves from its group to another. *)
MoveWitness(t, w, new) ==
    [groups |-> [g \in DOMAIN t.groups |->
                    IF g = new THEN Append(t.groups[g], w)
                    ELSE IF g = t.at[w] THEN RemoveOrder(t.groups[g], w)
                    ELSE t.groups[g]],
     at     |-> [t.at EXCEPT ![w] = new]]

MoveAll(t, ws, new) == FoldLeft(LAMBDA s, w : MoveWitness(s, w, new), t, ws)

(* The witnesses of group i move to group g, as far as there is room. *)
PullFrom(t, i, g) ==
    LET moved == Min({UCMax - Len(t.groups[g]), Len(t.groups[i])})
    IN  MoveAll(t, SubSeq(t.groups[i], 1, moved), g)

(* Mutated: a group with just the minimum gives its witnesses away too. *)
PullWitnessesMin(t, g) ==
    LET weak == {i \in UserGroups(t) : i # g /\ Len(t.groups[i]) <= UCMin}
    IN  FoldLeft(LAMBDA s, i : PullFrom(s, i, g), t, Ascending(weak))

(* The group can still decide: it is filled up from the groups that cannot. *)
PullWitnesses(t, g) ==
    LET weak == {i \in UserGroups(t) : i # g /\ Len(t.groups[i]) < UCMin}
    IN  FoldLeft(LAMBDA s, i : PullFrom(s, i, g), t, Ascending(weak))

(***************************************************************************)
(* The group can no longer decide: its witnesses are dealt to the others.  *)
(* cache is the code's list of groups that take witnesses, each with the   *)
(* count the loop keeps; the first round brings a group to the minimum,    *)
(* later rounds deal one by one.  A group that became full is replaced by  *)
(* the last of the list, which this round then passes over.                *)
(***************************************************************************)
DealTurn(s) ==
    LET c == s.cache[s.i].count
        give == IF s.times > 1 \/ UCMin < c THEN 1 ELSE UCMin - c
        given == Min({give, Len(s.left)})
        full == give > 0 /\ c + give = UCMax
    IN  IF s.left = <<>> \/ s.cache = <<>> THEN s
        ELSE IF s.i > Len(s.cache) THEN [s EXCEPT !.i = 1, !.times = @ + 1]
        ELSE [t     |-> MoveAll(s.t, SubSeq(s.left, 1, given), s.cache[s.i].group),
              left  |-> SubSeq(s.left, given + 1, Len(s.left)),
              cache |-> IF full THEN StateSetRemove(s.cache, s.i)
                        ELSE [s.cache EXCEPT ![s.i].count = c + give],
              i     |-> s.i + 1,
              times |-> s.times]

(* The loop ends when no witness is left or every group is full.  Each     *)
(* round but the first deals at least one witness, which bounds its turns. *)
Deal(t, left, cache) ==
    LET turns == (Len(left) + 2) * (Len(cache) + 1)
        after[k \in 0..turns] ==
            IF k = 0 THEN [t |-> t, left |-> left, cache |-> cache, i |-> 1, times |-> 1]
            ELSE DealTurn(after[k - 1])
    IN  after[turns].t

(* The sort of the code moves each group that the leftovers would bring to *)
(* exactly the minimum to the front, the last of them first, and leaves    *)
(* the order of the others.                                                *)
DealOrder(t, g) ==
    LET takes == {i \in UserGroups(t) : i # g /\ Len(t.groups[i]) \notin {0, UCMax}}
        fits(i) == Len(t.groups[i]) + Len(t.groups[g]) = UCMin
        order == InOrder(takes, {p \in takes \X takes :
                    IF fits(p[1]) THEN fits(p[2]) => p[1] > p[2]
                                  ELSE ~fits(p[2]) /\ p[1] < p[2]})
    IN  [k \in 1..Cardinality(takes) |->
            [group |-> order[k], count |-> Len(t.groups[order[k]])]]

FixWitnessGroup(t, g) ==
    LET curr == Len(t.groups[g])
    IN  IF g = SysGroup \/ curr = 0 THEN t
        ELSE IF curr >= UCMin THEN PullWitnesses(t, g)
        ELSE Deal(t, t.groups[g], DealOrder(t, g))

(* A leaving witness keeps its stored group_index. *)
CancelWitnessFromWitnessGroup(t, w) ==
    LET g == t.at[w]
    IN  FixWitnessGroup([t EXCEPT !.groups[g] = RemoveOrder(@, w)], g)

(***************************************************************************)
(* A chain is given a group                                                *)
(***************************************************************************)
(* One insertion of the code's stable sort: least preferred first.  The    *)
(* comparison is not transitive, so the order of the insertions matters.   *)
InsertGroup(t, chains, sorted, x) ==
    LET less(y) == \/ Len(t.groups[x]) < Len(t.groups[y])
                   \/ Len(chains[x]) > Len(chains[y])
        k == CHOOSE k \in 0..Len(sorted) :
                /\ \A m \in (k + 1)..Len(sorted) : less(sorted[m])
                /\ k = 0 \/ ~less(sorted[k])
    IN  InsertAt(sorted, k + 1, x)

(* NoGroup stands for errNoWitnessGroupUse. *)
NoGroup == 0

(* good: the groups of which enough witnesses had a heartbeat lately.  One *)
(* without chains is taken at once; else the most preferred good group, or *)
(* the most preferred one when none is good.                               *)
SelectNewGroup(t, chains, good, old) ==
    LET able == {g \in UserGroups(t) \ {old} : Len(t.groups[g]) >= UCMin}
        fresh == {g \in able : chains[g] = <<>>} \cap good
        used == Ascending({g \in able : chains[g] # <<>>})
        sorted == FoldLeft(LAMBDA s, x : InsertGroup(t, chains, s, x), <<>>, used)
        ready == {k \in 1..Len(sorted) : sorted[k] \in good}
    IN  IF fresh # {} THEN Min(fresh)
        ELSE IF sorted = <<>> THEN NoGroup
        ELSE sorted[IF ready # {} THEN Max(ready) ELSE Len(sorted)]
=============================================================================
