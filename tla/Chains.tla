-------------------------------- MODULE Chains --------------------------------
(***************************************************************************)
(* The chains of users and contracts in the system contract                *)
(* (core/sc/normal_witenss.go, witness_group.go, report.go): how a chain   *)
(* gets a witness group, how the group is replaced in two steps, and how   *)
(* the system witnesses arbitrate a height at which two units were signed. *)
(***************************************************************************)
EXTENDS Proposals

CONSTANTS
    User,               \* ordinary chains; each is an account too
    GenesisUser,        \* those that have a group from the genesis block
    Contracts,          \* addresses of contract chains
    SCAccount,          \* the system chain
    Unit,               \* unit hashes, as two candidates for a height
    MaxHeight,          \* the heights of chains that are talked about
    SCMin,              \* ConfigParamsSCMinVotings
    ReplaceInterval,    \* ReplaceWitnessInterval
    ReplaceWait         \* ReplaceWitnessUnderwayInterval

ASSUME ChainConstants ==
    /\ GenesisUser \subseteq User /\ IsFiniteSet(GenesisUser)
    /\ SCAccount \notin User \cup Contracts
    /\ {MaxHeight, SCMin, ReplaceInterval, ReplaceWait} \subseteq Nat

VARIABLES
    chain,      \* the chain info: group, status, the heights of both
    chainsAt,   \* the chains of a group, in StateSet order
    special,    \* the unit that a chain must have at a height
    pending,    \* the heights of a chain that are in arbitration
    ballot,     \* the units chosen by the system witnesses, by chain and height
    result,     \* the unit that an arbitration chose
    reopened    \* history: the heights marked again after their result

chainVars == <<chain, chainsAt, special, pending, ballot, result, reopened>>

Chain == User \cup Contracts
Place == Chain \X (1..MaxHeight)
NoUnit == "no unit"

(* GetChainArbitrationNumber is above 0. *)
InArbitration(c) == pending[c] # {}

(***************************************************************************)
(* Giving a group to a chain                                               *)
(***************************************************************************)
HaveGoodHeartbeatOnGroup(g, minRound) ==
    LET good == {a \in ToSet(wit.groups[g]) : CalcRound(wit.beat.user[a]) >= minRound}
    IN  minRound = 0 \/ Cardinality(good) >= UCMin

(* selectNewGroup, over the chain sets at; NoGroup if no group is of use. *)
NewGroupFor(at, old) ==
    LET minRound == SafeSub(CalcRound(number), 2)
        good == {g \in DOMAIN wit.groups : HaveGoodHeartbeatOnGroup(g, minRound)}
    IN  SelectNewGroup(Tables(wit), at, good, old)

(* Mutated: the old group goes on listing the chain. *)
ApplyWitnessWithGroupBoth(s, n, c, old, new, from) ==
    [s EXCEPT !.chainsAt[new] = Append(@, c),
              !.chain[c] = [group |-> new, status |-> "Normal", since |-> n,
                            applied |-> n, from |-> from]]

(* applyWitnessWithGroup with WriteChainInfo, on the tables s. *)
ApplyWitnessWithGroup(s, n, c, old, new, from) ==
    LET left == IF old # NoGroup /\ c \in ToSet(s.chainsAt[old])
                THEN [s.chainsAt EXCEPT ![old] = StateSetRemove(@, IndexOf(@, c))]
                ELSE s.chainsAt
    IN  [s EXCEPT !.chainsAt = [left EXCEPT ![new] = Append(@, c)],
                  !.chain[c] = [group |-> new, status |-> "Normal", since |-> n,
                                applied |-> n, from |-> from]]

(* WriteChainStatus *)
WriteChainStatus(s, c, status) ==
    [s EXCEPT !.chain[c].status = status, !.chain[c].since = number]

ChainTables == [chain |-> chain, chainsAt |-> chainsAt]
StoreTables(s) == chain' = s.chain /\ chainsAt' = s.chainsAt

NotSettled ==
    UNCHANGED <<special, pending, ballot, result, reopened, propVars, memberVars>>

(* ApplyWitness: an account that has no group yet. *)
ChainApplyWitness(c) ==
    LET new == NewGroupFor(chainsAt, NoGroup)
    IN  /\ Calls("ApplyWitness")
        /\ chain[c].group = NoGroup /\ c \notin Contracts
        /\ ~InArbitration(c)
        /\ new # NoGroup
        /\ StoreTables(ApplyWitnessWithGroup(ChainTables, number, c, NoGroup, new, 1))
        /\ NotSettled

(* CreateContract: a new chain in the group of its creator. *)
CreateContract(a, c) ==
    /\ Calls("CreateContract")
    /\ chain[c].group = NoGroup
    /\ chain[a].group # NoGroup
    /\ StoreTables(ApplyWitnessWithGroup(ChainTables, number, c, NoGroup,
                                         chain[a].group, 1))
    /\ NotSettled

(***************************************************************************)
(* Replacing the group: a request, then its execution                      *)
(***************************************************************************)
(* replaceWitness: what the request needs. *)
CanReplaceWitness(c, byOther) ==
    LET i == chain[c]
    IN  /\ ~InArbitration(c)
        /\ i.group # NoGroup
        /\ i.status = "Normal" =>
              \/ byOther
              \/ number >= i.applied + ReplaceInterval
              \/ Len(wit.groups[i.group]) < UCMin
        /\ i.status = "Underway" => number >= i.since + ReplaceWait
        /\ NewGroupFor(chainsAt, i.group) # NoGroup

ReplaceWitness(c) ==
    /\ Calls("ReplaceWitness")
    /\ CanReplaceWitness(c, FALSE)
    /\ StoreTables(WriteChainStatus(ChainTables, c, "Underway"))
    /\ NotSettled

(* HandleApplyWitnessWay2: someone else asks, for a chain without a group  *)
(* or for one whose group is too small or silent.                          *)
ApplyWitnessWay2(c) ==
    LET i == chain[c]
        new == NewGroupFor(chainsAt, NoGroup)
        silent == ~HaveGoodHeartbeatOnGroup(i.group, SafeSub(CalcRound(number), 5))
    IN  /\ Calls("ApplyWitnessWay2")
        /\ \/ /\ i.group = NoGroup /\ c \notin Contracts
              /\ ~InArbitration(c) /\ new # NoGroup
              /\ StoreTables(ApplyWitnessWithGroup(ChainTables, number, c, NoGroup, new, 1))
           \/ /\ i.group # NoGroup
              /\ Len(wit.groups[i.group]) < UCMin \/ silent
              /\ CanReplaceWitness(c, TRUE)
              /\ StoreTables(WriteChainStatus(ChainTables, c, "Underway"))
        /\ NotSettled

(* Mutated: an arbitration that began after the request is not looked at. *)
ReplaceExecBlind(s, item) ==
    LET c == item.chain
        i == s.chain[c]
        new == NewGroupFor(s.chainsAt, i.group)
    IN  IF s.ok /\ i.status = "Underway" /\ item.since = i.since /\ new # NoGroup
        THEN ApplyWitnessWithGroup(s, number, c, i.group, new, item.height + 1)
        ELSE [s EXCEPT !.ok = FALSE]

(* handleReplaceWitnessExec of one item: signatures of system witnesses    *)
(* (signs, not compared with each other) say which unit is the last of the *)
(* old group, and signatures of its witnesses (seal) that it is a unit; it *)
(* must be of this chain only at height 0, where the system chain's        *)
(* genesis unit will do.  Without another group the chain goes back to the *)
(* one it has; in arbitration the call fails.                              *)
ReplaceExec(s, item) ==
    LET c == item.chain
        i == s.chain[c]
        at == <<item.of, item.height>>
        settles == item.height > 0
        new == NewGroupFor(s.chainsAt, i.group)
        moved == IF new = NoGroup THEN WriteChainStatus(s, c, "Normal")
                 ELSE ApplyWitnessWithGroup(s, number, c, i.group, new, item.height + 1)
    IN  IF /\ s.ok
           /\ settles => Len(item.seal) >= UCMin
           /\ Len(item.signs) >= SCMin
           /\ i.status = "Underway" /\ item.since = i.since
           /\ \A a \in ToSet(item.signs) : IsMainSystemWitness(wit, a)
           /\ ~settles => item.of \in {c, SCAccount}
           /\ \A a \in ToSet(item.seal) : wit.status[a] # "none"
           /\ settles => s.special[at] \in {NoUnit, item.unit}
           /\ ~InArbitration(c)
        THEN [moved EXCEPT !.special = IF settles THEN [@ EXCEPT ![at] = item.unit] ELSE @]
        ELSE [s EXCEPT !.ok = FALSE]

(* ReplaceWitnessExecute: all the items or none. *)
ReplaceWitnessExecute(items) ==
    LET s == FoldLeft(ReplaceExec,
                [chain |-> chain, chainsAt |-> chainsAt, special |-> special, ok |-> TRUE],
                items)
    IN  /\ Calls("ReplaceWitnessExecute")
        /\ s.ok
        /\ StoreTables(s) /\ special' = s.special
        /\ UNCHANGED <<pending, ballot, result, reopened, propVars, memberVars>>

(***************************************************************************)
(* Arbitration                                                             *)
(***************************************************************************)
(* The votes on a height after that of a; a witness that has voted is not  *)
(* heard again.                                                            *)
WithVote(votes, a, u) ==
    [b \in DOMAIN votes \cup {a} |-> IF b \in DOMAIN votes THEN votes[b] ELSE u]

(* Mutated: the mark of the height stays when the arbitration ends. *)
ArbitrationVoteMarked(a, c, h, u, heights) ==
    LET at == <<c, h>>
        votes == WithVote(ballot[at], a, u)
        decided == Cardinality({b \in DOMAIN votes : votes[b] = u}) >= UCMin
    IN  /\ heights # {} /\ h = Min(heights)
        /\ result[at] = NoUnit
        /\ ballot' = [ballot EXCEPT ![at] = votes]
        /\ pending' = [pending EXCEPT ![c] = heights]
        /\ result' = IF decided THEN [result EXCEPT ![at] = u] ELSE result

(* Mutated: an arbitration that ended is held again. *)
ArbitrationVoteAgain(a, c, h, u, heights) ==
    LET at == <<c, h>>
        votes == WithVote(ballot[at], a, u)
        decided == Cardinality({b \in DOMAIN votes : votes[b] = u}) >= UCMin
    IN  /\ heights # {} /\ h = Min(heights)
        /\ ballot' = [ballot EXCEPT ![at] = IF decided THEN <<>> ELSE votes]
        /\ pending' = [pending EXCEPT ![c] = IF decided THEN heights \ {h} ELSE heights]
        /\ result' = IF decided THEN [result EXCEPT ![at] = u] ELSE result

(* arbitrationVote, with the heights now in arbitration. *)
ArbitrationVote(a, c, h, u, heights) ==
    LET at == <<c, h>>
        votes == WithVote(ballot[at], a, u)
        count == Cardinality({b \in DOMAIN votes : votes[b] = u})
        decided == count >= UCMin
    IN  /\ heights # {} /\ h = Min(heights)
        /\ result[at] = NoUnit
        /\ ballot' = [ballot EXCEPT ![at] = votes]
        /\ pending' = [pending EXCEPT ![c] = IF decided THEN heights \ {h} ELSE heights]
        /\ result' = IF decided THEN [result EXCEPT ![at] = u] ELSE result

(* SystemReportDishonest without a proof: a vote only. *)
ReportChoice(a, c, h, u) ==
    /\ Calls("ReportDishonest")
    /\ a \in ToSet(MainWitnesses(wit))
    /\ ArbitrationVote(a, c, h, u, pending[c])
    /\ UNCHANGED <<chain, chainsAt, special, reopened, propVars, memberVars>>

(* A proof against the witnesses bad: they are fined and blacklisted. *)
PunishBad(a, bad) ==
    LET fined == {b \in bad : wit.status[b] = "normal"}
    IN  /\ Calls("ReportDishonest")
        /\ a \in ToSet(MainWitnesses(wit))
        /\ \A b \in bad : CanPunish(wit, b)
        /\ wit' = FoldLeft(Punish, wit, Ascending(bad))
        /\ lost' = [b \in Account |-> lost[b] + IF b \in fined THEN wit.margin[b] ELSE 0]
        /\ UNCHANGED <<chain, chainsAt, special, propVars, number, council, held, load>>

(* SystemReportDishonest with a proof and with the sender's choice, as     *)
(* consensus/arbitration sends it.                                         *)
ReportProof(a, c, h, u, bad) ==
    /\ PunishBad(a, bad)
    /\ ArbitrationVote(a, c, h, u, pending[c] \cup {h})
    /\ UNCHANGED reopened

(* The same without a choice: the height is marked, with a result or not.  *)
ReportUnchosen(a, c, h, bad) ==
    /\ PunishBad(a, bad)
    /\ pending' = [pending EXCEPT ![c] = @ \cup {h}]
    /\ reopened' = IF result[<<c, h>>] = NoUnit THEN reopened ELSE reopened \cup {<<c, h>>}
    /\ UNCHANGED <<ballot, result>>

(***************************************************************************)
(* SetupDefaultWitnessForUser: the genesis users are in the first group.   *)
(***************************************************************************)
NoInfo == [group |-> NoGroup, status |-> "NotWitness", since |-> 0, applied |-> 0, from |-> 0]

GenesisTables ==
    [chain |-> [c \in Chain |->
                  IF c \notin GenesisUser THEN NoInfo
                  ELSE [group |-> 1, status |-> "Normal", since |-> 0, applied |-> 0, from |-> 1]],
     chainsAt |-> [g \in 0..Cardinality(Account) |->
                     IF g = 1 THEN SetToSeq(GenesisUser) ELSE <<>>]]

ChainsInit ==
    /\ chain = GenesisTables.chain /\ chainsAt = GenesisTables.chainsAt
    /\ special = [at \in Place |-> NoUnit]
    /\ pending = [c \in Chain |-> {}]
    /\ ballot = [at \in Place |-> <<>>]
    /\ result = [at \in Place |-> NoUnit]
    /\ reopened = {}
=============================================================================
