---------------------------- MODULE SystemContract ----------------------------
(***************************************************************************)
(* The system contract as a whole: members, proposals and chains share one *)
(* state, and any order of their calls may end up in the units of the      *)
(* system chain.  The settlement adds a node that stores units and counts  *)
(* the work that the contract pays for.  A load restricts the calls of a   *)
(* behaviour, so that an instance covers several combinations without      *)
(* their product.                                                          *)
(***************************************************************************)
EXTENDS Chains, Settlement

vars == <<memberVars, propVars, chainVars, settleVars>>

Init == MembersInit /\ ProposalsInit /\ ChainsInit /\ SettlementInit

(* Lists of addresses for RemoveInvalid: one, or two different ones. *)
Removals == {<<a>> : a \in load.named}
            \cup {<<a, b>> : a, b \in load.named}

(* What the system witnesses vote for: a request, and its last unit. *)
Executions ==
    {[chain |-> c, since |-> n, of |-> IF h = 0 THEN SCAccount ELSE c, height |-> h, unit |-> u,
      signs |-> MainWitnesses(wit), seal |-> SubSeq(UserWitnesses, 1, UCMin)] :
        c \in {d \in Chain : chain[d].status = "Underway"},
        n \in {chain[d].since : d \in Chain}, h \in 0..MaxHeight, u \in Unit}

Batches == {<<i>> : i \in Executions}
           \cup {<<i, j>> : i, j \in {e \in Executions : e.height = 0}}

(* Where two units may have been signed. *)
Disputable == {at \in Place : chain[at[1]].group # NoGroup}

Apart == UNCHANGED <<propVars, chainVars>>
NoChains == UNCHANGED chainVars

ContractNext ==
    \/ NewUnit /\ Apart
    \/ \E a \in load.named : CancelWitness(a) /\ Apart
    \/ \E a \in load.named : CouncilExit(a) /\ Apart
    \/ \E a \in load.named : MainHeartbeat(a) /\ Apart
    \/ \E a \in load.named : SecondHeartbeat(a) /\ Apart
    \/ \E a \in load.named : UserHeartbeat(a) /\ Apart
    \/ \E a \in load.named : MemberHeartbeat(a) /\ Apart
    \/ \E as \in Removals : RemoveTimeout(as) /\ Apart
    \/ AllSystemWitnessReplace /\ Apart
    \/ \E a \in load.named : SetMemberJoinApply(a) /\ NoChains
    \/ \E a, t \in load.named : SetMemberRemoveApply(a, t) /\ NoChains
    \/ \E a \in load.named, ch \in Changes : SetConfigApply(a, ch) /\ NoChains
    \/ \E a \in load.named, sys \in BOOLEAN : ProposalWitnessApply(a, sys) /\ NoChains
    \/ \E a \in load.named, i \in Proposed, v \in Verdicts :
            SetConfigApplyVote(a, i, v) /\ NoChains
    \/ \E a \in load.named, i \in Proposed, v \in Verdicts : PublicVote(a, i, v) /\ NoChains
    \/ \E a \in load.named, i \in Proposed, extra \in Bids :
            CampaignApply(a, i, extra) /\ NoChains
    \/ \E a \in load.named, i \in Proposed, extra \in Bids :
            \E k \in DOMAIN props[i].bids : CampaignAddMargin(a, i, k, extra) /\ NoChains
    \/ \E i \in Proposed : FinalizeExpired(i) /\ NoChains
    \/ \E i \in Proposed : SetConfigFinalize(i) /\ NoChains
    \/ \E c \in Chain : ChainApplyWitness(c)
    \/ \E u \in User, c \in Contracts : CreateContract(u, c)
    \/ \E c \in Chain : ReplaceWitness(c)
    \/ \E c \in Chain : ApplyWitnessWay2(c)
    \/ \E b \in Batches : ReplaceWitnessExecute(b)
    \/ \E a \in load.named, at \in Disputable, u \in Unit : ReportChoice(a, at[1], at[2], u)
    \/ \E a \in load.named, at \in Disputable, u \in Unit, bad \in load.bad :
            ReportProof(a, at[1], at[2], u, bad)
    \/ \E a \in load.named, at \in Disputable, bad \in load.bad :
            ReportUnchosen(a, at[1], at[2], bad)

Next ==
    \/ ContractNext /\ UNCHANGED settleVars
    \/ /\ Calls("Settlement")
       /\ SettlementNext
       /\ UNCHANGED <<memberVars, propVars, chainVars>>

Spec == Init /\ [][Next]_vars

(***************************************************************************)
(* Properties                                                              *)
(***************************************************************************)
(* The tables have the shape that the calls rely on: heights up to the     *)
(* present one, groups without a gap between their indices, known states.  *)
TypeOK ==
    /\ number \in 1..load.height
    /\ wit.status \in [Account -> {"none", "normal", "out", "black"}]
    /\ DOMAIN wit.groups = 0..(Cardinality(DOMAIN wit.groups) - 1)
    /\ \A a \in Account : /\ wit.at[a] \in DOMAIN wit.groups
                          /\ wit.beat.system[a] \in 0..number
                          /\ wit.beat.user[a] \in 0..number
                          /\ council.beat[a] \in 0..number
                          /\ held[a] \in Nat /\ lost[a] \in Nat
    /\ council.status \in [Account -> {"none", "valid", "invalid"}]
    /\ \A i \in DOMAIN props : props[i].status \in
            Settled \cup {"Apply", "InApproval", "InVoting", "Expired"}
    /\ \A c \in Chain : /\ chain[c].status \in {"NotWitness", "Normal", "Underway"}
                        /\ chain[c].since \in 0..number
    /\ \A at \in Place : result[at] \in Unit \cup {NoUnit}
    /\ phase \in [Stored -> {"none", "body", "receipts", "post"}]
    /\ calc.does \in {"start", "deaf", "listen", "pass"}
    /\ calc.units \in Seq(Stored) /\ calc.old \subseteq Stored
    /\ \A a \in ToSet(Lib) : purse.last[a] <= SafeSub(GetSettlePeriod(number), WithdrawJD)

(* What the contract still owes to an account: the margins of its roles    *)
(* and of its proposals and campaigns that are not decided yet.            *)
Owed(a) ==
    LET open(i) == props[i].status \notin Settled \cup {"Expired"}
        asked == {i \in DOMAIN props : open(i) /\ props[i].type = "CouncilAdd"
                                       /\ props[i].applicant = a}
        bid(i) == MapThenSumSet(LAMBDA k : props[i].bids[k].margin,
                    {k \in DOMAIN props[i].bids : props[i].bids[k].who = a})
    IN  (IF wit.status[a] = "normal" THEN wit.margin[a] ELSE 0)
        + (IF council.status[a] = "valid" THEN council.margin[a] ELSE 0)
        + MapThenSumSet(LAMBDA i : props[i].margin, asked)
        + MapThenSumSet(bid, {i \in DOMAIN props : open(i)})

(* Every margin is paid back once and only once: whatever the order of     *)
(* applications, decisions, exits, removals and fines, the contract holds  *)
(* of an account what it owes the account and what the account forfeited.  *)
MarginsCovered == \A a \in Account : held[a] = Owed(a) + lost[a]

(* An account that is or was a witness never gets into the council, nor    *)
(* the other way round, even with an application of each kind open.        *)
OneRole == \A a \in Account : wit.status[a] = "none" \/ council.status[a] = "none"

(* The lists of the groups and the witnesses' own entries say the same:    *)
(* a normal witness is listed exactly once, in the group it stores; nobody *)
(* else is listed; no user group is over its size; the count of active     *)
(* witnesses is the number of those listed.                                *)
GroupsAgree ==
    LET listed(g) == ToSet(wit.groups[g])
    IN  /\ \A g \in DOMAIN wit.groups :
              /\ IsInjective(wit.groups[g])
              /\ \A a \in listed(g) : wit.status[a] = "normal" /\ wit.at[a] = g
              /\ g # SysGroup => Len(wit.groups[g]) <= UCMax
        /\ \A a \in Account : wit.status[a] = "normal" => a \in listed(wit.at[a])
        /\ wit.active = Cardinality({a \in Account : wit.status[a] = "normal"})

(* The repair of a group never takes the power to decide from another:     *)
(* a user group other than that of a leaving witness that has the minimum  *)
(* of witnesses before the call still has it after.                        *)
OthersKeepDeciding ==
    [][\A g \in UserGroups(wit) :
          /\ Len(wit.groups[g]) >= UCMin
          /\ \A a \in ToSet(wit.groups[g]) : wit'.status[a] = "normal"
          => Len(wit'.groups[g]) >= UCMin]_vars

(* A removal for silence (lost grows) takes out only members whose own     *)
(* heartbeats are late: "if it is a valid witness or council member but    *)
(* its heartbeat is normal, the transaction fails".                        *)
TimelyStay ==
    [][\A a \in Account :
          /\ wit.status[a] = "normal" /\ wit'.status[a] = "out" /\ lost'[a] > lost[a]
          => Late(MaxBeat, IF wit.at[a] = SysGroup THEN wit.beat.system[a]
                                                   ELSE wit.beat.user[a])]_vars

(* There is always a council, and its list is that of the valid members,   *)
(* each once: the last member cannot exit, be voted out or be removed.     *)
CouncilStands ==
    /\ council.list # <<>>
    /\ IsInjective(council.list)
    /\ ToSet(council.list) = {a \in Account : council.status[a] = "valid"}

(* Of configuration changes, and of each kind of campaign, at most one is  *)
(* undecided at any time, although a new one is checked only against the   *)
(* latest and a proposal moves through its phases by the height alone.     *)
OneOpen ==
    \A i, j \in DOMAIN props :
        /\ props[i].type = props[j].type
        /\ props[i].type \in CampaignTypes \cup {"ConfigChange"}
        /\ ~Closed(props[i]) /\ ~Closed(props[j])
        => i = j

(* A setting changes only by a proposal that this call closes as passed,   *)
(* that the council of its making approved by two thirds, and that asks    *)
(* for just this change.                                                   *)
ConfigByCouncil ==
    [][config' # config =>
        \E i \in DOMAIN props :
            LET p == props[i]
                n == Cardinality(DOMAIN p.audit)
            IN  /\ props'[i].status = "Passed" /\ p.status = "InVoting"
                /\ 3 * Cardinality({c \in DOMAIN p.audit : p.audit[c] = "agree"}) >= 2 * n
                /\ config' = [config EXCEPT ![p.change[1]] = p.change[2]]]_vars

(* Recruitment stays within the caps in force at the moment of joining,    *)
(* even if a change lowered them since the campaign opened, with more      *)
(* campaigners than there is room left.                                    *)
JoinsWithinCaps ==
    [][/\ ActiveUsers(wit') > ActiveUsers(wit)
            => ActiveUsers(wit') <= config["ucWitnessCap"]
       /\ Len(wit'.groups[SysGroup]) > Len(wit.groups[SysGroup])
            => Len(wit'.groups[SysGroup]) <= SCCap]_vars

(* A chain is listed by exactly the group that its own entry names, once,  *)
(* and that group exists.                                                  *)
ChainsAgree ==
    /\ \A g \in DOMAIN chainsAt : IsInjective(chainsAt[g])
    /\ \A c \in Chain, g \in DOMAIN chainsAt :
          c \in ToSet(chainsAt[g]) <=> chain[c].group = g /\ g # NoGroup
    /\ \A c \in Chain : chain[c].group \in DOMAIN wit.groups

(* While a height of a chain is in arbitration the chain keeps its group,  *)
(* also when a replacement was underway before the report came.            *)
ArbitrationHoldsGroup ==
    [][\A c \in Chain : InArbitration(c) => chain'[c].group = chain[c].group]_vars

(* A height in arbitration has no result yet, so that the system witnesses *)
(* can still vote on it, unless a proof without a choice marked it again;  *)
(* such a height never leaves the arbitration.  A result is that of enough *)
(* system witnesses.                                                       *)
ArbitrationOpen ==
    \A at \in Place :
        /\ at[2] \in pending[at[1]] /\ result[at] # NoUnit <=> at \in reopened
        /\ result[at] # NoUnit =>
              Cardinality({a \in DOMAIN ballot[at] : ballot[at][a] = result[at]}) >= UCMin

(* What was settled about a chain's units stays: the unit that a           *)
(* replacement or an arbitration fixed at a height is never another one.   *)
UnitsStay ==
    [][\A at \in Place : /\ special[at] # NoUnit => special'[at] = special[at]
                         /\ result[at] # NoUnit => result'[at] = result[at]]_vars
=============================================================================
