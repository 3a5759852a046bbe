------------------------------ MODULE Proposals ------------------------------
(***************************************************************************)
(* Proposals of the system contract (core/sc/proposal*.go): joining and    *)
(* firing council members, changing the configuration, and the campaigns   *)
(* that recruit witnesses.  Each proposal goes through its phases by the   *)
(* height of the system chain; SetConfigFinalize closes it.                *)
(***************************************************************************)
EXTENDS Members

CONSTANTS
    Coin,           \* the coins with which an account votes, by getCoin
    Config,         \* the genesis values of the settings modelled
    Changes,        \* the changes <<key, value>> that proposals ask for
    Bids,           \* the margins beyond the least that campaigners offer
    MaxRaise,       \* bound: how far beyond the least an offer is raised
    TimeApprove, TimeVoting, TimeCampaign   \* the phases, in heights

ASSUME ProposalConstants ==
    /\ {TimeApprove, TimeVoting, TimeCampaign, MaxRaise} \subseteq Nat
    /\ Coin \in [Account -> Nat] /\ Bids \subseteq Nat
    /\ DOMAIN Config = {"ucWitnessCap", "minCouncilPvote", "minConfigPvote"}
    /\ \A ch \in Changes : ch[1] \in DOMAIN Config /\ ch[2] \in Nat

VARIABLES
    props,      \* the proposals, in the order of their making
    config      \* the settings in force

propVars == <<props, config>>

CouncilTypes == {"CouncilAdd", "CouncilFire"}
CampaignTypes == {"SysWitnessCampaign", "UserWitnessCampaign"}
Settled == {"Passed", "Failed"}
Verdicts == {"agree", "disagree"}
Proposed == DOMAIN props

(* A proposal of the type, made by the applicant. *)
NewProposal(type, applicant) ==
    [type |-> type, applicant |-> applicant, target |-> applicant, margin |-> 0,
     change |-> <<>>, status |-> "InVoting", vote |-> number, finalize |-> 0,
     audit |-> <<>>, public |-> <<>>, bids |-> <<>>]

(* What GetStatus reads from the stored status and the current height. *)
GetStatus(p) ==
    LET voting == IF number < p.finalize THEN "InVoting" ELSE "PendingJudge"
    IN  IF p.status \in Settled THEN p.status
        ELSE IF p.type \in CouncilTypes
             THEN IF p.status = "InVoting" THEN voting ELSE "Expired"
        ELSE IF p.type \in CampaignTypes
             THEN IF number < p.vote THEN "Apply" ELSE "PendingJudge"
        ELSE IF p.status \in {"InApproval", "InVoting"} /\ number < p.vote
             THEN "InApproval"
        ELSE IF p.status = "InVoting" THEN voting ELSE "Expired"

Closed(p) == GetStatus(p) \in Settled \cup {"Expired"}

(* Mutated: a proposal that waits for its judgement counts as closed. *)
ProposalIsCreateEarly(type) ==
    LET i == SelectLastInSeq(props, LAMBDA p : p.type = type)
    IN  i # 0 => Closed(props[i]) \/ GetStatus(props[i]) = "PendingJudge"

(* ProposalIsCreate looks at the latest proposal of the type only. *)
ProposalIsCreate(type) ==
    LET i == SelectLastInSeq(props, LAMBDA p : p.type = type)
    IN  i # 0 => Closed(props[i])

(* Mutated: the room under the cap before it changed. *)
RecruitingSumStale(w, sys) ==
    IF sys THEN SafeSub(SCCap, Len(w.groups[SysGroup]))
    ELSE SafeSub(Config["ucWitnessCap"], ActiveUsers(w))

(* getRecruitingSum, when a campaign opens and again when it closes. *)
RecruitingSum(w, sys) ==
    IF sys THEN SafeSub(SCCap, Len(w.groups[SysGroup]))
    ELSE SafeSub(config["ucWitnessCap"], ActiveUsers(w))

AddProposal(p) ==
    /\ Len(props) < load.proposals
    /\ props' = Append(props, p)
    /\ UNCHANGED config

Pay(a, amount) == held' = [held EXCEPT ![a] = @ + amount]

(***************************************************************************)
(* Making proposals                                                        *)
(***************************************************************************)
SetMemberJoinApply(a) ==
    /\ Calls("SetMemberJoinApply")
    /\ CheckMemberType(wit, council, a)
    /\ AddProposal([NewProposal("CouncilAdd", a) EXCEPT
                        !.margin = CouncilMargin, !.finalize = number + TimeVoting])
    /\ Pay(a, CouncilMargin)
    /\ UNCHANGED <<number, wit, council, lost, load>>

SetMemberRemoveApply(a, target) ==
    /\ Calls("SetMemberRemoveApply")
    /\ council.status[target] = "valid"
    /\ AddProposal([NewProposal("CouncilFire", a) EXCEPT
                        !.target = target, !.margin = council.margin[target],
                        !.finalize = number + TimeVoting])
    /\ UNCHANGED memberVars

(* A lower cap must leave room for the witnesses there are now. *)
ChangeAllowed(ch) ==
    /\ config[ch[1]] # ch[2]
    /\ ch[1] = "ucWitnessCap" => ch[2] >= ActiveUsers(wit) /\ ch[2] % UCMax = 0

(* The council members of now are the ones that audit the proposal. *)
SetConfigApply(a, ch) ==
    /\ Calls("SetConfigApply")
    /\ ChangeAllowed(ch)
    /\ ProposalIsCreate("ConfigChange")
    /\ council.list # <<>>
    /\ AddProposal([NewProposal("ConfigChange", a) EXCEPT
                        !.change = ch, !.status = "InApproval",
                        !.vote = number + TimeApprove,
                        !.audit = [c \in ToSet(council.list) |-> "unknown"]])
    /\ UNCHANGED memberVars

(* proposalWitnessApply: a council member opens a campaign. *)
ProposalWitnessApply(a, sys) ==
    LET type == IF sys THEN "SysWitnessCampaign" ELSE "UserWitnessCampaign"
    IN  /\ Calls("SetSystemWitness")
        /\ RecruitingSum(wit, sys) > 0
        /\ council.status[a] = "valid"
        /\ ProposalIsCreate(type)
        /\ AddProposal([NewProposal(type, a) EXCEPT
                            !.status = "Apply", !.vote = number + TimeCampaign])
        /\ UNCHANGED memberVars

(***************************************************************************)
(* Taking part in a proposal                                               *)
(***************************************************************************)
(* Mutated: one third of the council is enough. *)
AuditedThird(p) ==
    LET agree == {c \in DOMAIN p.audit : p.audit[c] = "agree"}
        count == Cardinality(DOMAIN p.audit)
    IN  IF Cardinality(agree) >= count - (count * 2) \div 3
        THEN [p EXCEPT !.status = "InVoting", !.finalize = p.vote + TimeVoting]
        ELSE p

(* ProposalIsVote: the audit of the council after one more vote. *)
Audited(p) ==
    LET votes(v) == Cardinality({c \in DOMAIN p.audit : p.audit[c] = v})
        count == Cardinality(DOMAIN p.audit)
    IN  IF votes("agree") >= count - count \div 3
        THEN [p EXCEPT !.status = "InVoting", !.finalize = p.vote + TimeVoting]
        ELSE IF votes("disagree") >= (count * 2) \div 3
        THEN [p EXCEPT !.status = "Failed"]
        ELSE p

(* SetConfigApplyVote; no margin is at stake in a configuration change. *)
SetConfigApplyVote(a, i, v) ==
    LET p == props[i]
    IN  /\ Calls("SetConfigApplyVote")
        /\ GetStatus(p) = "InApproval"
        /\ council.status[a] = "valid"
        /\ a \in DOMAIN p.audit /\ p.audit[a] = "unknown"
        /\ props' = [props EXCEPT ![i] = Audited([p EXCEPT !.audit[a] = v])]
        /\ UNCHANGED <<config, memberVars>>

(* handlePublicVote: one vote an account, weighed by its coins. *)
PublicVote(a, i, v) ==
    LET p == props[i]
    IN  /\ Calls("SetConfigVote")
        /\ GetStatus(p) = "InVoting"
        /\ Coin[a] > 0
        /\ a \notin DOMAIN p.public
        /\ props' = [props EXCEPT ![i].public = [b \in DOMAIN p.public \cup {a} |->
                                    IF b = a THEN v ELSE p.public[b]]]
        /\ UNCHANGED <<config, memberVars>>

MinMargin(type) == IF type = "UserWitnessCampaign" THEN UserMargin ELSE SysMargin

(* SetSystemWitnessApply: a campaigner's first offer. *)
CampaignApply(a, i, extra) ==
    LET p == props[i]
        margin == MinMargin(p.type) + extra
    IN  /\ Calls("SetSystemWitnessApply")
        /\ p.type \in CampaignTypes
        /\ GetStatus(p) = "Apply"
        /\ CheckMemberType(wit, council, a)
        /\ \A k \in DOMAIN p.bids : p.bids[k].who # a
        /\ props' = [props EXCEPT ![i].bids =
                        Append(@, [who |-> a, margin |-> margin, time |-> number])]
        /\ Pay(a, margin)
        /\ UNCHANGED <<number, wit, council, lost, load, config>>

(* SetSystemWitnessAddMargin: a higher offer is a later one. *)
CampaignAddMargin(a, i, k, extra) ==
    LET p == props[i]
    IN  /\ Calls("SetSystemWitnessAddMargin")
        /\ extra > 0
        /\ p.bids[k].margin + extra <= MinMargin(p.type) + MaxRaise
        /\ GetStatus(p) = "Apply"
        /\ p.bids[k].who = a
        /\ props' = [props EXCEPT ![i].bids[k] =
                        [who |-> a, margin |-> @.margin + extra, time |-> number]]
        /\ Pay(a, extra)
        /\ UNCHANGED <<number, wit, council, lost, load, config>>

(***************************************************************************)
(* Closing a proposal                                                      *)
(***************************************************************************)
(* validProposalPass: enough coins agree, and more than twice a third. *)
ValidProposalPass(p) ==
    LET coins(as) == MapThenSumSet(LAMBDA a : Coin[a], as)
        pass == coins({a \in DOMAIN p.public : p.public[a] = "agree"})
        total == coins(DOMAIN p.public)
        least == IF p.type = "ConfigChange" THEN "minConfigPvote"
                                            ELSE "minCouncilPvote"
    IN  /\ pass > 0
        /\ pass >= config[least]
        /\ pass > (total \div 3) * 2

(* The proposal number i is stored with its outcome. *)
Close(i, outcome) ==
    props' = [props EXCEPT ![i] = [@ EXCEPT !.status = outcome, !.finalize = number]]

FinalizeConfig(i) ==
    LET p == props[i]
        pass == ValidProposalPass(p)
    IN  /\ p.type = "ConfigChange"
        /\ Close(i, IF pass THEN "Passed" ELSE "Failed")
        /\ config' = IF pass THEN [config EXCEPT ![p.change[1]] = p.change[2]]
                             ELSE config
        /\ UNCHANGED memberVars

(* Mutated: an applicant that became a witness meanwhile is not paid back. *)
FinalizeCouncilAddKept(i) ==
    LET p == props[i]
        pass == ValidProposalPass(p)
        fits == CheckMemberType(wit, council, p.applicant)
    IN  /\ p.type = "CouncilAdd"
        /\ Close(i, IF pass /\ fits THEN "Passed" ELSE "Failed")
        /\ council' = IF pass /\ fits
                      THEN AddCouncil(council, number - 1, p.applicant, p.margin)
                      ELSE council
        /\ held' = IF pass THEN held ELSE [held EXCEPT ![p.applicant] = @ - p.margin]
        /\ UNCHANGED <<number, wit, lost, load, config>>

(* Mutated: what the applicant became since the application is not checked. *)
FinalizeCouncilAddBlind(i) ==
    LET p == props[i]
        pass == ValidProposalPass(p)
    IN  /\ p.type = "CouncilAdd"
        /\ Close(i, IF pass THEN "Passed" ELSE "Failed")
        /\ council' = IF pass THEN AddCouncil(council, number - 1, p.applicant, p.margin)
                              ELSE council
        /\ held' = IF pass THEN held ELSE [held EXCEPT ![p.applicant] = @ - p.margin]
        /\ UNCHANGED <<number, wit, lost, load, config>>

(* The new member counts from the height that the unit refers to. *)
FinalizeCouncilAdd(i) ==
    LET p == props[i]
        pass == ValidProposalPass(p) /\ CheckMemberType(wit, council, p.applicant)
    IN  /\ p.type = "CouncilAdd"
        /\ Close(i, IF pass THEN "Passed" ELSE "Failed")
        /\ council' = IF pass THEN AddCouncil(council, number - 1, p.applicant, p.margin)
                              ELSE council
        /\ held' = IF pass THEN held ELSE [held EXCEPT ![p.applicant] = @ - p.margin]
        /\ UNCHANGED <<number, wit, lost, load, config>>

FinalizeCouncilFire(i) ==
    LET p == props[i]
        pass == /\ ValidProposalPass(p)
                /\ council.status[p.target] = "valid"
                /\ CanRemoveCouncil(council, p.target)
    IN  /\ p.type = "CouncilFire"
        /\ Close(i, IF pass THEN "Passed" ELSE "Failed")
        /\ council' = IF pass THEN RemoveCouncil(council, p.target) ELSE council
        /\ held' = IF pass THEN [held EXCEPT ![p.target] = @ - p.margin] ELSE held
        /\ UNCHANGED <<number, wit, lost, load, config>>

(* One campaigner of the list: joins while there is room, else is paid     *)
(* back.  A campaigner that cannot join makes the proposal fail.           *)
Recruit(s, bid, sys) ==
    LET refund == [s EXCEPT !.held[bid.who] = @ - bid.margin]
    IN  IF s.need = 0 THEN refund
        ELSE IF ~CanApplyWitness(s.wit, council, bid.who, sys)
        THEN [refund EXCEPT !.failed = TRUE]
        ELSE [s EXCEPT !.wit = ApplyWitness(@, number, bid.who, bid.margin, sys),
                       !.need = @ - 1]

(* The bids of a system campaign: the margin first, then the order of coming. *)
ByMargin(bids) ==
    InOrder(DOMAIN bids, {p \in (DOMAIN bids) \X (DOMAIN bids) :
        \/ bids[p[1]].margin > bids[p[2]].margin
        \/ bids[p[1]].margin = bids[p[2]].margin /\ p[1] < p[2]})

(* The system campaign tries the next campaigner in place of a failed one. *)
FinalizeSystemWitness(i) ==
    LET p == props[i]
        need == RecruitingSum(wit, TRUE)
        s == FoldLeft(LAMBDA st, k : Recruit(st, p.bids[k], TRUE),
                [wit |-> wit, held |-> held, need |-> need,
                 failed |-> need = 0 \/ p.bids = <<>>],
                ByMargin(p.bids))
    IN  /\ p.type = "SysWitnessCampaign"
        /\ wit' = s.wit /\ held' = s.held
        /\ Close(i, IF s.failed THEN "Failed" ELSE "Passed")
        /\ UNCHANGED <<number, council, lost, load, config>>

(* CampaignList.Select: the margin first, then the time; the winners join  *)
(* in the order of their addresses when they are more than two.            *)
Ranked(bids) ==
    InOrder(DOMAIN bids, {p \in (DOMAIN bids) \X (DOMAIN bids) :
        \/ bids[p[1]].margin > bids[p[2]].margin
        \/ /\ bids[p[1]].margin = bids[p[2]].margin
           /\ \/ bids[p[1]].time < bids[p[2]].time
              \/ bids[p[1]].time = bids[p[2]].time /\ p[1] < p[2]})

ByAddress(bids, S) == InOrder(S, {p \in S \X S : bids[p[1]].who < bids[p[2]].who})

FinalizeUserWitness(i) ==
    LET p == props[i]
        need == RecruitingSum(wit, FALSE)
        ranked == Ranked(p.bids)
        won == SubSeq(ranked, 1, Min({need, Len(ranked)}))
        join == IF Len(won) <= 2 THEN won
                ELSE ByAddress(p.bids, ToSet(won))
        lose == SubSeq(ranked, Len(won) + 1, Len(ranked))
        s == FoldLeft(LAMBDA st, k : Recruit(st, p.bids[k], FALSE),
                [wit |-> wit, held |-> held, need |-> Len(won),
                 failed |-> won = <<>>],
                join)
        back == [a \in Account |->
                    MapThenSumSet(LAMBDA k : IF p.bids[k].who = a
                                             THEN p.bids[k].margin ELSE 0,
                                  ToSet(lose))]
    IN  /\ p.type = "UserWitnessCampaign"
        /\ wit' = s.wit
        /\ held' = [a \in Account |-> s.held[a] - back[a]]
        /\ Close(i, IF s.failed THEN "Failed" ELSE "Passed")
        /\ UNCHANGED <<number, council, lost, load, config>>

(* SetConfigFinalize of a change that the council did not let pass in time. *)
FinalizeExpired(i) ==
    /\ Calls("SetConfigFinalize")
    /\ props[i].status = "InApproval" /\ GetStatus(props[i]) = "Expired"
    /\ Close(i, "Expired")
    /\ UNCHANGED <<config, memberVars>>

SetConfigFinalize(i) ==
    /\ Calls("SetConfigFinalize")
    /\ GetStatus(props[i]) = "PendingJudge"
    /\ \/ FinalizeConfig(i)
       \/ FinalizeCouncilAdd(i)
       \/ FinalizeCouncilFire(i)
       \/ FinalizeSystemWitness(i)
       \/ FinalizeUserWitness(i)

ProposalsInit == props = <<>> /\ config = Config
=============================================================================
