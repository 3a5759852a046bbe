------------------------------ MODULE MCContract ------------------------------
EXTENDS SystemContract, TLC

\* Accounts by role: council members, system witnesses, user witnesses, others.
MCAccount == 1..15
MCCouncils == <<1, 2>>
MCSysWitnesses == <<3, 4, 5, 15>>
MCUserWitnesses == <<6, 7, 8, 9, 10, 11, 12>>
MCCoin == [a \in MCAccount |-> IF a = 13 THEN 3 ELSE 0]
MCConfig == [ucWitnessCap |-> 12, minCouncilPvote |-> 2, minConfigPvote |-> 3]
MCChanges == {<<"ucWitnessCap", 8>>}

Load(calls, named, height, proposals) ==
    [calls |-> calls, named |-> named, height |-> height, proposals |-> proposals,
     bad |-> {}]

\* Witnesses leave in any order, and the groups are repaired.
LoadLeave == Load({"CancelWitness", "AllSystemWitnessReplace"}, {3} \cup 6..12, 1, 0)

\* Heartbeats, or their absence, and the removal of silent members.
LoadSilent == Load({"SystemHeartbeat", "MemberHeartbeat", "RemoveInvalid"},
                   {1, 3, 15, 6}, 6, 0)

\* Both campaigns at once, with the same campaigners, while witnesses leave.
LoadCampaign ==
    Load({"SetSystemWitness", "SetSystemWitnessApply", "SetSystemWitnessAddMargin",
          "SetConfigFinalize", "CancelWitness"},
         {1, 6, 13, 14}, 2, 2)

\* Joining and leaving the council, by votes, by choice and by silence.
LoadCouncil ==
    Load({"SetMemberJoinApply", "SetMemberRemoveApply", "SetConfigVote",
          "SetConfigFinalize", "CouncilExit"},
         {1, 2, 13}, 3, 2)

\* The same account asks for a seat in the council and campaigns.
LoadRoles ==
    Load({"SetMemberJoinApply", "SetSystemWitness", "SetSystemWitnessApply",
          "SetConfigVote", "SetConfigFinalize"},
         {1, 13}, 3, 3)

\* A campaign with two campaigners, under a cap that is lowered meanwhile to
\* leave room for one of them.
LoadConfig ==
    Load({"SetConfigApply", "SetConfigApplyVote", "SetConfigVote", "SetConfigFinalize",
          "SetSystemWitness", "SetSystemWitnessApply"},
         {1, 2, 13, 14}, 3, 2)

\* Chains get groups, and replace them while the groups change.
LoadChains ==
    Load({"ApplyWitness", "CreateContract", "ReplaceWitness", "ApplyWitnessWay2",
          "ReplaceWitnessExecute", "CancelWitness"},
         {6, 10}, 2, 0)

\* The same without contracts, over more heights: a chain may replace twice.
LoadUsers == [LoadChains EXCEPT !.calls = @ \ {"CreateContract"}, !.height = 5]

\* Reports on a chain whose replacement may be underway.
LoadReports ==
    [Load({"ReportDishonest", "ReplaceWitness", "ReplaceWitnessExecute"},
          {3, 4, 5}, 3, 0) EXCEPT !.bad = {{6}, {6, 7}}]

\* The units of two chains, of the first two periods.
MCStored == {[chain |-> 13, height |-> 1, by |-> 6, votes |-> {6, 7}, sc |-> 1],
             [chain |-> 13, height |-> 2, by |-> 7, votes |-> {6, 7}, sc |-> 3],
             [chain |-> 14, height |-> 1, by |-> 7, votes |-> {7}, sc |-> 2]}
MCLib == <<6, 7>>

\* Units are stored and counted, with restarts and daily passes.
LoadFees == Load({"Settlement", "InsertUnit", "DailyPass", "Restart"}, {}, 4, 0)

\* Units are stored, counted and paid for over five periods.
LoadPaid == Load({"Settlement", "InsertUnit", "Restart"}, {}, 10, 0)

Symmetry == Permutations(Unit)

LoadsSilent == {LoadSilent}
LoadsAll == {LoadLeave, LoadSilent, LoadCampaign, LoadCouncil, LoadRoles, LoadConfig,
             LoadChains, LoadUsers, LoadReports, LoadFees, LoadPaid}
=============================================================================
