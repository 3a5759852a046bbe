------------------------------- MODULE Members -------------------------------
(***************************************************************************)
(* The members of the network as the system contract keeps them            *)
(* (core/sc/normal_witenss.go, council.go, heartbeat.go, autoexit.go):     *)
(* witnesses and council members, their margins, their heartbeats, and the *)
(* ways they leave.  Joining is decided by proposals (module Proposals).   *)
(*                                                                         *)
(* A call of the contract is one atomic step: contract.go turns any error  *)
(* into a revert of the whole call, so a call that fails is a step that    *)
(* does not happen.  Gas is left out.                                      *)
(***************************************************************************)
EXTENDS Integers, WitnessGroup

CONSTANTS
    Account,            \* the accounts that take part
    Councils,           \* genesis: the council members, in order
    SysWitnesses,       \* genesis: the system witnesses, in order
    UserWitnesses,      \* genesis: the user witnesses, in order
    CouncilMargin, SysMargin, UserMargin,   \* the least margins
    SCWitness,          \* main system witnesses; also the length of a round
    MaxMainBeat,        \* MaxMainSCWitnessHeartbeatRound
    MaxBeat,            \* MaxHeartbeatRound
    ExitWait,           \* CounciExitNumber
    Loads               \* the scenarios of an instance, see load

ASSUME MemberConstants ==
    /\ SCWitness \in Nat \ {0}
    /\ {MaxMainBeat, MaxBeat, ExitWait} \subseteq Nat
    /\ {CouncilMargin, SysMargin, UserMargin} \subseteq Nat \ {0}
    /\ IsFiniteSet(Account) /\ Account \subseteq Nat
    /\ {Councils, SysWitnesses, UserWitnesses} \subseteq Seq(Account)
    /\ IsInjective(Councils \o SysWitnesses \o UserWitnesses)
    /\ Len(Councils) > 0 /\ Len(UserWitnesses) >= UCMax
    /\ \A l \in Loads : /\ l.height \in Nat \ {0} /\ l.named \subseteq Account
                       /\ l.bad \subseteq SUBSET Account

VARIABLES
    number,     \* the height of the system chain
    wit,        \* the witness tables: status, margin, groups, at, active, beat
    council,    \* the council tables: list, status, margin, since, beat
    held,       \* history: what the contract account holds of each account
    lost,       \* history: what each account has forfeited
    load        \* the scenario: which calls are made, by whom, up to where

memberVars == <<number, wit, council, held, lost, load>>

(* The methods the transactions of this scenario call. *)
Calls(method) == method \in load.calls

(* params.CalcRound: rounds of SCWitness units, counted from 1. *)
CalcRound(n) == (n + SCWitness - 1) \div SCWitness

SafeSub(a, b) == IF a < b THEN 0 ELSE a - b

(* calcPercentMoney with the shares that a timed-out member keeps. *)
CouncilKeeps(m) == (m * 8800) \div 10000
WitnessKeeps(m) == (m * 8500) \div 10000

Tables(w) == [groups |-> w.groups, at |-> w.at]

MainWitnesses(w) ==
    SubSeq(w.groups[SysGroup], 1, Min({SCWitness, Len(w.groups[SysGroup])}))

(* IsMainSystemWitness compares an index that is -1 for an account outside *)
(* the list, and reads the group_index that a witness keeps when it left.  *)
IsMainSystemWitness(w, a) ==
    /\ w.status[a] # "none"
    /\ w.at[a] = SysGroup
    /\ \/ a \notin ToSet(w.groups[SysGroup])
       \/ IndexOf(w.groups[SysGroup], a) <= SCWitness

ActiveUsers(w) == SafeSub(w.active, Len(w.groups[SysGroup]))

(* Former witnesses and former council members count as well. *)
CheckMemberType(w, c, a) == w.status[a] = "none" /\ c.status[a] = "none"

(***************************************************************************)
(* Joining                                                                 *)
(***************************************************************************)
CanApplyWitness(w, c, a, sys) ==
    /\ CheckMemberType(w, c, a)
    /\ sys => CanApplyWitnessGroupOfSys(Tables(w))

ApplyWitness(w, n, a, value, sys) ==
    LET t == IF sys THEN ApplyWitnessGroupOfSys(Tables(w), a)
                    ELSE ApplyWitnessGroupOfUser(Tables(w), a)
    IN  [w EXCEPT !.status[a] = "normal",
                  !.margin[a] = value,
                  !.groups = t.groups,
                  !.at = t.at,
                  !.active = @ + 1,
                  !.beat[IF sys THEN "system" ELSE "user"][a] = n]

AddCouncil(c, n, a, value) ==
    [c EXCEPT !.list = Append(@, a),
              !.status[a] = "valid",
              !.margin[a] = value,
              !.since[a] = n,
              !.beat[a] = n]

(***************************************************************************)
(* Leaving                                                                 *)
(***************************************************************************)
(* onWitnessExit, with the status LoggedOut or InBlackList. *)
WitnessExit(w, a, status) ==
    LET t == CancelWitnessFromWitnessGroup(Tables(w), a)
    IN  [w EXCEPT !.status[a] = status, !.groups = t.groups, !.at = t.at,
                  !.active = @ - 1]

(* Mutated: the last council member can be removed. *)
CanRemoveCouncilLast(c, a) == c.status[a] # "none"

(* The last council member cannot be removed. *)
CanRemoveCouncil(c, a) == Len(c.list) # 1 /\ c.status[a] # "none"

RemoveCouncil(c, a) ==
    IF c.status[a] = "invalid" THEN c
    ELSE [c EXCEPT !.status[a] = "invalid",
                   !.list = StateSetRemove(@, IndexOf(@, a))]

DemoteWitness(w, a) ==
    LET t == ApplyWitnessGroupOfSys(
                CancelWitnessFromWitnessGroup(Tables(w), a), a)
    IN  [w EXCEPT !.groups = t.groups, !.at = t.at]

CancelWitness(a) ==
    /\ Calls("CancelWitness")
    /\ wit.status[a] = "normal"
    /\ wit' = WitnessExit(wit, a, "out")
    /\ held' = [held EXCEPT ![a] = @ - wit.margin[a]]
    /\ UNCHANGED <<number, council, lost, load>>

CouncilExit(a) ==
    /\ Calls("CouncilExit")
    /\ council.status[a] = "valid"
    /\ number >= council.since[a] + ExitWait
    /\ CanRemoveCouncil(council, a)
    /\ council' = RemoveCouncil(council, a)
    /\ held' = [held EXCEPT ![a] = @ - council.margin[a]]
    /\ UNCHANGED <<number, wit, lost, load>>

(* writeBadWitness: the margin is forfeited.  A witness that left before   *)
(* makes the whole report fail; one that is blacklisted is passed over.    *)
CanPunish(w, a) == w.status[a] \in {"normal", "black"}

Punish(w, a) == IF w.status[a] = "black" THEN w ELSE WitnessExit(w, a, "black")

(***************************************************************************)
(* Heartbeats.  A table keeps the height of the last one; its round is     *)
(* the round of that height.                                               *)
(***************************************************************************)
Late(limit, last) == SafeSub(CalcRound(number), CalcRound(last)) > limit

(* A unit without a heartbeat of its proposer. *)
NewUnit ==
    /\ number < load.height
    /\ number' = number + 1
    /\ UNCHANGED <<wit, council, held, lost, load>>

(* SystemHeartbeat of a main system witness is the first transaction of    *)
(* a unit the witness proposes, so the unit and the call are one step.     *)
(* It ends with checkMainSystemStatus: late main witnesses become second.  *)
MainHeartbeat(a) ==
    LET now == number + 1
        beats == [wit EXCEPT !.beat.system[a] = now]
        late(b) == SafeSub(CalcRound(now), CalcRound(beats.beat.system[b])) > MaxMainBeat
    IN  /\ Calls("SystemHeartbeat")
        /\ number < load.height
        /\ a \in ToSet(MainWitnesses(wit))
        /\ wit.beat.system[a] < now
        /\ number' = now
        /\ wit' = FoldLeft(LAMBDA w, b : IF late(b) THEN DemoteWitness(w, b) ELSE w,
                           beats, MainWitnesses(wit))
        /\ UNCHANGED <<council, held, lost, load>>

(* SystemHeartbeat of a second system witness: once a round. *)
SecondHeartbeat(a) ==
    /\ Calls("SystemHeartbeat")
    /\ a \in ToSet(wit.groups[SysGroup]) \ ToSet(MainWitnesses(wit))
    /\ CalcRound(number) > CalcRound(wit.beat.system[a])
    /\ wit' = [wit EXCEPT !.beat.system[a] = number]
    /\ UNCHANGED <<number, council, held, lost, load>>

(* SystemHeartbeat of a user witness: once a round, and the status is not  *)
(* looked at.                                                              *)
UserHeartbeat(a) ==
    /\ Calls("SystemHeartbeat")
    /\ wit.status[a] # "none" /\ wit.at[a] # SysGroup
    /\ CalcRound(number) > CalcRound(wit.beat.user[a])
    /\ wit' = [wit EXCEPT !.beat.user[a] = number]
    /\ UNCHANGED <<number, council, held, lost, load>>

(* MemberHeartbeat: once a height. *)
MemberHeartbeat(a) ==
    /\ Calls("MemberHeartbeat")
    /\ council.status[a] = "valid"
    /\ council.beat[a] < number
    /\ council' = [council EXCEPT !.beat[a] = number]
    /\ UNCHANGED <<number, wit, held, lost, load>>

(***************************************************************************)
(* Removal of members without heartbeats                                   *)
(***************************************************************************)
(* IsTimeout: what the removal finds of an account.  A user witness is     *)
(* looked up among the heartbeats of the council, and a main system        *)
(* witness is judged as a second one.                                      *)
TimeoutVerdict(w, c, a) ==
    LET verdict(role, limit, last) == IF Late(limit, last) THEN role ELSE "timely"
    IN  IF w.status[a] # "none"
        THEN IF w.status[a] # "normal" THEN "left"
             ELSE IF w.at[a] # SysGroup THEN verdict("user", MaxBeat, c.beat[a])
             ELSE verdict("system", MaxBeat, w.beat.system[a])
        ELSE IF c.status[a] = "none" THEN "stranger"
             ELSE IF c.status[a] # "valid" THEN "left"
             ELSE verdict("council", MaxBeat, c.beat[a])

(* One address of the list.  s is the state of the loop: the tables, the   *)
(* money, the addresses removed, whether few user witnesses remain, and    *)
(* whether the call is still without error.                                *)
RemoveOne(s, a) ==
    LET verdict == TimeoutVerdict(s.wit, s.council, a)
        w == WitnessExit(s.wit, a, "out")
        out == [s EXCEPT !.wit = w, !.removed = @ \cup {a},
                         !.held[a] = @ - WitnessKeeps(s.wit.margin[a]),
                         !.lost[a] = @ + s.wit.margin[a]
                                       - WitnessKeeps(s.wit.margin[a])]
        m == s.council.margin[a]
    IN  IF ~s.ok \/ verdict = "left" THEN s
        ELSE CASE verdict \in {"timely", "stranger"} -> [s EXCEPT !.ok = FALSE]
               [] verdict = "system" -> out
               [] verdict = "user" ->
                    IF s.few THEN s ELSE [out EXCEPT !.few = ActiveUsers(w) <= UCMin]
               [] verdict = "council" ->
                    IF ~CanRemoveCouncil(s.council, a) THEN [s EXCEPT !.ok = FALSE]
                    ELSE [s EXCEPT !.council = RemoveCouncil(@, a),
                                   !.removed = @ \cup {a},
                                   !.held[a] = @ - CouncilKeeps(m),
                                   !.lost[a] = @ + m - CouncilKeeps(m)]

RemoveTimeout(addresses) ==
    LET s == FoldLeft(RemoveOne,
                [wit |-> wit, council |-> council, held |-> held, lost |-> lost,
                 removed |-> {}, few |-> FALSE, ok |-> TRUE],
                addresses)
    IN  /\ Calls("RemoveInvalid")
        /\ addresses # <<>>
        /\ s.ok /\ s.removed # {}
        /\ wit' = s.wit /\ council' = s.council
        /\ held' = s.held /\ lost' = s.lost
        /\ UNCHANGED <<number, load>>

(* AllSystemWitnessReplace: every main system witness becomes second. *)
AllSystemWitnessReplace ==
    /\ Calls("AllSystemWitnessReplace")
    /\ wit' = FoldLeft(DemoteWitness, wit, MainWitnesses(wit))
    /\ UNCHANGED <<number, council, held, lost, load>>

(***************************************************************************)
(* The genesis block (setup.go)                                            *)
(***************************************************************************)
NoWitness ==
    [status |-> [a \in Account |-> "none"], margin |-> [a \in Account |-> 0],
     groups |-> [g \in {SysGroup} |-> <<>>], at |-> [a \in Account |-> SysGroup],
     active |-> 0,
     beat |-> [system |-> [a \in Account |-> 0], user |-> [a \in Account |-> 0]]]

NoCouncil ==
    [list |-> <<>>, status |-> [a \in Account |-> "none"],
     margin |-> [a \in Account |-> 0], since |-> [a \in Account |-> 0],
     beat |-> [a \in Account |-> 0]]

GenesisWitnesses ==
    FoldLeft(LAMBDA w, a : ApplyWitness(w, 0, a, UserMargin, FALSE),
        FoldLeft(LAMBDA w, a : ApplyWitness(w, 0, a, SysMargin, TRUE),
                 NoWitness, SysWitnesses),
        UserWitnesses)

GenesisCouncil ==
    FoldLeft(LAMBDA c, a : AddCouncil(c, 0, a, CouncilMargin), NoCouncil, Councils)

MembersInit ==
    /\ load \in Loads
    /\ number = 1
    /\ wit = GenesisWitnesses
    /\ council = GenesisCouncil
    /\ held = [a \in Account |-> wit.margin[a] + council.margin[a]]
    /\ lost = [a \in Account |-> 0]
=============================================================================
