---------------------------- MODULE ContractProofs ----------------------------
(***************************************************************************)
(* Proofs about SystemContract: the settlement within the contract, the    *)
(* arbitration, the configuration and the roles of the members.            *)
(***************************************************************************)
EXTENDS SystemContract, MemberProofs, FiniteSetTheorems

-----------------------------------------------------------------------------
(* Loops over the tables of chains and proposals.                          *)

(* The body of the loop. *)
CallTurn(loop, x, y) ==
    CASE loop = "ReplaceExec" -> ReplaceExec(x, y)

(* As Runs, for these loops. *)
CallRuns(g, loop, b, s, n) ==
    g = [t \in SUBSET (1..n) |->
            IF t = {} THEN b ELSE CallTurn(loop, g[t \ {Max(t)}], s[Max(t)])]

(* A loop over a sequence runs to its end. *)
LEMMA CallLoopRuns ==
    ASSUME NEW loop, NEW b, NEW s, NEW n \in Nat
    PROVE  \E g : CallRuns(g, loop, b, s, n)
<1> DEFINE A == {k \in 0..n : \E g : CallRuns(g, loop, b, s, k)}
<1>1. 0 \in A
  <2> DEFINE g == [t \in SUBSET (1..0) |-> b]
  <2>1. \A t \in SUBSET (1..0) : t = {}
    OBVIOUS
  <2>2. CallRuns(g, loop, b, s, 0)
    BY Zenon, <2>1 DEF CallRuns
  <2> QED
    BY <2>2
<1>2. ASSUME NEW k \in 0..(n - 1), k \in A
      PROVE  k + 1 \in A
  <2>1. PICK g : CallRuns(g, loop, b, s, k)
    BY Zenon, <1>2
  <2> DEFINE T(x, y) == CallTurn(loop, x, y)
             h == [t \in SUBSET (1..(k + 1)) |->
                     IF t = {} THEN b ELSE T(g[t \ {Max(t)}], s[Max(t)])]
  <2>2. \A t \in SUBSET (1..k) : g[t] = IF t = {} THEN b ELSE T(g[t \ {Max(t)}], s[Max(t)])
    BY <2>1, Zenon DEF CallRuns
  <2> HIDE DEF T
  <2>3. ASSUME NEW t \in SUBSET (1..(k + 1)), t # {}
        PROVE  t \ {Max(t)} \in SUBSET (1..k)
    <3>1. PICK m \in t : m = Max(t) /\ \A y \in t : y <= m
      <4>1. k + 1 \in Nat
        OBVIOUS
      <4> QED
        BY <2>3, <4>1, MaxUpTo, Zenon
    <3>2. \A y \in t : y # m => y \in 1..k
      BY <3>1
    <3> QED
      BY Zenon, <3>1, <3>2
  <2>4. SUBSET (1..k) \subseteq SUBSET (1..(k + 1))
    OBVIOUS
  <2>5. \A t \in SUBSET (1..k) : h[t] = g[t]
    BY Zenon, <2>2, <2>4
  <2>6. h = [t \in SUBSET (1..(k + 1)) |->
                IF t = {} THEN b ELSE T(h[t \ {Max(t)}], s[Max(t)])]
    BY Zenon, <2>3, <2>5
  <2>7. CallRuns(h, loop, b, s, k + 1)
    BY <2>6, Zenon DEF CallRuns, T
  <2> QED
    BY <2>7
<1> QED
  BY Zenon, <1>1, <1>2, UpTo

(* Before the first turn. *)
LEMMA CallLoopStarts ==
    ASSUME NEW loop, NEW b, NEW s, NEW n \in Nat, NEW g, CallRuns(g, loop, b, s, n)
    PROVE  g[1..0] = b
<1>1. g[{}] = b
  BY Zenon DEF CallRuns
<1>2. 1..0 = {}
  OBVIOUS
<1> QED
  BY Zenon, <1>1, <1>2

CallTurns(g, loop, s, n) ==
    \A k \in 0..(n - 1) : g[1..(k + 1)] = CallTurn(loop, g[1..k], s[k + 1])

(* Turn by turn. *)
LEMMA CallLoopTurns ==
    ASSUME NEW loop, NEW b, NEW s, NEW n \in Nat, NEW g, CallRuns(g, loop, b, s, n)
    PROVE  CallTurns(g, loop, s, n)
<1> DEFINE T(x, y) == CallTurn(loop, x, y)
<1>1. \A t \in SUBSET (1..n) : g[t] = IF t = {} THEN b ELSE T(g[t \ {Max(t)}], s[Max(t)])
  BY Zenon DEF CallRuns
<1> HIDE DEF T
<1>2. ASSUME NEW k \in 0..(n - 1)
      PROVE  g[1..(k + 1)] = T(g[1..k], s[k + 1])
  <2>1. k + 1 \in Nat /\ k + 1 <= n /\ 1 \in 1..(k + 1)
    OBVIOUS
  <2>5. 1..(k + 1) \subseteq 1..n
    BY <2>1
  <2>2. Max(1..(k + 1)) \in 1..(k + 1) /\ \A y \in 1..(k + 1) : y <= Max(1..(k + 1))
    BY Zenon, <2>1, MaxUpTo
  <2>3. Max(1..(k + 1)) = k + 1
    BY <2>2
  <2>4. (1..(k + 1)) \ {k + 1} = 1..k
    OBVIOUS
  <2> QED
    BY Zenon, <1>1, <2>1, <2>3, <2>4, <2>5
<1> QED
  BY Zenon, <1>2 DEF T, CallTurns

(* The loop of ReplaceWitnessExecute over its items. *)
LEMMA LoopReplaceExec ==
    ASSUME NEW b, NEW s, NEW n \in Nat, DOMAIN s = 1..n
    PROVE  \E g : CallRuns(g, "ReplaceExec", b, s, n) /\ FoldLeft(ReplaceExec, b, s) = g[1..n]
<1> DEFINE R(g) == g = [t \in SUBSET DOMAIN s |->
                        IF t = {} THEN b ELSE ReplaceExec(g[t \ {Max(t)}], s[Max(t)])]
<1>1. FoldLeft(ReplaceExec, b, s) = (CHOOSE g : R(g))[DOMAIN s]
  BY Zenon DEF FoldLeft, MapThenFoldSet
<1>2. \A g : R(g) <=> CallRuns(g, "ReplaceExec", b, s, n)
  BY Zenon DEF CallRuns, CallTurn
<1>3. R(CHOOSE g : R(g))
  BY Zenon, <1>2, CallLoopRuns
<1> QED
  BY Zenon, <1>1, <1>2, <1>3

-----------------------------------------------------------------------------
(* The settlement.                                                         *)

(* A call of the contract stays in the system unit it is in, or opens the  *)
(* next one.                                                               *)
LEMMA NumberGrows ==
    ASSUME ContractNext, SettleTypes
    PROVE  /\ load' = load
           /\ number' \in Nat \ {0} /\ number <= number' /\ number' <= load.height
<1> DEFINE Grows == /\ load' = load
                    /\ number' = number \/ (number < load.height /\ number' = number + 1)
<1>1. NewUnit => Grows
  BY Zenon DEF NewUnit
<1>2. \A a : CancelWitness(a) \/ CouncilExit(a) \/ SecondHeartbeat(a) \/ UserHeartbeat(a)
             \/ MemberHeartbeat(a) => Grows
  BY Zenon DEF CancelWitness, CouncilExit, SecondHeartbeat, UserHeartbeat, MemberHeartbeat
<1>3. \A a : MainHeartbeat(a) => Grows
  BY Zenon DEF MainHeartbeat
<1>4. \A as : RemoveTimeout(as) => Grows
  BY Zenon DEF RemoveTimeout
<1>5. AllSystemWitnessReplace => Grows
  BY Zenon DEF AllSystemWitnessReplace
<1>6. \A a, b : SetMemberJoinApply(a) \/ SetMemberRemoveApply(a, b) \/ SetConfigApply(a, b)
                \/ ProposalWitnessApply(a, b) => Grows
  BY Zenon DEF SetMemberJoinApply, SetMemberRemoveApply, SetConfigApply, ProposalWitnessApply,
         memberVars
<1>7. \A a, i, v, k : SetConfigApplyVote(a, i, v) \/ PublicVote(a, i, v)
                      \/ CampaignApply(a, i, v) \/ CampaignAddMargin(a, i, k, v) => Grows
  <2>1. \A a, i, v : SetConfigApplyVote(a, i, v) \/ PublicVote(a, i, v) => Grows
    BY Zenon DEF SetConfigApplyVote, PublicVote, memberVars
  <2>2. \A a, i, v : CampaignApply(a, i, v) => Grows
    BY Zenon DEF CampaignApply, memberVars
  <2>3. \A a, i, v, k : CampaignAddMargin(a, i, k, v) => Grows
    BY Zenon DEF CampaignAddMargin, memberVars
  <2> QED
    BY Zenon, <2>1, <2>2, <2>3
<1>8. \A i : FinalizeExpired(i) \/ FinalizeConfig(i) => Grows
  BY Zenon DEF FinalizeExpired, FinalizeConfig, memberVars
<1>9. \A i : FinalizeCouncilAdd(i) \/ FinalizeCouncilFire(i) => Grows
  BY Zenon DEF FinalizeCouncilAdd, FinalizeCouncilFire
<1>10. \A i : FinalizeSystemWitness(i) => Grows
  BY Zenon DEF FinalizeSystemWitness
<1>11. \A i : FinalizeUserWitness(i) => Grows
  BY Zenon DEF FinalizeUserWitness
<1>12. \A c, u : ChainApplyWitness(c) \/ CreateContract(u, c) \/ ReplaceWitness(c)
                 \/ ApplyWitnessWay2(c) => Grows
  BY Zenon DEF ChainApplyWitness, CreateContract, ReplaceWitness, ApplyWitnessWay2, NotSettled,
         memberVars
<1>13. \A b : ReplaceWitnessExecute(b) => Grows
  BY Zenon DEF ReplaceWitnessExecute, memberVars
<1>14. \A a, c, h, u : ReportChoice(a, c, h, u) => Grows
  BY Zenon DEF ReportChoice, memberVars
<1>15. \A a, c, h, u, bad : ReportProof(a, c, h, u, bad) \/ ReportUnchosen(a, c, h, bad)
                             => Grows
  <2>1. \A a, c, h, u, bad : ReportProof(a, c, h, u, bad) => Grows
    BY Zenon DEF ReportProof, PunishBad
  <2>2. \A a, c, h, bad : ReportUnchosen(a, c, h, bad) => Grows
    BY Zenon DEF ReportUnchosen, PunishBad
  <2> QED
    BY Zenon, <2>1, <2>2
<1>16. Grows
  <2> HIDE DEF Grows
  <2> QED
    BY Zenon, <1>1, <1>2, <1>3, <1>4, <1>5, <1>6, <1>7, <1>8, <1>9, <1>10, <1>11, <1>12, <1>13,
       <1>14, <1>15 DEF ContractNext, SetConfigFinalize
<1>17. number \in Nat \ {0} /\ number <= load.height /\ load.height \in Nat
  BY Zenon, MemberConstants DEF SettleTypes
<1> QED
  BY <1>16, <1>17

(* The invariant of the settlement is inductive. *)
LEMMA SettleNext ==
    ASSUME SettleInv, [Next]_vars
    PROVE  SettleInv'
<1>1. CASE UNCHANGED vars
  <2>1. UNCHANGED settleVars /\ number' = number /\ load' = load
    BY Zenon, <1>1 DEF vars, memberVars
  <2>2. number \in Nat \ {0} /\ number <= load.height
    BY Zenon DEF SettleInv, StoreInv, SettleTypes
  <2>3. number <= number
    BY <2>2
  <2> QED
    BY Zenon, <2>1, <2>2, <2>3, SettleHeight
<1>2. CASE ContractNext /\ UNCHANGED settleVars
  <2>1. SettleTypes
    BY Zenon DEF SettleInv, StoreInv
  <2> QED
    BY Zenon, <1>2, <2>1, NumberGrows, SettleHeight
<1>3. CASE SettlementNext /\ UNCHANGED memberVars
  BY Zenon, <1>3, SettleStep
<1> QED
  BY Zenon, <1>1, <1>2, <1>3 DEF Next

(* The settlement and its payments keep their invariant in every           *)
(* behaviour of the contract and the node.                                 *)
THEOREM SettlementInvariance == Spec => []SettleInv
<1>1. Init => SettleInv
  BY Zenon, SettleInit DEF Init
<1> QED
  BY <1>1, SettleNext, PTL DEF Spec

(* writeRightUnit never leaves a header without its body, its receipts or  *)
(* its parent, wherever the node crashes.                                  *)
THEOREM UnitsAreWhole == Spec => []StoredWhole
<1>1. SettleInv => StoredWhole
  BY Zenon DEF SettleInv, StoreInv
<1> QED
  BY <1>1, SettlementInvariance, PTL

(* The settlement service loses no stored unit: one without its mark has   *)
(* been counted by writeWorkFee.                                           *)
THEOREM WorkIsKept == Spec => []WorkKept
<1>1. SettleInv => WorkKept
  BY Zenon DEF SettleInv, CountInv
<1> QED
  BY <1>1, SettlementInvariance, PTL

(* Only a unit whose event the daily pass overtakes can be counted twice.  *)
THEOREM UnitsCountedOnce == Spec => []CountedOnce
<1>1. SettleInv => CountedOnce
  BY Zenon DEF SettleInv, CountInv
<1> QED
  BY <1>1, SettlementInvariance, PTL

(* The contract pays no fee and no reward of a period twice.               *)
THEOREM PeriodsPaidOnce == Spec => []PaidOnce
<1>1. SettleInv => PaidOnce
  BY Zenon DEF SettleInv, PayInv
<1> QED
  BY <1>1, SettlementInvariance, PTL

-----------------------------------------------------------------------------
(* The tables of the chains.                                               *)

InfoFields == {"group", "status", "since", "applied", "from"}

(* The tables of the chains, as far as the calls rely on them. *)
Infos(f) == DOMAIN f = Chain /\ \A c \in Chain : DOMAIN f[c] = InfoFields

(* The tables after a chain got a group. *)
LEMMA GroupGiven ==
    ASSUME NEW s, Infos(s.chain), "chain" \in DOMAIN s, "chainsAt" \in DOMAIN s,
           NEW n, NEW c \in Chain, NEW old, NEW new, NEW from,
           NEW t, t = ApplyWitnessWithGroup(s, n, c, old, new, from)
    PROVE  /\ DOMAIN t = DOMAIN s /\ Infos(t.chain) /\ t.chain[c].group = new
           /\ \A d \in Chain \ {c} : t.chain[d] = s.chain[d]
           /\ \A f \in DOMAIN s \ {"chain", "chainsAt"} : t[f] = s[f]
<1> DEFINE left == IF old # NoGroup /\ c \in ToSet(s.chainsAt[old])
                   THEN [s.chainsAt EXCEPT ![old] = StateSetRemove(@, IndexOf(@, c))]
                   ELSE s.chainsAt
           at == [left EXCEPT ![new] = Append(@, c)]
           info == [group |-> new, status |-> "Normal", since |-> n, applied |-> n,
                    from |-> from]
<1>1. t = [s EXCEPT !.chainsAt = at, !.chain[c] = info]
  BY Zenon DEF ApplyWitnessWithGroup
<1>2. DOMAIN info = InfoFields /\ info.group = new
  BY Zenon DEF InfoFields
<1> HIDE DEF at, info
<1> QED
  BY ZenonT(40), <1>1, <1>2 DEF Infos

(* The tables after a chain's status was written. *)
LEMMA StatusWritten ==
    ASSUME NEW s, Infos(s.chain), "chain" \in DOMAIN s, NEW c \in Chain, NEW status,
           NEW t, t = WriteChainStatus(s, c, status)
    PROVE  /\ DOMAIN t = DOMAIN s /\ Infos(t.chain)
           /\ \A d \in Chain : t.chain[d].group = s.chain[d].group
           /\ \A f \in DOMAIN s \ {"chain"} : t[f] = s[f]
  BY Zenon DEF WriteChainStatus, Infos, InfoFields

(* The same of the tables that ReplaceWitnessExecute works on. *)
LEMMA GroupMoved ==
    ASSUME NEW s, Infos(s.chain), DOMAIN s = {"chain", "chainsAt", "special", "ok"},
           NEW c \in Chain, NEW n, NEW old, NEW new, NEW from,
           NEW t, t = ApplyWitnessWithGroup(s, n, c, old, new, from)
    PROVE  /\ DOMAIN t = DOMAIN s /\ Infos(t.chain) /\ t.special = s.special
           /\ \A d \in Chain \ {c} : t.chain[d].group = s.chain[d].group
<1>1. "chain" \in DOMAIN s /\ "chainsAt" \in DOMAIN s
  BY Zenon
<1>2. "special" \in DOMAIN s \ {"chain", "chainsAt"}
  BY Zenon
<1>3. DOMAIN t = DOMAIN s /\ Infos(t.chain)
  BY <1>1, GroupGiven
<1>4. t.special = s.special
  BY <1>1, <1>2, GroupGiven
<1>5. \A d \in Chain \ {c} : t.chain[d] = s.chain[d]
  BY <1>1, GroupGiven
<1> QED
  BY Zenon, <1>3, <1>4, <1>5

(* What ReplaceWitnessExecute has done after some of its items. *)
Executed(s) ==
    /\ DOMAIN s = {"chain", "chainsAt", "special", "ok"}
    /\ Infos(s.chain)
    /\ s.special \in [Place -> Unit \cup {NoUnit}]
    /\ \A c \in Chain : InArbitration(c) => s.chain[c].group = chain[c].group
    /\ \A at \in Place : special[at] # NoUnit => s.special[at] = special[at]

(* One item of it. *)
LEMMA ExecutedOne ==
    ASSUME NEW s, Executed(s), NEW item, item.chain \in Chain,
           item.height \in 0..MaxHeight, item.unit \in Unit,
           item.height > 0 => item.of \in Chain
    PROVE  Executed(ReplaceExec(s, item))
<1> DEFINE c == item.chain
           i == s.chain[c]
           at == <<item.of, item.height>>
           new == NewGroupFor(s.chainsAt, i.group)
           moved == IF new = NoGroup THEN WriteChainStatus(s, c, "Normal")
                    ELSE ApplyWitnessWithGroup(s, number, c, i.group, new, item.height + 1)
           sp == IF item.height > 0 THEN [moved.special EXCEPT ![at] = item.unit]
                 ELSE moved.special
           ended == [moved EXCEPT !.special = sp]
<1>1. \/ /\ ReplaceExec(s, item) = ended
         /\ item.height > 0 => s.special[at] \in {NoUnit, item.unit}
         /\ ~InArbitration(c)
      \/ ReplaceExec(s, item) = [s EXCEPT !.ok = FALSE]
  BY Zenon DEF ReplaceExec
<1>2. Executed([s EXCEPT !.ok = FALSE])
  BY Zenon DEF Executed
<1>3. ASSUME ~InArbitration(c), item.height > 0 => s.special[at] \in {NoUnit, item.unit}
      PROVE  Executed(ended)
  <2>1. /\ DOMAIN moved = DOMAIN s /\ Infos(moved.chain) /\ moved.special = s.special
        /\ \A d \in Chain \ {c} : moved.chain[d].group = s.chain[d].group
    <3>1. CASE new = NoGroup
      BY <3>1, StatusWritten DEF Executed
    <3>2. CASE new # NoGroup
      <4>1. PICK n, old, gr, from : moved = ApplyWitnessWithGroup(s, n, c, old, gr, from)
        BY Zenon, <3>2
      <4>2. /\ Infos(s.chain) /\ c \in Chain
            /\ DOMAIN s = {"chain", "chainsAt", "special", "ok"}
        BY Zenon DEF Executed
      <4> HIDE DEF i, at, new, moved, sp, ended, c
      <4> QED
        BY <4>1, <4>2, GroupMoved
    <3> QED
      BY Zenon, <3>1, <3>2
  <2> HIDE DEF moved
  <2>2. item.height > 0 => at \in Place
    <3>1. MaxHeight \in Nat
      BY Zenon, ChainConstants
    <3> QED
      BY <3>1 DEF Place
  <2>3. /\ sp \in [Place -> Unit \cup {NoUnit}]
        /\ \A p \in Place : special[p] # NoUnit => sp[p] = special[p]
    <3>1. CASE item.height > 0
      <4>1. at \in Place /\ s.special[at] \in {NoUnit, item.unit}
        BY Zenon, <1>3, <2>2, <3>1
      <4>2. sp = [s.special EXCEPT ![at] = item.unit]
        BY Zenon, <2>1, <3>1
      <4> HIDE DEF at, sp
      <4> QED
        BY Zenon, <4>1, <4>2 DEF Executed
    <3>2. CASE ~(item.height > 0)
      <4>1. sp = s.special
        BY Zenon, <2>1, <3>2
      <4> QED
        BY Zenon, <4>1 DEF Executed
    <3> QED
      BY Zenon, <3>1, <3>2
  <2> HIDE DEF sp
  <2>4. /\ DOMAIN ended = DOMAIN s /\ ended.chain = moved.chain /\ ended.special = sp
    BY Zenon, <2>1 DEF Executed
  <2> HIDE DEF ended, c
  <2> QED
    BY Zenon, <1>3, <2>1, <2>3, <2>4 DEF Executed, c
<1> HIDE DEF ended
<1> QED
  BY Zenon, <1>1, <1>2, <1>3

(* A finite set as a sequence. *)
LEMMA SetInSequence ==
    ASSUME NEW S, IsFiniteSet(S)
    PROVE  /\ Cardinality(S) \in Nat
           /\ SetToSeq(S) \in [1..Cardinality(S) -> S]
           /\ IsInjective(SetToSeq(S))
<1>1. Cardinality(S) \in Nat /\ \E f \in [1..Cardinality(S) -> S] : IsInjective(f)
  BY Zenon, FS_CardinalityType DEF ExistsBijection, Bijection, Injection
<1> QED
  BY Zenon, <1>1 DEF SetToSeq

(* The chains of the genesis block. *)
LEMMA GenesisInfos == Infos(GenesisTables.chain)
  BY Zenon DEF GenesisTables, Infos, NoInfo, InfoFields

-----------------------------------------------------------------------------
(* Chains and their arbitration.                                           *)

ChainTypes ==
    /\ Infos(chain)
    /\ special \in [Place -> Unit \cup {NoUnit}]
    /\ pending \in [Chain -> SUBSET (1..MaxHeight)]
    /\ DOMAIN ballot = Place
    /\ result \in [Place -> Unit \cup {NoUnit}]

(* A chain in arbitration has a group. *)
ArbitratedHasGroup == \A c \in Chain : InArbitration(c) => chain[c].group # NoGroup

ArbitrationInv == ChainTypes /\ ArbitratedHasGroup /\ ArbitrationOpen

(* A vote on a height leaves the other heights alone and ends with its     *)
(* result.                                                                 *)
LEMMA VoteKept ==
    ASSUME ArbitrationInv, NEW a, NEW at \in Place, NEW u \in Unit, NEW hs \in SUBSET (1..MaxHeight),
           hs \in {pending[at[1]], pending[at[1]] \cup {at[2]}},
           ArbitrationVote(a, at[1], at[2], u, hs), reopened' = reopened
    PROVE  /\ pending' \in [Chain -> SUBSET (1..MaxHeight)]
           /\ DOMAIN ballot' = Place
           /\ result' \in [Place -> Unit \cup {NoUnit}]
           /\ ArbitrationOpen'
           /\ \A c \in Chain \ {at[1]} : pending'[c] = pending[c]
           /\ \A p \in Place : result[p] # NoUnit => result'[p] = result[p]
<1> DEFINE votes == WithVote(ballot[at], a, u)
           decided == Cardinality({b \in DOMAIN votes : votes[b] = u}) >= UCMin
<1>1. PICK c \in Chain, h \in 1..MaxHeight : at = <<c, h>>
  BY DEF Place
<1>2. /\ result[at] = NoUnit
      /\ ballot' = [ballot EXCEPT ![at] = votes]
      /\ pending' = [pending EXCEPT ![c] = IF decided THEN hs \ {h} ELSE hs]
      /\ result' = IF decided THEN [result EXCEPT ![at] = u] ELSE result
  BY Zenon, <1>1 DEF ArbitrationVote
<1> HIDE DEF votes
<1>3. /\ pending' \in [Chain -> SUBSET (1..MaxHeight)] /\ DOMAIN ballot' = Place
      /\ result' \in [Place -> Unit \cup {NoUnit}]
  BY Zenon, <1>1, <1>2 DEF ArbitrationInv, ChainTypes
<1>4. /\ ballot'[at] = votes /\ \A p \in Place \ {at} : ballot'[p] = ballot[p]
      /\ \A p \in Place \ {at} : result'[p] = result[p]
      /\ \A d \in Chain \ {c} : pending'[d] = pending[d]
  BY Zenon, <1>1, <1>2 DEF ArbitrationInv, ChainTypes
<1>5. /\ decided => result'[at] = u /\ h \notin pending'[c]
      /\ ~decided => result'[at] = NoUnit
  BY Zenon, <1>1, <1>2 DEF ArbitrationInv, ChainTypes
<1>6. pending'[c] \subseteq pending[c] \cup {h} /\ pending[c] \subseteq pending'[c] \cup {h}
  BY Zenon, <1>1, <1>2 DEF ArbitrationInv, ChainTypes
<1>7. ASSUME NEW p \in Place
      PROVE  /\ p[2] \in pending'[p[1]] /\ result'[p] # NoUnit <=> p \in reopened'
             /\ result'[p] # NoUnit =>
                Cardinality({b \in DOMAIN ballot'[p] : ballot'[p][b] = result'[p]}) >= UCMin
  <2>1. CASE p = at
    <3>1. at \notin reopened'
      BY Zenon, <1>2 DEF ArbitrationInv, ArbitrationOpen
    <3> QED
      BY ZenonT(40), <1>1, <1>4, <1>5, <2>1, <3>1
  <2>2. CASE p # at
    <3>1. ballot'[p] = ballot[p] /\ result'[p] = result[p]
      BY Zenon, <1>4, <2>2
    <3>2. p[2] \in pending'[p[1]] <=> p[2] \in pending[p[1]]
      <4>1. PICK d \in Chain, k \in 1..MaxHeight : p = <<d, k>>
        BY DEF Place
      <4> QED
        BY Zenon, <1>1, <1>4, <1>6, <2>2, <4>1
    <3> QED
      BY Zenon, <3>1, <3>2 DEF ArbitrationInv, ArbitrationOpen
  <2> QED
    BY Zenon, <2>1, <2>2
<1> QED
  BY Zenon, <1>1, <1>2, <1>3, <1>4, <1>7 DEF ArbitrationOpen

(* All of its items. *)
LEMMA ExecutedAll ==
    ASSUME ChainTypes, NEW items \in Batches
    PROVE  Executed(FoldLeft(ReplaceExec,
                [chain |-> chain, chainsAt |-> chainsAt, special |-> special, ok |-> TRUE],
                items))
<1> DEFINE b == [chain |-> chain, chainsAt |-> chainsAt, special |-> special, ok |-> TRUE]
<1>1. PICK n \in {1, 2} : /\ DOMAIN items = 1..n
                          /\ \A k \in 1..n : items[k] \in Executions
  <2>1. CASE items \in {<<e>> : e \in Executions}
    <3>1. PICK e \in Executions : items = <<e>>
      BY Zenon, <2>1
    <3> QED
      BY <3>1
  <2>2. CASE items \notin {<<e>> : e \in Executions}
    <3>1. PICK e \in Executions, f \in Executions : items = <<e, f>>
      BY <2>2 DEF Batches
    <3> QED
      BY <3>1
  <2> QED
    BY Zenon, <2>1, <2>2
<1>2. n \in Nat
  OBVIOUS
<1>5. Executed(b)
  BY Zenon DEF Executed, ChainTypes
<1> HIDE DEF b
<1>3. PICK g : /\ CallRuns(g, "ReplaceExec", b, items, n)
               /\ FoldLeft(ReplaceExec, b, items) = g[1..n]
  BY <1>1, <1>2, LoopReplaceExec
<1>9. PICK loop, m, l, x : /\ loop = "ReplaceExec" /\ m = n /\ l = items /\ x = b
                          /\ m \in Nat
  BY Zenon, <1>2
<1>10. CallRuns(g, loop, x, l, m)
  BY Zenon, <1>3, <1>9
<1>11. g[1..0] = x
  BY Zenon, <1>9, <1>10, CallLoopStarts
<1>14. m \in Nat
  BY Zenon, <1>9
<1>13. CallTurns(g, loop, l, m)
  BY Zenon, <1>10, <1>14, CallLoopTurns
<1>4. \A k \in 0..(n - 1) : g[1..(k + 1)] = CallTurn(loop, g[1..k], items[k + 1])
  BY Zenon, <1>9, <1>13 DEF CallTurns
<1>12. Executed(g[1..0])
  BY Zenon, <1>5, <1>9, <1>11
<1> DEFINE A == {k \in 0..n : Executed(g[1..k])}
<1>6. 0 \in A
  BY <1>2, <1>12
<1>7. ASSUME NEW k \in 0..(n - 1), k \in A
      PROVE  k + 1 \in A
  <2>1. g[1..(k + 1)] = ReplaceExec(g[1..k], items[k + 1])
    BY Zenon, <1>4, <1>9 DEF CallTurn
  <2>2. k + 1 \in 1..n /\ k + 1 \in 0..n
    OBVIOUS
  <2>3. PICK item \in Executions : item = items[k + 1]
    BY Zenon, <1>1, <2>2
  <2>4. /\ item.chain \in Chain /\ item.height \in 0..MaxHeight /\ item.unit \in Unit
        /\ item.height > 0 => item.of \in Chain
    <3>1. PICK c \in {d \in Chain : chain[d].status = "Underway"},
               since \in {chain[d].since : d \in Chain}, h \in 0..MaxHeight, u \in Unit :
            item = [chain |-> c, since |-> since, of |-> IF h = 0 THEN SCAccount ELSE c,
                    height |-> h, unit |-> u, signs |-> MainWitnesses(wit),
                    seal |-> SubSeq(UserWitnesses, 1, UCMin)]
      BY DEF Executions
    <3>2. item.chain = c /\ item.height = h /\ item.unit = u
      BY Zenon, <3>1
    <3>3. item.of = IF h = 0 THEN SCAccount ELSE c
      BY Zenon, <3>1
    <3>4. h > 0 => h # 0
      OBVIOUS
    <3> QED
      BY Zenon, <3>2, <3>3, <3>4
  <2>5. Executed(ReplaceExec(g[1..k], item))
    BY Zenon, <1>7, <2>4, ExecutedOne
  <2> QED
    BY Zenon, <2>1, <2>2, <2>3, <2>5
<1>8. n \in A
  BY Zenon, <1>2, <1>6, <1>7, UpTo
<1> QED
  BY Zenon, <1>3, <1>8 DEF b

(* What a step may never do: it changes no unit that was settled, and no   *)
(* group of a chain in arbitration.                                        *)
ArbitrationStep ==
    /\ \A at \in Place : /\ special[at] # NoUnit => special'[at] = special[at]
                         /\ result[at] # NoUnit => result'[at] = result[at]
    /\ \A c \in Chain : InArbitration(c) => chain'[c].group = chain[c].group

(* A step that writes the group and the status of chains only. *)
LEMMA TablesStored ==
    ASSUME ArbitrationInv, UNCHANGED <<special, pending, ballot, result, reopened>>,
           Infos(chain'),
           \A c \in Chain : InArbitration(c) => chain'[c].group = chain[c].group
    PROVE  ArbitrationInv' /\ ArbitrationStep
<1>1. ChainTypes' /\ ArbitrationOpen'
  BY Zenon DEF ArbitrationInv, ChainTypes, ArbitrationOpen
<1>2. ArbitratedHasGroup'
  BY Zenon DEF ArbitrationInv, ArbitratedHasGroup, InArbitration
<1> QED
  BY Zenon, <1>1, <1>2 DEF ArbitrationInv, ArbitrationStep

(* The tables of a call that gives a group to a chain. *)
LEMMA GroupWritten ==
    ASSUME Infos(chain), NEW c \in Chain, NEW n, NEW old, NEW new, NEW from,
           StoreTables(ApplyWitnessWithGroup(ChainTables, n, c, old, new, from))
    PROVE  Infos(chain') /\ \A d \in Chain \ {c} : chain'[d] = chain[d]
<1>1. PICK s, t : /\ s = ChainTables /\ t = ApplyWitnessWithGroup(s, n, c, old, new, from)
                  /\ chain' = t.chain
  BY Zenon DEF StoreTables
<1>2. s.chain = chain /\ "chain" \in DOMAIN s /\ "chainsAt" \in DOMAIN s
  BY Zenon, <1>1 DEF ChainTables
<1>3. Infos(t.chain)
  BY Zenon, <1>1, <1>2, GroupGiven
<1>4. \A d \in Chain \ {c} : t.chain[d] = s.chain[d]
  BY <1>1, <1>2, GroupGiven
<1> QED
  BY Zenon, <1>1, <1>2, <1>3, <1>4

(* A chain without a group gets one: it is not in arbitration. *)
LEMMA GroupStored ==
    ASSUME ArbitrationInv, NEW c \in Chain, ~InArbitration(c), NEW new,
           StoreTables(ApplyWitnessWithGroup(ChainTables, number, c, NoGroup, new, 1)),
           UNCHANGED <<special, pending, ballot, result, reopened>>
    PROVE  ArbitrationInv' /\ ArbitrationStep
<1>1. Infos(chain)
  BY Zenon DEF ArbitrationInv, ChainTypes
<1>2. Infos(chain') /\ \A d \in Chain \ {c} : chain'[d] = chain[d]
  BY Zenon, <1>1, GroupWritten
<1> QED
  BY Zenon, <1>2, TablesStored

(* A request only marks the chain. *)
LEMMA RequestStored ==
    ASSUME ArbitrationInv, NEW c \in Chain, NEW status,
           StoreTables(WriteChainStatus(ChainTables, c, status)),
           UNCHANGED <<special, pending, ballot, result, reopened>>
    PROVE  ArbitrationInv' /\ ArbitrationStep
<1>1. PICK s, t : /\ s = ChainTables /\ t = WriteChainStatus(s, c, status)
                  /\ chain' = t.chain
  BY Zenon DEF StoreTables
<1>2. s.chain = chain /\ "chain" \in DOMAIN s
  BY Zenon, <1>1 DEF ChainTables
<1>3. Infos(s.chain)
  BY Zenon, <1>2 DEF ArbitrationInv, ChainTypes
<1>4. Infos(t.chain) /\ \A d \in Chain : t.chain[d].group = s.chain[d].group
  BY <1>1, <1>2, <1>3, StatusWritten
<1> QED
  BY Zenon, <1>1, <1>2, <1>4, TablesStored

(* The execution of a batch. *)
LEMMA BatchStored ==
    ASSUME ArbitrationInv, NEW items \in Batches, ReplaceWitnessExecute(items)
    PROVE  ArbitrationInv' /\ ArbitrationStep
<1>1. PICK s : /\ s = FoldLeft(ReplaceExec,
                        [chain |-> chain, chainsAt |-> chainsAt, special |-> special,
                         ok |-> TRUE], items)
               /\ chain' = s.chain /\ special' = s.special
               /\ UNCHANGED <<pending, ballot, result, reopened>>
  BY Zenon DEF ReplaceWitnessExecute, StoreTables
<1>2. Executed(s)
  BY Zenon, <1>1, ExecutedAll DEF ArbitrationInv
<1>3. ArbitrationStep
  BY Zenon, <1>1, <1>2 DEF Executed, ArbitrationStep
<1>4. ChainTypes' /\ ArbitrationOpen'
  BY Zenon, <1>1, <1>2 DEF ArbitrationInv, ChainTypes, ArbitrationOpen, Executed
<1>5. ArbitratedHasGroup'
  BY Zenon, <1>1, <1>2 DEF ArbitrationInv, ArbitratedHasGroup, InArbitration, Executed
<1> QED
  BY Zenon, <1>3, <1>4, <1>5 DEF ArbitrationInv

(* A report, with or without a proof. *)
LEMMA ReportStored ==
    ASSUME ArbitrationInv, NEW a, NEW at \in Disputable, NEW u \in Unit,
           NEW hs, hs \in {pending[at[1]], pending[at[1]] \cup {at[2]}},
           ArbitrationVote(a, at[1], at[2], u, hs),
           UNCHANGED <<chain, special, reopened>>
    PROVE  ArbitrationInv' /\ ArbitrationStep
<1>1. at \in Place /\ at[1] \in Chain /\ at[2] \in 1..MaxHeight /\ chain[at[1]].group # NoGroup
  BY Zenon DEF Disputable, Place
<1>2. hs \in SUBSET (1..MaxHeight)
  BY <1>1 DEF ArbitrationInv, ChainTypes
<1>3. /\ pending' \in [Chain -> SUBSET (1..MaxHeight)] /\ DOMAIN ballot' = Place
      /\ result' \in [Place -> Unit \cup {NoUnit}] /\ ArbitrationOpen'
      /\ \A c \in Chain \ {at[1]} : pending'[c] = pending[c]
      /\ \A p \in Place : result[p] # NoUnit => result'[p] = result[p]
  BY Zenon, <1>1, <1>2, VoteKept
<1>4. ChainTypes'
  BY Zenon, <1>3 DEF ArbitrationInv, ChainTypes
<1>5. ArbitratedHasGroup'
  BY Zenon, <1>1, <1>3 DEF ArbitrationInv, ArbitratedHasGroup, InArbitration
<1> QED
  BY Zenon, <1>3, <1>4, <1>5 DEF ArbitrationInv, ArbitrationStep

(* A proof without a choice: the height is marked, and stays marked if it  *)
(* has a result already.                                                   *)
LEMMA MarkStored ==
    ASSUME ArbitrationInv, NEW a, NEW at \in Disputable, NEW bad,
           ReportUnchosen(a, at[1], at[2], bad)
    PROVE  ArbitrationInv' /\ ArbitrationStep
<1>1. PICK c \in Chain, h \in 1..MaxHeight : at = <<c, h>> /\ chain[c].group # NoGroup
  BY DEF Disputable, Place
<1>2. /\ pending' = [pending EXCEPT ![c] = @ \cup {h}]
      /\ reopened' = IF result[at] = NoUnit THEN reopened ELSE reopened \cup {at}
      /\ UNCHANGED <<chain, special, ballot, result>>
  BY Zenon, <1>1 DEF ReportUnchosen, PunishBad
<1>3. /\ pending' \in [Chain -> SUBSET (1..MaxHeight)]
      /\ pending'[c] = pending[c] \cup {h}
      /\ \A d \in Chain \ {c} : pending'[d] = pending[d]
  BY Zenon, <1>1, <1>2 DEF ArbitrationInv, ChainTypes
<1>4. ChainTypes'
  BY Zenon, <1>2, <1>3 DEF ArbitrationInv, ChainTypes
<1>5. ArbitratedHasGroup'
  BY Zenon, <1>1, <1>2, <1>3 DEF ArbitrationInv, ArbitratedHasGroup, InArbitration
<1>6. ASSUME NEW p \in Place
      PROVE  /\ p[2] \in pending'[p[1]] /\ result[p] # NoUnit <=> p \in reopened'
             /\ result[p] # NoUnit =>
                Cardinality({b \in DOMAIN ballot[p] : ballot[p][b] = result[p]}) >= UCMin
  <2>1. CASE p = at
    <3>1. p[1] = c /\ p[2] = h
      BY Zenon, <1>1, <2>1
    <3> QED
      BY Zenon, <1>2, <1>3, <2>1, <3>1 DEF ArbitrationInv, ArbitrationOpen
  <2>2. CASE p # at
    <3>1. PICK d \in Chain, k \in 1..MaxHeight : p = <<d, k>>
      BY DEF Place
    <3>2. k \in pending'[d] <=> k \in pending[d]
      BY Zenon, <1>1, <1>3, <2>2, <3>1
    <3>3. p \in reopened' <=> p \in reopened
      BY Zenon, <1>2, <2>2
    <3>4. p[1] = d /\ p[2] = k
      BY Zenon, <3>1
    <3> QED
      BY Zenon, <3>2, <3>3, <3>4 DEF ArbitrationInv, ArbitrationOpen
  <2> QED
    BY Zenon, <2>1, <2>2
<1>7. ArbitrationOpen'
  BY Zenon, <1>2, <1>6 DEF ArbitrationOpen
<1>8. ArbitrationStep
  BY Zenon, <1>2 DEF ArbitrationStep
<1> QED
  BY Zenon, <1>4, <1>5, <1>7, <1>8 DEF ArbitrationInv

(* Every step. *)
LEMMA ArbitrationNext ==
    ASSUME ArbitrationInv, [Next]_vars
    PROVE  ArbitrationInv' /\ ArbitrationStep
<1>1. CASE UNCHANGED chainVars
  <2>1. Infos(chain')
    BY Zenon, <1>1 DEF ArbitrationInv, ChainTypes, chainVars
  <2> QED
    BY Zenon, <1>1, <2>1, TablesStored DEF chainVars
<1>2. ASSUME NEW c \in Chain, ChainApplyWitness(c)
      PROVE  ArbitrationInv' /\ ArbitrationStep
  BY Zenon, <1>2, GroupStored DEF ChainApplyWitness, NotSettled
<1>3. ASSUME NEW u \in User, NEW c \in Contracts, CreateContract(u, c)
      PROVE  ArbitrationInv' /\ ArbitrationStep
  <2>1. c \in Chain /\ ~InArbitration(c)
    BY Zenon, <1>3 DEF Chain, CreateContract, ArbitrationInv, ArbitratedHasGroup
  <2> QED
    BY Zenon, <1>3, <2>1, GroupStored DEF CreateContract, NotSettled
<1>4. ASSUME NEW c \in Chain, ReplaceWitness(c)
      PROVE  ArbitrationInv' /\ ArbitrationStep
  BY Zenon, <1>4, RequestStored DEF ReplaceWitness, NotSettled
<1>5. ASSUME NEW c \in Chain, ApplyWitnessWay2(c)
      PROVE  ArbitrationInv' /\ ArbitrationStep
  BY Zenon, <1>5, GroupStored, RequestStored DEF ApplyWitnessWay2, NotSettled
<1>6. ASSUME NEW items \in Batches, ReplaceWitnessExecute(items)
      PROVE  ArbitrationInv' /\ ArbitrationStep
  BY Zenon, <1>6, BatchStored
<1>7. ASSUME NEW a, NEW at \in Disputable, NEW u \in Unit, ReportChoice(a, at[1], at[2], u)
      PROVE  ArbitrationInv' /\ ArbitrationStep
  BY Zenon, <1>7, ReportStored DEF ReportChoice
<1>8. ASSUME NEW a, NEW at \in Disputable, NEW u \in Unit, NEW bad,
             ReportProof(a, at[1], at[2], u, bad)
      PROVE  ArbitrationInv' /\ ArbitrationStep
  <2>1. /\ ArbitrationVote(a, at[1], at[2], u, pending[at[1]] \cup {at[2]})
        /\ UNCHANGED <<chain, special, reopened>>
    BY Zenon, <1>8 DEF ReportProof, PunishBad
  <2> QED
    BY Zenon, <2>1, ReportStored
<1>10. ASSUME NEW a, NEW at \in Disputable, NEW bad, ReportUnchosen(a, at[1], at[2], bad)
       PROVE  ArbitrationInv' /\ ArbitrationStep
  BY Zenon, <1>10, MarkStored
<1>9. \/ UNCHANGED chainVars
      \/ \E c \in Chain : ChainApplyWitness(c)
      \/ \E u \in User, c \in Contracts : CreateContract(u, c)
      \/ \E c \in Chain : ReplaceWitness(c)
      \/ \E c \in Chain : ApplyWitnessWay2(c)
      \/ \E items \in Batches : ReplaceWitnessExecute(items)
      \/ \E a, u, at : at \in Disputable /\ u \in Unit /\ ReportChoice(a, at[1], at[2], u)
      \/ \E a, u, bad, at : /\ at \in Disputable /\ u \in Unit
                            /\ ReportProof(a, at[1], at[2], u, bad)
      \/ \E a, bad, at : at \in Disputable /\ ReportUnchosen(a, at[1], at[2], bad)
  <2>1. CASE UNCHANGED vars
    BY Zenon, <2>1 DEF vars
  <2>2. CASE Next
    BY Zenon, <2>2 DEF Next, ContractNext, Apart, NoChains, chainVars
  <2> QED
    BY Zenon, <2>1, <2>2
<1> HIDE DEF ArbitrationInv, ArbitrationStep
<1> QED
  BY Zenon, <1>1, <1>2, <1>3, <1>4, <1>5, <1>6, <1>7, <1>8, <1>9, <1>10

(* The first state: no chain is in arbitration. *)
LEMMA ArbitrationInit == Init => ArbitrationInv
<1> SUFFICES ASSUME Init PROVE ArbitrationInv
  BY Zenon
<1>1. ChainTypes
  BY Zenon, GenesisInfos DEF Init, ChainsInit, ChainTypes
<1>2. \A c \in Chain : ~InArbitration(c)
  BY Zenon DEF Init, ChainsInit, InArbitration
<1>3. ArbitrationOpen
  BY Zenon DEF Init, ChainsInit, ArbitrationOpen, Place
<1> QED
  BY Zenon, <1>1, <1>2, <1>3 DEF ArbitrationInv, ArbitratedHasGroup

(* The arbitration keeps its invariant in every behaviour. *)
THEOREM ArbitrationInvariance == Spec => []ArbitrationInv
  BY ArbitrationInit, ArbitrationNext, PTL DEF Spec

(* arbitrationVote ends an arbitration with the votes of enough system     *)
(* witnesses; a height is marked and decided at once exactly when a proof  *)
(* without a choice (systemReportDishonest) came after its result, and     *)
(* then for good.                                                          *)
THEOREM ArbitrationsOpen == Spec => []ArbitrationOpen
<1>1. ArbitrationInv => ArbitrationOpen
  BY Zenon DEF ArbitrationInv
<1> QED
  BY <1>1, ArbitrationInvariance, PTL

(* ReplaceWitnessExecute and arbitrationVote never overwrite a unit. *)
THEOREM SettledUnitsStay == Spec => UnitsStay
<1>1. ArbitrationInv /\ [Next]_vars =>
        [\A at \in Place : /\ special[at] # NoUnit => special'[at] = special[at]
                           /\ result[at] # NoUnit => result'[at] = result[at]]_vars
  BY Zenon, ArbitrationNext DEF ArbitrationStep
<1> QED
  BY <1>1, ArbitrationInvariance, PTL DEF Spec, UnitsStay

(* No call gives another group to a chain that is in arbitration. *)
THEOREM ArbitratedKeepGroup == Spec => ArbitrationHoldsGroup
<1>1. ArbitrationInv /\ [Next]_vars =>
        [\A c \in Chain : InArbitration(c) => chain'[c].group = chain[c].group]_vars
  BY Zenon, ArbitrationNext DEF ArbitrationStep
<1> QED
  BY <1>1, ArbitrationInvariance, PTL DEF Spec, ArbitrationHoldsGroup


-----------------------------------------------------------------------------
(* Proposals.                                                              *)

Partial(V) == UNION {[S -> V] : S \in SUBSET Account}

Offer == [who : Account, margin : Nat, time : Nat]

Proposal ==
    [type : CouncilTypes \cup CampaignTypes \cup {"ConfigChange"},
     applicant : Account, target : Account, margin : Nat, change : Changes \cup {<<>>},
     status : Settled \cup {"Apply", "InApproval", "InVoting", "Expired"},
     vote : Nat, finalize : Nat, audit : Partial({"unknown"} \cup Verdicts),
     public : Partial(Verdicts), bids : Seq(Offer)]

Single == CampaignTypes \cup {"ConfigChange"}

(* A proposal of a kind of which there is one at a time is closed when     *)
(* there is a later one of its kind.                                       *)
LaterClosed ==
    \A i, j \in 1..Len(props) :
        i < j /\ props[i].type = props[j].type /\ props[i].type \in Single => Closed(props[i])

(* Two thirds of the council have agreed. *)
TwoThirds(p) ==
    3 * Cardinality({c \in DOMAIN p.audit : p.audit[c] = "agree"})
        >= 2 * Cardinality(DOMAIN p.audit)

(* A change of the configuration is put to the vote after its audit only. *)
AuditPassed(p) == p.type = "ConfigChange" /\ p.status = "InVoting" => TwoThirds(p)

ProposalInv ==
    /\ props \in Seq(Proposal)
    /\ LaterClosed
    /\ \A i \in 1..Len(props) : AuditPassed(props[i])

(* A closed proposal stays closed whatever the height. *)
LEMMA ClosedStays ==
    ASSUME NEW i, props'[i] \in Proposal, Closed(props'[i]),
           number \in Nat, number' \in Nat, number <= number'
    PROVE  Closed(props[i])'
<1>1. props'[i].vote \in Nat
  BY Zenon DEF Proposal
<1>2. number' < props'[i].vote => number < props'[i].vote
  BY <1>1
<1> QED
  BY Zenon, <1>2 DEF Closed, GetStatus, Settled

(* A change of a proposal that is not closed, or stays closed. *)
LEMMA ProposalChanged ==
    ASSUME ProposalInv, number \in Nat, number' = number,
           NEW i \in 1..Len(props), NEW q \in Proposal, q.type = props[i].type,
           Closed(props[i]) => Closed(q), AuditPassed(q),
           props' = [props EXCEPT ![i] = q]
    PROVE  ProposalInv'
<1>1. PICK n \in Nat : n = Len(props) /\ DOMAIN props = 1..n /\ i \in 1..n
  BY DEF ProposalInv
<1>2. /\ props' \in Seq(Proposal) /\ Len(props') = n /\ props'[i] = q
      /\ \A j \in 1..n : j # i => props'[j] = props[j]
  BY <1>1 DEF ProposalInv
<1>3. \A j \in 1..n : /\ props'[j] \in Proposal /\ props'[j].type = props[j].type
                      /\ Closed(props[j]) => Closed(props'[j])
                      /\ AuditPassed(props'[j])
  BY <1>1, <1>2 DEF ProposalInv
<1>4. ASSUME NEW j \in 1..n, Closed(props[j])
      PROVE  Closed(props[j])'
  <2>1. props'[j] \in Proposal /\ Closed(props'[j])
    BY Zenon, <1>3, <1>4
  <2>2. number' \in Nat /\ number <= number'
    OBVIOUS
  <2> QED
    BY Zenon, <2>1, <2>2, ClosedStays
<1>5. LaterClosed'
  BY <1>1, <1>2, <1>3, <1>4 DEF ProposalInv, LaterClosed
<1>6. \A j \in 1..n : AuditPassed(props[j])'
  BY Zenon, <1>3 DEF AuditPassed, TwoThirds
<1> QED
  BY Zenon, <1>2, <1>5, <1>6 DEF ProposalInv

(* A new proposal, of a kind of which all others are closed. *)
LEMMA ProposalAdded ==
    ASSUME ProposalInv, number \in Nat, number' = number, NEW q \in Proposal,
           q.type \in Single => ProposalIsCreate(q.type), AuditPassed(q),
           props' = Append(props, q)
    PROVE  ProposalInv'
<1>1. PICK n \in Nat : n = Len(props) /\ DOMAIN props = 1..n
  BY DEF ProposalInv
<1>2. /\ props' \in Seq(Proposal) /\ Len(props') = n + 1 /\ props'[n + 1] = q
      /\ \A j \in 1..n : props'[j] = props[j] /\ props[j] \in Proposal
  BY <1>1 DEF ProposalInv
<1>3. ASSUME NEW j \in 1..n, props[j].type = q.type, q.type \in Single
      PROVE  Closed(props[j])
  <2> DEFINE I == {k \in 1..n : props[k].type = q.type}
  <2>1. I \in SUBSET (1..n) /\ j \in I
    BY Zenon, <1>3
  <2>2. Max(I) \in I /\ \A y \in I : y <= Max(I)
    BY Zenon, <2>1, MaxUpTo
  <2>3. SelectLastInSeq(props, LAMBDA p : p.type = q.type) = Max(I)
    BY Zenon, <1>1, <2>1 DEF SelectLastInSeq
  <2> HIDE DEF I
  <2>4. PICK m \in 1..n : m = Max(I) /\ props[m].type = q.type /\ j <= m
    BY Zenon, <2>1, <2>2 DEF I
  <2>5. Closed(props[m])
    <3>1. m # 0
      OBVIOUS
    <3> QED
      BY Zenon, <1>3, <2>3, <2>4, <3>1 DEF ProposalIsCreate
  <2>6. CASE j < m
    BY Zenon, <1>1, <1>3, <2>4, <2>6 DEF ProposalInv, LaterClosed
  <2>7. CASE j = m
    BY Zenon, <2>5, <2>7
  <2>8. j < m \/ j = m
    BY <2>4
  <2> QED
    BY Zenon, <2>6, <2>7, <2>8
<1>4. ASSUME NEW j \in 1..n, Closed(props[j])
      PROVE  Closed(props[j])'
  <2>1. props'[j] \in Proposal /\ Closed(props'[j])
    BY Zenon, <1>2, <1>4
  <2>2. number' \in Nat /\ number <= number'
    OBVIOUS
  <2> QED
    BY Zenon, <2>1, <2>2, ClosedStays
<1>5. ASSUME NEW j \in 1..(n + 1), NEW k \in 1..(n + 1), j < k,
             props'[j].type = props'[k].type, props'[j].type \in Single
      PROVE  Closed(props[j])'
  <2>1. j \in 1..n /\ props'[j] = props[j]
    BY <1>2, <1>5
  <2>2. CASE k = n + 1
    BY Zenon, <1>2, <1>3, <1>4, <1>5, <2>1, <2>2
  <2>3. CASE k # n + 1
    <3>1. k \in 1..n /\ props'[k] = props[k]
      BY <1>2, <2>3
    <3> QED
      BY Zenon, <1>1, <1>4, <1>5, <2>1, <3>1 DEF ProposalInv, LaterClosed
  <2> QED
    BY Zenon, <2>2, <2>3
<1>6. LaterClosed'
  BY Zenon, <1>2, <1>5 DEF LaterClosed, Single, CampaignTypes
<1>7. \A j \in 1..(n + 1) : AuditPassed(props[j])'
  <2>1. \A j \in 1..(n + 1) : AuditPassed(props'[j])
    BY <1>1, <1>2 DEF ProposalInv
  <2> QED
    BY Zenon, <2>1 DEF AuditPassed, TwoThirds
<1> QED
  BY Zenon, <1>2, <1>6, <1>7 DEF ProposalInv

(* A new proposal is of its type. *)
LEMMA ProposalMade ==
    ASSUME number \in Nat, NEW a \in Account,
           NEW type \in CouncilTypes \cup CampaignTypes \cup {"ConfigChange"}
    PROVE  NewProposal(type, a) \in Proposal
<1>1. <<>> \in Partial({"unknown"} \cup Verdicts) /\ <<>> \in Partial(Verdicts)
  <2>1. \A V : <<>> \in [{} -> V]
    OBVIOUS
  <2>2. {} \in SUBSET Account
    BY Zenon
  <2> QED
    BY Zenon, <2>1, <2>2 DEF Partial
<1> QED
  BY <1>1 DEF NewProposal, Proposal

(* One vote more leaves the votes of a call in their type. *)
LEMMA PartialAdded ==
    ASSUME NEW V, NEW f \in Partial(V), NEW a \in Account, NEW v \in V
    PROVE  /\ [b \in DOMAIN f \cup {a} |-> IF b = a THEN v ELSE f[b]] \in Partial(V) 
           /\ [f EXCEPT ![a] = v] \in Partial(V)
<1>1. PICK S \in SUBSET Account : f \in [S -> V]
  BY Zenon DEF Partial
<1>2. [b \in DOMAIN f \cup {a} |-> IF b = a THEN v ELSE f[b]] \in [S \cup {a} -> V]
  BY Zenon, <1>1
<1>3. [f EXCEPT ![a] = v] \in [S -> V]
  BY Zenon, <1>1
<1> QED
  BY ZenonT(40), <1>2, <1>3 DEF Partial

(* ProposalIsVote lets a change pass only with two thirds of its council,  *)
(* and a council that agreed does not lose its two thirds by more votes.   *)
LEMMA AuditKept ==
    ASSUME NEW p \in Proposal, AuditPassed(p), p.type = "ConfigChange", NEW a \in DOMAIN p.audit,
           p.audit[a] = "unknown", NEW v \in Verdicts,
           NEW q, q = Audited([p EXCEPT !.audit[a] = v])
    PROVE  q \in Proposal /\ q.type = p.type /\ AuditPassed(q)
<1> DEFINE r == [p EXCEPT !.audit[a] = v]
           agree(x) == {c \in DOMAIN x.audit : x.audit[c] = "agree"}
<1>1. PICK S \in SUBSET Account : p.audit \in [S -> {"unknown"} \cup Verdicts] /\ a \in S
  BY Zenon DEF Proposal, Partial
<1>2. /\ r \in Proposal /\ r.type = p.type /\ r.status = p.status /\ r.vote = p.vote
      /\ r.audit = [p.audit EXCEPT ![a] = v]
  <2>1. [p.audit EXCEPT ![a] = v] \in Partial({"unknown"} \cup Verdicts)
    BY Zenon, <1>1, PartialAdded DEF Proposal
  <2> QED
    BY Zenon, <2>1 DEF Proposal
<1>3. DOMAIN r.audit = S /\ DOMAIN p.audit = S /\ agree(p) \subseteq agree(r) /\ agree(r) \subseteq S
  BY Zenon, <1>1, <1>2
<1>4. IsFiniteSet(S)
  BY Zenon, <1>1, FS_Subset, MemberConstants
<1>5. /\ Cardinality(S) \in Nat /\ Cardinality(agree(r)) \in Nat /\ Cardinality(agree(p)) \in Nat
      /\ Cardinality(agree(p)) <= Cardinality(agree(r))
  BY Zenon, <1>3, <1>4, FS_Subset, FS_CardinalityType
<1>6. AuditPassed(r)
  BY <1>2, <1>3, <1>5 DEF AuditPassed, TwoThirds
<1> DEFINE passed == [r EXCEPT !.status = "InVoting", !.finalize = r.vote + TimeVoting]
           failed == [r EXCEPT !.status = "Failed"]
<1>7. \/ q = r \/ q = failed
      \/ q = passed /\ Cardinality(agree(r)) >= Cardinality(S) - Cardinality(S) \div 3
  BY Zenon, <1>3 DEF Audited
<1> HIDE DEF r
<1>8. failed \in Proposal /\ failed.type = p.type /\ AuditPassed(failed)
  <2>1. failed \in Proposal /\ failed.type = p.type /\ failed.status = "Failed"
    BY Zenon, <1>2 DEF Proposal, Settled
  <2> QED
    BY Zenon, <2>1 DEF AuditPassed
<1>9. ASSUME Cardinality(agree(r)) >= Cardinality(S) - Cardinality(S) \div 3
      PROVE  passed \in Proposal /\ passed.type = p.type /\ AuditPassed(passed)
  <2>1. passed \in Proposal /\ passed.type = p.type /\ passed.audit = r.audit
    <3>1. TimeVoting \in Nat
      BY Zenon, ProposalConstants
    <3>2. r.vote + TimeVoting \in Nat
      BY <1>2, <3>1 DEF Proposal
    <3> QED
      BY Zenon, <1>2, <3>2 DEF Proposal
  <2>2. PICK x \in Nat, y \in Nat : x = Cardinality(agree(r)) /\ y = Cardinality(S)
    BY Zenon, <1>5
  <2>3. 3 * x >= 2 * y
    BY <1>9, <2>2
  <2>4. TwoThirds(passed)
    BY Zenon, <1>3, <2>1, <2>2, <2>3 DEF TwoThirds
  <2> QED
    BY Zenon, <2>1, <2>4 DEF AuditPassed
<1> QED
  BY Zenon, <1>2, <1>6, <1>7, <1>8, <1>9

(* What changes the configuration: a proposal that is closed as passed. *)
ConfigStep ==
    config' # config =>
        \E i \in DOMAIN props :
            LET p == props[i]
                n == Cardinality(DOMAIN p.audit)
            IN  /\ props'[i].status = "Passed" /\ p.status = "InVoting"
                /\ 3 * Cardinality({c \in DOMAIN p.audit : p.audit[c] = "agree"}) >= 2 * n
                /\ config' = [config EXCEPT ![p.change[1]] = p.change[2]]

(* Steps that make no proposal and change none. *)
LEMMA ProposalsKept ==
    ASSUME ProposalInv, number \in Nat, number' \in Nat, number <= number', UNCHANGED propVars
    PROVE  ProposalInv' /\ ConfigStep
<1>1. props' = props /\ config' = config
  BY Zenon DEF propVars
<1>2. ASSUME NEW i \in 1..Len(props), Closed(props[i])
      PROVE  Closed(props[i])'
  <2>1. props'[i] \in Proposal /\ Closed(props'[i])
    BY <1>1, <1>2 DEF ProposalInv
  <2> QED
    BY Zenon, <2>1, ClosedStays
<1>3. LaterClosed'
  BY Zenon, <1>1, <1>2 DEF ProposalInv, LaterClosed
<1>4. \A i \in 1..Len(props) : AuditPassed(props[i])'
  BY Zenon, <1>1 DEF ProposalInv, AuditPassed, TwoThirds
<1> QED
  BY Zenon, <1>1, <1>3, <1>4 DEF ProposalInv, ConfigStep

(* Applications. *)
LEMMA ProposalApplied ==
    ASSUME ProposalInv, CouncilTable(council), number \in Nat,
           NEW a \in Account, NEW b \in Account, NEW ch, NEW sys,
           \/ SetMemberJoinApply(a) \/ SetMemberRemoveApply(a, b)
           \/ (ch \in Changes /\ SetConfigApply(a, ch)) \/ ProposalWitnessApply(a, sys)
    PROVE  ProposalInv' /\ ConfigStep
<1>1. {TimeApprove, TimeVoting, TimeCampaign, CouncilMargin} \subseteq Nat
  BY Zenon, MemberConstants, ProposalConstants
<1>2. PICK q : /\ q \in Proposal
               /\ q.type \in Single => ProposalIsCreate(q.type)
               /\ AuditPassed(q)
               /\ props' = Append(props, q) /\ number' = number /\ config' = config
  <2>1. CASE SetMemberJoinApply(a)
    <3>1. PICK r, q : /\ r = NewProposal("CouncilAdd", a)
                      /\ q = [r EXCEPT !.margin = CouncilMargin, !.finalize = number + TimeVoting]
                      /\ props' = Append(props, q) /\ number' = number /\ config' = config
      BY Zenon, <2>1 DEF SetMemberJoinApply, AddProposal
    <3>2. r \in Proposal /\ r.type = "CouncilAdd"
      BY Zenon, <3>1, ProposalMade DEF CouncilTypes, NewProposal
    <3>3. number + TimeVoting \in Nat /\ CouncilMargin \in Nat
      BY <1>1
    <3>4. q \in Proposal /\ q.type = "CouncilAdd"
      BY Zenon, <3>1, <3>2, <3>3 DEF Proposal
    <3> QED
      BY Zenon, <3>1, <3>4 DEF Single, CampaignTypes, AuditPassed
  <2>2. CASE SetMemberRemoveApply(a, b)
    <3>1. PICK r, q : /\ r = NewProposal("CouncilFire", a)
                      /\ q = [r EXCEPT !.target = b, !.margin = council.margin[b],
                                       !.finalize = number + TimeVoting]
                      /\ props' = Append(props, q) /\ number' = number /\ config' = config
      BY Zenon, <2>2 DEF SetMemberRemoveApply, AddProposal, memberVars
    <3>2. r \in Proposal /\ r.type = "CouncilFire"
      BY Zenon, <3>1, ProposalMade DEF CouncilTypes, NewProposal
    <3>3. number + TimeVoting \in Nat /\ council.margin[b] \in Nat
      BY <1>1 DEF CouncilTable
    <3>4. q \in Proposal /\ q.type = "CouncilFire"
      BY Zenon, <3>1, <3>2, <3>3 DEF Proposal
    <3> QED
      BY Zenon, <3>1, <3>4 DEF Single, CampaignTypes, AuditPassed
  <2>3. CASE ch \in Changes /\ SetConfigApply(a, ch)
    <3>1. PICK r, f, q :
            /\ r = NewProposal("ConfigChange", a)
            /\ f = [c \in ToSet(council.list) |-> "unknown"]
            /\ q = [r EXCEPT !.change = ch, !.status = "InApproval",
                             !.vote = number + TimeApprove, !.audit = f]
            /\ ProposalIsCreate("ConfigChange")
            /\ props' = Append(props, q) /\ number' = number /\ config' = config
      BY Zenon, <2>3 DEF SetConfigApply, AddProposal, memberVars
    <3>2. r \in Proposal /\ r.type = "ConfigChange"
      BY Zenon, <3>1, ProposalMade DEF NewProposal
    <3>3. number + TimeApprove \in Nat
      BY <1>1
    <3>4. f \in Partial({"unknown"} \cup Verdicts)
      <4>1. ToSet(council.list) \in SUBSET Account
        BY Zenon DEF CouncilTable
      <4>2. f \in [ToSet(council.list) -> {"unknown"} \cup Verdicts]
        BY Zenon, <3>1
      <4> QED
        BY Zenon, <4>1, <4>2 DEF Partial
    <3>5. q \in Proposal /\ q.type = "ConfigChange" /\ q.status = "InApproval"
      BY Zenon, <2>3, <3>1, <3>2, <3>3, <3>4 DEF Proposal
    <3> QED
      BY Zenon, <3>1, <3>5 DEF AuditPassed
  <2>4. CASE ProposalWitnessApply(a, sys)
    <3>1. PICK type, r, q :
            /\ type = IF sys THEN "SysWitnessCampaign" ELSE "UserWitnessCampaign"
            /\ r = NewProposal(type, a)
            /\ q = [r EXCEPT !.status = "Apply", !.vote = number + TimeCampaign]
            /\ ProposalIsCreate(type)
            /\ props' = Append(props, q) /\ number' = number /\ config' = config
      BY Zenon, <2>4 DEF ProposalWitnessApply, AddProposal, memberVars
    <3>2. type \in CampaignTypes
      BY Zenon, <3>1 DEF CampaignTypes
    <3>3. r \in Proposal /\ r.type = type
      BY Zenon, <3>1, <3>2, ProposalMade DEF NewProposal
    <3>4. number + TimeCampaign \in Nat
      BY <1>1
    <3>5. q \in Proposal /\ q.type = type
      BY Zenon, <3>1, <3>3, <3>4 DEF Proposal
    <3>6. AuditPassed(q)
      BY Zenon, <3>2, <3>5 DEF AuditPassed, CampaignTypes
    <3> QED
      BY Zenon, <3>1, <3>5, <3>6
  <2> QED
    BY Zenon, <2>1, <2>2, <2>3, <2>4
<1>3. ProposalInv'
  BY Zenon, <1>2, ProposalAdded
<1> QED
  BY Zenon, <1>2, <1>3 DEF ConfigStep

(* A vote of the council, a vote of the public. *)
LEMMA ProposalVoted ==
    ASSUME ProposalInv, number \in Nat, NEW a \in Account, NEW i \in Proposed, NEW v \in Verdicts,
           SetConfigApplyVote(a, i, v) \/ PublicVote(a, i, v)
    PROVE  ProposalInv' /\ ConfigStep
<1>1. PICK p \in Proposal : p = props[i] /\ AuditPassed(p) /\ i \in 1..Len(props)
  BY DEF Proposed, ProposalInv
<1>2. PICK q \in Proposal : /\ q.type = p.type /\ AuditPassed(q)
                            /\ ~Closed(p)
                            /\ props' = [props EXCEPT ![i] = q]
                            /\ number' = number /\ config' = config
  <2>1. CASE SetConfigApplyVote(a, i, v)
    <3>1. PICK q : /\ q = Audited([p EXCEPT !.audit[a] = v])
                   /\ GetStatus(p) = "InApproval"
                   /\ a \in DOMAIN p.audit /\ p.audit[a] = "unknown"
                   /\ props' = [props EXCEPT ![i] = q]
                   /\ number' = number /\ config' = config
      BY Zenon, <1>1, <2>1 DEF SetConfigApplyVote, memberVars
    <3>2. ~Closed(p)
      BY Zenon, <3>1 DEF Closed, Settled
    <3>3. p.type = "ConfigChange"
      BY Zenon, <3>1 DEF GetStatus, Proposal, Settled
    <3>4. q \in Proposal /\ q.type = p.type /\ AuditPassed(q)
      BY Zenon, <1>1, <3>1, <3>3, AuditKept
    <3> QED
      BY Zenon, <3>1, <3>2, <3>4
  <2>2. CASE PublicVote(a, i, v)
    <3>1. PICK f, q : /\ f = [b \in DOMAIN p.public \cup {a} |->
                                IF b = a THEN v ELSE p.public[b]]
                      /\ q = [p EXCEPT !.public = f]
                      /\ GetStatus(p) = "InVoting"
                      /\ props' = [props EXCEPT ![i] = q]
                      /\ number' = number /\ config' = config
      <4>1. PICK f : /\ f = [b \in DOMAIN p.public \cup {a} |->
                                IF b = a THEN v ELSE p.public[b]]
                     /\ GetStatus(p) = "InVoting"
                     /\ props' = [props EXCEPT ![i].public = f]
                     /\ number' = number /\ config' = config
        BY Zenon, <1>1, <2>2 DEF PublicVote, memberVars
      <4>2. props' = [props EXCEPT ![i] = [p EXCEPT !.public = f]]
        BY Zenon, <1>1, <4>1
      <4> QED
        BY Zenon, <4>1, <4>2
    <3>2. ~Closed(p)
      BY Zenon, <3>1 DEF Closed, Settled
    <3>3. f \in Partial(Verdicts)
      <4>1. PICK pub \in Partial(Verdicts) : pub = p.public
        BY Zenon DEF Proposal
      <4> QED
        BY Zenon, <3>1, <4>1, PartialAdded
    <3>4. q \in Proposal /\ q.type = p.type /\ q.status = p.status /\ q.audit = p.audit
      BY Zenon, <3>1, <3>3 DEF Proposal
    <3>5. AuditPassed(q)
      BY Zenon, <1>1, <3>4 DEF AuditPassed, TwoThirds
    <3> QED
      BY Zenon, <3>1, <3>2, <3>4, <3>5
  <2> QED
    BY Zenon, <2>1, <2>2
<1>3. ProposalInv'
  BY Zenon, <1>1, <1>2, ProposalChanged
<1> QED
  BY Zenon, <1>2, <1>3 DEF ConfigStep

(* An offer of a campaigner, or a higher one. *)
LEMMA ProposalBid ==
    ASSUME ProposalInv, number \in Nat, NEW a \in Account, NEW i \in Proposed, NEW extra \in Bids,
           NEW k,
           \/ CampaignApply(a, i, extra)
           \/ k \in DOMAIN props[i].bids /\ CampaignAddMargin(a, i, k, extra)
    PROVE  ProposalInv' /\ ConfigStep
<1>1. PICK p \in Proposal : p = props[i] /\ AuditPassed(p) /\ i \in 1..Len(props)
  BY DEF Proposed, ProposalInv
<1>2. p.bids \in Seq(Offer) /\ extra \in Nat /\ {SysMargin, UserMargin} \subseteq Nat
  BY ZenonT(40), MemberConstants, ProposalConstants DEF Proposal
<1>3. PICK bs \in Seq(Offer) : /\ GetStatus(p) = "Apply"
                             /\ props' = [props EXCEPT ![i] = [p EXCEPT !.bids = bs]]
                             /\ number' = number /\ config' = config
  <2>1. CASE CampaignApply(a, i, extra)
    <3>1. PICK m, bid : /\ m = MinMargin(p.type) + extra
                        /\ bid = [who |-> a, margin |-> m, time |-> number]
                        /\ GetStatus(p) = "Apply"
                        /\ props' = [props EXCEPT ![i].bids = Append(@, bid)]
                        /\ number' = number /\ config' = config
      BY Zenon, <1>1, <2>1 DEF CampaignApply
    <3>2. m \in Nat
      BY <1>2, <3>1 DEF MinMargin
    <3>3. bid \in Offer
      BY Zenon, <3>1, <3>2 DEF Offer
    <3>4. PICK bs \in Seq(Offer) : bs = Append(p.bids, bid)
      <4>1. Append(p.bids, bid) \in Seq(Offer)
        BY <1>2, <3>3
      <4> QED
        BY Zenon, <4>1
    <3>5. props' = [props EXCEPT ![i] = [p EXCEPT !.bids = bs]]
      BY Zenon, <1>1, <3>1, <3>4
    <3> QED
      BY Zenon, <3>1, <3>5
  <2>2. CASE k \in DOMAIN p.bids /\ CampaignAddMargin(a, i, k, extra)
    <3>1. PICK m, bid : /\ m = p.bids[k].margin + extra
                        /\ bid = [who |-> a, margin |-> m, time |-> number]
                        /\ GetStatus(p) = "Apply"
                        /\ props' = [props EXCEPT ![i].bids[k] = bid]
                        /\ number' = number /\ config' = config
      BY Zenon, <1>1, <2>2 DEF CampaignAddMargin
    <3>7. PICK l \in Seq(Offer) : l = p.bids /\ k \in DOMAIN l
      BY Zenon, <1>2, <2>2
    <3>8. l[k] \in Offer
      BY <3>7
    <3>2. p.bids[k].margin \in Nat
      BY Zenon, <3>7, <3>8 DEF Offer
    <3>3. m \in Nat
      BY SMTT(30), <1>2, <3>1, <3>2
    <3>4. bid \in Offer
      BY Zenon, <3>1, <3>3 DEF Offer
    <3>6. PICK bs \in Seq(Offer) : bs = [p.bids EXCEPT ![k] = bid]
      <4>1. [l EXCEPT ![k] = bid] \in Seq(Offer)
        BY <3>4, <3>7
      <4> QED
        BY Zenon, <3>7, <4>1
    <3>5. props' = [props EXCEPT ![i] = [p EXCEPT !.bids = bs]]
      BY Zenon, <1>1, <3>1, <3>6
    <3> QED
      BY Zenon, <3>1, <3>5
  <2> QED
    BY Zenon, <1>1, <2>1, <2>2
<1>4. PICK q : q = [p EXCEPT !.bids = bs] /\ props' = [props EXCEPT ![i] = q]
  BY Zenon, <1>3
<1>5. q \in Proposal /\ q.type = p.type /\ q.status = p.status /\ q.audit = p.audit
  BY Zenon, <1>4 DEF Proposal
<1>6. AuditPassed(q)
  BY Zenon, <1>1, <1>5 DEF AuditPassed, TwoThirds
<1>7. ~Closed(p)
  BY Zenon, <1>3 DEF Closed, Settled
<1>8. ProposalInv'
  BY Zenon, <1>1, <1>3, <1>4, <1>5, <1>6, <1>7, ProposalChanged
<1> QED
  BY Zenon, <1>3, <1>8 DEF ConfigStep

(* A call that closes a proposal closes the one it names, and changes the  *)
(* configuration as that one asks for, if at all.                          *)
LEMMA CloseCall ==
    ASSUME NEW i, SetConfigFinalize(i)
    PROVE  /\ number' = number /\ GetStatus(props[i]) = "PendingJudge"
           /\ \E outcome \in Settled :
                /\ Close(i, outcome)
                /\ \/ config' = config
                   \/ /\ props[i].type = "ConfigChange" /\ outcome = "Passed"
                      /\ config' = [config EXCEPT ![props[i].change[1]] = props[i].change[2]]
<1> DEFINE Goal == /\ number' = number
                   /\ \E outcome \in Settled :
                        /\ Close(i, outcome)
                        /\ \/ config' = config
                           \/ /\ props[i].type = "ConfigChange" /\ outcome = "Passed"
                              /\ config' = [config EXCEPT
                                              ![props[i].change[1]] = props[i].change[2]]
<1>1. FinalizeConfig(i) => Goal
  <2> SUFFICES ASSUME FinalizeConfig(i) PROVE Goal
    BY Zenon
  <2> HIDE DEF Close
  <2>1. CASE ValidProposalPass(props[i])
    BY Zenon, <2>1 DEF FinalizeConfig, memberVars, Settled
  <2>2. CASE ~ValidProposalPass(props[i])
    BY Zenon, <2>2 DEF FinalizeConfig, memberVars, Settled
  <2> QED
    BY Zenon, <2>1, <2>2
<1>2. FinalizeCouncilAdd(i) => Goal
  BY Zenon DEF FinalizeCouncilAdd, Settled
<1>3. FinalizeCouncilFire(i) => Goal
  BY Zenon DEF FinalizeCouncilFire, Settled
<1>4. FinalizeSystemWitness(i) => Goal
  <2>1. ASSUME FinalizeSystemWitness(i)
        PROVE  /\ number' = number /\ config' = config
               /\ \E f : Close(i, IF f THEN "Failed" ELSE "Passed")
    BY Zenon, <2>1 DEF FinalizeSystemWitness
  <2> QED
    BY Zenon, <2>1 DEF Settled
<1>5. FinalizeUserWitness(i) => Goal
  <2>1. ASSUME FinalizeUserWitness(i)
        PROVE  /\ number' = number /\ config' = config
               /\ \E f : Close(i, IF f THEN "Failed" ELSE "Passed")
    BY Zenon, <2>1 DEF FinalizeUserWitness
  <2> QED
    BY Zenon, <2>1 DEF Settled
<1> HIDE DEF Goal
<1>6. Goal /\ GetStatus(props[i]) = "PendingJudge"
  BY Zenon, <1>1, <1>2, <1>3, <1>4, <1>5 DEF SetConfigFinalize
<1> QED
  BY Zenon, <1>6 DEF Goal

(* A proposal that is closed. *)
LEMMA ProposalClosed ==
    ASSUME ProposalInv, number \in Nat, NEW i \in Proposed,
           FinalizeExpired(i) \/ SetConfigFinalize(i)
    PROVE  ProposalInv' /\ ConfigStep
<1>1. PICK p \in Proposal : /\ p = props[i] /\ AuditPassed(p) /\ i \in 1..Len(props)
                            /\ i \in DOMAIN props
  BY DEF Proposed, ProposalInv
<1>2. PICK outcome \in Settled \cup {"Expired"} :
        /\ number' = number /\ Close(i, outcome)
        /\ \/ config' = config
           \/ /\ p.type = "ConfigChange" /\ outcome = "Passed" /\ GetStatus(p) = "PendingJudge"
              /\ config' = [config EXCEPT ![p.change[1]] = p.change[2]]
        /\ GetStatus(p) = "PendingJudge" \/ (GetStatus(p) = "Expired" /\ outcome = "Expired")
  <2>1. CASE FinalizeExpired(i)
    BY Zenon, <1>1, <2>1 DEF FinalizeExpired, memberVars
  <2>2. CASE SetConfigFinalize(i)
    <3>1. number' = number /\ GetStatus(p) = "PendingJudge"
      BY Zenon, <1>1, <2>2, CloseCall
    <3>2. PICK outcome \in Settled :
                /\ Close(i, outcome)
                /\ \/ config' = config
                   \/ /\ p.type = "ConfigChange" /\ outcome = "Passed"
                      /\ config' = [config EXCEPT ![p.change[1]] = p.change[2]]
      BY Zenon, <1>1, <2>2, CloseCall
    <3> QED
      BY Zenon, <3>1, <3>2
  <2> QED
    BY Zenon, <2>1, <2>2
<1>3. PICK q : /\ q = [p EXCEPT !.status = outcome, !.finalize = number]
               /\ props' = [props EXCEPT ![i] = q]
  BY Zenon, <1>1, <1>2 DEF Close
<1>4. q \in Proposal /\ q.type = p.type /\ q.status = outcome
  BY Zenon, <1>3 DEF Proposal, Settled
<1>5. AuditPassed(q)
  BY Zenon, <1>4 DEF AuditPassed, Settled
<1>6. Closed(p) => Closed(q)
  <2>1. CASE GetStatus(p) = "PendingJudge"
    BY Zenon, <2>1 DEF Closed, Settled
  <2>2. CASE GetStatus(p) = "Expired" /\ outcome = "Expired"
    <3>1. p.type \notin CampaignTypes
      BY Zenon, <2>2 DEF GetStatus, CampaignTypes, CouncilTypes, Settled
    <3>2. GetStatus(q) = "Expired"
      BY Zenon, <1>4, <2>2, <3>1 DEF GetStatus, Settled
    <3> QED
      BY Zenon, <3>2 DEF Closed
  <2> QED
    BY Zenon, <1>2, <2>1, <2>2
<1>7. ProposalInv'
  BY Zenon, <1>1, <1>2, <1>3, <1>4, <1>5, <1>6, ProposalChanged
<1>8. ASSUME config' # config
      PROVE  /\ props'[i].status = "Passed" /\ p.status = "InVoting" /\ TwoThirds(p)
             /\ config' = [config EXCEPT ![p.change[1]] = p.change[2]]
  <2>1. p.type = "ConfigChange" /\ outcome = "Passed" /\ GetStatus(p) = "PendingJudge"
    BY Zenon, <1>2, <1>8
  <2>2. p.status = "InVoting"
    BY Zenon, <2>1 DEF GetStatus, Settled, CouncilTypes, CampaignTypes
  <2>3. props'[i] = q
    BY Zenon, <1>1, <1>3
  <2> QED
    BY Zenon, <1>1, <1>2, <1>4, <1>8, <2>1, <2>2, <2>3 DEF AuditPassed
<1>9. ConfigStep
  BY Zenon, <1>1, <1>8 DEF ConfigStep, TwoThirds
<1> QED
  BY Zenon, <1>7, <1>9

-----------------------------------------------------------------------------
(* The council and the proposals.                                          *)

(* The calls that leave the council alone. *)
LEMMA CouncilKept ==
    /\ NewUnit => council' = council
    /\ \A a : CancelWitness(a) \/ SecondHeartbeat(a) \/ UserHeartbeat(a) => council' = council
    /\ \A a : MainHeartbeat(a) => council' = council
    /\ AllSystemWitnessReplace => council' = council
    /\ \A a, b : SetMemberJoinApply(a) \/ SetMemberRemoveApply(a, b) \/ SetConfigApply(a, b)
                 \/ ProposalWitnessApply(a, b) => council' = council
    /\ \A a, i, v, k : SetConfigApplyVote(a, i, v) \/ PublicVote(a, i, v)
                       \/ CampaignApply(a, i, v) \/ CampaignAddMargin(a, i, k, v)
                       => council' = council
    /\ \A i : FinalizeExpired(i) \/ FinalizeConfig(i) => council' = council
    /\ \A i : FinalizeSystemWitness(i) => council' = council
    /\ \A i : FinalizeUserWitness(i) => council' = council
    /\ \A c, u : ChainApplyWitness(c) \/ CreateContract(u, c) \/ ReplaceWitness(c)
                 \/ ApplyWitnessWay2(c) => council' = council
    /\ \A b : ReplaceWitnessExecute(b) => council' = council
    /\ \A a, c, h, u : ReportChoice(a, c, h, u) => council' = council
    /\ \A a, c, h, u, bad : ReportProof(a, c, h, u, bad) \/ ReportUnchosen(a, c, h, bad)
                             => council' = council
<1>1. NewUnit => council' = council
  BY Zenon DEF NewUnit
<1>2. \A a : CancelWitness(a) \/ SecondHeartbeat(a) \/ UserHeartbeat(a) => council' = council
  BY Zenon DEF CancelWitness, SecondHeartbeat, UserHeartbeat
<1>3. \A a : MainHeartbeat(a) => council' = council
  BY Zenon DEF MainHeartbeat
<1>4. AllSystemWitnessReplace => council' = council
  BY Zenon DEF AllSystemWitnessReplace
<1>5. \A a, b : SetMemberJoinApply(a) \/ SetMemberRemoveApply(a, b) \/ SetConfigApply(a, b)
                 \/ ProposalWitnessApply(a, b) => council' = council
  BY Zenon DEF SetMemberJoinApply, SetMemberRemoveApply, SetConfigApply, ProposalWitnessApply,
         memberVars
<1>6. \A a, i, v, k : SetConfigApplyVote(a, i, v) \/ PublicVote(a, i, v)
                       \/ CampaignApply(a, i, v) \/ CampaignAddMargin(a, i, k, v)
                       => council' = council
  <2>1. \A a, i, v : SetConfigApplyVote(a, i, v) \/ PublicVote(a, i, v) => council' = council
    BY Zenon DEF SetConfigApplyVote, PublicVote, memberVars
  <2>2. \A a, i, v : CampaignApply(a, i, v) => council' = council
    BY Zenon DEF CampaignApply, memberVars
  <2>3. \A a, i, v, k : CampaignAddMargin(a, i, k, v) => council' = council
    BY Zenon DEF CampaignAddMargin, memberVars
  <2> QED
    BY Zenon, <2>1, <2>2, <2>3
<1>7. \A i : FinalizeExpired(i) \/ FinalizeConfig(i) => council' = council
  BY Zenon DEF FinalizeExpired, FinalizeConfig, memberVars
<1>8. \A i : FinalizeSystemWitness(i) => council' = council
  BY Zenon DEF FinalizeSystemWitness
<1>9. \A i : FinalizeUserWitness(i) => council' = council
  BY Zenon DEF FinalizeUserWitness
<1>10. \A c, u : ChainApplyWitness(c) \/ CreateContract(u, c) \/ ReplaceWitness(c)
                 \/ ApplyWitnessWay2(c) => council' = council
  BY Zenon DEF ChainApplyWitness, CreateContract, ReplaceWitness, ApplyWitnessWay2, NotSettled,
         memberVars
<1>11. \A b : ReplaceWitnessExecute(b) => council' = council
  BY Zenon DEF ReplaceWitnessExecute, memberVars
<1>12. \A a, c, h, u : ReportChoice(a, c, h, u) => council' = council
  BY Zenon DEF ReportChoice, memberVars
<1>13. \A a, c, h, u, bad : ReportProof(a, c, h, u, bad) \/ ReportUnchosen(a, c, h, bad)
                             => council' = council
  <2>1. \A a, c, h, u, bad : ReportProof(a, c, h, u, bad) => council' = council
    BY Zenon DEF ReportProof, PunishBad
  <2>2. \A a, c, h, bad : ReportUnchosen(a, c, h, bad) => council' = council
    BY Zenon DEF ReportUnchosen, PunishBad
  <2> QED
    BY Zenon, <2>1, <2>2
<1> QED
  BY Zenon, <1>1, <1>2, <1>3, <1>4, <1>5, <1>6, <1>7, <1>8, <1>9, <1>10, <1>11, <1>12, <1>13

(* The lists of removeInvalid. *)
LEMMA RemovalLists ==
    ASSUME load.named \subseteq Account
    PROVE  Removals \subseteq Seq(Account)
<1>1. ASSUME NEW a \in Account, NEW b \in Account
      PROVE  <<a>> \in Seq(Account) /\ <<a, b>> \in Seq(Account)
  OBVIOUS
<1> SUFFICES ASSUME NEW l \in Removals PROVE l \in Seq(Account)
  BY Zenon
<1>2. \/ l \in {<<a>> : a \in load.named}
      \/ l \in {<<a, b>> : a, b \in load.named}
  BY DEF Removals
<1>3. CASE l \in {<<a>> : a \in load.named}
  BY Zenon, <1>1, <1>3
<1>4. CASE l \in {<<a, b>> : a, b \in load.named}
  <2>1. PICK a \in load.named, b \in load.named : l = <<a, b>>
    BY <1>4
  <2> QED
    BY Zenon, <1>1, <2>1
<1> QED
  BY <1>2, <1>3, <1>4

(* Every call of the contract. *)
LEMMA CouncilNext ==
    ASSUME CouncilInv, ProposalInv, load.named \subseteq Account, ContractNext
    PROVE  CouncilInv'
<1>1. council' = council => CouncilInv'
  BY Zenon DEF CouncilInv, CouncilTable
<1>2. ASSUME NEW a \in Account, CouncilExit(a)
      PROVE  CouncilInv'
  BY Zenon, <1>2, MemberLeft DEF CouncilExit
<1>3. ASSUME NEW a \in Account, MemberHeartbeat(a)
      PROVE  CouncilInv'
  BY Zenon, <1>3 DEF MemberHeartbeat, CouncilInv, CouncilTable
<1>4. ASSUME NEW l \in Removals, RemoveTimeout(l)
      PROVE  CouncilInv'
  BY Zenon, <1>4, RemovalLists, RemovedAll
<1>5. ASSUME NEW i \in Proposed, FinalizeCouncilAdd(i)
      PROVE  CouncilInv'
  <2>1. props[i] \in Proposal
    BY DEF Proposed, ProposalInv
  <2>2. PICK a, v, m : /\ a \in Account /\ a = props[i].applicant
                       /\ v \in Nat /\ v = props[i].margin /\ m = number - 1
    BY Zenon, <2>1 DEF Proposal
  <2>3. \/ council' = council
        \/ council' = AddCouncil(council, m, a, v) /\ CheckMemberType(wit, council, a)
    BY Zenon, <1>5, <2>2 DEF FinalizeCouncilAdd
  <2>4. CASE council' = AddCouncil(council, m, a, v) /\ CheckMemberType(wit, council, a)
    BY Zenon, <2>2, <2>4, MemberJoined DEF CheckMemberType
  <2> QED
    BY Zenon, <1>1, <2>3, <2>4
<1>6. ASSUME NEW i \in Proposed, FinalizeCouncilFire(i)
      PROVE  CouncilInv'
  <2>1. props[i] \in Proposal
    BY DEF Proposed, ProposalInv
  <2>2. PICK a \in Account : a = props[i].target
    BY Zenon, <2>1 DEF Proposal
  <2>3. \/ council' = council
        \/ /\ council' = RemoveCouncil(council, a)
           /\ council.status[a] = "valid" /\ CanRemoveCouncil(council, a)
    BY Zenon, <1>6, <2>2 DEF FinalizeCouncilFire
  <2> QED
    BY Zenon, <1>1, <2>3, MemberLeft
<1> HIDE DEF CouncilInv
<1>7. \/ council' = council
      \/ \E a \in Account : CouncilExit(a)
      \/ \E a \in Account : MemberHeartbeat(a)
      \/ \E l \in Removals : RemoveTimeout(l)
      \/ \E i \in Proposed : FinalizeCouncilAdd(i)
      \/ \E i \in Proposed : FinalizeCouncilFire(i)
  BY Zenon, CouncilKept DEF ContractNext, SetConfigFinalize
<1> QED
  BY Zenon, <1>1, <1>2, <1>3, <1>4, <1>5, <1>6, <1>7

(* Every call of the contract. *)
LEMMA ProposalNext ==
    ASSUME ProposalInv, CouncilInv, load.named \subseteq Account, ContractNext,
           number \in Nat, number' \in Nat, number <= number'
    PROVE  ProposalInv' /\ ConfigStep
<1> DEFINE Goal == ProposalInv' /\ ConfigStep
<1>1. UNCHANGED propVars => Goal
  BY Zenon, ProposalsKept
<1>2. ASSUME NEW a \in Account, NEW b \in Account,
             \/ SetMemberJoinApply(a) \/ SetMemberRemoveApply(a, b)
             \/ \E ch \in Changes : SetConfigApply(a, ch)
             \/ \E sys \in BOOLEAN : ProposalWitnessApply(a, sys)
      PROVE  Goal
  <2>1. PICK ch, sys : \/ SetMemberJoinApply(a) \/ SetMemberRemoveApply(a, b)
                       \/ (ch \in Changes /\ SetConfigApply(a, ch))
                       \/ ProposalWitnessApply(a, sys)
    BY Zenon, <1>2
  <2> QED
    BY Zenon, <2>1, ProposalApplied DEF CouncilInv
<1>3. ASSUME NEW a \in Account, NEW i \in Proposed, NEW v \in Verdicts,
             SetConfigApplyVote(a, i, v) \/ PublicVote(a, i, v)
      PROVE  Goal
  BY Zenon, <1>3, ProposalVoted
<1>4. ASSUME NEW a \in Account, NEW i \in Proposed, NEW extra \in Bids, NEW k,
             \/ CampaignApply(a, i, extra)
             \/ k \in DOMAIN props[i].bids /\ CampaignAddMargin(a, i, k, extra)
      PROVE  Goal
  BY Zenon, <1>4, ProposalBid
<1>5. ASSUME NEW i \in Proposed, FinalizeExpired(i) \/ SetConfigFinalize(i)
      PROVE  Goal
  BY Zenon, <1>5, ProposalClosed
<1>6. \A c, u : ChainApplyWitness(c) \/ CreateContract(u, c) \/ ReplaceWitness(c)
                \/ ApplyWitnessWay2(c) => UNCHANGED propVars
  BY Zenon DEF ChainApplyWitness, CreateContract, ReplaceWitness, ApplyWitnessWay2, NotSettled
<1>7. \A b : ReplaceWitnessExecute(b) => UNCHANGED propVars
  BY Zenon DEF ReplaceWitnessExecute
<1>8. \A a, c, h, u : ReportChoice(a, c, h, u) => UNCHANGED propVars
  BY Zenon DEF ReportChoice
<1>9. \A a, c, h, u, bad : ReportProof(a, c, h, u, bad) \/ ReportUnchosen(a, c, h, bad)
                            => UNCHANGED propVars
  <2>1. \A a, c, h, u, bad : ReportProof(a, c, h, u, bad) => UNCHANGED propVars
    BY Zenon DEF ReportProof, PunishBad
  <2>2. \A a, c, h, bad : ReportUnchosen(a, c, h, bad) => UNCHANGED propVars
    BY Zenon DEF ReportUnchosen, PunishBad
  <2> QED
    BY Zenon, <2>1, <2>2
<1> HIDE DEF Goal
<1>10. ASSUME \/ \E a \in Account : SetMemberJoinApply(a)
              \/ \E a, t \in Account : SetMemberRemoveApply(a, t)
              \/ \E a \in Account, ch \in Changes : SetConfigApply(a, ch)
              \/ \E a \in Account, sys \in BOOLEAN : ProposalWitnessApply(a, sys)
       PROVE  Goal
  <2>1. (\E a \in Account : SetMemberJoinApply(a)) => Goal
    BY Zenon, <1>2
  <2>2. (\E a, t \in Account : SetMemberRemoveApply(a, t)) => Goal
    BY Zenon, <1>2
  <2>3. (\E a \in Account, ch \in Changes : SetConfigApply(a, ch)) => Goal
    BY Zenon, <1>2
  <2>4. (\E a \in Account, sys \in BOOLEAN : ProposalWitnessApply(a, sys)) => Goal
    BY Zenon, <1>2
  <2> QED
    BY Zenon, <1>10, <2>1, <2>2, <2>3, <2>4
<1>11. \/ UNCHANGED propVars
       \/ \E a \in Account : SetMemberJoinApply(a)
       \/ \E a, t \in Account : SetMemberRemoveApply(a, t)
       \/ \E a \in Account, ch \in Changes : SetConfigApply(a, ch)
       \/ \E a \in Account, sys \in BOOLEAN : ProposalWitnessApply(a, sys)
       \/ \E a \in Account, i \in Proposed, v \in Verdicts :
             SetConfigApplyVote(a, i, v) \/ PublicVote(a, i, v)
       \/ \E a \in Account, i \in Proposed, extra \in Bids : CampaignApply(a, i, extra)
       \/ \E a \in Account, i \in Proposed, extra \in Bids :
             \E k \in DOMAIN props[i].bids : CampaignAddMargin(a, i, k, extra)
       \/ \E i \in Proposed : FinalizeExpired(i) \/ SetConfigFinalize(i)
  BY Zenon, <1>6, <1>7, <1>8, <1>9 DEF ContractNext, Apart
<1>12. Goal
  <2>1. (\E a \in Account, i \in Proposed, v \in Verdicts :
            SetConfigApplyVote(a, i, v) \/ PublicVote(a, i, v)) => Goal
    BY Zenon, <1>3
  <2>2. (\E a \in Account, i \in Proposed, extra \in Bids : CampaignApply(a, i, extra)) => Goal
    BY Zenon, <1>4
  <2>3. (\E a \in Account, i \in Proposed, extra \in Bids :
            \E k \in DOMAIN props[i].bids : CampaignAddMargin(a, i, k, extra)) => Goal
    BY Zenon, <1>4
  <2>4. (\E i \in Proposed : FinalizeExpired(i) \/ SetConfigFinalize(i)) => Goal
    BY Zenon, <1>5
  <2> QED
    BY Zenon, <1>1, <1>10, <1>11, <2>1, <2>2, <2>3, <2>4
<1> QED
  BY Zenon, <1>12 DEF Goal

(* In the beginning there is no proposal. *)
LEMMA ProposalInit == Init => ProposalInv /\ CouncilInv
<1>1. ProposalsInit => ProposalInv
  BY DEF ProposalsInit, ProposalInv, LaterClosed
<1>2. MembersInit => CouncilInv
  BY Zenon, GenesisCouncilStands DEF MembersInit, CouncilInv, CouncilTable
<1> QED
  BY Zenon, <1>1, <1>2 DEF Init

(* The council and the proposals, in any step. *)
LEMMA MembersNext ==
    ASSUME SettleInv, CouncilInv, ProposalInv, [Next]_vars
    PROVE  CouncilInv' /\ ProposalInv' /\ [ConfigStep]_vars
<1>1. number \in Nat /\ load.named \subseteq Account
  BY Zenon, MemberConstants DEF SettleInv, StoreInv, SettleTypes
<1>2. CASE ContractNext
  <2>1. number' \in Nat /\ number <= number'
    BY Zenon, <1>2, NumberGrows DEF SettleInv, StoreInv
  <2> QED
    BY Zenon, <1>1, <1>2, <2>1, CouncilNext, ProposalNext
<1>3. CASE UNCHANGED <<memberVars, propVars>>
  <2>1. number' \in Nat /\ number <= number' /\ UNCHANGED propVars /\ council' = council
    BY <1>1, <1>3 DEF memberVars
  <2>2. CouncilInv'
    BY Zenon, <2>1 DEF CouncilInv, CouncilTable
  <2> QED
    BY Zenon, <1>1, <2>1, <2>2, ProposalsKept
<1> QED
  BY Zenon, <1>2, <1>3 DEF Next, vars

(* The council and the proposals keep their invariant in every behaviour.  *)
THEOREM MembersInvariance == Spec => [](CouncilInv /\ ProposalInv)
<1>1. SettleInv /\ (CouncilInv /\ ProposalInv) /\ [Next]_vars => (CouncilInv /\ ProposalInv)'
  BY Zenon, MembersNext
<1> QED
  BY <1>1, ProposalInit, SettlementInvariance, PTL DEF Spec

(* councilExit, removeInvalid and the vote on a council member always      *)
(* leave a council, and its list is that of the valid members.             *)
THEOREM CouncilAlwaysStands == Spec => []CouncilStands
<1>1. CouncilInv /\ ProposalInv => CouncilStands
  BY Zenon DEF CouncilInv, CouncilTable, CouncilStands
<1> QED
  BY <1>1, MembersInvariance, PTL

(* ProposalIsCreate looks at the latest proposal only, and yet there is at *)
(* most one undecided configuration change and one of each campaign.       *)
THEOREM OneProposalOpen == Spec => []OneOpen
<1>1. ASSUME ProposalInv PROVE OneOpen
  <2>1. DOMAIN props = 1..Len(props) /\ Len(props) \in Nat
    BY <1>1 DEF ProposalInv
  <2>2. \A i, j \in DOMAIN props : i < j \/ j < i \/ i = j
    BY <2>1
  <2> QED
    BY Zenon, <1>1, <2>1, <2>2 DEF ProposalInv, LaterClosed, OneOpen, Single
<1> QED
  BY <1>1, MembersInvariance, PTL

(* Only a configuration change that two thirds of its council agreed to    *)
(* and that SetConfigFinalize closes as passed changes a setting.          *)
THEOREM ConfigChangedByCouncil == Spec => ConfigByCouncil
<1>1. SettleInv /\ (CouncilInv /\ ProposalInv) /\ [Next]_vars => [ConfigStep]_vars
  BY Zenon, MembersNext
<1> QED
  BY <1>1, MembersInvariance, SettlementInvariance, PTL DEF Spec, ConfigByCouncil, ConfigStep

=============================================================================
