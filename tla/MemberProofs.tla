----------------------------- MODULE MemberProofs -----------------------------
(***************************************************************************)
(* Proofs about the members of the system contract, call by call, on the   *)
(* tables that a call works on: the loops over lists, the witness groups,  *)
(* the witnesses and the council, and what the witnesses earn.             *)
(* ContractProofs puts the calls together.                                 *)
(***************************************************************************)
EXTENDS Settlement, WellFoundedInduction, TLAPS

-----------------------------------------------------------------------------
(* Numbers and loops.                                                      *)


(* A set of numbers has a least one. *)
LEMMA LeastNumber ==
    ASSUME NEW T \in SUBSET Nat, T # {} PROVE \E t \in T : \A y \in T : t <= y
<1> DEFINE R == OpToRel(<, Nat)
<1>1. IsWellFoundedOn(R, Nat)
  BY Zenon, NatLessThanWellFounded
<1>2. \A x, y \in Nat : x < y => <<x, y>> \in R
  BY Zenon DEF OpToRel
<1> HIDE DEF R
<1>3. PICK t \in T : \A y \in T : ~(<<y, t>> \in R)
  BY Zenon, <1>1, WFMin
<1>4. \A y \in T : ~(y < t)
  BY Zenon, <1>2, <1>3
<1> QED
  BY <1>3, <1>4

(* A set of indices that has 0 and with k the next one has them all. *)
LEMMA UpTo ==
    ASSUME NEW n \in Nat, NEW A, 0 \in A, \A k \in 0..(n - 1) : k \in A => k + 1 \in A
    PROVE  n \in A
<1> SUFFICES ASSUME n \notin A
             PROVE  FALSE
  BY Zenon
<1> DEFINE T == {k \in 0..n : k \notin A}
<1>1. PICK t \in T : \A y \in T : t <= y
  <2>1. T \in SUBSET Nat /\ n \in T
    OBVIOUS
  <2> QED
    BY Zenon, <2>1, LeastNumber
<1>2. t # 0 /\ t - 1 \in 0..(n - 1) /\ t - 1 \notin T /\ t = (t - 1) + 1
  BY <1>1
<1> QED
  BY <1>1, <1>2

(* The highest of the first numbers. *)
LEMMA MaxUpTo ==
    ASSUME NEW k \in Nat, NEW t \in SUBSET (1..k), t # {}
    PROVE  /\ Max(t) \in t /\ \A y \in t : y <= Max(t)
<1> DEFINE A == {i \in Nat : \A y \in t : y <= i}
<1>1. A \in SUBSET Nat /\ k \in A
  OBVIOUS
<1>2. PICK m \in A : \A i \in A : m <= i
  BY Zenon, <1>1, LeastNumber
<1>3. m \in t
  <2> SUFFICES ASSUME m \notin t PROVE FALSE
    BY Zenon
  <2>1. PICK y \in t : TRUE
    BY Zenon
  <2>2. m \in Nat /\ m > 0 /\ \A z \in t : z <= m - 1
    BY <1>2, <2>1
  <2>3. m - 1 \in A
    BY <2>2
  <2> QED
    BY <1>2, <2>2, <2>3
<1>4. \E x \in t : \A y \in t : x >= y
  BY Zenon, <1>2, <1>3
<1>5. Max(t) \in t /\ \A y \in t : Max(t) >= y
  BY <1>4, Zenon DEF Max
<1>6. PICK x \in t : x = Max(t) /\ \A y \in t : x >= y
  BY <1>5, Zenon
<1>7. \A y \in t : y <= x
  BY Zenon, <1>6
<1> QED
  BY <1>6, <1>7, Zenon

(* The body of the loops that the calls of the contract make. *)
Turn(loop, x, y) ==
    CASE loop = "RemoveOne" -> RemoveOne(x, y)
      [] loop = "AddCouncil" -> AddCouncil(x, 0, y, CouncilMargin)

(* g holds what the loop over the first items has made of b.  FoldLeft is  *)
(* defined by such a g over the sets of indices.                           *)
Runs(g, loop, b, s, n) ==
    g = [t \in SUBSET (1..n) |->
            IF t = {} THEN b ELSE Turn(loop, g[t \ {Max(t)}], s[Max(t)])]

(* A loop over a sequence runs to its end. *)
LEMMA LoopRuns ==
    ASSUME NEW loop, NEW b, NEW s, NEW n \in Nat
    PROVE  \E g : Runs(g, loop, b, s, n)
<1> DEFINE A == {k \in 0..n : \E g : Runs(g, loop, b, s, k)}
<1>1. 0 \in A
  <2> DEFINE g == [t \in SUBSET (1..0) |-> b]
  <2>1. \A t \in SUBSET (1..0) : t = {}
    OBVIOUS
  <2>2. Runs(g, loop, b, s, 0)
    BY Zenon, <2>1 DEF Runs
  <2> QED
    BY <2>2
<1>2. ASSUME NEW k \in 0..(n - 1), k \in A
      PROVE  k + 1 \in A
  <2>1. PICK g : Runs(g, loop, b, s, k)
    BY Zenon, <1>2
  <2> DEFINE T(x, y) == Turn(loop, x, y)
             h == [t \in SUBSET (1..(k + 1)) |->
                     IF t = {} THEN b ELSE T(g[t \ {Max(t)}], s[Max(t)])]
  <2>2. \A t \in SUBSET (1..k) : g[t] = IF t = {} THEN b ELSE T(g[t \ {Max(t)}], s[Max(t)])
    BY <2>1, Zenon DEF Runs
  <2> HIDE DEF T
  <2>3. ASSUME NEW t \in SUBSET (1..(k + 1)), t # {}
        PROVE  t \ {Max(t)} \in SUBSET (1..k)
    <3>1. PICK m \in t : m = Max(t) /\ \A y \in t : y <= m
      <4>1. k + 1 \in Nat
        OBVIOUS
      <4> QED
        BY <2>3, <4>1, MaxUpTo, Zenon
    <3>2. \A y \in t : y # m => y \in 1..k
      BY <3>1
    <3> QED
      BY Zenon, <3>1, <3>2
  <2>4. SUBSET (1..k) \subseteq SUBSET (1..(k + 1))
    OBVIOUS
  <2>5. \A t \in SUBSET (1..k) : h[t] = g[t]
    BY Zenon, <2>2, <2>4
  <2>6. h = [t \in SUBSET (1..(k + 1)) |->
                IF t = {} THEN b ELSE T(h[t \ {Max(t)}], s[Max(t)])]
    BY Zenon, <2>3, <2>5
  <2>7. Runs(h, loop, b, s, k + 1)
    BY <2>6, Zenon DEF Runs, T
  <2> QED
    BY <2>7
<1> QED
  BY Zenon, <1>1, <1>2, UpTo

(* Before the first turn. *)
LEMMA LoopStarts ==
    ASSUME NEW loop, NEW b, NEW s, NEW n \in Nat, NEW g, Runs(g, loop, b, s, n)
    PROVE  g[1..0] = b
<1>1. g[{}] = b
  BY Zenon DEF Runs
<1>2. 1..0 = {}
  OBVIOUS
<1> QED
  BY Zenon, <1>1, <1>2

(* Turn by turn. *)
LEMMA LoopTurns ==
    ASSUME NEW loop, NEW b, NEW s, NEW n \in Nat, NEW g, Runs(g, loop, b, s, n)
    PROVE  \A k \in 0..(n - 1) : g[1..(k + 1)] = Turn(loop, g[1..k], s[k + 1])
<1> DEFINE T(x, y) == Turn(loop, x, y)
<1>1. \A t \in SUBSET (1..n) : g[t] = IF t = {} THEN b ELSE T(g[t \ {Max(t)}], s[Max(t)])
  BY Zenon DEF Runs
<1> HIDE DEF T
<1>2. ASSUME NEW k \in 0..(n - 1)
      PROVE  g[1..(k + 1)] = T(g[1..k], s[k + 1])
  <2>1. k + 1 \in Nat /\ k + 1 <= n /\ 1 \in 1..(k + 1)
    OBVIOUS
  <2>5. 1..(k + 1) \subseteq 1..n
    BY <2>1
  <2>2. Max(1..(k + 1)) \in 1..(k + 1) /\ \A y \in 1..(k + 1) : y <= Max(1..(k + 1))
    BY Zenon, <2>1, MaxUpTo
  <2>3. Max(1..(k + 1)) = k + 1
    BY <2>2
  <2>4. (1..(k + 1)) \ {k + 1} = 1..k
    OBVIOUS
  <2> QED
    BY Zenon, <1>1, <2>1, <2>3, <2>4, <2>5
<1> QED
  BY Zenon, <1>2 DEF T

(* The loop of removeInvalid over its addresses. *)
LEMMA LoopRemoveOne ==
    ASSUME NEW b, NEW s, NEW n \in Nat, DOMAIN s = 1..n
    PROVE  \E g : Runs(g, "RemoveOne", b, s, n) /\ FoldLeft(RemoveOne, b, s) = g[1..n]
<1> DEFINE R(g) == g = [t \in SUBSET DOMAIN s |->
                        IF t = {} THEN b ELSE RemoveOne(g[t \ {Max(t)}], s[Max(t)])]
<1>1. FoldLeft(RemoveOne, b, s) = (CHOOSE g : R(g))[DOMAIN s]
  BY Zenon DEF FoldLeft, MapThenFoldSet
<1>2. \A g : R(g) <=> Runs(g, "RemoveOne", b, s, n)
  BY Zenon DEF Runs, Turn
<1>3. R(CHOOSE g : R(g))
  BY Zenon, <1>2, LoopRuns
<1> QED
  BY Zenon, <1>1, <1>2, <1>3

(* The loop of the genesis block over the council. *)
LEMMA LoopAddCouncil ==
    ASSUME NEW b, NEW s, NEW n \in Nat, DOMAIN s = 1..n
    PROVE  \E g : /\ Runs(g, "AddCouncil", b, s, n)
                  /\ FoldLeft(LAMBDA c, a : AddCouncil(c, 0, a, CouncilMargin), b, s) = g[1..n]
<1> DEFINE R(g) == g = [t \in SUBSET DOMAIN s |->
                        IF t = {} THEN b
                        ELSE AddCouncil(g[t \ {Max(t)}], 0, s[Max(t)], CouncilMargin)]
<1>1. FoldLeft(LAMBDA c, a : AddCouncil(c, 0, a, CouncilMargin), b, s)
        = (CHOOSE g : R(g))[DOMAIN s]
  BY Zenon DEF FoldLeft, MapThenFoldSet
<1>2. \A g : R(g) <=> Runs(g, "AddCouncil", b, s, n)
  BY Zenon DEF Runs, Turn
<1>3. R(CHOOSE g : R(g))
  BY Zenon, <1>2, LoopRuns
<1> QED
  BY Zenon, <1>1, <1>2, <1>3


-----------------------------------------------------------------------------
(* The council.                                                            *)

(* The list r has the items of s but x, each once. *)
Without(r, s, x, S) ==
    /\ r \in Seq(S) /\ IsInjective(r) /\ Len(r) = Len(s) - 1
    /\ ToSet(r) = ToSet(s) \ {x}

(* StateSet.Remove takes out the one item, wherever it is. *)
LEMMA ItemRemoved ==
    ASSUME NEW S, NEW s \in Seq(S), NEW i \in 1..Len(s), IsInjective(s),
           NEW r, r = StateSetRemove(s, i)
    PROVE  Without(r, s, s[i], S)
<1>1. PICK n \in Nat : n = Len(s) /\ DOMAIN s = 1..n /\ i \in 1..n
  OBVIOUS
<1>2. /\ Front(s) \in Seq(S) /\ Len(Front(s)) = n - 1
      /\ \A k \in 1..(n - 1) : Front(s)[k] = s[k]
  BY <1>1 DEF Front
<1>3. /\ r \in Seq(S) /\ Len(r) = n - 1
      /\ \A k \in 1..(n - 1) : r[k] = IF k = i THEN s[n] ELSE s[k]
  <2>1. CASE i = n
    <3>1. r = Front(s)
      BY Zenon, <1>1, <2>1 DEF StateSetRemove
    <3> QED
      BY Zenon, <1>1, <1>2, <2>1, <3>1
  <2>2. CASE i # n
    <3>1. r = [Front(s) EXCEPT ![i] = s[n]] /\ s[n] \in S /\ i \in 1..(n - 1)
      <4>1. r = [Front(s) EXCEPT ![i] = Last(s)]
        BY Zenon, <1>1, <2>2 DEF StateSetRemove
      <4>2. i \in 1..(n - 1)
        BY <1>1, <2>2
      <4>3. s[n] \in S
        BY <1>1
      <4> QED
        BY Zenon, <1>1, <4>1, <4>2, <4>3 DEF Last
    <3>2. DOMAIN Front(s) = 1..(n - 1)
      BY <1>2
    <3> QED
      BY <1>1, <1>2, <3>1, <3>2
  <2> QED
    BY Zenon, <2>1, <2>2
<1>4. \A j, k \in 1..n : s[j] = s[k] => j = k
  BY Zenon, <1>1 DEF IsInjective
<1>5. DOMAIN r = 1..(n - 1)
  BY <1>3
<1>6. IsInjective(r)
  BY <1>1, <1>3, <1>4, <1>5 DEF IsInjective
<1>7. ASSUME NEW x \in ToSet(r)
      PROVE  x \in ToSet(s) \ {s[i]}
  <2>1. PICK k \in 1..(n - 1) : x = r[k]
    BY Zenon, <1>5 DEF ToSet
  <2>2. PICK j \in 1..n : x = s[j] /\ j # i
    <3>1. CASE k = i
      BY <1>1, <1>3, <2>1, <3>1
    <3>2. CASE k # i
      BY <1>1, <1>3, <2>1, <3>2
    <3> QED
      BY Zenon, <3>1, <3>2
  <2> QED
    BY Zenon, <1>1, <1>4, <2>2 DEF ToSet
<1>8. ASSUME NEW x \in ToSet(s), x # s[i]
      PROVE  x \in ToSet(r)
  <2>1. PICK j \in 1..n : x = s[j] /\ j # i
    BY Zenon, <1>1, <1>8 DEF ToSet
  <2>2. PICK k \in 1..(n - 1) : x = r[k]
    <3>1. CASE j = n
      <4>1. i \in 1..(n - 1)
        BY <1>1, <2>1, <3>1
      <4>2. r[i] = s[n]
        BY Zenon, <1>3, <4>1
      <4> QED
        BY Zenon, <2>1, <3>1, <4>1, <4>2
    <3>2. CASE j # n
      BY <1>1, <1>3, <2>1, <3>2
    <3> QED
      BY Zenon, <3>1, <3>2
  <2> QED
    BY Zenon, <1>5, <2>2 DEF ToSet
<1> QED
  BY Zenon, <1>1, <1>3, <1>6, <1>7, <1>8 DEF Without

(* A table of the council: its list has the valid members, each once. *)
CouncilTable(c) ==
    /\ DOMAIN c = {"list", "status", "margin", "since", "beat"}
    /\ c.list \in Seq(Account) /\ IsInjective(c.list)
    /\ c.status \in [Account -> {"none", "valid", "invalid"}]
    /\ c.margin \in [Account -> Nat]
    /\ ToSet(c.list) = {a \in Account : c.status[a] = "valid"}

(* addCouncil adds a newcomer. *)
LEMMA CouncilAdded ==
    ASSUME NEW c, CouncilTable(c), NEW a \in Account, c.status[a] = "none", NEW n,
           NEW v \in Nat, NEW t, t = AddCouncil(c, n, a, v)
    PROVE  /\ CouncilTable(t) /\ t.list # <<>>
           /\ \A b \in Account \ {a} : t.status[b] = c.status[b]
<1>1. /\ DOMAIN t = DOMAIN c /\ t.list = Append(c.list, a)
      /\ t.status = [c.status EXCEPT ![a] = "valid"]
      /\ t.margin = [c.margin EXCEPT ![a] = v]
  BY Zenon DEF AddCouncil, CouncilTable
<1>2. c.list \in Seq(Account) /\ a \notin ToSet(c.list)
  BY Zenon DEF CouncilTable
<1>3. /\ t.list \in Seq(Account) /\ Len(t.list) = Len(c.list) + 1 /\ t.list # <<>>
      /\ \A k \in 1..Len(c.list) : t.list[k] = c.list[k]
      /\ t.list[Len(c.list) + 1] = a
  BY <1>1, <1>2
<1>4. DOMAIN c.list = 1..Len(c.list) /\ DOMAIN t.list = 1..(Len(c.list) + 1) /\ Len(c.list) \in Nat
  BY <1>2, <1>3
<1>5. IsInjective(t.list)
  <2>1. PICK m \in Nat : m = Len(c.list)
    BY Zenon, <1>4
  <2>2. \A j, k \in 1..m : c.list[j] = c.list[k] => j = k
    BY Zenon, <1>4, <2>1 DEF CouncilTable, IsInjective
  <2>3. \A k \in 1..m : c.list[k] # a
    BY Zenon, <1>2, <1>4, <2>1 DEF ToSet
  <2>4. \A k \in 1..m : t.list[k] = c.list[k]
    BY Zenon, <1>3, <2>1
  <2>5. t.list[m + 1] = a
    BY Zenon, <1>3, <2>1
  <2>6. \A j, k \in 1..(m + 1) : t.list[j] = t.list[k] => j = k
    BY <2>2, <2>3, <2>4, <2>5
  <2> QED
    BY Zenon, <1>4, <2>1, <2>6 DEF IsInjective
<1>6. ToSet(t.list) = ToSet(c.list) \cup {a}
  <2>1. ASSUME NEW x \in ToSet(t.list) PROVE x \in ToSet(c.list) \cup {a}
    BY SMTT(30), <1>3, <1>4 DEF ToSet
  <2>2. ASSUME NEW x \in ToSet(c.list) \cup {a} PROVE x \in ToSet(t.list)
    BY <1>3, <1>4 DEF ToSet
  <2> QED
    BY Zenon, <2>1, <2>2
<1>7. /\ t.status \in [Account -> {"none", "valid", "invalid"}] /\ t.status[a] = "valid"
      /\ \A b \in Account \ {a} : t.status[b] = c.status[b]
      /\ t.margin \in [Account -> Nat]
  BY <1>1 DEF CouncilTable
<1>8. ToSet(t.list) = {b \in Account : t.status[b] = "valid"}
  BY Zenon, <1>6, <1>7 DEF CouncilTable
<1> QED
  BY Zenon, <1>1, <1>3, <1>5, <1>7, <1>8 DEF CouncilTable

(* removeCouncil takes out a valid member, but never the last. *)
LEMMA CouncilRemoved ==
    ASSUME NEW c, CouncilTable(c), c.list # <<>>, NEW a \in Account, c.status[a] = "valid",
           CanRemoveCouncil(c, a), NEW t, t = RemoveCouncil(c, a)
    PROVE  /\ CouncilTable(t) /\ t.list # <<>>
           /\ \A b \in Account : t.status[b] = "none" <=> c.status[b] = "none"
<1>1. /\ DOMAIN t = DOMAIN c /\ t.list = StateSetRemove(c.list, IndexOf(c.list, a))
      /\ t.status = [c.status EXCEPT ![a] = "invalid"] /\ t.margin = c.margin
  BY Zenon DEF RemoveCouncil, CouncilTable
<1>2. c.list \in Seq(Account) /\ IsInjective(c.list) /\ a \in ToSet(c.list)
  BY Zenon DEF CouncilTable
<1>3. IndexOf(c.list, a) \in 1..Len(c.list) /\ c.list[IndexOf(c.list, a)] = a
  BY <1>2 DEF ToSet, IndexOf
<1>4. PICK l, i : l = c.list /\ i \in 1..Len(l) /\ l[i] = a /\ t.list = StateSetRemove(l, i)
  BY Zenon, <1>1, <1>3
<1>5. /\ t.list \in Seq(Account) /\ IsInjective(t.list) /\ Len(t.list) = Len(l) - 1
      /\ ToSet(t.list) = ToSet(l) \ {a}
  <2>1. l \in Seq(Account) /\ IsInjective(l)
    BY Zenon, <1>2, <1>4
  <2>2. PICK q : q = t.list /\ q = StateSetRemove(l, i)
    BY <1>4, Zenon
  <2>3. Without(q, l, l[i], Account)
    BY Zenon, <1>4, <2>1, <2>2, ItemRemoved
  <2> QED
    BY <1>4, <2>2, <2>3, Zenon DEF Without
<1>6. PICK n \in Nat : n = Len(l) /\ n # 0 /\ n # 1
  <2>1. Len(l) # 1 /\ l # <<>>
    BY Zenon, <1>4 DEF CanRemoveCouncil
  <2>2. Len(l) \in Nat /\ (Len(l) = 0 => l = <<>>)
    BY <1>2, <1>4
  <2> QED
    BY Zenon, <2>1, <2>2
<1>7. t.list # <<>>
  BY <1>5, <1>6
<1>8. /\ t.status \in [Account -> {"none", "valid", "invalid"}] /\ t.status[a] = "invalid"
      /\ \A b \in Account \ {a} : t.status[b] = c.status[b]
  BY <1>1 DEF CouncilTable
<1>9. ToSet(t.list) = {b \in Account : t.status[b] = "valid"}
  BY <1>4, <1>5, <1>8 DEF CouncilTable
<1> QED
  BY Zenon, <1>1, <1>5, <1>7, <1>8, <1>9 DEF CouncilTable

CouncilInv == CouncilTable(council) /\ council.list # <<>>

(* The council of the genesis block: its members are all different. *)
LEMMA GenesisCouncilStands == CouncilTable(GenesisCouncil) /\ GenesisCouncil.list # <<>>
<1>1. PICK n \in Nat : /\ n > 0 /\ n = Len(Councils) /\ DOMAIN Councils = 1..n
                       /\ \A k \in 1..n : Councils[k] \in Account
  BY MemberConstants
<1>2. \A j, k \in 1..n : Councils[j] = Councils[k] => j = k
  <2> DEFINE rest == SysWitnesses \o UserWitnesses
  <2>1. /\ Councils \in Seq(Account) /\ SysWitnesses \in Seq(Account)
        /\ UserWitnesses \in Seq(Account)
    BY Zenon, MemberConstants
  <2>2. IsInjective(Councils \o SysWitnesses \o UserWitnesses)
    BY Zenon, MemberConstants
  <2>3. PICK l \in Seq(Account) : l = Councils \o SysWitnesses
    <3>1. Councils \o SysWitnesses \in Seq(Account)
      BY <2>1
    <3> QED
      BY Zenon, <3>1
  <2>4. /\ Len(l) \in Nat /\ n <= Len(l) /\ \A k \in 1..n : l[k] = Councils[k]
    BY <1>1, <2>1, <2>3
  <2>5. PICK w \in Seq(Account) : w = l \o UserWitnesses /\ IsInjective(w)
    <3>1. l \o UserWitnesses \in Seq(Account)
      BY <2>1
    <3> QED
      BY Zenon, <2>2, <2>3, <3>1
  <2>6. Len(w) \in Nat /\ Len(l) <= Len(w) /\ \A k \in 1..Len(l) : w[k] = l[k]
    BY <2>1, <2>5
  <2>7. \A k \in 1..n : k \in DOMAIN w /\ w[k] = Councils[k]
    BY <2>4, <2>6
  <2> QED
    BY Zenon, <2>5, <2>7 DEF IsInjective
<1> DEFINE Good(x, k) == /\ CouncilTable(x) /\ (k > 0 => x.list # <<>>)
                         /\ \A j \in 1..n : j > k => x.status[Councils[j]] = "none"
<1>3. Good(NoCouncil, 0)
  BY <1>1 DEF NoCouncil, CouncilTable, IsInjective, ToSet
<1>4. PICK g : Runs(g, "AddCouncil", NoCouncil, Councils, n) /\ GenesisCouncil = g[1..n]
  BY Zenon, <1>1, LoopAddCouncil DEF GenesisCouncil
<1>9. PICK loop, b, s : loop = "AddCouncil" /\ b = NoCouncil /\ s = Councils
  BY Zenon
<1>10. Runs(g, loop, b, s, n)
  BY Zenon, <1>4, <1>9
<1>11. g[1..0] = b
  BY Zenon, <1>10, LoopStarts
<1>5. \A k \in 0..(n - 1) : g[1..(k + 1)] = Turn(loop, g[1..k], s[k + 1])
  BY <1>10, LoopTurns
<1> DEFINE A == {k \in 0..n : Good(g[1..k], k)}
<1> HIDE DEF Good
<1>12. Good(g[1..0], 0)
  BY Zenon, <1>3, <1>9, <1>11
<1>6. 0 \in A
  BY <1>1, <1>12
<1>7. ASSUME NEW k \in 0..(n - 1), k \in A
      PROVE  k + 1 \in A
  <2>1. PICK a \in Account : a = Councils[k + 1]
    BY <1>1
  <2>2. g[1..(k + 1)] = AddCouncil(g[1..k], 0, a, CouncilMargin)
    BY Zenon, <1>5, <1>9, <2>1 DEF Turn
  <2>11. CouncilMargin \in Nat
    BY Zenon, MemberConstants
  <2>3. PICK y, t, m, v : /\ v \in Nat /\ y = g[1..k] /\ t = g[1..(k + 1)]
                          /\ t = AddCouncil(y, m, a, v)
    BY Zenon, <2>2, <2>11
  <2>4. Good(y, k)
    BY Zenon, <1>7, <2>3
  <2>5. CouncilTable(y) /\ y.status[a] = "none"
    BY <1>1, <2>1, <2>4 DEF Good
  <2>6. t = AddCouncil(y, m, a, v)
    BY Zenon, <2>3
  <2>7. /\ CouncilTable(t) /\ t.list # <<>>
        /\ \A c \in Account \ {a} : t.status[c] = y.status[c]
    BY <2>3, <2>5, <2>6, CouncilAdded
  <2>8. \A j \in 1..n : j > k + 1 => t.status[Councils[j]] = "none"
    BY <1>1, <1>2, <2>1, <2>4, <2>7 DEF Good
  <2>9. Good(g[1..(k + 1)], k + 1)
    BY Zenon, <2>3, <2>7, <2>8 DEF Good
  <2>10. k + 1 \in 0..n
    BY <1>1
  <2> QED
    BY Zenon, <2>9, <2>10
<1>8. n \in A
  BY Zenon, <1>1, <1>6, <1>7, UpTo
<1> QED
  BY Zenon, <1>1, <1>4, <1>8 DEF Good

(* What removeInvalid carries through its loop. *)
Removing(s) ==
    /\ DOMAIN s = {"wit", "council", "held", "lost", "removed", "few", "ok"}
    /\ CouncilTable(s.council) /\ s.council.list # <<>>

(* One address: a council member is removed only when another one stays. *)
LEMMA RemovedOne ==
    ASSUME NEW s, Removing(s), NEW a \in Account, NEW t, t = RemoveOne(s, a)
    PROVE  Removing(t)
<1>1. PICK v : v = TimeoutVerdict(s.wit, s.council, a)
  BY Zenon
<1>2. /\ v \in {"left", "stranger", "user", "system", "council", "timely"}
      /\ v = "council" => s.council.status[a] = "valid"
  BY Zenon, <1>1 DEF TimeoutVerdict
<1>3. PICK w : w = WitnessExit(s.wit, a, "out")
  BY Zenon
<1> DEFINE out == [s EXCEPT !.wit = w, !.removed = @ \cup {a},
                         !.held[a] = @ - WitnessKeeps(s.wit.margin[a]),
                         !.lost[a] = @ + s.wit.margin[a]
                                       - WitnessKeeps(s.wit.margin[a])]
           m == s.council.margin[a]
<1>4. t = IF ~s.ok \/ v = "left" THEN s
          ELSE CASE v \in {"timely", "stranger"} -> [s EXCEPT !.ok = FALSE]
          [] v = "system" -> out
          [] v = "user" ->
                IF s.few THEN s ELSE [out EXCEPT !.few = ActiveUsers(w) <= UCMin]
          [] v = "council" ->
                IF ~CanRemoveCouncil(s.council, a) THEN [s EXCEPT !.ok = FALSE]
                ELSE [s EXCEPT !.council = RemoveCouncil(@, a),
                               !.removed = @ \cup {a},
                               !.held[a] = @ - CouncilKeeps(m),
                               !.lost[a] = @ + m - CouncilKeeps(m)]
  BY <1>1, <1>3 DEF RemoveOne
<1>5. DOMAIN out = DOMAIN s /\ out.council = s.council
  BY Zenon DEF Removing
<1> HIDE DEF out
<1>6. \/ DOMAIN t = DOMAIN s /\ t.council = s.council
      \/ /\ DOMAIN t = DOMAIN s /\ v = "council" /\ CanRemoveCouncil(s.council, a)
         /\ t.council = RemoveCouncil(s.council, a)
  <2>1. CASE ~s.ok \/ v = "left"
    BY Zenon, <1>4, <2>1
  <2>2. CASE s.ok /\ v \in {"timely", "stranger"}
    BY Zenon, <1>4, <2>2 DEF Removing
  <2>3. CASE s.ok /\ v \in {"system", "user"}
    BY Zenon, <1>4, <1>5, <2>3 DEF Removing
  <2>4. CASE s.ok /\ v = "council"
    BY Zenon, <1>4, <2>4 DEF Removing
  <2> QED
    BY Zenon, <1>2, <2>1, <2>2, <2>3, <2>4
<1>7. CASE t.council = s.council /\ DOMAIN t = DOMAIN s
  BY Zenon, <1>7 DEF Removing
<1>8. CASE /\ DOMAIN t = DOMAIN s /\ v = "council" /\ CanRemoveCouncil(s.council, a)
           /\ t.council = RemoveCouncil(s.council, a)
  <2>1. PICK c, d : c = s.council /\ d = t.council
    BY Zenon
  <2>2. /\ CouncilTable(c) /\ c.list # <<>> /\ c.status[a] = "valid"
        /\ CanRemoveCouncil(c, a) /\ d = RemoveCouncil(c, a)
    BY Zenon, <1>2, <1>8, <2>1 DEF Removing
  <2>3. CouncilTable(d) /\ d.list # <<>>
    BY Zenon, <2>2, CouncilRemoved
  <2> QED
    BY Zenon, <1>8, <2>1, <2>3 DEF Removing
<1> QED
  BY Zenon, <1>6, <1>7, <1>8

(* All addresses. *)
LEMMA RemovedAll ==
    ASSUME NEW l \in Seq(Account)
    PROVE  CouncilInv /\ RemoveTimeout(l) => CouncilInv'
<1>0. SUFFICES ASSUME CouncilInv, RemoveTimeout(l)
               PROVE  CouncilInv'
  BY Zenon
<1>1. PICK n \in Nat : n = Len(l) /\ DOMAIN l = 1..n /\ \A k \in 1..n : l[k] \in Account
  OBVIOUS
<1>2. PICK b : b = [wit |-> wit, council |-> council, held |-> held, lost |-> lost,
                    removed |-> {}, few |-> FALSE, ok |-> TRUE]
  BY Zenon
<1>3. Removing(b)
  BY Zenon, <1>0, <1>2 DEF Removing, CouncilInv
<1>4. PICK g : Runs(g, "RemoveOne", b, l, n) /\ FoldLeft(RemoveOne, b, l) = g[1..n]
  BY Zenon, <1>1, LoopRemoveOne
<1>5. PICK loop : loop = "RemoveOne"
  BY Zenon
<1>6. Runs(g, loop, b, l, n)
  BY Zenon, <1>4, <1>5
<1>7. g[1..0] = b
  BY Zenon, <1>6, LoopStarts
<1>8. \A k \in 0..(n - 1) : g[1..(k + 1)] = Turn(loop, g[1..k], l[k + 1])
  BY <1>6, LoopTurns
<1> DEFINE A == {k \in 0..n : Removing(g[1..k])}
<1>9. Removing(g[1..0])
  BY Zenon, <1>3, <1>7
<1>10. 0 \in A
  BY <1>1, <1>9
<1>11. ASSUME NEW k \in 0..(n - 1), k \in A
       PROVE  k + 1 \in A
  <2>1. PICK a \in Account : a = l[k + 1]
    BY <1>1
  <2>2. g[1..(k + 1)] = RemoveOne(g[1..k], a)
    BY Zenon, <1>5, <1>8, <2>1 DEF Turn
  <2>3. PICK s, t : s = g[1..k] /\ t = g[1..(k + 1)] /\ t = RemoveOne(s, a)
    BY Zenon, <2>2
  <2>4. Removing(t)
    BY Zenon, <1>11, <2>3, RemovedOne
  <2>5. k + 1 \in 0..n
    BY <1>1
  <2> QED
    BY Zenon, <2>3, <2>4, <2>5
<1>12. n \in A
  BY Zenon, <1>1, <1>10, <1>11, UpTo
<1>13. council' = FoldLeft(RemoveOne, b, l).council
  BY Zenon, <1>0, <1>2 DEF RemoveTimeout
<1>14. Removing(g[1..n]) /\ council' = g[1..n].council
  BY Zenon, <1>4, <1>12, <1>13
<1> QED
  BY Zenon, <1>14 DEF Removing, CouncilInv, CouncilTable

(* A member that exits or is voted out leaves at least one other. *)
LEMMA MemberLeft ==
    ASSUME CouncilInv, NEW a \in Account, council.status[a] = "valid",
           CanRemoveCouncil(council, a), council' = RemoveCouncil(council, a)
    PROVE  CouncilInv'
<1>1. PICK c, d : c = council /\ d = council'
  BY Zenon
<1>2. /\ CouncilTable(c) /\ c.list # <<>> /\ c.status[a] = "valid"
      /\ CanRemoveCouncil(c, a) /\ d = RemoveCouncil(c, a)
  BY Zenon, <1>1 DEF CouncilInv
<1>3. CouncilTable(d) /\ d.list # <<>>
  BY Zenon, <1>2, CouncilRemoved
<1> QED
  BY Zenon, <1>1, <1>3 DEF CouncilInv, CouncilTable

(* An accepted applicant joins. *)
LEMMA MemberJoined ==
    ASSUME CouncilInv, NEW a \in Account, council.status[a] = "none", NEW m, NEW v \in Nat,
           council' = AddCouncil(council, m, a, v)
    PROVE  CouncilInv'
<1>1. PICK c, d : c = council /\ d = council'
  BY Zenon
<1>2. CouncilTable(c) /\ c.status[a] = "none" /\ d = AddCouncil(c, m, a, v)
  BY Zenon, <1>1 DEF CouncilInv
<1>3. CouncilTable(d) /\ d.list # <<>>
  BY <1>2, CouncilAdded
<1> QED
  BY Zenon, <1>1, <1>3 DEF CouncilInv, CouncilTable

-----------------------------------------------------------------------------
(* The settlement: its inductive invariant.                                *)

Report == [fee : Nat, last : SUBSET Stored]
Reports == Period \X ToSet(Lib)

SettleTypes ==
    /\ load \in Loads /\ number \in Nat \ {0} /\ number <= load.height
    /\ phase \in [Stored -> {"none", "body", "receipts", "post"}]
    /\ db \in [body : SUBSET Stored, receipts : SUBSET Stored, head : SUBSET Stored,
               todo : SUBSET Stored, report : [Reports -> Report]]
    /\ calc \in [does : {"start", "deaf", "listen", "pass"}, units : Seq(Stored),
                 old : SUBSET Stored]
    /\ purse \in [next : [ToSet(Lib) -> Nat], last : [ToSet(Lib) -> Nat]]
    /\ earned \in [counted : [Stored -> Nat], twice : SUBSET Stored,
                   rewards : [Reports -> Nat], fees : [Reports -> Nat]]

(* A unit that is being stored is not known yet, its parents are; what the *)
(* service has to do with is known.                                        *)
Storing ==
    /\ \A u \in Stored :
        /\ phase[u] \in {"body", "receipts"} =>
              u \in db.body /\ u \notin db.head /\ Parents(u) \subseteq db.head
        /\ phase[u] = "receipts" => u \in db.receipts
        /\ phase[u] = "post" => u \in db.head
        /\ phase[u] # "none" \/ u \in db.head => u.sc <= number
    /\ db.todo \subseteq db.head
    /\ calc.old \subseteq db.head
    /\ \A i \in 1..Len(calc.units) : calc.units[i] \in db.head

(* A report whose last unit is one of the witness's own has counted it. *)
LastCounted ==
    \A u \in Stored :
        <<PeriodOf(u), u.by>> \in Reports /\ db.report[<<PeriodOf(u), u.by>>].last = {u}
            => earned.counted[u] > 0

(* The event of the unit is on its way to the service, or waits there. *)
Awaited(u) ==
    phase[u] = "post" \/ \E i \in 1..Len(calc.units) : calc.units[i] = u

(* A unit has at most one chance to be counted, unless the daily pass met  *)
(* its mark while its event was to come.                                   *)
OneChance ==
    /\ \A i, j \in 1..Len(calc.units) : calc.units[i] = calc.units[j] => i = j
    /\ \A i \in 1..Len(calc.units) : phase[calc.units[i]] # "post"
    /\ \A u \in Stored \ earned.twice :
        /\ u \in calc.old => ~Awaited(u)
        /\ u \notin db.head \/ u \in db.todo \/ u \in calc.old \/ Awaited(u)
              => earned.counted[u] = 0

(* What was paid lies before the marks of the purse. *)
Paid ==
    \A at \in Reports :
        /\ at[1] >= purse.next[at[2]] => earned.fees[at] = 0
        /\ at[1] > purse.last[at[2]] => earned.rewards[at] = 0

(* A reward is paid only for a period that is over for a while. *)
InPast ==
    \A a \in ToSet(Lib) : purse.last[a] <= SafeSub(GetSettlePeriod(number), WithdrawJD)

StoreInv == SettleTypes /\ Storing /\ StoredWhole
CountInv == LastCounted /\ OneChance /\ WorkKept /\ CountedOnce
PayInv == Paid /\ InPast /\ PaidOnce

SettleInv == StoreInv /\ CountInv /\ PayInv

-----------------------------------------------------------------------------
(* The operators of the model.                                             *)

(* The settlement period grows with the height. *)
LEMMA PeriodMonotone ==
    ASSUME NEW m \in Nat, NEW n \in Nat, m <= n
    PROVE  /\ GetSettlePeriod(m) \in Nat \ {0}
           /\ GetSettlePeriod(m) <= GetSettlePeriod(n)
<1> DEFINE B == BillingPeriod
<1>1. B \in Nat \ {0}
  BY Zenon, SettlementConstants
<1> HIDE DEF B
<1>2. ASSUME NEW k \in Nat, B < k
      PROVE  (k + B - 1) \div B \in Nat \ {0}
  BY <1>1, <1>2
<1>3. ASSUME B < m
      PROVE  (m + B - 1) \div B <= (n + B - 1) \div B
  BY <1>1, <1>3
<1> QED
  BY <1>1, <1>2, <1>3 DEF GetSettlePeriod, B

(* The members of a sequence. *)
LEMMA SeqMembers ==
    ASSUME NEW S, NEW s \in Seq(S), NEW x
    PROVE  x \in ToSet(s) <=> \E i \in 1..Len(s) : s[i] = x
  BY DEF ToSet

(* A unit whose system unit is known counts for a period there is. *)
LEMMA UnitReported ==
    ASSUME SettleTypes, NEW u \in Stored, u.sc <= number
    PROVE  <<PeriodOf(u), u.by>> \in Reports
<1>1. u.sc \in Nat /\ load.height \in Nat /\ u.sc <= load.height /\ u.by \in ToSet(Lib)
  BY SMTT(30), SettlementConstants, MemberConstants DEF SettleTypes
<1>2. PeriodOf(u) \in Nat \ {0} /\ PeriodOf(u) <= GetSettlePeriod(load.height)
  BY Zenon, <1>1, PeriodMonotone DEF PeriodOf
<1>3. GetSettlePeriod(load.height) \in Nat
  BY <1>1, PeriodMonotone
<1> QED
  BY <1>1, <1>2, <1>3 DEF Reports, Period
-----------------------------------------------------------------------------
(* The settlement keeps its invariant.                                     *)

(* A sequence without its first element. *)
LEMMA TailOne ==
    ASSUME NEW S, NEW s \in Seq(S), s # <<>>
    PROVE  /\ Len(s) \in Nat \ {0} /\ Head(s) = s[1] /\ s[1] \in S
           /\ Tail(s) \in Seq(S) /\ Len(Tail(s)) = Len(s) - 1
           /\ \A i \in 1..Len(Tail(s)) : Tail(s)[i] = s[i + 1]
  OBVIOUS

(* The first state: nothing is stored, counted or paid. *)
LEMMA SettleInit ==
    ASSUME MembersInit, SettlementInit
    PROVE  SettleInv
<1>1. load \in Loads /\ number = 1 /\ load.height \in Nat \ {0}
  BY Zenon, MemberConstants DEF MembersInit
<1>2. SettleTypes
  BY <1>1 DEF SettlementInit, SettleTypes, Reports, Report, NoReport
<1>3. Storing /\ StoredWhole /\ WorkKept
  BY <1>2 DEF SettlementInit, SettleTypes, Storing, StoredWhole, WorkKept
<1>4. LastCounted
  BY Zenon, <1>2 DEF SettlementInit, LastCounted, NoReport, Reports
<1>5. OneChance /\ CountedOnce
  BY <1>2 DEF SettlementInit, OneChance, CountedOnce, Awaited
<1>6. Paid /\ PaidOnce
  BY <1>2 DEF SettlementInit, Paid, PaidOnce, NoReport, Reports
<1>7. InPast
  <2>1. GetSettlePeriod(number) \in Nat
    BY <1>1, PeriodMonotone
  <2> QED
    BY <2>1 DEF SettlementInit, InPast, SafeSub, WithdrawJD
<1> QED
  BY Zenon, <1>2, <1>3, <1>4, <1>5, <1>6, <1>7 DEF SettleInv, StoreInv, CountInv, PayInv

(* Whatever else happens, the height of the system chain may grow. *)
LEMMA SettleHeight ==
    ASSUME SettleInv, UNCHANGED settleVars, load' = load,
           number' \in Nat \ {0}, number <= number', number' <= load.height
    PROVE  SettleInv'
<1> USE DEF SettleInv, StoreInv, CountInv, PayInv, settleVars
<1>2. number \in Nat /\ number' \in Nat
  BY Zenon DEF SettleTypes
<1>3. Reports' = Reports
  BY Zenon DEF Reports, Period
<1>4. SettleTypes'
  BY Zenon, <1>3 DEF SettleTypes
<1>5. Storing'
  <2>1. \A u \in Stored : u.sc \in Nat
    BY Zenon, SettlementConstants
  <2> QED
    BY <1>2, <2>1 DEF Storing
<1>6. StoredWhole' /\ WorkKept' /\ CountedOnce'
  BY Zenon DEF StoredWhole, WorkKept, CountedOnce
<1>7. LastCounted' /\ OneChance' /\ Paid' /\ PaidOnce'
  BY Zenon, <1>3 DEF LastCounted, OneChance, Awaited, Paid, PaidOnce
<1>8. InPast'
  <2>1. /\ GetSettlePeriod(number) \in Nat /\ GetSettlePeriod(number') \in Nat
        /\ GetSettlePeriod(number) <= GetSettlePeriod(number')
    BY <1>2, PeriodMonotone
  <2>2. \A a \in ToSet(Lib) : purse.last[a] \in Nat
    BY Zenon DEF SettleTypes
  <2> QED
    BY <2>1, <2>2 DEF InPast, SafeSub, WithdrawJD
<1> QED
  BY Zenon, <1>4, <1>5, <1>6, <1>7, <1>8

(* Counting more does not make a payment too high. *)
LEMMA PayKept ==
    ASSUME SettleInv, UNCHANGED <<number, load, purse>>, SettleTypes',
           earned'.fees = earned.fees, earned'.rewards = earned.rewards,
           \A at \in Reports : db'.report[at].fee >= db.report[at].fee
    PROVE  PayInv'
<1> USE DEF SettleInv, StoreInv, PayInv
<1>1. Reports' = Reports
  BY Zenon DEF Reports, Period
<1>2. Paid' /\ InPast'
  BY Zenon, <1>1 DEF Paid, InPast
<1>3. DOMAIN db.report = Reports /\ DOMAIN db'.report = Reports
  BY Zenon, <1>1 DEF SettleTypes
<1>4. \A at \in Reports : /\ db.report[at].fee \in Nat /\ db'.report[at].fee \in Nat
                          /\ earned.fees[at] \in Nat
  BY Zenon, <1>1 DEF SettleTypes, Report
<1>5. PaidOnce'
  BY <1>3, <1>4 DEF PaidOnce
<1> QED
  BY Zenon, <1>2, <1>5

(* The first write of a unit. *)
LEMMA SettleWriteBody ==
    ASSUME SettleInv, UNCHANGED memberVars, NEW u \in Stored, WriteBody(u)
    PROVE  SettleInv'
<1> USE DEF SettleInv, StoreInv, CountInv, memberVars
<1>1. /\ phase' = [phase EXCEPT ![u] = "body"]
      /\ db' = [db EXCEPT !.body = @ \cup {u}]
      /\ calc' = calc /\ purse' = purse /\ earned' = earned
      /\ u \notin db.head /\ Parents(u) \subseteq db.head /\ u.sc <= number
  BY Zenon DEF WriteBody
<1>2. Reports' = Reports
  BY Zenon DEF Reports, Period
<1>3. SettleTypes'
  BY Zenon, <1>1, <1>2 DEF SettleTypes
<1>4. /\ db'.body = db.body \cup {u} /\ db'.receipts = db.receipts
      /\ db'.head = db.head /\ db'.todo = db.todo /\ db'.report = db.report
  BY Zenon, <1>1 DEF SettleTypes
<1>5. /\ phase'[u] = "body"
      /\ \A v \in Stored \ {u} : phase'[v] = phase[v]
  BY Zenon, <1>1 DEF SettleTypes
<1> HIDE DEF SettleTypes
<1>6. Storing'
  BY <1>1, <1>4, <1>5 DEF Storing, Parents, SameChain
<1>7. StoredWhole' /\ WorkKept' /\ CountedOnce' /\ LastCounted'
  BY Zenon, <1>1, <1>2, <1>4 DEF StoredWhole, WorkKept, CountedOnce, LastCounted
<1>8. phase[u] # "post"
  BY Zenon, <1>1 DEF Storing
<1>9. \A v \in Stored : Awaited(v)' <=> Awaited(v)
  BY Zenon, <1>1, <1>5, <1>8 DEF Awaited
<1>10. \A i \in 1..Len(calc.units) : calc.units[i] \in Stored
  BY DEF SettleTypes
<1>11. OneChance'
  BY <1>1, <1>4, <1>5, <1>9, <1>10 DEF OneChance
<1>12. PayInv'
  <2>1. \A at \in Reports : db.report[at].fee \in Nat
    BY Zenon DEF SettleTypes, Report
  <2> QED
    BY <1>1, <1>3, <1>4, <2>1, PayKept
<1> QED
  BY Zenon, <1>3, <1>6, <1>7, <1>11, <1>12

(* The second write. *)
LEMMA SettleWriteReceipts ==
    ASSUME SettleInv, UNCHANGED memberVars, NEW u \in Stored, WriteReceipts(u)
    PROVE  SettleInv'
<1> USE DEF SettleInv, StoreInv, CountInv, memberVars
<1>1. /\ phase[u] = "body" /\ phase' = [phase EXCEPT ![u] = "receipts"]
      /\ db' = [db EXCEPT !.receipts = @ \cup {u}]
      /\ calc' = calc /\ purse' = purse /\ earned' = earned
  BY Zenon DEF WriteReceipts
<1>2. Reports' = Reports
  BY Zenon DEF Reports, Period
<1>3. SettleTypes'
  BY Zenon, <1>1, <1>2 DEF SettleTypes
<1>4. /\ db'.receipts = db.receipts \cup {u} /\ db'.body = db.body
      /\ db'.head = db.head /\ db'.todo = db.todo /\ db'.report = db.report
  BY Zenon, <1>1 DEF SettleTypes
<1>5. /\ phase'[u] = "receipts"
      /\ \A v \in Stored \ {u} : phase'[v] = phase[v]
  BY Zenon, <1>1 DEF SettleTypes
<1> HIDE DEF SettleTypes
<1>6. Storing'
  BY <1>1, <1>4, <1>5 DEF Storing, Parents, SameChain
<1>7. StoredWhole' /\ WorkKept' /\ CountedOnce' /\ LastCounted'
  BY Zenon, <1>1, <1>2, <1>4 DEF StoredWhole, WorkKept, CountedOnce, LastCounted
<1>9. \A v \in Stored : Awaited(v)' <=> Awaited(v)
  BY Zenon, <1>1, <1>5 DEF Awaited
<1>10. \A i \in 1..Len(calc.units) : calc.units[i] \in Stored
  BY DEF SettleTypes
<1>11. OneChance'
  BY <1>1, <1>4, <1>5, <1>9, <1>10 DEF OneChance
<1>12. PayInv'
  <2>1. \A at \in Reports : db.report[at].fee \in Nat
    BY Zenon DEF SettleTypes, Report
  <2> QED
    BY <1>1, <1>3, <1>4, <2>1, PayKept
<1> QED
  BY Zenon, <1>3, <1>6, <1>7, <1>11, <1>12

(* The batch makes the unit known and leaves its mark, in one write. *)
LEMMA SettleWriteBatch ==
    ASSUME SettleInv, UNCHANGED memberVars, NEW u \in Stored, WriteBatch(u)
    PROVE  SettleInv'
<1> USE DEF SettleInv, StoreInv, CountInv, memberVars
<1>1. /\ phase[u] = "receipts" /\ phase' = [phase EXCEPT ![u] = "post"]
      /\ db' = [db EXCEPT !.head = @ \cup {u}, !.todo = @ \cup {u}]
      /\ calc' = calc /\ purse' = purse /\ earned' = earned
  BY Zenon DEF WriteBatch
<1>2. Reports' = Reports
  BY Zenon DEF Reports, Period
<1>3. SettleTypes'
  BY Zenon, <1>1, <1>2 DEF SettleTypes
<1>4. /\ db'.head = db.head \cup {u} /\ db'.todo = db.todo \cup {u}
      /\ db'.body = db.body /\ db'.receipts = db.receipts /\ db'.report = db.report
  BY Zenon, <1>1 DEF SettleTypes
<1>5. /\ phase'[u] = "post"
      /\ \A v \in Stored \ {u} : phase'[v] = phase[v]
  BY Zenon, <1>1 DEF SettleTypes
<1>6. /\ u \in db.body \cap db.receipts /\ u \notin db.head
      /\ Parents(u) \subseteq db.head /\ u.sc <= number
  BY Zenon, <1>1 DEF Storing
<1> HIDE DEF SettleTypes
<1>7. Storing'
  BY ZenonT(40), <1>1, <1>4, <1>5, <1>6 DEF Storing, Parents, SameChain
<1>8. StoredWhole'
  BY Zenon, <1>4, <1>6 DEF StoredWhole, Parents, SameChain
<1>9. WorkKept' /\ CountedOnce' /\ LastCounted'
  BY Zenon, <1>1, <1>2, <1>4 DEF WorkKept, CountedOnce, LastCounted
<1>10. \A i \in 1..Len(calc.units) : calc.units[i] \in Stored /\ calc.units[i] # u
  BY ZenonT(40), <1>6 DEF SettleTypes, Storing
<1>11. OneChance'
  <2>1. \A v \in Stored \ {u} : Awaited(v)' <=> Awaited(v)
    BY Zenon, <1>1, <1>5 DEF Awaited
  <2>2. u \notin calc.old
    BY Zenon, <1>6 DEF Storing
  <2>3. u \in earned.twice \/ earned.counted[u] = 0
    BY Zenon, <1>6 DEF OneChance
  <2> QED
    BY <1>1, <1>4, <1>5, <1>10, <2>1, <2>2, <2>3 DEF OneChance
<1>12. PayInv'
  <2>1. \A at \in Reports : db.report[at].fee \in Nat
    BY Zenon DEF SettleTypes, Report
  <2> QED
    BY <1>1, <1>3, <1>4, <2>1, PayKept
<1> QED
  BY Zenon, <1>3, <1>7, <1>8, <1>9, <1>11, <1>12

(* The whole list of the witnesses. *)
LEMMA WholeLib == ToSet(SubSeq(Lib, 1, Len(Lib))) = ToSet(Lib)
<1>1. Lib \in Seq(Account)
  BY Zenon, SettlementConstants
<1>2. SubSeq(Lib, 1, Len(Lib)) = Lib
  BY <1>1
<1> QED
  BY Zenon, <1>2

(* The event goes to the service, or is dropped before that listens. *)
LEMMA SettlePost ==
    ASSUME SettleInv, UNCHANGED memberVars, NEW u \in Stored, PostChainEvent(u)
    PROVE  SettleInv'
<1> USE DEF SettleInv, StoreInv, CountInv, memberVars
<1>1. /\ phase[u] = "post" /\ phase' = [phase EXCEPT ![u] = "none"]
      /\ calc' = (IF calc.does = "deaf" THEN calc
                  ELSE [calc EXCEPT !.units = Append(@, u)])
      /\ db' = db /\ purse' = purse /\ earned' = earned
  BY Zenon DEF PostChainEvent
<1>2. Reports' = Reports
  BY Zenon DEF Reports, Period
<1>3. /\ calc' \in [does : {"start", "deaf", "listen", "pass"}, units : Seq(Stored),
                     old : SUBSET Stored]
      /\ calc'.does = calc.does /\ calc'.old = calc.old
      /\ calc'.units = calc.units \/ calc'.units = Append(calc.units, u)
  <2>1. PICK us \in Seq(Stored) : us = Append(calc.units, u)
    <3>1. calc.units \in Seq(Stored)
      BY Zenon DEF SettleTypes
    <3>2. Append(calc.units, u) \in Seq(Stored)
      BY <3>1
    <3> QED
      BY Zenon, <3>2
  <2>2. calc' = calc \/ calc' = [calc EXCEPT !.units = us]
    BY Zenon, <1>1, <2>1
  <2> QED
    BY ZenonT(40), <2>1, <2>2 DEF SettleTypes
<1>4. SettleTypes'
  BY Zenon, <1>1, <1>2, <1>3 DEF SettleTypes
<1>5. /\ phase'[u] = "none"
      /\ \A v \in Stored \ {u} : phase'[v] = phase[v]
  BY Zenon, <1>1 DEF SettleTypes
<1>6. u \in db.head /\ u.sc <= number
  BY Zenon, <1>1 DEF Storing
<1> DEFINE n == Len(calc.units)
<1>7. n \in Nat /\ \A i \in 1..n : calc.units[i] \in Stored /\ calc.units[i] # u
  BY <1>1 DEF SettleTypes, OneChance
<1>8. \/ Len(calc'.units) = n /\ calc'.units = calc.units
      \/ /\ Len(calc'.units) = n + 1 /\ calc'.units[n + 1] = u
         /\ \A i \in 1..n : calc'.units[i] = calc.units[i]
  <2>1. calc.units \in Seq(Stored)
    BY Zenon DEF SettleTypes
  <2> QED
    BY <1>3, <2>1
<1> HIDE DEF SettleTypes, n
<1>9. \A i \in 1..Len(calc'.units) : calc'.units[i] = u \/ \E j \in 1..n : calc'.units[i] = calc.units[j]
  BY <1>7, <1>8 DEF n
<1>10. Storing'
  BY <1>1, <1>3, <1>5, <1>6, <1>9 DEF Storing, Parents, SameChain, n
<1>11. StoredWhole' /\ WorkKept' /\ CountedOnce' /\ LastCounted'
  BY Zenon, <1>1, <1>2 DEF StoredWhole, WorkKept, CountedOnce, LastCounted
<1>12. OneChance'
  <2>1. \A v \in Stored : Awaited(v)' => Awaited(v)
    BY ZenonT(40), <1>1, <1>5, <1>9 DEF Awaited, n
  <2>2. \A i, j \in 1..Len(calc'.units) : calc'.units[i] = calc'.units[j] => i = j
    BY SMTT(30), <1>7, <1>8 DEF OneChance, n
  <2>3. \A i \in 1..Len(calc'.units) : phase'[calc'.units[i]] # "post"
    BY <1>5, <1>7, <1>9 DEF OneChance, n
  <2> QED
    BY Zenon, <1>1, <1>3, <2>1, <2>2, <2>3 DEF OneChance
<1>13. PayInv'
  <2>1. \A at \in Reports : db.report[at].fee \in Nat
    BY Zenon DEF SettleTypes, Report
  <2> QED
    BY <1>1, <1>4, <2>1, PayKept
<1> QED
  BY Zenon, <1>4, <1>10, <1>11, <1>12, <1>13

(* What the count of a unit's work leaves behind. *)
FeeWritten(u) ==
    /\ db' \in [body : SUBSET Stored, receipts : SUBSET Stored, head : SUBSET Stored,
                todo : SUBSET Stored, report : [Reports -> Report]]
    /\ db'.body = db.body /\ db'.receipts = db.receipts /\ db'.head = db.head
    /\ db'.todo = db.todo \ {u}
    /\ \A at \in Reports : db'.report[at].fee >= db.report[at].fee
    /\ earned' \in [counted : [Stored -> Nat], twice : SUBSET Stored,
                    rewards : [Reports -> Nat], fees : [Reports -> Nat]]
    /\ earned'.twice = earned.twice /\ earned'.rewards = earned.rewards
    /\ earned'.fees = earned.fees
    /\ \A v \in Stored \ {u} : earned'.counted[v] = earned.counted[v]
    /\ earned'.counted[u] > 0
    /\ earned'.counted[u] \in {earned.counted[u], earned.counted[u] + 1}
    /\ LastCounted'

(* What writeWorkFee does: the mark goes, no fee of a report gets less,    *)
(* and the unit has been counted, now or before.                           *)
LEMMA WorkFeeWritten ==
    ASSUME SettleTypes, LastCounted, Reports' = Reports, NEW u \in Stored,
           <<PeriodOf(u), u.by>> \in Reports, WriteWorkFee(u)
    PROVE  FeeWritten(u)
<1> DEFINE rep == Counted(u)
           mine == u.by \in Renewed(u)
<1>1. /\ db' = [db EXCEPT !.report = rep, !.todo = @ \ {u}]
      /\ earned' = (IF mine THEN [earned EXCEPT !.counted[u] = @ + 1] ELSE earned)
  BY Zenon DEF WriteWorkFee
<1>2. rep \in [Reports -> Report] /\ \A at \in Reports : rep[at].fee >= db.report[at].fee
  BY SMTT(30) DEF Counted, SettleTypes, Report
<1>4. \A at \in Reports : rep[at] = db.report[at] \/ rep[at].last = {u}
  BY Zenon DEF Counted, SettleTypes
<1> HIDE DEF rep
<1>5. /\ db' \in [body : SUBSET Stored, receipts : SUBSET Stored, head : SUBSET Stored,
                  todo : SUBSET Stored, report : [Reports -> Report]]
      /\ db'.body = db.body /\ db'.receipts = db.receipts /\ db'.head = db.head
      /\ db'.todo = db.todo \ {u} /\ db'.report = rep
  BY Zenon, <1>1, <1>2 DEF SettleTypes
<1>6. db.report[<<PeriodOf(u), u.by>>].last = {u} => earned.counted[u] > 0
  BY Zenon DEF LastCounted
<1>7. db.report[<<PeriodOf(u), u.by>>].last # {u} => mine
  <2>1. u.by \in ToSet(Lib)
    BY Zenon, SettlementConstants
  <2> QED
    BY Zenon, <2>1, WholeLib DEF Renewed
<1> HIDE DEF mine
<1>8. /\ earned' \in [counted : [Stored -> Nat], twice : SUBSET Stored,
                      rewards : [Reports -> Nat], fees : [Reports -> Nat]]
      /\ earned'.twice = earned.twice /\ earned'.rewards = earned.rewards
      /\ earned'.fees = earned.fees
      /\ \A v \in Stored \ {u} : earned'.counted[v] = earned.counted[v]
      /\ earned'.counted[u] = earned.counted[u] + (IF mine THEN 1 ELSE 0)
      /\ earned.counted[u] \in Nat
  <2>1. PICK n \in Nat : n = earned.counted[u] + (IF mine THEN 1 ELSE 0)
    <3>1. earned.counted[u] \in Nat
      BY Zenon DEF SettleTypes
    <3> QED
      BY <3>1
  <2>2. PICK cs \in [Stored -> Nat] : cs = [earned.counted EXCEPT ![u] = n]
    BY Zenon DEF SettleTypes
  <2>3. earned' = [earned EXCEPT !.counted = cs] \/ (~mine /\ earned' = earned)
    BY Zenon, <1>1, <2>1, <2>2 DEF SettleTypes
  <2>4. CASE earned' = [earned EXCEPT !.counted = cs]
    BY Zenon, <2>1, <2>2, <2>4 DEF SettleTypes
  <2> QED
    BY SMTT(30), <2>3, <2>4 DEF SettleTypes
<1>9. earned'.counted[u] > 0 /\ earned'.counted[u] \in {earned.counted[u], earned.counted[u] + 1}
  BY <1>6, <1>7, <1>8
<1>10. LastCounted'
  <2> SUFFICES ASSUME NEW v \in Stored, <<PeriodOf(v), v.by>> \in Reports,
                      rep[<<PeriodOf(v), v.by>>].last = {v}
               PROVE  earned'.counted[v] > 0
    BY Zenon, <1>5 DEF LastCounted, PeriodOf, GetSettlePeriod
  <2>1. CASE v = u
    BY Zenon, <2>1, <1>9
  <2>2. CASE v # u
    BY Zenon, <2>2, <1>4, <1>8 DEF LastCounted
  <2> QED
    BY Zenon, <2>1, <2>2
<1> QED
  BY Zenon, <1>2, <1>5, <1>8, <1>9, <1>10 DEF FeeWritten

(* Storing is kept when no unit is stored or goes on, and the service has  *)
(* no more to do.                                                          *)
LEMMA StoringKept ==
    ASSUME Storing, UNCHANGED <<number, phase>>,
           db'.body = db.body, db'.receipts = db.receipts, db'.head = db.head,
           db'.todo \subseteq db.todo, calc'.old \subseteq calc.old,
           \A i \in 1..Len(calc'.units) :
                \E j \in 1..Len(calc.units) : calc'.units[i] = calc.units[j]
    PROVE  Storing'
<1>1. ASSUME NEW v \in Stored
      PROVE  /\ phase'[v] \in {"body", "receipts"} =>
                    v \in db'.body /\ v \notin db'.head /\ Parents(v) \subseteq db'.head
             /\ phase'[v] = "receipts" => v \in db'.receipts
             /\ phase'[v] = "post" => v \in db'.head
             /\ phase'[v] # "none" \/ v \in db'.head => v.sc <= number'
  BY Zenon DEF Storing
<1>2. db'.todo \subseteq db'.head /\ calc'.old \subseteq db'.head
  BY Zenon DEF Storing
<1>3. \A i \in 1..Len(calc'.units) : calc'.units[i] \in db'.head
  BY Zenon DEF Storing
<1> QED
  BY Zenon, <1>1, <1>2, <1>3 DEF Storing, Parents, SameChain

(* The service takes a unit from the marks or from the events and counts   *)
(* it, or cannot count it now: old and units are what it keeps to do.      *)
LEMMA SettleProcess ==
    ASSUME SettleInv, UNCHANGED <<number, load, phase, purse>>,
           NEW u \in Stored, u \in db.head, Process(u),
           calc' \in [does : {"start", "deaf", "listen", "pass"}, units : Seq(Stored),
                      old : SUBSET Stored],
           calc'.old \subseteq calc.old,
           \A i \in 1..Len(calc'.units) :
                \E j \in 1..Len(calc.units) : calc'.units[i] = calc.units[j],
           \A i, j \in 1..Len(calc'.units) : calc'.units[i] = calc'.units[j] => i = j,
           u \in earned.twice \/ (u \notin calc'.old /\ ~Awaited(u)'),
           u \in earned.twice \/ u \in calc.old \/ Awaited(u)
    PROVE  SettleInv'
<1> USE DEF SettleInv, StoreInv, CountInv
<1>1. Reports' = Reports
  BY Zenon DEF Reports, Period
<1>2. <<PeriodOf(u), u.by>> \in Reports
  BY Zenon, UnitReported DEF Storing
<1>3. \A i \in 1..Len(calc.units) : calc.units[i] \in Stored
  <2>1. calc.units \in Seq(Stored)
    BY Zenon DEF SettleTypes
  <2> HIDE DEF SettleInv, StoreInv, CountInv
  <2> QED
    BY <2>1
<1>4. \A v \in Stored : Awaited(v)' => Awaited(v)
  BY SMTT(30) DEF Awaited
<1>5. \A i \in 1..Len(calc'.units) : phase'[calc'.units[i]] # "post"
  <2>1. \A i \in 1..Len(calc.units) : phase[calc.units[i]] # "post"
    BY Zenon DEF OneChance
  <2> QED
    BY ZenonT(40), <2>1
<1>6. CASE UNCHANGED <<db, earned>>
  <2>1. SettleTypes'
    <3>1. SettleTypes
      BY Zenon
    <3> HIDE DEF SettleInv, StoreInv, CountInv
    <3> QED
      BY Zenon, <1>1, <1>6, <3>1 DEF SettleTypes
  <2>2. Storing' /\ StoredWhole'
    BY Zenon, <1>6 DEF Storing, StoredWhole, Parents, SameChain
  <2>3. WorkKept' /\ CountedOnce' /\ LastCounted'
    BY Zenon, <1>1, <1>6 DEF WorkKept, CountedOnce, LastCounted
  <2>4. OneChance'
    BY Zenon, <1>4, <1>5, <1>6 DEF OneChance
  <2>5. PayInv'
    <3>1. \A at \in Reports : db.report[at].fee \in Nat
      BY Zenon DEF SettleTypes, Report
    <3> QED
      BY <1>6, <2>1, <3>1, PayKept
  <2> QED
    BY Zenon, <2>1, <2>2, <2>3, <2>4, <2>5
<1>7. CASE WriteWorkFee(u)
  <2>1. /\ db' \in [body : SUBSET Stored, receipts : SUBSET Stored, head : SUBSET Stored,
                    todo : SUBSET Stored, report : [Reports -> Report]]
        /\ db'.body = db.body /\ db'.receipts = db.receipts /\ db'.head = db.head
        /\ db'.todo = db.todo \ {u}
        /\ \A at \in Reports : db'.report[at].fee >= db.report[at].fee
        /\ earned' \in [counted : [Stored -> Nat], twice : SUBSET Stored,
                        rewards : [Reports -> Nat], fees : [Reports -> Nat]]
        /\ earned'.twice = earned.twice /\ earned'.rewards = earned.rewards
        /\ earned'.fees = earned.fees
        /\ \A v \in Stored \ {u} : earned'.counted[v] = earned.counted[v]
        /\ earned'.counted[u] > 0
        /\ earned'.counted[u] \in {earned.counted[u], earned.counted[u] + 1}
        /\ LastCounted'
    <3>1. FeeWritten(u)
      BY Zenon, <1>1, <1>2, <1>7, WorkFeeWritten
    <3> QED
      BY <3>1, Zenon DEF FeeWritten
  <2>2. SettleTypes'
    BY Zenon, <1>1, <2>1 DEF SettleTypes
  <2>3. Storing' /\ StoredWhole'
    <3>1. Storing /\ StoredWhole
      BY Zenon
    <3> HIDE DEF SettleInv, StoreInv, CountInv
    <3>2. Storing'
      BY Zenon, <2>1, <3>1, StoringKept
    <3>3. StoredWhole'
      BY Zenon, <2>1, <3>1 DEF StoredWhole, Parents, SameChain
    <3> QED
      BY Zenon, <3>2, <3>3
  <2>4. WorkKept'
    BY Zenon, <2>1 DEF WorkKept, SettleTypes
  <2>5. u \in earned.twice \/ earned.counted[u] = 0
    BY Zenon DEF OneChance
  <2>6. CountedOnce'
    <3>1. u \in earned'.twice \/ earned'.counted[u] <= 1
      BY <2>1, <2>5
    <3> QED
      BY Zenon, <2>1, <3>1 DEF CountedOnce
  <2>7. OneChance'
    <3>1. ASSUME NEW v \in Stored \ earned'.twice
          PROVE  /\ v \in calc'.old => ~Awaited(v)'
                 /\ v \notin db'.head \/ v \in db'.todo \/ v \in calc'.old \/ Awaited(v)'
                       => earned'.counted[v] = 0
      <4>1. CASE v = u
        BY Zenon, <4>1, <3>1, <2>1
      <4>2. CASE v # u
        BY Zenon, <4>2, <3>1, <2>1, <1>4 DEF OneChance
      <4> QED
        BY Zenon, <4>1, <4>2
    <3> QED
      BY Zenon, <3>1, <1>5 DEF OneChance
  <2>8. PayInv'
    BY Zenon, <2>1, <2>2, PayKept
  <2> QED
    BY Zenon, <2>1, <2>2, <2>3, <2>4, <2>6, <2>7, <2>8
<1> QED
  BY Zenon, <1>6, <1>7 DEF Process

(* A mark that the service goes through: its unit is whole. *)
LEMMA SettleProcessOld ==
    ASSUME SettleInv, UNCHANGED memberVars, NEW u \in Stored, ProcessOld(u)
    PROVE  SettleInv'
<1> USE DEF SettleInv, StoreInv, CountInv, memberVars
<1>1. u \in db.head /\ u \in db.body
  BY Zenon DEF ProcessOld, Storing, StoredWhole
<1>2. /\ u \in calc.old /\ calc' = [calc EXCEPT !.old = @ \ {u}] /\ Process(u)
      /\ phase' = phase /\ purse' = purse
  BY Zenon, <1>1 DEF ProcessOld
<1>3. /\ calc' \in [does : {"start", "deaf", "listen", "pass"}, units : Seq(Stored),
                    old : SUBSET Stored]
      /\ calc'.old = calc.old \ {u} /\ calc'.units = calc.units
  BY Zenon, <1>2 DEF SettleTypes
<1>4. u \in earned.twice \/ ~Awaited(u)'
  BY Zenon, <1>2, <1>3 DEF OneChance, Awaited
<1>5. \A i, j \in 1..Len(calc'.units) : calc'.units[i] = calc'.units[j] => i = j
  BY Zenon, <1>3 DEF OneChance
<1> QED
  BY Zenon, <1>1, <1>2, <1>3, <1>4, <1>5, SettleProcess

(* An event that the service takes. *)
LEMMA SettleHandleUnit ==
    ASSUME SettleInv, UNCHANGED memberVars, HandleUnit
    PROVE  SettleInv'
<1> USE DEF SettleInv, StoreInv, CountInv, memberVars
<1> DEFINE n == Len(calc.units)
<1>1. /\ calc.units # <<>> /\ calc' = [calc EXCEPT !.units = Tail(@)]
      /\ Process(Head(calc.units)) /\ phase' = phase /\ purse' = purse
  BY Zenon DEF HandleUnit
<1>2. calc.units \in Seq(Stored)
  BY Zenon DEF SettleTypes
<1>3. PICK us \in Seq(Stored) : us = Tail(calc.units)
  BY Zenon, <1>1, <1>2, TailOne
<1> PICK u \in Stored : u = calc.units[1]
  BY Zenon, <1>1, <1>2, TailOne
<1>4. /\ n \in Nat \ {0} /\ Head(calc.units) = u /\ u = calc.units[1] /\ Len(us) = n - 1
      /\ \A i \in 1..Len(us) : us[i] = calc.units[i + 1]
  BY Zenon, <1>1, <1>2, <1>3, TailOne
<1>5. /\ calc' \in [does : {"start", "deaf", "listen", "pass"}, units : Seq(Stored),
                    old : SUBSET Stored]
      /\ calc'.old = calc.old /\ calc'.units = us
  BY Zenon, <1>1, <1>3 DEF SettleTypes
<1>6. u \in db.head
  BY <1>4 DEF Storing
<1>7. \A i \in 1..Len(us) : i + 1 \in 1..n /\ us[i] = calc.units[i + 1]
  BY <1>4
<1>8. \A i, j \in 1..Len(us) : us[i] = us[j] => i = j
  BY <1>4, <1>7 DEF OneChance
<1>9. \A i \in 1..Len(us) : us[i] # u
  BY <1>4, <1>7 DEF OneChance
<1>10. phase[u] # "post" /\ Awaited(u)
  BY <1>4 DEF OneChance, Awaited
<1>11. ~Awaited(u)'
  BY Zenon, <1>1, <1>5, <1>9, <1>10 DEF Awaited
<1>12. u \in earned.twice \/ u \notin calc.old
  BY Zenon, <1>4, <1>10 DEF OneChance
<1>13. /\ \A i \in 1..Len(calc'.units) :
              \E j \in 1..Len(calc.units) : calc'.units[i] = calc.units[j]
       /\ \A i, j \in 1..Len(calc'.units) : calc'.units[i] = calc'.units[j] => i = j
  BY Zenon, <1>5, <1>7, <1>8
<1>14. Process(u) /\ UNCHANGED <<number, load, phase, purse>> /\ calc'.old \subseteq calc.old
  BY Zenon, <1>1, <1>4, <1>5
<1> QED
  BY Zenon, <1>5, <1>6, <1>10, <1>11, <1>12, <1>13, <1>14, SettleProcess

(* The service goes on to another part of its work. *)
LEMMA SettleTurns ==
    ASSUME SettleInv, UNCHANGED memberVars, Started \/ Subscribe \/ PassEnds
    PROVE  SettleInv'
<1> USE DEF SettleInv, StoreInv, CountInv, memberVars
<1>1. PICK d \in {"deaf", "listen"} : calc' = [calc EXCEPT !.does = d]
  BY Zenon DEF Started, Subscribe, PassEnds
<1>2. UNCHANGED <<phase, db, purse, earned>>
  BY Zenon DEF Started, Subscribe, PassEnds
<1>3. Reports' = Reports
  BY Zenon DEF Reports, Period
<1>4. SettleTypes' /\ calc'.units = calc.units /\ calc'.old = calc.old
  BY Zenon, <1>1, <1>2, <1>3 DEF SettleTypes
<1>5. Storing' /\ StoredWhole'
  BY Zenon, <1>2, <1>4 DEF Storing, StoredWhole, Parents, SameChain
<1>6. WorkKept' /\ CountedOnce' /\ LastCounted' /\ OneChance'
  <2>1. WorkKept' /\ CountedOnce' /\ LastCounted'
    BY Zenon, <1>2, <1>3, <1>4 DEF WorkKept, CountedOnce, LastCounted
  <2>2. OneChance'
    BY ZenonT(40), <1>2, <1>4 DEF OneChance, Awaited
  <2> QED
    BY Zenon, <2>1, <2>2
<1>7. PayInv'
  BY Zenon, <1>2, <1>3 DEF PayInv, Paid, InPast, PaidOnce
<1> QED
  BY Zenon, <1>4, <1>5, <1>6, <1>7

(* The daily pass starts: the units that have two chances are noted. *)
LEMMA SettleDailyPass ==
    ASSUME SettleInv, UNCHANGED memberVars, DailyPass
    PROVE  SettleInv'
<1> USE DEF SettleInv, StoreInv, CountInv, memberVars
<1> DEFINE both == db.todo \cap Coming
<1>1. /\ calc' = [calc EXCEPT !.does = "pass", !.old = db.todo]
      /\ earned' = [earned EXCEPT !.twice = @ \cup both]
      /\ UNCHANGED <<phase, db, purse>>
  BY Zenon DEF DailyPass
<1>2. both \subseteq Stored
  BY Zenon DEF SettleTypes
<1>3. \A u \in Stored : Awaited(u) => u \in Coming
  <2>1. calc.units \in Seq(Stored)
    BY Zenon DEF SettleTypes
  <2> QED
    BY Zenon, <2>1, SeqMembers DEF Awaited, Coming
<1>4. \A u \in Stored : u \in db.todo /\ Awaited(u) => u \in both
  BY Zenon, <1>3
<1> HIDE DEF both
<1>5. Reports' = Reports
  BY Zenon DEF Reports, Period
<1>6. /\ SettleTypes' /\ calc'.units = calc.units /\ calc'.old = db.todo
      /\ earned'.twice = earned.twice \cup both /\ earned'.counted = earned.counted
      /\ earned'.fees = earned.fees /\ earned'.rewards = earned.rewards
  BY Zenon, <1>1, <1>2, <1>5 DEF SettleTypes
<1>7. Storing' /\ StoredWhole'
  BY Zenon, <1>1, <1>6 DEF Storing, StoredWhole, Parents, SameChain
<1>8. WorkKept' /\ CountedOnce' /\ LastCounted'
  BY Zenon, <1>1, <1>5, <1>6 DEF WorkKept, CountedOnce, LastCounted
<1>9. OneChance'
  <2>1. \A u \in Stored : Awaited(u)' <=> Awaited(u)
    BY Zenon, <1>1, <1>6 DEF Awaited
  <2> QED
    BY <1>1, <1>4, <1>6, <2>1 DEF OneChance
<1>10. PayInv'
  BY Zenon, <1>1, <1>5, <1>6 DEF PayInv, Paid, InPast, PaidOnce
<1> QED
  BY Zenon, <1>6, <1>7, <1>8, <1>9, <1>10

(* The node starts anew: only the marks are left to go by. *)
LEMMA SettleRestart ==
    ASSUME SettleInv, UNCHANGED memberVars, Restart
    PROVE  SettleInv'
<1> USE DEF SettleInv, StoreInv, CountInv, memberVars
<1>1. /\ phase' = [u \in Stored |-> "none"]
      /\ calc' = [does |-> "start", units |-> <<>>, old |-> db.todo]
      /\ UNCHANGED <<db, purse, earned>>
  BY Zenon DEF Restart
<1>2. Reports' = Reports
  BY Zenon DEF Reports, Period
<1>3. SettleTypes' /\ calc'.units = <<>> /\ calc'.old = db.todo
  <2>1. SettleTypes
    BY Zenon
  <2> HIDE DEF SettleInv, StoreInv, CountInv
  <2> QED
    BY <1>1, <1>2, <2>1 DEF SettleTypes
<1>4. Storing' /\ StoredWhole'
  <2>1. Storing /\ StoredWhole
    BY Zenon
  <2> HIDE DEF SettleInv, StoreInv, CountInv
  <2> QED
    BY <1>1, <1>3, <2>1 DEF Storing, StoredWhole, Parents, SameChain
<1>5. WorkKept' /\ CountedOnce' /\ LastCounted'
  BY Zenon, <1>1, <1>2 DEF WorkKept, CountedOnce, LastCounted
<1>6. OneChance'
  <2>1. WorkKept /\ OneChance /\ SettleTypes
    BY Zenon
  <2> HIDE DEF SettleInv, StoreInv, CountInv
  <2>2. \A u \in Stored : ~Awaited(u)'
    BY <1>1, <1>3 DEF Awaited
  <2> QED
    BY <1>1, <1>3, <2>1, <2>2 DEF OneChance
<1>7. PayInv'
  <2>1. PayInv
    BY Zenon
  <2> HIDE DEF SettleInv, StoreInv, CountInv
  <2> QED
    BY Zenon, <1>1, <1>2, <2>1 DEF PayInv, Paid, InPast, PaidOnce
<1> QED
  BY Zenon, <1>3, <1>4, <1>5, <1>6, <1>7

(* A call pays from where the last one ended, or from later. *)
LEMMA SettlePaid ==
    ASSUME SettleInv, UNCHANGED memberVars, NEW a \in ToSet(Lib), SettlementCall(a)
    PROVE  SettleInv'
<1> USE DEF SettleInv, StoreInv, CountInv, memberVars
<1> DEFINE now == GetSettlePeriod(number - 1)
           upTo == SafeSub(now, WithdrawJD)
           begin == CheckSettlementPeriod(purse.next[a], now)
           due == Rewarded(a, upTo)
           nx == NextWithdraw(begin, upTo)
<1>1. /\ purse' = [purse EXCEPT !.last[a] = upTo, !.next[a] = nx]
      /\ earned' = [earned EXCEPT
            !.rewards = [at \in DOMAIN @ |->
                            @[at] + IF at[2] = a /\ at[1] \in due THEN 1 ELSE 0],
            !.fees = [at \in DOMAIN @ |->
                @[at] + IF at[2] = a /\ at[1] \in begin..upTo THEN db.report[at].fee
                                                              ELSE 0]]
      /\ UNCHANGED <<phase, db, calc>>
  BY Zenon DEF SettlementCall
<1>2. now \in Nat /\ now <= GetSettlePeriod(number) /\ GetSettlePeriod(number) \in Nat
  <2>1. number \in Nat /\ number - 1 \in Nat /\ number - 1 <= number
    BY DEF SettleTypes
  <2> QED
    BY <2>1, PeriodMonotone
<1>3. purse.next[a] \in Nat /\ purse.last[a] \in Nat
  BY Zenon DEF SettleTypes
<1> HIDE DEF now
<1>4. upTo \in Nat /\ upTo <= SafeSub(GetSettlePeriod(number), WithdrawJD)
  BY <1>2 DEF SafeSub, WithdrawJD
<1>5. begin \in Nat /\ purse.next[a] <= begin
  BY <1>2, <1>3, SettlementConstants DEF CheckSettlementPeriod, SafeSub
<1> HIDE DEF upTo, begin
<1>6. nx \in Nat /\ begin <= nx /\ upTo < nx
  BY <1>4, <1>5 DEF NextWithdraw
<1>7. \A p \in due : p \in Nat /\ purse.last[a] < p /\ p <= upTo
  BY SMTT(30), <1>3, <1>4, SettlementConstants DEF Rewarded, CheckSettlementPeriod, SafeSub
<1> HIDE DEF nx, due
<1>8. Reports' = Reports
  BY Zenon DEF Reports, Period
<1>9. purse.last[a] <= upTo
  <2>1. due # {}
    BY Zenon DEF SettlementCall, CanGetAdditional, due, upTo, now
  <2> QED
    BY <1>3, <1>4, <1>7, <2>1
<1>10. PICK rw \in [Reports -> Nat] :
          rw = [at \in Reports |-> earned.rewards[at]
                                   + IF at[2] = a /\ at[1] \in due THEN 1 ELSE 0]
  <2>1. \A at \in Reports : earned.rewards[at] \in Nat
    BY Zenon DEF SettleTypes
  <2> DEFINE sum(at) == earned.rewards[at] + IF at[2] = a /\ at[1] \in due THEN 1 ELSE 0
  <2>2. \A at \in Reports : sum(at) \in Nat
    BY <2>1
  <2> HIDE DEF sum
  <2>3. [at \in Reports |-> sum(at)] \in [Reports -> Nat]
    BY Zenon, <2>2
  <2> QED
    BY Zenon, <2>3 DEF sum
<1>11. PICK fs \in [Reports -> Nat] :
          fs = [at \in Reports |-> earned.fees[at]
                    + IF at[2] = a /\ at[1] \in begin..upTo THEN db.report[at].fee ELSE 0]
  <2>1. \A at \in Reports : earned.fees[at] \in Nat /\ db.report[at].fee \in Nat
    BY Zenon DEF SettleTypes, Report
  <2> DEFINE sum(at) == earned.fees[at]
                + IF at[2] = a /\ at[1] \in begin..upTo THEN db.report[at].fee ELSE 0
  <2>2. \A at \in Reports : sum(at) \in Nat
    BY <2>1
  <2> HIDE DEF sum
  <2>3. [at \in Reports |-> sum(at)] \in [Reports -> Nat]
    BY Zenon, <2>2
  <2> QED
    BY Zenon, <2>3 DEF sum
<1>12. earned' = [earned EXCEPT !.rewards = rw, !.fees = fs]
  BY Zenon, <1>1, <1>10, <1>11 DEF SettleTypes
<1>13. PICK ls \in [ToSet(Lib) -> Nat] : ls = [purse.last EXCEPT ![a] = upTo]
  BY Zenon, <1>4 DEF SettleTypes
<1>14. PICK ns \in [ToSet(Lib) -> Nat] : ns = [purse.next EXCEPT ![a] = nx]
  BY Zenon, <1>6 DEF SettleTypes
<1>15. purse' = [purse EXCEPT !.last = ls, !.next = ns]
  BY Zenon, <1>1, <1>13, <1>14 DEF SettleTypes
<1>16. /\ SettleTypes' /\ purse'.last = ls /\ purse'.next = ns
       /\ earned'.rewards = rw /\ earned'.fees = fs
       /\ earned'.counted = earned.counted /\ earned'.twice = earned.twice
  BY ZenonT(40), <1>1, <1>8, <1>12, <1>15 DEF SettleTypes
<1>17. Storing' /\ StoredWhole'
  BY Zenon, <1>1 DEF Storing, StoredWhole, Parents, SameChain
<1>18. WorkKept' /\ CountedOnce' /\ LastCounted' /\ OneChance'
  BY Zenon, <1>1, <1>8, <1>16 DEF WorkKept, CountedOnce, LastCounted, OneChance, Awaited
<1>19. InPast'
  BY <1>4, <1>13, <1>16 DEF InPast, PayInv, SettleTypes
<1>20. \A at \in Reports : at[1] \in Nat /\ at[2] \in ToSet(Lib)
  <2>1. GetSettlePeriod(load.height) \in Nat
    <3>1. load.height \in Nat
      BY Zenon, MemberConstants DEF SettleTypes
    <3> QED
      BY <3>1, PeriodMonotone
  <2> QED
    BY <2>1 DEF Reports, Period
<1>21. /\ \A at \in Reports : at[2] # a => rw[at] = earned.rewards[at] /\ fs[at] = earned.fees[at]
       /\ \A b \in ToSet(Lib) \ {a} : ls[b] = purse.last[b] /\ ns[b] = purse.next[b]
       /\ ls[a] = upTo /\ ns[a] = nx
  BY <1>10, <1>11, <1>13, <1>14 DEF SettleTypes
<1>22. \A at \in Reports : /\ earned.rewards[at] \in Nat /\ earned.fees[at] \in Nat
                           /\ db.report[at].fee \in Nat
  BY Zenon DEF SettleTypes, Report
<1>23. ASSUME NEW at \in Reports, at[2] = a
       PROVE  /\ at[1] >= nx => fs[at] = 0
              /\ at[1] > upTo => rw[at] = 0
              /\ fs[at] <= db.report[at].fee
              /\ rw[at] <= 1
  <2>1. /\ at[1] >= purse.next[a] => earned.fees[at] = 0
        /\ at[1] > purse.last[a] => earned.rewards[at] = 0
    BY Zenon, <1>23 DEF PayInv, Paid
  <2>2. earned.fees[at] <= db.report[at].fee /\ earned.rewards[at] <= 1
    BY Zenon DEF PayInv, PaidOnce, SettleTypes
  <2>3. at[1] \in Nat
    BY Zenon, <1>20
  <2>4. (at[1] >= nx => fs[at] = 0) /\ fs[at] <= db.report[at].fee
    <3>1. fs[at] = earned.fees[at] + IF at[1] \in begin..upTo THEN db.report[at].fee ELSE 0
      BY Zenon, <1>11, <1>23
    <3>2. PICK x, y, k \in Nat : x = earned.fees[at] /\ y = db.report[at].fee /\ k = at[1]
      BY Zenon, <1>22, <2>3
    <3> HIDE DEF SettleInv, StoreInv, CountInv
    <3> QED
      BY <1>3, <1>4, <1>5, <1>6, <2>1, <2>2, <3>1, <3>2
  <2>5. (at[1] > upTo => rw[at] = 0) /\ rw[at] <= 1
    <3>1. rw[at] = earned.rewards[at] + IF at[1] \in due THEN 1 ELSE 0
      BY Zenon, <1>10, <1>23
    <3>2. PICK x, k \in Nat : x = earned.rewards[at] /\ k = at[1]
      BY Zenon, <1>22, <2>3
    <3> HIDE DEF SettleInv, StoreInv, CountInv
    <3> QED
      BY <1>3, <1>4, <1>7, <1>9, <2>1, <2>2, <3>1, <3>2
  <2> QED
    BY Zenon, <2>4, <2>5
<1>24. Paid'
  <2>1. ASSUME NEW at \in Reports
        PROVE  /\ at[1] >= ns[at[2]] => fs[at] = 0
               /\ at[1] > ls[at[2]] => rw[at] = 0
    BY Zenon, <1>20, <1>21, <1>23 DEF PayInv, Paid
  <2> QED
    BY Zenon, <1>8, <1>16, <2>1 DEF Paid
<1>25. PaidOnce'
  <2>1. DOMAIN db.report = Reports
    BY Zenon DEF SettleTypes
  <2>2. ASSUME NEW at \in Reports
        PROVE  fs[at] <= db.report[at].fee /\ rw[at] <= 1
    BY Zenon, <1>21, <1>23, <2>1 DEF PayInv, PaidOnce
  <2> QED
    BY Zenon, <1>1, <1>16, <2>1, <2>2 DEF PaidOnce
<1> QED
  BY Zenon, <1>16, <1>17, <1>18, <1>19, <1>24, <1>25 DEF PayInv

(* Every step of the node and every call that pays keeps the invariant.    *)
LEMMA SettleStep ==
    ASSUME SettleInv, SettlementNext, UNCHANGED memberVars
    PROVE  SettleInv'
  BY Zenon, SettleWriteBody, SettleWriteReceipts, SettleWriteBatch, SettlePost,
     SettleProcessOld, SettleTurns, SettleHandleUnit, SettleDailyPass, SettleRestart,
     SettlePaid DEF SettlementNext
=============================================================================
