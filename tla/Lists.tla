-------------------------------- MODULE Lists --------------------------------
(***************************************************************************)
(* The operators on sequences that the modules of the system contract      *)
(* use.  Those that SequencesExt has carry its names and mean the same;    *)
(* they are written out because SequencesExt extends Bags and TLC, whose   *)
(* theorems every proof step about the contract would carry along.         *)
(***************************************************************************)
EXTENDS Naturals, Sequences, FiniteSets, FiniteSetsExt

ToSet(s) == {s[i] : i \in DOMAIN s}

Front(s) == SubSeq(s, 1, Len(s) - 1)

Last(s) == s[Len(s)]

(* The place of x in a list that has it. *)
IndexOf(s, x) == CHOOSE i \in DOMAIN s : s[i] = x

InsertAt(s, i, x) == SubSeq(s, 1, i - 1) \o <<x>> \o SubSeq(s, i, Len(s))

(* StateSet.Remove: the last item takes the place of the removed one. *)
StateSetRemove(s, i) ==
    IF i = Len(s) THEN Front(s) ELSE [Front(s) EXCEPT ![i] = Last(s)]

(* StateSet.RemoveOrder of an item of the list: the others keep their order. *)
RemoveOrder(s, x) ==
    [k \in 1..(Len(s) - 1) |-> IF k < IndexOf(s, x) THEN s[k] ELSE s[k + 1]]

(* A loop over the list: op(...op(op(base, s[1]), s[2])..., s[Len(s)]). *)
FoldLeft(op(_, _), base, s) ==
    MapThenFoldSet(LAMBDA x, y : op(y, x), base, LAMBDA i : s[i], Max, DOMAIN s)

(* The position of the last item that passes the test; 0 if none does. *)
SelectLastInSeq(s, Test(_)) ==
    LET passed == {i \in 1..Len(s) : Test(s[i])}
    IN  IF passed = {} THEN 0 ELSE Max(passed)

(* A finite set as a list, in an order that does not matter. *)
SetToSeq(S) == CHOOSE s \in [1..Cardinality(S) -> S] : IsInjective(s)

(* A finite set as a list, by the strict order R: an item has as many      *)
(* items before it as there are below it.                                  *)
InOrder(S, R) ==
    [k \in 1..Cardinality(S) |->
        CHOOSE x \in S : Cardinality({y \in S : <<y, x>> \in R}) = k - 1]

Ascending(S) == InOrder(S, {p \in S \X S : p[1] < p[2]})
=============================================================================
