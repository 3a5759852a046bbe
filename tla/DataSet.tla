------------------------------ MODULE DataSet ------------------------------
(***************************************************************************)
(* The ordered set of ntsdb/set.go, kept in a database key by key: its     *)
(* length, the key at each index, the index of each key (one more, so that *)
(* 0 is none) and the value of each key (0 is none).  An operation is the  *)
(* sequence of its Puts, of which a process that ends has done the first   *)
(* ones.                                                                   *)
(***************************************************************************)
EXTENDS Integers, SequencesExt

CONSTANTS
    Chain,          \* the keys
    NoChain,        \* an empty key
    MaxSlot         \* bound: the highest index

ASSUME SetConstants == NoChain \notin Chain /\ MaxSlot \in Nat

Key == Chain \cup {NoChain}
Slot == 0..MaxSlot

EmptySet == [len |-> 0, slot |-> [i \in Slot |-> NoChain],
             at |-> [c \in Key |-> 0], num |-> [c \in Key |-> 0]]

Put(field, key, val) == [field |-> field, key |-> key, val |-> val]
PutLen(n) == Put("len", NoChain, n)

(* The database after the Puts: the last one of a database key counts. *)
PutAll(s, puts) ==
    LET last(field, key, old) ==
            LET at == {n \in DOMAIN puts : puts[n].field = field /\ puts[n].key = key}
            IN  IF at = {} THEN old ELSE puts[Max(at)].val
    IN  [len |-> last("len", NoChain, s.len),
         slot |-> [i \in Slot |-> last("slot", i, s.slot[i])],
         at |-> [c \in Key |-> last("at", c, s.at[c])],
         num |-> [c \in Key |-> last("num", c, s.num[c])]]

(* An empty value is not stored. *)
Update(i, c, n) ==
    <<Put("slot", i, c), Put("at", c, i + 1)>>
    \o IF n = 0 THEN <<>> ELSE <<Put("num", c, n)>>

Clear(i, c) == <<Put("slot", i, NoChain), Put("at", c, 0), Put("num", c, 0)>>

AddWithValue(s, c, n) ==
    IF s.at[c] # 0 THEN <<>> ELSE <<PutLen(s.len + 1)>> \o Update(s.len, c, n)

(* The last key takes the place of the one removed. *)
RemoveByIndex(s, i) ==
    LET removed == s.slot[i]
        last == s.slot[s.len - 1]
    IN  IF s.len = 0 \/ removed = NoChain THEN <<>>
        ELSE (IF i = s.len - 1 THEN Clear(i, removed)
              ELSE Clear(s.len - 1, last) \o Clear(i, removed) \o Update(i, last, s.num[last]))
             \o <<PutLen(s.len - 1)>>

RemoveKey(s, c) == IF s.at[c] = 0 THEN <<>> ELSE RemoveByIndex(s, s.at[c] - 1)

(* The entries are without a gap, each has its own key, index and value,   *)
(* and nothing else is stored.                                             *)
Whole(s) ==
    /\ \A i \in Slot : s.slot[i] # NoChain <=> i < s.len
    /\ \A i \in Slot, c \in Key : s.at[c] = i + 1 <=> i < s.len /\ s.slot[i] = c
    /\ \A c \in Key : s.at[c] # 0 <=> s.num[c] # 0
=============================================================================
