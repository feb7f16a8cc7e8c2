----------------------------- MODULE PowerTable -----------------------------
(***************************************************************************)
(* One table of the power pruning: the connectors of one word that point   *)
(* one way, hashed on the number of their name (uc_num) with linear        *)
(* probing, where connectors leave the table while it is in use.           *)
(* clean_table() leaves a tombstone in the place of the last connector of  *)
(* a slot if the next slot is used, so that no search stops too early.     *)
(* A slot is the set of the connectors in its list; that the shallow ones  *)
(* come first is not modelled.                                             *)
(***************************************************************************)
EXTENDS Integers, FiniteSets

CONSTANTS
  Connectors,   \* records [uc, id]
  OtherNames,   \* numbers of other names, to be searched for in vain
  Size,         \* next_power_of_two_up() of three times the number of names
  MaxRefcount   \* bound on the number of jets that share a connector

Names == {c.uc : c \in Connectors}

ASSUME PowerTableAssumption ==
  /\ IsFiniteSet(Connectors) /\ Names \subseteq Nat /\ OtherNames \subseteq Nat
  /\ Size \in Nat /\ Cardinality(Names) < Size

VARIABLES
  slots,        \* the table
  unplaced,     \* the connectors that power_table_init() has still to insert
  refcount,     \* of each connector
  cleaning      \* the slot clean_table() looks at, Size when it is not running

ptvars == <<slots, unplaced, refcount, cleaning>>

Slots == 0..(Size - 1)

Tombstone == [uc |-> -1, id |-> 0]   \* con_no_match

-----------------------------------------------------------------------------
(* The k-th slot of a search.                                              *)
Probe(uc, k) == LET h == (uc % Size) + k IN IF h < Size THEN h ELSE h - Size

Next1(h) == IF h + 1 = Size THEN 0 ELSE h + 1

(* The search ends at an unused slot or at the one of the name.            *)
Stops(uc, h) == slots[h] = {} \/ \E c \in slots[h] : c.uc = uc

(* get_power_table_entry(): at most one slot; none if all have been tried. *)
Entry(uc) ==
  {Probe(uc, k) : k \in {k \in Slots : /\ Stops(uc, Probe(uc, k))
                                       /\ \A m \in 0..(k - 1) : ~Stops(uc, Probe(uc, m))}}

(* put_into_power_table(), called by power_table_init()                    *)
Put(c) ==
  /\ c \in unplaced
  /\ \E h \in Entry(c.uc) : slots' = [slots EXCEPT ![h] = slots[h] \cup {c}]
  /\ unplaced' = unplaced \ {c}
  /\ UNCHANGED <<refcount, cleaning>>

(* mark_jet_for_dequeue(), on one of its connectors *)
Dequeue(c) ==
  /\ unplaced = {} /\ cleaning = Size
  /\ refcount[c] > 0
  /\ refcount' = [refcount EXCEPT ![c] = refcount[c] - 1]
  /\ UNCHANGED <<slots, unplaced, cleaning>>

StartClean ==
  /\ unplaced = {} /\ cleaning = Size
  /\ cleaning' = 0
  /\ UNCHANGED <<slots, unplaced, refcount>>

Used(list) == {c \in list : c = Tombstone \/ refcount[c] > 0}

(* Mutant: no tombstone. *)
RemoveAll(h) == Used(slots[h])

(* What remains of a slot. *)
Remaining(h) ==
  IF slots[h] # {} /\ Used(slots[h]) = {} /\ slots[Next1(h)] # {}
  THEN {Tombstone} ELSE Used(slots[h])

(* clean_table(), for one slot *)
CleanSlot ==
  /\ unplaced = {} /\ cleaning < Size
  /\ slots' = [slots EXCEPT ![cleaning] = Remaining(cleaning)]
  /\ cleaning' = cleaning + 1
  /\ UNCHANGED <<unplaced, refcount>>

(* power_table_init(), with the table memory zeroed.                       *)
PTInit ==
  /\ slots = [h \in Slots |-> {}]
  /\ unplaced = Connectors
  /\ refcount \in [Connectors -> 1..MaxRefcount]
  /\ cleaning = Size

PTNext == (\E c \in Connectors : Put(c) \/ Dequeue(c)) \/ StartClean \/ CleanSlot

PTSpec == PTInit /\ [][PTNext]_ptvars

-----------------------------------------------------------------------------
(* Every connector that is still used is in the slot that a search for its *)
(* name finds, after any sequence of deletions and even half way through   *)
(* clean_table(), with connectors of no other name; and a search for any   *)
(* name gets a slot, whatever has been left behind: prune.c follows the    *)
(* pointer without looking at it.                                          *)
SearchFindsUsed ==
  /\ \A c \in Connectors \ unplaced : refcount[c] > 0 => \E h \in Entry(c.uc) : c \in slots[h]
  /\ \A h \in Slots : \A c, d \in slots[h] : c.uc = d.uc
  /\ \A uc \in Names \cup OtherNames : Entry(uc) # {}
=============================================================================
