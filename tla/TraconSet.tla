----------------------------- MODULE TraconSet ------------------------------
(***************************************************************************)
(* tracon-set.c: the set of the different connector sequences (tracons) of *)
(* a word, by which disjuncts share them.  Unlike the string sets, the     *)
(* table grows before an insertion, tracon_set_add() hands out the slot    *)
(* for its caller to fill, and the table is cleared for every word with    *)
(* the size it has reached.  For pruning, tracons that start with a        *)
(* shallow connector are not the same as those that start with a deep one. *)
(* The steps are those of StringSet.                                       *)
(***************************************************************************)
EXTENDS Probing

CONSTANTS
  TraconsUsed,      \* records [cs, shallow]: the connectors, the first is shallow
  HashOf,           \* connector_list_hash(), on cs
  ShallowHash,      \* what hash_connectors() adds for a shallow tracon
  MaxResets         \* bound on the number of words

ASSUME TraconAssumption ==
  /\ TraconsUsed \subseteq [cs : DOMAIN HashOf, shallow : BOOLEAN]
  /\ HashOf \in [DOMAIN HashOf -> Nat] /\ ShallowHash \in Nat

VARIABLES
  shallow,          \* tracon_set_shallow() was called
  tracons,          \* table: slot -> the tracon there, if any, as a set
  tr_old,           \* the tracons of the table before it grew that are not moved yet
  tr_prime,         \* prime_idx
  tr_available,     \* available_count
  waiting,          \* the tracon whose addition has made the table grow, if any, as a set
  added,            \* tracon -> the slots' contents handed out since the reset
  resets

tsvars == <<shallow, tracons, tr_old, tr_prime, tr_available, waiting, added, resets>>

MAX_TRACON_SET_TABLE_SIZE(s) == (s * 3) \div 8

TraconsMoving == Contents(tr_old) # {}

Same(c, d) == c.cs = d.cs /\ (shallow => c.shallow = d.shallow)

hash_connectors(c) == HashOf[c.cs] + IF shallow /\ c.shallow THEN ShallowHash ELSE 0

(* place_found() *)
TraconEnds(c, h, tab) == {p \in DOMAIN tab : \A e \in tab[p] : e.hash = h /\ Same(e, c)}

(* find_place() *)
TraconPlace(c, h) == FirstPlace(h, s_prime[tr_prime], TraconEnds(c, h, tracons))

(* The tracon as its caller, pack_connectors(), puts it into the slot: in  *)
(* the connector block of the word.                                        *)
Here(c) == [cs |-> c.cs, shallow |-> c.shallow, word |-> resets, hash |-> hash_connectors(c)]

-----------------------------------------------------------------------------
(* tracon_set_add() of a table that is too full, up to the loop of         *)
(* grow_table().                                                           *)
GrowFor(c) ==
  /\ ~TraconsMoving /\ waiting = {} /\ tr_available = 0
  /\ tr_prime < Len(s_prime)
  /\ tr_prime' = tr_prime + 1
  /\ tr_old' = tracons
  /\ tracons' = NoEntries(tr_prime + 1)
  /\ tr_available' = MAX_TRACON_SET_TABLE_SIZE(s_prime[tr_prime + 1])
                     - MAX_TRACON_SET_TABLE_SIZE(s_prime[tr_prime])
  /\ waiting' = {c}
  /\ UNCHANGED <<shallow, added, resets>>

(* Mutant: the slots are copied as they are. *)
MoveTraconInPlace ==
  /\ \E i \in NextUsed(tr_old) :
       /\ tracons' = [tracons EXCEPT ![i] = tr_old[i]]
       /\ tr_old' = [tr_old EXCEPT ![i] = {}]
  /\ UNCHANGED <<shallow, tr_prime, tr_available, waiting, added, resets>>

(* One tracon of the loop of grow_table() *)
MoveTracon ==
  /\ \E i \in NextUsed(tr_old) : \E e \in tr_old[i] : \E p \in TraconPlace(e, e.hash) :
       /\ tracons' = [tracons EXCEPT ![p] = {e}]
       /\ tr_old' = [tr_old EXCEPT ![i] = {}]
  /\ UNCHANGED <<shallow, tr_prime, tr_available, waiting, added, resets>>

(* tracon_set_add(), with the assignment of its caller.                    *)
AddTracon(c) ==
  /\ ~TraconsMoving
  /\ IF waiting = {} THEN tr_available > 0 ELSE c \in waiting
  /\ \E p \in TraconPlace(c, hash_connectors(c)) :
       LET here == IF tracons[p] = {} THEN {Here(c)} ELSE tracons[p]
       IN  /\ tracons' = [tracons EXCEPT ![p] = here]
           /\ tr_available' = IF tracons[p] = {} THEN tr_available - 1 ELSE tr_available
           /\ added' = [added EXCEPT ![c] = added[c] \cup here]
  /\ waiting' = {}
  /\ UNCHANGED <<shallow, tr_old, tr_prime, resets>>

(* Mutant: the slots are not cleared. *)
ResetCount ==
  /\ ~TraconsMoving /\ waiting = {}
  /\ resets < MaxResets
  /\ resets' = resets + 1
  /\ tr_available' = MAX_TRACON_SET_TABLE_SIZE(s_prime[tr_prime])
  /\ added' = [c \in TraconsUsed |-> {}]
  /\ UNCHANGED <<shallow, tracons, tr_old, tr_prime, waiting>>

(* tracon_set_reset() *)
Reset ==
  /\ ~TraconsMoving /\ waiting = {}
  /\ resets < MaxResets
  /\ resets' = resets + 1
  /\ tracons' = NoEntries(tr_prime)
  /\ tr_available' = MAX_TRACON_SET_TABLE_SIZE(s_prime[tr_prime])
  /\ added' = [c \in TraconsUsed |-> {}]
  /\ UNCHANGED <<shallow, tr_old, tr_prime, waiting>>

(* tracon_set_create(), tracon_set_shallow() *)
TSInit ==
  /\ shallow \in BOOLEAN
  /\ tracons = NoEntries(1) /\ tr_old = NoEntries(1)
  /\ tr_prime = 1 /\ resets = 0
  /\ tr_available = MAX_TRACON_SET_TABLE_SIZE(s_prime[1])
  /\ waiting = {}
  /\ added = [c \in TraconsUsed |-> {}]

TSNext == (\E c \in TraconsUsed : GrowFor(c) \/ AddTracon(c)) \/ MoveTracon \/ Reset

TSSpec == TSInit /\ [][TSNext]_tsvars

-----------------------------------------------------------------------------
(* Tracons are shared exactly when they are the same, however many of      *)
(* them collide, through every growth of the table and after every reset:  *)
(* adding a tracon returns the first one added that is the same, and one   *)
(* of another word is never returned.                                      *)
SharesSame ==
  \A c \in TraconsUsed : \A e \in added[c] :
    /\ added[c] = {e}
    /\ Same(c, e) /\ e.word = resets
    /\ \A d \in TraconsUsed : added[d] # {} => (e \in added[d] <=> Same(c, d))

Shared == INSTANCE Interning WITH
            Items <- TraconsUsed, handed <- added,
            alike <- {p \in TraconsUsed \X TraconsUsed : Same(p[1], p[2])}

(* The tracon set keeps the promise of Interning with the tracons it hands *)
(* out for one word.                                                       *)
TraconsInterned == Shared!Spec
=============================================================================
