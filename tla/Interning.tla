----------------------------- MODULE Interning ------------------------------
(***************************************************************************)
(* What the users of string_set_add(), string_id_add() and                 *)
(* tracon_set_add() rely on: whoever gives in something gets a handle to   *)
(* it, the handle that everything alike has got before, and no handle that *)
(* something else has got.  Comparing handles is comparing what they stand *)
(* for.  Nothing is said of tables.                                        *)
(***************************************************************************)
CONSTANT Items

VARIABLES
  alike,      \* the pairs of items that are to have one handle
  handed      \* item -> the handles its users have got

vars == <<alike, handed>>

Nobody == [c \in Items |-> {}]

(* The handle is the implementation's choice.                              *)
Intern(c) ==
  /\ \E h \in handed'[c] :
       /\ \A d \in Items : \A g \in handed[d] : h = g <=> <<c, d>> \in alike
       /\ handed' = [handed EXCEPT ![c] = handed[c] \cup {h}]
  /\ UNCHANGED alike

(* All users have thrown their handles away.                               *)
Forget == handed' = Nobody /\ UNCHANGED alike

Init ==
  /\ alike \subseteq Items \X Items
  /\ \A c \in Items : <<c, c>> \in alike
  /\ \A c, d, e \in Items : <<c, d>> \in alike /\ <<c, e>> \in alike => <<d, e>> \in alike
  /\ handed = Nobody

Next == Forget \/ \E c \in Items : Intern(c)

Spec == Init /\ [][Next]_vars
=============================================================================
