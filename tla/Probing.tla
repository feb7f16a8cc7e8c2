------------------------------ MODULE Probing -------------------------------
(***************************************************************************)
(* Quadratic probing, as find_place() of string-set.c, string-id.c and     *)
(* tracon-set.c does it, and the table sizes of const-prime.c.             *)
(***************************************************************************)
EXTENDS Integers, Sequences, FiniteSets

CONSTANT s_prime     \* the table sizes

ASSUME SizesAssumption == s_prime \in Seq(Nat \ {0}) /\ s_prime # <<>>

Places(k) == 0..(s_prime[k] - 1)

NoEntries(k) == [p \in Places(k) |-> {}]

(* The slot after n collisions: 1, 3, 5... are added to the key.           *)
Quadratic(h, n, sz) == (h + n * n) % sz

(* The first slot of the probes for a hash h that is in ends, at most one; *)
(* none if the search does not end.  The probes repeat after sz of them.   *)
FirstPlace(h, sz, ends) ==
  {Quadratic(h, n, sz) :
     n \in {n \in 0..sz : /\ Quadratic(h, n, sz) \in ends
                          /\ \A m \in 0..(n - 1) : Quadratic(h, m, sz) \notin ends}}

(* All the entries of a table whose slots hold at most one each.           *)
Contents(tab) == UNION {tab[p] : p \in DOMAIN tab}

(* The slots that the loop of grow_table() copies next.                    *)
NextUsed(tab) ==
  {p \in DOMAIN tab : tab[p] # {} /\ \A q \in DOMAIN tab : q < p => tab[q] = {}}
=============================================================================
