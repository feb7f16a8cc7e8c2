----------------------------- MODULE CountTable -----------------------------
(***************************************************************************)
(* The hash table of counts of count.c: alloc_count_context(), the lookups *)
(* and stores of the recursion of do_count(), the growth of the table in   *)
(* the middle of it, and the array that each thread keeps for its next     *)
(* sentence until it ends.                                                 *)
(*                                                                         *)
(* A key stands for l_id, r_id and the null count.  A slot is the set of   *)
(* the entries in its chain, since table_lookup() compares whole keys.     *)
(* calls holds the calls of do_count() that have looked up their key and   *)
(* not stored a count yet.                                                 *)
(***************************************************************************)
EXTENDS Integers, Sequences, FiniteSets

CONSTANTS
  Threads,
  Keys,
  Hash(_),          \* pair_hash()
  Counts,
  InitSizes,        \* the sizes that init_table() asks for, powers of 2
  MaxTableSize,     \* 1 << MAX_LOG2_TABLE_SIZE
  InvLoadFactor     \* INV_LOAD_FACTOR

ASSUME CountAssumption ==
  /\ \A key \in Keys : Hash(key) \in Nat
  /\ InitSizes \subseteq Nat \ {0}
  /\ MaxTableSize \in Nat \ {0}

VARIABLES
  kept,     \* for each thread: kept_table_size and kept_table
  ctxt,     \* for each thread: table_size and table_available_count, or NoContext
  entries,  \* for each thread: the entries of Table_tracon_pool
  calls     \* for each thread: the calls of do_count(), the innermost last

ctvars == <<kept, ctxt, entries, calls>>

NoContext == [size |-> 0, avail |-> 0]
NoTable == [size |-> 0, table |-> <<>>]
Unlimited == 1000     \* UINT_MAX

Slot(key, size) == Hash(key) % size

Limited(size) == IF size < MaxTableSize THEN size ELSE MaxTableSize

(* The memory of table_alloc(): the array kept, if it is large enough, or  *)
(* a new one; the part that is used is zeroed.                             *)
KeptTable(k, size) ==
  IF k.size < size THEN [size |-> size, table |-> [i \in 0..(size - 1) |-> {}]]
  ELSE [size |-> k.size,
        table |-> [i \in 0..(k.size - 1) |-> IF i < size THEN {} ELSE k.table[i]]]

SizedContext(size) == [size |-> size, avail |-> size \div InvLoadFactor]

(* Entries at the heads of their chains, and the slots they take up.       *)
Linked(k, size, es) ==
  [k EXCEPT !.table = [i \in DOMAIN k.table |->
                         k.table[i] \cup {e \in es : Slot(e.key, size) = i}]]

TakesUp(c, k, es) ==
  LET new == {i \in {Slot(e.key, c.size) : e \in es} : k.table[i] = {}}
  IN  [c EXCEPT !.avail = c.avail - Cardinality(new)]

(* Mutant: the entries are not hashed again. *)
grow_empty(c, k, es) ==
  IF c.size >= MaxTableSize THEN [c |-> [c EXCEPT !.avail = Unlimited], k |-> k]
  ELSE [c |-> SizedContext(Limited(2 * c.size)), k |-> KeptTable(k, Limited(2 * c.size))]

(* table_grow() *)
table_grow(c, k, es) ==
  LET size == Limited(2 * c.size)
      new == KeptTable(k, size)
  IN  IF c.size >= MaxTableSize THEN [c |-> [c EXCEPT !.avail = Unlimited], k |-> k]
      ELSE [c |-> TakesUp(SizedContext(size), new, es), k |-> Linked(new, size, es)]

Live(th) == ctxt[th] # NoContext

(* What table_lookup() finds.                                              *)
Found(th, key) == {e \in kept[th].table[Slot(key, ctxt[th].size)] : e.key = key}

Pending(th) == {calls[th][n] : n \in DOMAIN calls[th]}

-----------------------------------------------------------------------------
CTInit ==
  /\ kept = [th \in Threads |-> NoTable]
  /\ ctxt = [th \in Threads |-> NoContext]
  /\ entries = [th \in Threads |-> {}]
  /\ calls = [th \in Threads |-> <<>>]

(* alloc_count_context(): pool_reuse() and init_table(). *)
AllocContext(th) ==
  /\ ~Live(th)
  /\ \E size \in InitSizes :
       /\ ctxt' = [ctxt EXCEPT ![th] = SizedContext(Limited(size))]
       /\ kept' = [kept EXCEPT ![th] = KeptTable(kept[th], Limited(size))]
  /\ entries' = [entries EXCEPT ![th] = {}]
  /\ UNCHANGED calls

(* do_count() looks up its key, and goes on with the count if it is not    *)
(* in the table; an inner call is for another range.                       *)
LookUp(th) ==
  /\ Live(th)
  /\ \E key \in Keys \ Pending(th) :
       /\ Found(th, key) = {}
       /\ calls' = [calls EXCEPT ![th] = Append(calls[th], key)]
  /\ UNCHANGED <<kept, ctxt, entries>>

(* The innermost call stores its count, with the hash of its lookup; the   *)
(* table may have grown since.                                             *)
table_store(th) ==
  /\ Live(th) /\ calls[th] # <<>>
  /\ LET c == ctxt[th]
         grown == IF c.avail = 0 THEN table_grow(c, kept[th], entries[th])
                  ELSE [c |-> c, k |-> kept[th]]
     IN  \E count \in Counts :
           LET entry == [key |-> calls[th][Len(calls[th])], count |-> count]
           IN  /\ ctxt' = [ctxt EXCEPT ![th] = TakesUp(grown.c, grown.k, {entry})]
               /\ kept' = [kept EXCEPT ![th] = Linked(grown.k, grown.c.size, {entry})]
               /\ entries' = [entries EXCEPT ![th] = entries[th] \cup {entry}]
  /\ calls' = [calls EXCEPT ![th] = SubSeq(calls[th], 1, Len(calls[th]) - 1)]

(* free_count_context(): the array is kept for the next sentence. *)
FreeContext(th) ==
  /\ Live(th) /\ calls[th] = <<>>
  /\ ctxt' = [ctxt EXCEPT ![th] = NoContext]
  /\ UNCHANGED <<kept, entries, calls>>

(* free_tls_table(), when the thread ends; another thread may start.       *)
ThreadExit(th) ==
  /\ ~Live(th) /\ kept[th] # NoTable
  /\ kept' = [kept EXCEPT ![th] = NoTable]
  /\ UNCHANGED <<ctxt, entries, calls>>

CTNext ==
  \E th \in Threads :
    AllocContext(th) \/ LookUp(th) \/ table_store(th) \/ FreeContext(th) \/ ThreadExit(th)

CTSpec == CTInit /\ [][CTNext]_ctvars

-----------------------------------------------------------------------------
(* table_lookup() finds what this context has stored, at most one count    *)
(* for a key, and nothing else: not what the array held for an earlier     *)
(* sentence or what the growth of the table in the middle of a count has   *)
(* moved.                                                                  *)
FindsStored ==
  \A th \in Threads : Live(th) =>
    /\ \A key \in Keys : Found(th, key) = {e \in entries[th] : e.key = key}
    /\ \A d, e \in entries[th] : d.key = e.key => d = e
=============================================================================
