----------------------------- MODULE StringSet ------------------------------
(***************************************************************************)
(* string-set.c and string-id.c: one copy, and one number, for every       *)
(* string.  A table with quadratic probing, which grows when it is 3/4     *)
(* full, holds pointers to copies in a chain of memory blocks.  The two    *)
(* files differ only in what string_set_add() and string_id_add() return.  *)
(* The model is of the build without DEBUG.                                *)
(*                                                                         *)
(* Names that tracon-set.c has too have a prefix.  A call that grows the   *)
(* table takes several steps, one for each string that is moved; no other  *)
(* call runs in between.  A search that does not end is no step.           *)
(***************************************************************************)
EXTENDS Probing

CONSTANTS
  Strings,
  hash_string,     \* their hashes
  SizeOf,          \* their sizes, with the terminator
  MEM_POOL_INIT, MEM_POOL_INCR, STR_ALIGNMENT,
  Header           \* sizeof(str_mem_pool)

ASSUME StringAssumption ==
  /\ hash_string \in [Strings -> Nat]
  /\ MEM_POOL_INIT \in Nat /\ MEM_POOL_INCR \in Nat /\ Header \in Nat
  /\ STR_ALIGNMENT \in Nat \ {0}
  /\ SizeOf \in [Strings -> 1..(MEM_POOL_INCR - Header)]

VARIABLES
  strs,            \* table: slot -> the string there, if any, as a set
  str_old,         \* the strings of the table before it grew that are not moved yet
  str_prime,       \* prime_idx
  str_count,
  str_available,   \* available_count
  string_pool,     \* the number of blocks in the chain
  str_next,        \* alloc_next, as an offset in the last block
  pool_free_count,
  copies           \* what the calls have returned: string -> set of [id, blk, off]

ssvars == <<strs, str_old, str_prime, str_count, str_available, string_pool, str_next,
            pool_free_count, copies>>

MAX_STRING_SET_TABLE_SIZE(s) == (s * 3) \div 4

StringsMoving == Contents(str_old) # {}

(* Mutant: the hash is taken for the string. *)
HashEnds(s, h, tab) == {p \in DOMAIN tab : \A e \in tab[p] : e.hash = h}

(* place_found() *)
StringEnds(s, h, tab) == {p \in DOMAIN tab : \A e \in tab[p] : e.hash = h /\ e.str = s}

(* find_place() *)
StringPlace(s, h) == FirstPlace(h, s_prime[str_prime], StringEnds(s, h, strs))

(* string_set_lookup(), string_id_lookup() *)
StringFound(s) == UNION {strs[p] : p \in StringPlace(s, hash_string[s])}

Copy(e) == [id |-> e.id, blk |-> e.blk, off |-> e.off]

-----------------------------------------------------------------------------
BlockSize(b) == (IF b = 1 THEN MEM_POOL_INIT ELSE MEM_POOL_INCR) - Header

StrAlign(n) == ((n + STR_ALIGNMENT - 1) \div STR_ALIGNMENT) * STR_ALIGNMENT

NeedsBlock(n) == pool_free_count - n < 0

(* ss_stralloc(), for a string that is smaller than a block: a new block,  *)
(* ss_pool_alloc(), if there is not enough left.  The size is subtracted   *)
(* twice.                                                                  *)
ss_stralloc(n) ==
  LET off == IF NeedsBlock(n) THEN 0 ELSE str_next
      left == IF NeedsBlock(n) THEN MEM_POOL_INCR - Header ELSE pool_free_count - n
  IN  /\ string_pool' = IF NeedsBlock(n) THEN string_pool + 1 ELSE string_pool
      /\ str_next' = StrAlign(off + n)
      /\ pool_free_count' = left - (n + StrAlign(off + n) - off)

(* The entry of a string that is added; its number is the count.           *)
NewEntry(s) ==
  [str |-> s, hash |-> hash_string[s], id |-> str_count + 1,
   blk |-> IF NeedsBlock(SizeOf[s]) THEN string_pool + 1 ELSE string_pool,
   off |-> IF NeedsBlock(SizeOf[s]) THEN 0 ELSE str_next]

(* string_set_add(), string_id_add(), of a string that is in the set       *)
AddOld(s) ==
  /\ ~StringsMoving /\ StringFound(s) # {}
  /\ copies' = [copies EXCEPT ![s] = copies[s] \cup {Copy(e) : e \in StringFound(s)}]
  /\ UNCHANGED <<strs, str_old, str_prime, str_count, str_available, string_pool, str_next, pool_free_count>>

(* ... and of a new one, up to the loop of grow_table() if the table is    *)
(* too full now                                                            *)
AddNew(s) ==
  /\ ~StringsMoving /\ StringFound(s) = {}
  /\ \E p \in StringPlace(s, hash_string[s]) :
       LET new == [strs EXCEPT ![p] = {NewEntry(s)}]
       IN  IF str_available = 1
           THEN /\ str_prime < Len(s_prime)
                /\ str_prime' = str_prime + 1
                /\ str_old' = new
                /\ strs' = NoEntries(str_prime + 1)
                /\ str_available' = MAX_STRING_SET_TABLE_SIZE(s_prime[str_prime + 1])
                                    - MAX_STRING_SET_TABLE_SIZE(s_prime[str_prime])
           ELSE /\ strs' = new
                /\ str_available' = str_available - 1
                /\ UNCHANGED <<str_old, str_prime>>
  /\ ss_stralloc(SizeOf[s])
  /\ str_count' = str_count + 1
  /\ copies' = [copies EXCEPT ![s] = copies[s] \cup {Copy(NewEntry(s))}]

(* Mutant: the slots are copied as they are. *)
MoveInPlace ==
  /\ \E i \in NextUsed(str_old) :
       /\ strs' = [strs EXCEPT ![i] = str_old[i]]
       /\ str_old' = [str_old EXCEPT ![i] = {}]
  /\ UNCHANGED <<str_prime, str_count, str_available, string_pool, str_next, pool_free_count, copies>>

(* One string of the loop of grow_table() *)
MoveString ==
  /\ \E i \in NextUsed(str_old) : \E e \in str_old[i] : \E p \in StringPlace(e.str, e.hash) :
       /\ strs' = [strs EXCEPT ![p] = {e}]
       /\ str_old' = [str_old EXCEPT ![i] = {}]
  /\ UNCHANGED <<str_prime, str_count, str_available, string_pool, str_next, pool_free_count, copies>>

(* string_set_create(), string_id_create() *)
SSInit ==
  /\ strs = NoEntries(1) /\ str_old = NoEntries(1)
  /\ str_prime = 1 /\ str_count = 0
  /\ str_available = MAX_STRING_SET_TABLE_SIZE(s_prime[1])
  /\ string_pool = 1 /\ str_next = 0
  /\ pool_free_count = MEM_POOL_INIT - Header
  /\ copies = [s \in Strings |-> {}]

SSNext == (\E s \in Strings : AddOld(s) \/ AddNew(s)) \/ MoveString

SSSpec == SSInit /\ [][SSNext]_ssvars

-----------------------------------------------------------------------------
(* Two copies do not share a byte.                                         *)
Apart(i, m, j, n) == i.blk = j.blk => i.off + m <= j.off \/ j.off + n <= i.off

(* A string keeps one pointer and one number, whatever collides with it    *)
(* and however often the table grows, and no two strings share a number or *)
(* a byte of their copies: comparing pointers (string_set_cmp()) is        *)
(* comparing strings.  A copy lies in its block.  A lookup finds what has  *)
(* been added and nothing else.                                            *)
OneForEachString ==
  /\ ~StringsMoving => \A s \in Strings : copies[s] = {Copy(e) : e \in StringFound(s)}
  /\ \A s, t \in Strings : \A i \in copies[s], j \in copies[t] :
       IF s = t THEN i = j ELSE i.id # j.id /\ Apart(i, SizeOf[s], j, SizeOf[t])
  /\ \A s \in Strings : \A i \in copies[s] : i.off + SizeOf[s] <= BlockSize(i.blk)

Itself == {<<s, s>> : s \in Strings}
Pointer(c) == [blk |-> c.blk, off |-> c.off]

Pointers == INSTANCE Interning WITH
              Items <- Strings, alike <- Itself, handed <- [s \in Strings |-> {Pointer(c) : c \in copies[s]}]
Numbers  == INSTANCE Interning WITH
              Items <- Strings, alike <- Itself, handed <- [s \in Strings |-> {c.id : c \in copies[s]}]

(* The table, its growth and its memory keep the promise of Interning,     *)
(* string_set_add() with the pointers it returns and string_id_add() with  *)
(* its numbers: users compare these instead of strings.                    *)
StringsInterned == Pointers!Spec /\ Numbers!Spec
=============================================================================
