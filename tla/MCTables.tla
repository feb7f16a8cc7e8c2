------------------------------ MODULE MCTables ------------------------------
(***************************************************************************)
(* TLC instances of the tables, pools and caches of the library: a memory  *)
(* pool, a connector table of the power pruning, a string set, a tracon    *)
(* set, the table of counts of a thread, and the caches of a count for a   *)
(* long sentence (LongCount).  In a behaviour one of them is used; the     *)
(* others stay as they are created.                                        *)
(***************************************************************************)
EXTENDS MemoryPool, CountTable, PowerTable, StringSet, TraconSet

CONSTANTS LongSentences, MaxNullCount

VARIABLES which, lword, islands_ok, sent_nc, counted

Con(uc, id) == [uc |-> uc, id |-> id]

(* Three names of one collision chain that wraps around the end of a table *)
(* of 16 slots, one of them with two connectors, and a name with a slot of *)
(* its own.                                                                *)
MCConnectors == {Con(15, 1), Con(31, 2), Con(16, 3), Con(16, 4), Con(7, 5)}

MCPrimes == <<5, 11, 23>>

(* Strings whose hashes are equal, collide in the first table only, or in  *)
(* the second one only.                                                    *)
MCStrings == {"a", "b", "c", "d", "e", "f", "g"}
MCHash == [s \in MCStrings |->
             CASE s = "a" -> 3 [] s = "b" -> 3 [] s = "c" -> 8 [] s = "d" -> 14 [] s = "e" -> 4
               [] s = "f" -> 13 [] s = "g" -> 0]
MCSizes == [s \in MCStrings |->
              CASE s \in {"a", "d"} -> 5 [] s = "b" -> 1 [] s \in {"c", "g"} -> 13 [] OTHER -> 3]

MCTracons == [cs : {<<1>>, <<1, 2>>, <<3, 1>>}, shallow : BOOLEAN] \cup {[cs |-> <<2>>, shallow |-> FALSE]}
MCListHash == [cs \in {c.cs : c \in MCTracons} |-> IF Len(cs) = 2 THEN 6 ELSE 2 * cs[1]]

(* Entries that share a slot in every table, or in the small ones. *)
MCKeyHash(key) == CASE key = 1 -> 5 [] key = 2 -> 13 [] key = 3 -> 1 [] OTHER -> 2

(* Sentences of four words over chains, branches and multi-connectors,     *)
(* where the cached word vectors and match lists are used again for other  *)
(* ranges of words.                                                        *)
A == [uc |-> "A", multi |-> FALSE, limit |-> 9]
B == [uc |-> "B", multi |-> FALSE, limit |-> 9]
M == [uc |-> "A", multi |-> TRUE, limit |-> 9]

D(l, r) == [left |-> l, right |-> r]

Starts   == <<D(<<>>, <<A>>), D(<<>>, <<B, A>>), D(<<>>, <<M>>), D(<<>>, <<B, M>>)>>
Middle   == <<D(<<A>>, <<A>>), D(<<A>>, <<>>), D(<<>>, <<A>>), D(<<A>>, <<B>>), D(<<A>>, <<B, A>>)>>
Multi    == <<D(<<>>, <<M>>), D(<<M>>, <<>>), D(<<M>>, <<M>>), D(<<B>>, <<M>>)>>
Ends     == <<D(<<B, A>>, <<>>), D(<<A>>, <<>>), D(<<A, A>>, <<>>), D(<<B>>, <<>>), D(<<B, M>>, <<>>)>>

MCLong == {<<Starts>> \o s : s \in [1..3 -> {Middle, Multi, Ends}]}
MCLongSentences == {[w \in 0..3 |-> s[w + 1]] : s \in MCLong}

L == INSTANCE LongCount WITH IntMax <- 100, word <- lword

memory == <<blocks, ring, alloc_next, issued_elements, live, dirty, loc>>
caches == <<lword, islands_ok, sent_nc, counted>>

(* Every connector is used once, if the connector table is not the subject. *)
MCInit ==
  /\ which \in {"pool", "power", "strings", "tracons", "counts", "caches"}
  /\ Init /\ SSInit /\ TSInit /\ CTInit /\ PTInit
  /\ which # "tracons" => ~shallow
  /\ which # "power" => refcount = [c \in Connectors |-> 1]
  /\ IF which = "caches" THEN L!LInit
     ELSE lword = 0 /\ islands_ok = FALSE /\ sent_nc = 0 /\ counted = 0

MemoryNext == which = "pool" /\ Next /\ UNCHANGED <<which, ptvars, ssvars, tsvars, ctvars, caches>>
PowerNext == which = "power" /\ PTNext /\ UNCHANGED <<which, memory, ssvars, tsvars, ctvars, caches>>
StringsNext == which = "strings" /\ SSNext /\ UNCHANGED <<which, memory, ptvars, tsvars, ctvars, caches>>
TraconsNext == which = "tracons" /\ TSNext /\ UNCHANGED <<which, memory, ptvars, ssvars, ctvars, caches>>
CountsNext == which = "counts" /\ CTNext /\ UNCHANGED <<which, memory, ptvars, ssvars, tsvars, caches>>
CachesNext == which = "caches" /\ L!LNext /\ UNCHANGED <<which, memory, ptvars, ssvars, tsvars, ctvars>>

MCNext == MemoryNext \/ PowerNext \/ StringsNext \/ TraconsNext \/ CountsNext \/ CachesNext

MCSpec == MCInit /\ [][MCNext]_<<which, memory, ptvars, ssvars, tsvars, ctvars, caches>>

(* The word vectors and match lists that do_count() keeps for a long       *)
(* sentence change no count (LongCount).                                   *)
CachesChangeNothing == which = "caches" => L!CachesChangeNothing
=============================================================================
