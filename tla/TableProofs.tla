---------------------------- MODULE TableProofs -----------------------------
(***************************************************************************)
(* Proofs about CountTable and PowerTable, the tables of do_count() and of *)
(* power_prune(), and about StringSet and TraconSet: for any threads,      *)
(* keys, connectors, names, strings, tracons, hash functions and table     *)
(* sizes.                                                                  *)
(***************************************************************************)
EXTENDS CountTable, PowerTable, StringSet, TraconSet, FiniteSetTheorems, WellFoundedInduction, TLAPS

(***************************************************************************)
(* The table of counts.                                                    *)
(*                                                                         *)
(* The argument: as far as a live context uses its array, each slot holds  *)
(* exactly the entries of the pool that hash to it; what lies beyond is    *)
(* never read.  A key that is being counted has no entry yet and is        *)
(* counted once, so no key gets a second entry.                            *)
(***************************************************************************)

CountEntry == [key : Keys, count : Counts]

IsTable(k) ==
  /\ k = [size |-> k.size, table |-> k.table]
  /\ k.size \in Nat
  /\ k.table \in [0..(k.size - 1) -> SUBSET CountEntry]

IsContext(c) == c = [size |-> c.size, avail |-> c.avail] /\ c.size \in Nat

(* The slots that are used hold the entries that hash to them.             *)
Holds(k, size, es) ==
  \A i \in 0..(size - 1) : k.table[i] = {e \in es : Slot(e.key, size) = i}

OnePerKey(es) == \A d, e \in es : d.key = e.key => d = e

LiveInv(th) ==
  /\ ctxt[th].size \in 1..kept[th].size
  /\ Holds(kept[th], ctxt[th].size, entries[th])
  /\ OnePerKey(entries[th])

CallsInv(th) ==
  /\ \A m, n \in DOMAIN calls[th] : calls[th][m] = calls[th][n] => m = n
  /\ \A n \in DOMAIN calls[th] : \A e \in entries[th] : e.key # calls[th][n]

CTTypeOK ==
  /\ kept = [th \in Threads |-> kept[th]] /\ \A th \in Threads : IsTable(kept[th])
  /\ ctxt = [th \in Threads |-> ctxt[th]] /\ \A th \in Threads : IsContext(ctxt[th])
  /\ entries \in [Threads -> SUBSET CountEntry]
  /\ calls \in [Threads -> Seq(Keys)]

CTInv ==
  /\ CTTypeOK
  /\ \A th \in Threads :
       /\ Live(th) => LiveInv(th) /\ CallsInv(th)
       /\ ~Live(th) => calls[th] = <<>>

-----------------------------------------------------------------------------
(* A key has its slot among those that are used.                           *)
LEMMA SlotInTable ==
  ASSUME NEW key \in Keys, NEW size \in Nat \ {0}
  PROVE  Slot(key, size) \in 0..(size - 1)
  BY CountAssumption DEF Slot

LEMMA LimitedSize ==
  ASSUME NEW size \in Nat \ {0}
  PROVE  Limited(size) \in Nat \ {0}
  BY CountAssumption DEF Limited

(* table_alloc() leaves an array that is large enough, with the part that  *)
(* is used empty.                                                          *)
LEMMA KeptTableEmpty ==
  ASSUME NEW k, IsTable(k), NEW size \in Nat \ {0}
  PROVE  /\ IsTable(KeptTable(k, size))
         /\ size \in 1..KeptTable(k, size).size
         /\ Holds(KeptTable(k, size), size, {})
  <1>1. CASE k.size < size
    <2>1. KeptTable(k, size) = [size |-> size, table |-> [i \in 0..(size - 1) |-> {}]]
      BY <1>1 DEF KeptTable
    <2>2. KeptTable(k, size).size = size
          /\ KeptTable(k, size).table = [i \in 0..(size - 1) |-> {}]
      BY <2>1
    <2>3. IsTable(KeptTable(k, size))
      BY <2>1, <2>2 DEF IsTable
    <2> QED BY <2>2, <2>3 DEF Holds
  <1>2. CASE ~(k.size < size)
    <2> DEFINE f == [i \in 0..(k.size - 1) |-> IF i < size THEN {} ELSE k.table[i]]
    <2>1. KeptTable(k, size) = [size |-> k.size, table |-> f]
      BY <1>2 DEF KeptTable
    <2>2. f \in [0..(k.size - 1) -> SUBSET CountEntry]
      BY DEF IsTable
    <2>3. \A i \in 0..(size - 1) : f[i] = {}
      BY <1>2 DEF IsTable
    <2> HIDE DEF f
    <2>4. KeptTable(k, size).size = k.size /\ KeptTable(k, size).table = f
      BY <2>1
    <2>5. IsTable(KeptTable(k, size))
      BY <2>1, <2>2, <2>4 DEF IsTable
    <2>6. size \in 1..k.size
      BY <1>2 DEF IsTable
    <2>7. Holds(KeptTable(k, size), size, {})
      BY <2>3, <2>4 DEF Holds
    <2> QED BY <2>4, <2>5, <2>6, <2>7
  <1> QED BY <1>1, <1>2

(* Entries that are linked join those that are there.                      *)
LEMMA LinkedHolds ==
  ASSUME NEW k, IsTable(k), NEW size \in 1..k.size, NEW old \in SUBSET CountEntry,
         Holds(k, size, old), NEW es \in SUBSET CountEntry
  PROVE  /\ IsTable(Linked(k, size, es)) /\ Linked(k, size, es).size = k.size
         /\ Holds(Linked(k, size, es), size, old \cup es)
  <1>1. size \in Nat \ {0} /\ 0..(size - 1) \subseteq 0..(k.size - 1)
    BY DEF IsTable
  <1>2. Linked(k, size, es) = [size |-> k.size,
                               table |-> [i \in 0..(k.size - 1) |->
                                            k.table[i] \cup {e \in es : Slot(e.key, size) = i}]]
    <2>1. DOMAIN k.table = 0..(k.size - 1)
      BY DEF IsTable
    <2>2. \A f : [k EXCEPT !.table = f] = [size |-> k.size, table |-> f]
      <3>1. PICK n, g : k = [size |-> n, table |-> g]
        BY DEF IsTable
      <3> QED BY <3>1
    <2> QED BY <2>1, <2>2 DEF Linked
  <1>3. IsTable(Linked(k, size, es)) /\ Linked(k, size, es).size = k.size
    BY <1>2 DEF IsTable
  <1>4. ASSUME NEW i \in 0..(size - 1)
        PROVE  Linked(k, size, es).table[i] = {e \in old \cup es : Slot(e.key, size) = i}
    BY <1>1, <1>2 DEF Holds
  <1> QED BY <1>3, <1>4 DEF Holds

LEMMA TakesUpContext ==
  ASSUME NEW c, IsContext(c), NEW k, NEW es
  PROVE  IsContext(TakesUp(c, k, es)) /\ TakesUp(c, k, es).size = c.size
  BY DEF IsContext, TakesUp

(* table_grow() finds every entry its new slot, or leaves all as it is.    *)
LEMMA GrowHolds ==
  ASSUME NEW c, IsContext(c), NEW k, IsTable(k), c.size \in 1..k.size,
         NEW es \in SUBSET CountEntry, Holds(k, c.size, es)
  PROVE  LET g == table_grow(c, k, es)
         IN  /\ IsContext(g.c) /\ IsTable(g.k)
             /\ g.c.size \in 1..g.k.size
             /\ Holds(g.k, g.c.size, es)
  <1>1. CASE c.size >= MaxTableSize
    BY <1>1 DEF table_grow, IsContext
  <1>2. CASE ~(c.size >= MaxTableSize)
    <2> DEFINE size == Limited(2 * c.size)
               new == KeptTable(k, size)
    <2>1. size \in Nat \ {0}
      <3>1. 2 * c.size \in Nat \ {0}
        BY DEF IsTable
      <3> QED BY <3>1, LimitedSize
    <2>2. IsTable(new) /\ size \in 1..new.size /\ Holds(new, size, {})
      BY <2>1, KeptTableEmpty
    <2>3. /\ IsTable(Linked(new, size, es)) /\ Linked(new, size, es).size = new.size
          /\ Holds(Linked(new, size, es), size, {} \cup es)
      BY <2>2, LinkedHolds
    <2>4. IsContext(SizedContext(size)) /\ SizedContext(size).size = size
      BY <2>1 DEF IsContext, SizedContext
    <2>5. /\ IsContext(TakesUp(SizedContext(size), new, es))
          /\ TakesUp(SizedContext(size), new, es).size = size
      BY <2>4, TakesUpContext
    <2>6. table_grow(c, k, es) = [c |-> TakesUp(SizedContext(size), new, es),
                                  k |-> Linked(new, size, es)]
      BY <1>2 DEF table_grow
    <2>7. {} \cup es = es
      OBVIOUS
    <2> QED BY <2>2, <2>3, <2>5, <2>6, <2>7
  <1> QED BY <1>1, <1>2

-----------------------------------------------------------------------------
LEMMA CTInitInv == CTInit => CTInv
  <1> SUFFICES ASSUME CTInit PROVE CTInv
    OBVIOUS
  <1>1. IsTable(NoTable)
    BY DEF IsTable, NoTable
  <1>2. IsContext(NoContext)
    BY DEF IsContext, NoContext
  <1> QED BY <1>1, <1>2 DEF CTInit, CTInv, CTTypeOK, Live

(* A live context has a size.                                              *)
LEMMA LiveSize ==
  ASSUME CTTypeOK, NEW th \in Threads
  PROVE  ctxt[th].size # 0 => Live(th)
  BY DEF Live, NoContext

(* A step of one thread: what it must establish for itself.                *)
LEMMA ThreadStep ==
  ASSUME CTInv, NEW th \in Threads,
         NEW k, IsTable(k), NEW c, IsContext(c), NEW es \in SUBSET CountEntry, NEW cs \in Seq(Keys),
         kept' = [kept EXCEPT ![th] = k], ctxt' = [ctxt EXCEPT ![th] = c],
         entries' = [entries EXCEPT ![th] = es], calls' = [calls EXCEPT ![th] = cs],
         c # NoContext =>
           /\ c.size \in 1..k.size /\ Holds(k, c.size, es) /\ OnePerKey(es)
           /\ \A m, n \in DOMAIN cs : cs[m] = cs[n] => m = n
           /\ \A n \in DOMAIN cs : \A e \in es : e.key # cs[n],
         c = NoContext => cs = <<>>
  PROVE  CTInv'
  <1>1. /\ kept'[th] = k /\ ctxt'[th] = c /\ entries'[th] = es /\ calls'[th] = cs
        /\ \A u \in Threads \ {th} : /\ kept'[u] = kept[u] /\ ctxt'[u] = ctxt[u]
                                     /\ entries'[u] = entries[u] /\ calls'[u] = calls[u]
    BY DEF CTInv, CTTypeOK
  <1>2. CTTypeOK'
    <2>1. entries' \in [Threads -> SUBSET CountEntry] /\ calls' \in [Threads -> Seq(Keys)]
      BY DEF CTInv, CTTypeOK
    <2>2. kept' = [u \in Threads |-> kept'[u]] /\ ctxt' = [u \in Threads |-> ctxt'[u]]
      BY DEF CTInv, CTTypeOK
    <2>3. \A u \in Threads : IsTable(kept'[u]) /\ IsContext(ctxt'[u])
      BY <1>1 DEF CTInv, CTTypeOK
    <2> QED BY <2>1, <2>2, <2>3 DEF CTTypeOK
  <1>3. ASSUME NEW u \in Threads
        PROVE  /\ Live(u)' => LiveInv(u)' /\ CallsInv(u)'
               /\ ~Live(u)' => calls'[u] = <<>>
    <2>1. CASE u = th
      BY <1>1, <2>1 DEF Live, LiveInv, CallsInv
    <2>2. CASE u # th
      BY <1>1, <2>2 DEF CTInv, Live, LiveInv, CallsInv
    <2> QED BY <2>1, <2>2
  <1> QED BY <1>2, <1>3 DEF CTInv

LEMMA AllocContextInv ==
  ASSUME NEW th \in Threads PROVE CTInv /\ AllocContext(th) => CTInv'
  <1> SUFFICES ASSUME CTInv, AllocContext(th) PROVE CTInv'
    OBVIOUS
  <1>1. PICK size \in InitSizes :
          /\ ctxt' = [ctxt EXCEPT ![th] = SizedContext(Limited(size))]
          /\ kept' = [kept EXCEPT ![th] = KeptTable(kept[th], Limited(size))]
    BY DEF AllocContext
  <1>2. PICK lim \in Nat \ {0} : lim = Limited(size)
    BY CountAssumption, LimitedSize
  <1>3. /\ IsTable(KeptTable(kept[th], lim)) /\ lim \in 1..KeptTable(kept[th], lim).size
        /\ Holds(KeptTable(kept[th], lim), lim, {})
    BY KeptTableEmpty DEF CTInv, CTTypeOK
  <1>4. IsContext(SizedContext(lim)) /\ SizedContext(lim).size = lim
    BY DEF IsContext, SizedContext
  <1>5. SizedContext(lim) # NoContext
    BY <1>4 DEF NoContext
  <1>6. calls[th] = <<>> /\ calls \in [Threads -> Seq(Keys)] /\ <<>> \in Seq(Keys)
    BY DEF CTInv, CTTypeOK, AllocContext
  <1>7. calls' = [calls EXCEPT ![th] = <<>>] /\ entries' = [entries EXCEPT ![th] = {}]
    BY <1>6 DEF AllocContext
  <1>8. OnePerKey({})
    BY DEF OnePerKey
  <1>9. PICK k, c : k = KeptTable(kept[th], lim) /\ c = SizedContext(lim)
    OBVIOUS
  <1>10. DOMAIN <<>> = {}
    OBVIOUS
  <1>11. {} \in SUBSET CountEntry
    OBVIOUS
  <1>12. /\ IsTable(k) /\ IsContext(c) /\ c.size \in 1..k.size /\ Holds(k, c.size, {})
         /\ c # NoContext
         /\ kept' = [kept EXCEPT ![th] = k] /\ ctxt' = [ctxt EXCEPT ![th] = c]
    BY <1>1, <1>2, <1>3, <1>4, <1>5, <1>9
  <1> QED BY <1>6, <1>7, <1>8, <1>10, <1>11, <1>12, ThreadStep

LEMMA LookUpInv ==
  ASSUME NEW th \in Threads PROVE CTInv /\ LookUp(th) => CTInv'
  <1> SUFFICES ASSUME CTInv, LookUp(th) PROVE CTInv'
    OBVIOUS
  <1>1. PICK key \in Keys \ Pending(th) :
          Found(th, key) = {} /\ calls' = [calls EXCEPT ![th] = Append(calls[th], key)]
    BY DEF LookUp
  <1>2. /\ Live(th) /\ LiveInv(th) /\ CallsInv(th)
        /\ IsTable(kept[th]) /\ IsContext(ctxt[th])
        /\ entries[th] \in SUBSET CountEntry /\ calls[th] \in Seq(Keys)
    BY DEF CTInv, CTTypeOK, LookUp
  <1>3. \A e \in entries[th] : e.key # key
    <2>1. ctxt[th].size \in Nat \ {0}
      BY <1>2 DEF LiveInv, IsTable
    <2>2. Slot(key, ctxt[th].size) \in 0..(ctxt[th].size - 1)
      BY <2>1, SlotInTable
    <2>3. kept[th].table[Slot(key, ctxt[th].size)]
            = {e \in entries[th] : Slot(e.key, ctxt[th].size) = Slot(key, ctxt[th].size)}
      BY <1>2, <2>2 DEF LiveInv, Holds
    <2> QED BY <1>1, <2>3 DEF Found
  <1>4. PICK cs \in Seq(Keys) : cs = Append(calls[th], key)
    <2>1. Append(calls[th], key) \in Seq(Keys)
      BY <1>1, <1>2
    <2> QED BY <2>1
  <1>5. /\ \A m, n \in DOMAIN cs : cs[m] = cs[n] => m = n
        /\ \A n \in DOMAIN cs : \A e \in entries[th] : e.key # cs[n]
    <2>1. \A n \in DOMAIN cs : \/ n \in DOMAIN calls[th] /\ cs[n] = calls[th][n]
                               \/ n = Len(calls[th]) + 1 /\ cs[n] = key
      BY <1>2, <1>4
    <2>2. \A n \in DOMAIN calls[th] : calls[th][n] # key
      BY <1>1 DEF Pending
    <2> QED BY <1>2, <1>3, <2>1, <2>2 DEF CallsInv
  <1>6. /\ kept' = [kept EXCEPT ![th] = kept[th]] /\ ctxt' = [ctxt EXCEPT ![th] = ctxt[th]]
        /\ entries' = [entries EXCEPT ![th] = entries[th]] /\ calls' = [calls EXCEPT ![th] = cs]
    BY <1>1, <1>4 DEF LookUp, CTInv, CTTypeOK
  <1> QED BY <1>2, <1>5, <1>6, ThreadStep DEF LiveInv, Live

(* A store, perhaps after a growth in the middle of the recursion.         *)
LEMMA StoreInv ==
  ASSUME NEW th \in Threads PROVE CTInv /\ table_store(th) => CTInv'
  <1> SUFFICES ASSUME CTInv, table_store(th) PROVE CTInv'
    OBVIOUS
  <1> DEFINE grown == IF ctxt[th].avail = 0 THEN table_grow(ctxt[th], kept[th], entries[th])
                      ELSE [c |-> ctxt[th], k |-> kept[th]]
             last == Len(calls[th])
  <1>1. /\ Live(th) /\ LiveInv(th) /\ CallsInv(th)
        /\ IsTable(kept[th]) /\ IsContext(ctxt[th])
        /\ entries[th] \in SUBSET CountEntry /\ calls[th] \in Seq(Keys) /\ calls[th] # <<>>
    BY DEF CTInv, CTTypeOK, table_store
  <1>2. PICK c, k : /\ c = grown.c /\ k = grown.k
                    /\ IsContext(c) /\ IsTable(k)
                    /\ c.size \in 1..k.size /\ Holds(k, c.size, entries[th])
    <2>1. CASE ctxt[th].avail = 0
      BY <1>1, <2>1, GrowHolds DEF LiveInv
    <2>2. CASE ctxt[th].avail # 0
      BY <1>1, <2>2 DEF LiveInv
    <2> QED BY <2>1, <2>2
  <1>3. last \in DOMAIN calls[th] /\ calls[th][last] \in Keys
    BY <1>1
  <1>4. PICK entry \in CountEntry :
          /\ entry.key = calls[th][last]
          /\ ctxt' = [ctxt EXCEPT ![th] = TakesUp(c, k, {entry})]
          /\ kept' = [kept EXCEPT ![th] = Linked(k, c.size, {entry})]
          /\ entries' = [entries EXCEPT ![th] = entries[th] \cup {entry}]
    <2>1. PICK count \in Counts :
            /\ ctxt' = [ctxt EXCEPT ![th] = TakesUp(grown.c, grown.k, {[key |-> calls[th][last], count |-> count]})]
            /\ kept' = [kept EXCEPT ![th] = Linked(grown.k, grown.c.size, {[key |-> calls[th][last], count |-> count]})]
            /\ entries' = [entries EXCEPT ![th] = entries[th] \cup {[key |-> calls[th][last], count |-> count]}]
      BY DEF table_store
    <2>2. [key |-> calls[th][last], count |-> count] \in CountEntry
      BY <1>3 DEF CountEntry
    <2> HIDE DEF grown
    <2> QED BY <1>2, <2>1, <2>2
  <1>5. PICK cs \in Seq(Keys) : /\ cs = SubSeq(calls[th], 1, last - 1)
                                /\ DOMAIN cs = 1..(last - 1)
                                /\ \A n \in 1..(last - 1) : cs[n] = calls[th][n]
    <2>1. SubSeq(calls[th], 1, last - 1) \in Seq(Keys)
      BY <1>1, <1>3
    <2>2. last \in Nat \ {0} /\ last = Len(calls[th])
      BY <1>1
    <2> HIDE DEF last
    <2>3. DOMAIN SubSeq(calls[th], 1, last - 1) = 1..(last - 1)
      BY <1>1, <2>2
    <2>4. \A n \in 1..(last - 1) : SubSeq(calls[th], 1, last - 1)[n] = calls[th][n]
      BY <1>1, <2>2
    <2> QED BY <2>1, <2>3, <2>4
  <1>6. /\ calls' = [calls EXCEPT ![th] = cs]
        /\ 1..(last - 1) \subseteq DOMAIN calls[th] /\ last \notin 1..(last - 1)
    BY <1>1, <1>3, <1>5 DEF table_store
  <1>7. /\ IsTable(Linked(k, c.size, {entry})) /\ Linked(k, c.size, {entry}).size = k.size
        /\ Holds(Linked(k, c.size, {entry}), c.size, entries[th] \cup {entry})
    <2>1. {entry} \in SUBSET CountEntry
      OBVIOUS
    <2>2. PICK size \in 1..k.size : size = c.size
      BY <1>2
    <2>3. PICK es \in SUBSET CountEntry : es = {entry}
      BY <2>1
    <2>4. PICK old \in SUBSET CountEntry : old = entries[th]
      BY <1>1
    <2> HIDE DEF grown
    <2>5. IsTable(k) /\ Holds(k, size, old)
      BY <1>2, <2>2, <2>4
    <2>6. /\ IsTable(Linked(k, size, es)) /\ Linked(k, size, es).size = k.size
          /\ Holds(Linked(k, size, es), size, old \cup es)
      BY <2>5, LinkedHolds
    <2> QED BY <2>2, <2>3, <2>4, <2>6
  <1>8. IsContext(TakesUp(c, k, {entry})) /\ TakesUp(c, k, {entry}).size = c.size
    BY <1>2, TakesUpContext
  <1>9. OnePerKey(entries[th] \cup {entry})
    BY <1>1, <1>3, <1>4 DEF OnePerKey, LiveInv, CallsInv
  <1>10. /\ \A m, n \in DOMAIN cs : cs[m] = cs[n] => m = n
         /\ \A n \in DOMAIN cs : \A e \in entries[th] \cup {entry} : e.key # cs[n]
    BY <1>1, <1>3, <1>4, <1>5, <1>6 DEF CallsInv
  <1>11. TakesUp(c, k, {entry}) # NoContext
    BY <1>2, <1>8 DEF NoContext
  <1>12. entries[th] \cup {entry} \in SUBSET CountEntry
    BY <1>1
  <1>13. PICK k2, c2 : k2 = Linked(k, c.size, {entry}) /\ c2 = TakesUp(c, k, {entry})
    OBVIOUS
  <1>14. /\ IsTable(k2) /\ IsContext(c2) /\ c2.size \in 1..k2.size
         /\ Holds(k2, c2.size, entries[th] \cup {entry}) /\ c2 # NoContext
         /\ kept' = [kept EXCEPT ![th] = k2] /\ ctxt' = [ctxt EXCEPT ![th] = c2]
    BY <1>2, <1>4, <1>7, <1>8, <1>11, <1>13
  <1> QED BY <1>4, <1>6, <1>9, <1>10, <1>12, <1>14, ThreadStep

LEMMA FreeContextInv ==
  ASSUME NEW th \in Threads PROVE CTInv /\ FreeContext(th) => CTInv'
  <1> SUFFICES ASSUME CTInv, FreeContext(th) PROVE CTInv'
    OBVIOUS
  <1>1. IsContext(NoContext) /\ calls[th] = <<>>
    BY DEF IsContext, NoContext, FreeContext
  <1>2. /\ kept' = [kept EXCEPT ![th] = kept[th]] /\ ctxt' = [ctxt EXCEPT ![th] = NoContext]
        /\ entries' = [entries EXCEPT ![th] = entries[th]]
        /\ calls' = [calls EXCEPT ![th] = calls[th]]
        /\ IsTable(kept[th]) /\ entries[th] \in SUBSET CountEntry /\ calls[th] \in Seq(Keys)
    BY DEF FreeContext, CTInv, CTTypeOK
  <1> QED BY <1>1, <1>2, ThreadStep

LEMMA ThreadExitInv ==
  ASSUME NEW th \in Threads PROVE CTInv /\ ThreadExit(th) => CTInv'
  <1> SUFFICES ASSUME CTInv, ThreadExit(th) PROVE CTInv'
    OBVIOUS
  <1>1. IsTable(NoTable) /\ ctxt[th] = NoContext /\ calls[th] = <<>>
    BY DEF IsTable, NoTable, ThreadExit, CTInv, Live
  <1>2. /\ kept' = [kept EXCEPT ![th] = NoTable] /\ ctxt' = [ctxt EXCEPT ![th] = ctxt[th]]
        /\ entries' = [entries EXCEPT ![th] = entries[th]]
        /\ calls' = [calls EXCEPT ![th] = calls[th]]
        /\ IsContext(ctxt[th]) /\ entries[th] \in SUBSET CountEntry /\ calls[th] \in Seq(Keys)
    BY DEF ThreadExit, CTInv, CTTypeOK
  <1> QED BY <1>1, <1>2, ThreadStep

LEMMA CTNextInv == CTInv /\ [CTNext]_ctvars => CTInv'
  <1> SUFFICES ASSUME CTInv, [CTNext]_ctvars PROVE CTInv'
    OBVIOUS
  <1>1. ASSUME NEW th \in Threads,
               AllocContext(th) \/ LookUp(th) \/ table_store(th) \/ FreeContext(th) \/ ThreadExit(th)
        PROVE  CTInv'
    BY <1>1, AllocContextInv, LookUpInv, StoreInv, FreeContextInv, ThreadExitInv
  <1>2. CASE UNCHANGED ctvars
    BY <1>2 DEF ctvars, CTInv, CTTypeOK, Live, LiveInv, CallsInv
  <1> QED BY <1>1, <1>2 DEF CTNext

(* Slots hold what hashes to them through growth, reuse of the array by    *)
(* the next sentence of the thread, and the end of threads.                *)
THEOREM CountTableCorrect == CTSpec => []CTInv
  BY CTInitInv, CTNextInv, PTL DEF CTSpec

(* table_lookup() finds exactly what the present context has stored, with  *)
(* one count for each key.                                                 *)
THEOREM LookupExact == CTSpec => []FindsStored
  <1>1. CTInv => FindsStored
    <2> SUFFICES ASSUME CTInv, NEW th \in Threads, Live(th)
                 PROVE  /\ \A key \in Keys : Found(th, key) = {e \in entries[th] : e.key = key}
                        /\ OnePerKey(entries[th])
      BY DEF FindsStored, OnePerKey
    <2>1. LiveInv(th) /\ entries[th] \in SUBSET CountEntry /\ kept[th].size \in Nat
      BY DEF CTInv, CTTypeOK, IsTable
    <2>2. ASSUME NEW key \in Keys PROVE Found(th, key) = {e \in entries[th] : e.key = key}
      <3>1. ctxt[th].size \in Nat \ {0}
        BY <2>1 DEF LiveInv
      <3>2. Slot(key, ctxt[th].size) \in 0..(ctxt[th].size - 1)
        BY <3>1, SlotInTable
      <3>3. kept[th].table[Slot(key, ctxt[th].size)]
              = {e \in entries[th] : Slot(e.key, ctxt[th].size) = Slot(key, ctxt[th].size)}
        BY <2>1, <3>2 DEF LiveInv, Holds
      <3> QED BY <3>3 DEF Found
    <2> QED BY <2>1, <2>2 DEF LiveInv
  <1> QED BY <1>1, CountTableCorrect, PTL

(***************************************************************************)
(* The connector table.                                                    *)
(*                                                                         *)
(* The argument: on the way from the home of its name to a connector that  *)
(* is used every slot is taken, and by other names.  An insertion goes to  *)
(* the end of such a way.  clean_table() empties a slot only if the next   *)
(* one is unused, so it cuts no way that leads further.  More slots than   *)
(* there are names are never taken, so one always stays free.              *)
(***************************************************************************)

(* c is in the k-th slot of the search for its name, and nothing before    *)
(* stops the search.                                                       *)
ReachedAt(c, k) ==
  /\ c \in slots[Probe(c.uc, k)]
  /\ \A m \in 0..(k - 1) : ~Stops(c.uc, Probe(c.uc, m))

Reached(c) == \E k \in Slots : ReachedAt(c, k)

Taken == {h \in Slots : slots[h] # {}}

PlacedNames == {c.uc : c \in Connectors \ unplaced}

PTTypeOK ==
  /\ slots \in [Slots -> SUBSET (Connectors \cup {Tombstone})]
  /\ unplaced \subseteq Connectors
  /\ refcount \in [Connectors -> Nat]
  /\ cleaning \in 0..Size

OneName == \A h \in Slots : \A c, d \in slots[h] : c.uc = d.uc

PTInv ==
  /\ PTTypeOK
  /\ OneName
  /\ \A c \in Connectors \ unplaced : refcount[c] > 0 => Reached(c)
  /\ unplaced # {} => \A c \in Connectors : refcount[c] > 0
  /\ Cardinality(Taken) <= Cardinality(PlacedNames)

-----------------------------------------------------------------------------
(* A set of natural numbers has a least element: the intervals 0..n are    *)
(* finite sets, which strict inclusion orders well.                        *)
LEMMA LeastNumber ==
  ASSUME NEW T \in SUBSET Nat, T # {}
  PROVE  \E n \in T : \A m \in T : n <= m
  <1> DEFINE R == StrictSubsetOrdering(Nat)
             S == FiniteSubsetsOf(Nat)
             I == {0..n : n \in T}
  <1>1. IsWellFoundedOn(R, S)
    BY FS_StrictSubsetOrderingWellFounded
  <1>2. I \subseteq S
    <2>1. ASSUME NEW n \in T PROVE IsFiniteSet(0..n) /\ 0..n \in SUBSET Nat
      BY FS_Interval
    <2> QED BY <2>1 DEF FiniteSubsetsOf
  <1>3. I # {}
    OBVIOUS
  <1>4. PICK x \in I : \A y \in I : ~(<<y, x>> \in R)
    <2> HIDE DEF R, S, I
    <2> QED BY <1>1, <1>2, <1>3, WFMin
  <1>5. PICK n \in T : x = 0..n
    OBVIOUS
  <1>6. ASSUME NEW m \in T, m < n PROVE FALSE
    <2>1. 0..m \subseteq 0..n /\ 0..m # 0..n /\ 0..m \in SUBSET Nat /\ 0..n \in SUBSET Nat
      <3>1. n \in 0..n /\ n \notin 0..m
        BY <1>6
      <3> QED BY <1>6, <3>1
    <2>2. <<0..m, 0..n>> \in R
      BY <2>1 DEF StrictSubsetOrdering
    <2> QED BY <1>4, <1>5, <2>2
  <1> QED BY <1>6

LEMMA ProbeInTable ==
  ASSUME NEW uc \in Nat, NEW k \in Slots
  PROVE  Probe(uc, k) \in Slots
  <1>1. Size \in Nat \ {0} /\ k \in Nat /\ k < Size
    BY PowerTableAssumption DEF Slots
  <1>2. uc % Size \in 0..(Size - 1)
    BY <1>1
  <1> QED BY <1>1, <1>2 DEF Probe, Slots

(* Every slot is on the way of every search.                               *)
LEMMA ProbeReaches ==
  ASSUME NEW uc \in Nat, NEW h \in Slots
  PROVE  \E k \in Slots : Probe(uc, k) = h
  <1>1. Size \in Nat \ {0} /\ h \in Nat /\ h < Size
    BY PowerTableAssumption DEF Slots
  <1>2. PICK home \in 0..(Size - 1) : home = uc % Size
    BY <1>1
  <1>3. CASE h >= home
    <2>1. h - home \in Slots /\ Probe(uc, h - home) = h
      BY <1>1, <1>2, <1>3 DEF Probe, Slots
    <2> QED BY <2>1
  <1>4. CASE h < home
    <2>1. h + Size - home \in Slots /\ Probe(uc, h + Size - home) = h
      BY <1>1, <1>2, <1>4 DEF Probe, Slots
    <2> QED BY <2>1
  <1> QED BY <1>1, <1>2, <1>3, <1>4

(* The next slot of a search is the next one in the table.                 *)
LEMMA ProbeNext ==
  ASSUME NEW uc \in Nat, NEW k \in Nat, k + 1 \in Slots
  PROVE  Probe(uc, k + 1) = Next1(Probe(uc, k))
  <1>1. Size \in Nat \ {0} /\ k + 1 < Size
    BY PowerTableAssumption DEF Slots
  <1>2. PICK home \in 0..(Size - 1) : home = uc % Size
    BY <1>1
  <1> QED BY <1>1, <1>2 DEF Probe, Next1

LEMMA FinitelyManyNames ==
  /\ IsFiniteSet(Names)
  /\ \A N \in SUBSET Names : IsFiniteSet(N) /\ Cardinality(N) <= Cardinality(Names)
  /\ IsFiniteSet(Slots) /\ Cardinality(Slots) = Size
  <1>1. IsFiniteSet(Names)
    <2> DEFINE f == [c \in Connectors |-> c.uc]
    <2>1. f \in Surjection(Connectors, Names)
      BY DEF Surjection, Names
    <2> QED BY <2>1, FS_Surjection, PowerTableAssumption
  <1>2. IsFiniteSet(Slots) /\ Cardinality(Slots) = Size
    <2>1. Size \in Nat /\ 0 \in Int /\ Size - 1 \in Int
      BY PowerTableAssumption
    <2>2. /\ IsFiniteSet(0..(Size - 1))
          /\ Cardinality(0..(Size - 1)) = IF 0 > Size - 1 THEN 0 ELSE (Size - 1) - 0 + 1
      BY <2>1, FS_Interval
    <2> QED BY <2>1, <2>2 DEF Slots
  <1> QED BY <1>1, <1>2, FS_Subset

-----------------------------------------------------------------------------
LEMMA ConnectorFacts ==
  /\ \A c \in Connectors : c.uc \in Nat /\ c.uc \in Names /\ c # Tombstone
  /\ Tombstone.uc = -1
  BY PowerTableAssumption DEF Names, Tombstone

(* A search can stop only once.                                            *)
LEMMA OneStop ==
  ASSUME NEW uc, NEW k \in Slots, NEW m \in Slots,
         Stops(uc, Probe(uc, k)), \A n \in 0..(k - 1) : ~Stops(uc, Probe(uc, n)),
         Stops(uc, Probe(uc, m)), \A n \in 0..(m - 1) : ~Stops(uc, Probe(uc, n))
  PROVE  k = m
  <1>1. k \in Nat /\ m \in Nat
    BY PowerTableAssumption DEF Slots
  <1>2. k < m => k \in 0..(m - 1)
    BY <1>1
  <1>3. m < k => m \in 0..(k - 1)
    BY <1>1
  <1> QED BY <1>1, <1>2, <1>3

LEMMA PTInitInv == PTInit => PTInv
  <1> SUFFICES ASSUME PTInit PROVE PTInv
    OBVIOUS
  <1>1. PTTypeOK
    <2>1. Size \in Nat /\ cleaning \in 0..Size
      BY PowerTableAssumption DEF PTInit
    <2>2. refcount \in [Connectors -> Nat]
      BY DEF PTInit
    <2> QED BY <2>1, <2>2 DEF PTInit, PTTypeOK
  <1>2. OneName
    BY DEF PTInit, OneName
  <1>3. \A c \in Connectors : refcount[c] > 0
    BY DEF PTInit
  <1>4. Taken = {} /\ PlacedNames = {}
    BY DEF PTInit, Taken, PlacedNames
  <1> QED BY <1>1, <1>2, <1>3, <1>4, FS_EmptySet DEF PTInv, PTInit

-----------------------------------------------------------------------------
(* The insertion of a connector.                                           *)
LEMMA PutInv == ASSUME NEW c \in Connectors PROVE PTInv /\ Put(c) => PTInv'
  <1> SUFFICES ASSUME PTInv, Put(c) PROVE PTInv'
    OBVIOUS
  <1>1. PICK k \in Slots : /\ Stops(c.uc, Probe(c.uc, k))
                           /\ \A m \in 0..(k - 1) : ~Stops(c.uc, Probe(c.uc, m))
                           /\ slots' = [slots EXCEPT ![Probe(c.uc, k)] = slots[Probe(c.uc, k)] \cup {c}]
    BY DEF Put, Entry
  <1>2. PICK h \in Slots : h = Probe(c.uc, k)
    BY ConnectorFacts, ProbeInTable
  <1>3. /\ slots \in [Slots -> SUBSET (Connectors \cup {Tombstone})]
        /\ slots' = [slots EXCEPT ![h] = slots[h] \cup {c}]
        /\ c \in unplaced /\ unplaced' = unplaced \ {c} /\ refcount' = refcount
        /\ cleaning' = cleaning
    BY <1>1, <1>2 DEF PTInv, PTTypeOK, Put
  <1>4. slots'[h] = slots[h] \cup {c} /\ \A g \in Slots \ {h} : slots'[g] = slots[g]
    BY <1>3
  <1>5. PTTypeOK'
    BY <1>3 DEF PTInv, PTTypeOK
  <1>6. OneName'
    BY <1>1, <1>2, <1>4 DEF PTInv, OneName, Stops
  <1>7. ASSUME NEW d \in Connectors \ unplaced' PROVE Reached(d)'
    <2>1. CASE d = c
      <3>1. \A m \in 0..(k - 1) : m \in Slots /\ m # k /\ Probe(c.uc, m) \in Slots
        <4>1. \A m \in 0..(k - 1) : m \in Slots /\ m # k
          BY PowerTableAssumption DEF Slots
        <4> QED BY <4>1, ConnectorFacts, ProbeInTable
      <3>2. \A m \in 0..(k - 1) : Probe(c.uc, m) # h
        BY <1>1, <1>2
      <3>3. ReachedAt(c, k)'
        BY <1>1, <1>2, <1>4, <3>1, <3>2 DEF ReachedAt, Stops
      <3> QED BY <2>1, <3>3 DEF Reached
    <2>2. CASE d # c
      <3>1. d \in Connectors \ unplaced /\ refcount[d] > 0
        BY <1>3, <2>2 DEF PTInv
      <3>2. PICK n \in Slots : ReachedAt(d, n)
        BY <3>1 DEF PTInv, Reached
      <3>3. \A m \in 0..n : m \in Slots /\ Probe(d.uc, m) \in Slots
        <4>1. \A m \in 0..n : m \in Slots
          BY PowerTableAssumption DEF Slots
        <4> QED BY <3>1, <4>1, ConnectorFacts, ProbeInTable
      <3>4. d \in slots'[Probe(d.uc, n)]
        BY <1>4, <3>2, <3>3, PowerTableAssumption DEF ReachedAt, Slots
      <3>5. ASSUME NEW m \in 0..(n - 1) PROVE ~Stops(d.uc, Probe(d.uc, m))'
        <4>1. ~Stops(d.uc, Probe(d.uc, m)) /\ m \in 0..n
          BY <3>2, PowerTableAssumption DEF ReachedAt, Slots
        <4>2. CASE Probe(d.uc, m) # h
          BY <1>4, <3>3, <4>1, <4>2 DEF Stops
        <4>3. CASE Probe(d.uc, m) = h /\ d.uc = c.uc
          BY <1>1, <1>2, <4>1, <4>3
        <4>4. CASE Probe(d.uc, m) = h /\ d.uc # c.uc
          BY <1>4, <4>1, <4>4 DEF Stops
        <4> QED BY <4>2, <4>3, <4>4
      <3> QED BY <3>2, <3>4, <3>5 DEF Reached, ReachedAt
    <2> QED BY <2>1, <2>2
  <1>8. PlacedNames' = PlacedNames \cup {c.uc}
    BY <1>3 DEF PlacedNames
  <1>9. Taken' = Taken \cup {h}
    BY <1>3, <1>4 DEF Taken
  <1>10. slots[h] = {} => c.uc \notin PlacedNames
    <2> SUFFICES ASSUME slots[h] = {}, NEW d \in Connectors \ unplaced, d.uc = c.uc PROVE FALSE
      BY DEF PlacedNames
    <2>1. PICK n \in Slots : ReachedAt(d, n)
      BY <1>3 DEF PTInv, Reached
    <2>2. Stops(c.uc, Probe(c.uc, n)) /\ \A m \in 0..(n - 1) : ~Stops(c.uc, Probe(c.uc, m))
      BY <2>1 DEF ReachedAt, Stops
    <2>3. n = k
      BY <1>1, <2>2, OneStop
    <2> QED BY <1>2, <2>1, <2>3 DEF ReachedAt
  <1>11. Cardinality(Taken') <= Cardinality(PlacedNames')
    <2>1. /\ IsFiniteSet(Taken) /\ IsFiniteSet(PlacedNames)
          /\ Cardinality(Taken) \in Nat /\ Cardinality(PlacedNames) \in Nat
      <3>1. Taken \in SUBSET Slots /\ PlacedNames \in SUBSET Names
        BY DEF Taken, PlacedNames, Names
      <3> QED BY <3>1, FinitelyManyNames, FS_Subset, FS_CardinalityType
    <2>2. Cardinality(Taken) <= Cardinality(PlacedNames)
      BY DEF PTInv
    <2>3. h \in Taken <=> slots[h] # {}
      BY DEF Taken
    <2>4. /\ Cardinality(Taken') = IF h \in Taken THEN Cardinality(Taken) ELSE Cardinality(Taken) + 1
          /\ Cardinality(PlacedNames') = IF c.uc \in PlacedNames THEN Cardinality(PlacedNames)
                                         ELSE Cardinality(PlacedNames) + 1
      BY <1>8, <1>9, <2>1, FS_AddElement
    <2> QED BY <1>10, <2>1, <2>2, <2>3, <2>4
  <1> QED BY <1>3, <1>5, <1>6, <1>7, <1>11 DEF PTInv

(* Steps that leave the slots alone, and at most lower a reference count.  *)
LEMMA SlotsKeptInv ==
  ASSUME PTInv, slots' = slots, unplaced' = unplaced, cleaning' \in 0..Size,
         refcount' \in [Connectors -> Nat],
         \A c \in Connectors : refcount'[c] > 0 => refcount[c] > 0,
         unplaced # {} => refcount' = refcount
  PROVE  PTInv'
  <1>1. PTTypeOK' /\ OneName'
    BY DEF PTInv, PTTypeOK, OneName
  <1>2. Taken' = Taken /\ PlacedNames' = PlacedNames
    BY DEF Taken, PlacedNames
  <1>3. \A c \in Connectors : Reached(c)' <=> Reached(c)
    BY DEF Reached, ReachedAt, Stops
  <1> QED BY <1>1, <1>2, <1>3 DEF PTInv

LEMMA DequeueInv == ASSUME NEW c \in Connectors PROVE PTInv /\ Dequeue(c) => PTInv'
  <1> SUFFICES ASSUME PTInv, Dequeue(c) PROVE PTInv'
    OBVIOUS
  <1>1. /\ refcount \in [Connectors -> Nat] /\ refcount[c] \in Nat /\ refcount[c] > 0
        /\ refcount' = [refcount EXCEPT ![c] = refcount[c] - 1]
        /\ cleaning' \in 0..Size
        /\ slots' = slots /\ unplaced' = unplaced /\ unplaced = {}
    BY DEF Dequeue, PTInv, PTTypeOK
  <1>2. refcount[c] - 1 \in Nat
    BY <1>1
  <1>3. refcount' \in [Connectors -> Nat]
    BY <1>1, <1>2
  <1>4. \A d \in Connectors : refcount'[d] > 0 => refcount[d] > 0
    BY <1>1
  <1> QED BY <1>1, <1>3, <1>4, SlotsKeptInv

LEMMA StartCleanInv == PTInv /\ StartClean => PTInv'
  <1> SUFFICES ASSUME PTInv, StartClean PROVE PTInv'
    OBVIOUS
  <1>1. /\ slots' = slots /\ unplaced' = unplaced /\ unplaced = {} /\ refcount' = refcount
        /\ cleaning' \in 0..Size /\ refcount \in [Connectors -> Nat]
    BY PowerTableAssumption DEF StartClean, PTInv, PTTypeOK
  <1> QED BY <1>1, SlotsKeptInv

(* clean_table() empties a slot only at the end of all ways through it.    *)
LEMMA CleanSlotInv == PTInv /\ CleanSlot => PTInv'
  <1> SUFFICES ASSUME PTInv, CleanSlot PROVE PTInv'
    OBVIOUS
  <1>1. PICK h \in Slots : h = cleaning
    BY PowerTableAssumption DEF CleanSlot, PTInv, PTTypeOK, Slots
  <1>2. /\ slots \in [Slots -> SUBSET (Connectors \cup {Tombstone})]
        /\ slots' = [slots EXCEPT ![h] = Remaining(h)]
        /\ unplaced' = unplaced /\ unplaced = {} /\ refcount' = refcount
    BY <1>1 DEF PTInv, PTTypeOK, CleanSlot
  <1>3. /\ Remaining(h) \in SUBSET (Connectors \cup {Tombstone})
        /\ Remaining(h) = {Tombstone} \/ Remaining(h) \subseteq slots[h]
        /\ \A c \in slots[h] \cap Connectors : refcount[c] > 0 => c \in Remaining(h)
    BY <1>2 DEF Remaining, Used
  <1>4. /\ Remaining(h) # {} => slots[h] # {}
        /\ Remaining(h) = {} /\ slots[h] # {} => slots[Next1(h)] = {}
    BY DEF Remaining, Used
  <1>5. slots'[h] = Remaining(h) /\ \A g \in Slots \ {h} : slots'[g] = slots[g]
    BY <1>2
  <1>6. PTTypeOK'
    <2>1. slots' \in [Slots -> SUBSET (Connectors \cup {Tombstone})]
      BY <1>2, <1>3
    <2>2. cleaning' \in 0..Size
      BY PowerTableAssumption DEF CleanSlot, PTInv, PTTypeOK
    <2> QED BY <1>2, <2>1, <2>2 DEF PTInv, PTTypeOK
  <1>7. OneName'
    BY <1>3, <1>5 DEF PTInv, OneName
  <1>8. ASSUME NEW c \in Connectors, refcount[c] > 0 PROVE Reached(c)'
    <2>1. PICK k \in Slots : ReachedAt(c, k)
      BY <1>2, <1>8 DEF PTInv, Reached
    <2>2. \A m \in 0..k : m \in Slots /\ Probe(c.uc, m) \in Slots
      <3>1. \A m \in 0..k : m \in Slots
        BY PowerTableAssumption DEF Slots
      <3> QED BY <3>1, ConnectorFacts, ProbeInTable
    <2>3. k \in 0..k /\ 0..(k - 1) \subseteq 0..k
      BY PowerTableAssumption DEF Slots
    <2>4. c \in slots'[Probe(c.uc, k)]
      BY <1>3, <1>5, <1>8, <2>1, <2>2, <2>3 DEF ReachedAt
    <2>5. ASSUME NEW m \in 0..(k - 1) PROVE ~Stops(c.uc, Probe(c.uc, m))'
      <3>1. /\ slots[Probe(c.uc, m)] # {}
            /\ \A d \in slots[Probe(c.uc, m)] : d.uc # c.uc
        BY <2>1 DEF ReachedAt, Stops
      <3>2. m \in Nat /\ m + 1 \in 0..k /\ m + 1 \in Slots /\ (m + 1 = k \/ m + 1 \in 0..(k - 1))
        BY PowerTableAssumption DEF Slots
      <3>3. slots[Probe(c.uc, m + 1)] # {}
        BY <2>1, <3>2 DEF ReachedAt, Stops
      <3>4. Probe(c.uc, m + 1) = Next1(Probe(c.uc, m))
        BY <3>2, ProbeNext, ConnectorFacts
      <3>5. CASE Probe(c.uc, m) = h
        <4>1. Remaining(h) # {}
          BY <1>4, <3>1, <3>3, <3>4, <3>5
        <4>2. \A d \in Remaining(h) : d.uc # c.uc
          BY <1>3, <3>1, <3>5, ConnectorFacts
        <4> QED BY <1>5, <3>5, <4>1, <4>2 DEF Stops
      <3>6. CASE Probe(c.uc, m) # h
        BY <1>5, <2>2, <2>3, <3>1, <3>6 DEF Stops
      <3> QED BY <3>5, <3>6
    <2> QED BY <2>1, <2>4, <2>5 DEF Reached, ReachedAt
  <1>9. Cardinality(Taken') <= Cardinality(PlacedNames')
    <2>1. Taken' \in SUBSET Taken
      BY <1>4, <1>5 DEF Taken
    <2>2. PlacedNames' = PlacedNames
      BY <1>2 DEF PlacedNames
    <2>3. Taken \in SUBSET Slots /\ PlacedNames \in SUBSET Names
      BY DEF Taken, PlacedNames, Names
    <2>4. IsFiniteSet(Taken) /\ IsFiniteSet(PlacedNames)
      BY <2>3, FinitelyManyNames, FS_Subset
    <2>5. /\ IsFiniteSet(Taken') /\ Cardinality(Taken') <= Cardinality(Taken)
      BY <2>1, <2>4, FS_Subset
    <2>6. Cardinality(Taken) \in Nat /\ Cardinality(Taken') \in Nat /\ Cardinality(PlacedNames) \in Nat
      BY <2>4, <2>5, FS_CardinalityType
    <2>7. Cardinality(Taken) <= Cardinality(PlacedNames)
      BY DEF PTInv
    <2> QED BY <2>2, <2>5, <2>6, <2>7
  <1> QED BY <1>2, <1>6, <1>7, <1>8, <1>9 DEF PTInv

LEMMA PTNextInv == PTInv /\ [PTNext]_ptvars => PTInv'
  <1> SUFFICES ASSUME PTInv, [PTNext]_ptvars PROVE PTInv'
    OBVIOUS
  <1>1. ASSUME NEW c \in Connectors, Put(c) \/ Dequeue(c) PROVE PTInv'
    BY <1>1, PutInv, DequeueInv
  <1>2. CASE StartClean
    BY <1>2, StartCleanInv
  <1>3. CASE CleanSlot
    BY <1>3, CleanSlotInv
  <1>4. CASE UNCHANGED ptvars
    BY <1>4, SlotsKeptInv DEF ptvars, PTInv, PTTypeOK
  <1> QED BY <1>1, <1>2, <1>3, <1>4 DEF PTNext

-----------------------------------------------------------------------------
(* The ways to the connectors that are used, and the free slot.            *)
THEOREM ConnectorTableCorrect == PTSpec => []PTInv
  BY PTInitInv, PTNextInv, PTL DEF PTSpec

(* One slot always stays free, so every search stops, and stops first      *)
(* somewhere.                                                              *)
LEMMA SearchStops ==
  ASSUME PTInv, NEW uc \in Nat
  PROVE  Entry(uc) # {}
  <1>1. PICK h \in Slots : slots[h] = {}
    <2> SUFFICES ASSUME Taken = Slots PROVE FALSE
      BY DEF Taken
    <2>1. PlacedNames \in SUBSET Names
      BY DEF PlacedNames, Names
    <2>2. /\ IsFiniteSet(PlacedNames) /\ Cardinality(PlacedNames) <= Cardinality(Names)
          /\ IsFiniteSet(Names)
      BY <2>1, FinitelyManyNames
    <2>3. Cardinality(PlacedNames) \in Nat /\ Cardinality(Names) \in Nat /\ Size \in Nat
      BY <2>2, FS_CardinalityType, PowerTableAssumption
    <2>4. Size <= Cardinality(PlacedNames)
      BY FinitelyManyNames DEF PTInv
    <2> QED BY <2>2, <2>3, <2>4, PowerTableAssumption
  <1> DEFINE stops == {k \in Slots : Stops(uc, Probe(uc, k))}
  <1>2. stops # {}
    <2>1. PICK k \in Slots : Probe(uc, k) = h
      BY ProbeReaches
    <2> QED BY <1>1, <2>1 DEF Stops
  <1>3. stops \in SUBSET Nat
    BY PowerTableAssumption DEF Slots
  <1>4. PICK k \in stops : \A m \in stops : k <= m
    <2> HIDE DEF stops
    <2> QED BY <1>2, <1>3, LeastNumber
  <1>5. \A m \in 0..(k - 1) : ~Stops(uc, Probe(uc, m))
    <2>1. \A m \in 0..(k - 1) : m \in Slots /\ ~(k <= m)
      BY <1>3, PowerTableAssumption DEF Slots
    <2> QED BY <1>4, <2>1
  <1> QED BY <1>4, <1>5 DEF Entry

(* A search of the power pruning finds the connectors of its name that are *)
(* used, and only these, and always gets a slot.                           *)
THEOREM SearchCorrect == PTSpec => []SearchFindsUsed
  <1>1. PTInv => SearchFindsUsed
    <2> SUFFICES ASSUME PTInv PROVE SearchFindsUsed
      OBVIOUS
    <2>1. ASSUME NEW c \in Connectors \ unplaced, refcount[c] > 0
          PROVE  \E h \in Entry(c.uc) : c \in slots[h]
      <3>1. PICK k \in Slots : ReachedAt(c, k)
        BY <2>1 DEF PTInv, Reached
      <3> QED BY <3>1 DEF ReachedAt, Entry, Stops
    <2>2. \A uc \in Names \cup OtherNames : Entry(uc) # {}
      BY SearchStops, PowerTableAssumption
    <2> QED BY <2>1, <2>2 DEF PTInv, OneName, SearchFindsUsed
  <1> QED BY <1>1, ConnectorTableCorrect, PTL

(***************************************************************************)
(* The sets of strings and of tracons.                                     *)
(*                                                                         *)
(* The argument is the same for both: every entry of the table is in the   *)
(* first slot of its probes that is free or holds it.  A new entry goes    *)
(* to a free slot, which is before no entry in the probes for it, so this  *)
(* stays true; nothing else is put into a table or taken out of it, but    *)
(* for the start of a growth, when the new table is empty, and a reset.    *)
(* While the table grows, the entries are those of both tables.            *)
(***************************************************************************)

(* A slot holds at most one entry. *)
OneEach(tab) == \A p \in DOMAIN tab : \A d, e \in tab[p] : d = e

-----------------------------------------------------------------------------
(* A search ends in at most one slot ...                                   *)
LEMMA OnePlace ==
  ASSUME NEW h, NEW sz \in Nat, NEW ends,
         NEW p \in FirstPlace(h, sz, ends), NEW q \in FirstPlace(h, sz, ends)
  PROVE  p = q
  <1>1. PICK m \in 0..sz : /\ p = Quadratic(h, m, sz) /\ Quadratic(h, m, sz) \in ends
                           /\ \A i \in 0..(m - 1) : Quadratic(h, i, sz) \notin ends
    BY DEF FirstPlace
  <1>2. PICK n \in 0..sz : /\ q = Quadratic(h, n, sz) /\ Quadratic(h, n, sz) \in ends
                           /\ \A i \in 0..(n - 1) : Quadratic(h, i, sz) \notin ends
    BY DEF FirstPlace
  <1>3. ~(m < n) /\ ~(n < m)
    <2>1. m < n => m \in 0..(n - 1)
      OBVIOUS
    <2>2. n < m => n \in 0..(m - 1)
      OBVIOUS
    <2> QED BY <1>1, <1>2, <2>1, <2>2
  <1> QED BY <1>1, <1>2, <1>3

(* ... which ends it ...                                                   *)
LEMMA PlaceEnds ==
  ASSUME NEW h, NEW sz, NEW ends, NEW p \in FirstPlace(h, sz, ends)
  PROVE  p \in ends
  BY DEF FirstPlace

(* ... and still does if fewer others would have ended it.                 *)
LEMMA FewerEnds ==
  ASSUME NEW h, NEW sz, NEW ends, NEW fewer \in SUBSET ends,
         NEW p \in FirstPlace(h, sz, ends), p \in fewer
  PROVE  p \in FirstPlace(h, sz, fewer)
  BY DEF FirstPlace

LEMMA InContents ==
  ASSUME NEW tab, NEW e
  PROVE  e \in Contents(tab) <=> \E p \in DOMAIN tab : e \in tab[p]
  BY DEF Contents

(* What a table contains after one slot has been filled or emptied.        *)
LEMMA PutContents ==
  ASSUME NEW tab, NEW p \in DOMAIN tab, NEW d, tab[p] \subseteq {d}, OneEach(tab)
  PROVE  /\ OneEach([tab EXCEPT ![p] = {d}])
         /\ Contents([tab EXCEPT ![p] = {d}]) = Contents(tab) \cup {d}
  <1> DEFINE new == [tab EXCEPT ![p] = {d}]
  <1>1. DOMAIN new = DOMAIN tab /\ new[p] = {d} /\ \A q \in DOMAIN tab \ {p} : new[q] = tab[q]
    OBVIOUS
  <1> HIDE DEF new
  <1>2. OneEach(new)
    BY <1>1 DEF OneEach
  <1>3. ASSUME NEW e PROVE e \in Contents(new) <=> e \in Contents(tab) \cup {d}
    BY <1>1, InContents
  <1>4. Contents(new) = Contents(tab) \cup {d}
    BY <1>3
  <1> QED BY <1>2, <1>4 DEF new

LEMMA EmptiedContents ==
  ASSUME NEW tab, NEW p \in DOMAIN tab, NEW d \in tab[p], OneEach(tab)
  PROVE  /\ OneEach([tab EXCEPT ![p] = {}])
         /\ Contents([tab EXCEPT ![p] = {}]) \cup {d} = Contents(tab)
  <1> DEFINE new == [tab EXCEPT ![p] = {}]
  <1>1. DOMAIN new = DOMAIN tab /\ new[p] = {} /\ \A q \in DOMAIN tab \ {p} : new[q] = tab[q]
    OBVIOUS
  <1> HIDE DEF new
  <1>2. OneEach(new)
    BY <1>1 DEF OneEach
  <1>3. ASSUME NEW e PROVE e \in Contents(new) \/ e = d <=> e \in Contents(tab)
    <2>1. e \in Contents(new) => e \in Contents(tab)
      BY <1>1, InContents
    <2>2. d \in Contents(tab)
      BY InContents
    <2>3. ASSUME e \in Contents(tab), e # d PROVE e \in Contents(new)
      <3>1. PICK q \in DOMAIN tab : e \in tab[q]
        BY <2>3, InContents
      <3>2. q # p
        BY <2>3, <3>1 DEF OneEach
      <3> QED BY <1>1, <3>1, <3>2, InContents
    <2> QED BY <2>1, <2>2, <2>3
  <1>4. Contents(new) \cup {d} = Contents(tab)
    BY <1>3
  <1> QED BY <1>2, <1>4 DEF new

LEMMA EmptyTable ==
  ASSUME NEW k, NEW X
  PROVE  /\ NoEntries(k) \in [Places(k) -> SUBSET X]
         /\ OneEach(NoEntries(k)) /\ Contents(NoEntries(k)) = {}
  <1>1. NoEntries(k) \in [Places(k) -> SUBSET X]
    BY DEF NoEntries
  <1>2. OneEach(NoEntries(k))
    BY DEF NoEntries, OneEach
  <1>3. ASSUME NEW e PROVE e \notin Contents(NoEntries(k))
    BY InContents DEF NoEntries
  <1> QED BY <1>1, <1>2, <1>3

-----------------------------------------------------------------------------
(* The string set. *)

StrEntry == [str : Strings, hash : Nat, id : Nat, blk : Nat, off : Nat]

StrTypeOK ==
  /\ str_prime \in 1..Len(s_prime)
  /\ strs \in [Places(str_prime) -> SUBSET StrEntry]
  /\ str_old \in [DOMAIN str_old -> SUBSET StrEntry]
  /\ str_count \in Nat /\ string_pool \in Nat \ {0} /\ str_next \in Nat
  /\ str_available \in Int /\ pool_free_count \in Int
  /\ copies \in [Strings -> SUBSET [id : Nat, blk : Nat, off : Nat]]

(* The strings of tab are where a search for them ends. *)
StrReached(tab, sz) ==
  \A p \in DOMAIN tab : \A e \in tab[p] :
    p \in FirstPlace(e.hash, sz, StringEnds(e.str, e.hash, tab))

StrTables ==
  /\ OneEach(strs) /\ OneEach(str_old)
  /\ StrReached(strs, s_prime[str_prime])

StrKnown == Contents(strs) \cup Contents(str_old)

(* Numbers up to the count are given, and the memory up to str_next.       *)
GivenOut(e) ==
  /\ e.id <= str_count
  /\ e.blk < string_pool \/ (e.blk = string_pool /\ e.off + SizeOf[e.str] <= str_next)
  /\ e.off + SizeOf[e.str] <= BlockSize(e.blk)

StrEntries ==
  /\ \A e \in StrKnown : e.hash = hash_string[e.str] /\ GivenOut(e)
  /\ \A d, e \in StrKnown :
       IF d.str = e.str THEN d = e
       ELSE d.id # e.id /\ Apart(d, SizeOf[d.str], e, SizeOf[e.str])
  /\ \A s \in Strings : copies[s] = {Copy(e) : e \in {e \in StrKnown : e.str = s}}
  /\ pool_free_count <= BlockSize(string_pool) - str_next

SSInv == StrTypeOK /\ StrTables /\ StrEntries

-----------------------------------------------------------------------------
(* A string put where its search ends spoils no other search.              *)
LEMMA StrPutReached ==
  ASSUME NEW P, NEW tab \in [P -> SUBSET StrEntry], NEW sz, StrReached(tab, sz),
         NEW d \in StrEntry, NEW p \in FirstPlace(d.hash, sz, StringEnds(d.str, d.hash, tab)),
         \A e \in Contents(tab) : e.str = d.str => e = d
  PROVE  StrReached([tab EXCEPT ![p] = {d}], sz)
  <1> DEFINE new == [tab EXCEPT ![p] = {d}]
  <1>1. p \in StringEnds(d.str, d.hash, tab)
    BY PlaceEnds
  <1>2. p \in P /\ DOMAIN new = P /\ new[p] = {d} /\ \A q \in P \ {p} : new[q] = tab[q]
    BY <1>1 DEF StringEnds
  <1>3. SUFFICES ASSUME NEW q \in P, NEW e \in new[q]
                 PROVE  q \in FirstPlace(e.hash, sz, StringEnds(e.str, e.hash, new))
    BY <1>2 DEF StrReached
  <1> HIDE DEF new
  <1>4. e = d \/ (q # p /\ e \in tab[q])
    BY <1>2, <1>3
  <1>5. q \in FirstPlace(e.hash, sz, StringEnds(e.str, e.hash, tab))
    BY <1>2, <1>3, <1>4, InContents DEF StrReached
  <1>6. StringEnds(e.str, e.hash, new) \subseteq StringEnds(e.str, e.hash, tab)
    <2>1. ASSUME NEW r \in StringEnds(e.str, e.hash, new) PROVE r \in StringEnds(e.str, e.hash, tab)
      <3>1. CASE r # p
        BY <1>2, <2>1, <3>1 DEF StringEnds
      <3>2. CASE r = p
        <4>1. d.str = e.str
          BY <1>2, <2>1, <3>2 DEF StringEnds
        <4>2. e = d
          BY <1>4, <4>1, InContents
        <4> QED BY <1>1, <3>2, <4>2
      <3> QED BY <3>1, <3>2
    <2> QED BY <2>1
  <1>7. q \in StringEnds(e.str, e.hash, new)
    <2>1. q \in StringEnds(e.str, e.hash, tab)
      BY <1>5, PlaceEnds
    <2>2. CASE q = p
      BY <1>2, <1>3, <2>2 DEF StringEnds
    <2>3. CASE q # p
      BY <1>2, <2>1, <2>3 DEF StringEnds
    <2> QED BY <2>2, <2>3
  <1> QED BY <1>5, <1>6, <1>7, FewerEnds

(* The search for a string that is known finds it, when the table does not *)
(* grow; the search for another one finds nothing, at a free slot.         *)
LEMMA StrLookup ==
  ASSUME SSInv, NEW e \in Contents(strs)
  PROVE  StringFound(e.str) = {e}
  <1>1. PICK p \in DOMAIN strs : e \in strs[p]
    BY InContents
  <1>2. e \in StrKnown /\ e.hash = hash_string[e.str]
    BY DEF SSInv, StrEntries, StrKnown
  <1>3. p \in StringPlace(e.str, hash_string[e.str])
    BY <1>1, <1>2 DEF SSInv, StrTables, StrReached, StringPlace
  <1>4. s_prime[str_prime] \in Nat
    BY SizesAssumption DEF SSInv, StrTypeOK
  <1>5. StringPlace(e.str, hash_string[e.str]) = {p}
    BY <1>3, <1>4, OnePlace DEF StringPlace
  <1>6. strs[p] = {e}
    BY <1>1 DEF SSInv, StrTables, OneEach
  <1> QED BY <1>5, <1>6 DEF StringFound

LEMMA StrFoundKnown ==
  ASSUME SSInv, NEW s \in Strings, NEW e \in StringFound(s)
  PROVE  e \in Contents(strs) /\ e.str = s
  <1>1. PICK p \in StringPlace(s, hash_string[s]) : e \in strs[p]
    BY DEF StringFound
  <1>2. p \in StringEnds(s, hash_string[s], strs)
    BY PlaceEnds DEF StringPlace
  <1> QED BY <1>1, <1>2, InContents DEF StringEnds

LEMMA StrFreePlace ==
  ASSUME SSInv, NEW s \in Strings, StringFound(s) = {},
         NEW p \in StringPlace(s, hash_string[s])
  PROVE  p \in Places(str_prime) /\ strs[p] = {}
  <1>1. p \in StringEnds(s, hash_string[s], strs)
    BY PlaceEnds DEF StringPlace
  <1> QED BY <1>1 DEF StringFound, StringEnds, SSInv, StrTypeOK

(* The invariant is what the property needs. *)
LEMMA StrProperty ==
  ASSUME SSInv
  PROVE  OneForEachString
  <1>1. ASSUME ~StringsMoving, NEW s \in Strings
        PROVE  copies[s] = {Copy(e) : e \in StringFound(s)}
    <2>1. StrKnown = Contents(strs)
      BY <1>1 DEF StringsMoving, StrKnown
    <2>2. StringFound(s) = {e \in StrKnown : e.str = s}
      BY <2>1, StrLookup, StrFoundKnown
    <2> QED BY <2>2 DEF SSInv, StrEntries
  <1>2. ASSUME NEW s \in Strings, NEW i \in copies[s]
        PROVE  \E e \in StrKnown : e.str = s /\ i = Copy(e)
    BY <1>2 DEF SSInv, StrEntries
  <1>3. ASSUME NEW s \in Strings, NEW t \in Strings, NEW i \in copies[s], NEW j \in copies[t]
        PROVE  IF s = t THEN i = j ELSE i.id # j.id /\ Apart(i, SizeOf[s], j, SizeOf[t])
    <2>1. PICK d \in StrKnown : d.str = s /\ i = Copy(d)
      BY <1>2
    <2>2. PICK e \in StrKnown : e.str = t /\ j = Copy(e)
      BY <1>2
    <2>3. IF d.str = e.str THEN d = e
          ELSE d.id # e.id /\ Apart(d, SizeOf[d.str], e, SizeOf[e.str])
      BY DEF SSInv, StrEntries
    <2> QED BY <2>1, <2>2, <2>3 DEF Copy, Apart
  <1>4. ASSUME NEW s \in Strings, NEW i \in copies[s]
        PROVE  i.off + SizeOf[s] <= BlockSize(i.blk)
    <2>1. PICK e \in StrKnown : e.str = s /\ i = Copy(e)
      BY <1>2
    <2>2. GivenOut(e)
      BY DEF SSInv, StrEntries
    <2> QED BY <2>1, <2>2 DEF Copy, GivenOut
  <1> QED BY <1>1, <1>3, <1>4 DEF OneForEachString

-----------------------------------------------------------------------------
LEMMA StrAlignUp ==
  ASSUME NEW n \in Nat
  PROVE  StrAlign(n) \in Nat /\ StrAlign(n) >= n
  <1> DEFINE a == STR_ALIGNMENT
  <1>1. a \in Nat \ {0}
    BY StringAssumption
  <1> HIDE DEF a
  <1>2. (n + a - 1) \div a \in Nat /\ (n + a - 1) % a \in 0..(a - 1)
    BY <1>1
  <1>3. n + a - 1 = a * ((n + a - 1) \div a) + ((n + a - 1) % a)
    BY <1>1
  <1>4. a * ((n + a - 1) \div a) = ((n + a - 1) \div a) * a
    BY <1>1, <1>2
  <1>5. ((n + a - 1) \div a) * a \in Nat /\ ((n + a - 1) \div a) * a >= n
    BY <1>1, <1>2, <1>3, <1>4
  <1> QED BY <1>5 DEF StrAlign, a

(* A new string gets memory of its own and a number of its own.            *)
LEMMA StrMemory ==
  ASSUME SSInv, NEW s \in Strings, ss_stralloc(SizeOf[s]), str_count' = str_count + 1,
         NEW d, d = NewEntry(s)
  PROVE  /\ d \in StrEntry /\ d.str = s /\ d.hash = hash_string[s]
         /\ str_count' \in Nat /\ string_pool' \in Nat \ {0} /\ str_next' \in Nat
         /\ pool_free_count' \in Int
         /\ pool_free_count' <= BlockSize(string_pool') - str_next'
         /\ GivenOut(d)'
         /\ \A e \in StrKnown : /\ GivenOut(e)'
                               /\ d.id # e.id
                               /\ Apart(d, SizeOf[d.str], e, SizeOf[e.str])
                               /\ Apart(e, SizeOf[e.str], d, SizeOf[d.str])
  <1> DEFINE n == SizeOf[s]
  <1>1. /\ n \in Nat \ {0} /\ n <= MEM_POOL_INCR - Header
        /\ MEM_POOL_INIT \in Nat /\ MEM_POOL_INCR \in Nat /\ Header \in Nat
        /\ hash_string[s] \in Nat
    BY StringAssumption
  <1>2. /\ str_count \in Nat /\ string_pool \in Nat \ {0} /\ str_next \in Nat
        /\ pool_free_count \in Int /\ str_count' = str_count + 1
        /\ pool_free_count <= BlockSize(string_pool) - str_next
    BY DEF SSInv, StrTypeOK, StrEntries
  <1>3. \A b \in Nat : BlockSize(b) \in Int
    BY <1>1 DEF BlockSize
  <1>4. ASSUME NEW e \in StrKnown
        PROVE  /\ e \in StrEntry /\ SizeOf[e.str] \in Nat /\ GivenOut(e)
               /\ e.id \in Nat /\ e.blk \in Nat /\ e.off \in Nat
    <2>1. e \in StrEntry
      BY InContents DEF StrKnown, SSInv, StrTypeOK
    <2>2. SizeOf[e.str] \in Nat
      BY <2>1, StringAssumption DEF StrEntry
    <2> QED BY <2>1, <2>2 DEF SSInv, StrEntries, StrEntry
  <1>5. d.id = str_count + 1 /\ d.str = s /\ d.hash = hash_string[s]
    BY DEF NewEntry
  <1> HIDE DEF n
  <1>6. CASE NeedsBlock(n)
    <2>1. d.blk = string_pool + 1 /\ d.off = 0
      BY <1>6 DEF NewEntry, n
    <2>2. /\ string_pool' = string_pool + 1 /\ str_next' = StrAlign(0 + n)
          /\ pool_free_count' = MEM_POOL_INCR - Header - (n + StrAlign(0 + n) - 0)
      BY <1>6 DEF ss_stralloc, n
    <2>3. StrAlign(0 + n) \in Nat /\ StrAlign(0 + n) >= n
      BY <1>1, StrAlignUp
    <2>4. BlockSize(string_pool + 1) = MEM_POOL_INCR - Header
      BY <1>2 DEF BlockSize
    <2>5. /\ string_pool' \in Nat \ {0} /\ str_next' \in Nat /\ pool_free_count' \in Int
          /\ pool_free_count' <= BlockSize(string_pool') - str_next'
      BY <1>1, <1>2, <2>2, <2>3, <2>4
    <2>6. d \in StrEntry
      BY <1>1, <1>2, <2>1 DEF NewEntry, StrEntry
    <2>7. GivenOut(d)'
      BY <1>1, <1>2, <1>5, <2>1, <2>2, <2>3, <2>4 DEF GivenOut, n
    <2>8. ASSUME NEW e \in StrKnown
          PROVE  /\ GivenOut(e)' /\ d.id # e.id
                 /\ Apart(d, SizeOf[d.str], e, SizeOf[e.str])
                 /\ Apart(e, SizeOf[e.str], d, SizeOf[d.str])
      <3>1. e.id <= str_count /\ e.blk <= string_pool /\ e.off + SizeOf[e.str] <= BlockSize(e.blk)
        BY <1>2, <1>4 DEF GivenOut
      <3>2. GivenOut(e)'
        BY <1>2, <1>4, <2>2, <3>1 DEF GivenOut
      <3>3. d.id # e.id /\ d.blk # e.blk
        BY <1>2, <1>4, <1>5, <2>1, <3>1
      <3> QED BY <3>2, <3>3 DEF Apart
    <2> QED BY <1>2, <1>5, <2>5, <2>6, <2>7, <2>8
  <1>7. CASE ~NeedsBlock(n)
    <2>1. d.blk = string_pool /\ d.off = str_next
      BY <1>7 DEF NewEntry, n
    <2>2. /\ string_pool' = string_pool /\ str_next' = StrAlign(str_next + n)
          /\ pool_free_count' = pool_free_count - n - (n + StrAlign(str_next + n) - str_next)
      BY <1>7 DEF ss_stralloc, n
    <2>3. StrAlign(str_next + n) \in Nat /\ StrAlign(str_next + n) >= str_next + n
      BY <1>1, <1>2, StrAlignUp
    <2>4. str_next + n <= BlockSize(string_pool)
      BY <1>1, <1>2, <1>3, <1>7 DEF NeedsBlock
    <2>5. /\ string_pool' \in Nat \ {0} /\ str_next' \in Nat /\ pool_free_count' \in Int
          /\ pool_free_count' <= BlockSize(string_pool') - str_next'
      BY <1>1, <1>2, <1>3, <2>2, <2>3
    <2>6. d \in StrEntry
      BY <1>1, <1>2, <2>1 DEF NewEntry, StrEntry
    <2>7. GivenOut(d)'
      BY <1>1, <1>2, <1>5, <2>1, <2>2, <2>3, <2>4 DEF GivenOut, n
    <2>8. ASSUME NEW e \in StrKnown
          PROVE  /\ GivenOut(e)' /\ d.id # e.id
                 /\ Apart(d, SizeOf[d.str], e, SizeOf[e.str])
                 /\ Apart(e, SizeOf[e.str], d, SizeOf[d.str])
      <3>1. /\ e.id <= str_count /\ e.off + SizeOf[e.str] <= BlockSize(e.blk)
            /\ e.blk < string_pool \/ (e.blk = string_pool /\ e.off + SizeOf[e.str] <= str_next)
        BY <1>4 DEF GivenOut
      <3>2. GivenOut(e)'
        BY <1>1, <1>2, <1>4, <2>2, <2>3, <3>1 DEF GivenOut
      <3>3. d.id # e.id
        BY <1>2, <1>4, <1>5, <3>1
      <3>4. d.blk = e.blk => e.off + SizeOf[e.str] <= d.off
        BY <1>2, <1>4, <2>1, <3>1
      <3> QED BY <3>2, <3>3, <3>4 DEF Apart
    <2> QED BY <1>2, <1>5, <2>5, <2>6, <2>7, <2>8
  <1> QED BY <1>6, <1>7

(* The entries after a new one has been added.                             *)
LEMMA StrAddEntry ==
  ASSUME SSInv, NEW s \in Strings, ss_stralloc(SizeOf[s]), str_count' = str_count + 1,
         copies' = [copies EXCEPT ![s] = copies[s] \cup {Copy(NewEntry(s))}],
         \A e \in StrKnown : e.str # s,
         StrKnown' = StrKnown \cup {NewEntry(s)}
  PROVE  /\ StrEntries'
         /\ copies' \in [Strings -> SUBSET [id : Nat, blk : Nat, off : Nat]]
  <1>1. PICK d : d = NewEntry(s)
    OBVIOUS
  <1>2. /\ d \in StrEntry /\ d.str = s /\ d.hash = hash_string[s]
        /\ pool_free_count' <= BlockSize(string_pool') - str_next'
        /\ GivenOut(d)'
        /\ \A e \in StrKnown : /\ GivenOut(e)'
                              /\ d.id # e.id
                              /\ Apart(d, SizeOf[d.str], e, SizeOf[e.str])
                              /\ Apart(e, SizeOf[e.str], d, SizeOf[d.str])
    BY <1>1, StrMemory
  <1>3. StrKnown' = StrKnown \cup {d}
    BY <1>1
  <1>4. \A e \in StrKnown' : e.hash = hash_string[e.str] /\ GivenOut(e)'
    BY <1>2, <1>3 DEF SSInv, StrEntries
  <1>5. \A c, e \in StrKnown' :
          IF c.str = e.str THEN c = e
          ELSE c.id # e.id /\ Apart(c, SizeOf[c.str], e, SizeOf[e.str])
    BY <1>2, <1>3 DEF SSInv, StrEntries
  <1>6. ASSUME NEW r \in Strings
        PROVE  copies'[r] = {Copy(e) : e \in {e \in StrKnown' : e.str = r}}
    <2>1. copies[r] = {Copy(e) : e \in {e \in StrKnown : e.str = r}}
      BY DEF SSInv, StrEntries
    <2>2. copies \in [Strings -> SUBSET [id : Nat, blk : Nat, off : Nat]]
      BY DEF SSInv, StrTypeOK
    <2>3. CASE r = s
      <3>1. copies'[r] = copies[r] \cup {Copy(d)}
        BY <1>1, <2>2, <2>3
      <3>2. {e \in StrKnown' : e.str = r} = {d} /\ copies[r] = {}
        BY <1>2, <1>3, <2>1, <2>3
      <3> QED BY <3>1, <3>2
    <2>4. CASE r # s
      <3>1. copies'[r] = copies[r]
        BY <2>2, <2>4
      <3>2. {e \in StrKnown' : e.str = r} = {e \in StrKnown : e.str = r}
        BY <1>2, <1>3, <2>4
      <3> QED BY <2>1, <3>1, <3>2
    <2> QED BY <2>3, <2>4
  <1>7. copies' \in [Strings -> SUBSET [id : Nat, blk : Nat, off : Nat]]
    <2>1. Copy(d) \in [id : Nat, blk : Nat, off : Nat]
      BY <1>2 DEF Copy, StrEntry
    <2>2. copies \in [Strings -> SUBSET [id : Nat, blk : Nat, off : Nat]]
      BY DEF SSInv, StrTypeOK
    <2>3. copies[s] \cup {Copy(d)} \in SUBSET [id : Nat, blk : Nat, off : Nat]
      BY <2>1, <2>2
    <2> QED BY <1>1, <2>2, <2>3
  <1> QED BY <1>2, <1>4, <1>5, <1>6, <1>7 DEF StrEntries

LEMMA StrInit == SSInit => SSInv
  <1> SUFFICES ASSUME SSInit PROVE SSInv
    OBVIOUS
  <1>1. /\ NoEntries(1) \in [Places(1) -> SUBSET StrEntry]
        /\ OneEach(NoEntries(1)) /\ Contents(NoEntries(1)) = {}
    BY EmptyTable
  <1>2. 1 \in 1..Len(s_prime) /\ s_prime[1] \in Nat
    BY SizesAssumption
  <1>3. MEM_POOL_INIT - Header \in Int /\ MAX_STRING_SET_TABLE_SIZE(s_prime[1]) \in Int
    BY <1>2, StringAssumption DEF MAX_STRING_SET_TABLE_SIZE
  <1>4. StrTypeOK
    <2>1. DOMAIN NoEntries(1) = Places(1)
      BY DEF NoEntries
    <2> QED BY <1>1, <1>2, <1>3, <2>1 DEF SSInit, StrTypeOK
  <1>5. StrTables
    <2>1. StrReached(NoEntries(1), s_prime[1])
      BY DEF StrReached, NoEntries
    <2> QED BY <1>1, <2>1 DEF SSInit, StrTables
  <1>6. StrKnown = {}
    BY <1>1 DEF SSInit, StrKnown
  <1>7. StrEntries
    BY <1>3, <1>6 DEF SSInit, StrEntries, BlockSize
  <1> QED BY <1>4, <1>5, <1>7 DEF SSInv

LEMMA StrAddOld ==
  ASSUME SSInv, NEW s \in Strings, AddOld(s)
  PROVE  SSInv'
  <1>1. PICK e \in StringFound(s) : TRUE
    BY DEF AddOld
  <1>2. e \in Contents(strs) /\ e.str = s
    BY StrFoundKnown
  <1>3. StringFound(s) = {e}
    BY <1>2, StrLookup
  <1>4. copies[s] = {Copy(e)}
    <2>1. e \in StrKnown
      BY <1>2 DEF StrKnown
    <2>2. {d \in StrKnown : d.str = s} = {e}
      BY <1>2, <2>1 DEF SSInv, StrEntries
    <2> QED BY <2>2 DEF SSInv, StrEntries
  <1>5. copies' = copies
    BY <1>3, <1>4 DEF AddOld, SSInv, StrTypeOK
  <1> QED BY <1>5 DEF AddOld, SSInv, StrTypeOK, StrTables, StrEntries, StrKnown, GivenOut

LEMMA StrAddNew ==
  ASSUME SSInv, NEW s \in Strings, AddNew(s)
  PROVE  SSInv'
  <1>1. PICK d : d = NewEntry(s)
    OBVIOUS
  <1>2. PICK p \in StringPlace(s, hash_string[s]) :
          LET new == [strs EXCEPT ![p] = {d}]
          IN  IF str_available = 1
              THEN /\ str_prime < Len(s_prime)
                   /\ str_prime' = str_prime + 1
                   /\ str_old' = new
                   /\ strs' = NoEntries(str_prime + 1)
                   /\ str_available' = MAX_STRING_SET_TABLE_SIZE(s_prime[str_prime + 1])
                                       - MAX_STRING_SET_TABLE_SIZE(s_prime[str_prime])
              ELSE /\ strs' = new
                   /\ str_available' = str_available - 1
                   /\ UNCHANGED <<str_old, str_prime>>
    BY <1>1 DEF AddNew
  <1>3. ss_stralloc(SizeOf[s]) /\ str_count' = str_count + 1 /\ StringFound(s) = {}
        /\ copies' = [copies EXCEPT ![s] = copies[s] \cup {Copy(NewEntry(s))}]
        /\ Contents(str_old) = {}
    BY DEF AddNew, StringsMoving
  <1> DEFINE new == [strs EXCEPT ![p] = {d}]
             P == Places(str_prime)
  <1>4. p \in P /\ strs[p] = {} /\ p \in DOMAIN strs
    BY <1>3, StrFreePlace DEF SSInv, StrTypeOK
  <1>5. /\ d \in StrEntry /\ d.str = s /\ d.hash = hash_string[s]
        /\ str_count' \in Nat /\ string_pool' \in Nat \ {0} /\ str_next' \in Nat
        /\ pool_free_count' \in Int
    BY <1>1, <1>3, StrMemory
  <1>6. \A e \in StrKnown : e.str # s
    <2>1. ASSUME NEW e \in StrKnown, e.str = s PROVE FALSE
      <3>1. e \in Contents(strs)
        BY <1>3 DEF StrKnown
      <3>2. StringFound(s) = {e}
        BY <2>1, <3>1, StrLookup
      <3> QED BY <1>3, <3>2
    <2> QED BY <2>1
  <1>7. /\ new \in [P -> SUBSET StrEntry] /\ OneEach(new)
        /\ Contents(new) = Contents(strs) \cup {d}
    <2>1. strs \in [P -> SUBSET StrEntry] /\ OneEach(strs)
      BY DEF SSInv, StrTypeOK, StrTables
    <2>2. new \in [P -> SUBSET StrEntry]
      BY <1>4, <1>5, <2>1
    <2>3. OneEach(new) /\ Contents(new) = Contents(strs) \cup {d}
      BY <1>4, <2>1, PutContents
    <2> QED BY <2>2, <2>3
  <1>8. StrReached(new, s_prime[str_prime])
    <2>1. strs \in [P -> SUBSET StrEntry] /\ StrReached(strs, s_prime[str_prime])
      BY DEF SSInv, StrTypeOK, StrTables
    <2>2. p \in FirstPlace(d.hash, s_prime[str_prime], StringEnds(d.str, d.hash, strs))
      BY <1>2, <1>5 DEF StringPlace
    <2>3. \A e \in Contents(strs) : e.str = d.str => e = d
      BY <1>5, <1>6 DEF StrKnown
    <2> HIDE DEF P
    <2> QED BY <1>5, <2>1, <2>2, <2>3, StrPutReached
  <1> HIDE DEF new
  <1>9. CASE str_available = 1
    <2>1. /\ str_prime < Len(s_prime) /\ str_prime' = str_prime + 1 /\ str_old' = new
          /\ strs' = NoEntries(str_prime')
          /\ str_available' = MAX_STRING_SET_TABLE_SIZE(s_prime[str_prime + 1])
                              - MAX_STRING_SET_TABLE_SIZE(s_prime[str_prime])
      BY <1>2, <1>9 DEF new
    <2>2. str_prime \in Nat \ {0} /\ Len(s_prime) \in Nat
      BY SizesAssumption DEF SSInv, StrTypeOK
    <2>3. str_prime' \in 1..Len(s_prime) /\ str_available' \in Int
      <3>1. str_prime + 1 \in 1..Len(s_prime) /\ str_prime \in 1..Len(s_prime)
        BY <2>1, <2>2 DEF SSInv, StrTypeOK
      <3>2. s_prime[str_prime + 1] \in Nat /\ s_prime[str_prime] \in Nat
        BY <3>1, SizesAssumption
      <3> QED BY <2>1, <3>1, <3>2 DEF MAX_STRING_SET_TABLE_SIZE
    <2>4. /\ strs' \in [Places(str_prime') -> SUBSET StrEntry]
          /\ OneEach(strs') /\ Contents(strs') = {}
      BY <2>1, EmptyTable
    <2>5. StrReached(strs', s_prime[str_prime'])
      BY <2>1 DEF StrReached, NoEntries
    <2>6. StrKnown' = StrKnown \cup {NewEntry(s)}
      BY <1>1, <1>3, <1>7, <2>1, <2>4 DEF StrKnown
    <2>7. StrEntries' /\ copies' \in [Strings -> SUBSET [id : Nat, blk : Nat, off : Nat]]
      BY <1>3, <1>6, <2>6, StrAddEntry
    <2>8. StrTypeOK'
      BY <1>5, <1>7, <2>1, <2>3, <2>4, <2>7 DEF StrTypeOK
    <2>9. StrTables'
      BY <1>7, <2>1, <2>4, <2>5 DEF StrTables
    <2> QED BY <2>7, <2>8, <2>9 DEF SSInv
  <1>10. CASE str_available # 1
    <2>1. /\ strs' = new /\ str_available' = str_available - 1
          /\ str_old' = str_old /\ str_prime' = str_prime
      BY <1>2, <1>10 DEF new
    <2>2. StrKnown' = StrKnown \cup {NewEntry(s)}
      BY <1>1, <1>7, <2>1 DEF StrKnown
    <2>3. StrEntries' /\ copies' \in [Strings -> SUBSET [id : Nat, blk : Nat, off : Nat]]
      BY <1>3, <1>6, <2>2, StrAddEntry
    <2>4. StrTypeOK'
      BY <1>5, <1>7, <2>1, <2>3 DEF SSInv, StrTypeOK
    <2>5. StrTables'
      BY <1>7, <1>8, <2>1 DEF SSInv, StrTables
    <2> QED BY <2>3, <2>4, <2>5 DEF SSInv
  <1> QED BY <1>9, <1>10

LEMMA StrMove ==
  ASSUME SSInv, MoveString
  PROVE  SSInv'
  <1>1. PICK i \in NextUsed(str_old) : \E e \in str_old[i] : \E p \in StringPlace(e.str, e.hash) :
          /\ strs' = [strs EXCEPT ![p] = {e}]
          /\ str_old' = [str_old EXCEPT ![i] = {}]
    BY DEF MoveString
  <1>2. PICK d \in str_old[i] : \E p \in StringPlace(d.str, d.hash) :
          /\ strs' = [strs EXCEPT ![p] = {d}]
          /\ str_old' = [str_old EXCEPT ![i] = {}]
    BY <1>1
  <1>3. PICK p \in StringPlace(d.str, d.hash) :
          /\ strs' = [strs EXCEPT ![p] = {d}]
          /\ str_old' = [str_old EXCEPT ![i] = {}]
    BY <1>2
  <1> DEFINE P == Places(str_prime)
             Q == DOMAIN str_old
  <1>4. UNCHANGED <<str_prime, str_count, str_available, string_pool, str_next, pool_free_count, copies>>
    BY DEF MoveString
  <1>5. i \in Q /\ d \in StrEntry /\ d \in Contents(str_old)
    BY InContents DEF NextUsed, SSInv, StrTypeOK
  <1>6. /\ strs \in [P -> SUBSET StrEntry] /\ str_old \in [Q -> SUBSET StrEntry]
        /\ OneEach(strs) /\ OneEach(str_old) /\ StrReached(strs, s_prime[str_prime])
    BY DEF SSInv, StrTypeOK, StrTables
  <1>7. \A e \in Contents(strs) : e.str = d.str => e = d
    BY <1>5 DEF SSInv, StrEntries, StrKnown
  <1>8. p \in P /\ strs[p] \subseteq {d}
    <2>1. p \in StringEnds(d.str, d.hash, strs)
      BY PlaceEnds DEF StringPlace
    <2>2. p \in P /\ \A e \in strs[p] : e.str = d.str
      BY <1>6, <2>1 DEF StringEnds
    <2> QED BY <1>6, <1>7, <2>2, InContents
  <1>9. /\ strs' \in [P -> SUBSET StrEntry] /\ OneEach(strs')
        /\ Contents(strs') = Contents(strs) \cup {d}
    <2>1. strs' \in [P -> SUBSET StrEntry]
      BY <1>3, <1>5, <1>6, <1>8
    <2>2. p \in DOMAIN strs
      BY <1>6, <1>8
    <2>3. OneEach(strs') /\ Contents(strs') = Contents(strs) \cup {d}
      BY <1>3, <1>6, <1>8, <2>2, PutContents
    <2> QED BY <2>1, <2>3
  <1>10. StrReached(strs', s_prime[str_prime])
    <2>1. p \in FirstPlace(d.hash, s_prime[str_prime], StringEnds(d.str, d.hash, strs))
      BY DEF StringPlace
    <2> HIDE DEF P
    <2> QED BY <1>3, <1>5, <1>6, <1>7, <2>1, StrPutReached
  <1>11. /\ str_old' \in [Q -> SUBSET StrEntry] /\ OneEach(str_old')
         /\ Contents(str_old') \cup {d} = Contents(str_old)
    <2>1. str_old' \in [Q -> SUBSET StrEntry]
      BY <1>3, <1>5, <1>6
    <2>2. OneEach(str_old') /\ Contents(str_old') \cup {d} = Contents(str_old)
      BY <1>3, <1>5, <1>6, EmptiedContents
    <2> QED BY <2>1, <2>2
  <1>12. StrKnown' = StrKnown
    BY <1>9, <1>11 DEF StrKnown
  <1>13. StrTypeOK'
    <2>1. DOMAIN str_old' = Q
      BY <1>11
    <2>2. str_old' \in [DOMAIN str_old' -> SUBSET StrEntry]
      BY <1>11, <2>1
    <2>3. strs' \in [Places(str_prime') -> SUBSET StrEntry]
      BY <1>4, <1>9
    <2> QED BY <1>4, <2>2, <2>3 DEF SSInv, StrTypeOK
  <1>14. StrTables'
    BY <1>4, <1>9, <1>10, <1>11 DEF StrTables
  <1>15. StrEntries'
    BY <1>4, <1>12 DEF SSInv, StrEntries, GivenOut
  <1> QED BY <1>13, <1>14, <1>15 DEF SSInv

(* The invariant of a string set. *)
THEOREM StringSetCorrect == SSSpec => []SSInv
  <1>1. ASSUME SSInv, [SSNext]_ssvars PROVE SSInv'
    <2>1. CASE UNCHANGED ssvars
      BY <1>1, <2>1 DEF ssvars, SSInv, StrTypeOK, StrTables, StrEntries, StrKnown, GivenOut
    <2>2. CASE SSNext
      BY <1>1, <2>2, StrAddOld, StrAddNew, StrMove DEF SSNext
    <2> QED BY <1>1, <2>1, <2>2
  <1> QED BY <1>1, StrInit, PTL DEF SSSpec

(* string_set_add() returns one copy and one number for each string, and   *)
(* no two strings share a byte, whatever collides and however often the    *)
(* table grows, for any strings and sizes.                                 *)
THEOREM StringsOnce == SSSpec => []OneForEachString
  BY StringSetCorrect, StrProperty, PTL

-----------------------------------------------------------------------------
(* A call hands out one copy.                                              *)
LEMMA StrOneCopy ==
  ASSUME SSInv, NEW s \in Strings, AddOld(s) \/ AddNew(s)
  PROVE  \E c : copies' = [copies EXCEPT ![s] = copies[s] \cup {c}]
  <1>1. CASE AddOld(s)
    <2>1. PICK e \in StringFound(s) : TRUE
      BY <1>1 DEF AddOld
    <2>2. StringFound(s) = {e}
      BY StrFoundKnown, StrLookup
    <2>3. {Copy(d) : d \in StringFound(s)} = {Copy(e)}
      BY <2>2
    <2> QED BY <1>1, <2>3 DEF AddOld
  <1>2. CASE AddNew(s)
    BY <1>2 DEF AddNew
  <1> QED BY <1>1, <1>2

(* Handing out a copy is interning: the pointers of copies that are apart  *)
(* differ, as the copies have at least one byte.                           *)
LEMMA StrIntern ==
  ASSUME SSInv, OneForEachString', NEW s \in Strings, NEW c,
         copies' = [copies EXCEPT ![s] = copies[s] \cup {c}]
  PROVE  Pointers!Intern(s) /\ Numbers!Intern(s)
  <1> DEFINE ptrs(t) == {Pointer(x) : x \in copies[t]}
             ids(t)  == {x.id : x \in copies[t]}
  <1>1. copies \in [Strings -> SUBSET [id : Nat, blk : Nat, off : Nat]]
    BY DEF SSInv, StrTypeOK
  <1>2. /\ copies' \in [Strings -> SUBSET ([id : Nat, blk : Nat, off : Nat] \cup {c})]
        /\ c \in copies'[s] /\ \A t \in Strings : copies[t] \subseteq copies'[t]
    BY <1>1
  <1>3. ASSUME NEW t \in Strings, NEW x \in copies[t]
        PROVE  /\ Pointer(c) = Pointer(x) <=> s = t
               /\ c.id = x.id <=> s = t
    <2>1. IF s = t THEN c = x ELSE c.id # x.id /\ Apart(c, SizeOf[s], x, SizeOf[t])
      BY <1>2 DEF OneForEachString
    <2>2. CASE s = t
      BY <2>1, <2>2
    <2>3. CASE s # t
      <3>1. x.off \in Nat /\ SizeOf[s] \in Nat \ {0} /\ SizeOf[t] \in Nat \ {0}
        BY <1>1, StringAssumption
      <3>2. ~(c.blk = x.blk /\ c.off = x.off)
        BY <2>1, <2>3, <3>1 DEF Apart
      <3>3. Pointer(c) # Pointer(x)
        BY <3>2 DEF Pointer
      <3> QED BY <2>1, <2>3, <3>3
    <2> QED BY <2>2, <2>3
  <1>4. \A t \in Strings : <<s, t>> \in Itself <=> s = t
    BY DEF Itself
  <1>5. UNCHANGED Itself
    BY DEF Itself
  <1>6. Pointers!Intern(s)
    <2>1. /\ [t \in Strings |-> ptrs(t)]' = [[t \in Strings |-> ptrs(t)] EXCEPT ![s] = ptrs(s) \cup {Pointer(c)}]
          /\ Pointer(c) \in ptrs(s)'
      <3> DEFINE new(t) == {Pointer(x) : x \in copies'[t]}
      <3>1. \A t \in Strings : new(t) = IF t = s THEN ptrs(s) \cup {Pointer(c)} ELSE ptrs(t)
        BY <1>1
      <3>2. Pointer(c) \in new(s)
        BY <3>1
      <3> HIDE DEF ptrs, new
      <3>3. [t \in Strings |-> new(t)] = [[t \in Strings |-> ptrs(t)] EXCEPT ![s] = ptrs(s) \cup {Pointer(c)}]
        BY <3>1
      <3> QED BY <3>2, <3>3 DEF ptrs, new
    <2>2. \A t \in Strings : \A g \in ptrs(t) : Pointer(c) = g <=> <<s, t>> \in Itself
      BY <1>3, <1>4
    <2> QED BY <1>5, <2>1, <2>2 DEF Pointers!Intern
  <1>7. Numbers!Intern(s)
    <2>1. /\ [t \in Strings |-> ids(t)]' = [[t \in Strings |-> ids(t)] EXCEPT ![s] = ids(s) \cup {c.id}]
          /\ c.id \in ids(s)'
      <3> DEFINE new(t) == {x.id : x \in copies'[t]}
      <3>1. \A t \in Strings : new(t) = IF t = s THEN ids(s) \cup {c.id} ELSE ids(t)
        BY <1>1
      <3>2. c.id \in new(s)
        BY <3>1
      <3> HIDE DEF ids, new
      <3>3. [t \in Strings |-> new(t)] = [[t \in Strings |-> ids(t)] EXCEPT ![s] = ids(s) \cup {c.id}]
        BY <3>1
      <3> QED BY <3>2, <3>3 DEF ids, new
    <2>2. \A t \in Strings : \A g \in ids(t) : c.id = g <=> <<s, t>> \in Itself
      BY <1>3, <1>4
    <2> QED BY <1>5, <2>1, <2>2 DEF Numbers!Intern
  <1> QED BY <1>6, <1>7

LEMMA StrRefineInit == SSInit => Pointers!Init /\ Numbers!Init
  <1> SUFFICES ASSUME SSInit PROVE Pointers!Init /\ Numbers!Init
    OBVIOUS
  <1>1. /\ Itself \subseteq Strings \X Strings
        /\ \A s, t \in Strings : <<s, t>> \in Itself <=> s = t
    BY DEF Itself
  <1>2. \A s \in Strings : copies[s] = {}
    BY DEF SSInit
  <1> QED BY <1>1, <1>2 DEF Pointers!Init, Numbers!Init, Pointers!Nobody, Numbers!Nobody

LEMMA StrRefineNext ==
  ASSUME SSInv, OneForEachString', [SSNext]_ssvars
  PROVE  [Pointers!Next]_(Pointers!vars) /\ [Numbers!Next]_(Numbers!vars)
  <1>1. CASE UNCHANGED copies
    BY <1>1 DEF Pointers!vars, Numbers!vars, Itself
  <1>2. CASE \E s \in Strings : AddOld(s) \/ AddNew(s)
    <2>1. PICK s \in Strings : AddOld(s) \/ AddNew(s)
      BY <1>2
    <2>2. PICK c : copies' = [copies EXCEPT ![s] = copies[s] \cup {c}]
      BY <2>1, StrOneCopy
    <2> QED BY <2>2, StrIntern DEF Pointers!Next, Numbers!Next
  <1> QED BY <1>1, <1>2 DEF SSNext, ssvars, MoveString

(* The string set does what Interning says, with pointers and with         *)
(* numbers: comparing these is comparing strings, for any strings, hashes  *)
(* and sizes, and through every growth.                                    *)
THEOREM StringSetRefines == SSSpec => StringsInterned
  <1>1. SSInv /\ OneForEachString' /\ [SSNext]_ssvars
          => [Pointers!Next]_(Pointers!vars) /\ [Numbers!Next]_(Numbers!vars)
    BY StrRefineNext
  <1> QED BY <1>1, StrRefineInit, StringSetCorrect, StringsOnce, PTL
          DEF SSSpec, StringsInterned, Pointers!Spec, Numbers!Spec

-----------------------------------------------------------------------------
(* The tracon set. *)

TrEntry == [cs : DOMAIN HashOf, shallow : BOOLEAN, word : Nat, hash : Nat]

TrTypeOK ==
  /\ shallow \in BOOLEAN
  /\ tr_prime \in 1..Len(s_prime)
  /\ tracons \in [Places(tr_prime) -> SUBSET TrEntry]
  /\ tr_old \in [DOMAIN tr_old -> SUBSET TrEntry]
  /\ tr_available \in Int
  /\ waiting \subseteq TraconsUsed
  /\ added \in [TraconsUsed -> SUBSET TrEntry]
  /\ resets \in Nat

(* The tracons of tab are where a search for them ends. *)
TrReached(tab, sz) ==
  \A p \in DOMAIN tab : \A e \in tab[p] : p \in FirstPlace(e.hash, sz, TraconEnds(e, e.hash, tab))

TrTables ==
  /\ OneEach(tracons) /\ OneEach(tr_old)
  /\ TrReached(tracons, s_prime[tr_prime])

TrKnown == Contents(tracons) \cup Contents(tr_old)

TrEntries ==
  /\ \A e \in TrKnown : e.hash = hash_connectors(e) /\ e.word = resets
  /\ \A d, e \in TrKnown : Same(d, e) => d = e
  /\ \A c \in TraconsUsed : \A e \in added[c] : e \in TrKnown /\ Same(c, e)

TSInv == TrTypeOK /\ TrTables /\ TrEntries

-----------------------------------------------------------------------------
LEMMA TrProperty ==
  ASSUME TSInv
  PROVE  SharesSame
  <1> SUFFICES ASSUME NEW c \in TraconsUsed, NEW e \in added[c]
               PROVE  /\ added[c] = {e}
                      /\ Same(c, e) /\ e.word = resets
                      /\ \A d \in TraconsUsed : added[d] # {} => (e \in added[d] <=> Same(c, d))
    BY DEF SharesSame
  <1>1. e \in TrKnown /\ Same(c, e) /\ e.word = resets
    BY DEF TSInv, TrEntries
  <1>2. ASSUME NEW d \in TraconsUsed, NEW f \in added[d], Same(c, d)
        PROVE  f = e
    <2>1. f \in TrKnown /\ Same(d, f)
      BY DEF TSInv, TrEntries
    <2>2. Same(e, f)
      BY <1>1, <1>2, <2>1 DEF Same
    <2> QED BY <1>1, <2>1, <2>2 DEF TSInv, TrEntries
  <1>3. added[c] = {e}
    <2>1. Same(c, c)
      BY DEF Same
    <2> QED BY <1>2, <2>1
  <1>4. ASSUME NEW d \in TraconsUsed, e \in added[d]
        PROVE  Same(c, d)
    <2>1. Same(d, e)
      BY <1>4 DEF TSInv, TrEntries
    <2> QED BY <1>1, <2>1 DEF Same
  <1> QED BY <1>1, <1>2, <1>3, <1>4

(* A tracon put where its search ends spoils no other search.              *)
LEMMA TrPutReached ==
  ASSUME NEW P, NEW tab \in [P -> SUBSET TrEntry], NEW sz, TrReached(tab, sz),
         NEW d \in TrEntry, NEW p \in FirstPlace(d.hash, sz, TraconEnds(d, d.hash, tab)),
         \A e \in Contents(tab) : Same(d, e) => e = d
  PROVE  TrReached([tab EXCEPT ![p] = {d}], sz)
  <1> DEFINE new == [tab EXCEPT ![p] = {d}]
  <1>1. p \in TraconEnds(d, d.hash, tab)
    BY PlaceEnds
  <1>2. p \in P /\ DOMAIN new = P /\ new[p] = {d} /\ \A q \in P \ {p} : new[q] = tab[q]
    BY <1>1 DEF TraconEnds
  <1>3. SUFFICES ASSUME NEW q \in P, NEW e \in new[q]
                 PROVE  q \in FirstPlace(e.hash, sz, TraconEnds(e, e.hash, new))
    BY <1>2 DEF TrReached
  <1> HIDE DEF new
  <1>4. e = d \/ (q # p /\ e \in tab[q])
    BY <1>2, <1>3
  <1>5. q \in FirstPlace(e.hash, sz, TraconEnds(e, e.hash, tab))
    BY <1>2, <1>3, <1>4, InContents DEF TrReached
  <1>6. TraconEnds(e, e.hash, new) \subseteq TraconEnds(e, e.hash, tab)
    <2>1. ASSUME NEW r \in TraconEnds(e, e.hash, new) PROVE r \in TraconEnds(e, e.hash, tab)
      <3>1. CASE r # p
        BY <1>2, <2>1, <3>1 DEF TraconEnds
      <3>2. CASE r = p
        <4>1. Same(d, e)
          BY <1>2, <2>1, <3>2 DEF TraconEnds
        <4>2. e = d
          BY <1>4, <4>1, InContents
        <4> QED BY <1>1, <3>2, <4>2
      <3> QED BY <3>1, <3>2
    <2> QED BY <2>1
  <1>7. q \in TraconEnds(e, e.hash, new)
    <2>1. q \in TraconEnds(e, e.hash, tab)
      BY <1>5, PlaceEnds
    <2>2. CASE q = p
      BY <1>2, <1>3, <2>2 DEF TraconEnds, Same
    <2>3. CASE q # p
      BY <1>2, <2>1, <2>3 DEF TraconEnds
    <2> QED BY <2>2, <2>3
  <1> QED BY <1>5, <1>6, <1>7, FewerEnds

(* What ends a search depends on no variable but shallow, which stays.     *)
LEMMA TrReachedStays ==
  ASSUME shallow' = shallow, tr_prime' = tr_prime,
         NEW tab, TrReached(tab, s_prime[tr_prime]), tracons' = tab
  PROVE  TrReached(tracons, s_prime[tr_prime])'
  <1>1. ASSUME NEW e PROVE TraconEnds(e, e.hash, tracons)' = TraconEnds(e, e.hash, tab)
    BY DEF TraconEnds, Same
  <1>2. ASSUME NEW p \in DOMAIN tab, NEW e \in tab[p]
        PROVE  p \in FirstPlace(e.hash, s_prime[tr_prime], TraconEnds(e, e.hash, tracons)')
    BY <1>1 DEF TrReached
  <1> QED BY <1>2 DEF TrReached

LEMMA TrInit == TSInit => TSInv
  <1> SUFFICES ASSUME TSInit PROVE TSInv
    OBVIOUS
  <1>1. /\ NoEntries(1) \in [Places(1) -> SUBSET TrEntry]
        /\ OneEach(NoEntries(1)) /\ Contents(NoEntries(1)) = {}
    BY EmptyTable
  <1>2. 1 \in 1..Len(s_prime) /\ s_prime[1] \in Nat
    BY SizesAssumption
  <1>3. MAX_TRACON_SET_TABLE_SIZE(s_prime[1]) \in Int
    BY <1>2 DEF MAX_TRACON_SET_TABLE_SIZE
  <1>4. TrTypeOK
    <2>1. DOMAIN NoEntries(1) = Places(1)
      BY DEF NoEntries
    <2> QED BY <1>1, <1>2, <1>3, <2>1 DEF TSInit, TrTypeOK
  <1>5. TrTables
    <2>1. TrReached(NoEntries(1), s_prime[1])
      BY DEF TrReached, NoEntries
    <2> QED BY <1>1, <2>1 DEF TSInit, TrTables
  <1>6. TrKnown = {}
    BY <1>1 DEF TSInit, TrKnown
  <1>7. TrEntries
    BY <1>6 DEF TSInit, TrEntries
  <1> QED BY <1>4, <1>5, <1>7 DEF TSInv

LEMMA TrGrow ==
  ASSUME TSInv, NEW c \in TraconsUsed, GrowFor(c)
  PROVE  TSInv'
  <1>1. /\ tr_prime' = tr_prime + 1 /\ tr_old' = tracons /\ tracons' = NoEntries(tr_prime')
        /\ tr_available' = MAX_TRACON_SET_TABLE_SIZE(s_prime[tr_prime + 1])
                           - MAX_TRACON_SET_TABLE_SIZE(s_prime[tr_prime])
        /\ tr_prime < Len(s_prime) /\ waiting' = {c} /\ UNCHANGED <<shallow, added, resets>>
        /\ Contents(tr_old) = {}
    BY DEF GrowFor, TraconsMoving
  <1>2. /\ tracons' \in [Places(tr_prime') -> SUBSET TrEntry]
        /\ OneEach(tracons') /\ Contents(tracons') = {}
    BY <1>1, EmptyTable
  <1>3. tr_prime' \in 1..Len(s_prime) /\ tr_available' \in Int
    <2>1. tr_prime + 1 \in 1..Len(s_prime) /\ tr_prime \in 1..Len(s_prime)
      BY <1>1, SizesAssumption DEF TSInv, TrTypeOK
    <2>2. s_prime[tr_prime + 1] \in Nat /\ s_prime[tr_prime] \in Nat
      BY <2>1, SizesAssumption
    <2> QED BY <1>1, <2>1, <2>2 DEF MAX_TRACON_SET_TABLE_SIZE
  <1>4. TrTypeOK'
    BY <1>1, <1>2, <1>3 DEF TSInv, TrTypeOK
  <1>5. TrTables'
    <2>1. TrReached(tracons, s_prime[tr_prime])'
      BY <1>1 DEF TrReached, NoEntries
    <2> QED BY <1>1, <1>2, <2>1 DEF TSInv, TrTables
  <1>6. TrKnown' = TrKnown
    BY <1>1, <1>2 DEF TrKnown
  <1>7. TrEntries'
    BY <1>1, <1>6 DEF TSInv, TrEntries, Same, hash_connectors
  <1> QED BY <1>4, <1>5, <1>7 DEF TSInv

LEMMA TrMove ==
  ASSUME TSInv, MoveTracon
  PROVE  TSInv'
  <1>1. PICK i \in NextUsed(tr_old) : \E e \in tr_old[i] : \E p \in TraconPlace(e, e.hash) :
          /\ tracons' = [tracons EXCEPT ![p] = {e}]
          /\ tr_old' = [tr_old EXCEPT ![i] = {}]
    BY DEF MoveTracon
  <1>2. PICK d \in tr_old[i] : \E p \in TraconPlace(d, d.hash) :
          /\ tracons' = [tracons EXCEPT ![p] = {d}]
          /\ tr_old' = [tr_old EXCEPT ![i] = {}]
    BY <1>1
  <1>3. PICK p \in TraconPlace(d, d.hash) :
          /\ tracons' = [tracons EXCEPT ![p] = {d}]
          /\ tr_old' = [tr_old EXCEPT ![i] = {}]
    BY <1>2
  <1> DEFINE P == Places(tr_prime)
             Q == DOMAIN tr_old
  <1>4. UNCHANGED <<shallow, tr_prime, tr_available, waiting, added, resets>>
    BY DEF MoveTracon
  <1>5. i \in Q /\ d \in TrEntry /\ d \in Contents(tr_old)
    BY InContents DEF NextUsed, TSInv, TrTypeOK
  <1>6. /\ tracons \in [P -> SUBSET TrEntry] /\ tr_old \in [Q -> SUBSET TrEntry]
        /\ OneEach(tracons) /\ OneEach(tr_old) /\ TrReached(tracons, s_prime[tr_prime])
    BY DEF TSInv, TrTypeOK, TrTables
  <1>7. \A e \in Contents(tracons) : Same(d, e) => e = d
    BY <1>5 DEF TSInv, TrEntries, TrKnown
  <1>8. p \in P /\ tracons[p] \subseteq {d}
    <2>1. p \in TraconEnds(d, d.hash, tracons)
      BY PlaceEnds DEF TraconPlace
    <2>2. p \in P /\ \A e \in tracons[p] : Same(d, e)
      BY <1>6, <2>1 DEF TraconEnds, Same
    <2> QED BY <1>6, <1>7, <2>2, InContents
  <1>9. /\ tracons' \in [P -> SUBSET TrEntry] /\ OneEach(tracons')
        /\ Contents(tracons') = Contents(tracons) \cup {d}
    <2>1. tracons' \in [P -> SUBSET TrEntry]
      BY <1>3, <1>5, <1>6, <1>8
    <2>2. p \in DOMAIN tracons
      BY <1>6, <1>8
    <2>3. OneEach(tracons') /\ Contents(tracons') = Contents(tracons) \cup {d}
      BY <1>3, <1>6, <1>8, <2>2, PutContents
    <2> QED BY <2>1, <2>3
  <1>10. TrReached([tracons EXCEPT ![p] = {d}], s_prime[tr_prime])
    <2>1. p \in FirstPlace(d.hash, s_prime[tr_prime], TraconEnds(d, d.hash, tracons))
      BY DEF TraconPlace
    <2> HIDE DEF P
    <2> QED BY <1>5, <1>6, <1>7, <2>1, TrPutReached
  <1>11. /\ tr_old' \in [Q -> SUBSET TrEntry] /\ OneEach(tr_old')
         /\ Contents(tr_old') \cup {d} = Contents(tr_old)
    <2>1. tr_old' \in [Q -> SUBSET TrEntry]
      BY <1>3, <1>5, <1>6
    <2>2. OneEach(tr_old') /\ Contents(tr_old') \cup {d} = Contents(tr_old)
      BY <1>3, <1>5, <1>6, EmptiedContents
    <2> QED BY <2>1, <2>2
  <1>12. TrKnown' = TrKnown
    BY <1>9, <1>11 DEF TrKnown
  <1>13. TrTypeOK'
    <2>1. DOMAIN tr_old' = Q
      BY <1>11
    <2>2. tr_old' \in [DOMAIN tr_old' -> SUBSET TrEntry]
      BY <1>11, <2>1
    <2>3. tracons' \in [Places(tr_prime') -> SUBSET TrEntry]
      BY <1>4, <1>9
    <2> QED BY <1>4, <2>2, <2>3 DEF TSInv, TrTypeOK
  <1>14. TrTables'
    <2>1. TrReached(tracons, s_prime[tr_prime])'
      BY <1>3, <1>4, <1>10, TrReachedStays
    <2> QED BY <1>4, <1>9, <1>11, <2>1 DEF TrTables
  <1>15. TrEntries'
    BY <1>4, <1>12 DEF TSInv, TrEntries, Same, hash_connectors
  <1> QED BY <1>13, <1>14, <1>15 DEF TSInv

LEMMA TrAdd ==
  ASSUME TSInv, NEW c \in TraconsUsed, AddTracon(c)
  PROVE  TSInv'
  <1>1. PICK p \in TraconPlace(c, hash_connectors(c)) :
          LET here == IF tracons[p] = {} THEN {Here(c)} ELSE tracons[p]
          IN  /\ tracons' = [tracons EXCEPT ![p] = here]
              /\ tr_available' = IF tracons[p] = {} THEN tr_available - 1 ELSE tr_available
              /\ added' = [added EXCEPT ![c] = added[c] \cup here]
    BY DEF AddTracon
  <1> DEFINE P == Places(tr_prime)
  <1>2. waiting' = {} /\ UNCHANGED <<shallow, tr_old, tr_prime, resets>> /\ Contents(tr_old) = {}
    BY DEF AddTracon, TraconsMoving
  <1>3. /\ tracons \in [P -> SUBSET TrEntry] /\ OneEach(tracons)
        /\ TrReached(tracons, s_prime[tr_prime]) /\ tr_available \in Int
        /\ added \in [TraconsUsed -> SUBSET TrEntry]
    BY DEF TSInv, TrTypeOK, TrTables
  <1>4. p \in P /\ p \in DOMAIN tracons /\ \A e \in tracons[p] : e.hash = hash_connectors(c) /\ Same(e, c)
    <2>1. p \in TraconEnds(c, hash_connectors(c), tracons)
      BY PlaceEnds DEF TraconPlace
    <2> QED BY <1>3, <2>1 DEF TraconEnds
  <1>5. c.cs \in DOMAIN HashOf /\ c.shallow \in BOOLEAN /\ hash_connectors(c) \in Nat
    <2>1. c.cs \in DOMAIN HashOf /\ c.shallow \in BOOLEAN
      BY TraconAssumption
    <2>2. HashOf[c.cs] \in Nat /\ ShallowHash \in Nat
      BY <2>1, TraconAssumption
    <2> QED BY <2>1, <2>2 DEF hash_connectors
  (* The entry that is handed out. *)
  <1>6. PICK d : IF tracons[p] = {} THEN d = Here(c) ELSE tracons[p] = {d}
    <2>1. CASE tracons[p] = {}
      BY <2>1
    <2>2. CASE tracons[p] # {}
      <3>1. PICK e \in tracons[p] : TRUE
        BY <2>2
      <3>2. tracons[p] = {e}
        BY <1>3, <1>4, <3>1 DEF OneEach
      <3> QED BY <2>2, <3>2
    <2> QED BY <2>1, <2>2
  <1>7. /\ tracons' = [tracons EXCEPT ![p] = {d}]
        /\ added' = [added EXCEPT ![c] = added[c] \cup {d}]
        /\ tr_available' \in Int
    <2>1. (IF tracons[p] = {} THEN {Here(c)} ELSE tracons[p]) = {d}
      BY <1>6
    <2>2. /\ tracons' = [tracons EXCEPT ![p] = IF tracons[p] = {} THEN {Here(c)} ELSE tracons[p]]
          /\ added' = [added EXCEPT ![c] =
                          added[c] \cup (IF tracons[p] = {} THEN {Here(c)} ELSE tracons[p])]
      BY <1>1
    <2>3. tr_available' \in Int
      BY <1>1, <1>3
    <2>4. tracons' = [tracons EXCEPT ![p] = {d}]
      BY <2>1, <2>2
    <2>5. added' = [added EXCEPT ![c] = added[c] \cup {d}]
      BY <2>1, <2>2
    <2> QED BY <2>3, <2>4, <2>5
  <1>8. /\ d \in TrEntry /\ d.hash = hash_connectors(c) /\ d.hash = hash_connectors(d)
        /\ d.word = resets /\ Same(c, d) /\ tracons[p] \subseteq {d}
    <2>1. CASE tracons[p] = {}
      <3>1. d = [cs |-> c.cs, shallow |-> c.shallow, word |-> resets, hash |-> hash_connectors(c)]
        BY <1>6, <2>1 DEF Here
      <3>2. d \in TrEntry
        BY <1>5, <3>1 DEF TrEntry, TSInv, TrTypeOK
      <3>3. d.cs = c.cs /\ d.shallow = c.shallow /\ d.word = resets /\ d.hash = hash_connectors(c)
        BY <3>1
      <3> QED BY <2>1, <3>2, <3>3 DEF Same, hash_connectors
    <2>2. CASE tracons[p] # {}
      <3>1. tracons[p] = {d} /\ d \in Contents(tracons)
        BY <1>4, <1>6, <2>2, InContents
      <3>2. d \in TrEntry /\ d.hash = hash_connectors(c) /\ Same(d, c)
        BY <1>3, <1>4, <3>1
      <3>3. d.hash = hash_connectors(d) /\ d.word = resets
        BY <3>1 DEF TSInv, TrEntries, TrKnown
      <3> QED BY <3>1, <3>2, <3>3 DEF Same
    <2> QED BY <2>1, <2>2
  (* No other entry is the same: the search for it would have ended in its  *)
  (* slot.                                                                  *)
  <1>9. ASSUME NEW e \in Contents(tracons), Same(d, e) PROVE e = d
    <2>1. PICK q \in DOMAIN tracons : e \in tracons[q]
      BY InContents
    <2>2. e.hash = hash_connectors(e)
      BY DEF TSInv, TrEntries, TrKnown
    <2>3. e \in TrEntry /\ e.shallow \in BOOLEAN /\ d.shallow \in BOOLEAN /\ shallow \in BOOLEAN
      BY <1>3, <1>8, <2>1 DEF TrEntry, TSInv, TrTypeOK
    <2>4. e.hash = hash_connectors(c)
      BY <1>8, <1>9, <2>2, <2>3 DEF Same, hash_connectors
    <2>5. Same(e, c)
      BY <1>8, <1>9 DEF Same
    <2>6. TraconEnds(e, e.hash, tracons) = TraconEnds(c, hash_connectors(c), tracons)
      BY <2>4, <2>5 DEF TraconEnds, Same
    <2>7. q \in TraconPlace(c, hash_connectors(c))
      BY <1>3, <2>1, <2>4, <2>6 DEF TrReached, TraconPlace
    <2>8. s_prime[tr_prime] \in Nat
      BY SizesAssumption DEF TSInv, TrTypeOK
    <2>9. q = p
      BY <2>7, <2>8, OnePlace DEF TraconPlace
    <2> QED BY <1>8, <2>1, <2>9
  <1>10. /\ tracons' \in [P -> SUBSET TrEntry] /\ OneEach(tracons')
         /\ Contents(tracons') = Contents(tracons) \cup {d}
    <2>1. tracons' \in [P -> SUBSET TrEntry]
      BY <1>3, <1>4, <1>7, <1>8
    <2>2. OneEach(tracons') /\ Contents(tracons') = Contents(tracons) \cup {d}
      BY <1>3, <1>4, <1>7, <1>8, PutContents
    <2> QED BY <2>1, <2>2
  <1>11. TrReached([tracons EXCEPT ![p] = {d}], s_prime[tr_prime])
    <2>1. TraconEnds(d, d.hash, tracons) = TraconEnds(c, hash_connectors(c), tracons)
      BY <1>8 DEF TraconEnds, Same
    <2>2. p \in FirstPlace(d.hash, s_prime[tr_prime], TraconEnds(d, d.hash, tracons))
      BY <1>8, <2>1 DEF TraconPlace
    <2> HIDE DEF P
    <2> QED BY <1>3, <1>8, <1>9, <2>2, TrPutReached
  <1>12. TrKnown' = TrKnown \cup {d}
    BY <1>2, <1>10 DEF TrKnown
  <1>13. TrTypeOK'
    <2>1. added' \in [TraconsUsed -> SUBSET TrEntry]
      BY <1>3, <1>7, <1>8
    <2>2. tracons' \in [Places(tr_prime') -> SUBSET TrEntry]
      BY <1>2, <1>10
    <2> QED BY <1>2, <1>7, <2>1, <2>2 DEF TSInv, TrTypeOK
  <1>14. TrTables'
    <2>1. TrReached(tracons, s_prime[tr_prime])'
      BY <1>2, <1>7, <1>11, TrReachedStays
    <2> QED BY <1>2, <1>10, <2>1 DEF TSInv, TrTables
  <1>15. TrEntries'
    <2>1. \A e \in TrKnown' : e.hash = hash_connectors(e) /\ e.word = resets
      BY <1>8, <1>12 DEF TSInv, TrEntries
    <2>2. \A e \in TrKnown : Same(d, e) \/ Same(e, d) => e = d
      BY <1>2, <1>9 DEF TrKnown, Same
    <2>3. \A e, f \in TrKnown' : Same(e, f) => e = f
      BY <1>12, <2>2 DEF TSInv, TrEntries
    <2>4. \A b \in TraconsUsed : \A e \in added'[b] : e \in TrKnown' /\ Same(b, e)
      BY <1>3, <1>7, <1>8, <1>12 DEF TSInv, TrEntries
    <2>5. shallow' = shallow /\ resets' = resets
      BY <1>2
    <2> QED BY <2>1, <2>3, <2>4, <2>5 DEF TrEntries, Same, hash_connectors
  <1> QED BY <1>13, <1>14, <1>15 DEF TSInv

LEMMA TrReset ==
  ASSUME TSInv, Reset
  PROVE  TSInv'
  <1>1. /\ tracons' = NoEntries(tr_prime) /\ resets' = resets + 1
        /\ tr_available' = MAX_TRACON_SET_TABLE_SIZE(s_prime[tr_prime])
        /\ added' = [c \in TraconsUsed |-> {}]
        /\ UNCHANGED <<shallow, tr_old, tr_prime, waiting>> /\ Contents(tr_old) = {}
    BY DEF Reset, TraconsMoving
  <1>2. /\ tracons' \in [Places(tr_prime') -> SUBSET TrEntry]
        /\ OneEach(tracons') /\ Contents(tracons') = {}
    BY <1>1, EmptyTable
  <1>3. tr_available' \in Int
    <2>1. s_prime[tr_prime] \in Nat
      BY SizesAssumption DEF TSInv, TrTypeOK
    <2> QED BY <1>1, <2>1 DEF MAX_TRACON_SET_TABLE_SIZE
  <1>4. TrTypeOK'
    BY <1>1, <1>2, <1>3 DEF TSInv, TrTypeOK
  <1>5. TrTables'
    <2>1. TrReached(tracons, s_prime[tr_prime])'
      BY <1>1 DEF TrReached, NoEntries
    <2> QED BY <1>1, <1>2, <2>1 DEF TSInv, TrTables
  <1>6. TrKnown' = {}
    BY <1>1, <1>2 DEF TrKnown
  <1>7. TrEntries'
    BY <1>1, <1>6 DEF TrEntries
  <1> QED BY <1>4, <1>5, <1>7 DEF TSInv

(* The invariant of a tracon set. *)
THEOREM TraconSetCorrect == TSSpec => []TSInv
  <1>1. ASSUME TSInv, [TSNext]_tsvars PROVE TSInv'
    <2>1. CASE UNCHANGED tsvars
      <3>1. TrKnown' = TrKnown
        BY <2>1 DEF tsvars, TrKnown
      <3>2. TrTypeOK'
        BY <1>1, <2>1 DEF tsvars, TSInv, TrTypeOK
      <3>3. TrTables'
        <4>1. tracons' = tracons /\ tr_old' = tr_old /\ tr_prime' = tr_prime /\ shallow' = shallow
          BY <2>1 DEF tsvars
        <4>2. TrReached(tracons, s_prime[tr_prime])'
          BY <1>1, <4>1, TrReachedStays DEF TSInv, TrTables
        <4> QED BY <1>1, <4>1, <4>2 DEF TSInv, TrTables
      <3>4. TrEntries'
        BY <1>1, <2>1, <3>1 DEF tsvars, TSInv, TrEntries, Same, hash_connectors
      <3> QED BY <3>2, <3>3, <3>4 DEF TSInv
    <2>2. CASE TSNext
      BY <1>1, <2>2, TrGrow, TrAdd, TrMove, TrReset DEF TSNext
    <2> QED BY <1>1, <2>1, <2>2
  <1> QED BY <1>1, TrInit, PTL DEF TSSpec

(* tracon_set_add() hands out the first tracon added that is the same, of  *)
(* the same word, and no other, whatever collides and however often the    *)
(* table grows or is cleared.                                              *)
THEOREM TraconsShared == TSSpec => []SharesSame
  BY TraconSetCorrect, TrProperty, PTL

-----------------------------------------------------------------------------
LEMMA TrRefineInit == TSInit => Shared!Init
  <1> SUFFICES ASSUME TSInit PROVE Shared!Init
    OBVIOUS
  <1> DEFINE like == {p \in TraconsUsed \X TraconsUsed : Same(p[1], p[2])}
  <1>1. /\ like \subseteq TraconsUsed \X TraconsUsed
        /\ \A c, d \in TraconsUsed : <<c, d>> \in like <=> Same(c, d)
    OBVIOUS
  <1>2. \A c, d, e \in TraconsUsed : Same(c, c) /\ (Same(c, d) /\ Same(c, e) => Same(d, e))
    BY DEF Same
  <1> HIDE DEF like
  <1>3. /\ \A c \in TraconsUsed : <<c, c>> \in like
        /\ \A c, d, e \in TraconsUsed : <<c, d>> \in like /\ <<c, e>> \in like => <<d, e>> \in like
    BY <1>1, <1>2
  <1> QED BY <1>1, <1>3 DEF TSInit, Shared!Init, Shared!Nobody, like

LEMMA TrRefineNext ==
  ASSUME TSInv, SharesSame', [TSNext]_tsvars
  PROVE  [Shared!Next]_(Shared!vars)
  <1> DEFINE like == {p \in TraconsUsed \X TraconsUsed : Same(p[1], p[2])}
  <1>1. shallow' = shallow
    BY DEF TSNext, GrowFor, AddTracon, MoveTracon, Reset, tsvars
  <1>2. like' = like
    BY <1>1 DEF Same
  <1>3. CASE UNCHANGED added
    BY <1>2, <1>3 DEF Shared!vars
  <1>4. CASE Reset
    BY <1>2, <1>4 DEF Reset, Shared!Next, Shared!Forget, Shared!Nobody
  <1>5. CASE \E c \in TraconsUsed : AddTracon(c)
    <2>1. PICK c \in TraconsUsed : AddTracon(c)
      BY <1>5
    <2>2. PICK p \in TraconPlace(c, hash_connectors(c)) :
            added' = [added EXCEPT ![c] = added[c] \cup (IF tracons[p] = {} THEN {Here(c)} ELSE tracons[p])]
      BY <2>1 DEF AddTracon
    <2>3. PICK e : added' = [added EXCEPT ![c] = added[c] \cup {e}]
      <3>1. CASE tracons[p] = {}
        BY <2>2, <3>1
      <3>2. CASE tracons[p] # {}
        <4>1. p \in DOMAIN tracons
          BY PlaceEnds DEF TraconPlace, TraconEnds
        <4>2. PICK e : tracons[p] = {e}
          BY <3>2, <4>1 DEF TSInv, TrTables, OneEach
        <4> QED BY <2>2, <3>2, <4>2
      <3> QED BY <3>1, <3>2
    <2>4. added \in [TraconsUsed -> SUBSET TrEntry]
      BY DEF TSInv, TrTypeOK
    <2>5. e \in added'[c] /\ \A d \in TraconsUsed : added[d] \subseteq added'[d]
      BY <2>3, <2>4
    <2>6. ASSUME NEW d \in TraconsUsed, NEW g \in added[d]
          PROVE  e = g <=> <<c, d>> \in like
      <3>1. g \in added'[d] /\ added'[d] = {g}
        BY <2>5 DEF SharesSame
      <3>2. e \in added'[d] <=> Same(c, d)
        BY <1>1, <2>5, <3>1 DEF SharesSame, Same
      <3> QED BY <3>1, <3>2
    <2> HIDE DEF like
    <2>7. Shared!Intern(c)
      BY <1>2, <2>3, <2>5, <2>6 DEF Shared!Intern, like
    <2> QED BY <2>7 DEF Shared!Next
  <1> QED BY <1>3, <1>4, <1>5 DEF TSNext, tsvars, GrowFor, MoveTracon

(* The tracon set does what Interning says, with the tracons of a word,    *)
(* for any tracons, hashes and sizes, and through every growth: two users  *)
(* share one exactly if theirs are the same.                               *)
THEOREM TraconSetRefines == TSSpec => TraconsInterned
  <1>1. TSInv /\ SharesSame' /\ [TSNext]_tsvars => [Shared!Next]_(Shared!vars)
    BY TrRefineNext
  <1> QED BY <1>1, TrRefineInit, TraconSetCorrect, TraconsShared, PTL
          DEF TSSpec, TraconsInterned, Shared!Spec
=============================================================================
