----------------------------- MODULE AtomeseProofs -----------------------------
(***************************************************************************)
(* Proofs about Atomese: threads that share the dictionary never give a    *)
(* link two names, each opening of the dictionary gives a name to at most  *)
(* one link, and a thread that has looked up its words has a number for    *)
(* each of its connectors.                                                 *)
(*                                                                         *)
(* The argument: within one opening of the dictionary names and connectors *)
(* are only added.  What a thread carries, and what is cached, is made of  *)
(* connectors that are in the table already; a list of links that is being *)
(* named is, at every step, split into the links still to do and the links *)
(* that have a name.                                                       *)
(***************************************************************************)
EXTENDS Atomese, FiniteSetTheorems, SequenceTheorems, TLAPS

-----------------------------------------------------------------------------
(* The inductive invariant.                                                *)

(* Connectors in their containers have their names in C.                   *)
PairsIn(ps, C) == \A c \in ps : c[1] \in C
SectsIn(sects, C) == \A x \in sects : \A k \in DOMAIN x : x[k][1] \in C
NodesIn(ns, C) == \A j \in DOMAIN ns : SectsIn(ns[j].sects, C)
ExpsIn(es, C) == \A ps \in es : PairsIn(ps, C)
ListsIn(ls, C) == \A ns \in ls : 1 \in DOMAIN ns /\ NodesIn(ns, C)
ResultIn(r, C) == PairsIn(r.pairs, C) /\ SectsIn(r.sects, C)

IsSeq(s) == s \in Seq({s[j] : j \in DOMAIN s})

(* A thread's own data.                                                    *)
CarriedIn(T, C) ==
  /\ IsSeq(T.result)
  /\ SectsIn(T.exp, C) /\ ListsIn(T.node, C)
  /\ ExpsIn(T.all, C) /\ ExpsIn(T.cpr, C) /\ ExpsIn(T.extras, C)
  /\ \A j \in DOMAIN T.result : ResultIn(T.result[j], C)

(* The links that have a name, and those of the list in work.              *)
Has(N, l) == \E e \in N : e[1] = l
NamedSo(T, N) ==
  /\ T.pc \in {"make pairs", "name pair"} => \A l \in T.conns : l \in T.links \/ Has(N, l)
  /\ T.pc \in {"make sections", "name section"} =>
       \A s \in T.sects : \A k \in DOMAIN s.conns :
         link_of(s.germ, s.conns[k]) \in T.links \/ Has(N, link_of(s.germ, s.conns[k]))

(* The sections in work come from the storage.                             *)
WorkOrdered(T) ==
  T.pc \in {"make sections", "name section"} => \A s \in T.sects : WordOrder(s.conns)

(* The thread is at a word of its sentence.                                *)
NoWord == {"idle", "start", "end", "done"}
AtWord(T) ==
  /\ T.sent \in Seq(Vocabulary)
  /\ T.i \in Nat /\ T.i >= 1
  /\ T.pc # "idle" => Len(T.sent) >= 1
  /\ T.pc \notin NoWord => T.i <= Len(T.sent)

ResultNumbered(T, numbered) ==
  T.pc = "done" => \A j \in DOMAIN T.result : ResultIn(T.result[j], numbered)

Fields ==
  {"pc", "left", "sent", "i", "status", "hit", "ask", "germ", "germs", "sent_words", "links", "link",
   "sects", "exp", "conns", "all", "caller", "cpr", "extras", "node", "result"}

ThreadOK(T, C, N, numbered) ==
  /\ DOMAIN T = Fields
  /\ CarriedIn(T, C) /\ NamedSo(T, N) /\ WorkOrdered(T) /\ AtWord(T) /\ ResultNumbered(T, numbered)

ThreadsOK == \A t \in Threads : ThreadOK(th[t], contable, names, DOMAIN uc_num)

ContentOK(space) ==
  /\ IsFiniteSet(space.sections) /\ IsFiniteSet(space.pairs)
  /\ \A s \in space.sections : WordOrder(s.conns)

SpaceOK ==
  /\ conf \in Settings
  /\ ContentOK(store) /\ ContentOK(asp)
  /\ asp = [words |-> asp.words, sections |-> asp.sections, members |-> asp.members,
            pairs |-> asp.pairs, tagged |-> asp.tagged]
  /\ th = [t \in Threads |-> th[t]]

CacheOK ==
  /\ dict_tree = [w \in Vocabulary |-> dict_tree[w]]
  /\ tail = [w \in Vocabulary |-> tail[w]]
  /\ pair_dict = [w \in Vocabulary |-> pair_dict[w]]
  /\ \A w \in Vocabulary :
       /\ IsSeq(dict_tree[w])
       /\ NodesIn(dict_tree[w], contable)
       /\ ExpsIn(tail[w], contable)
       /\ \A e \in pair_dict[w] : ExpsIn(e, contable)

(* Names are numbers.                                                      *)
Edge(e) == e = <<e[1], e[2]>> /\ e[2] \in Nat
EdgesOK ==
  /\ IsFiniteSet(names) /\ IsFiniteSet(stored) /\ last_id \in Nat
  /\ \A e \in names \cup stored : Edge(e)

NumbersOK ==
  /\ AnyId \in contable /\ contable \subseteq Nat /\ IsFiniteSet(contable)
  /\ DOMAIN uc_num \subseteq contable
  /\ num_uc \in Nat
  /\ \A m \in DOMAIN uc_num : uc_num[m] \in Nat /\ uc_num[m] < num_uc
  /\ \A m, n \in DOMAIN uc_num : uc_num[m] = uc_num[n] => m = n

TableInv == SpaceOK /\ EdgesOK /\ CacheOK /\ NumbersOK /\ ThreadsOK

-----------------------------------------------------------------------------
(* What a step of a thread changes in its record.                          *)
LEMMA UpdatedFields ==
  ASSUME NEW T, NEW r
  PROVE  /\ DOMAIN Updated(T, r) = DOMAIN T
         /\ \A f \in DOMAIN T : Updated(T, r)[f] = IF f \in DOMAIN r THEN r[f] ELSE T[f]
  BY DEF Updated

LEMMA UpdatedAll ==
  ASSUME NEW T, NEW r, DOMAIN T = Fields
  PROVE  LET X == Updated(T, r)
         IN /\ DOMAIN X = Fields
            /\ X.pc = IF "pc" \in DOMAIN r THEN r.pc ELSE T.pc
            /\ X.sent = IF "sent" \in DOMAIN r THEN r.sent ELSE T.sent
            /\ X.i = IF "i" \in DOMAIN r THEN r.i ELSE T.i
            /\ X.links = IF "links" \in DOMAIN r THEN r.links ELSE T.links
            /\ X.sects = IF "sects" \in DOMAIN r THEN r.sects ELSE T.sects
            /\ X.exp = IF "exp" \in DOMAIN r THEN r.exp ELSE T.exp
            /\ X.conns = IF "conns" \in DOMAIN r THEN r.conns ELSE T.conns
            /\ X.all = IF "all" \in DOMAIN r THEN r.all ELSE T.all
            /\ X.cpr = IF "cpr" \in DOMAIN r THEN r.cpr ELSE T.cpr
            /\ X.extras = IF "extras" \in DOMAIN r THEN r.extras ELSE T.extras
            /\ X.node = IF "node" \in DOMAIN r THEN r.node ELSE T.node
            /\ X.result = IF "result" \in DOMAIN r THEN r.result ELSE T.result
  BY DEF Updated, Fields

LEMMA OnlyPcUpdated ==
  ASSUME NEW T, NEW here, DOMAIN T = Fields
  PROVE  LET X == Updated(T, [pc |-> here])
         IN /\ DOMAIN X = Fields /\ X.pc = here /\ X.sent = T.sent /\ X.i = T.i /\ X.links = T.links
            /\ X.sects = T.sects /\ X.exp = T.exp /\ X.conns = T.conns /\ X.all = T.all
            /\ X.cpr = T.cpr /\ X.extras = T.extras /\ X.node = T.node /\ X.result = T.result
<1> DEFINE r == [pc |-> here]
<1>1. DOMAIN r = {"pc"} /\ r.pc = here
  OBVIOUS
<1> HIDE DEF r
<1>2. LET X == Updated(T, r)
      IN /\ DOMAIN X = Fields /\ X.pc = here /\ X.sent = T.sent /\ X.i = T.i /\ X.links = T.links
         /\ X.sects = T.sects /\ X.exp = T.exp /\ X.conns = T.conns /\ X.all = T.all
         /\ X.cpr = T.cpr /\ X.extras = T.extras /\ X.node = T.node /\ X.result = T.result
  BY <1>1, UpdatedAll
<1> QED BY <1>2 DEF r

(* More connectors, names and numbers do no harm.                          *)
LEMMA InMore ==
  ASSUME NEW T, NEW C, NEW N, NEW D, NEW C2, NEW N2, NEW D2, ThreadOK(T, C, N, D),
         C \subseteq C2, N \subseteq N2, D \subseteq D2
  PROVE  ThreadOK(T, C2, N2, D2)
<1>1. CarriedIn(T, C2)
  BY DEF ThreadOK, CarriedIn, SectsIn, ListsIn, NodesIn, ExpsIn, PairsIn, ResultIn
<1>2. NamedSo(T, N2)
  BY DEF ThreadOK, NamedSo, Has
<1>3. ResultNumbered(T, D2)
  BY DEF ThreadOK, ResultNumbered, ResultIn, PairsIn, SectsIn
<1> QED BY <1>1, <1>2, <1>3 DEF ThreadOK

(* A step that leaves the thread's expressions and lists alone.            *)
Work == {"sent", "links", "sects", "exp", "conns", "all", "cpr", "extras", "node", "result"}
Special == {"idle", "make pairs", "name pair", "make sections", "name section", "done"}

QuietChange(T, r) ==
  /\ DOMAIN r \cap Work = {} /\ "pc" \in DOMAIN r /\ r.pc \notin Special /\ T.pc # "idle"
  /\ "i" \in DOMAIN r => r.i \in Nat /\ r.i >= 1
  /\ r.pc \notin NoWord => IF "i" \in DOMAIN r THEN r.i <= Len(T.sent) ELSE T.i <= Len(T.sent)

LEMMA QuietStep ==
  ASSUME NEW T, NEW r, NEW C, NEW N, NEW D, ThreadOK(T, C, N, D), QuietChange(T, r)
  PROVE  ThreadOK(Updated(T, r), C, N, D)
<1> DEFINE X == Updated(T, r)
<1>0. DOMAIN T = Fields
  BY DEF ThreadOK
<1>1. /\ DOMAIN X = Fields /\ X.pc = r.pc /\ X.sent = T.sent /\ X.links = T.links /\ X.sects = T.sects
      /\ X.exp = T.exp /\ X.conns = T.conns /\ X.all = T.all /\ X.cpr = T.cpr
      /\ X.extras = T.extras /\ X.node = T.node /\ X.result = T.result
  BY <1>0, UpdatedAll DEF Work, QuietChange
<1>2. X.i = IF "i" \in DOMAIN r THEN r.i ELSE T.i
  BY <1>0, UpdatedAll
<1> HIDE DEF X
<1>3. CarriedIn(X, C)
  BY <1>1 DEF ThreadOK, CarriedIn
<1>4. NamedSo(X, N) /\ WorkOrdered(X) /\ ResultNumbered(X, D)
  BY <1>1 DEF ThreadOK, NamedSo, WorkOrdered, ResultNumbered, Special, QuietChange
<1>5. AtWord(X)
  BY <1>1, <1>2 DEF ThreadOK, AtWord, NoWord, QuietChange
<1> QED BY <1>1, <1>3, <1>4, <1>5 DEF ThreadOK, X

(* One thread moves; the others stay as they were.                         *)
Grows == contable \subseteq contable' /\ names \subseteq names' /\ DOMAIN uc_num \subseteq DOMAIN uc_num'

LEMMA OneMoves ==
  ASSUME NEW t \in Threads, NEW r, TableInv, Become(t, r), Grows,
         ThreadOK(Updated(th[t], r), contable', names', DOMAIN uc_num')
  PROVE  ThreadsOK' /\ th' = [u \in Threads |-> th'[u]]
<1>1. th = [u \in Threads |-> th[u]]
  BY DEF TableInv, SpaceOK
<1>2. th' = [u \in Threads |-> th'[u]] /\ th'[t] = Updated(th[t], r) /\ \A u \in Threads \ {t} : th'[u] = th[u]
  BY <1>1 DEF Become
<1>3. ASSUME NEW u \in Threads PROVE ThreadOK(th'[u], contable', names', DOMAIN uc_num')
  <2>1. ThreadOK(th[u], contable, names, DOMAIN uc_num)
    BY DEF TableInv, ThreadsOK
  <2>2. ThreadOK(th[u], contable', names', DOMAIN uc_num')
    BY <2>1, InMore DEF Grows
  <2> QED BY <1>2, <2>2
<1> QED BY <1>2, <1>3 DEF ThreadsOK

-----------------------------------------------------------------------------
(* The quiet steps: asking whether the dictionary has a word.              *)
AtomShape(space) ==
  space = [words |-> space.words, sections |-> space.sections, members |-> space.members,
           pairs |-> space.pairs, tagged |-> space.tagged]

LEMMA QuietAction ==
  ASSUME NEW t \in Threads, NEW r, TableInv, Become(t, r), QuietChange(th[t], r),
         UNCHANGED <<conf, store, dict_tree, tail, pair_dict, connectors>>,
         names \subseteq names', EdgesOK', ContentOK(asp'), AtomShape(asp')
  PROVE  TableInv'
<1>1. ThreadOK(th[t], contable, names, DOMAIN uc_num)
  BY DEF TableInv, ThreadsOK
<1>2. ThreadOK(Updated(th[t], r), contable, names, DOMAIN uc_num)
  BY <1>1, QuietStep
<1>3. /\ contable' = contable /\ uc_num' = uc_num /\ num_uc' = num_uc
      /\ dict_tree' = dict_tree /\ tail' = tail /\ pair_dict' = pair_dict
  BY DEF connectors
<1>4. Grows
  BY <1>3 DEF Grows
<1>5. ThreadOK(Updated(th[t], r), contable', names', DOMAIN uc_num')
  BY <1>2, <1>3, <1>4, InMore DEF Grows
<1>6. ThreadsOK' /\ th' = [u \in Threads |-> th'[u]]
  BY <1>4, <1>5, OneMoves
<1>7. SpaceOK'
  BY <1>6 DEF TableInv, SpaceOK, AtomShape
<1>8. CacheOK'
  <2>1. CacheOK
    BY DEF TableInv
  <2> QED BY ONLY <1>3, <2>1 DEF CacheOK
<1>9. NumbersOK'
  <2>1. NumbersOK
    BY DEF TableInv
  <2> QED BY ONLY <1>3, <2>1 DEF NumbersOK
<1> QED BY <1>6, <1>7, <1>8, <1>9 DEF TableInv

(* Parts of the invariant that the steps below use.                        *)
LEMMA AtItsWord ==
  ASSUME NEW t \in Threads, TableInv, th[t].pc \notin NoWord
  PROVE  /\ th[t].i \in 1..Len(th[t].sent) /\ th[t].i \in Nat /\ Len(th[t].sent) \in Nat
         /\ word(t) \in Vocabulary
         /\ th[t].pc # "idle"
<1>1. AtWord(th[t])
  BY DEF TableInv, ThreadsOK, ThreadOK
<1> QED BY <1>1 DEF AtWord, word, NoWord

LEMMA AnsweredQuietly ==
  ASSUME NEW t \in Threads, TableInv, th[t].pc \notin NoWord, NEW found
  PROVE  QuietChange(th[t], Answered(t, found))
<1> DEFINE r == Answered(t, found)
<1>1. /\ DOMAIN r = {"status", "hit", "i", "pc"} /\ r.i = th[t].i + 1
      /\ r.pc = IF th[t].i = Len(th[t].sent) THEN "start" ELSE "exists"
  BY DEF Answered
<1>2. th[t].i \in 1..Len(th[t].sent) /\ Len(th[t].sent) \in Nat /\ th[t].pc # "idle"
  BY AtItsWord
<1> HIDE DEF r
<1>3. QuietChange(th[t], r)
  BY <1>1, <1>2 DEF QuietChange, Work, Special, NoWord
<1> QED BY <1>3 DEF r

(* A change of the program counter alone, at the same word.                *)
LEMMA StaysQuietly ==
  ASSUME NEW t \in Threads, TableInv, th[t].pc \notin NoWord, NEW r,
         DOMAIN r \cap (Work \cup {"i"}) = {}, "pc" \in DOMAIN r, r.pc \notin Special
  PROVE  QuietChange(th[t], r)
<1>1. th[t].i \in 1..Len(th[t].sent) /\ th[t].pc # "idle"
  BY AtItsWord
<1> QED BY <1>1 DEF QuietChange

LEMMA OnlyPc ==
  ASSUME NEW t \in Threads, TableInv, th[t].pc \notin NoWord, NEW here, here \notin Special
  PROVE  QuietChange(th[t], [pc |-> here])
<1> DEFINE r == [pc |-> here]
<1>1. DOMAIN r = {"pc"} /\ r.pc = here
  OBVIOUS
<1> HIDE DEF r
<1>2. QuietChange(th[t], r)
  BY <1>1, StaysQuietly DEF Work
<1> QED BY <1>2 DEF r

LEMMA BooleanLookup ==
  ASSUME NEW t \in Threads, TableInv, as_boolean_lookup(t)
  PROVE  TableInv'
<1>1. th[t].pc \notin NoWord
  BY DEF as_boolean_lookup, At, NoWord
<1>2. QuietChange(th[t], [pc |-> "sections", germ |-> word(t), ask |-> "sections"])
  <2> DEFINE r == [pc |-> "sections", germ |-> word(t), ask |-> "sections"]
  <2>1. DOMAIN r = {"pc", "germ", "ask"} /\ r.pc = "sections"
    OBVIOUS
  <2> HIDE DEF r
  <2>2. QuietChange(th[t], r)
    BY <1>1, <2>1, StaysQuietly DEF Work, Special
  <2> QED BY <2>2 DEF r
<1>3. QuietChange(th[t], [pc |-> "have_pword"])
  BY <1>1, OnlyPc DEF Special
<1>4. \A found : QuietChange(th[t], Answered(t, found))
  BY <1>1, AnsweredQuietly
<1>5. PICK r : Become(t, r) /\ QuietChange(th[t], r)
  BY <1>2, <1>3, <1>4 DEF as_boolean_lookup
<1>6. UNCHANGED <<setting, shared>>
  BY DEF as_boolean_lookup
<1> QED BY <1>5, <1>6, QuietAction DEF TableInv, SpaceOK, AtomShape, EdgesOK, setting, shared, issued, caches

(* What arrives from the storage is finite, with connectors in order.      *)
LEMMA SectionsArrive ==
  ASSUME ContentOK(asp), ContentOK(store), AtomShape(asp), NEW x, NEW g,
         x \subseteq asp.sections \cup SectionsOf(store, g), asp' = [asp EXCEPT !.sections = x]
  PROVE  ContentOK(asp') /\ AtomShape(asp')
<1>1. x \subseteq asp.sections \cup store.sections
  BY DEF SectionsOf
<1>2. IsFiniteSet(asp.sections \cup store.sections)
  BY FS_Union DEF ContentOK
<1>3. IsFiniteSet(x)
  BY <1>1, <1>2, FS_Subset
<1>4. /\ asp'.words = asp.words /\ asp'.sections = x /\ asp'.members = asp.members
      /\ asp'.pairs = asp.pairs /\ asp'.tagged = asp.tagged /\ AtomShape(asp')
  BY DEF AtomShape
<1> QED BY <1>1, <1>3, <1>4 DEF ContentOK

LEMMA PairsArrive ==
  ASSUME ContentOK(asp), ContentOK(store), AtomShape(asp), NEW x, NEW g,
         x \subseteq asp.pairs \cup PairsOf(store, g), asp' = [asp EXCEPT !.pairs = x]
  PROVE  ContentOK(asp') /\ AtomShape(asp')
<1>1. x \subseteq asp.pairs \cup store.pairs
  BY DEF PairsOf
<1>2. IsFiniteSet(asp.pairs \cup store.pairs)
  BY FS_Union DEF ContentOK
<1>3. IsFiniteSet(x)
  BY <1>1, <1>2, FS_Subset
<1>4. /\ asp'.words = asp.words /\ asp'.sections = asp.sections /\ asp'.members = asp.members
      /\ asp'.pairs = x /\ asp'.tagged = asp.tagged /\ AtomShape(asp')
  BY DEF AtomShape
<1> QED BY <1>3, <1>4 DEF ContentOK

LEMMA OthersArrive ==
  ASSUME ContentOK(asp), AtomShape(asp), NEW x,
         \/ asp' = [asp EXCEPT !.words = x] \/ asp' = [asp EXCEPT !.members = x]
         \/ asp' = [asp EXCEPT !.tagged = x] \/ asp' = asp
  PROVE  ContentOK(asp') /\ AtomShape(asp')
<1>1. asp'.sections = asp.sections /\ asp'.pairs = asp.pairs /\ AtomShape(asp')
  BY DEF AtomShape
<1> QED BY <1>1 DEF ContentOK

LEMMA SpaceParts ==
  ASSUME TableInv
  PROVE  ContentOK(asp) /\ ContentOK(store) /\ AtomShape(asp) /\ EdgesOK /\ conf \in Settings
  BY DEF TableInv, SpaceOK, AtomShape

LEMMA CountedQuietly ==
  ASSUME NEW t \in Threads, TableInv, th[t].pc \notin NoWord, NEW n
  PROVE  QuietChange(th[t], Counted(t, n))
<1> DEFINE r == Counted(t, n)
<1>1. DOMAIN r = {"hit", "pc"} /\ r.pc \in {"members", "class"}
  BY DEF Counted
<1> HIDE DEF r
<1>2. QuietChange(th[t], r)
  BY <1>1, StaysQuietly DEF Work, Special
<1> QED BY <1>2 DEF r

LEMMA CountSections ==
  ASSUME NEW t \in Threads, TableInv, count_sections(t)
  PROVE  TableInv'
<1>1. th[t].pc \notin NoWord
  BY DEF count_sections, At, NoWord
<1>2. \A n : QuietChange(th[t], Counted(t, n))
  BY <1>1, CountedQuietly
<1>3. QuietChange(th[t], [pc |-> "fetch sections"])
  BY <1>1, OnlyPc DEF Special
<1>4. PICK r : Become(t, r) /\ QuietChange(th[t], r)
  BY <1>2, <1>3 DEF count_sections
<1>5. asp' = [asp EXCEPT !.words = asp.words \cup {word(t)}]
  BY DEF count_sections
<1>6. UNCHANGED <<setting, issued, caches, connectors>>
  BY DEF count_sections
<1>7. ContentOK(asp') /\ AtomShape(asp')
  BY <1>5, SpaceParts, OthersArrive
<1>8. EdgesOK' /\ names \subseteq names'
  BY <1>6, SpaceParts DEF EdgesOK, issued
<1> QED BY <1>4, <1>6, <1>7, <1>8, QuietAction DEF setting, caches

LEMMA SectionsFetched ==
  ASSUME NEW t \in Threads, TableInv, FetchSections(t)
  PROVE  TableInv'
<1>1. th[t].pc \notin NoWord
  BY DEF FetchSections, At, NoWord
<1>2. \A n : QuietChange(th[t], Counted(t, n))
  BY <1>1, CountedQuietly
<1>3. QuietChange(th[t], [pc |-> "sections barrier"])
  BY <1>1, OnlyPc DEF Special
<1>4. PICK r : Become(t, r) /\ QuietChange(th[t], r)
  BY <1>2, <1>3 DEF FetchSections
<1>5. PICK x : /\ x \subseteq asp.sections \cup SectionsOf(store, th[t].germ)
               /\ asp' = [asp EXCEPT !.sections = x]
  BY DEF FetchSections, Arrives
<1>6. UNCHANGED <<setting, issued, caches, connectors>>
  BY DEF FetchSections
<1>7. ContentOK(asp') /\ AtomShape(asp')
  BY <1>5, SpaceParts, SectionsArrive
<1>8. EdgesOK' /\ names \subseteq names'
  BY <1>6, SpaceParts DEF EdgesOK, issued
<1> QED BY <1>4, <1>6, <1>7, <1>8, QuietAction DEF setting, caches

LEMMA MembersFetched ==
  ASSUME NEW t \in Threads, TableInv, Members(t)
  PROVE  TableInv'
<1>1. th[t].pc \notin NoWord
  BY DEF Members, At, NoWord
<1>2. ASSUME NEW g PROVE QuietChange(th[t], [pc |-> "class", germs |-> g])
  <2> DEFINE r == [pc |-> "class", germs |-> g]
  <2>1. DOMAIN r = {"pc", "germs"} /\ r.pc = "class"
    OBVIOUS
  <2> HIDE DEF r
  <2>2. QuietChange(th[t], r)
    BY <1>1, <2>1, StaysQuietly DEF Work, Special
  <2> QED BY <2>2 DEF r
<1>3. QuietChange(th[t], [pc |-> "members barrier"])
  BY <1>1, OnlyPc DEF Special
<1>4. PICK r : Become(t, r) /\ QuietChange(th[t], r)
  BY <1>2, <1>3 DEF Members
<1>5. asp' = asp \/ \E x : asp' = [asp EXCEPT !.members = x]
  BY DEF Members
<1>6. UNCHANGED <<setting, issued, caches, connectors>>
  BY DEF Members
<1>7. ContentOK(asp') /\ AtomShape(asp')
  BY <1>5, SpaceParts, OthersArrive
<1>8. EdgesOK' /\ names \subseteq names'
  BY <1>6, SpaceParts DEF EdgesOK, issued
<1> QED BY <1>4, <1>6, <1>7, <1>8, QuietAction DEF setting, caches

LEMMA NextClassStep ==
  ASSUME NEW t \in Threads, TableInv, NextClass(t)
  PROVE  TableInv'
<1>1. th[t].pc \notin NoWord
  BY DEF NextClass, At, NoWord
<1>2. ASSUME NEW c, NEW g, NEW here \in {"sections", "tag"}
      PROVE  QuietChange(th[t], [germ |-> c, germs |-> g, pc |-> here])
  <2> DEFINE r == [germ |-> c, germs |-> g, pc |-> here]
  <2>1. DOMAIN r = {"pc", "germ", "germs"} /\ r.pc = here
    OBVIOUS
  <2> HIDE DEF r
  <2>2. QuietChange(th[t], r)
    BY <1>1, <2>1, StaysQuietly DEF Work, Special
  <2> QED BY <2>2 DEF r
<1>3. QuietChange(th[t], [pc |-> "no pairs"]) /\ QuietChange(th[t], [pc |-> "have_pword"])
  BY <1>1, OnlyPc DEF Special
<1>4. \A found : QuietChange(th[t], Answered(t, found))
  BY <1>1, AnsweredQuietly
<1>5. PICK r : Become(t, r) /\ QuietChange(th[t], r)
  BY <1>2, <1>3, <1>4 DEF NextClass
<1>6. UNCHANGED <<setting, shared>>
  BY DEF NextClass
<1>7. EdgesOK'
  BY <1>6, SpaceParts DEF EdgesOK, issued, shared
<1> QED BY <1>5, <1>6, <1>7, SpaceParts, QuietAction DEF setting, shared, issued, caches

LEMMA PairLookup ==
  ASSUME NEW t \in Threads, TableInv, pair_boolean_lookup(t)
  PROVE  TableInv'
<1>1. th[t].pc \notin NoWord
  BY DEF pair_boolean_lookup, At, NoWord
<1>2. QuietChange(th[t], [pc |-> "tag", germ |-> word(t), ask |-> "pairs"])
  <2> DEFINE r == [pc |-> "tag", germ |-> word(t), ask |-> "pairs"]
  <2>1. DOMAIN r = {"pc", "germ", "ask"} /\ r.pc = "tag"
    OBVIOUS
  <2> HIDE DEF r
  <2>2. QuietChange(th[t], r)
    BY <1>1, <2>1, StaysQuietly DEF Work, Special
  <2> QED BY <2>2 DEF r
<1>3. \A found : QuietChange(th[t], Answered(t, found))
  BY <1>1, AnsweredQuietly
<1>4. PICK r : Become(t, r) /\ QuietChange(th[t], r)
  <2>1. CASE word(t) \in DOMAIN have_pword
    BY <1>3, <2>1 DEF pair_boolean_lookup
  <2>2. CASE word(t) \notin DOMAIN have_pword
    BY <1>2, <2>2 DEF pair_boolean_lookup
  <2> QED BY <2>1, <2>2
<1>5. asp' = [asp EXCEPT !.words = asp.words \cup {word(t)}]
  BY DEF pair_boolean_lookup
<1>6. UNCHANGED <<setting, issued, caches, connectors>>
  BY DEF pair_boolean_lookup
<1>7. ContentOK(asp') /\ AtomShape(asp')
  BY <1>5, SpaceParts, OthersArrive
<1>8. EdgesOK' /\ names \subseteq names'
  BY <1>6, SpaceParts DEF EdgesOK, issued
<1> QED BY <1>4, <1>6, <1>7, <1>8, QuietAction DEF setting, caches

LEMMA NeedPairFetch ==
  ASSUME NEW t \in Threads, TableInv, need_pair_fetch(t)
  PROVE  TableInv'
<1>1. th[t].pc \notin NoWord
  BY DEF need_pair_fetch, At, NoWord
<1>2. QuietChange(th[t], [pc |-> "fetch pairs"]) /\ QuietChange(th[t], [pc |-> "pairs"])
  BY <1>1, OnlyPc DEF Special
<1>3. PICK r : Become(t, r) /\ QuietChange(th[t], r)
  BY <1>2 DEF need_pair_fetch
<1>4. asp' = asp \/ \E x : asp' = [asp EXCEPT !.tagged = x]
  BY DEF need_pair_fetch
<1>5. UNCHANGED <<setting, issued, caches, connectors>>
  BY DEF need_pair_fetch
<1>6. ContentOK(asp') /\ AtomShape(asp')
  BY <1>4, SpaceParts, OthersArrive
<1>7. EdgesOK' /\ names \subseteq names'
  BY <1>5, SpaceParts DEF EdgesOK, issued
<1> QED BY <1>3, <1>5, <1>6, <1>7, QuietAction DEF setting, caches

LEMMA PairsFetched ==
  ASSUME NEW t \in Threads, TableInv, fetch_pairs(t)
  PROVE  TableInv'
<1>1. th[t].pc \notin NoWord
  BY DEF fetch_pairs, At, NoWord
<1>2. QuietChange(th[t], [pc |-> "pairs barrier"]) /\ QuietChange(th[t], [pc |-> "pairs"])
  BY <1>1, OnlyPc DEF Special
<1>3. PICK r : Become(t, r) /\ QuietChange(th[t], r)
  BY <1>2 DEF fetch_pairs
<1>4. PICK x : /\ x \subseteq asp.pairs \cup PairsOf(store, th[t].germ)
               /\ asp' = [asp EXCEPT !.pairs = x]
  BY DEF fetch_pairs, Arrives
<1>5. names \subseteq names' /\ names' \subseteq names \cup stored
  BY DEF fetch_pairs, Edges
<1>6. UNCHANGED <<setting, stored, last_id, caches, connectors>>
  BY DEF fetch_pairs
<1>7. ContentOK(asp') /\ AtomShape(asp')
  BY <1>4, SpaceParts, PairsArrive
<1>8. EdgesOK'
  <2>1. EdgesOK
    BY SpaceParts
  <2>2. IsFiniteSet(names')
    BY <1>5, <2>1, FS_Union, FS_Subset DEF EdgesOK
  <2> QED BY <1>5, <1>6, <2>1, <2>2 DEF EdgesOK
<1> QED BY <1>3, <1>5, <1>6, <1>7, <1>8, QuietAction DEF setting, caches

LEMMA HavePairs ==
  ASSUME NEW t \in Threads, TableInv, have_pairs(t)
  PROVE  TableInv'
<1>1. th[t].pc \notin NoWord
  BY DEF have_pairs, At, NoWord
<1>2. \A here \in {"found", "members", "class"} : QuietChange(th[t], [pc |-> here])
  BY <1>1, OnlyPc DEF Special
<1>3. PICK r : Become(t, r) /\ QuietChange(th[t], r)
  BY <1>2 DEF have_pairs
<1>4. UNCHANGED <<setting, shared>>
  BY DEF have_pairs
<1>5. EdgesOK'
  BY <1>4, SpaceParts DEF EdgesOK, issued, shared
<1> QED BY <1>3, <1>4, <1>5, SpaceParts, QuietAction DEF setting, shared, issued, caches

LEMMA InsertPword ==
  ASSUME NEW t \in Threads, TableInv, insert_pword(t)
  PROVE  TableInv'
<1>1. th[t].pc \notin NoWord
  BY DEF insert_pword, At, NoWord
<1>2. \A found : QuietChange(th[t], Answered(t, found))
  BY <1>1, AnsweredQuietly
<1>3. PICK r : Become(t, r) /\ QuietChange(th[t], r)
  BY <1>2 DEF insert_pword
<1>4. UNCHANGED <<setting, asp, issued, dict_tree, tail, pair_dict, connectors>>
  BY DEF insert_pword
<1>5. EdgesOK'
  BY <1>4, SpaceParts DEF EdgesOK, issued
<1> QED BY <1>3, <1>4, <1>5, SpaceParts, QuietAction DEF setting, issued

LEMMA StartLookup ==
  ASSUME NEW t \in Threads, TableInv, as_start_lookup(t)
  PROVE  TableInv'
<1> DEFINE r == [pc |-> "list", i |-> 1,
                 sent_words |-> IF pairs_on THEN ToSet(th[t].sent) \cap asp.words ELSE {}]
<1>1. th[t].pc = "start" /\ Become(t, r) /\ UNCHANGED <<setting, shared>>
  BY DEF as_start_lookup, At
<1>2. DOMAIN r = {"pc", "i", "sent_words"} /\ r.pc = "list" /\ r.i = 1
  OBVIOUS
<1> HIDE DEF r
<1>3. Len(th[t].sent) >= 1
  BY <1>1 DEF TableInv, ThreadsOK, ThreadOK, AtWord
<1>4. QuietChange(th[t], r)
  BY <1>1, <1>2, <1>3 DEF QuietChange, Work, Special, NoWord
<1>5. EdgesOK'
  BY <1>1, SpaceParts DEF EdgesOK, issued, shared
<1> QED BY <1>1, <1>4, <1>5, SpaceParts, QuietAction DEF setting, shared, issued, caches

-----------------------------------------------------------------------------
(* A lookup ends with a copy of what it found.                             *)
LEMMA SeqAppended ==
  ASSUME NEW s, NEW e, IsSeq(s)
  PROVE  /\ IsSeq(Append(s, e)) /\ Len(s) \in Nat
         /\ DOMAIN Append(s, e) = 1..(Len(s) + 1) /\ DOMAIN s = 1..Len(s)
         /\ \A j \in DOMAIN Append(s, e) : Append(s, e)[j] = IF j = Len(s) + 1 THEN e ELSE s[j]
<1> DEFINE S == {s[j] : j \in DOMAIN s}
           S1 == S \cup {e}
           a == Append(s, e)
<1>1. s \in Seq(S)
  BY DEF IsSeq
<1>2. s \in Seq(S1) /\ e \in S1
  BY <1>1
<1> HIDE DEF S, S1
<1>3. Len(s) \in Nat /\ DOMAIN s = 1..Len(s)
  BY <1>2, LenProperties
<1>4. /\ a \in Seq(S1) /\ Len(a) = Len(s) + 1
      /\ \A j \in 1..Len(s) : a[j] = s[j]
      /\ a[Len(s) + 1] = e
  BY <1>2, AppendProperties
<1>5. DOMAIN a = 1..Len(a) /\ Len(a) \in Nat /\ a \in [1..Len(a) -> S1]
  BY <1>4, LenProperties
<1> HIDE DEF a
<1>6. a \in Seq({a[j] : j \in DOMAIN a})
  BY <1>5
<1>7. \A j \in DOMAIN a : a[j] = IF j = Len(s) + 1 THEN e ELSE s[j]
  BY <1>3, <1>4, <1>5
<1> QED BY <1>3, <1>4, <1>5, <1>6, <1>7 DEF IsSeq, a

LEMMA AloneAction ==
  ASSUME NEW t \in Threads, NEW r, TableInv, Become(t, r), UNCHANGED <<setting, shared>>,
         ThreadOK(Updated(th[t], r), contable, names, DOMAIN uc_num)
  PROVE  TableInv'
<1>1. /\ conf' = conf /\ store' = store /\ asp' = asp /\ names' = names /\ stored' = stored /\ last_id' = last_id
      /\ contable' = contable /\ uc_num' = uc_num /\ num_uc' = num_uc
      /\ dict_tree' = dict_tree /\ tail' = tail /\ pair_dict' = pair_dict
  BY DEF setting, shared, issued, caches, connectors
<1>2. Grows
  BY <1>1 DEF Grows
<1>3. ThreadsOK' /\ th' = [u \in Threads |-> th'[u]]
  BY <1>1, <1>2, OneMoves
<1>4. SpaceOK'
  BY <1>1, <1>3 DEF TableInv, SpaceOK
<1>5. CacheOK' /\ NumbersOK' /\ EdgesOK'
  <2>1. CacheOK /\ NumbersOK /\ EdgesOK
    BY DEF TableInv
  <2>2. CacheOK'
    BY ONLY <1>1, <2>1 DEF CacheOK
  <2>3. NumbersOK'
    BY ONLY <1>1, <2>1 DEF NumbersOK
  <2>4. EdgesOK'
    BY ONLY <1>1, <2>1 DEF EdgesOK
  <2> QED BY <2>2, <2>3, <2>4
<1> QED BY <1>3, <1>4, <1>5 DEF TableInv

LEMMA CopiedOK ==
  ASSUME NEW t \in Threads, TableInv, th[t].pc \notin NoWord, NEW r, ResultIn(r, contable)
  PROVE  ThreadOK(Updated(th[t], Copied(t, r)), contable, names, DOMAIN uc_num)
<1> DEFINE T == th[t]
           c == Copied(t, r)
           X == Updated(T, c)
<1>0. ThreadOK(T, contable, names, DOMAIN uc_num)
  BY DEF TableInv, ThreadsOK
<1>1. T.i \in 1..Len(T.sent) /\ T.i \in Nat /\ Len(T.sent) \in Nat /\ DOMAIN T = Fields
  BY <1>0, AtItsWord DEF ThreadOK
<1>2. /\ DOMAIN c = {"result", "i", "cpr", "extras", "node", "exp", "pc"}
      /\ c.result = Append(T.result, r) /\ c.i = T.i + 1
      /\ c.cpr = {} /\ c.extras = {} /\ c.node = {} /\ c.exp = {}
      /\ c.pc = IF T.i = Len(T.sent) THEN "end" ELSE "list"
  BY DEF Copied
<1> HIDE DEF c
<1>3. /\ DOMAIN X = Fields /\ X.pc = c.pc /\ X.sent = T.sent /\ X.i = c.i
      /\ X.exp = {} /\ X.all = T.all /\ X.cpr = {} /\ X.extras = {} /\ X.node = {}
      /\ X.result = Append(T.result, r)
  <2>1. /\ DOMAIN X = Fields
        /\ X.pc = IF "pc" \in DOMAIN c THEN c.pc ELSE T.pc
        /\ X.sent = IF "sent" \in DOMAIN c THEN c.sent ELSE T.sent
        /\ X.i = IF "i" \in DOMAIN c THEN c.i ELSE T.i
    BY <1>1, UpdatedAll
  <2>2. /\ X.exp = IF "exp" \in DOMAIN c THEN c.exp ELSE T.exp
        /\ X.all = IF "all" \in DOMAIN c THEN c.all ELSE T.all
        /\ X.cpr = IF "cpr" \in DOMAIN c THEN c.cpr ELSE T.cpr
        /\ X.extras = IF "extras" \in DOMAIN c THEN c.extras ELSE T.extras
        /\ X.node = IF "node" \in DOMAIN c THEN c.node ELSE T.node
        /\ X.result = IF "result" \in DOMAIN c THEN c.result ELSE T.result
    BY <1>1, UpdatedAll
  <2> HIDE DEF X
  <2> QED BY ONLY <1>2, <2>1, <2>2
<1> HIDE DEF X
<1>4. CarriedIn(X, contable)
  <2>1. CarriedIn(T, contable)
    BY <1>0 DEF ThreadOK
  <2>2. SectsIn(X.exp, contable) /\ ListsIn(X.node, contable) /\ ExpsIn(X.cpr, contable) /\ ExpsIn(X.extras, contable)
    BY <1>3 DEF SectsIn, ListsIn, ExpsIn
  <2>3. IsSeq(T.result) /\ ExpsIn(X.all, contable) /\ \A j \in DOMAIN T.result : ResultIn(T.result[j], contable)
    BY <1>3, <2>1 DEF CarriedIn
  <2>4. /\ IsSeq(X.result) /\ Len(T.result) \in Nat
        /\ DOMAIN X.result = 1..(Len(T.result) + 1) /\ DOMAIN T.result = 1..Len(T.result)
        /\ \A j \in DOMAIN X.result : X.result[j] = IF j = Len(T.result) + 1 THEN r ELSE T.result[j]
    BY <1>3, <2>3, SeqAppended
  <2>5. ASSUME NEW j \in DOMAIN X.result PROVE ResultIn(X.result[j], contable)
    <3>1. j = Len(T.result) + 1 \/ j \in DOMAIN T.result
      BY <2>4
    <3> QED BY <2>3, <2>4, <3>1
  <2> QED BY <2>2, <2>3, <2>4, <2>5 DEF CarriedIn
<1>5. NamedSo(X, names) /\ WorkOrdered(X) /\ ResultNumbered(X, DOMAIN uc_num)
  BY <1>2, <1>3 DEF NamedSo, WorkOrdered, ResultNumbered
<1>6. AtWord(X)
  BY <1>0, <1>1, <1>2, <1>3 DEF ThreadOK, AtWord, NoWord
<1> QED BY <1>3, <1>4, <1>5, <1>6 DEF ThreadOK, X, c

LEMMA LookupList ==
  ASSUME NEW t \in Threads, TableInv, as_lookup_list(t)
  PROVE  TableInv'
<1>0. th[t].pc \notin NoWord
  BY DEF as_lookup_list, At, NoWord
<1>1. ThreadOK(th[t], contable, names, DOMAIN uc_num)
  BY DEF TableInv, ThreadsOK
<1>2. ThreadOK(Updated(th[t], Copied(t, UnknownWord)), contable, names, DOMAIN uc_num)
  <2>1. ResultIn(UnknownWord, contable)
    BY DEF UnknownWord, ResultIn, PairsIn, SectsIn
  <2> QED BY <1>0, <2>1, CopiedOK
<1>3. QuietChange(th[t], [pc |-> "plain"]) /\ QuietChange(th[t], [pc |-> "splice"])
  BY <1>0, OnlyPc DEF Special
<1>4. QuietChange(th[t], [pc |-> "pair exprs", caller |-> "cpr"])
  <2> DEFINE r == [pc |-> "pair exprs", caller |-> "cpr"]
  <2>1. DOMAIN r = {"pc", "caller"} /\ r.pc = "pair exprs"
    OBVIOUS
  <2> HIDE DEF r
  <2>2. QuietChange(th[t], r)
    BY <1>0, <2>1, StaysQuietly DEF Work, Special
  <2> QED BY <2>2 DEF r
<1>5. \A r : QuietChange(th[t], r) => ThreadOK(Updated(th[t], r), contable, names, DOMAIN uc_num)
  BY <1>1, QuietStep
<1>6. PICK r : Become(t, r) /\ ThreadOK(Updated(th[t], r), contable, names, DOMAIN uc_num)
  BY <1>2, <1>3, <1>4, <1>5 DEF as_lookup_list
<1>7. UNCHANGED <<setting, shared>>
  BY DEF as_lookup_list
<1> QED BY <1>6, <1>7, AloneAction

-----------------------------------------------------------------------------
(* A sentence begins and ends.                                             *)
IdleThread(X) ==
  /\ DOMAIN X = Fields /\ X.pc = "idle" /\ X.sent = <<>> /\ X.i = 1 /\ X.exp = {} /\ X.all = {}
  /\ X.cpr = {} /\ X.extras = {} /\ X.node = {} /\ X.result = <<>>

LEMMA IdleThreadOK ==
  ASSUME NEW X, IdleThread(X), NEW C, NEW N, NEW D
  PROVE  ThreadOK(X, C, N, D)
<1>1. IsSeq(X.result) /\ DOMAIN X.result = {} /\ X.sent \in Seq(Vocabulary)
  BY EmptySeq DEF IsSeq, IdleThread
<1>2. CarriedIn(X, C)
  BY <1>1 DEF CarriedIn, SectsIn, ListsIn, ExpsIn, IdleThread
<1>3. NamedSo(X, N) /\ WorkOrdered(X) /\ ResultNumbered(X, D)
  BY DEF NamedSo, WorkOrdered, ResultNumbered, IdleThread
<1>4. AtWord(X)
  BY <1>1 DEF AtWord, NoWord, IdleThread
<1> QED BY <1>2, <1>3, <1>4 DEF ThreadOK, IdleThread

LEMMA IdleOK ==
  ASSUME NEW T, DOMAIN T = Fields, NEW n
  PROVE  IdleThread(Idle(n)) /\ IdleThread(Updated(T, Idle(n)))
<1> DEFINE r == Idle(n)
           X == Updated(T, r)
<1>1. /\ DOMAIN r = Fields /\ r.pc = "idle" /\ r.sent = <<>> /\ r.i = 1 /\ r.exp = {} /\ r.all = {}
      /\ r.cpr = {} /\ r.extras = {} /\ r.node = {} /\ r.result = <<>>
  BY DEF Idle, Fields
<1> HIDE DEF r
<1>2. /\ DOMAIN X = Fields /\ X.pc = "idle" /\ X.sent = <<>> /\ X.i = 1 /\ X.exp = {} /\ X.all = {}
      /\ X.cpr = {} /\ X.extras = {} /\ X.node = {} /\ X.result = <<>>
  BY <1>1, UpdatedAll DEF Fields
<1> QED BY <1>1, <1>2 DEF IdleThread, r

LEMMA SentenceDeleted ==
  ASSUME NEW t \in Threads, TableInv, DeleteSentence(t)
  PROVE  TableInv'
<1>1. DOMAIN th[t] = Fields
  BY DEF TableInv, ThreadsOK, ThreadOK
<1>2. Become(t, Idle(th[t].left)) /\ UNCHANGED <<setting, shared>>
  BY DEF DeleteSentence
<1>3. ThreadOK(Updated(th[t], Idle(th[t].left)), contable, names, DOMAIN uc_num)
  BY <1>1, IdleOK, IdleThreadOK
<1> QED BY <1>2, <1>3, AloneAction

LEMMA StartedOK ==
  ASSUME NEW T, DOMAIN T = Fields, NEW n, NEW C, NEW N, NEW D, NEW s \in Seq(Vocabulary), s # <<>>
  PROVE  ThreadOK(Updated(T, [Idle(n) EXCEPT !.pc = "exists", !.sent = s]), C, N, D)
<1> DEFINE r == [Idle(n) EXCEPT !.pc = "exists", !.sent = s]
           X == Updated(T, r)
<1>1. /\ DOMAIN r = Fields /\ r.pc = "exists" /\ r.sent = s /\ r.i = 1 /\ r.exp = {} /\ r.all = {}
      /\ r.cpr = {} /\ r.extras = {} /\ r.node = {} /\ r.result = <<>>
  BY DEF Idle, Fields
<1> HIDE DEF r
<1>2. /\ DOMAIN X = Fields /\ X.pc = "exists" /\ X.sent = s /\ X.i = 1 /\ X.exp = {} /\ X.all = {}
      /\ X.cpr = {} /\ X.extras = {} /\ X.node = {} /\ X.result = <<>>
  BY <1>1, UpdatedAll DEF Fields
<1> HIDE DEF X
<1>3. IsSeq(X.result) /\ DOMAIN X.result = {} /\ X.sent \in Seq(Vocabulary)
  BY <1>2, EmptySeq DEF IsSeq
<1>4. CarriedIn(X, C)
  BY <1>2, <1>3 DEF CarriedIn, SectsIn, ListsIn, ExpsIn
<1>5. NamedSo(X, N) /\ WorkOrdered(X) /\ ResultNumbered(X, D)
  BY <1>2 DEF NamedSo, WorkOrdered, ResultNumbered
<1>6. Len(s) \in Nat /\ Len(s) >= 1
  OBVIOUS
<1>7. AtWord(X)
  BY <1>2, <1>3, <1>6 DEF AtWord, NoWord
<1> QED BY <1>2, <1>4, <1>5, <1>7 DEF ThreadOK, X, r

LEMMA SentenceStarted ==
  ASSUME NEW t \in Threads, TableInv, StartSentence(t)
  PROVE  TableInv'
<1>1. PICK s \in conf.sentences[t] :
        Become(t, [Idle(th[t].left - 1) EXCEPT !.pc = "exists", !.sent = s])
  BY DEF StartSentence
<1>2. UNCHANGED <<setting, shared>>
  BY DEF StartSentence
<1>3. s \in Seq(Vocabulary) /\ s # <<>> /\ DOMAIN th[t] = Fields
  <2>1. conf \in Settings /\ DOMAIN th[t] = Fields
    BY SpaceParts DEF TableInv, ThreadsOK, ThreadOK
  <2>2. conf.sentences \in [Threads -> SUBSET (Seq(Vocabulary) \ {<<>>})]
    BY <2>1 DEF Settings
  <2>3. conf.sentences[t] \subseteq Seq(Vocabulary) \ {<<>>}
    BY <2>2
  <2> QED BY <2>1, <2>3
<1>4. ThreadOK(Updated(th[t], [Idle(th[t].left - 1) EXCEPT !.pc = "exists", !.sent = s]),
               contable, names, DOMAIN uc_num)
  BY <1>3, StartedOK
<1> QED BY <1>1, <1>2, <1>4, AloneAction

-----------------------------------------------------------------------------
(* Naming links.                                                           *)
LEMMA NameGiven ==
  ASSUME EdgesOK, NEW l, Has(names, l)
  PROVE  Name(l) \in {e[2] : e \in names} /\ Name(l) \in Nat /\ get_lg_conn(l) # {}
<1>1. get_lg_conn(l) # {}
  BY DEF Has, get_lg_conn
<1>2. Name(l) \in get_lg_conn(l)
  BY <1>1 DEF Name
<1> QED BY <1>1, <1>2 DEF get_lg_conn, EdgesOK, Edge

LEMMA NamesFinite ==
  ASSUME NEW N, IsFiniteSet(N), \A e \in N : Edge(e)
  PROVE  IsFiniteSet({e[2] : e \in N}) /\ {e[2] : e \in N} \subseteq Nat
<1> DEFINE S == {e[2] : e \in N}
           f == [e \in N |-> e[2]]
<1>1. f \in Surjection(N, S)
  BY DEF Surjection
<1> HIDE DEF f
<1>2. IsFiniteSet(S)
  BY <1>1, FS_Surjection
<1>3. S \subseteq Nat
  BY DEF Edge
<1> QED BY <1>2, <1>3

(* More connectors in the table, all with names that links have.           *)
LEMMA MoreNumbers ==
  ASSUME NumbersOK, contable \subseteq contable', uc_num' = uc_num, num_uc' = num_uc,
         NEW N, IsFiniteSet(N), \A e \in N : Edge(e),
         contable' \subseteq contable \cup {e[2] : e \in N}
  PROVE  NumbersOK'
<1>1. IsFiniteSet({e[2] : e \in N}) /\ {e[2] : e \in N} \subseteq Nat
  BY NamesFinite
<1>2. IsFiniteSet(contable) /\ contable \subseteq Nat
  BY DEF NumbersOK
<1>3. IsFiniteSet(contable \cup {e[2] : e \in N})
  BY <1>1, <1>2, FS_Union
<1>4. IsFiniteSet(contable')
  BY <1>3, FS_Subset
<1>5. contable' \subseteq Nat
  BY <1>1, <1>2
<1>6. AnyId \in contable' /\ DOMAIN uc_num' \subseteq contable'
  BY DEF NumbersOK
<1>7. /\ num_uc' \in Nat
      /\ \A m \in DOMAIN uc_num' : uc_num'[m] \in Nat /\ uc_num'[m] < num_uc'
      /\ \A m, n \in DOMAIN uc_num' : uc_num'[m] = uc_num'[n] => m = n
  BY DEF NumbersOK
<1> QED BY <1>4, <1>5, <1>6, <1>7 DEF NumbersOK

LEMMA MoreConnectors ==
  ASSUME NEW C, NEW C2, C \subseteq C2
  PROVE  /\ \A x : PairsIn(x, C) => PairsIn(x, C2)
         /\ \A x : SectsIn(x, C) => SectsIn(x, C2)
         /\ \A x : NodesIn(x, C) => NodesIn(x, C2)
         /\ \A x : ExpsIn(x, C) => ExpsIn(x, C2)
<1>1. \A x : PairsIn(x, C) => PairsIn(x, C2)
  BY DEF PairsIn
<1>2. \A x : SectsIn(x, C) => SectsIn(x, C2)
  BY DEF SectsIn
<1> QED BY <1>1, <1>2 DEF NodesIn, ExpsIn

LEMMA MoreCached ==
  ASSUME CacheOK, contable \subseteq contable', UNCHANGED <<dict_tree, tail, pair_dict>>
  PROVE  CacheOK'
<1>1. dict_tree' = dict_tree /\ tail' = tail /\ pair_dict' = pair_dict
  OBVIOUS
<1>2. /\ \A x : NodesIn(x, contable) => NodesIn(x, contable')
      /\ \A x : ExpsIn(x, contable) => ExpsIn(x, contable')
  BY MoreConnectors
<1> QED BY ONLY CacheOK, <1>1, <1>2 DEF CacheOK

(* Connectors are added to the table, and one thread moves.                *)
LEMMA GrowingAction ==
  ASSUME NEW t \in Threads, NEW r, TableInv, Become(t, r),
         UNCHANGED <<setting, asp, issued, uc_num, num_uc>>,
         contable \subseteq contable', contable' \subseteq contable \cup {e[2] : e \in names},
         CacheOK', ThreadOK(Updated(th[t], r), contable', names, DOMAIN uc_num)
  PROVE  TableInv'
<1>1. /\ conf' = conf /\ store' = store /\ asp' = asp /\ names' = names /\ stored' = stored
      /\ last_id' = last_id /\ uc_num' = uc_num /\ num_uc' = num_uc
  BY DEF setting, issued
<1>2. ThreadsOK' /\ th' = [u \in Threads |-> th'[u]]
  BY <1>1, OneMoves DEF Grows
<1>3. SpaceOK'
  BY <1>1, <1>2 DEF TableInv, SpaceOK
<1>4. NumbersOK'
  <2>1. NumbersOK /\ IsFiniteSet(names) /\ \A e \in names : Edge(e)
    BY DEF TableInv, EdgesOK
  <2> QED BY <1>1, <2>1, MoreNumbers
<1>5. EdgesOK'
  <2>1. EdgesOK
    BY DEF TableInv
  <2> QED BY ONLY <1>1, <2>1 DEF EdgesOK
<1> QED BY <1>2, <1>3, <1>4, <1>5 DEF TableInv

LEMMA NamingOver ==
  ASSUME NEW T, NEW C, NEW N, NEW D, ThreadOK(T, C, N, D), NEW back,
         \/ T.pc = "name pair" /\ back = "make pairs"
         \/ T.pc = "name section" /\ back = "make sections"
  PROVE  ThreadOK(Updated(T, [pc |-> back]), C, N, D)
<1> DEFINE X == Updated(T, [pc |-> back])
<1>1. DOMAIN T = Fields
  BY DEF ThreadOK
<1>2. /\ DOMAIN X = Fields /\ X.pc = back /\ X.sent = T.sent /\ X.i = T.i /\ X.links = T.links
      /\ X.sects = T.sects /\ X.exp = T.exp /\ X.conns = T.conns /\ X.all = T.all
      /\ X.cpr = T.cpr /\ X.extras = T.extras /\ X.node = T.node /\ X.result = T.result
  BY <1>1, OnlyPcUpdated
<1> HIDE DEF X
<1>3. CarriedIn(X, C)
  BY <1>2 DEF ThreadOK, CarriedIn
<1>4. NamedSo(X, N)
  BY <1>2 DEF ThreadOK, NamedSo
<1>5. WorkOrdered(X) /\ ResultNumbered(X, D)
  BY <1>2 DEF ThreadOK, WorkOrdered, ResultNumbered
<1>6. AtWord(X)
  BY <1>2 DEF ThreadOK, AtWord, NoWord
<1> QED BY <1>2, <1>3, <1>4, <1>5, <1>6 DEF ThreadOK, X

LEMMA FreshNumber ==
  ASSUME last_id \in Nat
  PROVE  skip_any(last_id) \in Nat /\ skip_any(last_id) + 1 \in Nat
  BY DEF skip_any

LEMMA NameIssued ==
  ASSUME NEW t \in Threads, TableInv, IssueName(t)
  PROVE  TableInv'
<1> DEFINE T == th[t]
<1>1. PICK back \in {"make pairs", "make sections"} :
        /\ cached_linkname(t, back)
        /\ \/ T.pc = "name pair" /\ back = "make pairs"
           \/ T.pc = "name section" /\ back = "make sections"
  BY DEF IssueName, At
<1>2. UNCHANGED <<setting, asp, caches, connectors>>
  BY DEF IssueName
<1>3. /\ conf' = conf /\ store' = store /\ asp' = asp /\ contable' = contable /\ uc_num' = uc_num
      /\ num_uc' = num_uc /\ dict_tree' = dict_tree /\ tail' = tail /\ pair_dict' = pair_dict
  BY <1>2 DEF setting, caches, connectors
<1>4. Become(t, [pc |-> back])
  BY <1>1 DEF cached_linkname
<1> DEFINE known == IF Fetches THEN names \cup {e \in stored : e[1] = T.link} ELSE names
           fresh == skip_any(last_id)
<1>5. /\ names \subseteq names'
      /\ \/ names' = known /\ stored' = stored /\ last_id' = last_id
         \/ /\ names' = known \cup {<<T.link, fresh>>} /\ last_id' = fresh + 1
            /\ stored' \in {stored, stored \cup {<<T.link, fresh>>}}
  <2>1. CASE \E e \in known : e[1] = T.link
    BY <1>1, <2>1 DEF cached_linkname
  <2>2. CASE ~ \E e \in known : e[1] = T.link
    BY <1>1, <2>2 DEF cached_linkname
  <2> QED BY <2>1, <2>2
<1>6. EdgesOK'
  <2>1. EdgesOK
    BY DEF TableInv
  <2>2. fresh \in Nat /\ fresh + 1 \in Nat
    BY <2>1, FreshNumber DEF EdgesOK
  <2>3. known \subseteq names \cup stored
    OBVIOUS
  <2>4. IsFiniteSet(names) /\ IsFiniteSet(stored)
    BY <2>1 DEF EdgesOK
  <2>5. IsFiniteSet(known)
    BY <2>3, <2>4, FS_Union, FS_Subset
  <2> HIDE DEF known, fresh
  <2>6. IsFiniteSet(known \cup {<<T.link, fresh>>}) /\ IsFiniteSet(stored \cup {<<T.link, fresh>>})
    BY <2>4, <2>5, FS_AddElement
  <2>7. IsFiniteSet(names') /\ IsFiniteSet(stored')
    BY <1>5, <2>4, <2>5, <2>6
  <2>8. \A e \in names' \cup stored' : Edge(e)
    <3>1. \A e \in names \cup stored : Edge(e)
      BY <2>1 DEF EdgesOK
    <3>2. Edge(<<T.link, fresh>>)
      BY <2>2 DEF Edge
    <3>3. names' \cup stored' \subseteq names \cup stored \cup {<<T.link, fresh>>}
      BY <1>5, <2>3
    <3> QED BY <3>1, <3>2, <3>3
  <2>9. last_id' \in Nat
    <3>1. last_id \in Nat
      BY <2>1 DEF EdgesOK
    <3>2. last_id' = last_id \/ last_id' = fresh + 1
      BY <1>5
    <3> QED BY <2>2, <3>1, <3>2
  <2> QED BY <2>7, <2>8, <2>9 DEF EdgesOK
<1>7. ThreadOK(T, contable, names, DOMAIN uc_num)
  BY DEF TableInv, ThreadsOK
<1>8. ThreadOK(Updated(T, [pc |-> back]), contable, names, DOMAIN uc_num)
  BY <1>1, <1>7, NamingOver
<1>9. Grows
  BY <1>3, <1>5 DEF Grows
<1>10. ThreadOK(Updated(T, [pc |-> back]), contable', names', DOMAIN uc_num')
  BY <1>3, <1>8, <1>9, InMore DEF Grows
<1>11. ThreadsOK' /\ th' = [u \in Threads |-> th'[u]]
  BY <1>4, <1>9, <1>10, OneMoves
<1>12. SpaceOK'
  BY <1>3, <1>11 DEF TableInv, SpaceOK
<1>13. CacheOK' /\ NumbersOK'
  <2>1. CacheOK /\ NumbersOK
    BY DEF TableInv
  <2>2. CacheOK'
    BY ONLY <1>3, <2>1 DEF CacheOK
  <2>3. NumbersOK'
    BY ONLY <1>3, <2>1 DEF NumbersOK
  <2> QED BY <2>2, <2>3
<1> QED BY <1>6, <1>11, <1>12, <1>13 DEF TableInv

(* A link of the list in work that has a name is done; another is named.   *)
LEMMA NextLinkOK ==
  ASSUME NEW T, ThreadOK(T, contable, names, DOMAIN uc_num), NEW naming,
         \/ T.pc = "make pairs" /\ naming = "name pair"
         \/ T.pc = "make sections" /\ naming = "name section",
         NEW l \in T.links,
         NEW r, r = IF get_lg_conn(l) # {} THEN [links |-> T.links \ {l}]
                    ELSE [link |-> l, pc |-> naming]
  PROVE  ThreadOK(Updated(T, r), contable, names, DOMAIN uc_num)
<1> DEFINE X == Updated(T, r)
<1>1. ThreadOK(T, contable, names, DOMAIN uc_num)
  OBVIOUS
<1>2. DOMAIN T = Fields
  BY <1>1 DEF ThreadOK
<1>3. \/ get_lg_conn(l) # {} /\ DOMAIN r = {"links"} /\ r.links = T.links \ {l}
      \/ DOMAIN r = {"link", "pc"} /\ r.pc = naming
  OBVIOUS
<1>4. /\ DOMAIN X = Fields /\ X.sent = T.sent /\ X.i = T.i
      /\ X.sects = T.sects /\ X.exp = T.exp /\ X.conns = T.conns /\ X.all = T.all /\ X.cpr = T.cpr
      /\ X.extras = T.extras /\ X.node = T.node /\ X.result = T.result
  BY ONLY <1>2, <1>3, UpdatedAll
<1>5. \/ get_lg_conn(l) # {} /\ X.pc = T.pc /\ X.links = T.links \ {l}
      \/ X.pc = naming /\ X.links = T.links
  BY ONLY <1>2, <1>3, UpdatedAll
<1> HIDE DEF X
<1>6. CarriedIn(X, contable)
  BY <1>1, <1>4 DEF ThreadOK, CarriedIn
<1>7. NamedSo(X, names)
  <2>1. get_lg_conn(l) # {} => Has(names, l)
    BY DEF get_lg_conn, Has
  <2>2. \A k \in T.links : k \in X.links \/ Has(names, k)
    BY <1>5, <2>1
  <2>3. CASE T.pc = "make pairs"
    <3>1. \A k \in T.conns : k \in T.links \/ Has(names, k)
      BY <1>1, <2>3 DEF ThreadOK, NamedSo
    <3>2. \A k \in X.conns : k \in X.links \/ Has(names, k)
      BY <1>4, <2>2, <3>1
    <3>3. X.pc \notin {"make sections", "name section"}
      BY <1>5, <2>3
    <3> QED BY <3>2, <3>3 DEF NamedSo
  <2>4. CASE T.pc = "make sections"
    <3>1. \A s \in T.sects : \A k \in DOMAIN s.conns :
            link_of(s.germ, s.conns[k]) \in T.links \/ Has(names, link_of(s.germ, s.conns[k]))
      BY <1>1, <2>4 DEF ThreadOK, NamedSo
    <3>2. \A s \in X.sects : \A k \in DOMAIN s.conns :
            link_of(s.germ, s.conns[k]) \in X.links \/ Has(names, link_of(s.germ, s.conns[k]))
      BY <1>4, <2>2, <3>1
    <3>3. X.pc \notin {"make pairs", "name pair"}
      BY <1>5, <2>4
    <3> QED BY <3>2, <3>3 DEF NamedSo
  <2> QED BY <2>3, <2>4
<1>8. WorkOrdered(X)
  BY <1>1, <1>4, <1>5 DEF ThreadOK, WorkOrdered
<1>9. ResultNumbered(X, DOMAIN uc_num)
  BY <1>5 DEF ResultNumbered
<1>10. AtWord(X)
  BY <1>1, <1>4, <1>5 DEF ThreadOK, AtWord, NoWord
<1> QED BY <1>4, <1>6, <1>7, <1>8, <1>9, <1>10 DEF ThreadOK, X

-----------------------------------------------------------------------------
(* Word-pairs.                                                             *)

(* The steps after the connectors of the pairs are made or found.          *)
LEMMA PairsCarried ==
  ASSUME NEW T, NEW C, NEW N, NEW D, ThreadOK(T, C, N, D), T.pc \notin NoWord,
         NEW r, "pc" \in DOMAIN r, r.pc \notin Special,
         \/ DOMAIN r = {"pc", "all"} /\ ExpsIn(r.all, C)
         \/ DOMAIN r = {"pc", "extras"} /\ ExpsIn(r.extras, C)
         \/ DOMAIN r = {"pc", "cpr"} /\ ExpsIn(r.cpr, C)
         \/ DOMAIN r = {"pc", "node"} /\ ListsIn(r.node, C)
         \/ DOMAIN r = {"pc", "node", "caller"} /\ ListsIn(r.node, C)
         \/ DOMAIN r = {"pc", "exp"} /\ SectsIn(r.exp, C)
  PROVE  ThreadOK(Updated(T, r), C, N, D)
<1> DEFINE X == Updated(T, r)
<1>1. DOMAIN T = Fields /\ CarriedIn(T, C) /\ AtWord(T)
  BY DEF ThreadOK
<1>2. /\ DOMAIN X = Fields /\ X.pc = r.pc /\ X.sent = T.sent /\ X.i = T.i /\ X.result = T.result
  BY <1>1, UpdatedAll
<1>3. /\ ExpsIn(X.all, C) /\ ExpsIn(X.extras, C) /\ ExpsIn(X.cpr, C) /\ ListsIn(X.node, C)
      /\ SectsIn(X.exp, C)
  BY <1>1, UpdatedAll DEF CarriedIn
<1> HIDE DEF X
<1>4. CarriedIn(X, C)
  BY <1>1, <1>2, <1>3 DEF CarriedIn
<1>5. NamedSo(X, N) /\ WorkOrdered(X) /\ ResultNumbered(X, D)
  BY <1>2 DEF NamedSo, WorkOrdered, ResultNumbered, Special
<1>6. AtWord(X)
  BY <1>1, <1>2 DEF AtWord, NoWord, Special
<1> QED BY <1>2, <1>4, <1>5, <1>6 DEF ThreadOK, X

LEMMA PairsListed ==
  ASSUME NEW T, NEW C, NEW N, NEW D, ThreadOK(T, C, N, D), T.pc \notin NoWord, NEW good
  PROVE  ThreadOK(Updated(T, [pc |-> "make pairs", links |-> good, conns |-> good]), C, N, D)
<1> DEFINE r == [pc |-> "make pairs", links |-> good, conns |-> good]
           X == Updated(T, r)
<1>1. DOMAIN T = Fields /\ CarriedIn(T, C) /\ AtWord(T)
  BY DEF ThreadOK
<1>2. DOMAIN r = {"pc", "links", "conns"} /\ r.pc = "make pairs" /\ r.links = good /\ r.conns = good
  OBVIOUS
<1> HIDE DEF r
<1>3. /\ DOMAIN X = Fields /\ X.pc = "make pairs" /\ X.sent = T.sent /\ X.i = T.i /\ X.result = T.result
      /\ X.links = good /\ X.conns = good /\ X.exp = T.exp /\ X.all = T.all /\ X.cpr = T.cpr
      /\ X.extras = T.extras /\ X.node = T.node
  <2>1. DOMAIN T = Fields
    BY <1>1
  <2>2. /\ DOMAIN X = Fields /\ X.pc = "make pairs" /\ X.sent = T.sent /\ X.i = T.i
        /\ X.result = T.result
    <3>1. X.pc = IF "pc" \in DOMAIN r THEN r.pc ELSE T.pc
      BY <2>1, UpdatedAll
    <3>2. X.sent = T.sent /\ X.i = T.i /\ X.result = T.result /\ DOMAIN X = Fields
      BY <1>2, <2>1, UpdatedAll
    <3> QED BY <1>2, <3>1, <3>2
  <2>3. X.links = good /\ X.conns = good
    <3>1. X.links = IF "links" \in DOMAIN r THEN r.links ELSE T.links
      BY <2>1, UpdatedAll
    <3>2. X.conns = IF "conns" \in DOMAIN r THEN r.conns ELSE T.conns
      BY <2>1, UpdatedAll
    <3> QED BY <1>2, <3>1, <3>2
  <2>4. /\ X.exp = T.exp /\ X.all = T.all /\ X.cpr = T.cpr
        /\ X.extras = T.extras /\ X.node = T.node
    BY ONLY <1>2, <2>1, UpdatedAll
  <2> QED BY <2>2, <2>3, <2>4
<1> HIDE DEF X
<1>4. CarriedIn(X, C)
  BY <1>1, <1>3 DEF CarriedIn
<1>5. NamedSo(X, N) /\ WorkOrdered(X) /\ ResultNumbered(X, D)
  BY <1>3 DEF NamedSo, WorkOrdered, ResultNumbered
<1>6. AtWord(X)
  BY <1>1, <1>3 DEF AtWord, NoWord
<1> QED BY <1>3, <1>4, <1>5, <1>6 DEF ThreadOK, X, r

LEMMA GetPairs ==
  ASSUME NEW t \in Threads, TableInv, get_pair_exprs(t)
  PROVE  TableInv'
<1> DEFINE good == {p.link : p \in {x \in PairsOf(asp, word(t)) : x.ok}}
<1>1. th[t].pc \notin NoWord
  BY DEF get_pair_exprs, At, NoWord
<1>2. ThreadOK(th[t], contable, names, DOMAIN uc_num) /\ word(t) \in Vocabulary
  BY <1>1, AtItsWord DEF TableInv, ThreadsOK
<1>3. UNCHANGED <<setting, asp, issued, caches, connectors>>
  BY DEF get_pair_exprs
<1>4. CacheOK' /\ contable' = contable /\ UNCHANGED <<uc_num, num_uc>>
  <2>1. /\ contable' = contable /\ UNCHANGED <<uc_num, num_uc>>
        /\ UNCHANGED <<dict_tree, tail, pair_dict>>
    BY <1>3 DEF caches, connectors
  <2> QED BY <2>1, MoreCached DEF TableInv
<1>5. ASSUME NEW e \in pair_dict[word(t)]
      PROVE  ThreadOK(Updated(th[t], [pc |-> "prune", all |-> e]), contable, names, DOMAIN uc_num)
  <2> DEFINE r == [pc |-> "prune", all |-> e]
  <2>1. DOMAIN r = {"pc", "all"} /\ r.pc = "prune" /\ r.all = e
    OBVIOUS
  <2>2. ExpsIn(e, contable)
    BY <1>2 DEF TableInv, CacheOK
  <2> HIDE DEF r
  <2>3. "pc" \in DOMAIN r /\ r.pc \notin Special
    BY <2>1 DEF Special
  <2>4. ThreadOK(Updated(th[t], r), contable, names, DOMAIN uc_num)
    BY <1>1, <1>2, <2>1, <2>2, <2>3, PairsCarried
  <2> QED BY <2>4 DEF r
<1>6. ThreadOK(Updated(th[t], [pc |-> "make pairs", links |-> good, conns |-> good]),
               contable, names, DOMAIN uc_num)
  BY <1>1, <1>2, PairsListed
<1> HIDE DEF good
<1>7. PICK r : Become(t, r) /\ ThreadOK(Updated(th[t], r), contable, names, DOMAIN uc_num)
  <2>1. CASE pair_dict[word(t)] # {}
    BY <1>5, <2>1 DEF get_pair_exprs
  <2>2. CASE pair_dict[word(t)] = {}
    BY <1>6, <2>2 DEF get_pair_exprs, good
  <2> QED BY <2>1, <2>2
<1> QED BY <1>3, <1>4, <1>7, GrowingAction

LEMMA PairConnectors ==
  ASSUME NEW t \in Threads, TableInv, th[t].pc = "make pairs", th[t].links = {},
         NEW c \in {<<Name(l), IF l[2] = word(t) THEN "-" ELSE "+", l>> : l \in th[t].conns}
  PROVE  c[1] \in {e[2] : e \in names}
<1>1. PICK l \in th[t].conns : c[1] = Name(l)
  <2>1. PICK l \in th[t].conns : c = <<Name(l), IF l[2] = word(t) THEN "-" ELSE "+", l>>
    OBVIOUS
  <2>2. c[1] = Name(l)
    BY ONLY <2>1
  <2> QED BY <2>2
<1>2. Has(names, l)
  BY <1>1 DEF TableInv, ThreadsOK, ThreadOK, NamedSo
<1> QED BY <1>1, <1>2, NameGiven DEF TableInv

LEMMA PairsMade ==
  ASSUME NEW t \in Threads, TableInv, make_pair_exprs(t)
  PROVE  TableInv'
<1> DEFINE conns == {<<Name(l), IF l[2] = word(t) THEN "-" ELSE "+", l>> : l \in th[t].conns}
           exp == IF conns = {} THEN {} ELSE {conns}
<1>1. th[t].pc = "make pairs"
  BY DEF make_pair_exprs, At
<1>2. ThreadOK(th[t], contable, names, DOMAIN uc_num) /\ word(t) \in Vocabulary
  BY <1>1, AtItsWord DEF TableInv, ThreadsOK, NoWord
<1>3. UNCHANGED <<setting, asp, issued, dict_tree, tail, uc_num, num_uc>>
  BY DEF make_pair_exprs
<1>4. CASE NextLink(t, "name pair") /\ UNCHANGED <<pair_dict, contable>>
  <2>1. PICK l \in th[t].links :
          Become(t, IF get_lg_conn(l) # {} THEN [links |-> th[t].links \ {l}]
                    ELSE [link |-> l, pc |-> "name pair"])
    BY <1>4 DEF NextLink
  <2>2. PICK r : /\ r = IF get_lg_conn(l) # {} THEN [links |-> th[t].links \ {l}]
                        ELSE [link |-> l, pc |-> "name pair"]
                 /\ Become(t, r)
    BY <2>1
  <2>3. ThreadOK(Updated(th[t], r), contable, names, DOMAIN uc_num)
    BY <1>1, <1>2, <2>2, NextLinkOK
  <2>4. CacheOK'
    BY <1>3, <1>4, MoreCached DEF TableInv
  <2> QED BY <1>3, <1>4, <2>2, <2>3, <2>4, GrowingAction
<1>5. CASE /\ th[t].links = {}
           /\ pair_dict' = [pair_dict EXCEPT ![word(t)] = {exp}]
           /\ contable' = contable \cup {c[1] : c \in conns}
           /\ Become(t, [pc |-> "prune", all |-> exp])
  <2>1. \A c \in conns : c[1] \in {e[2] : e \in names}
    BY <1>1, <1>5, PairConnectors
  <2> HIDE DEF conns
  <2>2. contable \subseteq contable' /\ contable' \subseteq contable \cup {e[2] : e \in names}
    BY <1>5, <2>1
  <2>3. ExpsIn(exp, contable')
    BY <1>5 DEF ExpsIn, PairsIn
  <2> HIDE DEF exp
  <2>4. CacheOK'
    <3>1. CacheOK
      BY DEF TableInv
    <3>2. /\ \A x : NodesIn(x, contable) => NodesIn(x, contable')
          /\ \A x : ExpsIn(x, contable) => ExpsIn(x, contable')
      BY <2>2, MoreConnectors
    <3>3. dict_tree' = dict_tree /\ tail' = tail
      BY <1>3
    <3>4. /\ pair_dict' = [w \in Vocabulary |-> pair_dict'[w]]
          /\ \A w \in Vocabulary : pair_dict'[w] = IF w = word(t) THEN {exp} ELSE pair_dict[w]
      BY <1>5, <3>1 DEF CacheOK
    <3>5. ASSUME NEW w \in Vocabulary, NEW e \in pair_dict'[w] PROVE ExpsIn(e, contable')
      <4>1. e = exp \/ e \in pair_dict[w]
        BY <3>4
      <4>2. CASE e = exp
        BY <2>3, <4>2
      <4>3. CASE e \in pair_dict[w]
        BY <3>1, <3>2, <4>3 DEF CacheOK
      <4> QED BY <4>1, <4>2, <4>3
    <3>6. ASSUME NEW w \in Vocabulary
          PROVE  IsSeq(dict_tree'[w]) /\ NodesIn(dict_tree'[w], contable') /\ ExpsIn(tail'[w], contable')
      BY ONLY <3>1, <3>2, <3>3, w \in Vocabulary DEF CacheOK
    <3>7. dict_tree' = [w \in Vocabulary |-> dict_tree'[w]] /\ tail' = [w \in Vocabulary |-> tail'[w]]
      BY ONLY <3>1, <3>3 DEF CacheOK
    <3> QED BY <3>4, <3>5, <3>6, <3>7 DEF CacheOK
  <2>5. ThreadOK(th[t], contable', names, DOMAIN uc_num)
    BY <1>2, <2>2, InMore
  <2> DEFINE r == [pc |-> "prune", all |-> exp]
  <2>6. DOMAIN r = {"pc", "all"} /\ r.pc = "prune" /\ r.all = exp
    OBVIOUS
  <2>7. Become(t, r)
    BY <1>5
  <2> HIDE DEF r
  <2>8. "pc" \in DOMAIN r /\ r.pc \notin Special /\ th[t].pc \notin NoWord
    BY <1>1, <2>6 DEF Special, NoWord
  <2>9. ThreadOK(Updated(th[t], r), contable', names, DOMAIN uc_num)
    BY <2>3, <2>5, <2>6, <2>8, PairsCarried
  <2> QED BY <1>3, <2>2, <2>4, <2>7, <2>9, GrowingAction
<1> QED BY <1>4, <1>5 DEF make_pair_exprs

LEMMA CartPairs ==
  ASSUME NEW t \in Threads, TableInv, make_cart_pairs(t)
  PROVE  TableInv'
<1> DEFINE with_any == IF th[t].caller = "cpr" THEN conf.pair_with_any ELSE conf.extra_any
           epr == {Prune(t, e) : e \in th[t].all}
           cart == IF ~with_any THEN epr ELSE IF epr = {} THEN {AnyConns} ELSE {e \cup AnyConns : e \in epr}
<1>1. th[t].pc \notin NoWord
  BY DEF make_cart_pairs, At, NoWord
<1>2. ThreadOK(th[t], contable, names, DOMAIN uc_num) /\ UNCHANGED <<setting, shared>>
  BY DEF TableInv, ThreadsOK, make_cart_pairs
<1>3. PairsIn(AnyConns, contable)
  <2>1. AnyId \in contable
    BY DEF TableInv, NumbersOK
  <2> QED BY ONLY <2>1 DEF AnyConns, PairsIn
<1>4. ExpsIn(epr, contable)
  <2>1. \A e \in th[t].all : \A c \in e : c[1] \in contable
    BY <1>2 DEF ThreadOK, CarriedIn, ExpsIn, PairsIn
  <2>2. \A e \in th[t].all : Prune(t, e) \subseteq e
    BY DEF Prune
  <2> QED BY ONLY <2>1, <2>2 DEF ExpsIn, PairsIn
<1> HIDE DEF epr
<1>5. ExpsIn(cart, contable)
  BY <1>3, <1>4 DEF ExpsIn, PairsIn
<1> HIDE DEF cart
<1>6. ASSUME NEW r, "pc" \in DOMAIN r, r.pc \notin Special,
             \/ DOMAIN r = {"pc", "extras"} /\ r.extras = cart
             \/ DOMAIN r = {"pc", "cpr"} /\ r.cpr = cart
      PROVE  ThreadOK(Updated(th[t], r), contable, names, DOMAIN uc_num)
  BY <1>1, <1>2, <1>5, <1>6, PairsCarried
<1>7. PICK r : /\ Become(t, r) /\ "pc" \in DOMAIN r /\ r.pc \notin Special
               /\ \/ DOMAIN r = {"pc", "extras"} /\ r.extras = cart
                  \/ DOMAIN r = {"pc", "cpr"} /\ r.cpr = cart
  <2>1. CASE th[t].caller = "extra"
    <3>1. Become(t, [extras |-> cart, pc |-> "splice"])
      BY <2>1 DEF make_cart_pairs, cart, epr
    <3> DEFINE x == [extras |-> cart, pc |-> "splice"]
    <3>2. "pc" \in DOMAIN x /\ x.pc \notin Special /\ DOMAIN x = {"pc", "extras"} /\ x.extras = cart
      BY DEF Special
    <3>3. Become(t, x)
      BY <3>1
    <3> HIDE DEF x
    <3> QED BY <3>2, <3>3
  <2>2. CASE th[t].caller # "extra"
    <3>1. Become(t, [cpr |-> cart, pc |-> IF conf.sections THEN "plain" ELSE "splice"])
      BY <2>2 DEF make_cart_pairs, cart, epr
    <3>2. PICK here \in {"plain", "splice"} : Become(t, [cpr |-> cart, pc |-> here])
      BY <3>1
    <3> DEFINE x == [cpr |-> cart, pc |-> here]
    <3>3. "pc" \in DOMAIN x /\ x.pc \notin Special /\ DOMAIN x = {"pc", "cpr"} /\ x.cpr = cart
      BY DEF Special
    <3>4. Become(t, x)
      BY <3>2
    <3> HIDE DEF x
    <3> QED BY <3>3, <3>4
  <2> QED BY <2>1, <2>2
<1>8. ThreadOK(Updated(th[t], r), contable, names, DOMAIN uc_num)
  BY <1>6, <1>7
<1> QED BY <1>2, <1>7, <1>8, AloneAction

-----------------------------------------------------------------------------
(* Sections.                                                               *)
LEMMA DecorateOK ==
  ASSUME NEW T, NEW C, NEW N, NEW D, ThreadOK(T, C, N, D), T.pc \notin NoWord,
         NEW found, ListsIn(found, C)
  PROVE  ThreadOK(Updated(T, Decorate(found)), C, N, D)
<1> DEFINE r == Decorate(found)
<1>1. /\ "pc" \in DOMAIN r /\ r.pc \in {"pair exprs", "splice"} /\ r.node = found
      /\ DOMAIN r = {"pc", "node"} \/ DOMAIN r = {"pc", "node", "caller"}
  BY DEF Decorate
<1> HIDE DEF r
<1>2. r.pc \notin Special /\ ListsIn(r.node, C)
  BY <1>1 DEF Special
<1>3. ThreadOK(Updated(T, r), C, N, D)
  BY <1>1, <1>2, PairsCarried
<1> QED BY <1>3 DEF r

LEMMA PlainLookup ==
  ASSUME NEW t \in Threads, TableInv, lookup_plain_section(t)
  PROVE  TableInv'
<1>1. th[t].pc \notin NoWord
  BY DEF lookup_plain_section, At, NoWord
<1>2. ThreadOK(th[t], contable, names, DOMAIN uc_num) /\ word(t) \in Vocabulary
  BY <1>1, AtItsWord DEF TableInv, ThreadsOK
<1>3. CASE dict_tree[word(t)] # <<>>
  <2>1. IsSeq(dict_tree[word(t)]) /\ NodesIn(dict_tree[word(t)], contable)
    BY <1>2 DEF TableInv, CacheOK
  <2>2. 1 \in DOMAIN dict_tree[word(t)]
    <3>1. IsSeq(dict_tree[word(t)]) /\ dict_tree[word(t)] # <<>>
      BY <1>3, <2>1
    <3> QED BY ONLY <3>1 DEF IsSeq
  <2>3. ListsIn({dict_tree[word(t)]}, contable)
    BY <2>1, <2>2 DEF ListsIn
  <2>4. ThreadOK(Updated(th[t], Decorate({dict_tree[word(t)]})), contable, names, DOMAIN uc_num)
    BY <1>1, <1>2, <2>3, DecorateOK
  <2>5. Become(t, Decorate({dict_tree[word(t)]})) /\ UNCHANGED <<setting, shared>>
    BY <1>3 DEF lookup_plain_section
  <2> QED BY <2>4, <2>5, AloneAction
<1>4. CASE dict_tree[word(t)] = <<>>
  <2> DEFINE r == [pc |-> "next germ", germs |-> {word(t)} \cup ClassesOf(asp, word(t))]
  <2>1. Become(t, r) /\ UNCHANGED <<setting, shared>>
    BY <1>4 DEF lookup_plain_section
  <2>2. DOMAIN r = {"pc", "germs"} /\ r.pc = "next germ"
    OBVIOUS
  <2> HIDE DEF r
  <2>3. QuietChange(th[t], r)
    BY <1>1, <2>2, StaysQuietly DEF Work, Special
  <2>4. ThreadOK(Updated(th[t], r), contable, names, DOMAIN uc_num)
    BY <1>2, <2>3, QuietStep
  <2> QED BY <2>1, <2>4, AloneAction
<1> QED BY <1>3, <1>4

LEMMA SectionsListed ==
  ASSUME NEW T, NEW C, NEW N, NEW D, ThreadOK(T, C, N, D), T.pc \notin NoWord,
         NEW germs, NEW g, NEW good, \A s \in good : s.germ = g /\ WordOrder(s.conns)
  PROVE  ThreadOK(Updated(T, [pc |-> "make sections", germs |-> germs, sects |-> good,
                              links |-> Links(g, good)]), C, N, D)
<1> DEFINE r == [pc |-> "make sections", germs |-> germs, sects |-> good, links |-> Links(g, good)]
           X == Updated(T, r)
<1>1. DOMAIN T = Fields /\ CarriedIn(T, C) /\ AtWord(T)
  BY DEF ThreadOK
<1>2. /\ DOMAIN r = {"pc", "germs", "sects", "links"} /\ r.pc = "make sections"
      /\ r.sects = good /\ r.links = Links(g, good)
  OBVIOUS
<1> HIDE DEF r
<1>3. /\ X.pc = IF "pc" \in DOMAIN r THEN r.pc ELSE T.pc
      /\ X.sects = IF "sects" \in DOMAIN r THEN r.sects ELSE T.sects
      /\ X.links = IF "links" \in DOMAIN r THEN r.links ELSE T.links
  BY <1>1, UpdatedAll
<1>4. X.pc = "make sections" /\ X.sects = good /\ X.links = Links(g, good)
  BY ONLY <1>2, <1>3
<1>5. /\ DOMAIN X = Fields /\ X.sent = T.sent /\ X.i = T.i /\ X.result = T.result
      /\ X.exp = T.exp /\ X.all = T.all /\ X.cpr = T.cpr /\ X.extras = T.extras /\ X.node = T.node
  BY <1>1, <1>2, UpdatedAll
<1> HIDE DEF X
<1>6. CarriedIn(X, C)
  BY <1>1, <1>5 DEF CarriedIn
<1>7. NamedSo(X, N)
  <2>1. \A s \in good : \A k \in DOMAIN s.conns : link_of(s.germ, s.conns[k]) \in Links(g, good)
    BY DEF Links
  <2> QED BY <1>4, <2>1 DEF NamedSo
<1>8. WorkOrdered(X) /\ ResultNumbered(X, D)
  BY <1>4 DEF WorkOrdered, ResultNumbered
<1>9. AtWord(X)
  BY <1>1, <1>4, <1>5 DEF AtWord, NoWord
<1> QED BY <1>5, <1>6, <1>7, <1>8, <1>9 DEF ThreadOK, X, r

(* The expression of a section has the names of its links.                 *)
LEMMA SectionNames ==
  ASSUME NEW s, WordOrder(s.conns), NEW S,
         \A k \in DOMAIN s.conns : Name(link_of(s.germ, s.conns[k])) \in S
  PROVE  \A k \in DOMAIN section_exp(s) : section_exp(s)[k][1] \in S
<1> DEFINE before == {i \in DOMAIN s.conns : s.conns[i].dir = "-"}
           left == Cardinality(before)
           Nth(k) == IF k <= left THEN left + 1 - k ELSE k
<1>1. Len(s.conns) \in Nat /\ DOMAIN s.conns = 1..Len(s.conns)
  BY DEF WordOrder
<1>2. left \in Nat /\ left <= Len(s.conns)
  <2>1. IsFiniteSet(1..Len(s.conns)) /\ Cardinality(1..Len(s.conns)) = Len(s.conns)
    BY <1>1, FS_Interval
  <2>2. before \subseteq 1..Len(s.conns)
    BY <1>1
  <2> HIDE DEF before
  <2>3. IsFiniteSet(before) /\ Cardinality(before) <= Cardinality(1..Len(s.conns))
    BY <2>1, <2>2, FS_Subset
  <2>4. Cardinality(before) \in Nat
    BY <2>3, FS_CardinalityType
  <2> QED BY <2>1, <2>3, <2>4
<1>3. /\ DOMAIN section_exp(s) = DOMAIN s.conns
      /\ \A k \in DOMAIN s.conns : section_exp(s)[k][1] = Name(link_of(s.germ, s.conns[Nth(k)]))
  BY DEF section_exp
<1> HIDE DEF left
<1>4. \A k \in DOMAIN s.conns : Nth(k) \in DOMAIN s.conns
  BY <1>1, <1>2
<1> QED BY <1>3, <1>4

LEMMA SectionExps ==
  ASSUME NEW t \in Threads, TableInv, th[t].pc = "make sections", th[t].links = {},
         NEW s \in th[t].sects
  PROVE  \A k \in DOMAIN section_exp(s) : section_exp(s)[k][1] \in {e[2] : e \in names}
<1>1. ThreadOK(th[t], contable, names, DOMAIN uc_num)
  BY DEF TableInv, ThreadsOK
<1>2. WordOrder(s.conns)
  BY <1>1 DEF ThreadOK, WorkOrdered
<1>3. \A k \in DOMAIN s.conns : Has(names, link_of(s.germ, s.conns[k]))
  BY <1>1 DEF ThreadOK, NamedSo
<1>4. \A k \in DOMAIN s.conns : Name(link_of(s.germ, s.conns[k])) \in {e[2] : e \in names}
  BY <1>3, NameGiven DEF TableInv
<1> HIDE DEF section_exp
<1> QED BY <1>2, <1>4, SectionNames

LEMMA SectionsMade ==
  ASSUME NEW t \in Threads, TableInv, make_sect_exprs(t)
  PROVE  TableInv'
<1>1. th[t].pc \in {"next germ", "make sections"} /\ th[t].pc \notin NoWord
  BY DEF make_sect_exprs, At, NoWord
<1>2. ThreadOK(th[t], contable, names, DOMAIN uc_num)
  BY DEF TableInv, ThreadsOK
<1>3. /\ UNCHANGED <<setting, asp, issued, uc_num, num_uc>>
      /\ UNCHANGED <<dict_tree, tail, pair_dict>>
  BY DEF make_sect_exprs, caches
<1>4. contable \subseteq contable' => CacheOK'
  BY <1>3, MoreCached DEF TableInv
<1>5. ASSUME NEW g \in th[t].germs, contable' = contable,
             Become(t, [pc |-> "make sections", germs |-> th[t].germs \ {g},
                        sects |-> {s \in SectionsOf(asp, g) : s.ok},
                        links |-> Links(g, {s \in SectionsOf(asp, g) : s.ok})])
      PROVE  TableInv'
  <2>1. \A s \in {s \in SectionsOf(asp, g) : s.ok} : s.germ = g /\ WordOrder(s.conns)
    BY SpaceParts DEF SectionsOf, ContentOK
  <2>2. ThreadOK(Updated(th[t], [pc |-> "make sections", germs |-> th[t].germs \ {g},
                        sects |-> {s \in SectionsOf(asp, g) : s.ok},
                        links |-> Links(g, {s \in SectionsOf(asp, g) : s.ok})]),
                 contable, names, DOMAIN uc_num)
    BY <1>1, <1>2, <2>1, SectionsListed
  <2> QED BY <1>3, <1>4, <1>5, <2>2, GrowingAction
<1>6. CASE th[t].pc = "make sections" /\ NextLink(t, "name section") /\ contable' = contable
  <2>1. PICK l \in th[t].links :
          Become(t, IF get_lg_conn(l) # {} THEN [links |-> th[t].links \ {l}]
                    ELSE [link |-> l, pc |-> "name section"])
    BY <1>6 DEF NextLink
  <2>2. PICK r : /\ r = IF get_lg_conn(l) # {} THEN [links |-> th[t].links \ {l}]
                        ELSE [link |-> l, pc |-> "name section"]
                 /\ Become(t, r)
    BY <2>1
  <2>3. ThreadOK(Updated(th[t], r), contable, names, DOMAIN uc_num)
    BY <1>2, <1>6, <2>2, NextLinkOK
  <2> QED BY <1>3, <1>4, <1>6, <2>2, <2>3, GrowingAction
<1>7. ASSUME th[t].pc = "make sections", th[t].links = {},
             NEW made, made = {section_exp(s) : s \in th[t].sects},
             contable' = contable \cup UNION {{x[i][1] : i \in DOMAIN x} : x \in made},
             Become(t, [pc |-> "next germ", exp |-> th[t].exp \cup made])
      PROVE  TableInv'
  <2>1. \A x \in made : \A k \in DOMAIN x : x[k][1] \in {e[2] : e \in names}
    BY <1>7, SectionExps
  <2> DEFINE used == UNION {{x[i][1] : i \in DOMAIN x} : x \in made}
  <2>2. used \subseteq {e[2] : e \in names}
    BY <2>1
  <2>3. \A x \in made : \A i \in DOMAIN x : x[i][1] \in used
    OBVIOUS
  <2>4. contable' = contable \cup used
    BY <1>7
  <2> HIDE DEF used
  <2>5. contable \subseteq contable' /\ contable' \subseteq contable \cup {e[2] : e \in names}
    BY ONLY <2>2, <2>4
  <2>6. SectsIn(made, contable')
    BY ONLY <2>3, <2>4 DEF SectsIn
  <2>7. SectsIn(th[t].exp \cup made, contable')
    BY <1>2, <2>5, <2>6 DEF SectsIn, ThreadOK, CarriedIn
  <2>8. ThreadOK(th[t], contable', names, DOMAIN uc_num)
    BY <1>2, <2>5, InMore
  <2> DEFINE r == [pc |-> "next germ", exp |-> th[t].exp \cup made]
  <2>9. DOMAIN r = {"pc", "exp"} /\ r.pc = "next germ" /\ r.exp = th[t].exp \cup made
    OBVIOUS
  <2>10. Become(t, r)
    BY <1>7
  <2> HIDE DEF r
  <2>11. "pc" \in DOMAIN r /\ r.pc \notin Special
    BY <2>9 DEF Special
  <2>12. ThreadOK(Updated(th[t], r), contable', names, DOMAIN uc_num)
    BY <1>1, <2>7, <2>8, <2>9, <2>11, PairsCarried
  <2> QED BY <1>3, <1>4, <2>5, <2>10, <2>12, GrowingAction
<1> QED BY <1>5, <1>6, <1>7 DEF make_sect_exprs, At

-----------------------------------------------------------------------------
(* What is cached, and the results.                                        *)
LEMMA SeqPrefixed ==
  ASSUME NEW s, NEW e, IsSeq(s)
  PROVE  /\ IsSeq(<<e>> \o s) /\ 1 \in DOMAIN (<<e>> \o s)
         /\ \A j \in DOMAIN (<<e>> \o s) : (<<e>> \o s)[j] = e \/ \E k \in DOMAIN s : (<<e>> \o s)[j] = s[k]
<1> DEFINE S == {s[j] : j \in DOMAIN s} \cup {e}
           a == <<e>> \o s
<1>1. s \in Seq({s[j] : j \in DOMAIN s})
  BY DEF IsSeq
<1>2. s \in Seq(S) /\ <<e>> \in Seq(S) /\ Len(<<e>>) = 1 /\ <<e>>[1] = e
  BY <1>1
<1> HIDE DEF S
<1>3. Len(s) \in Nat /\ DOMAIN s = 1..Len(s)
  BY <1>2, LenProperties
<1>4. /\ a \in Seq(S) /\ Len(a) = 1 + Len(s)
      /\ \A i \in 1..(1 + Len(s)) : a[i] = IF i <= 1 THEN <<e>>[i] ELSE s[i - 1]
  BY <1>2, ConcatProperties
<1>5. DOMAIN a = 1..Len(a) /\ Len(a) \in Nat /\ a \in [1..Len(a) -> S]
  BY <1>4, LenProperties
<1> HIDE DEF a
<1>6. a \in Seq({a[j] : j \in DOMAIN a})
  BY <1>5
<1>7. 1 \in DOMAIN a
  BY <1>3, <1>4, <1>5
<1>8. ASSUME NEW j \in DOMAIN a PROVE a[j] = e \/ \E k \in DOMAIN s : a[j] = s[k]
  <2>1. j \in 1..(1 + Len(s)) /\ a[j] = IF j <= 1 THEN <<e>>[j] ELSE s[j - 1]
    BY <1>4, <1>5
  <2>2. CASE j = 1
    BY <1>2, <2>1, <2>2
  <2>3. CASE j # 1
    <3>1. j - 1 \in DOMAIN s /\ a[j] = s[j - 1]
      BY <1>3, <2>1, <2>3
    <3> QED BY <3>1
  <2> QED BY <2>2, <2>3
<1> QED BY <1>6, <1>7, <1>8 DEF IsSeq, a

LEMMA NodeInserted ==
  ASSUME NEW w \in Vocabulary, NEW exp, SectsIn(exp.sects, contable), CacheOK, make_dn(w, exp),
         contable' = contable, tail' = tail, pair_dict' = pair_dict
  PROVE  CacheOK' /\ ListsIn({dict_tree'[w]}, contable)
<1> DEFINE e == IF dict_tree[w] = <<>> THEN exp ELSE NullExp
           new == <<e>> \o dict_tree[w]
<1>1. dict_tree = [v \in Vocabulary |-> dict_tree[v]]
  BY DEF CacheOK
<1>2. dict_tree' = [dict_tree EXCEPT ![w] = new]
  BY DEF make_dn
<1>3. IsSeq(dict_tree[w]) /\ NodesIn(dict_tree[w], contable)
  BY DEF CacheOK
<1>4. SectsIn(e.sects, contable)
  BY DEF NullExp, DictNode, SectsIn
<1> HIDE DEF e
<1>5. /\ IsSeq(new) /\ 1 \in DOMAIN new
      /\ \A j \in DOMAIN new : new[j] = e \/ \E k \in DOMAIN dict_tree[w] : new[j] = dict_tree[w][k]
  BY <1>3, SeqPrefixed
<1> HIDE DEF new
<1>6. NodesIn(new, contable)
  BY <1>3, <1>4, <1>5 DEF NodesIn
<1>7. /\ dict_tree' = [v \in Vocabulary |-> dict_tree'[v]]
      /\ \A v \in Vocabulary : dict_tree'[v] = IF v = w THEN new ELSE dict_tree[v]
  BY <1>1, <1>2
<1>8. ListsIn({dict_tree'[w]}, contable)
  BY <1>5, <1>6, <1>7 DEF ListsIn
<1>9. \A v \in Vocabulary : IsSeq(dict_tree'[v]) /\ NodesIn(dict_tree'[v], contable)
  BY <1>5, <1>6, <1>7 DEF CacheOK
<1>10. CacheOK'
  <2>1. /\ tail = [v \in Vocabulary |-> tail[v]] /\ pair_dict = [v \in Vocabulary |-> pair_dict[v]]
        /\ \A v \in Vocabulary : ExpsIn(tail[v], contable)
        /\ \A v \in Vocabulary : \A x \in pair_dict[v] : ExpsIn(x, contable)
    BY DEF CacheOK
  <2>2. contable' = contable /\ tail' = tail /\ pair_dict' = pair_dict
    OBVIOUS
  <2> QED BY ONLY <1>7, <1>9, <2>1, <2>2 DEF CacheOK
<1> QED BY <1>8, <1>10

(* One thread moves, and a cache changes.                                  *)
LEMMA CachingAction ==
  ASSUME NEW t \in Threads, NEW r, TableInv, Become(t, r), CacheOK',
         UNCHANGED <<conf, store, asp, issued, connectors>>,
         ThreadOK(Updated(th[t], r), contable, names, DOMAIN uc_num)
  PROVE  TableInv'
<1>1. /\ conf' = conf /\ store' = store /\ asp' = asp /\ names' = names /\ stored' = stored
      /\ last_id' = last_id /\ contable' = contable /\ uc_num' = uc_num /\ num_uc' = num_uc
  BY DEF issued, connectors
<1>2. ThreadsOK' /\ th' = [u \in Threads |-> th'[u]]
  BY <1>1, OneMoves DEF Grows
<1>3. SpaceOK'
  BY <1>1, <1>2 DEF TableInv, SpaceOK
<1>4. NumbersOK' /\ EdgesOK'
  <2>1. NumbersOK /\ EdgesOK
    BY DEF TableInv
  <2>2. NumbersOK'
    BY ONLY <1>1, <2>1 DEF NumbersOK
  <2>3. EdgesOK'
    BY ONLY <1>1, <2>1 DEF EdgesOK
  <2> QED BY <2>2, <2>3
<1> QED BY <1>2, <1>3, <1>4 DEF TableInv

LEMMA PlainCached ==
  ASSUME NEW t \in Threads, TableInv, CachePlain(t)
  PROVE  TableInv'
<1> DEFINE exp == DictNode(conf.any_disjuncts, th[t].exp)
<1>1. th[t].pc \notin NoWord
  BY DEF CachePlain, At, NoWord
<1>2. ThreadOK(th[t], contable, names, DOMAIN uc_num) /\ word(t) \in Vocabulary
  BY <1>1, AtItsWord DEF TableInv, ThreadsOK
<1>3. UNCHANGED <<conf, store, asp, issued, connectors>> /\ tail' = tail /\ pair_dict' = pair_dict
  BY DEF CachePlain, setting
<1>4. CASE exp = NullExp
  <2>1. dict_tree' = dict_tree /\ Become(t, Decorate({}))
    BY <1>4 DEF CachePlain
  <2>2. ListsIn({}, contable)
    BY DEF ListsIn
  <2>3. ThreadOK(Updated(th[t], Decorate({})), contable, names, DOMAIN uc_num)
    BY <1>1, <1>2, <2>2, DecorateOK
  <2>4. CacheOK'
    BY <1>3, <2>1, MoreCached DEF TableInv, connectors
  <2> QED BY <1>3, <2>1, <2>3, <2>4, CachingAction
<1>5. CASE exp # NullExp
  <2>1. make_dn(word(t), exp) /\ Become(t, Decorate({dict_tree'[word(t)]}))
    BY <1>5 DEF CachePlain
  <2>2. SectsIn(exp.sects, contable)
    BY <1>2 DEF DictNode, ThreadOK, CarriedIn
  <2> HIDE DEF exp
  <2>3. CacheOK' /\ ListsIn({dict_tree'[word(t)]}, contable)
    BY <1>2, <1>3, <2>1, <2>2, NodeInserted DEF TableInv, connectors
  <2>4. ThreadOK(Updated(th[t], Decorate({dict_tree'[word(t)]})), contable, names, DOMAIN uc_num)
    BY <1>1, <1>2, <2>3, DecorateOK
  <2> QED BY <1>3, <2>1, <2>3, <2>4, CachingAction
<1> QED BY <1>4, <1>5

LEMMA ResultOK ==
  ASSUME NEW C, NEW nodes, NodesIn(nodes, C), NEW ps, ExpsIn(ps, C)
  PROVE  ResultIn(LookupResult(nodes, ps), C)
<1> DEFINE r == LookupResult(nodes, ps)
<1>1. r.sects = UNION {nodes[i].sects : i \in DOMAIN nodes} /\ r.pairs = UNION ps
  BY DEF LookupResult
<1> HIDE DEF r
<1>2. PairsIn(r.pairs, C)
  <2>1. \A x \in ps : \A c \in x : c[1] \in C
    BY DEF ExpsIn, PairsIn
  <2>2. \A c \in r.pairs : \E x \in ps : c \in x
    BY ONLY <1>1
  <2> QED BY <2>1, <2>2 DEF PairsIn
<1>3. SectsIn(r.sects, C)
  <2>1. \A i \in DOMAIN nodes : \A x \in nodes[i].sects : \A k \in DOMAIN x : x[k][1] \in C
    BY DEF NodesIn, SectsIn
  <2>2. \A x \in r.sects : \E i \in DOMAIN nodes : x \in nodes[i].sects
    BY ONLY <1>1
  <2> QED BY <2>1, <2>2 DEF SectsIn
<1> QED BY <1>2, <1>3 DEF ResultIn, r

(* The pairs become operand_next of the cached expression.                 *)
LEMMA TailSet ==
  ASSUME NEW w \in Vocabulary, CacheOK, NEW es, ExpsIn(es, contable), tail' = [tail EXCEPT ![w] = es],
         contable' = contable, dict_tree' = dict_tree, pair_dict' = pair_dict
  PROVE  CacheOK'
<1>1. /\ tail = [v \in Vocabulary |-> tail[v]]
      /\ \A v \in Vocabulary : ExpsIn(tail[v], contable)
  BY DEF CacheOK
<1>2. /\ tail' = [v \in Vocabulary |-> tail'[v]]
      /\ \A v \in Vocabulary : tail'[v] = IF v = w THEN es ELSE tail[v]
  BY <1>1
<1>3. \A v \in Vocabulary : ExpsIn(tail'[v], contable)
  BY <1>1, <1>2
<1>4. /\ dict_tree = [v \in Vocabulary |-> dict_tree[v]] /\ pair_dict = [v \in Vocabulary |-> pair_dict[v]]
      /\ \A v \in Vocabulary : IsSeq(dict_tree[v]) /\ NodesIn(dict_tree[v], contable)
      /\ \A v \in Vocabulary : \A x \in pair_dict[v] : ExpsIn(x, contable)
  BY DEF CacheOK
<1>5. contable' = contable /\ dict_tree' = dict_tree /\ pair_dict' = pair_dict
  OBVIOUS
<1> QED BY ONLY <1>2, <1>3, <1>4, <1>5 DEF CacheOK

LEMMA Spliced ==
  ASSUME NEW t \in Threads, TableInv, Splice(t)
  PROVE  TableInv'
<1> DEFINE T == th[t]
           w == word(t)
           first == UNION {{<<n[1]>>} : n \in T.node}
           before == IF first = {} THEN <<>> ELSE CHOOSE f \in first : TRUE
<1>1. T.pc \notin NoWord
  BY DEF Splice, At, NoWord
<1>2. ThreadOK(T, contable, names, DOMAIN uc_num) /\ w \in Vocabulary
  BY <1>1, AtItsWord DEF TableInv, ThreadsOK
<1>3. ListsIn(T.node, contable) /\ ExpsIn(T.cpr, contable) /\ ExpsIn(T.extras, contable)
  BY <1>2 DEF ThreadOK, CarriedIn
<1>4. UNCHANGED <<conf, store, asp, issued, connectors>> /\ pair_dict' = pair_dict /\ contable' = contable
  BY DEF Splice, connectors
<1>5. NodesIn(<<>>, contable) /\ ExpsIn({}, contable) /\ NodesIn(<<DictNode(TRUE, {})>>, contable)
  BY DEF NodesIn, ExpsIn, DictNode, SectsIn
<1>6. NodesIn(before, contable)
  <2>1. CASE first = {}
    BY <1>5, <2>1
  <2>2. CASE first # {}
    <3>1. PICK n \in T.node : before = <<n[1]>>
      BY <2>2
    <3>2. SectsIn(n[1].sects, contable)
      BY <1>3 DEF ListsIn, NodesIn
    <3> HIDE DEF before
    <3>3. \A j \in DOMAIN before : before[j] = n[1]
      BY ONLY <3>1
    <3> QED BY <3>2, <3>3 DEF NodesIn
  <2> QED BY <2>1, <2>2
<1>7. ASSUME NEW nodes, NodesIn(nodes, contable), NEW ps, ExpsIn(ps, contable)
      PROVE  ThreadOK(Updated(T, Copied(t, LookupResult(nodes, ps))), contable, names, DOMAIN uc_num)
  BY <1>1, <1>7, ResultOK, CopiedOK
<1>8. UNCHANGED <<dict_tree, tail, pair_dict>> => CacheOK'
  BY <1>4, MoreCached DEF TableInv
<1>9. CASE /\ Become(t, Copied(t, LookupResult(before, T.extras \cup T.cpr)))
           /\ UNCHANGED <<dict_tree, tail>>
  <2>1. ExpsIn(T.extras \cup T.cpr, contable)
    BY <1>3 DEF ExpsIn
  <2> HIDE DEF before
  <2>2. ThreadOK(Updated(T, Copied(t, LookupResult(before, T.extras \cup T.cpr))),
                 contable, names, DOMAIN uc_num)
    BY <1>6, <1>7, <2>1
  <2> QED BY <1>4, <1>8, <1>9, <2>2, CachingAction
<1>10. CASE /\ T.cpr = {} /\ UNCHANGED <<dict_tree, tail>>
            /\ \E n \in T.node : Become(t, Copied(t, LookupResult(n, {})))
  <2>1. PICK n \in T.node : Become(t, Copied(t, LookupResult(n, {})))
    BY <1>10
  <2>2. NodesIn(n, contable)
    BY <1>3 DEF ListsIn
  <2>3. ThreadOK(Updated(T, Copied(t, LookupResult(n, {}))), contable, names, DOMAIN uc_num)
    BY <1>5, <1>7, <2>2
  <2> QED BY <1>4, <1>8, <1>10, <2>1, <2>3, CachingAction
<1>11. CASE Become(t, [pc |-> "copy"]) /\ tail' = [tail EXCEPT ![w] = T.cpr] /\ dict_tree' = dict_tree
  <2>1. CacheOK'
    BY <1>2, <1>3, <1>4, <1>11, TailSet DEF TableInv
  <2>2. QuietChange(T, [pc |-> "copy"])
    BY <1>1, OnlyPc DEF Special
  <2>3. ThreadOK(Updated(T, [pc |-> "copy"]), contable, names, DOMAIN uc_num)
    BY <1>2, <2>2, QuietStep
  <2> QED BY <1>4, <1>11, <2>1, <2>3, CachingAction
<1>12. CASE Become(t, Copied(t, LookupResult(<<>>, T.cpr))) /\ UNCHANGED <<dict_tree, tail>>
  <2>1. ThreadOK(Updated(T, Copied(t, LookupResult(<<>>, T.cpr))), contable, names, DOMAIN uc_num)
    BY <1>3, <1>5, <1>7
  <2> QED BY <1>4, <1>8, <1>12, <2>1, CachingAction
<1>13. CASE /\ Become(t, Copied(t, LookupResult(<<DictNode(TRUE, {})>>, {}))) /\ tail' = tail
            /\ make_dn(w, DictNode(TRUE, {})) \/ dict_tree' = dict_tree
  <2>1. ThreadOK(Updated(T, Copied(t, LookupResult(<<DictNode(TRUE, {})>>, {}))),
                 contable, names, DOMAIN uc_num)
    BY <1>5, <1>7
  <2>2. SectsIn(DictNode(TRUE, {}).sects, contable)
    BY DEF DictNode, SectsIn
  <2>3. CASE make_dn(w, DictNode(TRUE, {}))
    <3>1. CacheOK'
      BY <1>2, <1>4, <1>13, <2>2, <2>3, NodeInserted DEF TableInv
    <3> QED BY <1>4, <1>13, <2>1, <3>1, CachingAction
  <2>4. CASE dict_tree' = dict_tree
    <3>1. CacheOK'
      BY <1>4, <1>8, <1>13, <2>4
    <3> QED BY <1>4, <1>13, <2>1, <3>1, CachingAction
  <2> QED BY <1>13, <2>3, <2>4
<1>14. CASE UNCHANGED <<dict_tree, tail, th>>
  <2>1. /\ conf' = conf /\ store' = store /\ asp' = asp /\ names' = names /\ stored' = stored
        /\ last_id' = last_id /\ contable' = contable /\ uc_num' = uc_num /\ num_uc' = num_uc
        /\ th' = th /\ dict_tree' = dict_tree /\ tail' = tail /\ pair_dict' = pair_dict
    BY <1>4, <1>14 DEF issued, connectors
  <2>2. SpaceOK /\ EdgesOK /\ CacheOK /\ NumbersOK /\ ThreadsOK
    BY DEF TableInv
  <2>3. SpaceOK'
    BY ONLY <2>1, <2>2 DEF SpaceOK
  <2>4. EdgesOK'
    BY ONLY <2>1, <2>2 DEF EdgesOK
  <2>5. CacheOK'
    BY ONLY <2>1, <2>2 DEF CacheOK
  <2>6. NumbersOK'
    BY ONLY <2>1, <2>2 DEF NumbersOK
  <2>7. ThreadsOK'
    BY ONLY <2>1, <2>2 DEF ThreadsOK
  <2> QED BY <2>3, <2>4, <2>5, <2>6, <2>7 DEF TableInv
<1>15. \/ /\ T.extras # {} /\ Become(t, Copied(t, LookupResult(before, T.extras \cup T.cpr)))
          /\ UNCHANGED <<dict_tree, tail>>
       \/ /\ T.cpr = {} /\ tail' = tail /\ dict_tree' = dict_tree
          /\ \E n \in T.node : Become(t, Copied(t, LookupResult(n, {})))
       \/ Become(t, [pc |-> "copy"]) /\ tail' = [tail EXCEPT ![w] = T.cpr] /\ dict_tree' = dict_tree
       \/ Become(t, Copied(t, LookupResult(<<>>, T.cpr))) /\ UNCHANGED <<dict_tree, tail>>
       \/ /\ Become(t, Copied(t, LookupResult(<<DictNode(TRUE, {})>>, {}))) /\ tail' = tail
          /\ make_dn(w, DictNode(TRUE, {})) \/ dict_tree' = dict_tree
       \/ UNCHANGED <<dict_tree, tail, th>>
  <2> HIDE DEF before
  <2>1. \/ /\ T.extras # {} /\ Become(t, Copied(t, LookupResult(before, T.extras \cup T.cpr)))
           /\ UNCHANGED <<dict_tree, tail>>
        \/ /\ IF T.cpr = {}
              THEN (\E n \in T.node : Become(t, Copied(t, LookupResult(n, {})))) /\ tail' = tail
              ELSE Become(t, [pc |-> "copy"]) /\ tail' = [tail EXCEPT ![w] = T.cpr]
           /\ dict_tree' = dict_tree
        \/ Become(t, Copied(t, LookupResult(<<>>, T.cpr))) /\ UNCHANGED <<dict_tree, tail>>
        \/ /\ IF ~conf.sections /\ conf.any_disjuncts
              THEN /\ IF dict_tree[w] = <<>> THEN make_dn(w, DictNode(TRUE, {})) ELSE dict_tree' = dict_tree
                   /\ Become(t, Copied(t, LookupResult(<<DictNode(TRUE, {})>>, {})))
              ELSE UNCHANGED <<dict_tree, th>>
           /\ tail' = tail
    BY DEF Splice, before
  <2> QED BY <2>1
<1> QED BY <1>9, <1>10, <1>11, <1>12, <1>13, <1>14, <1>15

LEMMA ExpCopied ==
  ASSUME NEW t \in Threads, TableInv, copy_Exp(t)
  PROVE  TableInv'
<1>1. th[t].pc \notin NoWord
  BY DEF copy_Exp, At, NoWord
<1>2. ThreadOK(th[t], contable, names, DOMAIN uc_num) /\ word(t) \in Vocabulary
  BY <1>1, AtItsWord DEF TableInv, ThreadsOK
<1>3. PICK n \in th[t].node : Become(t, Copied(t, LookupResult(n, tail[word(t)])))
  BY DEF copy_Exp
<1>4. NodesIn(n, contable) /\ ExpsIn(tail[word(t)], contable)
  <2>1. ExpsIn(tail[word(t)], contable)
    BY <1>2 DEF TableInv, CacheOK
  <2>2. NodesIn(n, contable)
    BY <1>2 DEF ThreadOK, CarriedIn, ListsIn
  <2> QED BY <2>1, <2>2
<1>5. ThreadOK(Updated(th[t], Copied(t, LookupResult(n, tail[word(t)]))), contable, names, DOMAIN uc_num)
  BY <1>1, <1>4, ResultOK, CopiedOK
<1>6. UNCHANGED <<setting, shared>>
  BY DEF copy_Exp
<1> QED BY <1>3, <1>5, <1>6, AloneAction

-----------------------------------------------------------------------------
(* The connectors without a number are numbered on from the last one.      *)
LEMMA NumberedOn ==
  ASSUME NEW new, IsFiniteSet(new), new \subseteq Nat, num_uc \in Nat
  PROVE  /\ DOMAIN Numbered(new) = new
         /\ \A n \in new : /\ Numbered(new)[n] \in Nat /\ Numbered(new)[n] >= num_uc
                           /\ Numbered(new)[n] < num_uc + Cardinality(new)
         /\ \A m, n \in new : Numbered(new)[m] = Numbered(new)[n] => m = n
         /\ num_uc + Cardinality(new) \in Nat
<1> DEFINE Below(n) == {m \in new : m < n}
<1>1. ASSUME NEW n \in new
      PROVE  /\ IsFiniteSet(Below(n)) /\ Cardinality(Below(n)) \in Nat /\ n \notin Below(n)
             /\ Cardinality(Below(n)) <= Cardinality(new)
             /\ Cardinality(Below(n)) = Cardinality(new) => Below(n) = new
  <2>1. Below(n) \in SUBSET new /\ n \notin Below(n)
    OBVIOUS
  <2> HIDE DEF Below
  <2>2. IsFiniteSet(Below(n)) /\ Cardinality(Below(n)) <= Cardinality(new)
        /\ (Cardinality(new) = Cardinality(Below(n)) => new = Below(n))
    BY <2>1, FS_Subset
  <2>3. Cardinality(Below(n)) \in Nat
    BY <2>2, FS_CardinalityType
  <2> QED BY <2>1, <2>2, <2>3
<1>2. Cardinality(new) \in Nat
  BY FS_CardinalityType
<1>3. DOMAIN Numbered(new) = new /\ \A n \in new : Numbered(new)[n] = num_uc + Cardinality(Below(n))
  BY DEF Numbered
<1>4. ASSUME NEW m \in new, NEW n \in new, m < n
      PROVE  Cardinality(Below(m)) < Cardinality(Below(n))
  <2>1. Below(m) \in SUBSET Below(n) /\ m \in Below(n) /\ m \notin Below(m)
    <3>1. m \in Nat /\ n \in Nat /\ \A k \in new : k \in Nat
      OBVIOUS
    <3>2. m < n /\ ~(m < m)
      BY <1>4, <3>1
    <3>3. \A k \in new : k < m => k < n
      BY ONLY <3>1, <3>2
    <3> QED BY <3>2, <3>3
  <2> HIDE DEF Below
  <2>2. IsFiniteSet(Below(n)) /\ Cardinality(Below(n)) \in Nat /\ Cardinality(Below(m)) \in Nat
    BY <1>1
  <2>3. Cardinality(Below(m)) <= Cardinality(Below(n))
        /\ (Cardinality(Below(n)) = Cardinality(Below(m)) => Below(n) = Below(m))
    BY <2>1, <2>2, FS_Subset
  <2>4. Cardinality(Below(n)) # Cardinality(Below(m))
    BY <2>1, <2>3
  <2> QED BY ONLY <2>2, <2>3, <2>4
<1> HIDE DEF Below
<1>5. ASSUME NEW n \in new
      PROVE  /\ Numbered(new)[n] \in Nat /\ Numbered(new)[n] >= num_uc
             /\ Numbered(new)[n] < num_uc + Cardinality(new)
  <2>1. Numbered(new)[n] = num_uc + Cardinality(Below(n))
    BY <1>3
  <2>2. Cardinality(Below(n)) \in Nat /\ Cardinality(Below(n)) <= Cardinality(new)
        /\ Cardinality(Below(n)) # Cardinality(new)
    BY <1>1
  <2> QED BY <1>2, <2>1, <2>2
<1>6. ASSUME NEW m \in new, NEW n \in new, Numbered(new)[m] = Numbered(new)[n]
      PROVE  m = n
  <2>1. num_uc + Cardinality(Below(m)) = num_uc + Cardinality(Below(n))
    BY <1>3, <1>6
  <2>2. Cardinality(Below(m)) \in Nat /\ Cardinality(Below(n)) \in Nat
    BY <1>1
  <2>3. Cardinality(Below(m)) = Cardinality(Below(n))
    BY <2>1, <2>2
  <2>4. ~(m < n) /\ ~(n < m)
    <3>1. m < n => Cardinality(Below(m)) < Cardinality(Below(n))
      BY <1>4
    <3>2. n < m => Cardinality(Below(n)) < Cardinality(Below(m))
      BY <1>4
    <3> QED BY ONLY <2>2, <2>3, <3>1, <3>2
  <2>5. m \in Nat /\ n \in Nat
    OBVIOUS
  <2> QED BY ONLY <2>4, <2>5
<1> QED BY <1>2, <1>3, <1>5, <1>6

LEMMA LookupDone ==
  ASSUME NEW T, NEW C, NEW N, NEW D, ThreadOK(T, C, N, D), C \subseteq D, T.pc = "end"
  PROVE  ThreadOK(Updated(T, [pc |-> "done", sent_words |-> {}]), C, N, D)
<1> DEFINE r == [pc |-> "done", sent_words |-> {}]
           X == Updated(T, r)
<1>1. DOMAIN T = Fields /\ CarriedIn(T, C) /\ AtWord(T)
  BY DEF ThreadOK
<1>2. DOMAIN r = {"pc", "sent_words"} /\ r.pc = "done"
  OBVIOUS
<1> HIDE DEF r
<1>3. X.pc = IF "pc" \in DOMAIN r THEN r.pc ELSE T.pc
  BY <1>1, UpdatedAll
<1>4. X.pc = "done"
  BY ONLY <1>2, <1>3
<1>5. /\ DOMAIN X = Fields /\ X.sent = T.sent /\ X.i = T.i /\ X.result = T.result
      /\ X.exp = T.exp /\ X.all = T.all /\ X.cpr = T.cpr /\ X.extras = T.extras /\ X.node = T.node
  BY <1>1, <1>2, UpdatedAll
<1> HIDE DEF X
<1>6. CarriedIn(X, C)
  BY <1>1, <1>5 DEF CarriedIn
<1>7. NamedSo(X, N) /\ WorkOrdered(X)
  BY <1>4 DEF NamedSo, WorkOrdered
<1>8. ResultNumbered(X, D)
  BY <1>1, <1>5 DEF CarriedIn, ResultNumbered, ResultIn, PairsIn, SectsIn
<1>9. AtWord(X)
  BY <1>1, <1>4, <1>5 DEF AtWord, NoWord
<1> QED BY <1>5, <1>6, <1>7, <1>8, <1>9 DEF ThreadOK, X, r

LEMMA LookupEnds ==
  ASSUME NEW t \in Threads, TableInv, as_end_lookup(t)
  PROVE  TableInv'
<1> DEFINE new == contable \ DOMAIN uc_num
<1>1. UNCHANGED <<setting, asp, issued, caches, contable>>
  BY DEF as_end_lookup
<1>2. /\ conf' = conf /\ store' = store /\ asp' = asp /\ names' = names /\ stored' = stored
      /\ last_id' = last_id /\ contable' = contable
      /\ dict_tree' = dict_tree /\ tail' = tail /\ pair_dict' = pair_dict
  BY <1>1 DEF setting, issued, caches
<1>3. NumbersOK
  BY DEF TableInv
<1>4. IsFiniteSet(new) /\ new \subseteq Nat /\ num_uc \in Nat /\ DOMAIN uc_num \subseteq contable
  BY <1>3, FS_Difference DEF NumbersOK
<1>5. /\ DOMAIN uc_num' = contable /\ num_uc' = num_uc + Cardinality(new)
      /\ \A n \in contable : uc_num'[n] = IF n \in new THEN Numbered(new)[n] ELSE uc_num[n]
  BY <1>4 DEF as_end_lookup
<1>6. NumbersOK'
  <2> HIDE DEF new
  <2>1. /\ \A n \in new : /\ Numbered(new)[n] \in Nat /\ Numbered(new)[n] >= num_uc
                          /\ Numbered(new)[n] < num_uc'
        /\ \A m, n \in new : Numbered(new)[m] = Numbered(new)[n] => m = n
        /\ num_uc' \in Nat /\ num_uc' >= num_uc
    <3>1. /\ \A n \in new : /\ Numbered(new)[n] \in Nat /\ Numbered(new)[n] >= num_uc
                            /\ Numbered(new)[n] < num_uc + Cardinality(new)
          /\ \A m, n \in new : Numbered(new)[m] = Numbered(new)[n] => m = n
          /\ num_uc + Cardinality(new) \in Nat
      BY <1>4, NumberedOn
    <3>2. Cardinality(new) \in Nat
      BY <1>4, FS_CardinalityType
    <3>3. num_uc + Cardinality(new) >= num_uc
      BY <1>4, <3>2
    <3> QED BY <1>5, <3>1, <3>3
  <2>2. \A n \in contable : n \notin new => n \in DOMAIN uc_num
    BY DEF new
  <2>3. \A m \in DOMAIN uc_num : uc_num[m] \in Nat /\ uc_num[m] < num_uc
    BY <1>3 DEF NumbersOK
  <2>4. ASSUME NEW n \in contable PROVE uc_num'[n] \in Nat /\ uc_num'[n] < num_uc'
    <3>1. CASE n \in new
      BY <1>5, <2>1, <3>1
    <3>2. CASE n \notin new
      <4>1. uc_num'[n] = uc_num[n] /\ uc_num[n] \in Nat /\ uc_num[n] < num_uc
        BY <1>5, <2>2, <2>3, <3>2
      <4>2. num_uc' \in Nat /\ num_uc \in Nat /\ num_uc' >= num_uc
        BY <1>4, <2>1
      <4> QED BY ONLY <4>1, <4>2
    <3> QED BY <3>1, <3>2
  <2>5. ASSUME NEW m \in contable, NEW n \in contable, uc_num'[m] = uc_num'[n]
        PROVE  m = n
    <3>1. \A k \in contable : k \in new => uc_num'[k] = Numbered(new)[k] /\ uc_num'[k] >= num_uc
      BY <1>5, <2>1
    <3>2. \A k \in contable : k \notin new => /\ k \in DOMAIN uc_num /\ uc_num'[k] = uc_num[k]
                                              /\ uc_num'[k] < num_uc
      BY <1>5, <2>2, <2>3
    <3>3. uc_num'[m] \in Nat /\ num_uc \in Nat /\ uc_num'[n] \in Nat
      BY <1>4, <2>4
    <3>4. m \in new <=> n \in new
      <4>1. \A k \in contable : k \in new => ~(uc_num'[k] < num_uc)
        <5>1. \A k \in contable : uc_num'[k] \in Nat
          BY <2>4
        <5> QED BY <1>4, <3>1, <5>1
      <4> QED BY <2>5, <3>2, <4>1
    <3>5. CASE m \in new
      BY <2>1, <2>5, <3>1, <3>4, <3>5
    <3>6. CASE m \notin new
      <4>1. \A i, j \in DOMAIN uc_num : uc_num[i] = uc_num[j] => i = j
        BY <1>3 DEF NumbersOK
      <4> QED BY <2>5, <3>2, <3>4, <3>6, <4>1
    <3> QED BY <3>5, <3>6
  <2>6. AnyId \in contable' /\ contable' \subseteq Nat /\ IsFiniteSet(contable')
    <3>1. AnyId \in contable /\ contable \subseteq Nat /\ IsFiniteSet(contable)
      BY <1>3 DEF NumbersOK
    <3> QED BY <1>2, <3>1
  <2>7. DOMAIN uc_num' \subseteq contable' /\ num_uc' \in Nat
    BY <1>2, <1>5, <2>1
  <2>8. \A m \in DOMAIN uc_num' : uc_num'[m] \in Nat /\ uc_num'[m] < num_uc'
    BY <1>5, <2>4
  <2>9. \A m, n \in DOMAIN uc_num' : uc_num'[m] = uc_num'[n] => m = n
    BY <1>5, <2>5
  <2> QED BY <2>6, <2>7, <2>8, <2>9 DEF NumbersOK
<1>7. Grows
  BY <1>2, <1>4, <1>5 DEF Grows
<1>8. ThreadOK(th[t], contable, names, contable)
  <2>1. ThreadOK(th[t], contable, names, DOMAIN uc_num)
    BY DEF TableInv, ThreadsOK
  <2> QED BY <1>4, <2>1, InMore
<1>9. ThreadOK(Updated(th[t], [pc |-> "done", sent_words |-> {}]), contable, names, contable)
  BY <1>8, LookupDone DEF as_end_lookup, At
<1>10. ThreadOK(Updated(th[t], [pc |-> "done", sent_words |-> {}]), contable', names', DOMAIN uc_num')
  BY <1>2, <1>5, <1>9
<1>11. Become(t, [pc |-> "done", sent_words |-> {}])
  BY DEF as_end_lookup
<1>12. ThreadsOK' /\ th' = [u \in Threads |-> th'[u]]
  BY <1>7, <1>10, <1>11, OneMoves
<1>13. SpaceOK'
  BY <1>2, <1>12 DEF TableInv, SpaceOK
<1>14. CacheOK' /\ EdgesOK'
  <2>1. CacheOK /\ EdgesOK
    BY DEF TableInv
  <2>2. CacheOK'
    BY ONLY <1>2, <2>1 DEF CacheOK
  <2>3. EdgesOK'
    BY ONLY <1>2, <2>1 DEF EdgesOK
  <2> QED BY <2>2, <2>3
<1> QED BY <1>6, <1>12, <1>13, <1>14 DEF TableInv

-----------------------------------------------------------------------------
(* Opening the dictionary, and the categories for generation.              *)
LEMMA EmptySpaceOK ==
  ContentOK(EmptySpace) /\ AtomShape(EmptySpace)
  BY FS_EmptySet DEF ContentOK, AtomShape, EmptySpace

LEMMA Opened ==
  ASSUME conf \in Settings, ContentOK(store), as_open
  PROVE  TableInv
<1>1. ContentOK(asp) /\ AtomShape(asp)
  <2>1. ContentOK(Attached(store)) /\ AtomShape(Attached(store))
    BY DEF ContentOK, AtomShape, Attached
  <2> QED BY <2>1, EmptySpaceOK DEF as_open
<1>2. th = [t \in Threads |-> Idle(conf.rounds)]
  BY DEF as_open
<1>3. SpaceOK
  BY <1>1, <1>2 DEF SpaceOK, AtomShape
<1>4. EdgesOK
  BY FS_EmptySet DEF as_open, EdgesOK
<1>5. CacheOK
  <2>1. /\ dict_tree = [w \in Vocabulary |-> <<>>] /\ tail = [w \in Vocabulary |-> {}]
        /\ pair_dict = [w \in Vocabulary |-> {}]
    BY DEF as_open
  <2>2. IsSeq(<<>>) /\ NodesIn(<<>>, contable) /\ ExpsIn({}, contable)
    BY EmptySeq DEF IsSeq, NodesIn, ExpsIn
  <2> QED BY <2>1, <2>2 DEF CacheOK
<1>6. NumbersOK
  <2>1. contable = {AnyId} /\ uc_num = <<>> /\ num_uc = 0
    BY DEF as_open, make_any_exprs
  <2>2. IsFiniteSet({AnyId})
    BY FS_Singleton
  <2> QED BY <2>1, <2>2, AtomSettings DEF NumbersOK
<1>7. ThreadsOK
  <2>1. IdleThread(Idle(conf.rounds))
    <3>1. DOMAIN Idle(conf.rounds) = Fields
      BY DEF Idle, Fields
    <3> QED BY <3>1, IdleOK
  <2> QED BY <1>2, <2>1, IdleThreadOK DEF ThreadsOK
<1> QED BY <1>3, <1>4, <1>5, <1>6, <1>7 DEF TableInv

LEMMA AtFirst ==
  ASSUME AtomInit
  PROVE  TableInv
<1>1. conf \in Settings
  BY AtomSettings DEF AtomInit
<1>2. ContentOK(store)
  <2>1. CASE store \in Stores
    BY <2>1, AtomContents DEF ContentOK
  <2>2. CASE store = [sections |-> {}, members |-> {}, pairs |-> {}]
    BY <2>2, FS_EmptySet DEF ContentOK
  <2> QED BY <2>1, <2>2 DEF AtomInit
<1> QED BY <1>1, <1>2, Opened DEF AtomInit

LEMMA Reopened ==
  ASSUME TableInv, Reopen
  PROVE  TableInv'
<1>1. conf' = conf /\ store' = store /\ stored' = stored /\ last_id' = 0
  BY DEF Reopen
<1>2. th' = [t \in Threads |-> Idle(conf.rounds)]
  BY DEF Reopen
<1>3. SpaceOK'
  <2>1. conf' \in Settings /\ ContentOK(store')
    BY <1>1, SpaceParts
  <2>2. ContentOK(asp') /\ AtomShape(asp')
    BY SpaceParts, EmptySpaceOK DEF Reopen
  <2> QED BY <1>2, <2>1, <2>2 DEF SpaceOK, AtomShape
<1>4. EdgesOK'
  <2>1. EdgesOK
    BY SpaceParts
  <2>2. names' = names \/ names' = {}
    BY DEF Reopen
  <2> QED BY <1>1, <2>1, <2>2, FS_EmptySet DEF EdgesOK
<1>5. CacheOK'
  <2>1. /\ dict_tree' = [w \in Vocabulary |-> <<>>] /\ tail' = [w \in Vocabulary |-> {}]
        /\ pair_dict' = [w \in Vocabulary |-> {}]
    BY DEF Reopen
  <2>2. IsSeq(<<>>) /\ NodesIn(<<>>, contable') /\ ExpsIn({}, contable')
    BY EmptySeq DEF IsSeq, NodesIn, ExpsIn
  <2> QED BY <2>1, <2>2 DEF CacheOK
<1>6. NumbersOK'
  <2>1. contable' = {AnyId} /\ uc_num' = <<>> /\ num_uc' = 0
    BY DEF Reopen
  <2>2. IsFiniteSet({AnyId})
    BY FS_Singleton
  <2> QED BY <2>1, <2>2, AtomSettings DEF NumbersOK
<1>7. ThreadsOK'
  <2>1. IdleThread(Idle(conf.rounds))
    <3>1. DOMAIN Idle(conf.rounds) = Fields
      BY DEF Idle, Fields
    <3> QED BY <3>1, IdleOK
  <2> QED BY <1>2, <2>1, IdleThreadOK DEF ThreadsOK
<1> QED BY <1>3, <1>4, <1>5, <1>6, <1>7 DEF TableInv

LEMMA CacheCleared ==
  ASSUME TableInv, as_clear_cache
  PROVE  TableInv'
<1>1. /\ conf' = conf /\ store' = store /\ asp' = asp /\ names' = names /\ stored' = stored
      /\ last_id' = last_id /\ contable' = contable /\ uc_num' = uc_num /\ num_uc' = num_uc
      /\ th' = th /\ dict_tree' = dict_tree /\ tail' = tail /\ pair_dict' = pair_dict
  BY DEF as_clear_cache, shared, issued, caches, connectors
<1>2. SpaceOK /\ EdgesOK /\ CacheOK /\ NumbersOK /\ ThreadsOK
  BY DEF TableInv
<1>3. SpaceOK'
  BY ONLY <1>1, <1>2 DEF SpaceOK
<1>4. EdgesOK'
  BY ONLY <1>1, <1>2 DEF EdgesOK
<1>5. CacheOK'
  BY ONLY <1>1, <1>2 DEF CacheOK
<1>6. NumbersOK'
  BY ONLY <1>1, <1>2 DEF NumbersOK
<1>7. ThreadsOK'
  BY ONLY <1>1, <1>2 DEF ThreadsOK
<1> QED BY <1>3, <1>4, <1>5, <1>6, <1>7 DEF TableInv

(* The links of finitely many sections are finitely many.                  *)
LEMMA LinksFinite ==
  ASSUME NEW s, WordOrder(s.conns)
  PROVE  IsFiniteSet(Links(s.germ, {s}))
<1> DEFINE I == 1..Len(s.conns)
           S == Links(s.germ, {s})
           f == [k \in I |-> link_of(s.germ, s.conns[k])]
<1>1. DOMAIN s.conns = I /\ Len(s.conns) \in Nat
  BY DEF WordOrder
<1>2. IsFiniteSet(I)
  BY <1>1, FS_Interval
<1>3. S = {link_of(s.germ, s.conns[k]) : k \in I}
  BY <1>1 DEF Links
<1>4. f \in Surjection(I, S)
  BY <1>3 DEF Surjection
<1> HIDE DEF f, I, S
<1>5. IsFiniteSet(S)
  BY <1>2, <1>4, FS_Surjection
<1> QED BY <1>5 DEF S

LEMMA AllLinksFinite ==
  ASSUME NEW good, IsFiniteSet(good), \A s \in good : WordOrder(s.conns)
  PROVE  IsFiniteSet(UNION {Links(s.germ, {s}) : s \in good})
<1> DEFINE S == {Links(s.germ, {s}) : s \in good}
           f == [s \in good |-> Links(s.germ, {s})]
<1>1. \A s \in good : IsFiniteSet(Links(s.germ, {s}))
  BY LinksFinite
<1>2. f \in Surjection(good, S)
  BY DEF Surjection
<1>3. \A x \in S : IsFiniteSet(x)
  BY <1>1
<1> HIDE DEF f, S
<1>4. IsFiniteSet(S)
  BY <1>2, FS_Surjection
<1>5. IsFiniteSet(UNION S)
  BY <1>3, <1>4, FS_UNION
<1> QED BY <1>5 DEF S

LEMMA Listed ==
  ASSUME NEW S, IsFiniteSet(S)
  PROVE  /\ Cardinality(S) \in Nat /\ SetToSeq(S) \in [1..Cardinality(S) -> S]
         /\ \A j, k \in 1..Cardinality(S) : SetToSeq(S)[j] = SetToSeq(S)[k] => j = k
<1>1. Cardinality(S) \in Nat /\ ExistsBijection(1..Cardinality(S), S)
  BY FS_CardinalityType
<1>2. \E f \in [1..Cardinality(S) -> S] : IsInjective(f)
  BY <1>1 DEF ExistsBijection, Bijection, Injection
<1>3. SetToSeq(S) \in [1..Cardinality(S) -> S] /\ IsInjective(SetToSeq(S))
  BY <1>2 DEF SetToSeq
<1> QED BY <1>1, <1>3 DEF IsInjective

(* The names that the categories give.                                     *)
CategoryId(k) == IF k - 1 < AnyId THEN k - 1 ELSE k
Given(new) == {<<new[k], CategoryId(k)>> : k \in DOMAIN new}
Sections == UNION {Links(s.germ, {s}) : s \in {x \in asp'.sections : x.ok}}
Known == IF Fetches THEN names \cup {e \in stored : e[1] \in Sections} ELSE names
Unnamed == {l \in Sections : \A e \in Known : e[1] # l}

LEMMA CategoryParts ==
  ASSUME TableInv, as_add_categories
  PROVE  /\ ContentOK(asp') /\ AtomShape(asp') /\ conf' = conf
         /\ IsFiniteSet(Unnamed)
         /\ \E new : /\ new = SetToSeq(Unnamed)
                     /\ names' = Known \cup Given(new)
                     /\ contable' = contable \cup {e[2] : e \in {x \in names' : x[1] \in Sections}}
                     /\ last_id' = IF new = <<>> THEN 0 ELSE CategoryId(Len(new)) + 1
                     /\ stored' = IF Fetches THEN stored \cup Given(new) ELSE stored
<1>1. ContentOK(asp') /\ AtomShape(asp')
  <2>1. ContentOK(asp) /\ ContentOK(store) /\ AtomShape(asp)
    BY SpaceParts
  <2>2. CASE asp' = asp
    BY <2>1, <2>2
  <2>3. CASE \E ws : asp' = [asp EXCEPT !.sections = store.sections, !.words = ws]
    <3>1. PICK ws : asp' = [asp EXCEPT !.sections = store.sections, !.words = ws]
      BY <2>3
    <3>2. asp'.sections = store.sections /\ asp'.pairs = asp.pairs /\ AtomShape(asp')
      BY <2>1, <3>1 DEF AtomShape
    <3> QED BY <2>1, <3>2 DEF ContentOK
  <2> QED BY <2>2, <2>3 DEF as_add_categories
<1>2. conf' = conf
  BY DEF as_add_categories
<1>3. IsFiniteSet(Unnamed)
  <2> DEFINE good == {x \in asp'.sections : x.ok}
  <2>1. IsFiniteSet(good) /\ \A s \in good : WordOrder(s.conns)
    BY <1>1, FS_Subset DEF ContentOK
  <2>2. IsFiniteSet(UNION {Links(s.germ, {s}) : s \in good})
    BY <2>1, AllLinksFinite
  <2>3. IsFiniteSet(Sections)
    BY <2>2 DEF Sections
  <2>4. Unnamed \subseteq Sections
    BY DEF Unnamed
  <2> QED BY <2>3, <2>4, FS_Subset
<1> DEFINE new == SetToSeq(Unnamed)
<1>4. /\ names' = Known \cup Given(new)
      /\ contable' = contable \cup {e[2] : e \in {x \in names' : x[1] \in Sections}}
      /\ last_id' = IF new = <<>> THEN 0 ELSE CategoryId(Len(new)) + 1
      /\ stored' = IF Fetches THEN stored \cup Given(new) ELSE stored
  <2> DEFINE given(nw) == {<<nw[k], IF k - 1 < AnyId THEN k - 1 ELSE k>> : k \in DOMAIN nw}
  <2>1. /\ names' = Known \cup given(new)
        /\ contable' = contable \cup {e[2] : e \in {x \in names' : x[1] \in Sections}}
        /\ last_id' = IF new = <<>> THEN 0 ELSE (IF Len(new) - 1 < AnyId THEN Len(new) - 1 ELSE Len(new)) + 1
        /\ stored' = IF Fetches THEN stored \cup given(new) ELSE stored
    <3> DEFINE known(ls) == IF Fetches THEN names \cup {e \in stored : e[1] \in ls} ELSE names
               added(ls, kn) ==
                 \E nw \in {SetToSeq({l \in ls : \A e \in kn : e[1] # l})} :
                    /\ names' = kn \cup given(nw)
                    /\ contable' = contable \cup {e[2] : e \in {x \in names' : x[1] \in ls}}
                    /\ last_id' = IF nw = <<>> THEN 0 ELSE (IF Len(nw) - 1 < AnyId THEN Len(nw) - 1 ELSE Len(nw)) + 1
                    /\ stored' = IF Fetches THEN stored \cup given(nw) ELSE stored
    <3>1. \E ls \in {Sections} : \E kn \in {known(ls)} : added(ls, kn)
      BY ONLY as_add_categories DEF as_add_categories, Sections
    <3>2. added(Sections, Known)
      <4>1. known(Sections) = Known
        BY DEF Known
      <4> HIDE DEF known, added
      <4> QED BY ONLY <3>1, <4>1
    <3>3. new = SetToSeq({l \in Sections : \A e \in Known : e[1] # l})
      BY ONLY DEF new, Unnamed
    <3> HIDE DEF new, given
    <3> QED BY ONLY <3>2, <3>3 DEF added
  <2> HIDE DEF new
  <2> QED BY <2>1 DEF Given, CategoryId
<1> HIDE DEF new
<1> QED BY <1>1, <1>2, <1>3, <1>4 DEF new

LEMMA GivenNames ==
  ASSUME NEW S, IsFiniteSet(S), NEW new, new = SetToSeq(S)
  PROVE  /\ IsFiniteSet(Given(new)) /\ Len(new) \in Nat /\ DOMAIN new = 1..Len(new)
         /\ \A e \in Given(new) : /\ Edge(e) /\ e[1] \in S /\ e[2] # AnyId
                                  /\ new # <<>> /\ e[2] < CategoryId(Len(new)) + 1
         /\ \A e, f \in Given(new) : (e[1] = f[1]) <=> (e[2] = f[2])
         /\ new # <<>> => CategoryId(Len(new)) \in Nat
<1> DEFINE n == Cardinality(S)
<1>1. /\ n \in Nat /\ new \in [1..n -> S]
      /\ \A j, k \in 1..n : new[j] = new[k] => j = k
  BY Listed
<1> HIDE DEF n
<1>2. Len(new) = n /\ DOMAIN new = 1..n /\ new \in Seq(S)
  BY <1>1
<1>3. ASSUME NEW k \in 1..n
      PROVE  CategoryId(k) \in Nat /\ CategoryId(k) # AnyId /\ CategoryId(k) < CategoryId(n) + 1
  BY <1>1, AtomSettings DEF CategoryId
<1>4. ASSUME NEW j \in 1..n, NEW k \in 1..n, CategoryId(j) = CategoryId(k)
      PROVE  j = k
  BY <1>1, <1>4, AtomSettings DEF CategoryId
<1>5. IsFiniteSet(Given(new))
  <2> DEFINE f == [k \in 1..n |-> <<new[k], CategoryId(k)>>]
  <2>1. f \in Surjection(1..n, Given(new))
    BY <1>2 DEF Surjection, Given
  <2>2. IsFiniteSet(1..n)
    BY <1>1, FS_Interval
  <2> HIDE DEF f
  <2> QED BY <2>1, <2>2, FS_Surjection
<1>6. ASSUME NEW e \in Given(new)
      PROVE  \E k \in 1..n : e = <<new[k], CategoryId(k)>> /\ e[1] = new[k] /\ e[2] = CategoryId(k)
  BY <1>2, <1>6 DEF Given
<1>7. ASSUME NEW e \in Given(new)
      PROVE  Edge(e) /\ e[1] \in S /\ e[2] # AnyId /\ new # <<>> /\ e[2] < CategoryId(Len(new)) + 1
  <2>1. PICK k \in 1..n : e = <<new[k], CategoryId(k)>> /\ e[1] = new[k] /\ e[2] = CategoryId(k)
    BY <1>6
  <2>2. new[k] \in S
    BY <1>1
  <2>3. new # <<>>
    BY <1>1, <1>2
  <2> QED BY <1>2, <1>3, <2>1, <2>2, <2>3 DEF Edge
<1>8. ASSUME NEW e \in Given(new), NEW g \in Given(new)
      PROVE  (e[1] = g[1]) <=> (e[2] = g[2])
  <2>1. PICK k \in 1..n : e[1] = new[k] /\ e[2] = CategoryId(k)
    BY <1>6
  <2>2. PICK j \in 1..n : g[1] = new[j] /\ g[2] = CategoryId(j)
    BY <1>6
  <2> QED BY <1>1, <1>4, <2>1, <2>2
<1>9. new # <<>> => CategoryId(Len(new)) \in Nat
  <2>1. new # <<>> => n \in 1..n
    BY <1>1, <1>2
  <2> QED BY <1>2, <1>3, <2>1
<1> QED BY <1>1, <1>2, <1>5, <1>7, <1>8, <1>9

LEMMA CategoriesAdded ==
  ASSUME TableInv, as_add_categories
  PROVE  TableInv'
<1>1. PICK new : /\ new = SetToSeq(Unnamed)
                 /\ names' = Known \cup Given(new)
                 /\ contable' = contable \cup {e[2] : e \in {x \in names' : x[1] \in Sections}}
                 /\ last_id' = IF new = <<>> THEN 0 ELSE CategoryId(Len(new)) + 1
                 /\ stored' = IF Fetches THEN stored \cup Given(new) ELSE stored
  BY CategoryParts
<1>0. names \subseteq Known /\ Known \subseteq names \cup stored
  BY DEF Known
<1>2. /\ IsFiniteSet(Given(new)) /\ \A e \in Given(new) : Edge(e)
      /\ new # <<>> => CategoryId(Len(new)) \in Nat
  BY <1>1, CategoryParts, GivenNames
<1>3. /\ store' = store /\ uc_num' = uc_num /\ num_uc' = num_uc /\ th' = th
      /\ dict_tree' = dict_tree /\ tail' = tail /\ pair_dict' = pair_dict
  BY DEF as_add_categories, caches
<1>4. SpaceOK'
  <2>1. ContentOK(asp') /\ AtomShape(asp') /\ conf' \in Settings
    BY CategoryParts, SpaceParts
  <2>2. ContentOK(store) /\ th = [t \in Threads |-> th[t]]
    BY DEF TableInv, SpaceOK
  <2> QED BY ONLY <1>3, <2>1, <2>2 DEF SpaceOK, AtomShape
<1>5. EdgesOK'
  <2>1. EdgesOK
    BY SpaceParts
  <2>2. IsFiniteSet(names')
    <3>1. IsFiniteSet(names \cup stored)
      BY <2>1, FS_Union DEF EdgesOK
    <3>2. IsFiniteSet(Known)
      BY <1>0, <3>1, FS_Subset
    <3> QED BY <1>1, <1>2, <3>2, FS_Union
  <2>3. IsFiniteSet(stored')
    <3>1. IsFiniteSet(stored \cup Given(new))
      BY <1>2, <2>1, FS_Union DEF EdgesOK
    <3> QED BY <1>1, <2>1, <3>1 DEF EdgesOK
  <2>4. last_id' \in Nat
    BY <1>1, <1>2
  <2>5. \A e \in names' \cup stored' : Edge(e)
    BY <1>0, <1>1, <1>2, <2>1 DEF EdgesOK
  <2> QED BY <2>2, <2>3, <2>4, <2>5 DEF EdgesOK
<1>6. contable \subseteq contable' /\ contable' \subseteq contable \cup {e[2] : e \in names'}
  BY <1>1
<1>7. NumbersOK'
  <2>1. NumbersOK
    BY DEF TableInv
  <2>2. IsFiniteSet(names') /\ \A e \in names' : Edge(e)
    BY <1>5 DEF EdgesOK
  <2> QED BY <1>3, <1>6, <2>1, <2>2, MoreNumbers
<1>8. CacheOK'
  BY <1>3, <1>6, MoreCached DEF TableInv
<1>9. ThreadsOK'
  <2>1. ASSUME NEW t \in Threads PROVE ThreadOK(th[t], contable', names', DOMAIN uc_num)
    <3>1. ThreadOK(th[t], contable, names, DOMAIN uc_num)
      BY DEF TableInv, ThreadsOK
    <3>2. names \subseteq names'
      BY <1>0, <1>1
    <3> QED BY <1>6, <3>1, <3>2, InMore
  <2> QED BY <1>3, <2>1 DEF ThreadsOK
<1> QED BY <1>4, <1>5, <1>7, <1>8, <1>9 DEF TableInv

-----------------------------------------------------------------------------
LEMMA TableStep ==
  ASSUME TableInv, [AtomNext]_atomvars
  PROVE  TableInv'
<1>1. ASSUME NEW t \in Threads, ThreadStep(t) PROVE TableInv'
  BY <1>1, SentenceStarted, BooleanLookup, CountSections, SectionsFetched, MembersFetched, NextClassStep,
     PairLookup, NeedPairFetch, PairsFetched, HavePairs, InsertPword, StartLookup, LookupList, NameIssued,
     GetPairs, PairsMade, CartPairs, PlainLookup, SectionsMade, PlainCached, Spliced, ExpCopied,
     LookupEnds, SentenceDeleted DEF ThreadStep
<1>2. ASSUME UNCHANGED atomvars PROVE TableInv'
  <2>1. /\ conf' = conf /\ store' = store /\ asp' = asp /\ names' = names /\ stored' = stored
        /\ last_id' = last_id /\ contable' = contable /\ uc_num' = uc_num /\ num_uc' = num_uc
        /\ th' = th /\ dict_tree' = dict_tree /\ tail' = tail /\ pair_dict' = pair_dict
    BY <1>2 DEF atomvars, setting, shared, issued, caches, connectors
  <2>2. SpaceOK /\ EdgesOK /\ CacheOK /\ NumbersOK /\ ThreadsOK
    BY DEF TableInv
  <2>3. SpaceOK'
    BY ONLY <2>1, <2>2 DEF SpaceOK
  <2>4. EdgesOK'
    BY ONLY <2>1, <2>2 DEF EdgesOK
  <2>5. CacheOK'
    BY ONLY <2>1, <2>2 DEF CacheOK
  <2>6. NumbersOK'
    BY ONLY <2>1, <2>2 DEF NumbersOK
  <2>7. ThreadsOK'
    BY ONLY <2>1, <2>2 DEF ThreadsOK
  <2> QED BY <2>3, <2>4, <2>5, <2>6, <2>7 DEF TableInv
<1> QED BY <1>1, <1>2, CategoriesAdded, CacheCleared, Reopened DEF AtomNext

-----------------------------------------------------------------------------
(* A thread that has looked up its words has a number for each connector   *)
(* of its expressions, and different connectors have different numbers     *)
(* (update_condesc()), whatever other threads look up meanwhile.           *)
THEOREM NumbersCorrect == AtomSpec => []ConnectorsNumbered
<1>1. AtomInit => TableInv
  BY AtFirst
<1>2. TableInv /\ [AtomNext]_atomvars => TableInv'
  BY TableStep
<1>3. TableInv => ConnectorsNumbered
  <2> SUFFICES ASSUME TableInv PROVE ConnectorsNumbered
    OBVIOUS
  <2>1. ASSUME NEW t \in Threads, th[t].pc = "done", NEW i \in DOMAIN th[t].result
        PROVE  ResultIn(th[t].result[i], DOMAIN uc_num)
    BY <2>1 DEF TableInv, ThreadsOK, ThreadOK, ResultNumbered
  <2>2. \A m, n \in DOMAIN uc_num : uc_num[m] = uc_num[n] => m = n
    BY DEF TableInv, NumbersOK
  <2>3. ASSUME NEW r, ResultIn(r, DOMAIN uc_num)
        PROVE  {c[1] : c \in r.pairs} \cup UNION {{x[k][1] : k \in DOMAIN x} : x \in r.sects}
                 \subseteq DOMAIN uc_num
    BY <2>3 DEF ResultIn, PairsIn, SectsIn
  <2> QED BY <2>1, <2>2, <2>3 DEF ConnectorsNumbered
<1> QED BY <1>1, <1>2, <1>3, PTL DEF AtomSpec

-----------------------------------------------------------------------------
(* Names.  Each opening numbers the links from 0 on: a name below last_id  *)
(* stands for at most one link of each opening, another name for at most   *)
(* one of each earlier opening.  What was stored is in the AtomSpace when  *)
(* there is no storage to ask: for generation, all of it are links of      *)
(* sections, which as_add_categories() reads before the storage is closed. *)
OneName(N) == \A e, f \in N : e[1] = f[1] => e[2] = f[2]
With(N, n) == {e \in N : e[2] = n}
AtMost(N, n, k) == IsFiniteSet(With(N, n)) /\ Cardinality(With(N, n)) \in Nat /\ Cardinality(With(N, n)) <= k
Counts(N, last, k) == \A n \in Nat : AtMost(N, n, IF n < last THEN k ELSE k - 1)
NoneAny(N) == \A e \in N : e[2] # AnyId

BeforeCategories == conf.generate /\ category = <<>>
GoodLinks(s) == UNION {Links(x.germ, {x}) : x \in {y \in s.sections : y.ok}}

StoredKnown ==
  /\ ~conf.storage => stored = {}
  /\ ~Fetches => stored \subseteq names
  /\ conf.generate => \A e \in stored : e[1] \in GoodLinks(store)

NamesInv ==
  /\ sessions \in Nat /\ sessions >= 1
  /\ BeforeCategories => last_id = 0 /\ \A t \in Threads : th[t].pc = "idle"
  /\ OneName(Issued) /\ NoneAny(Issued) /\ Counts(Issued, last_id, sessions)
  /\ StoredKnown

OnlyNames(t) == IssueName(t) \/ fetch_pairs(t)

LEMMA ThreadKeeps ==
  ASSUME NEW t \in Threads, ThreadStep(t)
  PROVE  /\ UNCHANGED <<conf, store, category, sessions>>
         /\ OnlyNames(t) \/ UNCHANGED <<names, stored, last_id>>
         /\ th[t].pc = "idle" => (conf.generate => category # <<>>)
<1>1. CASE StartSentence(t) \/ as_boolean_lookup(t) \/ NextClass(t) \/ have_pairs(t) \/ as_start_lookup(t)
           \/ as_lookup_list(t) \/ make_cart_pairs(t) \/ lookup_plain_section(t) \/ copy_Exp(t)
           \/ DeleteSentence(t)
  <2>1. UNCHANGED <<setting, shared>>
    BY <1>1 DEF StartSentence, as_boolean_lookup, NextClass, have_pairs, as_start_lookup, as_lookup_list,
                make_cart_pairs, lookup_plain_section, copy_Exp, DeleteSentence
  <2>2. th[t].pc = "idle" => (conf.generate => category # <<>>)
    BY <1>1 DEF StartSentence, as_boolean_lookup, NextClass, have_pairs, as_start_lookup, as_lookup_list,
                make_cart_pairs, lookup_plain_section, copy_Exp, DeleteSentence, At
  <2> QED BY <2>1, <2>2 DEF setting, shared, issued
<1>2. CASE count_sections(t) \/ FetchSections(t) \/ Members(t) \/ pair_boolean_lookup(t)
           \/ need_pair_fetch(t)
  <2>1. UNCHANGED <<setting, issued>>
    BY <1>2 DEF count_sections, FetchSections, Members, pair_boolean_lookup, need_pair_fetch
  <2>2. th[t].pc # "idle"
    BY <1>2 DEF count_sections, FetchSections, Members, pair_boolean_lookup, need_pair_fetch, At
  <2> QED BY <2>1, <2>2 DEF setting, issued
<1>3. CASE insert_pword(t) \/ get_pair_exprs(t) \/ make_pair_exprs(t) \/ make_sect_exprs(t)
           \/ CachePlain(t) \/ as_end_lookup(t)
  <2>1. UNCHANGED <<setting, issued>>
    BY <1>3 DEF insert_pword, get_pair_exprs, make_pair_exprs, make_sect_exprs, CachePlain, as_end_lookup
  <2>2. th[t].pc # "idle"
    BY <1>3 DEF insert_pword, get_pair_exprs, make_pair_exprs, make_sect_exprs, CachePlain, as_end_lookup, At
  <2> QED BY <2>1, <2>2 DEF setting, issued
<1>4. CASE Splice(t)
  <2>1. UNCHANGED <<conf, store, category, sessions, issued>>
    BY <1>4 DEF Splice
  <2>2. th[t].pc # "idle"
    BY <1>4 DEF Splice, At
  <2> QED BY <2>1, <2>2 DEF issued
<1>5. CASE OnlyNames(t)
  <2>1. UNCHANGED setting
    BY <1>5 DEF OnlyNames, IssueName, fetch_pairs
  <2>2. th[t].pc # "idle"
    BY <1>5 DEF OnlyNames, IssueName, fetch_pairs, At
  <2> QED BY <1>5, <2>1, <2>2 DEF setting
<1> QED BY <1>1, <1>2, <1>3, <1>4, <1>5 DEF ThreadStep, OnlyNames

(* More names: a new one for a link without a name, or fewer names.        *)
LEMMA FewerCounted ==
  ASSUME NEW N, NEW M, M \subseteq N, NEW n, NEW k \in Int, AtMost(N, n, k)
  PROVE  AtMost(M, n, k)
<1>1. With(M, n) \subseteq With(N, n)
  BY DEF With
<1>2. IsFiniteSet(With(M, n)) /\ Cardinality(With(M, n)) <= Cardinality(With(N, n))
  BY <1>1, FS_Subset DEF AtMost
<1>3. Cardinality(With(M, n)) \in Nat
  BY <1>2, FS_CardinalityType
<1> QED BY <1>2, <1>3 DEF AtMost

LEMMA OneMoreCounted ==
  ASSUME NEW N, NEW G, NEW n, NEW k \in Int, AtMost(N, n, k),
         \A e, f \in G : e[2] = n /\ f[2] = n => e = f
  PROVE  AtMost(N \cup G, n, k + 1)
<1>1. CASE With(G, n) = {}
  <2>1. With(N \cup G, n) = With(N, n)
    BY <1>1 DEF With
  <2> QED BY <2>1 DEF AtMost
<1>2. CASE With(G, n) # {}
  <2>1. PICK x : x \in With(G, n)
    BY <1>2
  <2>2. With(N \cup G, n) = With(N, n) \cup {x}
    BY <2>1 DEF With
  <2>3. IsFiniteSet(With(N, n) \cup {x}) /\ Cardinality(With(N, n) \cup {x}) <= Cardinality(With(N, n)) + 1
    BY FS_AddElement DEF AtMost
  <2>4. Cardinality(With(N, n) \cup {x}) \in Nat
    BY <2>3, FS_CardinalityType
  <2> QED BY <2>2, <2>3, <2>4 DEF AtMost
<1> QED BY <1>1, <1>2

LEMMA NoMoreCounted ==
  ASSUME NEW N, NEW G, NEW n, NEW k, AtMost(N, n, k), \A e \in G : e[2] # n
  PROVE  AtMost(N \cup G, n, k)
<1>1. With(N \cup G, n) = With(N, n)
  BY DEF With
<1> QED BY <1>1 DEF AtMost

(* Links that had no name get names from the last one up to the next last. *)
LEMMA NamesGiven ==
  ASSUME NEW N, NEW G, NEW last \in Nat, NEW next \in Nat, last <= next, NEW k \in Nat,
         OneName(N), NoneAny(N), Counts(N, last, k),
         \A e, f \in G : (e[1] = f[1]) <=> (e[2] = f[2]),
         \A e, f \in G : e[2] = f[2] => e = f,
         \A e \in G : /\ e[2] \in Nat /\ last <= e[2] /\ e[2] < next /\ e[2] # AnyId
                      /\ \A f \in N : f[1] # e[1]
  PROVE  OneName(N \cup G) /\ NoneAny(N \cup G) /\ Counts(N \cup G, next, k)
<1>1. OneName(N \cup G) /\ NoneAny(N \cup G)
  BY DEF OneName, NoneAny
<1>2. ASSUME NEW n \in Nat
      PROVE  AtMost(N \cup G, n, IF n < next THEN k ELSE k - 1)
  <2>1. AtMost(N, n, IF n < last THEN k ELSE k - 1)
    BY DEF Counts
  <2>2. CASE n < last
    <3>1. AtMost(N, n, k) /\ n < next /\ \A e \in G : e[2] # n
      BY <2>1, <2>2
    <3> QED BY <3>1, NoMoreCounted
  <2>3. CASE n >= last /\ n < next
    <3>1. AtMost(N, n, k - 1) /\ k - 1 \in Int /\ (k - 1) + 1 = k
      BY <2>1, <2>3
    <3>2. \A e, f \in G : e[2] = n /\ f[2] = n => e = f
      OBVIOUS
    <3>3. AtMost(N \cup G, n, (k - 1) + 1)
      <4> HIDE DEF AtMost
      <4> QED BY ONLY <3>1, <3>2, OneMoreCounted
    <3> QED BY <2>3, <3>1, <3>3
  <2>4. CASE n >= next
    <3>1. AtMost(N, n, k - 1) /\ ~(n < next) /\ \A e \in G : e[2] # n
      BY <2>1, <2>4
    <3> QED BY <3>1, NoMoreCounted
  <2> QED BY <2>2, <2>3, <2>4
<1> QED BY <1>1, <1>2 DEF Counts

LEMMA FreshAbove ==
  ASSUME last_id \in Nat
  PROVE  /\ skip_any(last_id) # AnyId /\ skip_any(last_id) >= last_id
         /\ skip_any(last_id) < skip_any(last_id) + 1
  BY AtomSettings DEF skip_any

LEMMA NamesIssued ==
  ASSUME NEW t \in Threads, TableInv, NamesInv, NEW back, cached_linkname(t, back),
         UNCHANGED <<conf, store, category>>, conf.generate => category # <<>>
  PROVE  /\ OneName(Issued') /\ NoneAny(Issued') /\ Counts(Issued', last_id', sessions)
         /\ StoredKnown'
<1> DEFINE lnk == th[t].link
           known == IF Fetches THEN names \cup {e \in stored : e[1] = lnk} ELSE names
           fresh == skip_any(last_id)
           new == <<lnk, fresh>>
<1>1. last_id \in Nat /\ \A e \in Issued : e[2] \in Nat
  BY DEF TableInv, EdgesOK, Edge, Issued
<1>2. /\ OneName(Issued) /\ NoneAny(Issued) /\ Counts(Issued, last_id, sessions)
      /\ StoredKnown /\ sessions \in Nat
  BY DEF NamesInv
<1>3. Fetches' = Fetches /\ (Fetches => conf.storage /\ ~conf.generate)
  BY DEF Fetches
<1>4. CASE \E e \in known : e[1] = lnk
  <2>1. names' = known /\ stored' = stored /\ last_id' = last_id
    BY <1>4 DEF cached_linkname
  <2>2. names \subseteq names' /\ Issued' = Issued
    BY <2>1 DEF Issued
  <2>3. StoredKnown'
    BY <1>2, <1>3, <2>1, <2>2 DEF StoredKnown
  <2> QED BY <1>2, <2>1, <2>2, <2>3
<1>5. CASE ~ \E e \in known : e[1] = lnk
  <2>1. /\ names' = known \cup {new} /\ last_id' = fresh + 1
        /\ stored' = IF Fetches THEN stored \cup {new} ELSE stored
    BY <1>5 DEF cached_linkname
  <2>2. \A e \in Issued : e[1] # lnk
    BY <1>2, <1>5 DEF Issued, StoredKnown
  <2>3. names \subseteq known /\ known \subseteq Issued
    BY DEF Issued
  <2>4. fresh \in Nat /\ fresh + 1 \in Nat /\ fresh # AnyId /\ fresh >= last_id /\ fresh < fresh + 1
    BY <1>1, FreshNumber, FreshAbove
  <2>5. new[1] = lnk /\ new[2] = fresh
    OBVIOUS
  <2> HIDE DEF fresh, known, new
  <2>6. Issued' = Issued \cup {new}
    BY <2>1, <2>3 DEF Issued
  <2>7. OneName(Issued \cup {new}) /\ NoneAny(Issued \cup {new}) /\ Counts(Issued \cup {new}, fresh + 1, sessions)
    <3>1. \A e \in {new} : /\ e[2] \in Nat /\ last_id <= e[2] /\ e[2] < fresh + 1 /\ e[2] # AnyId
                           /\ \A f \in Issued : f[1] # e[1]
      BY <2>2, <2>4, <2>5
    <3>2. last_id <= fresh + 1
      BY <1>1, <2>4
    <3> QED BY <1>1, <1>2, <2>4, <3>1, <3>2, NamesGiven
  <2>8. StoredKnown'
    BY <1>2, <1>3, <2>1, <2>3 DEF StoredKnown
  <2> QED BY <2>1, <2>6, <2>7, <2>8
<1> QED BY <1>4, <1>5

LEMMA NamesOfCategories ==
  ASSUME TableInv, NamesInv, as_add_categories
  PROVE  NamesInv'
<1>1. PICK new : /\ new = SetToSeq(Unnamed)
                 /\ names' = Known \cup Given(new)
                 /\ last_id' = IF new = <<>> THEN 0 ELSE CategoryId(Len(new)) + 1
                 /\ stored' = IF Fetches THEN stored \cup Given(new) ELSE stored
  BY CategoryParts
<1>2. /\ conf' = conf /\ store' = store /\ sessions' = sessions /\ category' # <<>> /\ ~Fetches'
      /\ conf.generate /\ category = <<>> /\ (Fetches => conf.storage) /\ (~Fetches => ~conf.storage)
  BY DEF as_add_categories, Fetches
<1>3. /\ OneName(Issued) /\ NoneAny(Issued) /\ Counts(Issued, 0, sessions)
      /\ StoredKnown /\ sessions \in Nat /\ sessions >= 1
  BY <1>2 DEF NamesInv, BeforeCategories
<1>4. IsFiniteSet(Unnamed)
  BY CategoryParts
<1>5. /\ \A e \in Given(new) : /\ Edge(e) /\ e[1] \in Unnamed /\ e[2] # AnyId
                               /\ new # <<>> /\ e[2] < CategoryId(Len(new)) + 1
      /\ \A e, f \in Given(new) : (e[1] = f[1]) <=> (e[2] = f[2])
      /\ new # <<>> => CategoryId(Len(new)) \in Nat
  BY <1>1, <1>4, GivenNames
<1>6. names \subseteq Known /\ Known \subseteq Issued /\ Unnamed \subseteq Sections
  BY DEF Known, Issued, Unnamed
<1>7. \A e \in Given(new) : \A f \in Issued : f[1] # e[1]
  <2> SUFFICES ASSUME NEW e \in Given(new), NEW f \in Issued, f[1] = e[1] PROVE FALSE
    OBVIOUS
  <2>1. e[1] \in Sections /\ \A g \in Known : g[1] # e[1]
    BY <1>5 DEF Unnamed
  <2>2. f \in Known
    BY <1>3, <2>1 DEF Issued, Known, StoredKnown
  <2> QED BY <2>1, <2>2
<1>8. Issued' = Issued \cup Given(new)
  BY <1>1, <1>6 DEF Issued
<1>9. OneName(Issued') /\ NoneAny(Issued') /\ Counts(Issued', last_id', sessions)
  <2>1. last_id' \in Nat /\ 0 <= last_id'
    BY <1>1, <1>5
  <2>2. \A e \in Given(new) : e[2] \in Nat /\ 0 <= e[2] /\ e[2] < last_id' /\ e[2] # AnyId
    BY <1>1, <1>5 DEF Edge
  <2>3. \A e, f \in Given(new) : e[2] = f[2] => e = f
    <3>1. \A e \in Given(new) : e = <<e[1], e[2]>>
      BY <1>5 DEF Edge
    <3>2. \A e, f \in Given(new) : e[2] = f[2] => e[1] = f[1]
      BY <1>5
    <3> QED BY <3>1, <3>2
  <2>4. /\ OneName(Issued \cup Given(new)) /\ NoneAny(Issued \cup Given(new))
        /\ Counts(Issued \cup Given(new), last_id', sessions)
    BY <1>3, <1>5, <1>7, <2>1, <2>2, <2>3, NamesGiven
  <2> QED BY <1>8, <2>4
<1>10. StoredKnown'
  <2>1. CASE Fetches
    <3>1. asp'.sections = store.sections
      <4>1. asp' = [asp EXCEPT !.sections = store.sections,
                               !.words = WordsIn([store EXCEPT !.members = {}, !.pairs = {}])]
        BY <2>1 DEF as_add_categories
      <4>2. AtomShape(asp)
        BY SpaceParts
      <4> QED BY <4>1, <4>2 DEF AtomShape
    <3>2. Sections = GoodLinks(store)
      BY <3>1 DEF Sections, GoodLinks
    <3>3. \A e \in stored : e[1] \in GoodLinks(store)
      BY <1>2, <1>3 DEF StoredKnown
    <3>4. stored \subseteq Known
      BY <2>1, <3>2, <3>3 DEF Known
    <3>5. \A e \in Given(new) : e[1] \in GoodLinks(store)
      BY <1>5, <1>6, <3>2
    <3> QED BY <1>1, <1>2, <2>1, <3>3, <3>4, <3>5 DEF StoredKnown
  <2>2. CASE ~Fetches
    <3>1. stored' = {}
      BY <1>1, <1>2, <1>3, <2>2 DEF StoredKnown
    <3> QED BY <3>1 DEF StoredKnown
  <2> QED BY <2>1, <2>2
<1> QED BY <1>2, <1>3, <1>9, <1>10 DEF NamesInv, BeforeCategories

LEMMA NamesReopened ==
  ASSUME TableInv, NamesInv, Reopen
  PROVE  NamesInv'
<1>1. /\ conf' = conf /\ store' = store /\ stored' = stored /\ last_id' = 0 /\ sessions' = sessions + 1
      /\ category' = <<>> /\ names' \subseteq names /\ th' = [t \in Threads |-> Idle(conf.rounds)]
  BY DEF Reopen
<1>2. /\ OneName(Issued) /\ NoneAny(Issued) /\ Counts(Issued, last_id, sessions)
      /\ StoredKnown /\ sessions \in Nat /\ sessions >= 1 /\ last_id \in Nat
  BY DEF NamesInv, TableInv, EdgesOK
<1>3. Issued' \subseteq Issued
  BY <1>1 DEF Issued
<1>4. OneName(Issued') /\ NoneAny(Issued')
  BY <1>2, <1>3 DEF OneName, NoneAny
<1>5. Counts(Issued', 0, sessions + 1)
  <2> SUFFICES ASSUME NEW n \in Nat PROVE AtMost(Issued', n, sessions)
    BY <1>2 DEF Counts
  <2>1. AtMost(Issued, n, IF n < last_id THEN sessions ELSE sessions - 1)
    BY <1>2 DEF Counts
  <2>2. AtMost(Issued, n, sessions)
    BY <1>2, <2>1 DEF AtMost
  <2> QED BY <1>2, <1>3, <2>2, FewerCounted
<1>6. StoredKnown'
  BY <1>1, <1>2 DEF StoredKnown, Fetches
<1>7. \A t \in Threads : th'[t].pc = "idle"
  BY <1>1 DEF Idle
<1> QED BY <1>1, <1>2, <1>4, <1>5, <1>6, <1>7 DEF NamesInv

LEMMA NamesStep ==
  ASSUME TableInv, NamesInv, [AtomNext]_atomvars
  PROVE  NamesInv'
<1>1. ASSUME NEW t \in Threads, ThreadStep(t) PROVE NamesInv'
  <2>1. /\ conf' = conf /\ store' = store /\ category' = category /\ sessions' = sessions
        /\ OnlyNames(t) \/ UNCHANGED <<names, stored, last_id>>
        /\ th[t].pc = "idle" => (conf.generate => category # <<>>)
    BY <1>1, ThreadKeeps
  <2>2. (conf.generate => category # <<>>) /\ ~BeforeCategories'
    BY <2>1 DEF NamesInv, BeforeCategories
  <2>3. /\ OneName(Issued') /\ NoneAny(Issued') /\ Counts(Issued', last_id', sessions)
        /\ StoredKnown'
    <3>1. CASE IssueName(t)
      <4>1. PICK back : cached_linkname(t, back)
        BY <3>1 DEF IssueName
      <4> QED BY <2>1, <2>2, <4>1, NamesIssued
    <3>2. CASE fetch_pairs(t)
      <4>1. names \subseteq names' /\ names' \subseteq Issued /\ stored' = stored /\ last_id' = last_id
        BY <3>2 DEF fetch_pairs, Edges, Issued
      <4>2. Issued' = Issued
        BY <4>1 DEF Issued
      <4>3. StoredKnown'
        BY <2>1, <4>1 DEF NamesInv, StoredKnown, Fetches
      <4> QED BY <4>1, <4>2, <4>3 DEF NamesInv
    <3>3. CASE UNCHANGED <<names, stored, last_id>>
      BY <2>1, <3>3 DEF NamesInv, Issued, StoredKnown, Fetches
    <3> QED BY <2>1, <3>1, <3>2, <3>3 DEF OnlyNames
  <2> QED BY <2>1, <2>2, <2>3 DEF NamesInv
<1>2. CASE as_clear_cache
  <2>1. /\ conf' = conf /\ store' = store /\ category' = category /\ sessions' = sessions /\ th' = th
        /\ names' = names /\ stored' = stored /\ last_id' = last_id
    BY <1>2 DEF as_clear_cache, shared, issued
  <2> QED BY <2>1 DEF NamesInv, BeforeCategories, Issued, StoredKnown, Fetches
<1>3. CASE UNCHANGED atomvars
  <2>1. /\ conf' = conf /\ store' = store /\ category' = category /\ sessions' = sessions /\ th' = th
        /\ names' = names /\ stored' = stored /\ last_id' = last_id
    BY <1>3 DEF atomvars, setting, shared, issued
  <2> QED BY <2>1 DEF NamesInv, BeforeCategories, Issued, StoredKnown, Fetches
<1> QED BY <1>1, <1>2, <1>3, NamesOfCategories, NamesReopened DEF AtomNext

LEMMA NamesAtFirst ==
  ASSUME AtomInit
  PROVE  NamesInv
<1>1. /\ names = {} /\ stored = {} /\ sessions = 1 /\ last_id = 0 /\ \A t \in Threads : th[t].pc = "idle"
  BY DEF AtomInit, as_open, Idle
<1>2. Issued = {} /\ OneName({}) /\ NoneAny({})
  BY <1>1 DEF Issued, OneName, NoneAny
<1>3. Counts({}, 0, 1)
  <2>1. \A n : With({}, n) = {}
    BY DEF With
  <2> QED BY <2>1, FS_EmptySet DEF Counts, AtMost
<1> QED BY <1>1, <1>2, <1>3 DEF NamesInv, StoredKnown

(* However often a dictionary is opened, a link has one name, none is      *)
(* called ANY, a name stands for at most one link of each opening, and     *)
(* every connector has a number of its own when it is matched:             *)
(* cached_linkname() of several threads, as_add_categories() and           *)
(* update_condesc().                                                       *)
THEOREM LinkIdsCorrect == AtomSpec => []LinkIdsExact
<1>1. AtomInit => TableInv /\ NamesInv
  BY AtFirst, NamesAtFirst
<1>2. TableInv /\ NamesInv /\ [AtomNext]_atomvars => TableInv' /\ NamesInv'
  BY TableStep, NamesStep
<1>3. TableInv /\ NamesInv /\ ConnectorsNumbered => LinkIdsExact
  <2> SUFFICES ASSUME TableInv, NamesInv PROVE NamesExact
    BY DEF LinkIdsExact
  <2>1. OneName(Issued) /\ NoneAny(Issued) /\ Counts(Issued, last_id, sessions)
    BY DEF NamesInv
  <2>2. ASSUME NEW e \in Issued PROVE Cardinality({f \in Issued : f[2] = e[2]}) <= sessions
    <3>1. e[2] \in Nat /\ sessions \in Nat
      BY DEF TableInv, EdgesOK, Edge, Issued, NamesInv
    <3>2. AtMost(Issued, e[2], IF e[2] < last_id THEN sessions ELSE sessions - 1)
      BY <2>1, <3>1 DEF Counts
    <3> QED BY <3>1, <3>2 DEF AtMost, With
  <2> QED BY <2>1, <2>2 DEF NamesExact, OneName, NoneAny
<1>4. AtomSpec => []ConnectorsNumbered
  BY NumbersCorrect
<1> QED BY <1>1, <1>2, <1>3, <1>4, PTL DEF AtomSpec
=============================================================================
