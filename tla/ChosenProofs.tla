---------------------------- MODULE ChosenProofs ----------------------------
(***************************************************************************)
(* Proof that what a linkage displays fits together, for any path, links   *)
(* and null words (ChosenWords).                                           *)
(*                                                                         *)
(* The argument: the places seen so far fall into segments s..e that are   *)
(* displayed as one word, whose text is at e (Displayed); what             *)
(* wg_path_display has so far is those texts and the placeholders between  *)
(* them in order (EntriesOf); and the null block in work has no text yet   *)
(* (InBlock).  Each kind of word adds a segment (SegmentAdded).  The words *)
(* that Compact keeps are then the elements of wg_path_display, and remap  *)
(* gives the place of each.                                                *)
(***************************************************************************)
EXTENDS ChosenWords, FiniteSetTheorems, SequenceTheorems, TLAPS

-----------------------------------------------------------------------------
(* Numbers in order.                                                       *)
LEMMA Renumbered ==
  ASSUME NEW S \in SUBSET Nat, IsFiniteSet(S)
  PROVE  /\ Cardinality(S) \in Nat
         /\ Renumber(S) \in [S -> 1..Cardinality(S)]
         /\ \A v, w \in S : v < w <=> Renumber(S)[v] < Renumber(S)[w]
         /\ InOrder(S) \in [1..Cardinality(S) -> S]
         /\ \A k \in 1..Cardinality(S) : Renumber(S)[InOrder(S)[k]] = k
         /\ \A w \in S : InOrder(S)[Renumber(S)[w]] = w
<1> DEFINE n == Cardinality(S)
           upto(w) == {v \in S : v <= w}
           R == Renumber(S)
<1>1. n \in Nat
  BY FS_CardinalityType
<1>2. ASSUME NEW w \in S
      PROVE  /\ IsFiniteSet(upto(w)) /\ Cardinality(upto(w)) \in 1..n
             /\ R[w] = Cardinality(upto(w))
  <2>1. IsFiniteSet(upto(w)) /\ Cardinality(upto(w)) <= n
    BY FS_Subset
  <2>2. Cardinality(upto(w)) \in Nat /\ Cardinality(upto(w)) # 0
    <3>1. w \in upto(w)
      OBVIOUS
    <3> QED BY <2>1, <3>1, FS_CardinalityType, FS_EmptySet
  <2> QED BY <1>1, <2>1, <2>2 DEF Renumber
<1>3. ASSUME NEW v \in S, NEW w \in S, v < w PROVE R[v] < R[w]
  <2>1. upto(v) \in SUBSET upto(w) /\ upto(v) # upto(w)
    <3>1. v \in Nat /\ w \in Nat /\ w \in upto(w) /\ w \notin upto(v)
      BY <1>3
    <3>2. \A x \in upto(v) : x \in upto(w)
      BY <1>3
    <3> HIDE DEF upto
    <3> QED BY <3>1, <3>2
  <2>2. Cardinality(upto(v)) <= Cardinality(upto(w)) /\ Cardinality(upto(v)) # Cardinality(upto(w))
    BY <1>2, <2>1, FS_Subset
  <2> HIDE DEF upto, R
  <2> QED BY <1>1, <1>2, <2>2
<1>4. R \in [S -> 1..n]
  BY <1>2 DEF Renumber
<1> HIDE DEF R, upto
<1>5. \A v, w \in S : R[v] = R[w] => v = w
  BY <1>3, <1>4
<1>6. R \in Injection(S, 1..n)
  BY <1>4, <1>5 DEF Injection, IsInjective
<1>7. R \in Surjection(S, 1..n)
  BY <1>1, <1>6, FS_Injection, FS_Interval
<1>8. \A k \in 1..n : \E w \in S : R[w] = k
  BY <1>7 DEF Surjection
<1>9. /\ InOrder(S) = [k \in 1..n |-> CHOOSE w \in S : R[w] = k]
      /\ \A k \in 1..n : InOrder(S)[k] \in S /\ R[InOrder(S)[k]] = k
  BY <1>8 DEF InOrder, R
<1>10. \A v, w \in S : v < w <=> R[v] < R[w]
  BY <1>3, <1>4
<1> HIDE DEF n
<1>11. \A w \in S : InOrder(S)[R[w]] = w
  BY <1>4, <1>5, <1>9
<1> QED BY <1>1, <1>4, <1>9, <1>10, <1>11 DEF R, n

LEMMA Ascending ==
  ASSUME NEW S \in SUBSET Nat, IsFiniteSet(S)
  PROVE  /\ \A j, k \in 1..Cardinality(S) : j < k => InOrder(S)[j] < InOrder(S)[k]
         /\ \A w \in S : \E k \in 1..Cardinality(S) : InOrder(S)[k] = w
<1> DEFINE n == Cardinality(S)
           R == Renumber(S)
           o == InOrder(S)
<1>1. /\ R \in [S -> 1..n] /\ o \in [1..n -> S]
      /\ \A v, w \in S : v < w <=> R[v] < R[w]
      /\ \A k \in 1..n : R[o[k]] = k
      /\ \A w \in S : o[R[w]] = w
  BY Renumbered
<1> HIDE DEF n, R, o
<1>2. \A j, k \in 1..n : j < k => o[j] < o[k]
  <2> SUFFICES ASSUME NEW j \in 1..n, NEW k \in 1..n, j < k PROVE o[j] < o[k]
    OBVIOUS
  <2>1. o[j] \in S /\ o[k] \in S /\ R[o[j]] = j /\ R[o[k]] = k
    BY <1>1
  <2>2. o[j] < o[k] <=> R[o[j]] < R[o[k]]
    BY ONLY <1>1, <2>1
  <2> QED BY <2>1, <2>2
<1>3. \A w \in S : \E k \in 1..n : o[k] = w
  BY <1>1
<1> QED BY <1>2, <1>3 DEF n, o

(* An increasing sequence of all members of a set is the set in order.     *)
LEMMA OrderUnique ==
  ASSUME NEW S \in SUBSET Nat, NEW m \in Nat, NEW f \in [1..m -> S],
         \A j, k \in 1..m : j < k => f[j] < f[k],
         \A w \in S : \E k \in 1..m : f[k] = w
  PROVE  IsFiniteSet(S) /\ Cardinality(S) = m /\ InOrder(S) = f /\ \A k \in 1..m : Renumber(S)[f[k]] = k
<1>1. ASSUME NEW j \in 1..m, NEW k \in 1..m, f[j] = f[k] PROVE j = k
  <2>1. f[j] \in Nat /\ f[k] \in Nat
    OBVIOUS
  <2>2. ~(j < k) /\ ~(k < j)
    BY <1>1, <2>1
  <2> QED BY <2>2
<1>2. IsFiniteSet(S) /\ Cardinality(S) = m
  <2>1. f \in Bijection(1..m, S)
    BY <1>1 DEF Bijection, Injection, IsInjective, Surjection
  <2> QED BY <2>1, FS_Bijection, FS_Interval DEF ExistsBijection
<1>3. ASSUME NEW k \in 1..m PROVE Renumber(S)[f[k]] = k
  <2> DEFINE upto == {v \in S : v <= f[k]}
             g == [j \in 1..k |-> f[j]]
  <2>1. g \in Bijection(1..k, upto)
    <3>1. ASSUME NEW j \in 1..k PROVE g[j] \in upto
      <4>1. j \in 1..m /\ j <= k
        OBVIOUS
      <4>2. f[j] \in S /\ f[k] \in S /\ f[j] \in Nat /\ f[k] \in Nat
        BY <4>1
      <4>3. j < k => f[j] < f[k]
        BY <4>1
      <4>4. f[j] <= f[k]
        BY <4>1, <4>2, <4>3
      <4> QED BY <4>1, <4>2, <4>4
    <3>2. ASSUME NEW w \in upto PROVE \E j \in 1..k : g[j] = w
      <4>0. w \in S /\ w <= f[k]
        BY <3>2
      <4>1. PICK j \in 1..m : f[j] = w
        BY <4>0
      <4>2. f[j] <= f[k] /\ f[j] \in Nat /\ f[k] \in Nat /\ (k < j => f[k] < f[j])
        BY <4>0, <4>1
      <4>3. j \in 1..k
        BY <4>2
      <4> QED BY <4>1, <4>3
    <3>3. \A i, j \in 1..k : g[i] = g[j] => i = j
      BY <1>1
    <3>4. g \in [1..k -> upto]
      BY <3>1
    <3> HIDE DEF g, upto
    <3> QED BY <3>2, <3>3, <3>4 DEF Bijection, Injection, IsInjective, Surjection
  <2>2. Cardinality(upto) = k
    BY <2>1, FS_Bijection, FS_Interval DEF ExistsBijection
  <2> QED BY <2>2 DEF Renumber
<1>4. \A k \in 1..m : InOrder(S)[k] = f[k]
  <2>1. InOrder(S) \in [1..m -> S] /\ \A w \in S : InOrder(S)[Renumber(S)[w]] = w
    BY <1>2, Renumbered
  <2> QED BY <1>3, <2>1
<1>5. InOrder(S) = f
  <2>1. InOrder(S) \in [1..m -> S]
    BY <1>2, Renumbered
  <2> QED BY <1>4, <2>1
<1> QED BY <1>2, <1>3, <1>5

LEMMA OrderJoined ==
  ASSUME NEW S \in SUBSET Nat, NEW T \in SUBSET Nat, IsFiniteSet(S), IsFiniteSet(T),
         \A v \in S, w \in T : v < w
  PROVE  /\ IsFiniteSet(S \cup T) /\ Cardinality(S \cup T) = Cardinality(S) + Cardinality(T)
         /\ InOrder(S \cup T) = InOrder(S) \o InOrder(T)
<1> DEFINE a == Cardinality(S)
           b == Cardinality(T)
           f == [k \in 1..(a + b) |-> IF k <= a THEN InOrder(S)[k] ELSE InOrder(T)[k - a]]
<1>1. a \in Nat /\ b \in Nat /\ InOrder(S) \in [1..a -> S] /\ InOrder(T) \in [1..b -> T]
  BY Renumbered
<1>2. /\ \A j, k \in 1..a : j < k => InOrder(S)[j] < InOrder(S)[k]
      /\ \A j, k \in 1..b : j < k => InOrder(T)[j] < InOrder(T)[k]
      /\ \A w \in S : \E k \in 1..a : InOrder(S)[k] = w
      /\ \A w \in T : \E k \in 1..b : InOrder(T)[k] = w
  BY Ascending
<1> HIDE DEF a, b
<1>3. f \in [1..(a + b) -> S \cup T]
  BY <1>1
<1>4. ASSUME NEW j \in 1..(a + b), NEW k \in 1..(a + b), j < k PROVE f[j] < f[k]
  <2>1. CASE k <= a
    BY <1>1, <1>2, <1>4, <2>1
  <2>2. CASE a < j
    <3>1. /\ j - a \in 1..b /\ k - a \in 1..b /\ j - a < k - a
          /\ f[j] = InOrder(T)[j - a] /\ f[k] = InOrder(T)[k - a]
      BY <1>1, <1>4, <2>2
    <3> QED BY <1>2, <3>1
  <2>3. CASE j <= a /\ a < k
    <3>1. /\ j \in 1..a /\ k - a \in 1..b
          /\ f[j] = InOrder(S)[j] /\ f[k] = InOrder(T)[k - a]
      BY <1>1, <1>4, <2>3
    <3>2. InOrder(S)[j] \in S /\ InOrder(T)[k - a] \in T
      BY <1>1, <3>1
    <3> QED BY <3>1, <3>2
  <2> QED BY <1>1, <2>1, <2>2, <2>3
<1>5. \A w \in S \cup T : \E k \in 1..(a + b) : f[k] = w
  <2>1. ASSUME NEW w \in S PROVE \E k \in 1..(a + b) : f[k] = w
    <3>1. PICK k \in 1..a : InOrder(S)[k] = w
      BY <1>2
    <3>2. k \in 1..(a + b) /\ f[k] = w
      BY <1>1, <3>1
    <3> QED BY <3>2
  <2>2. ASSUME NEW w \in T PROVE \E k \in 1..(a + b) : f[k] = w
    <3>1. PICK k \in 1..b : InOrder(T)[k] = w
      BY <1>2
    <3>2. k + a \in 1..(a + b) /\ f[k + a] = w
      BY <1>1, <3>1
    <3> QED BY <3>2
  <2> QED BY <2>1, <2>2
<1>6. a + b \in Nat /\ S \cup T \in SUBSET Nat
  BY <1>1
<1>7. InOrder(S) \in Seq(S) /\ InOrder(T) \in Seq(T) /\ Len(InOrder(S)) = a /\ Len(InOrder(T)) = b
  BY <1>1
<1>8. f = InOrder(S) \o InOrder(T)
  <2> DEFINE s == InOrder(S)
             t == InOrder(T)
  <2>1. s \in Seq(S \cup T) /\ t \in Seq(S \cup T) /\ Len(s) = a /\ Len(t) = b
    BY <1>1, <1>7
  <2> HIDE DEF s, t
  <2>2. /\ s \o t \in Seq(S \cup T) /\ Len(s \o t) = a + b
        /\ \A k \in 1..(a + b) : (s \o t)[k] = IF k <= a THEN s[k] ELSE t[k - a]
    BY ONLY <2>1, ConcatProperties
  <2>3. DOMAIN (s \o t) = 1..(a + b) /\ s \o t = [k \in DOMAIN (s \o t) |-> (s \o t)[k]]
    BY <1>1, <2>2, LenProperties
  <2>4. s \o t = [k \in 1..(a + b) |-> IF k <= a THEN s[k] ELSE t[k - a]]
    BY <2>2, <2>3
  <2> QED BY <2>4 DEF s, t
<1> HIDE DEF f
<1>9. IsFiniteSet(S \cup T) /\ Cardinality(S \cup T) = a + b /\ InOrder(S \cup T) = f
  BY <1>3, <1>4, <1>5, <1>6, OrderUnique
<1> QED BY <1>8, <1>9 DEF a, b

(* The words of the path by their numbers.                                 *)
LEMMA Counted ==
  ASSUME NEW m \in Nat
  PROVE  InOrder(1..m) = [k \in 1..m |-> k] /\ \A k \in 1..m : Renumber(1..m)[k] = k
<1> DEFINE f == [k \in 1..m |-> k]
<1>1. /\ f \in [1..m -> 1..m] /\ 1..m \in SUBSET Nat
      /\ \A j, k \in 1..m : j < k => f[j] < f[k]
      /\ \A w \in 1..m : \E k \in 1..m : f[k] = w
      /\ \A k \in 1..m : f[k] = k
  OBVIOUS
<1> HIDE DEF f
<1>2. InOrder(1..m) = f /\ \A k \in 1..m : Renumber(1..m)[f[k]] = k
  BY <1>1, OrderUnique
<1> QED BY <1>1, <1>2 DEF f

Kepts(links, remap) ==
  {k \in DOMAIN links : ~links[k].dropped /\ {links[k].lw, links[k].rw} \subseteq DOMAIN remap}
Moved(link, remap) == [link EXCEPT !.lw = remap[link.lw], !.rw = remap[link.rw]]

LEMMA LinksRemapped ==
  ASSUME NEW m \in Nat, NEW links, DOMAIN links = 1..m, NEW remap
  PROVE  LET new == remap_linkages(links, remap)
             o == InOrder(Kepts(links, remap))
         IN  /\ Cardinality(Kepts(links, remap)) \in Nat
             /\ o \in [1..Cardinality(Kepts(links, remap)) -> Kepts(links, remap)]
             /\ DOMAIN new = DOMAIN o
             /\ \A j \in DOMAIN o : new[j] = Moved(links[o[j]], remap)
             /\ \A k \in Kepts(links, remap) : \E j \in DOMAIN o : o[j] = k
             /\ Kepts(links, remap) = DOMAIN links => new = [k \in 1..m |-> Moved(links[k], remap)]
<1> DEFINE K == Kepts(links, remap)
           o == InOrder(K)
           new == remap_linkages(links, remap)
<1>1. K \in SUBSET (1..m) /\ K \in SUBSET Nat /\ IsFiniteSet(K)
  <2>1. IsFiniteSet(1..m) /\ K \in SUBSET (1..m)
    BY FS_Interval DEF Kepts
  <2> HIDE DEF K
  <2>2. IsFiniteSet(K)
    BY <2>1, FS_Subset
  <2>3. 1..m \in SUBSET Nat
    OBVIOUS
  <2> QED BY <2>1, <2>2, <2>3
<1>2. /\ Cardinality(K) \in Nat /\ o \in [1..Cardinality(K) -> K]
      /\ \A k \in K : \E j \in 1..Cardinality(K) : o[j] = k
  BY <1>1, Renumbered, Ascending
<1>3. new = [j \in DOMAIN o |-> Moved(links[o[j]], remap)]
  BY DEF remap_linkages, Kepts, Moved
<1> HIDE DEF K, new
<1>4. K = DOMAIN links => new = [k \in 1..m |-> Moved(links[k], remap)]
  <2> SUFFICES ASSUME K = 1..m PROVE new = [k \in 1..m |-> Moved(links[k], remap)]
    OBVIOUS
  <2>1. o = [k \in 1..m |-> k]
    BY Counted
  <2> HIDE DEF o
  <2> QED BY <1>3, <2>1
<1> HIDE DEF o
<1>5. DOMAIN o = 1..Cardinality(K)
  BY <1>2
<1> QED BY <1>2, <1>3, <1>4, <1>5 DEF K, o, new

LEMMA PathShape ==
  ASSUME Displayable(lw_in)
  PROVE  /\ num_words \in Nat /\ DOMAIN wg_path = 1..num_words /\ lw_in.n \in Nat
         /\ \A j \in 1..num_words : /\ wg_path[j].idx \in 1..lw_in.n /\ wg_path[j].idx \in Nat
                                   /\ wg_path[j].sw \in Nat
                                   /\ lw_in.cdj[wg_path[j].idx] \in BOOLEAN
         /\ \A i, j \in 1..num_words : i < j => wg_path[i].idx < wg_path[j].idx
         /\ \A i, j \in 1..num_words : i < j => wg_path[i].sw <= wg_path[j].sw
<1>1. /\ num_words \in Nat /\ DOMAIN wg_path = 1..num_words /\ lw_in.n \in Nat
      /\ \A j \in 1..num_words : /\ wg_path[j].idx \in 1..lw_in.n /\ wg_path[j].sw \in Nat
                                /\ lw_in.cdj[wg_path[j].idx] \in BOOLEAN
  BY DEF Displayable, wg_path, num_words
<1>2. \A j \in 1..num_words : wg_path[j].idx \in Nat
  BY <1>1
<1>3. \A i, j \in 1..num_words : i < j => wg_path[i].idx < wg_path[j].idx /\ wg_path[i].sw <= wg_path[j].sw
  BY DEF Displayable, wg_path, num_words
<1> QED BY <1>1, <1>2, <1>3

LEMMA PathPlaces ==
  ASSUME Displayable(lw_in), NEW k \in 1..num_words
  PROVE  PathPlace(wg_path[k].idx) = k
<1>1. /\ num_words \in Nat /\ DOMAIN wg_path = 1..num_words
      /\ \A j \in 1..num_words : wg_path[j].idx \in Nat
      /\ \A i, j \in 1..num_words : i < j => wg_path[i].idx < wg_path[j].idx
  BY PathShape
<1>2. \A j \in 1..num_words : wg_path[j].idx = wg_path[k].idx => j = k
  <2> SUFFICES ASSUME NEW j \in 1..num_words, wg_path[j].idx = wg_path[k].idx PROVE j = k
    OBVIOUS
  <2>1. ~(j < k) /\ ~(k < j)
    BY <1>1
  <2> QED BY <1>1, <2>1
<1> QED BY <1>2 DEF PathPlace

-----------------------------------------------------------------------------
(* The links between places of the path, and what has a disjunct.          *)
Link(m) == lw_in.links[m]
LinkOf(l, r, m) == [lw |-> l, rw |-> r, id |-> m, morph |-> Link(m).morph, dropped |-> FALSE]
Placed(m) == LinkOf(PathPlace(Link(m).lw), PathPlace(Link(m).rw), m)
Extracted(m) == LinkOf(Link(m).lw, Link(m).rw, m)
Matched(k) == lw_in.cdj[wg_path[k].idx]
HiddenLink(m) == lw_in.hide /\ Link(m).morph
Marked(m) == [lw |-> PathPlace(Link(m).lw), rw |-> PathPlace(Link(m).rw), id |-> m, morph |-> Link(m).morph,
              dropped |-> HiddenLink(m)]

PlacedOK == cdj = [k \in 1..num_words |-> Matched(k)]

(* A word that is displayed, and the words that are up to a place.         *)
EntryOf(c, k) == IF c[k] = EMPTY THEN Placeholder(k) ELSE Shown(c[k])
EntriesOf(c, S) == [j \in 1..Cardinality(S) |-> EntryOf(c, InOrder(S)[j])]
KeptIn(c, k) == c[k] # NULL /\ (c[k] # EMPTY \/ ~lw_in.hide \/ show_word(k))
KeptUpto(c, b) == {k \in 1..b : KeptIn(c, k)}

(* The places s..e are displayed as one word, the last of them has it, and *)
(* if they are null they are of one sentence word.                         *)
OneWord(s, e) == ~Matched(e) => \A j \in s..e : wg_path[j].sw = wg_path[e].sw
Segment(c, s, e) == c[e] = s..e /\ OneWord(s, e) /\ \A j \in s..(e - 1) : c[j] \in {NULL, EMPTY}

(* The places up to b have been displayed.                                 *)
Displayed(c, np, b) ==
  /\ \A k \in 1..b : \E s \in 1..k, e \in k..b : Segment(c, s, e)
  /\ \A k \in 1..b : cdj[k] => c[k] # NULL
  /\ \A k \in (b + 1)..num_words : c[k] = NULL
  /\ np = EntriesOf(c, KeptUpto(c, b))

(* The null block in work is of one sentence word and has no disjuncts.    *)
InBlock(nb, pl) ==
  /\ pl \in 1..(num_words + 1) /\ nb \in 0..(pl - 1)
  /\ nb > 0 => /\ pl <= num_words
               /\ \A k \in (pl - nb)..pl : ~cdj[k] /\ wg_path[k].sw = wg_path[pl].sw

WordsAt(c, np, nb, pl) ==
  /\ c = [k \in 1..num_words |-> c[k]]
  /\ InBlock(nb, pl)
  /\ Displayed(c, np, pl - 1 - nb)

LinksMarked == larray = [m \in DOMAIN lw_in.links |-> Marked(m)]

WordsInv == PlacedOK /\ LinksMarked /\ WordsAt(chosen, npath, nbsize, place)

DisplayInv ==
  /\ lw_in \in Paths
  /\ cpc \in {"extracted", "create", "words", "created"}
  /\ cpc \in {"extracted", "create"} => npath = <<>> /\ nbsize = 0 /\ place = 1
  /\ cpc = "extracted" => cdj = lw_in.cdj /\ larray = [m \in DOMAIN lw_in.links |-> Extracted(m)]
  /\ cpc = "create" => PlacedOK /\ larray = [m \in DOMAIN lw_in.links |-> Placed(m)]
  /\ cpc = "words" => WordsInv
  /\ cpc = "created" => DisplayFits

LEMMA LinkEnds ==
  ASSUME Displayable(lw_in)
  PROVE  /\ Len(lw_in.links) \in Nat /\ DOMAIN lw_in.links = 1..Len(lw_in.links)
         /\ \A m \in DOMAIN lw_in.links : \A w \in {Link(m).lw, Link(m).rw} :
              PathPlace(w) \in 1..num_words /\ wg_path[PathPlace(w)].idx = w /\ Matched(PathPlace(w))
<1>1. Len(lw_in.links) \in Nat /\ DOMAIN lw_in.links = 1..Len(lw_in.links)
  BY DEF Displayable
<1>2. ASSUME NEW m \in DOMAIN lw_in.links, NEW w \in {Link(m).lw, Link(m).rw}
      PROVE  PathPlace(w) \in 1..num_words /\ wg_path[PathPlace(w)].idx = w /\ Matched(PathPlace(w))
  <2>0. \E k \in DOMAIN lw_in.path : lw_in.path[k].idx = w /\ lw_in.cdj[w]
    <3>1. \A v \in {lw_in.links[m].lw, lw_in.links[m].rw} :
            \E k \in DOMAIN lw_in.path : lw_in.path[k].idx = v /\ lw_in.cdj[v]
      BY DEF Displayable
    <3> QED BY <3>1 DEF Link
  <2>1. PICK k \in DOMAIN wg_path : wg_path[k].idx = w /\ lw_in.cdj[w]
    BY ONLY <2>0 DEF wg_path
  <2>2. k \in 1..num_words
    BY PathShape
  <2>3. PathPlace(w) = k
    BY <2>1, <2>2, PathPlaces
  <2> QED BY <2>1, <2>2, <2>3 DEF Matched
<1> QED BY <1>1, <1>2

LEMMA LinkMoved ==
  ASSUME NEW l, NEW r, NEW m, NEW remap
  PROVE  Moved(LinkOf(l, r, m), remap) = LinkOf(remap[l], remap[r], m)
<1> DEFINE x == remap[l]
           y == remap[r]
           mo == Link(m).morph
           no == FALSE
           rec == [lw |-> l, rw |-> r, id |-> m, morph |-> mo, dropped |-> no]
           one == [rec EXCEPT !.lw = x]
<1>1. rec = LinkOf(l, r, m) /\ [lw |-> x, rw |-> y, id |-> m, morph |-> mo, dropped |-> no] = LinkOf(x, y, m)
  BY DEF LinkOf
<1> HIDE DEF x, y, mo, no
<1>2. rec.lw = l /\ rec.rw = r
  OBVIOUS
<1>3. one = [lw |-> x, rw |-> r, id |-> m, morph |-> mo, dropped |-> no]
  OBVIOUS
<1>4. [rec EXCEPT !.lw = x, !.rw = y] = [one EXCEPT !.rw = y]
  OBVIOUS
<1>5. Moved(rec, remap) = [rec EXCEPT !.lw = x, !.rw = y]
  BY <1>2 DEF Moved, x, y
<1> HIDE DEF one, rec
<1>6. [one EXCEPT !.rw = y] = [lw |-> x, rw |-> y, id |-> m, morph |-> mo, dropped |-> no]
  BY <1>3
<1> QED BY <1>1, <1>4, <1>5, <1>6 DEF x, y

(* When every link is kept, each is moved.                                 *)
LEMMA AllRemapped ==
  ASSUME NEW m \in Nat, NEW links, DOMAIN links = 1..m, NEW remap, Kepts(links, remap) = 1..m
  PROVE  remap_linkages(links, remap) = [k \in 1..m |-> Moved(links[k], remap)]
<1>1. Kepts(links, remap) = DOMAIN links => remap_linkages(links, remap) = [k \in 1..m |-> Moved(links[k], remap)]
  BY LinksRemapped
<1> QED BY <1>1

LEMMA EmptyWordsRemoved ==
  ASSUME Displayable(lw_in), RemoveEmptyWords, cdj = lw_in.cdj,
         larray = [m \in DOMAIN lw_in.links |-> Extracted(m)]
  PROVE  cdj' = [k \in 1..num_words |-> Matched(k)] /\ larray' = [m \in DOMAIN lw_in.links |-> Placed(m)]
<1> DEFINE kept == {wg_path[k].idx : k \in 1..num_words}
           f == [k \in 1..num_words |-> wg_path[k].idx]
           remap == Renumber(kept)
<1>1. /\ cdj' = [k \in 1..num_words |-> cdj[wg_path[k].idx]]
      /\ larray' = IF Cardinality(kept) = lw_in.n THEN larray ELSE remap_linkages(larray, remap)
  BY DEF RemoveEmptyWords
<1>2. cdj' = [k \in 1..num_words |-> Matched(k)]
  BY <1>1 DEF Matched
<1>3. /\ num_words \in Nat /\ kept \in SUBSET Nat /\ f \in [1..num_words -> kept]
      /\ \A j, k \in 1..num_words : j < k => f[j] < f[k]
      /\ \A w \in kept : \E k \in 1..num_words : f[k] = w
      /\ \A k \in 1..num_words : f[k] = wg_path[k].idx
  BY PathShape
<1> HIDE DEF kept, f
<1>4. Cardinality(kept) = num_words /\ \A k \in 1..num_words : Renumber(kept)[f[k]] = k
  <2>1. IsFiniteSet(kept) /\ Cardinality(kept) = num_words /\ InOrder(kept) = f
        /\ \A k \in 1..num_words : Renumber(kept)[f[k]] = k
    <3> DEFINE m == num_words
    <3>1. /\ m \in Nat /\ kept \in SUBSET Nat /\ f \in [1..m -> kept]
          /\ \A j, k \in 1..m : j < k => f[j] < f[k]
          /\ \A w \in kept : \E k \in 1..m : f[k] = w
      BY <1>3
    <3> HIDE DEF m
    <3>2. /\ IsFiniteSet(kept) /\ Cardinality(kept) = m /\ InOrder(kept) = f
          /\ \A k \in 1..m : Renumber(kept)[f[k]] = k
      BY ONLY <3>1, OrderUnique
    <3> QED BY <3>2 DEF m
  <2> QED BY <2>1
<1>5. \A k \in 1..num_words : remap[wg_path[k].idx] = k /\ wg_path[k].idx \in kept
  BY <1>3, <1>4
<1>6. ASSUME NEW m \in DOMAIN lw_in.links, NEW w \in {Link(m).lw, Link(m).rw}
      PROVE  remap[w] = PathPlace(w) /\ w \in kept
  <2> HIDE DEF remap
  <2> QED BY <1>5, LinkEnds
<1>7. CASE Cardinality(kept) = lw_in.n
  <2>1. kept \in SUBSET (1..lw_in.n) /\ lw_in.n \in Nat
    BY PathShape DEF kept
  <2>2. kept = 1..lw_in.n
    <3>1. IsFiniteSet(1..lw_in.n) /\ Cardinality(1..lw_in.n) = lw_in.n
      <4> DEFINE N == lw_in.n
      <4>1. N \in Nat
        BY <2>1
      <4> HIDE DEF N
      <4>2. IsFiniteSet(1..N) /\ Cardinality(1..N) = N
        BY ONLY <4>1, FS_Interval
      <4> QED BY <4>2 DEF N
    <3> QED BY <1>7, <2>1, <3>1, FS_Subset
  <2>3. \A w \in kept : remap[w] = w
    BY <2>1, <2>2, Counted
  <2> HIDE DEF remap
  <2>4. ASSUME NEW m \in DOMAIN lw_in.links PROVE Extracted(m) = Placed(m)
    BY <1>6, <2>3 DEF Extracted, Placed
  <2> QED BY <1>1, <1>2, <1>7, <2>4
<1>8. CASE Cardinality(kept) # lw_in.n
  <2>1. larray' = remap_linkages(larray, remap) /\ DOMAIN remap = kept
    BY <1>1, <1>8 DEF Renumber
  <2>2. Len(lw_in.links) \in Nat /\ DOMAIN larray = 1..Len(lw_in.links) /\ DOMAIN larray = DOMAIN lw_in.links
    BY LinkEnds
  <2> HIDE DEF remap
  <2>3. Kepts(larray, remap) = DOMAIN larray
    BY <1>6, <2>1, <2>2 DEF Kepts, Extracted, LinkOf
  <2>4. larray' = [k \in 1..Len(lw_in.links) |-> Moved(larray[k], remap)]
    <3> DEFINE n == Len(lw_in.links)
    <3> HIDE DEF n
    <3>1. n \in Nat /\ DOMAIN larray = 1..n
      BY <2>2 DEF n
    <3>2. Kepts(larray, remap) = 1..n
      BY <2>3, <3>1
    <3>3. remap_linkages(larray, remap) = [k \in 1..n |-> Moved(larray[k], remap)]
      BY ONLY <3>1, <3>2, AllRemapped
    <3> QED BY <2>1, <3>3 DEF n
  <2>5. ASSUME NEW m \in DOMAIN lw_in.links PROVE Moved(larray[m], remap) = Placed(m)
    <3>1. larray[m] = Extracted(m)
      OBVIOUS
    <3>2. remap[Link(m).lw] = PathPlace(Link(m).lw) /\ remap[Link(m).rw] = PathPlace(Link(m).rw)
      BY <1>6
    <3> DEFINE l == Link(m).lw
               r == Link(m).rw
    <3> HIDE DEF l, r
    <3>3. Moved(LinkOf(l, r, m), remap) = LinkOf(remap[l], remap[r], m)
      BY ONLY LinkMoved
    <3> QED BY <3>1, <3>2, <3>3 DEF Placed, Extracted, l, r
  <2> QED BY <1>2, <2>2, <2>4, <2>5
<1> QED BY <1>7, <1>8

LEMMA WordsLater ==
  ASSUME UNCHANGED <<lw_in, cdj, larray>>, PlacedOK, LinksMarked, WordsAt(chosen', npath', nbsize', place')
  PROVE  WordsInv'
<1>1. num_words' = num_words /\ wg_path' = wg_path
  BY DEF num_words, wg_path
<1>2. PlacedOK'
  BY <1>1 DEF PlacedOK, Matched
<1>3. LinksMarked'
  BY <1>1 DEF LinksMarked, Marked, HiddenLink, Link, PathPlace
<1>4. InBlock(nbsize, place)'
  BY <1>1 DEF WordsAt, InBlock
<1>5. KeptUpto(chosen, place - 1 - nbsize)' = KeptUpto(chosen', place' - 1 - nbsize')
  BY DEF KeptUpto, KeptIn, show_word
<1>6. Displayed(chosen, npath, place - 1 - nbsize)'
  BY <1>1, <1>5 DEF WordsAt, Displayed, Segment, OneWord, Matched
<1> QED BY <1>1, <1>2, <1>3, <1>4, <1>6 DEF WordsInv, WordsAt

LEMMA CreateStarted ==
  ASSUME Displayable(lw_in), StartCreate, PlacedOK, larray = [m \in DOMAIN lw_in.links |-> Placed(m)],
         npath = <<>>, nbsize = 0, place = 1
  PROVE  WordsInv'
<1>1. num_words \in Nat
  BY PathShape
<1>2. /\ larray' = [k \in DOMAIN larray |-> [larray[k] EXCEPT !.dropped = lw_in.hide /\ larray[k].morph]]
      /\ chosen' = [k \in 1..num_words |-> NULL]
      /\ npath' = <<>> /\ nbsize' = 0 /\ place' = 1 /\ cdj' = cdj /\ lw_in' = lw_in
  BY DEF StartCreate
<1>3. larray' = [m \in DOMAIN lw_in.links |-> Marked(m)]
  <2>1. ASSUME NEW m \in DOMAIN lw_in.links
        PROVE  [larray[m] EXCEPT !.dropped = lw_in.hide /\ larray[m].morph] = Marked(m)
    <3>1. larray[m] = Placed(m) /\ Placed(m).morph = Link(m).morph
      BY DEF Placed, LinkOf
    <3>2. [Placed(m) EXCEPT !.dropped = HiddenLink(m)] = Marked(m)
      <4> DEFINE l == PathPlace(Link(m).lw)
                 r == PathPlace(Link(m).rw)
                 mo == Link(m).morph
                 h == HiddenLink(m)
                 no == FALSE
      <4>1. /\ Placed(m) = [lw |-> l, rw |-> r, id |-> m, morph |-> mo, dropped |-> no]
            /\ Marked(m) = [lw |-> l, rw |-> r, id |-> m, morph |-> mo, dropped |-> h]
        BY DEF Placed, LinkOf, Marked
      <4> HIDE DEF l, r, mo, h, no
      <4>2. [[lw |-> l, rw |-> r, id |-> m, morph |-> mo, dropped |-> no] EXCEPT !.dropped = h]
              = [lw |-> l, rw |-> r, id |-> m, morph |-> mo, dropped |-> h]
        OBVIOUS
      <4> QED BY <4>1, <4>2 DEF h
    <3> QED BY <3>1, <3>2 DEF HiddenLink
  <2> QED BY <1>2, <2>1
<1>4. num_words' = num_words /\ wg_path' = wg_path
  BY <1>2 DEF num_words, wg_path
<1>5. PlacedOK'
  BY <1>2, <1>4 DEF PlacedOK, Matched
<1>6. LinksMarked'
  <2>1. lw_in' = lw_in /\ larray' = [m \in DOMAIN lw_in.links |-> Marked(m)]
    BY <1>2, <1>3
  <2> QED BY ONLY <2>1, <1>4 DEF LinksMarked, Marked, HiddenLink, Link, PathPlace
<1>7. EntriesOf(chosen', {}) = <<>> /\ KeptUpto(chosen, 0)' = {}
  BY FS_EmptySet DEF EntriesOf, KeptUpto
<1>8. WordsAt(chosen, npath, nbsize, place)'
  <2>1. InBlock(0, 1)'
    BY <1>1, <1>4 DEF InBlock
  <2>2. \A k \in 1..num_words : chosen'[k] = NULL
    BY <1>2
  <2>3. Displayed(chosen, npath, 0)'
    <3>1. npath' = EntriesOf(chosen', KeptUpto(chosen, 0)')
      BY <1>2, <1>7
    <3>2. \A k \in (0 + 1)..num_words : chosen'[k] = NULL
      BY <2>2
    <3>3. 1..0 = {}
      OBVIOUS
    <3> QED BY <1>4, <3>1, <3>2, <3>3 DEF Displayed
  <2> QED BY <1>2, <1>4, <2>1, <2>3 DEF WordsAt
<1> QED BY <1>5, <1>6, <1>8 DEF WordsInv

LEMMA EntriesJoined ==
  ASSUME NEW c, NEW S \in SUBSET Nat, NEW T \in SUBSET Nat, IsFiniteSet(S), IsFiniteSet(T),
         \A v \in S, w \in T : v < w
  PROVE  EntriesOf(c, S \cup T) = EntriesOf(c, S) \o EntriesOf(c, T)
<1> DEFINE a == Cardinality(S)
           b == Cardinality(T)
           o == InOrder(S)
           p == InOrder(T)
           R == {EntryOf(c, k) : k \in Nat}
           s == EntriesOf(c, S)
           t == EntriesOf(c, T)
<1>1. a \in Nat /\ b \in Nat /\ o \in [1..a -> S] /\ p \in [1..b -> T]
  BY Renumbered
<1>2. Cardinality(S \cup T) = a + b /\ InOrder(S \cup T) = o \o p
  BY OrderJoined
<1>3. s = [j \in 1..a |-> EntryOf(c, o[j])] /\ t = [j \in 1..b |-> EntryOf(c, p[j])]
  BY DEF EntriesOf
<1>4. EntriesOf(c, S \cup T) = [j \in 1..(a + b) |-> EntryOf(c, (o \o p)[j])]
  BY <1>2 DEF EntriesOf
<1> HIDE DEF a, b, o, p, s, t
<1>5. o \in Seq(Nat) /\ p \in Seq(Nat) /\ Len(o) = a /\ Len(p) = b
  <2>1. o \in [1..a -> Nat] /\ p \in [1..b -> Nat]
    BY <1>1
  <2> QED BY <1>1, <2>1
<1>6. \A j \in 1..(a + b) : (o \o p)[j] = IF j <= a THEN o[j] ELSE p[j - a]
  BY <1>5, ConcatProperties
<1>7. (\A j \in 1..a : o[j] \in Nat) /\ (\A j \in 1..b : p[j] \in Nat)
  BY <1>1
<1>8. s \in [1..a -> R] /\ t \in [1..b -> R]
  BY <1>3, <1>7
<1> HIDE DEF R
<1>9. s \in Seq(R) /\ t \in Seq(R) /\ Len(s) = a /\ Len(t) = b
  BY <1>1, <1>8
<1>10. /\ s \o t \in Seq(R) /\ Len(s \o t) = a + b
       /\ \A j \in 1..(a + b) : (s \o t)[j] = IF j <= a THEN s[j] ELSE t[j - a]
  BY <1>9, ConcatProperties
<1>11. DOMAIN (s \o t) = 1..(a + b) /\ s \o t = [j \in DOMAIN (s \o t) |-> (s \o t)[j]]
  BY <1>1, <1>10, LenProperties
<1>12. ASSUME NEW j \in 1..(a + b) PROVE (s \o t)[j] = EntryOf(c, (o \o p)[j])
  <2>1. CASE j <= a
    <3>1. j \in 1..a
      BY <1>1, <2>1
    <3> QED BY <1>3, <1>6, <1>10, <2>1, <3>1
  <2>2. CASE ~(j <= a)
    <3>1. j - a \in 1..b
      BY <1>1, <2>2
    <3> QED BY <1>3, <1>6, <1>10, <2>2, <3>1
  <2> QED BY <2>1, <2>2
<1>13. s \o t = [j \in 1..(a + b) |-> EntryOf(c, (o \o p)[j])]
  BY <1>11, <1>12
<1> QED BY <1>4, <1>13 DEF s, t

LEMMA EntryAlone ==
  ASSUME NEW c, NEW k \in Nat
  PROVE  EntriesOf(c, {k}) = <<EntryOf(c, k)>> /\ IsFiniteSet({k})
<1> DEFINE f == [j \in 1..1 |-> k]
           S == {k}
           m == 1
<1>1. /\ f \in [1..m -> S] /\ S \in SUBSET Nat /\ m \in Nat /\ f[1] = k
      /\ (\A i, j \in 1..m : i < j => f[i] < f[j])
      /\ \A w \in S : \E j \in 1..m : f[j] = w
  OBVIOUS
<1> HIDE DEF f, S, m
<1>2. IsFiniteSet(S) /\ Cardinality(S) = m /\ InOrder(S) = f
  BY <1>1, OrderUnique
<1>3. EntriesOf(c, {k}) = [j \in 1..1 |-> EntryOf(c, k)]
  <2>1. \A j \in 1..1 : InOrder({k})[j] = k
    BY <1>1, <1>2 DEF S
  <2> QED BY <1>2, <2>1 DEF EntriesOf, S, m
<1> QED BY <1>2, <1>3 DEF S

(* The places b+1..e are displayed as one; T are placeholders before it.   *)
Added(c, d, b, e, T) ==
  /\ \A k \in 1..num_words : k \notin (b + 1)..e => d[k] = c[k]
  /\ d[e] = (b + 1)..e /\ OneWord(b + 1, e)
  /\ \A k \in (b + 1)..(e - 1) : d[k] \in {NULL, EMPTY}
  /\ \A k \in (b + 1)..e : cdj[k] => d[k] # NULL
  /\ T = {k \in (b + 1)..(e - 1) : KeptIn(d, k)}

LEMMA SegmentAdded ==
  ASSUME num_words \in Nat, NEW c, NEW np, NEW b \in Nat, NEW e \in Nat, b < e, e <= num_words,
         Displayed(c, np, b), NEW d, NEW T, Added(c, d, b, e, T)
  PROVE  Displayed(d, np \o EntriesOf(d, T) \o <<Shown((b + 1)..e)>>, e)
<1> DEFINE K == KeptUpto(c, b)
           nq == np \o EntriesOf(d, T) \o <<Shown((b + 1)..e)>>
<1>0. /\ \A k \in 1..num_words : k \notin (b + 1)..e => d[k] = c[k]
      /\ d[e] = (b + 1)..e /\ OneWord(b + 1, e)
      /\ \A k \in (b + 1)..(e - 1) : d[k] \in {NULL, EMPTY}
      /\ \A k \in (b + 1)..e : cdj[k] => d[k] # NULL
      /\ T = {k \in (b + 1)..(e - 1) : KeptIn(d, k)}
  BY DEF Added
<1>1. d[e] # EMPTY /\ d[e] # NULL
  <2>1. e \in (b + 1)..e /\ e # 0
    OBVIOUS
  <2> QED BY <1>0, <2>1 DEF EMPTY, NULL
<1>2. \A k \in 1..b : k \in 1..num_words /\ k \notin (b + 1)..e
  OBVIOUS
<1>3. \A k \in 1..b : d[k] = c[k] /\ (KeptIn(d, k) <=> KeptIn(c, k))
  BY <1>0, <1>2 DEF KeptIn
<1>4. ASSUME NEW k \in 1..e PROVE \E s \in 1..k, f \in k..e : Segment(d, s, f)
  <2>1. CASE k <= b
    <3>0. k \in 1..b
      BY <2>1
    <3>1. PICK s \in 1..k, f \in k..b : Segment(c, s, f)
      BY <3>0, Zenon DEF Displayed
    <3>2. f \in 1..b /\ \A j \in s..(f - 1) : j \in 1..b
      BY <2>1
    <3>3. Segment(d, s, f)
      BY <1>3, <3>1, <3>2 DEF Segment
    <3>4. s \in 1..k /\ f \in k..e
      OBVIOUS
    <3> QED BY <3>3, <3>4
  <2>2. CASE b < k
    <3>1. b + 1 \in 1..k /\ e \in k..e
      BY <2>2
    <3>2. Segment(d, b + 1, e)
      BY <1>0 DEF Segment
    <3> QED BY <3>1, <3>2
  <2> QED BY <2>1, <2>2
<1>5. ASSUME NEW k \in 1..e, cdj[k] PROVE d[k] # NULL
  <2>1. CASE k \in 1..b
    BY <1>3, <1>5, <2>1 DEF Displayed
  <2>2. CASE k \in (b + 1)..e
    BY <1>0, <1>5, <2>2
  <2> QED BY <2>1, <2>2
<1>6. ASSUME NEW k \in (e + 1)..num_words PROVE d[k] = NULL
  <2>1. k \in 1..num_words /\ k \notin (b + 1)..e /\ k \in (b + 1)..num_words
    OBVIOUS
  <2> QED BY <1>0, <2>1 DEF Displayed
<1>7. KeptUpto(d, e) = K \cup T \cup {e}
  <2>1. KeptIn(d, e)
    BY <1>1 DEF KeptIn
  <2>2. ASSUME NEW k \in 1..e PROVE k \in 1..b \/ k \in (b + 1)..(e - 1) \/ k = e
    OBVIOUS
  <2>3. (\A k \in 1..b : k \in 1..e) /\ (\A k \in (b + 1)..(e - 1) : k \in 1..e) /\ e \in 1..e
    OBVIOUS
  <2> QED BY <1>0, <1>3, <2>1, <2>2, <2>3 DEF KeptUpto
<1>8. /\ K \in SUBSET (1..b) /\ T \in SUBSET ((b + 1)..(e - 1))
      /\ IsFiniteSet(K) /\ IsFiniteSet(T)
  <2>1. K \in SUBSET (1..b) /\ T \in SUBSET ((b + 1)..(e - 1))
    BY <1>0 DEF KeptUpto
  <2>2. IsFiniteSet(1..b) /\ IsFiniteSet((b + 1)..(e - 1))
    BY FS_Interval
  <2> HIDE DEF K
  <2> QED BY <2>1, <2>2, FS_Subset
<1>9. np = EntriesOf(d, K)
  <2>1. Cardinality(K) \in Nat /\ InOrder(K) \in [1..Cardinality(K) -> K]
    BY <1>8, Renumbered
  <2>2. \A j \in 1..Cardinality(K) : InOrder(K)[j] \in 1..b
    BY <1>8, <2>1
  <2>3. \A j \in 1..Cardinality(K) : EntryOf(d, InOrder(K)[j]) = EntryOf(c, InOrder(K)[j])
    BY <1>3, <2>2 DEF EntryOf
  <2> QED BY <2>3 DEF EntriesOf, Displayed
<1> HIDE DEF K
<1>10. EntriesOf(d, K \cup T) = np \o EntriesOf(d, T)
  <2>1. K \in SUBSET Nat /\ T \in SUBSET Nat /\ \A v \in K, w \in T : v < w
    BY <1>8
  <2> QED BY <1>8, <1>9, <2>1, EntriesJoined
<1>11. EntriesOf(d, K \cup T \cup {e}) = np \o EntriesOf(d, T) \o <<Shown((b + 1)..e)>>
  <2>1. K \cup T \in SUBSET Nat /\ {e} \in SUBSET Nat /\ \A v \in K \cup T, w \in {e} : v < w
    BY <1>8
  <2>2. IsFiniteSet(K \cup T)
    BY <1>8, FS_Union
  <2>3. EntriesOf(d, {e}) = <<EntryOf(d, e)>> /\ IsFiniteSet({e})
    BY EntryAlone
  <2>4. EntryOf(d, e) = Shown((b + 1)..e)
    BY <1>0, <1>1 DEF EntryOf
  <2> DEFINE S == K \cup T
             E == {e}
  <2> HIDE DEF S, E
  <2>5. EntriesOf(d, S \cup E) = EntriesOf(d, S) \o EntriesOf(d, E)
    BY <2>1, <2>2, <2>3, EntriesJoined DEF S, E
  <2> QED BY <1>10, <2>3, <2>4, <2>5 DEF S, E
<1> QED BY <1>4, <1>5, <1>6, <1>7, <1>11 DEF Displayed

-----------------------------------------------------------------------------
(* The step of each word.                                                  *)
LEMMA NullJoinsBlock ==
  ASSUME Displayable(lw_in), WordsInv, NEW k \in 1..num_words, NullInBlock(k)
  PROVE  WordsInv'
<1>1. /\ place = k /\ ~cdj[k] /\ k # num_words /\ wg_path[k + 1].sw = wg_path[k].sw /\ ~cdj[k + 1]
      /\ nbsize' = nbsize + 1 /\ place' = k + 1
      /\ chosen' = chosen /\ npath' = npath /\ UNCHANGED <<lw_in, cdj, larray>>
  BY DEF NullInBlock, At, Continues, AtBlockEnd
<1>2. num_words \in Nat /\ k + 1 \in 1..num_words
  BY <1>1, PathShape
<1>3. place \in 1..(num_words + 1) /\ nbsize \in 0..(place - 1)
      /\ (nbsize > 0 => \A j \in (place - nbsize)..place : ~cdj[j] /\ wg_path[j].sw = wg_path[place].sw)
  BY DEF WordsInv, WordsAt, InBlock
<1>4. ASSUME NEW j \in (k - nbsize)..(k + 1) PROVE ~cdj[j] /\ wg_path[j].sw = wg_path[k + 1].sw
  <2>1. CASE j = k + 1
    BY <1>1, <2>1
  <2>2. CASE j = k
    BY <1>1, <2>2
  <2>3. CASE j # k + 1 /\ j # k
    <3>1. nbsize > 0 /\ j \in (place - nbsize)..place
      BY <1>1, <1>3, <2>3
    <3> QED BY <1>1, <1>3, <3>1
  <2> QED BY <2>1, <2>2, <2>3
<1>5. InBlock(nbsize + 1, k + 1)
  <2>1. (k + 1) - (nbsize + 1) = k - nbsize /\ k + 1 \in 1..(num_words + 1) /\ nbsize + 1 \in 0..k /\ k + 1 <= num_words
    BY <1>1, <1>2, <1>3
  <2> QED BY <1>4, <2>1 DEF InBlock
<1>6. (k + 1) - 1 - (nbsize + 1) = place - 1 - nbsize
  BY <1>1, <1>3
<1>7. WordsAt(chosen, npath, nbsize + 1, k + 1)
  BY <1>5, <1>6 DEF WordsInv, WordsAt
<1> QED BY <1>1, <1>7, WordsLater DEF WordsInv

(* What a segment of the words before the place adds.                      *)
LEMMA WordShown ==
  ASSUME Displayable(lw_in), WordsInv, NEW e \in 1..num_words, place <= e,
         UNCHANGED <<lw_in, cdj, larray>>,
         NEW b, b = place - 1 - nbsize,
         chosen' = [k \in 1..num_words |-> chosen'[k]],
         NEW T, Added(chosen, chosen', b, e, T),
         npath' = npath \o EntriesOf(chosen', T) \o <<Shown((b + 1)..e)>>,
         nbsize' = 0, place' = e + 1
  PROVE  WordsInv'
<1>1. num_words \in Nat /\ e \in Nat /\ e <= num_words
  BY PathShape
<1>2. b \in Nat /\ b < e
  BY DEF WordsInv, WordsAt, InBlock
<1>3. Displayed(chosen, npath, b)
  BY DEF WordsInv, WordsAt
<1>4. Displayed(chosen', npath \o EntriesOf(chosen', T) \o <<Shown((b + 1)..e)>>, e)
  <2> DEFINE c == chosen
             d == chosen'
             np == npath
  <2>1. Displayed(c, np, b) /\ Added(c, d, b, e, T)
    BY <1>3
  <2> HIDE DEF c, d, np
  <2>2. Displayed(d, np \o EntriesOf(d, T) \o <<Shown((b + 1)..e)>>, e)
    BY <1>1, <1>2, <2>1, SegmentAdded
  <2> QED BY <2>2 DEF d, np
<1>5. InBlock(0, e + 1)
  BY <1>1 DEF InBlock
<1>6. (e + 1) - 1 - 0 = e
  BY <1>1
<1>7. WordsAt(chosen', npath', nbsize', place')
  BY <1>4, <1>5, <1>6 DEF WordsAt
<1> QED BY <1>7, WordsLater DEF WordsInv

LEMMA Greatest ==
  ASSUME NEW S \in SUBSET Nat, IsFiniteSet(S), S # {}
  PROVE  Max(S) \in S /\ \A y \in S : y <= Max(S)
<1> DEFINE m == Cardinality(S)
           o == InOrder(S)
<1>1. /\ m \in Nat /\ o \in [1..m -> S]
      /\ \A j, k \in 1..m : j < k => o[j] < o[k]
      /\ \A w \in S : \E k \in 1..m : o[k] = w
  BY Renumbered, Ascending
<1> HIDE DEF m, o
<1>2. m \in 1..m
  <2>1. PICK w \in S : TRUE
    OBVIOUS
  <2>2. PICK k \in 1..m : o[k] = w
    BY <1>1
  <2> QED BY <1>1, <2>2
<1>3. ASSUME NEW y \in S PROVE y <= o[m]
  <2>1. PICK j \in 1..m : o[j] = y
    BY <1>1
  <2>2. CASE j = m
    BY <2>1, <2>2
  <2>3. CASE j # m
    <3>1. j < m
      BY <1>1, <2>3
    <3>2. o[j] < o[m]
      BY <1>1, <1>2, <3>1
    <3>3. o[m] \in Nat
      BY <1>1, <1>2
    <3> QED BY <2>1, <3>2, <3>3
  <2> QED BY <2>2, <2>3
<1>4. o[m] \in S /\ \A y \in S : o[m] >= y
  BY <1>1, <1>2, <1>3
<1>5. Max(S) \in S /\ \A y \in S : Max(S) >= y
  BY <1>4 DEF Max
<1> QED BY <1>5

LEMMA NoEntries ==
  ASSUME WordsInv, NEW c, NEW x
  PROVE  npath \o EntriesOf(c, {}) \o <<x>> = Append(npath, x)
<1> DEFINE b == place - 1 - nbsize
           K == KeptUpto(chosen, b)
           R == {EntryOf(chosen, k) : k \in Nat}
<1>1. npath = EntriesOf(chosen, K) /\ b \in Nat
  BY DEF WordsInv, WordsAt, Displayed, InBlock
<1>2. K \in SUBSET Nat /\ IsFiniteSet(K)
  <2>1. K \in SUBSET (1..b) /\ IsFiniteSet(1..b)
    BY <1>1, FS_Interval DEF KeptUpto
  <2> HIDE DEF K, b
  <2>2. IsFiniteSet(K)
    BY <2>1, FS_Subset
  <2> QED BY <2>1, <2>2
<1> HIDE DEF K
<1>3. Cardinality(K) \in Nat /\ InOrder(K) \in [1..Cardinality(K) -> K]
  BY <1>2, Renumbered
<1>4. \A j \in 1..Cardinality(K) : InOrder(K)[j] \in Nat
  BY <1>2, <1>3
<1>5. npath \in [1..Cardinality(K) -> R]
  BY <1>1, <1>4 DEF EntriesOf
<1> HIDE DEF R
<1>6. npath \in Seq(R)
  BY <1>3, <1>5
<1>7. EntriesOf(c, {}) = <<>>
  BY FS_EmptySet DEF EntriesOf
<1>8. npath \o <<>> = npath
  BY <1>6
<1>9. npath \o <<x>> = Append(npath, x)
  <2>1. npath \in Seq(R \cup {x})
    BY <1>6
  <2> QED BY <2>1
<1> QED BY <1>7, <1>8, <1>9

LEMMA WordAlone ==
  ASSUME Displayable(lw_in), WordsInv, NEW k \in 1..num_words, place = k, LinkedWord(k)
  PROVE  WordsInv'
<1>1. /\ cdj[k] /\ UNCHANGED <<lw_in, cdj, larray, nbsize>>
      /\ chosen' = [chosen EXCEPT ![k] = {k}] /\ npath' = Append(npath, Shown({k})) /\ place' = k + 1
  BY DEF LinkedWord
<1>2. num_words \in Nat /\ k \in Nat
  BY PathShape
<1>3. nbsize = 0
  <2>1. nbsize \in 0..(place - 1) /\ (nbsize > 0 => \A j \in (place - nbsize)..place : ~cdj[j])
    BY DEF WordsInv, WordsAt, InBlock
  <2>2. CASE nbsize > 0
    <3>1. place \in (place - nbsize)..place
      BY <1>2, <2>1
    <3> QED BY <1>1, <2>1, <2>2, <3>1
  <2> QED BY <2>1, <2>2
<1> DEFINE b == k - 1
<1>4. b = place - 1 - nbsize /\ (b + 1)..k = {k} /\ (b + 1)..(k - 1) = {}
  BY <1>2, <1>3
<1>5. DOMAIN chosen = 1..num_words
  BY DEF WordsInv, WordsAt
<1>6. chosen' = [j \in 1..num_words |-> chosen'[j]]
  BY <1>1, <1>5
<1>7. Added(chosen, chosen', b, k, {})
  <2>1. chosen'[k] = {k} /\ {k} # NULL
    BY <1>1, <1>5 DEF NULL
  <2>2. \A j \in 1..num_words : j # k => chosen'[j] = chosen[j]
    BY <1>1, <1>5
  <2>3. Matched(k)
    BY <1>1 DEF WordsInv, PlacedOK
  <2> HIDE DEF b
  <2> QED BY <1>4, <2>1, <2>2, <2>3 DEF Added, OneWord
<1>8. npath' = npath \o EntriesOf(chosen', {}) \o <<Shown((b + 1)..k)>>
  BY <1>1, <1>4, NoEntries
<1> HIDE DEF b
<1>9. place <= k /\ nbsize' = 0
  BY <1>1, <1>2, <1>3
<1> QED BY <1>1, <1>4, <1>6, <1>7, <1>8, <1>9, WordShown

LEMMA BlockEnded ==
  ASSUME Displayable(lw_in), WordsInv, NEW k \in 1..num_words, place = k, NullEndsBlock(k)
  PROVE  WordsInv'
<1>1. /\ ~cdj[k] /\ UNCHANGED <<lw_in, cdj, larray>>
      /\ chosen' = [chosen EXCEPT ![k] = Block(k)] /\ npath' = Append(npath, Shown(Block(k)))
      /\ nbsize' = 0 /\ place' = k + 1
  BY DEF NullEndsBlock
<1>2. num_words \in Nat /\ k \in Nat /\ nbsize \in 0..(k - 1)
      /\ (nbsize > 0 => \A j \in (k - nbsize)..k : ~cdj[j] /\ wg_path[j].sw = wg_path[k].sw)
  BY PathShape DEF WordsInv, WordsAt, InBlock
<1> DEFINE b == place - 1 - nbsize
<1>3. b + 1 = k - nbsize /\ b \in Nat /\ b < k
  BY <1>2
<1>4. \A j \in (b + 1)..num_words : chosen[j] = NULL
  BY DEF WordsInv, WordsAt, Displayed
<1> HIDE DEF b
<1>5. Block(k) = (b + 1)..k
  BY <1>3 DEF Block
<1>6. DOMAIN chosen = 1..num_words
  BY DEF WordsInv, WordsAt
<1>7. chosen' = [j \in 1..num_words |-> chosen'[j]]
  BY <1>1, <1>6
<1>8. chosen'[k] = (b + 1)..k /\ \A j \in 1..num_words : j # k => chosen'[j] = chosen[j]
  BY <1>1, <1>5, <1>6
<1>9. \A j \in (b + 1)..(k - 1) : chosen'[j] = NULL
  <2>1. \A j \in (b + 1)..(k - 1) : j \in 1..num_words /\ j # k /\ j \in (b + 1)..num_words
    BY <1>2, <1>3
  <2> QED BY <1>4, <1>8, <2>1
<1>10. \A j \in (b + 1)..k : ~cdj[j] /\ wg_path[j].sw = wg_path[k].sw
  <2>1. CASE nbsize > 0
    BY <1>2, <1>3, <2>1
  <2>2. CASE ~(nbsize > 0)
    <3>1. b + 1 = k
      BY <1>2, <1>3, <2>2
    <3>2. \A j \in (b + 1)..k : j = k
      BY <1>2, <3>1
    <3> QED BY <1>1, <3>2
  <2> QED BY <2>1, <2>2
<1>11. Added(chosen, chosen', b, k, {})
  <2>1. \A j \in 1..num_words : j \notin (b + 1)..k => j # k
    BY <1>2, <1>3
  <2> QED BY <1>8, <1>9, <1>10, <2>1 DEF Added, KeptIn, OneWord
<1>12. npath' = npath \o EntriesOf(chosen', {}) \o <<Shown((b + 1)..k)>>
  BY <1>1, <1>5, NoEntries
<1>13. place <= k
  BY <1>2
<1> QED BY <1>1, <1>7, <1>11, <1>12, <1>13, WordShown DEF b

(* The morphemes joined follow each other.                                 *)
LEMMA MorphemesFollow ==
  ASSUME Displayable(lw_in), NEW k \in 1..num_words, Joins(k)
  PROVE  LET end == Max(SameSplit(k))
         IN  end \in k..num_words /\ SameSplit(k) = k..end /\ \A j \in k..end : cdj[j]
<1> DEFINE all == SameSplit(k)
           end == Max(all)
<1>1. num_words \in Nat /\ k \in Nat
  BY PathShape
<1>2. all \in SUBSET (k..num_words) /\ all # {} /\ \A j \in all : cdj[j]
  BY DEF Joins, SameSplit
<1>3. ASSUME NEW j \in all, NEW i \in k..j PROVE i \in all
  <2>1. j \in k..num_words /\ wg_path[k].unsplit # 0 /\ \A m \in k..j : wg_path[m].unsplit = wg_path[k].unsplit
    BY DEF SameSplit
  <2>2. i \in k..num_words /\ \A m \in k..i : m \in k..j
    BY <1>1, <2>1
  <2> QED BY <2>1, <2>2 DEF SameSplit
<1> HIDE DEF all
<1>4. all \in SUBSET Nat /\ IsFiniteSet(all)
  <2>1. IsFiniteSet(k..num_words) /\ k..num_words \in SUBSET Nat
    BY <1>1, FS_Interval
  <2> QED BY <1>2, <2>1, FS_Subset
<1>5. end \in all /\ \A y \in all : y <= end
  BY <1>2, <1>4, Greatest
<1> HIDE DEF end
<1>6. end \in k..num_words
  BY <1>2, <1>5
<1>7. all = k..end
  <2>1. \A i \in k..end : i \in all
    BY <1>3, <1>5
  <2>2. \A i \in all : i \in k..end
    BY <1>2, <1>5, <1>6
  <2> QED BY <2>1, <2>2
<1> QED BY <1>2, <1>6, <1>7 DEF all, end

LEMMA MorphemesJoined ==
  ASSUME Displayable(lw_in), WordsInv, NEW k \in 1..num_words, place = k, JoinMorphemes(k)
  PROVE  WordsInv'
<1> DEFINE all == SameSplit(k)
           end == Max(all)
           T == {m \in k..(end - 1) : show_word(m)}
           kept == InOrder(T)
           b == k - 1
<1>1. /\ cdj[k] /\ Joins(k) /\ UNCHANGED <<lw_in, cdj, larray, nbsize>>
      /\ chosen' = [j \in 1..num_words |-> IF j = end THEN all ELSE IF j \in all THEN EMPTY ELSE chosen[j]]
      /\ npath' = npath \o [m \in DOMAIN kept |-> Placeholder(kept[m])] \o <<Shown(all)>>
      /\ place' = end + 1
  BY DEF JoinMorphemes
<1>2. num_words \in Nat /\ k \in Nat
  BY PathShape
<1>3. end \in k..num_words /\ all = k..end /\ lw_in.hide
  BY <1>1, MorphemesFollow DEF Joins
<1> HIDE DEF end, all
<1>4. nbsize = 0
  <2>1. nbsize \in 0..(place - 1) /\ (nbsize > 0 => \A j \in (place - nbsize)..place : ~cdj[j])
    BY DEF WordsInv, WordsAt, InBlock
  <2>2. CASE nbsize > 0
    <3>1. place \in (place - nbsize)..place
      BY <1>2, <2>1
    <3> QED BY <1>1, <2>1, <2>2, <3>1
  <2> QED BY <2>1, <2>2
<1>5. b = place - 1 - nbsize /\ b + 1 = k /\ end \in 1..num_words /\ end \in Nat
  BY <1>2, <1>3, <1>4
<1>6. chosen' = [j \in 1..num_words |-> chosen'[j]]
  BY <1>1
<1>7. EMPTY # NULL
  BY DEF EMPTY, NULL
<1> HIDE DEF b
<1>8. /\ chosen'[end] = k..end
      /\ \A j \in k..(end - 1) : chosen'[j] = EMPTY
      /\ \A j \in 1..num_words : j \notin k..end => chosen'[j] = chosen[j]
  <2>1. \A j \in k..(end - 1) : j \in 1..num_words /\ j # end /\ j \in k..end
    BY <1>2, <1>3
  <2>2. end \in k..end
    BY <1>3
  <2> QED BY <1>1, <1>3, <1>5, <2>1, <2>2
<1>9. Added(chosen, chosen', b, end, T)
  <2>1. k..end # NULL
    BY <1>2, <1>3 DEF NULL
  <2>2. \A j \in k..end : j = end \/ j \in k..(end - 1)
    BY <1>2, <1>3
  <2>3. \A j \in k..end : chosen'[j] # NULL
    BY <1>7, <1>8, <2>1, <2>2
  <2>4. \A j \in k..(end - 1) : KeptIn(chosen', j) <=> show_word(j)
    BY <1>3, <1>7, <1>8 DEF KeptIn
  <2>5. T = {j \in k..(end - 1) : KeptIn(chosen', j)}
    BY <2>4
  <2>6. Matched(end)
    <3>1. \A j \in all : cdj[j]
      BY <1>1 DEF Joins, all
    <3>2. end \in all
      BY <1>3
    <3> QED BY <1>5, <3>1, <3>2 DEF WordsInv, PlacedOK
  <2> HIDE DEF T
  <2> QED BY <1>5, <1>8, <2>3, <2>5, <2>6 DEF Added, OneWord
<1>10. T \in SUBSET (k..(end - 1)) /\ T \in SUBSET Nat /\ IsFiniteSet(T)
  <2>1. T \in SUBSET (k..(end - 1)) /\ IsFiniteSet(k..(end - 1)) /\ k..(end - 1) \in SUBSET Nat
    BY <1>2, <1>3, FS_Interval
  <2> HIDE DEF T
  <2>2. IsFiniteSet(T)
    BY <2>1, FS_Subset
  <2> QED BY <2>1, <2>2
<1> HIDE DEF T
<1>11. EntriesOf(chosen', T) = [m \in DOMAIN kept |-> Placeholder(kept[m])]
  <2>1. kept \in [1..Cardinality(T) -> T]
    BY <1>10, Renumbered
  <2>2. \A m \in 1..Cardinality(T) : EntryOf(chosen', kept[m]) = Placeholder(kept[m])
    BY <1>8, <1>10, <2>1 DEF EntryOf
  <2> QED BY <2>1, <2>2 DEF EntriesOf
<1>12. npath' = npath \o EntriesOf(chosen', T) \o <<Shown((b + 1)..end)>>
  BY <1>1, <1>3, <1>5, <1>11
<1>13. place <= end /\ nbsize' = 0
  BY <1>1, <1>3, <1>4
<1> QED BY <1>1, <1>5, <1>6, <1>9, <1>12, <1>13, WordShown

-----------------------------------------------------------------------------
(* The words that are displayed, when all have been seen.                  *)
LEMMA Finished ==
  ASSUME Displayable(lw_in), WordsInv, place > num_words
  PROVE  num_words \in Nat /\ Displayed(chosen, npath, num_words)
<1>1. num_words \in Nat /\ place \in 1..(num_words + 1) /\ nbsize \in 0..(place - 1) /\ ~(nbsize > 0)
  BY PathShape DEF WordsInv, WordsAt, InBlock
<1>2. place - 1 - nbsize = num_words
  BY <1>1
<1> QED BY <1>1, <1>2 DEF WordsInv, WordsAt

LEMMA EntryFields ==
  ASSUME NEW c, NEW k
  PROVE  /\ c[k] = EMPTY => EntryOf(c, k).kind = "placeholder" /\ EntryOf(c, k).cover = {k}
         /\ c[k] # EMPTY => EntryOf(c, k).kind = "word" /\ EntryOf(c, k).cover = c[k]
BY DEF EntryOf, Placeholder, Shown

LEMMA SegmentsApart ==
  ASSUME NEW c, NEW s \in Nat, NEW e \in Nat, 0 < s, s <= e, Segment(c, s, e)
  PROVE  /\ c[e] # NULL /\ c[e] # EMPTY /\ Min(c[e]) = s /\ e \in c[e]
         /\ \A t, f \in Nat : Segment(c, t, f) /\ e < f => e < t
<1>1. c[e] = s..e
  BY DEF Segment
<1>2. e \in s..e /\ e # 0 /\ s \in s..e /\ \A y \in s..e : s <= y
  OBVIOUS
<1>3. c[e] # NULL /\ c[e] # EMPTY
  BY <1>1, <1>2 DEF NULL, EMPTY
<1>4. Min(s..e) = s
  <2>1. Min(s..e) \in s..e /\ \A y \in s..e : Min(s..e) <= y
    BY <1>2 DEF Min
  <2> QED BY <1>2, <2>1
<1>5. ASSUME NEW t \in Nat, NEW f \in Nat, Segment(c, t, f), e < f PROVE e < t
  <2>1. e \in t..(f - 1) => c[e] \in {NULL, EMPTY}
    BY <1>5 DEF Segment
  <2> QED BY <1>3, <1>5, <2>1
<1> QED BY <1>1, <1>2, <1>3, <1>4, <1>5

(* A word that has a text is the last of its segment.                      *)
LEMMA SegmentEnds ==
  ASSUME NEW n \in Nat, NEW c, NEW np, Displayed(c, np, n), NEW e \in 1..n, c[e] # NULL, c[e] # EMPTY
  PROVE  \E s \in 1..e : Segment(c, s, e)
<1>1. PICK s \in 1..e, f \in e..n : Segment(c, s, f)
  BY Zenon DEF Displayed
<1>2. e \in s..(f - 1) => c[e] \in {NULL, EMPTY}
  BY <1>1 DEF Segment
<1>3. f = e
  BY <1>2
<1> QED BY <1>1, <1>3

(* The displayed words by their places in wg_path_display.                 *)
LEMMA EntriesPlaced ==
  ASSUME NEW n \in Nat, Displayed(chosen, npath, n)
  PROVE  LET K == KeptUpto(chosen, n)
             m == Cardinality(K)
             o == InOrder(K)
             R == Renumber(K)
         IN  /\ m \in Nat /\ o \in [1..m -> K] /\ R \in [K -> 1..m] /\ K \in SUBSET (1..n)
             /\ DOMAIN npath = 1..m /\ Len(npath) = m
             /\ \A j \in 1..m : npath[j] = EntryOf(chosen, o[j]) /\ R[o[j]] = j
             /\ \A k \in K : o[R[k]] = k
             /\ \A i, j \in 1..m : i < j => o[i] < o[j]
<1> DEFINE K == KeptUpto(chosen, n)
           m == Cardinality(K)
           o == InOrder(K)
           R == Renumber(K)
           E == {EntryOf(chosen, k) : k \in Nat}
<1>1. npath = [j \in 1..m |-> EntryOf(chosen, o[j])]
  BY DEF Displayed, EntriesOf
<1>2. K \in SUBSET (1..n) /\ K \in SUBSET Nat /\ IsFiniteSet(K)
  <2>1. K \in SUBSET (1..n) /\ IsFiniteSet(1..n) /\ 1..n \in SUBSET Nat
    BY FS_Interval DEF KeptUpto
  <2> HIDE DEF K
  <2>2. IsFiniteSet(K)
    BY <2>1, FS_Subset
  <2> QED BY <2>1, <2>2
<1> HIDE DEF K
<1>3. /\ m \in Nat /\ o \in [1..m -> K] /\ R \in [K -> 1..m]
      /\ \A j \in 1..m : R[o[j]] = j
      /\ \A k \in K : o[R[k]] = k
      /\ \A i, j \in 1..m : i < j => o[i] < o[j]
  BY <1>2, Renumbered, Ascending
<1> HIDE DEF m, o, R
<1>4. \A j \in 1..m : o[j] \in Nat
  BY <1>2, <1>3
<1>5. npath \in [1..m -> E]
  BY <1>1, <1>4
<1> HIDE DEF E
<1>6. Len(npath) = m
  BY <1>3, <1>5
<1> QED BY <1>1, <1>2, <1>3, <1>6 DEF K, m, o, R

LEMMA ShownOnce ==
  ASSUME NEW n \in Nat, Displayed(chosen, npath, n), NEW k \in 1..n
  PROVE  \E e \in KeptUpto(chosen, n) :
           /\ chosen[e] # EMPTY /\ k \in chosen[e]
           /\ {j \in DOMAIN npath : npath[j].kind = "word" /\ k \in npath[j].cover}
                = {Renumber(KeptUpto(chosen, n))[e]}
<1> DEFINE K == KeptUpto(chosen, n)
           m == Cardinality(K)
           o == InOrder(K)
           R == Renumber(K)
<1>1. /\ m \in Nat /\ o \in [1..m -> K] /\ R \in [K -> 1..m] /\ K \in SUBSET (1..n)
      /\ DOMAIN npath = 1..m
      /\ \A j \in 1..m : npath[j] = EntryOf(chosen, o[j]) /\ R[o[j]] = j
      /\ \A x \in K : o[R[x]] = x
  BY EntriesPlaced
<1>2. \A x \in 1..n : x \in K <=> KeptIn(chosen, x)
  BY DEF KeptUpto
<1> HIDE DEF K, m, o, R
<1>3. PICK s \in 1..k, e \in k..n : Segment(chosen, s, e)
  BY Zenon DEF Displayed
<1>4. /\ s \in Nat /\ e \in Nat /\ 0 < s /\ s <= e /\ s <= k /\ k <= e /\ k \in s..e /\ e \in 1..n
  OBVIOUS
<1>5. /\ chosen[e] # NULL /\ chosen[e] # EMPTY /\ chosen[e] = s..e
      /\ \A t, f \in Nat : Segment(chosen, t, f) /\ e < f => e < t
  BY <1>3, <1>4, SegmentsApart DEF Segment
<1>6. e \in K
  BY <1>2, <1>4, <1>5 DEF KeptIn
<1>7. R[e] \in 1..m /\ npath[R[e]] = EntryOf(chosen, e)
  BY <1>1, <1>6
<1>8. npath[R[e]].kind = "word" /\ npath[R[e]].cover = chosen[e]
  BY <1>5, <1>7, EntryFields
<1>9. ASSUME NEW j \in 1..m, npath[j].kind = "word", k \in npath[j].cover PROVE j = R[e]
  <2> DEFINE f == o[j]
  <2>1. f \in K /\ f \in 1..n /\ R[f] = j /\ npath[j] = EntryOf(chosen, f)
    BY <1>1
  <2> HIDE DEF f
  <2>2. KeptIn(chosen, f)
    BY <1>2, <2>1
  <2>3. chosen[f] # EMPTY
    <3>1. chosen[f] = EMPTY => EntryOf(chosen, f).kind = "placeholder"
      BY EntryFields
    <3> QED BY <1>9, <2>1, <3>1
  <2>4. k \in chosen[f] /\ chosen[f] # NULL
    <3>1. EntryOf(chosen, f).cover = chosen[f]
      BY <2>3, EntryFields
    <3> QED BY <1>9, <2>1, <2>2, <3>1 DEF KeptIn
  <2>5. PICK t \in 1..f : Segment(chosen, t, f)
    BY <2>1, <2>3, <2>4, SegmentEnds
  <2>6. t \in Nat /\ f \in Nat /\ 0 < t /\ t <= f
    BY <2>1
  <2>7. /\ chosen[f] = t..f /\ k \in t..f
        /\ \A u, g \in Nat : Segment(chosen, u, g) /\ f < g => f < u
    BY <2>4, <2>5, <2>6, SegmentsApart DEF Segment
  <2>8. ~(e < f)
    <3>1. e < f => e < t
      BY <1>4, <1>5, <2>5, <2>6
    <3> QED BY <1>4, <2>6, <2>7, <3>1
  <2>9. ~(f < e)
    <3>1. f < e => f < s
      BY <1>3, <1>4, <2>6, <2>7
    <3> QED BY <1>4, <2>6, <2>7, <3>1
  <2>10. f = e
    BY <1>4, <2>6, <2>8, <2>9
  <2> QED BY <2>1, <2>10
<1>10. {j \in DOMAIN npath : npath[j].kind = "word" /\ k \in npath[j].cover} = {R[e]}
  BY <1>1, <1>4, <1>5, <1>7, <1>8, <1>9
<1> QED BY <1>4, <1>5, <1>6, <1>10 DEF K, R

LEMMA ShownInOrder ==
  ASSUME NEW n \in Nat, Displayed(chosen, npath, n), NEW i \in DOMAIN npath, NEW j \in DOMAIN npath, i < j,
         npath[i].kind # "placeholder"
  PROVE  Min(npath[i].cover) <= Min(npath[j].cover)
<1> DEFINE K == KeptUpto(chosen, n)
           m == Cardinality(K)
           o == InOrder(K)
           R == Renumber(K)
<1>1. /\ m \in Nat /\ o \in [1..m -> K] /\ K \in SUBSET (1..n)
      /\ DOMAIN npath = 1..m
      /\ \A x \in 1..m : npath[x] = EntryOf(chosen, o[x])
      /\ \A x, y \in 1..m : x < y => o[x] < o[y]
  BY EntriesPlaced
<1>2. \A x \in 1..n : x \in K <=> KeptIn(chosen, x)
  BY DEF KeptUpto
<1> HIDE DEF K, m, o, R
<1> DEFINE e == o[i]
           f == o[j]
<1>3. e \in K /\ f \in K /\ e \in 1..n /\ f \in 1..n /\ e < f
      /\ npath[i] = EntryOf(chosen, e) /\ npath[j] = EntryOf(chosen, f)
  BY <1>1
<1> HIDE DEF e, f
<1>4. KeptIn(chosen, e) /\ KeptIn(chosen, f)
  BY <1>2, <1>3
<1>5. chosen[e] # EMPTY /\ chosen[e] # NULL /\ npath[i].cover = chosen[e] /\ chosen[f] # NULL
  <2>1. chosen[e] = EMPTY => EntryOf(chosen, e).kind = "placeholder"
    BY EntryFields
  <2>2. chosen[e] # EMPTY => EntryOf(chosen, e).cover = chosen[e]
    BY EntryFields
  <2> QED BY <1>3, <1>4, <2>1, <2>2 DEF KeptIn
<1>6. PICK s \in 1..e : Segment(chosen, s, e)
  BY <1>3, <1>5, SegmentEnds
<1>7. s \in Nat /\ e \in Nat /\ 0 < s /\ s <= e /\ f \in Nat
  BY <1>3
<1>8. Min(chosen[e]) = s /\ \A u, g \in Nat : Segment(chosen, u, g) /\ e < g => e < u
  BY <1>6, <1>7, SegmentsApart
<1>9. CASE chosen[f] = EMPTY
  <2>1. npath[j].cover = {f}
    BY <1>3, <1>9, EntryFields
  <2>2. Min({f}) = f
    BY DEF Min
  <2> QED BY <1>3, <1>5, <1>7, <1>8, <2>1, <2>2
<1>10. CASE chosen[f] # EMPTY
  <2>1. npath[j].cover = chosen[f]
    BY <1>3, <1>10, EntryFields
  <2>2. PICK t \in 1..f : Segment(chosen, t, f)
    BY <1>3, <1>5, <1>10, SegmentEnds
  <2>3. t \in Nat /\ 0 < t /\ t <= f
    BY <1>3
  <2>4. Min(chosen[f]) = t
    BY <1>7, <2>2, <2>3, SegmentsApart
  <2>5. e < t
    BY <1>3, <1>7, <1>8, <2>2, <2>3
  <2> QED BY <1>5, <1>7, <1>8, <2>1, <2>3, <2>4, <2>5
<1> QED BY <1>9, <1>10

(* The place of a word kept.                                               *)
LEMMA PlaceIs ==
  ASSUME NEW n \in Nat, Displayed(chosen, npath, n), NEW q \in KeptUpto(chosen, n)
  PROVE  PlaceOf(q) = Renumber(KeptUpto(chosen, n))[q]
<1> DEFINE K == KeptUpto(chosen, n)
           m == Cardinality(K)
           o == InOrder(K)
           R == Renumber(K)
           own == {j \in DOMAIN npath : npath[j].kind = "placeholder" /\ npath[j].cover = {q}}
           in == {j \in DOMAIN npath : q \in npath[j].cover}
<1>1. /\ m \in Nat /\ o \in [1..m -> K] /\ R \in [K -> 1..m] /\ K \in SUBSET (1..n)
      /\ DOMAIN npath = 1..m
      /\ \A j \in 1..m : npath[j] = EntryOf(chosen, o[j]) /\ R[o[j]] = j
      /\ \A x \in K : o[R[x]] = x
  BY EntriesPlaced
<1>2. q \in K /\ q \in 1..n /\ KeptIn(chosen, q)
  BY <1>1 DEF KeptUpto
<1> HIDE DEF K, m, o, R
<1>3. R[q] \in 1..m /\ npath[R[q]] = EntryOf(chosen, q)
  BY <1>1, <1>2
<1>4. ASSUME NEW j \in 1..m, npath[j].kind = "placeholder" PROVE npath[j].cover = {o[j]} /\ chosen[o[j]] = EMPTY
  <2>1. chosen[o[j]] # EMPTY => EntryOf(chosen, o[j]).kind = "word"
    BY EntryFields
  <2>2. chosen[o[j]] = EMPTY
    BY <1>1, <1>4, <2>1
  <2>3. EntryOf(chosen, o[j]).cover = {o[j]}
    BY <2>2, EntryFields
  <2> QED BY <1>1, <2>2, <2>3
<1>5. ASSUME NEW j \in own PROVE j = R[q] /\ chosen[q] = EMPTY
  <2>1. j \in 1..m /\ npath[j].cover = {q} /\ npath[j].cover = {o[j]} /\ chosen[o[j]] = EMPTY
    BY <1>1, <1>4
  <2>2. o[j] = q
    BY <2>1
  <2> QED BY <1>1, <2>1, <2>2
<1>6. CASE chosen[q] = EMPTY
  <2>1. R[q] \in own
    BY <1>1, <1>3, <1>6, EntryFields
  <2>2. own = {R[q]}
    BY <1>5, <2>1
  <2> HIDE DEF own
  <2>3. PlaceOf(q) = CHOOSE j \in own : TRUE
    BY <2>1 DEF PlaceOf, own
  <2> QED BY <2>2, <2>3 DEF R, K
<1>7. CASE chosen[q] # EMPTY
  <2>1. own = {}
    BY <1>5, <1>7
  <2>2. PICK e \in K : /\ chosen[e] # EMPTY /\ q \in chosen[e]
                       /\ {j \in DOMAIN npath : npath[j].kind = "word" /\ q \in npath[j].cover} = {R[e]}
    BY <1>2, ShownOnce DEF K, R
  <2>3. npath[R[q]].kind = "word" /\ npath[R[q]].cover = chosen[q]
    BY <1>3, <1>7, EntryFields
  <2>4. q \in chosen[q]
    <3>1. PICK s \in 1..q : Segment(chosen, s, q)
      BY <1>2, <1>7, SegmentEnds DEF KeptIn
    <3>2. s \in Nat /\ q \in Nat /\ 0 < s /\ s <= q
      BY <1>2
    <3> QED BY <3>1, <3>2, SegmentsApart
  <2>5. R[q] = R[e]
    BY <1>1, <1>3, <2>2, <2>3, <2>4
  <2>6. ASSUME NEW j \in in PROVE j = R[q]
    <3>1. j \in 1..m /\ q \in npath[j].cover
      BY <1>1
    <3>2. CASE npath[j].kind = "placeholder"
      <4>1. npath[j].cover = {o[j]}
        BY <1>4, <3>1, <3>2
      <4>2. npath[j].cover = {q}
        BY <3>1, <4>1
      <4>3. j \in own
        BY <1>1, <3>1, <3>2, <4>2
      <4> QED BY <2>1, <4>3
    <3>3. CASE npath[j].kind # "placeholder"
      <4>1. npath[j].kind = "word"
        <5>1. npath[j] = EntryOf(chosen, o[j])
          BY <1>1, <3>1
        <5> QED BY <3>3, <5>1, EntryFields
      <4> QED BY <1>1, <2>2, <2>5, <3>1, <4>1
    <3> QED BY <3>2, <3>3
  <2>7. in = {R[q]}
    BY <1>1, <1>3, <2>3, <2>4, <2>6
  <2>8. PlaceOf(q) = CHOOSE j \in in : TRUE
    BY <2>1 DEF PlaceOf
  <2> QED BY <2>7, <2>8 DEF R, K
<1> QED BY <1>6, <1>7 DEF K, R

LEMMA MarkedFields ==
  ASSUME NEW m
  PROVE  /\ Marked(m).lw = PathPlace(Link(m).lw) /\ Marked(m).rw = PathPlace(Link(m).rw)
         /\ Marked(m).dropped <=> HiddenLink(m)
BY DEF Marked

(* Each link that is not hidden has its ends at words kept.                *)
LEMMA EndsKept ==
  ASSUME Displayable(lw_in), WordsInv, Displayed(chosen, npath, num_words)
  PROVE  LET K == KeptUpto(chosen, num_words)
         IN  /\ \A m \in DOMAIN lw_in.links : ~HiddenLink(m) =>
                  PathPlace(Link(m).lw) \in K /\ PathPlace(Link(m).rw) \in K
             /\ Kepts(larray, Renumber(K)) = {m \in DOMAIN lw_in.links : ~HiddenLink(m)}
<1> DEFINE K == KeptUpto(chosen, num_words)
<1>1. /\ DOMAIN larray = DOMAIN lw_in.links
      /\ \A m \in DOMAIN lw_in.links : larray[m] = Marked(m)
  BY DEF WordsInv, LinksMarked
<1>2. \A m \in DOMAIN lw_in.links : larray[m].dropped <=> HiddenLink(m)
  BY <1>1, MarkedFields
<1>3. \A m \in DOMAIN lw_in.links :
        larray[m].lw = PathPlace(Link(m).lw) /\ larray[m].rw = PathPlace(Link(m).rw)
  BY <1>1, MarkedFields
<1>4. ASSUME NEW m \in DOMAIN lw_in.links, ~HiddenLink(m), NEW w \in {Link(m).lw, Link(m).rw}
      PROVE  PathPlace(w) \in K
  <2> DEFINE q == PathPlace(w)
  <2>1. q \in 1..num_words /\ Matched(q)
    BY LinkEnds
  <2>2. q = larray[m].lw \/ q = larray[m].rw
    BY <1>3
  <2> HIDE DEF q
  <2>3. cdj[q]
    BY <2>1 DEF WordsInv, PlacedOK
  <2>4. chosen[q] # NULL
    BY <2>1, <2>3 DEF Displayed
  <2>5. show_word(q)
    <3>1. ~larray[m].dropped
      BY <1>2, <1>4
    <3> QED BY <1>1, <2>2, <3>1 DEF show_word
  <2> QED BY <2>1, <2>4, <2>5 DEF KeptUpto, KeptIn, q
<1>5. DOMAIN Renumber(K) = K
  BY DEF Renumber
<1> HIDE DEF K
<1>6. ASSUME NEW m \in DOMAIN lw_in.links PROVE m \in Kepts(larray, Renumber(K)) <=> ~HiddenLink(m)
  <2>1. m \in Kepts(larray, Renumber(K)) <=> ~larray[m].dropped /\ larray[m].lw \in K /\ larray[m].rw \in K
    BY <1>1, <1>5 DEF Kepts
  <2>2. ~HiddenLink(m) => larray[m].lw \in K /\ larray[m].rw \in K
    BY <1>3, <1>4
  <2>3. larray[m].dropped <=> HiddenLink(m)
    BY <1>2
  <2> QED BY <2>1, <2>2, <2>3
<1>7. Kepts(larray, Renumber(K)) = {m \in DOMAIN lw_in.links : ~HiddenLink(m)}
  <2>1. \A m \in Kepts(larray, Renumber(K)) : m \in DOMAIN lw_in.links
    BY <1>1 DEF Kepts
  <2> QED BY <1>6, <2>1
<1>8. \A m \in DOMAIN lw_in.links : ~HiddenLink(m) =>
        PathPlace(Link(m).lw) \in K /\ PathPlace(Link(m).rw) \in K
  BY <1>4
<1> QED BY <1>7, <1>8 DEF K

(* What the words and the links that Compact leaves show.                  *)
Joined(m) == [lw |-> PlaceOf(PathPlace(Link(m).lw)), rw |-> PlaceOf(PathPlace(Link(m).rw)), id |-> m]

LEMMA LinksCompacted ==
  ASSUME Displayable(lw_in), WordsInv, Displayed(chosen, npath, num_words), num_words \in Nat,
         NEW la, la = remap_linkages(larray, Renumber(KeptUpto(chosen, num_words)))
  PROVE  {[lw |-> la[k].lw, rw |-> la[k].rw, id |-> la[k].id] : k \in DOMAIN la}
           = {Joined(m) : m \in {k \in DOMAIN lw_in.links : ~HiddenLink(k)}}
<1> DEFINE K == KeptUpto(chosen, num_words)
           R == Renumber(K)
           n == Len(lw_in.links)
           P == Kepts(larray, R)
           o == InOrder(P)
           D == 1..Cardinality(P)
           Ends(k) == [lw |-> la[k].lw, rw |-> la[k].rw, id |-> la[k].id]
<1>1. n \in Nat /\ DOMAIN larray = 1..n /\ DOMAIN larray = DOMAIN lw_in.links
      /\ \A m \in DOMAIN larray : larray[m] = Marked(m)
  BY LinkEnds DEF WordsInv, LinksMarked
<1>2. /\ P = {m \in DOMAIN lw_in.links : ~HiddenLink(m)}
      /\ \A m \in P : PathPlace(Link(m).lw) \in K /\ PathPlace(Link(m).rw) \in K
  BY EndsKept
<1>3. \A q \in K : PlaceOf(q) = R[q]
  BY PlaceIs
<1> HIDE DEF K, R, n
<1>4. /\ o \in [D -> P] /\ DOMAIN la = D
      /\ \A j \in D : la[j] = Moved(larray[o[j]], R)
      /\ \A m \in P : \E j \in D : o[j] = m
  <2> DEFINE links == larray
  <2> HIDE DEF links
  <2>0. n \in Nat /\ DOMAIN links = 1..n
    BY <1>1 DEF links
  <2>1. /\ InOrder(Kepts(links, R)) \in [1..Cardinality(Kepts(links, R)) -> Kepts(links, R)]
        /\ DOMAIN remap_linkages(links, R) = DOMAIN InOrder(Kepts(links, R))
        /\ \A j \in DOMAIN InOrder(Kepts(links, R)) :
             remap_linkages(links, R)[j] = Moved(links[InOrder(Kepts(links, R))[j]], R)
        /\ \A m \in Kepts(links, R) : \E j \in DOMAIN InOrder(Kepts(links, R)) : InOrder(Kepts(links, R))[j] = m
    BY ONLY <2>0, LinksRemapped
  <2>2. la = remap_linkages(links, R)
    BY DEF links, R, K
  <2> QED BY <2>1, <2>2 DEF links
<1> HIDE DEF o, D, P
<1>5. ASSUME NEW m \in P
      PROVE  /\ Moved(larray[m], R).lw = PlaceOf(PathPlace(Link(m).lw))
             /\ Moved(larray[m], R).rw = PlaceOf(PathPlace(Link(m).rw))
             /\ Moved(larray[m], R).id = m
  <2> DEFINE l == PathPlace(Link(m).lw)
             r == PathPlace(Link(m).rw)
             mo == Link(m).morph
             h == HiddenLink(m)
             x == R[l]
             y == R[r]
  <2>1. larray[m] = [lw |-> l, rw |-> r, id |-> m, morph |-> mo, dropped |-> h]
    <3>1. m \in DOMAIN larray
      BY <1>1, <1>2
    <3> QED BY <1>1, <3>1 DEF Marked
  <2>2. x = PlaceOf(l) /\ y = PlaceOf(r)
    BY <1>2, <1>3
  <2> HIDE DEF l, r, mo, h
  <2>3. larray[m].lw = l /\ larray[m].rw = r
    BY <2>1
  <2>4. Moved(larray[m], R) = [larray[m] EXCEPT !.lw = x, !.rw = y]
    BY <2>3 DEF Moved
  <2> HIDE DEF x, y
  <2>5. LET new == [[lw |-> l, rw |-> r, id |-> m, morph |-> mo, dropped |-> h] EXCEPT !.lw = x, !.rw = y]
        IN  new.lw = x /\ new.rw = y /\ new.id = m
    OBVIOUS
  <2> QED BY <2>1, <2>2, <2>4, <2>5 DEF l, r
<1>6. \A j \in D : o[j] \in P /\ Ends(j) = Joined(o[j])
  <2> SUFFICES ASSUME NEW j \in D PROVE o[j] \in P /\ Ends(j) = Joined(o[j])
    OBVIOUS
  <2> DEFINE m == o[j]
  <2>1. m \in P /\ la[j] = Moved(larray[m], R)
    BY <1>4
  <2> HIDE DEF m
  <2>2. /\ la[j].lw = PlaceOf(PathPlace(Link(m).lw)) /\ la[j].rw = PlaceOf(PathPlace(Link(m).rw))
        /\ la[j].id = m
    BY <1>5, <2>1
  <2> QED BY <2>1, <2>2 DEF Joined, m
<1>7. {Ends(j) : j \in D} = {Joined(m) : m \in P}
  <2> HIDE DEF Ends
  <2> QED BY <1>4, <1>6
<1> QED BY <1>2, <1>4, <1>7

LEMMA WordsCompacted ==
  ASSUME NEW n \in Nat, Displayed(chosen, npath, n),
         NEW w, w = [j \in DOMAIN InOrder(KeptUpto(chosen, n)) |-> TextOf(chosen[InOrder(KeptUpto(chosen, n))[j]])]
  PROVE  /\ Len(w) = Len(npath)
         /\ \A j \in DOMAIN w : w[j] = IF npath[j].kind = "placeholder" THEN EMPTY ELSE TextOf(npath[j].cover)
<1> DEFINE K == KeptUpto(chosen, n)
           m == Cardinality(K)
           o == InOrder(K)
           R == Renumber(K)
           C == {TextOf(chosen[k]) : k \in Nat}
<1>1. /\ m \in Nat /\ o \in [1..m -> K] /\ K \in SUBSET (1..n)
      /\ DOMAIN npath = 1..m /\ Len(npath) = m
      /\ \A j \in 1..m : npath[j] = EntryOf(chosen, o[j])
  BY EntriesPlaced
<1>2. w = [j \in 1..m |-> TextOf(chosen[o[j]])]
  BY <1>1
<1> HIDE DEF K, m, o
<1>3. Len(w) = m
  <2>0. K \in SUBSET Nat
    BY <1>1
  <2>1. \A j \in 1..m : o[j] \in Nat
    BY <1>1, <2>0
  <2>2. w \in [1..m -> C]
    BY <1>2, <2>1
  <2> HIDE DEF C
  <2> QED BY <1>1, <2>2
<1>4. ASSUME NEW j \in 1..m PROVE w[j] = IF npath[j].kind = "placeholder" THEN EMPTY ELSE TextOf(npath[j].cover)
  <2>1. w[j] = TextOf(chosen[o[j]]) /\ npath[j] = EntryOf(chosen, o[j])
    BY <1>1, <1>2
  <2>2. CASE chosen[o[j]] = EMPTY
    BY <2>1, <2>2, EntryFields DEF TextOf
  <2>3. CASE chosen[o[j]] # EMPTY
    <3>1. EntryOf(chosen, o[j]).kind = "word" /\ EntryOf(chosen, o[j]).cover = chosen[o[j]]
      BY <2>3, EntryFields
    <3> QED BY <2>1, <3>1
  <2> QED BY <2>2, <2>3
<1>5. DOMAIN w = 1..m
  BY <1>2
<1> QED BY <1>1, <1>3, <1>4, <1>5

(* The text of a displayed word is of its own places and, for a null       *)
(* alternative, of what stands before it in the sentence word.             *)
Faithful(own) == own \subseteq TextOf(own) /\ TextOf(own) \subseteq own \cup Repeats(own)

LEMMA TextShown ==
  ASSUME Displayable(lw_in), Displayed(chosen, npath, num_words),
         NEW j \in DOMAIN npath, npath[j].kind = "word"
  PROVE  Faithful(npath[j].cover)
<1>1. /\ num_words \in Nat
      /\ \A i \in 1..num_words : wg_path[i].sw \in Nat
      /\ \A i, k \in 1..num_words : i < k => wg_path[i].sw <= wg_path[k].sw
  BY PathShape
<1>2. PICK e \in 1..num_words : npath[j] = EntryOf(chosen, e) /\ KeptIn(chosen, e)
  <2> DEFINE K == KeptUpto(chosen, num_words)
             o == InOrder(K)
             m == Cardinality(K)
  <2>1. o \in [1..m -> K] /\ DOMAIN npath = 1..m /\ \A i \in 1..m : npath[i] = EntryOf(chosen, o[i])
    BY <1>1, EntriesPlaced
  <2>2. \A k \in K : k \in 1..num_words /\ KeptIn(chosen, k)
    BY DEF KeptUpto
  <2> HIDE DEF K, o, m
  <2>3. o[j] \in K /\ npath[j] = EntryOf(chosen, o[j])
    BY <2>1
  <2> QED BY <2>2, <2>3
<1>3. chosen[e] # EMPTY /\ chosen[e] # NULL /\ npath[j].cover = chosen[e]
  BY <1>2, EntryFields DEF KeptIn
<1>4. PICK s \in 1..e : Segment(chosen, s, e)
  BY <1>1, <1>3, SegmentEnds
<1>5. s \in Nat /\ e \in Nat /\ 0 < s /\ s <= e
  OBVIOUS
<1> DEFINE own == s..e
<1>6. chosen[e] = own /\ OneWord(s, e) /\ Min(own) = s /\ own # EMPTY
  BY <1>3, <1>4, <1>5, SegmentsApart DEF Segment
<1>7. Max(own) = e
  <2>1. e \in own /\ \A y \in own : e >= y
    BY <1>5
  <2>2. Max(own) \in own /\ \A y \in own : Max(own) >= y
    BY <2>1 DEF Max
  <2> QED BY <1>5, <2>1, <2>2
<1>8. CASE NullAlternative(own)
  <2>1. ~Matched(e) /\ wg_path[s].first /\ AtBlockEnd(e) /\ TextOf(own) = SentenceWord(e)
    BY <1>6, <1>7, <1>8 DEF NullAlternative, TextOf, Matched
  <2>2. own \subseteq SentenceWord(e)
    BY <1>1, <1>6, <2>1 DEF OneWord, SentenceWord
  <2>3. ASSUME NEW m \in SentenceWord(e) PROVE m <= e
    <3>1. m \in 1..num_words /\ wg_path[m].sw = wg_path[e].sw
      BY DEF SentenceWord
    <3>2. CASE e < m
      <4>1. e + 1 \in 1..num_words /\ e # num_words /\ wg_path[e + 1].sw # wg_path[e].sw
        BY <1>1, <2>1, <3>1, <3>2 DEF AtBlockEnd
      <4>2. wg_path[e].sw <= wg_path[e + 1].sw /\ (e + 1 < m => wg_path[e + 1].sw <= wg_path[m].sw)
        BY <1>1, <3>1, <4>1
      <4>3. wg_path[e].sw \in Nat /\ wg_path[e + 1].sw \in Nat /\ (e + 1 < m \/ e + 1 = m)
        BY <1>1, <3>1, <3>2, <4>1
      <4> QED BY <3>1, <4>1, <4>2, <4>3
    <3> QED BY <3>1, <3>2
  <2>4. SentenceWord(e) \subseteq own \cup Repeats(own)
    <3> SUFFICES ASSUME NEW m \in SentenceWord(e), m \notin own PROVE m \in Repeats(own)
      OBVIOUS
    <3>1. m \in 1..num_words /\ wg_path[m].sw = wg_path[e].sw /\ m < s
      BY <2>3 DEF SentenceWord
    <3> QED BY <1>6, <1>7, <2>1, <3>1 DEF Repeats, Matched
  <2> QED BY <1>3, <1>6, <2>1, <2>2, <2>4 DEF Faithful
<1>9. CASE ~NullAlternative(own)
  BY <1>3, <1>6, <1>9 DEF Faithful, TextOf
<1> QED BY <1>8, <1>9

LEMMA CompactFits ==
  ASSUME Displayable(lw_in), WordsInv, Compact
  PROVE  DisplayFits'
<1> DEFINE n == num_words
           K == KeptUpto(chosen, n)
<1>1. /\ place > num_words /\ lw_in' = lw_in /\ npath' = npath
      /\ LET kept == {k \in 1..num_words : Kept(k)}
         IN  /\ words' = [j \in DOMAIN InOrder(kept) |-> TextOf(chosen[InOrder(kept)[j]])]
             /\ larray' = remap_linkages(larray, Renumber(kept))
  BY DEF Compact
<1>2. {k \in 1..num_words : Kept(k)} = K
  BY DEF KeptUpto, KeptIn, Kept
<1>3. n \in Nat /\ Displayed(chosen, npath, n)
  BY <1>1, Finished
<1>4. /\ words' = [j \in DOMAIN InOrder(K) |-> TextOf(chosen[InOrder(K)[j]])]
      /\ larray' = remap_linkages(larray, Renumber(K))
  BY <1>1, <1>2
<1>5. /\ Len(words') = Len(npath)
      /\ \A j \in DOMAIN words' : words'[j] = IF npath[j].kind = "placeholder" THEN EMPTY ELSE TextOf(npath[j].cover)
  <2> DEFINE w == words'
  <2>1. w = [j \in DOMAIN InOrder(K) |-> TextOf(chosen[InOrder(K)[j]])]
    BY <1>4
  <2> HIDE DEF w, n
  <2>2. /\ Len(w) = Len(npath)
        /\ \A j \in DOMAIN w : w[j] = IF npath[j].kind = "placeholder" THEN EMPTY ELSE TextOf(npath[j].cover)
    BY <1>3, <2>1, WordsCompacted
  <2> QED BY <2>2 DEF w
<1>6. \A k \in 1..n : Cardinality({j \in DOMAIN npath : npath[j].kind = "word" /\ k \in npath[j].cover}) = 1
  <2> SUFFICES ASSUME NEW k \in 1..n
               PROVE  Cardinality({j \in DOMAIN npath : npath[j].kind = "word" /\ k \in npath[j].cover}) = 1
    OBVIOUS
  <2> HIDE DEF n
  <2>1. PICK e \in K : {j \in DOMAIN npath : npath[j].kind = "word" /\ k \in npath[j].cover} = {Renumber(K)[e]}
    BY <1>3, ShownOnce
  <2> QED BY <2>1, FS_Singleton
<1>7. \A i, j \in DOMAIN npath : i < j => Min(npath[i].cover) <= Min(npath[j].cover) \/ npath[i].kind = "placeholder"
  <2> HIDE DEF n
  <2> QED BY <1>3, ShownInOrder
<1>8. {[lw |-> larray'[k].lw, rw |-> larray'[k].rw, id |-> larray'[k].id] : k \in DOMAIN larray'}
        = {Joined(m) : m \in {k \in DOMAIN lw_in.links : ~HiddenLink(k)}}
  <2> DEFINE la == larray'
  <2>1. la = remap_linkages(larray, Renumber(KeptUpto(chosen, num_words)))
    BY <1>4
  <2> HIDE DEF la
  <2>2. {[lw |-> la[k].lw, rw |-> la[k].rw, id |-> la[k].id] : k \in DOMAIN la}
          = {Joined(m) : m \in {k \in DOMAIN lw_in.links : ~HiddenLink(k)}}
    BY <1>3, <2>1, LinksCompacted
  <2> QED BY <2>2 DEF la
<1>9. num_words' = num_words /\ wg_path' = wg_path
  BY <1>1 DEF num_words, wg_path
<1>10. \A m : [lw |-> PlaceOf(PathPlace(lw_in.links[m].lw)), rw |-> PlaceOf(PathPlace(lw_in.links[m].rw)), id |-> m]'
               = Joined(m)
  BY <1>1, <1>9 DEF Joined, PlaceOf, PathPlace, Link
<1>11. {[lw |-> larray'[k].lw, rw |-> larray'[k].rw, id |-> larray'[k].id] : k \in DOMAIN larray'}
         = {[lw |-> PlaceOf(PathPlace(lw_in.links[m].lw)), rw |-> PlaceOf(PathPlace(lw_in.links[m].rw)), id |-> m] :
              m \in {k \in DOMAIN lw_in.links : ~(lw_in.hide /\ lw_in.links[k].morph)}}'
  <2>1. {[lw |-> PlaceOf(PathPlace(lw_in.links[m].lw)), rw |-> PlaceOf(PathPlace(lw_in.links[m].rw)), id |-> m] :
           m \in {k \in DOMAIN lw_in.links : ~(lw_in.hide /\ lw_in.links[k].morph)}}'
          = {Joined(m) : m \in {k \in DOMAIN lw_in.links : ~(lw_in.hide /\ lw_in.links[k].morph)}}
    BY ONLY <1>1, <1>10
  <2> QED BY ONLY <1>8, <2>1 DEF HiddenLink, Link
<1>12. (/\ Len(words) = Len(npath)
        /\ \A j \in DOMAIN words :
             words[j] = IF npath[j].kind = "placeholder" THEN EMPTY ELSE TextOf(npath[j].cover))'
  BY ONLY <1>1, <1>5, <1>9 DEF TextOf, NullAlternative, SentenceWord, AtBlockEnd
<1>13. (\A k \in 1..num_words :
         Cardinality({j \in DOMAIN npath : npath[j].kind = "word" /\ k \in npath[j].cover}) = 1)'
  BY ONLY <1>1, <1>6, <1>9
<1>14. (\A i, j \in DOMAIN npath :
         i < j => Min(npath[i].cover) <= Min(npath[j].cover) \/ npath[i].kind = "placeholder")'
  BY ONLY <1>1, <1>7
<1>15. (\A j \in DOMAIN npath : npath[j].kind = "word" => Faithful(npath[j].cover))'
  <2>1. \A j \in DOMAIN npath : npath[j].kind = "word" => Faithful(npath[j].cover)
    BY <1>3, TextShown
  <2> QED BY ONLY <1>1, <1>9, <2>1 DEF Faithful, Repeats, TextOf, NullAlternative, SentenceWord, AtBlockEnd
<1> QED BY ONLY <1>11, <1>12, <1>13, <1>14, <1>15 DEF DisplayFits, Faithful

LEMMA DisplayInit ==
  WInit => DisplayInv
<1> SUFFICES ASSUME WInit PROVE DisplayInv
  OBVIOUS
<1>1. /\ lw_in \in Paths /\ cdj = lw_in.cdj /\ npath = <<>> /\ nbsize = 0 /\ place = 1 /\ cpc = "extracted"
      /\ larray = [k \in DOMAIN lw_in.links |->
                     [lw |-> lw_in.links[k].lw, rw |-> lw_in.links[k].rw, id |-> k,
                      morph |-> lw_in.links[k].morph, dropped |-> FALSE]]
  BY DEF WInit
<1>2. larray = [m \in DOMAIN lw_in.links |-> Extracted(m)]
  BY <1>1 DEF Extracted, LinkOf, Link
<1> QED BY <1>1, <1>2 DEF DisplayInv

LEMMA DisplayStep ==
  ASSUME \A l \in Paths : Displayable(l), DisplayInv, [WNext]_wvars
  PROVE  DisplayInv'
<1>1. Displayable(lw_in)
  BY DEF DisplayInv
<1>2. CASE RemoveEmptyWords
  <2>1. /\ cpc = "extracted" /\ cpc' = "create" /\ lw_in' = lw_in
        /\ npath' = npath /\ nbsize' = nbsize /\ place' = place
    BY <1>2 DEF RemoveEmptyWords
  <2>2. cdj' = [k \in 1..num_words |-> Matched(k)] /\ larray' = [m \in DOMAIN lw_in.links |-> Placed(m)]
    BY <1>1, <1>2, <2>1, EmptyWordsRemoved DEF DisplayInv
  <2>3. num_words' = num_words /\ wg_path' = wg_path
    BY <2>1 DEF num_words, wg_path
  <2>4. PlacedOK'
    BY <2>1, <2>2, <2>3 DEF PlacedOK, Matched
  <2>5. larray' = [m \in DOMAIN lw_in.links |-> Placed(m)]'
    BY <2>1, <2>2, <2>3 DEF Placed, LinkOf, Link, PathPlace
  <2> QED BY <2>1, <2>4, <2>5 DEF DisplayInv
<1>3. CASE StartCreate
  <2>1. cpc = "create" /\ cpc' = "words" /\ lw_in' = lw_in
    BY <1>3 DEF StartCreate
  <2>2. WordsInv'
    BY <1>1, <1>3, <2>1, CreateStarted DEF DisplayInv
  <2> QED BY <2>1, <2>2 DEF DisplayInv
<1>4. CASE \E k \in 1..num_words : NullInBlock(k) \/ NullEndsBlock(k) \/ LinkedWord(k) \/ JoinMorphemes(k)
  <2>1. PICK k \in 1..num_words : NullInBlock(k) \/ NullEndsBlock(k) \/ LinkedWord(k) \/ JoinMorphemes(k)
    BY <1>4
  <2>2. cpc = "words" /\ place = k /\ cpc' = "words" /\ lw_in' = lw_in
    BY <2>1 DEF NullInBlock, NullEndsBlock, LinkedWord, JoinMorphemes, At
  <2>3. WordsInv
    BY <2>2 DEF DisplayInv
  <2>4. WordsInv'
    BY <1>1, <2>1, <2>2, <2>3, NullJoinsBlock, BlockEnded, WordAlone, MorphemesJoined
  <2> QED BY <2>2, <2>4 DEF DisplayInv
<1>5. CASE Compact
  <2>1. cpc = "words" /\ cpc' = "created" /\ lw_in' = lw_in
    BY <1>5 DEF Compact
  <2>2. DisplayFits'
    BY <1>1, <1>5, <2>1, CompactFits DEF DisplayInv
  <2> QED BY <2>1, <2>2 DEF DisplayInv
<1>6. CASE UNCHANGED wvars
  <2>1. /\ lw_in' = lw_in /\ cdj' = cdj /\ larray' = larray /\ chosen' = chosen /\ npath' = npath
        /\ nbsize' = nbsize /\ place' = place /\ words' = words /\ cpc' = cpc
    BY <1>6 DEF wvars
  <2>2. num_words' = num_words /\ wg_path' = wg_path
    BY <2>1 DEF num_words, wg_path
  <2>3. PlacedOK' <=> PlacedOK
    BY <2>1, <2>2 DEF PlacedOK, Matched
  <2>4. cpc = "create" => larray' = [m \in DOMAIN lw_in.links |-> Placed(m)]'
    BY <2>1, <2>2 DEF DisplayInv, Placed, LinkOf, Link, PathPlace
  <2>5. cpc = "extracted" => larray' = [m \in DOMAIN lw_in.links |-> Extracted(m)]'
    BY <2>1, <2>2 DEF DisplayInv, Extracted, LinkOf, Link
  <2>6. cpc = "words" => WordsInv'
    BY <2>1, WordsLater DEF DisplayInv, WordsInv
  <2>7. cpc = "created" => DisplayFits'
    <3>1. DisplayFits' <=> DisplayFits
      BY <2>1, <2>2 DEF DisplayFits, PlaceOf, PathPlace, Repeats, TextOf, NullAlternative, SentenceWord, AtBlockEnd
    <3> QED BY <3>1 DEF DisplayInv
  <2> QED BY <2>1, <2>3, <2>4, <2>5, <2>6, <2>7 DEF DisplayInv
<1> QED BY <1>2, <1>3, <1>4, <1>5, <1>6 DEF WNext

(* What a linkage displays fits together (DisplayFits), for any path in    *)
(* the order of the sentence, links between words that have disjuncts, and *)
(* null words: compute_chosen_words() has every gword of the path in one   *)
(* displayed word, in order, with its text; a text is shown a second time  *)
(* only where a null alternative that follows stripped punctuation is      *)
(* shown as the whole sentence word; and Compact leaves every link that is *)
(* not hidden between the words that show its ends.                        *)
THEOREM DisplayCorrect ==
  (\A l \in Paths : Displayable(l)) => (WSpec => []DisplayFits)
<1>1. DisplayInv => DisplayFits
  BY DEF DisplayInv, DisplayFits
<1> SUFFICES ASSUME \A l \in Paths : Displayable(l) PROVE WSpec => []DisplayFits
  OBVIOUS
<1>2. DisplayInv /\ [WNext]_wvars => DisplayInv'
  BY DisplayStep
<1> QED BY <1>1, <1>2, DisplayInit, PTL DEF WSpec
=============================================================================
