----------------------------- MODULE PowerPrune -----------------------------
(***************************************************************************)
(* pp_and_power_prune(): the disjuncts that cannot take part in a linkage  *)
(* with at most null_links nulls are deleted before the sentence is        *)
(* parsed, by power_prune() (up to four times), by the table of mandatory  *)
(* links (build_mlink_table(), cross_mlink_prune()), and by the            *)
(* post-processing rules (pp_prune()).                                     *)
(*                                                                         *)
(* The connectors are shared as pack_sentence_for_pruning() shares them    *)
(* (sentences of min_len_encoding words or more): all jets of a word that  *)
(* end in the same tracon point to the same connectors, so an update       *)
(* through one disjunct is seen by the others.  Such a shared connector is *)
(* a cell [dir, w, tr, sh]: its direction (0 left, 1 right), its word, the *)
(* tracon it starts, and whether it is the first of its jet (shallow).     *)
(* The slots of the power table are abstracted to the set of connectors in *)
(* it; PowerTable has the slots.  The counters N_changed and N_deleted are *)
(* abstracted to whether they are 0.  The test option "always-parse" is    *)
(* off.                                                                    *)
(***************************************************************************)
EXTENDS Integers, Sequences, FiniteSets, SequencesExt

CONSTANTS
  MAX_SENTENCE,  \* also the null count "no limit"
  MaxPass,       \* the range of the pass_number field
  Sentences,     \* the sentences, before setup_connectors()
  NullCounts,    \* pairs: the null_count argument and sent->null_count
  Rules          \* contains_one_rules: a sequence of [selector, link_set]

ASSUME PruneAssumption ==
  /\ MAX_SENTENCE \in Nat
  /\ MaxPass \in Nat \ {0}
  /\ NullCounts \subseteq Nat \X Nat

BadWord == MAX_SENTENCE + 1        \* BAD_WORD
UnlimitedLen == MAX_SENTENCE + 1   \* UNLIMITED_LEN

VARIABLES
  sentence,     \* the disjuncts before pruning
  islands_ok,   \* pc->islands_ok
  null_links,   \* pc->null_links
  null_count,   \* sent->null_count
  word,         \* sent->word[w].d: the disjuncts left, as indices into sentence[w]
  cell,         \* the fields of every shared connector, but for
  refcount,     \* refcount
  cut,          \* NULL jets <<dir, w, i>> that were pointed at bad_connector
  table,        \* pt->table[dir][w]: a set of cells
  is_null_word, \* pc->is_null_word, as a set; pc->null_words is its size
  pass_number,  \* pc->pass_number
  changed,      \* the current pass has changed or deleted something
  deleted,      \* the current power_prune() has deleted something
  extra,        \* extra_null_word
  ml,           \* the mlink table, <<>> for NULL
  call,         \* which call of power_prune() this is, 1 to 4
  at,           \* the position [dir, w, i] of the current pass
  stage,        \* the next step
  result        \* once done: min_nulls, and ncu unless parsing is skipped

input == <<sentence, islands_ok, null_links, null_count>>
prunevars ==
  <<input, word, cell, refcount, cut, table, is_null_word, pass_number, changed,
   deleted, extra, ml, call, at, stage, result>>

L == INSTANCE Linkages WITH word <- sentence

(* A sentence has a word, and a list of disjuncts for every word, also     *)
(* after setup_connectors().                                               *)
ASSUME SentenceAssumption ==
  \A s \in Sentences :
    /\ Cardinality(DOMAIN s) \in Nat \ {0} /\ DOMAIN s = 0..(Cardinality(DOMAIN s) - 1)
    /\ \A w \in DOMAIN s : L!SetupConnectors(s)[w] \in Seq(ToSet(L!SetupConnectors(s)[w]))

sent_length == L!length
Words == L!Words
Dirs == {0, 1}

Lesser(a, b) == IF a < b THEN a ELSE b
Greater(a, b) == IF a > b THEN a ELSE b
Least(S) == CHOOSE x \in S : \A y \in S : x <= y
Greatest(S) == CHOOSE x \in S : \A y \in S : y <= x

-----------------------------------------------------------------------------
(* Connectors: pack_connectors(), when the encoding is for pruning.        *)

Side(dir, w, i) == IF dir = 0 THEN sentence[w][i].left ELSE sentence[w][i].right

(* The jet of a disjunct: its cells, the shallow one first.                *)
Jet(dir, w, i) ==
  LET s == Side(dir, w, i)
  IN  [k \in 1..Len(s) |-> [dir |-> dir, w |-> w, tr |-> SubSeq(s, k, Len(s)), sh |-> k = 1]]

Shallow(dir, w, i) == Head(Jet(dir, w, i))
Deepest(c) == IF Len(c.tr) = 1 THEN c ELSE [c EXCEPT !.tr = <<Last(c.tr)>>, !.sh = FALSE]
NextOf(c) == [c EXCEPT !.tr = Tail(c.tr), !.sh = FALSE]
HasNext(c) == Len(c.tr) > 1
Multi(c) == Head(c.tr).multi

CellsOf(dir, w, disjuncts) == UNION {ToSet(Jet(dir, w, i)) : i \in disjuncts}

(* The jets of word w that have the cell: what its refcount counts.        *)
Uses(c, disjuncts) == Cardinality({i \in disjuncts : c \in ToSet(Jet(c.dir, c.w, i))})

(* The fields after packing. *)
Fields(c) ==
  [nearest  |-> IF c.dir = 0 THEN L!LeftNearest(c.w, c.tr) ELSE L!RightNearest(c.w, c.tr),
   farthest |-> IF c.dir = 0 THEN L!LeftFarthest(c.w, c.tr) ELSE L!RightFarthest(c.w, c.tr),
   pass     |-> 0]

(* power_table_init() *)
PowerTable(dir, w) == CellsOf(dir, w, DOMAIN sentence[w])

AllCells == UNION {PowerTable(dir, w) : dir \in Dirs, w \in Words}

-----------------------------------------------------------------------------
(* possible_connection() and the table searches.  They take the fields of  *)
(* the cells as an argument, since a jet is searched for while it is       *)
(* updated.                                                                *)

null_words == Cardinality(is_null_word)

(* more_nulls_than_allowed(), and the end of is_cross_mlink(): the words   *)
(* of gap are all null, which is more nulls than may still come.  After    *)
(* too many null words the allowance is negative and nothing is too much.  *)
TooManyNulls(gap) ==
  LET null_allowed == null_links - null_words
  IN  /\ islands_ok => null_allowed <= 0
      /\ null_allowed >= 0
      /\ Cardinality(gap \ is_null_word) > null_allowed

(* The first part of possible_connection(): names and word ranges.         *)
InRange(f, lc, rc, lword, rword) ==
  /\ L!Match(Head(lc.tr), Head(rc.tr))
  /\ f[lc].nearest <= rword /\ f[rc].nearest >= lword

(* possible_connection() on adjacent words *)
PossibleAdjacent(f, lc, rc, lword, rword) ==
  InRange(f, lc, rc, lword, rword) /\ ~HasNext(lc) /\ ~HasNext(rc)

(* is_match(): word w, next to word_c, has a shallow connector for the     *)
(* deepest connector of c, or for c again if it is the deepest and multi.  *)
IsMatch(f, c, word_c, w) ==
  /\ HasNext(c) \/ Multi(c)
  /\ \E t \in table[1 - c.dir][w] :
        /\ t.sh
        /\ IF c.dir = 1 THEN PossibleAdjacent(f, Deepest(c), t, word_c, w)
                        ELSE PossibleAdjacent(f, t, Deepest(c), w, word_c)

(* is_cross_mlink(), for one word between: it is null if lc and rc link.   *)
NullWordFound(f, lc, rc, lword, rword, w) ==
  \/ w = lword + 1 /\ ml[w].perjet[1] > rword /\ ~IsMatch(f, lc, lword, w)
  \/ w = rword - 1 /\ ml[w].perjet[0] < lword /\ ~IsMatch(f, rc, rword, w)
  \/ ml[w].perjet[0] < lword /\ ml[w].perjet[1] > rword
  \/ ml[w].nw[0] < lword
  \/ ml[w].nw[1] > rword
  \/ lword = ml[w].nw[0] /\ ~Multi(Deepest(lc)) /\ f[Deepest(lc)].nearest > w
  \/ rword = ml[w].nw[1] /\ ~Multi(Deepest(rc)) /\ f[Deepest(rc)].nearest < w
  \/ /\ HasNext(lc) /\ HasNext(rc)
     /\ ml[w].nw[1] > f[NextOf(rc)].nearest /\ f[NextOf(lc)].nearest > w

IsCrossMlink(f, lc, rc, lword, rword) ==
  /\ ml # <<>>
  /\ TooManyNulls({w \in (lword + 1)..(rword - 1) : NullWordFound(f, lc, rc, lword, rword, w)})

(* Neither connector has anything left for the words between.              *)
NothingBetween(f, lc, rc, lword, rword) ==
  /\ ~HasNext(lc) /\ ~HasNext(rc)
  /\ Multi(lc) => f[lc].nearest = rword
  /\ Multi(rc) => f[rc].nearest = lword

CrossLink(f, lc, rc) ==
  HasNext(lc) /\ HasNext(rc) /\ f[NextOf(lc)].nearest > f[NextOf(rc)].nearest

PossibleConnection(f, lc, rc, lword, rword) ==
  \/ rword - lword = 1 /\ PossibleAdjacent(f, lc, rc, lword, rword)
  \/ /\ rword - lword > 1
     /\ InRange(f, lc, rc, lword, rword)
     /\ rword <= f[lc].farthest /\ lword >= f[rc].farthest
     /\ ~(NothingBetween(f, lc, rc, lword, rword) /\ TooManyNulls((lword + 1)..(rword - 1)))
     /\ ~CrossLink(f, lc, rc)
     /\ ~IsCrossMlink(f, lc, rc, lword, rword)

(* left_table_search() and right_table_search(): the table of word n has a *)
(* connector for c; two deep connectors never link.                        *)
TableSearch(f, c, n) ==
  \E t \in table[1 - c.dir][n] :
    /\ c.sh \/ t.sh
    /\ IF c.dir = 0 THEN PossibleConnection(f, t, c, n, c.w)
                    ELSE PossibleConnection(f, c, t, c.w, n)

-----------------------------------------------------------------------------
(* left_connector_list_update() and right_connector_list_update().         *)

(* The words to try for c if the next connector of its jet reaches n.      *)
ToTry(f, c, n) ==
  IF c.dir = 0 THEN f[c].farthest..Lesser(n - 1, f[c].nearest)
               ELSE Greater(n + 1, f[c].nearest)..f[c].farthest

NoRoom(dir, n) == n = BadWord \/ (dir = 0 /\ n - 1 < 0) \/ (dir = 1 /\ n + 1 >= sent_length)

(* The update of one connector, after the deeper ones of its jet: u has    *)
(* the fields, the word that the next connector reaches, and whether       *)
(* anything has changed.  The connector keeps the nearest and the farthest *)
(* of the words where a match was found.                                   *)
NarrowTo(c, old, found) ==
  IF found = {} THEN [old EXCEPT !.nearest = BadWord]
  ELSE IF c.dir = 0 THEN [old EXCEPT !.nearest = Greatest(found), !.farthest = Least(found)]
  ELSE [old EXCEPT !.nearest = Least(found), !.farthest = Greatest(found)]

Narrow(u, c, found) ==
  LET new == NarrowTo(c, u.f[c], found)
  IN  [f |-> [u.f EXCEPT ![c] = new], n |-> new.nearest,
       changed |-> u.changed \/ new # u.f[c]]

Update(u, c) ==
  IF u.f[c].pass = pass_number THEN [u EXCEPT !.n = u.f[c].nearest]
  ELSE IF NoRoom(c.dir, u.n) THEN [u EXCEPT !.n = BadWord]
  ELSE Narrow(u, c, {n \in ToTry(u.f, c, u.n) : TableSearch(u.f, c, n)})

(* From the deepest connector to the shallow one.  (TLC evaluates u once   *)
(* as an element of a set.)                                                *)
ListUpdate(jet, w) ==
  FoldLeft(LAMBDA v, c : CHOOSE r \in {Update(u, c) : u \in {v}} : TRUE,
           [f |-> cell, n |-> w, changed |-> FALSE], Reverse(jet))

-----------------------------------------------------------------------------
(* power_prune() *)

IsCut(dir, w, i) == <<dir, w, i>> \in cut
NoJet(dir, w, i) == Jet(dir, w, i) = <<>> /\ ~IsCut(dir, w, i)

(* is_bad() *)
IsBad(dir, w, i) ==
  IsCut(dir, w, i) \/ \E c \in ToSet(Jet(dir, w, i)) : cell[c].nearest = BadWord

(* mark_jet_for_dequeue() on both jets of a disjunct: the jet that has no  *)
(* match is marked, and both give up their connectors.                     *)
MarkAsBad(f, dir, w, i) ==
  [c \in DOMAIN f |-> IF c \in ToSet(Jet(dir, w, i)) /\ c.sh THEN [f[c] EXCEPT !.nearest = BadWord]
                                                           ELSE f[c]]

JetCells(w, i) == ToSet(Jet(0, w, i)) \cup ToSet(Jet(1, w, i))

(* Mutant: only the jet that has no match gives up its connectors. *)
DequeueBadJet(w, i) ==
  [c \in DOMAIN refcount |-> IF c \in ToSet(Jet(at.dir, w, i)) THEN refcount[c] - 1 ELSE refcount[c]]

Dequeue(w, i) ==
  [c \in DOMAIN refcount |-> IF c \in JetCells(w, i) THEN refcount[c] - 1 ELSE refcount[c]]

MarkAsGood(f, jet) ==
  [c \in DOMAIN f |-> IF c \in ToSet(jet) THEN [f[c] EXCEPT !.pass = pass_number] ELSE f[c]]

(* Every call starts with a forced change, for two passes at least; the    *)
(* pass number goes on from the previous call.                             *)
StartPowerPrune(k) ==
  /\ call' = k
  /\ pass_number' = (pass_number + 1) % MaxPass
  /\ changed' = TRUE /\ deleted' = FALSE /\ extra' = FALSE
  /\ at' = [dir |-> 0, w |-> 0, i |-> 1]
  /\ stage' = "disjunct"

InWord == stage = "disjunct" /\ at.i <= Len(word[at.w])

Current == word[at.w][at.i]

(* Mutant: dd stays where it is. *)
SkipNothing ==
  /\ InWord /\ NoJet(at.dir, at.w, Current)
  /\ UNCHANGED prunevars

SkipDisjunct ==
  /\ InWord /\ NoJet(at.dir, at.w, Current)
  /\ at' = [at EXCEPT !.i = @ + 1]
  /\ UNCHANGED <<input, word, cell, refcount, cut, table, is_null_word, pass_number, changed,
                 deleted, extra, ml, call, stage, result>>

Discard(f) ==
  /\ cell' = MarkAsBad(f, at.dir, at.w, Current)
  /\ refcount' = Dequeue(at.w, Current)
  /\ word' = [word EXCEPT ![at.w] = RemoveAt(@, at.i)]
  /\ cut' = {x \in cut : x[2] # at.w \/ x[3] # Current}
  /\ changed' = TRUE /\ deleted' = TRUE
  /\ UNCHANGED <<input, table, is_null_word, pass_number, extra, ml, call, at, stage, result>>

(* A connector of the jet is marked already. *)
DiscardBad ==
  /\ InWord /\ IsBad(at.dir, at.w, Current)
  /\ Discard(cell)

(* The jet is brought up to date; its disjunct goes if it has no match.    *)
UpdateDisjunct ==
  /\ InWord
  /\ ~NoJet(at.dir, at.w, Current) /\ ~IsBad(at.dir, at.w, Current)
  /\ \E u \in {ListUpdate(Jet(at.dir, at.w, Current), at.w)} :
       IF u.n = BadWord
       THEN Discard(u.f)
       ELSE /\ cell' = MarkAsGood(u.f, Jet(at.dir, at.w, Current))
            /\ changed' = (changed \/ u.changed)
            /\ at' = [at EXCEPT !.i = @ + 1]
            /\ UNCHANGED <<input, word, refcount, cut, table, is_null_word, pass_number,
                           deleted, extra, ml, call, stage, result>>

EndOfPass(dir, w) == IF dir = 0 THEN w = sent_length - 1 ELSE w = 0

(* check_null_word(), when it adds the word. *)
NewNullWord(w) == word[w] = <<>> /\ w \notin is_null_word

(* clean_table() *)
CleanTable(dir, w) == [table EXCEPT ![dir][w] = {c \in table[dir][w] : refcount[c] > 0}]

EndWord ==
  /\ stage = "disjunct" /\ ~InWord
  /\ is_null_word' = IF NewNullWord(at.w) THEN is_null_word \cup {at.w} ELSE is_null_word
  /\ extra' = (extra \/ (NewNullWord(at.w) /\ null_words + 1 > null_links))
  /\ table' = CleanTable(1 - at.dir, at.w)
  /\ IF EndOfPass(at.dir, at.w)
     THEN stage' = "pass end" /\ at' = at
     ELSE stage' = stage /\ at' = [at EXCEPT !.w = IF at.dir = 0 THEN @ + 1 ELSE @ - 1, !.i = 1]
  /\ UNCHANGED <<input, word, cell, refcount, cut, pass_number, changed, deleted, ml, call, result>>

(* pruning_pass_end(): the other pass comes next, or the end of the call.  *)
PassEnd ==
  /\ stage = "pass end"
  /\ changed' = FALSE
  /\ IF ~changed \/ (at.dir = 1 /\ extra)
     THEN stage' = "pruned" /\ UNCHANGED <<at, pass_number>>
     ELSE /\ stage' = "disjunct"
          /\ at' = [dir |-> 1 - at.dir, w |-> at.w, i |-> 1]
          /\ pass_number' = IF at.dir = 1 THEN (pass_number + 1) % MaxPass ELSE pass_number
  /\ ml' = IF changed /\ at.dir = 1 THEN <<>> ELSE ml
  /\ UNCHANGED <<input, word, cell, refcount, cut, table, is_null_word, deleted, extra, call, result>>

-----------------------------------------------------------------------------
(* The table of mandatory links. *)

Left(w) == ToSet(word[w])

(* The disjuncts of a word that have a jet on this side. *)
Jets(dir, w) == {i \in Left(w) : Jet(dir, w, i) # <<>>}

(* build_mlink_table(): for each word and direction the nearest and the    *)
(* farthest word that a link of it reaches; nw is the word itself and fw   *)
(* the end if some disjunct has no link in that direction.                 *)
MlinkEntry(w) ==
  LET near(dir)  == {cell[Shallow(dir, w, i)].nearest : i \in Jets(dir, w)}
      far(dir)   == {cell[Shallow(dir, w, i)].farthest : i \in Jets(dir, w)}
      nojet(dir) == Jets(dir, w) # Left(w)
      perjet     == [dir \in Dirs |-> IF dir = 0 THEN Greatest(near(0) \cup {0})
                                                 ELSE Least(near(1) \cup {UnlimitedLen})]
  IN  [perjet |-> perjet,
       nw     |-> [dir \in Dirs |-> IF nojet(dir) THEN w ELSE perjet[dir]],
       fw     |-> [dir \in Dirs |->
                     IF dir = 0 THEN IF nojet(0) THEN 0 ELSE Least(far(0) \cup {UnlimitedLen})
                     ELSE IF nojet(1) THEN UnlimitedLen ELSE Greatest(far(1) \cup {0})]]

MlinkExists == \E dir \in Dirs, w \in Words : Jets(dir, w) = Left(w)

BuildMlinkTable == IF MlinkExists THEN [w \in Words |-> MlinkEntry(w)] ELSE <<>>

(* cross_mlink_prune() for word w: its mandatory link in direction dir     *)
(* reaches word m.nw[dir] or farther, up to m.fw[dir].  The jets on the    *)
(* other side of that word, and of the words under the link, may not reach *)
(* beyond w.                                                               *)
Beyond(side, n, w) == IF side = 0 THEN n < w ELSE n > w

(* The words under the mandatory link of w *)
Under(w, dir) == IF dir = 1 THEN (w + 1)..(ml[w].nw[1] - 1) ELSE (ml[w].nw[0] + 1)..(w - 1)

(* The word where the link is at its shortest; none at the sentence ends.  *)
Ends(w, dir) ==
  IF ml[w].nw[dir] = w \/ w = (IF dir = 1 THEN 0 ELSE sent_length - 1) THEN {} ELSE {ml[w].nw[dir]}

(* The disjuncts <<v, i>> of these words with a jet on side 1 - dir that   *)
(* is not marked yet.                                                      *)
Facing(dir, vs) ==
  {x \in UNION {{v} \X Jets(1 - dir, v) : v \in vs} :
     cell[Shallow(1 - dir, x[1], x[2])].nearest # BadWord}

CrossingEnd(w, dir) ==
  {x \in Facing(dir, Ends(w, dir)) :
     Beyond(1 - dir, cell[Deepest(Shallow(1 - dir, x[1], x[2]))].nearest, w)}

CrossingUnder(w, dir) ==
  {x \in Facing(dir, Under(w, dir)) :
     Beyond(1 - dir, cell[Shallow(1 - dir, x[1], x[2])].nearest, w)}

(* The cells that are marked BAD_WORD. *)
Crossing(w) ==
  UNION {{Shallow(1 - dir, x[1], x[2]) : x \in CrossingEnd(w, dir) \cup CrossingUnder(w, dir)}
           : dir \in Dirs}

(* Mutant: a multi-connector is limited as well. *)
LimitsOfAll(w, c) ==
  {w : x \in {y \in Facing(1 - c.dir, Ends(w, 1 - c.dir)) \ CrossingEnd(w, 1 - c.dir) :
                Deepest(Shallow(c.dir, y[1], y[2])) = c}}
    \cup {w : x \in {y \in Facing(1 - c.dir, Under(w, 1 - c.dir)) \ CrossingUnder(w, 1 - c.dir) :
                       Shallow(c.dir, y[1], y[2]) = c}}
    \cup {ml[w].fw[c.dir] : x \in {y \in Facing(c.dir, Under(w, c.dir)) \ CrossingUnder(w, c.dir) :
                                     y[2] \in Jets(c.dir, y[1]) /\ Shallow(c.dir, y[1], y[2]) = c}}

(* The words that become limits of farthest_word of a cell. *)
Limits(w, c) ==
  {w : x \in {y \in Facing(1 - c.dir, Ends(w, 1 - c.dir)) \ CrossingEnd(w, 1 - c.dir) :
                Deepest(Shallow(c.dir, y[1], y[2])) = c /\ ~Multi(c)}}
    \cup {w : x \in {y \in Facing(1 - c.dir, Under(w, 1 - c.dir)) \ CrossingUnder(w, 1 - c.dir) :
                       Shallow(c.dir, y[1], y[2]) = c}}
    \cup {ml[w].fw[c.dir] : x \in {y \in Facing(c.dir, Under(w, c.dir)) \ CrossingUnder(w, c.dir) :
                                     y[2] \in Jets(c.dir, y[1]) /\ Shallow(c.dir, y[1], y[2]) = c}}

Limited(w, c) ==
  LET all == Limits(w, c) \cup {cell[c].farthest}
  IN  [cell[c] EXCEPT !.farthest = IF c.dir = 0 THEN Greatest(all) ELSE Least(all)]

(* A disjunct without a jet towards w, where the link of w must end, or    *)
(* whose other links reach beyond every end of it.                         *)
CutJets(w, dir) ==
  {<<1 - dir, x[1], x[2]>> : x \in
     {y \in UNION {{v} \X Left(v) : v \in Ends(w, dir)} :
        /\ NoJet(1 - dir, y[1], y[2])
        /\ \/ ml[w].nw[dir] = ml[w].fw[dir]
           \/ Beyond(dir, cell[Shallow(dir, y[1], y[2])].nearest, ml[w].fw[dir])}}

(* One word at a time; no word is without disjuncts here. *)
CrossMlinkPrune ==
  /\ stage = "cross"
  /\ cell' = [c \in DOMAIN cell |->
                IF c \in Crossing(at.w) THEN [cell[c] EXCEPT !.nearest = BadWord]
                                        ELSE Limited(at.w, c)]
  /\ cut' = cut \cup CutJets(at.w, 0) \cup CutJets(at.w, 1)
  /\ IF at.w < sent_length - 1
     THEN /\ at' = [at EXCEPT !.w = @ + 1]
          /\ UNCHANGED <<pass_number, changed, deleted, extra, call, stage>>
     ELSE StartPowerPrune(call)
  /\ UNCHANGED <<input, word, refcount, table, is_null_word, ml, result>>

-----------------------------------------------------------------------------
(* pp_prune().  Selectors and criterion links are names without            *)
(* subscripts, which match a link exactly if the name is the same.         *)

(* The entry of a connector in the table of names, one for each desc. *)
Desc(c) == [uc |-> Head(c.tr).uc, limit |-> Head(c.tr).limit]

Names == {[desc |-> Desc(c), dir |-> c.dir] : c \in {x \in DOMAIN cell : refcount[x] > 0}}

(* match_in_cms_table(): the entries that can form a link of the rules,    *)
(* whose names have no subscripts here.                                    *)
match_in_cms_table(link) == {n \in Names : n.desc.uc = link}

(* rule_satisfiable(): two connectors in the sentence can make one of the  *)
(* criterion links; the first of them is not marked.                       *)
RuleSatisfiable(link_set, bad) ==
  \E link \in link_set : \E m, n \in match_in_cms_table(link) :
    m.dir # n.dir /\ m.desc \notin bad

BadNames ==
  FoldLeft(LAMBDA bad, rule :
             IF RuleSatisfiable(rule.link_set, bad) THEN bad
             ELSE bad \cup {n.desc : n \in match_in_cms_table(rule.selector)},
           {}, Rules)

(* mark_bad_connectors() *)
PPMarked ==
  [c \in DOMAIN cell |->
     IF refcount[c] > 0 /\ Desc(c) \in BadNames THEN [cell[c] EXCEPT !.nearest = BadWord]
     ELSE cell[c]]

-----------------------------------------------------------------------------
(* pp_and_power_prune() *)

(* get_num_con_uc(): the slots of a table that begin with a shallow        *)
(* connector, which come first in a slot.                                  *)
NumConUc == [dir \in Dirs |-> [w \in Words |->
               Cardinality({Head(c.tr).uc : c \in {x \in table[dir][w] : x.sh}})]]

MinNulls ==
  IF null_links = MAX_SENTENCE THEN null_words
  ELSE IF null_words > null_count THEN null_count + 1 ELSE null_count

ParsingToBeDone == null_links = MAX_SENTENCE \/ null_words <= null_count

Finish ==
  /\ stage' = "done"
  /\ result' = [min_nulls |-> MinNulls, ncu |-> IF ParsingToBeDone THEN NumConUc ELSE <<>>]
  /\ UNCHANGED <<input, word, cell, refcount, cut, table, is_null_word, pass_number, changed,
                 deleted, extra, ml, call, at>>

(* The mlink table is built; power_prune() is called again if there is one,*)
(* after cross_mlink_prune() if no null is allowed.                        *)
UseMlinkTable ==
  /\ ml' = BuildMlinkTable
  /\ IF null_links = 0
     THEN /\ stage' = "cross" /\ call' = call + 1 /\ at' = [dir |-> 0, w |-> 0, i |-> 1]
          /\ UNCHANGED <<pass_number, changed, deleted, extra>>
     ELSE StartPowerPrune(call + 1)
  /\ UNCHANGED <<input, word, cell, refcount, cut, table, is_null_word, result>>

(* power_prune() has deleted disjuncts and did not return -1. *)
MlinkUseful == deleted /\ ~extra /\ MlinkExists

AfterFirst ==
  /\ stage = "pruned" /\ call = 1 /\ MlinkUseful
  /\ UseMlinkTable

(* pp_prune(), and the third power_prune() if it has marked connectors. *)
PPPrune ==
  /\ stage = "pruned" /\ ~extra
  /\ (call = 1 /\ ~MlinkUseful) \/ call = 2
  /\ cell' = PPMarked
  /\ IF BadNames # {}
     THEN StartPowerPrune(3)
     ELSE call' = 3 /\ UNCHANGED <<pass_number, changed, deleted, extra, at, stage>>
  /\ UNCHANGED <<input, word, refcount, cut, table, is_null_word, ml, result>>

AfterPP ==
  /\ stage = "pruned" /\ call = 3 /\ MlinkUseful
  /\ UseMlinkTable

End ==
  /\ stage = "pruned"
  /\ extra \/ (call = 3 /\ ~MlinkUseful) \/ call = 4
  /\ Finish

PruneInit ==
  /\ sentence \in {L!SetupConnectors(s) : s \in Sentences}
  /\ islands_ok \in BOOLEAN
  /\ \E n \in NullCounts : null_links = n[1] /\ null_count = n[2]
  /\ word = [w \in Words |-> [i \in DOMAIN sentence[w] |-> i]]
  /\ cell = [c \in AllCells |-> Fields(c)]
  /\ refcount = [c \in AllCells |-> Uses(c, DOMAIN sentence[c.w])]
  /\ cut = {}
  /\ table = [dir \in Dirs |-> [w \in Words |-> PowerTable(dir, w)]]
  /\ is_null_word = {}
  /\ pass_number = 1 /\ changed = TRUE /\ deleted = FALSE /\ extra = FALSE
  /\ ml = <<>>
  /\ call = 1 /\ at = [dir |-> 0, w |-> 0, i |-> 1] /\ stage = "disjunct"
  /\ result = <<>>

PruneNext ==
  \/ SkipDisjunct \/ DiscardBad \/ UpdateDisjunct \/ EndWord \/ PassEnd
  \/ AfterFirst \/ CrossMlinkPrune \/ PPPrune \/ AfterPP \/ End

PruneSpec == PruneInit /\ [][PruneNext]_prunevars /\ WF_prunevars(PruneNext)

-----------------------------------------------------------------------------
Live(c) == \E i \in Left(c.w) : c \in ToSet(Jet(c.dir, c.w, i))

PruneTypeOK ==
  /\ \A w \in Words : IsInjective(word[w]) /\ Left(w) \subseteq DOMAIN sentence[w]
  /\ cell \in [AllCells -> [nearest : Words \cup {BadWord}, farthest : Words,
                            pass : 0..(MaxPass - 1)]]
  /\ refcount \in [AllCells -> Nat]
  /\ cut \subseteq Dirs \X Words \X Nat
  /\ table \in [Dirs -> [Words -> SUBSET AllCells]]
  /\ is_null_word \subseteq Words
  /\ pass_number \in 0..(MaxPass - 1)
  /\ {changed, deleted, extra} \subseteq BOOLEAN
  /\ call \in 1..4
  /\ at \in [dir : Dirs, w : Words, i : Nat]

(* What a linkage needs to pass the contains-one rules: no selector link   *)
(* without one of its criterion links.                                     *)
SatisfiesRules(linkage) ==
  LET names == {Head(l.lc).uc : l \in linkage.links}
  IN  \A r \in ToSet(Rules) : r.selector \in names => r.link_set \cap names # {}

Wanted(n) == {k \in L!LinkageSet(n) : SatisfiesRules(k)}

(* The disjuncts of the linkage are left, and reach what it links.         *)
Remains(linkage) ==
  \A w \in Words : linkage.chosen[w] # L!NullWord =>
    \E i \in Left(w) :
       /\ sentence[w][i] = linkage.chosen[w]
       /\ \A l \in linkage.links :
            /\ l.lw = w => \E c \in ToSet(Jet(1, w, i)) :
                 c.tr = l.lc /\ cell[c].nearest <= l.rw /\ l.rw <= cell[c].farthest
            /\ l.rw = w => \E c \in ToSet(Jet(0, w, i)) :
                 c.tr = l.rc /\ cell[c].nearest >= l.lw /\ l.lw >= cell[c].farthest

(* Pruning for at most null_links nulls loses no linkage with that many    *)
(* nulls that post-processing would accept: all of its disjuncts remain,   *)
(* and every link of it is within [nearest_word, farthest_word] of its two *)
(* connectors, which is where the parser looks for it.                     *)
NoLinkageLost ==
  stage = "done" => \A n \in 0..Lesser(null_links, sent_length - 1) : \A k \in Wanted(n) : Remains(k)

(* classic_parse() skips the null counts below the one that                *)
(* pp_and_power_prune() returns (but not the last one, at which all words  *)
(* are null): there is no linkage to be found there.                       *)
SkippedHaveNone ==
  stage = "done" => \A n \in null_count..Lesser(result.min_nulls - 1, sent_length - 2) : Wanted(n) = {}

(* The refcount of a connector is the number of remaining jets that share  *)
(* it, through every deletion: put_into_power_table() and clean_table()    *)
(* assert that it is never wrong.  So clean_table() leaves every connector *)
(* that is still used in the power table, where others will look for it.   *)
RefcountsExact ==
  \A c \in AllCells : /\ refcount[c] = Uses(c, Left(c.w))
                      /\ refcount[c] > 0 => c \in table[c.dir][c.w]

(* When power_prune() stops every remaining connector can be connected at  *)
(* its nearest and at its farthest word, to a connector that remains too:  *)
(* the last changes have reached every word, through shared connectors and *)
(* in both directions.                                                     *)
Supported(c, n) ==
  \E t \in AllCells :
    /\ t.dir # c.dir /\ t.w = n /\ Live(t) /\ (c.sh \/ t.sh)
    /\ IF c.dir = 0 THEN InRange(cell, t, c, n, c.w) ELSE InRange(cell, c, t, c.w, n)

PrunedToFixpoint ==
  stage = "pruned" /\ ~extra =>
    \A c \in AllCells : Live(c) => Supported(c, cell[c].nearest) /\ Supported(c, cell[c].farthest)

(* The pruning is exact: it loses nothing that a parse needs, and stops    *)
(* where pruning further would change nothing.                             *)
PruneExact == NoLinkageLost /\ SkippedHaveNone /\ PrunedToFixpoint

(* The passes come to an end. *)
Terminates == <>(stage = "done")
=============================================================================
