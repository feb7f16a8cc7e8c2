---------------------------- MODULE ChosenWords ----------------------------
(***************************************************************************)
(* The words that a linkage displays (linkage.c): remove_empty_words()     *)
(* drops the optional words that the linkage skips, compute_chosen_words() *)
(* joins null morphemes and, when morphology is hidden, the morphemes of a *)
(* word, drops the links between them, and renumbers words and links.      *)
(*                                                                         *)
(* A gword of the path is a record [idx, sw, unsplit, type, first]: its    *)
(* sent_wordidx, its sentence word, the word it was split from (0 for the  *)
(* sentence), its morpheme type, and whether it starts its alternative.    *)
(* A displayed word is the set of the places in the path that it stands    *)
(* for; TextOf gives the places whose text it shows, which may be more.    *)
(***************************************************************************)
EXTENDS Integers, Sequences, FiniteSets, FiniteSetsExt, SequencesExt

CONSTANTS Paths   \* records [path, n, cdj, links, hide]

VARIABLES
  lw_in,     \* the linkage as it was extracted
  cdj,       \* chosen_disjuncts: whether the word has one
  larray,    \* link_array: records [lw, rw, id, morph]
  chosen,    \* chosen_words
  npath,     \* n_lwg_path: for each word displayed what it shows
  nbsize,    \* the number of words in the null block
  place,     \* the word compute_chosen_words() is at
  words,     \* linkage->word
  cpc

wvars == <<lw_in, cdj, larray, chosen, npath, nbsize, place, words, cpc>>

NULL == {}
EMPTY == {0}          \* chosen_words[i] = ""

wg_path == lw_in.path
num_words == Len(wg_path)

Shown(S) == [kind |-> "word", cover |-> S]
Placeholder(k) == [kind |-> "placeholder", cover |-> {k}]

-----------------------------------------------------------------------------
(* The new number of each word of S, and the words of S in order.          *)
Renumber(S) == [w \in S |-> Cardinality({v \in S : v <= w})]
InOrder(S) == [k \in 1..Cardinality(S) |-> CHOOSE w \in S : Renumber(S)[w] = k]

(* remap_linkages(): remap is a function from the old word numbers that    *)
(* are kept to the new ones.                                               *)
remap_linkages(links, remap) ==
  LET kept == InOrder({k \in DOMAIN links : /\ ~links[k].dropped
                                           /\ {links[k].lw, links[k].rw} \subseteq DOMAIN remap})
  IN  [k \in DOMAIN kept |-> [links[kept[k]] EXCEPT !.lw = remap[links[kept[k]].lw],
                                                    !.rw = remap[links[kept[k]].rw]]]

(* The linkages that extract_links() and the tokenizer provide: the words  *)
(* of the path are in the order of the sentence, a link joins two words of *)
(* the path that have disjuncts.  An alternative may start after others of *)
(* its sentence word: punctuation that was stripped before it.             *)
Displayable(l) ==
  /\ l.n \in Nat /\ Len(l.path) \in Nat /\ DOMAIN l.path = 1..Len(l.path)
  /\ \A k \in DOMAIN l.path : /\ l.path[k].idx \in 1..l.n /\ l.path[k].sw \in Nat
                             /\ l.cdj[l.path[k].idx] \in BOOLEAN
  /\ \A j, k \in DOMAIN l.path : j < k => l.path[j].idx < l.path[k].idx /\ l.path[j].sw <= l.path[k].sw
  /\ Len(l.links) \in Nat /\ DOMAIN l.links = 1..Len(l.links)
  /\ \A m \in DOMAIN l.links : \A w \in {l.links[m].lw, l.links[m].rw} :
       \E k \in DOMAIN l.path : l.path[k].idx = w /\ l.cdj[w]

WInit ==
  /\ lw_in \in Paths
  /\ cdj = lw_in.cdj
  /\ larray = [k \in DOMAIN lw_in.links |->
                 [lw |-> lw_in.links[k].lw, rw |-> lw_in.links[k].rw, id |-> k,
                  morph |-> lw_in.links[k].morph, dropped |-> FALSE]]
  /\ chosen = <<>> /\ npath = <<>> /\ nbsize = 0 /\ place = 1 /\ words = <<>>
  /\ cpc = "extracted"

(* remove_empty_words(): a word is kept if the path has it. *)
RemoveEmptyWords ==
  /\ cpc = "extracted"
  /\ LET kept == {wg_path[k].idx : k \in 1..num_words}
     IN  /\ cdj' = [k \in 1..num_words |-> cdj[wg_path[k].idx]]
         /\ larray' = IF Cardinality(kept) = lw_in.n THEN larray ELSE remap_linkages(larray, Renumber(kept))
  /\ cpc' = "create"
  /\ UNCHANGED <<lw_in, chosen, npath, nbsize, place, words>>

(* linkage_create(): compute_chosen_words() discards morphology links.     *)
StartCreate ==
  /\ cpc = "create"
  /\ larray' = [k \in DOMAIN larray |-> [larray[k] EXCEPT !.dropped = lw_in.hide /\ larray[k].morph]]
  /\ chosen' = [k \in 1..num_words |-> NULL]
  /\ cpc' = "words"
  /\ UNCHANGED <<lw_in, cdj, npath, nbsize, place, words>>

show_word(k) == \E j \in DOMAIN larray : ~larray[j].dropped /\ k \in {larray[j].lw, larray[j].rw}

-----------------------------------------------------------------------------
At(k) == cpc = "words" /\ place = k

AtBlockEnd(k) == k = num_words \/ wg_path[k + 1].sw # wg_path[k].sw

(* The null words of one sentence word that follow each other are          *)
(* displayed as one; punctuation is kept apart.                            *)
Continues(k) ==
  /\ ~AtBlockEnd(k) /\ ~cdj[k + 1]
  /\ (wg_path[k].type = "punc") = (wg_path[k + 1].type = "punc")

NullInBlock(k) ==
  /\ At(k) /\ ~cdj[k] /\ Continues(k)
  /\ nbsize' = nbsize + 1 /\ place' = k + 1
  /\ UNCHANGED <<lw_in, cdj, larray, chosen, npath, words, cpc>>

SentenceWord(k) == {j \in 1..num_words : wg_path[j].sw = wg_path[k].sw}

(* A null block of several words that is an alternative from its start to  *)
(* the end of the sentence word is shown as the sentence word, others as   *)
(* their morphemes joined.                                                 *)
NullAlternative(S) ==
  /\ Min(S) < Max(S) /\ ~lw_in.cdj[wg_path[Max(S)].idx]
  /\ wg_path[Min(S)].first /\ AtBlockEnd(Max(S))

TextOf(S) == IF S # EMPTY /\ NullAlternative(S) THEN SentenceWord(Max(S)) ELSE S

Block(k) == (k - nbsize)..k

NullEndsBlock(k) ==
  /\ At(k) /\ ~cdj[k] /\ ~Continues(k)
  /\ chosen' = [chosen EXCEPT ![k] = Block(k)]
  /\ npath' = Append(npath, Shown(Block(k)))
  /\ nbsize' = 0 /\ place' = k + 1
  /\ UNCHANGED <<lw_in, cdj, larray, words, cpc>>

-----------------------------------------------------------------------------
(* The morphemes from k on that are joined: those of the same split word,  *)
(* if one of them is a regular morpheme and none is null.                  *)
SameSplit(k) ==
  {j \in k..num_words : wg_path[k].unsplit # 0 /\ \A m \in k..j : wg_path[m].unsplit = wg_path[k].unsplit}

RegMorpheme(t) == t \in {"stem", "prefix", "suffix"}

Joins(k) ==
  /\ lw_in.hide
  /\ \E j \in SameSplit(k) : RegMorpheme(wg_path[j].type)
  /\ \A j \in SameSplit(k) : cdj[j]

LinkedWord(k) ==
  /\ At(k) /\ cdj[k] /\ ~Joins(k)
  /\ chosen' = [chosen EXCEPT ![k] = {k}]
  /\ npath' = Append(npath, Shown({k}))
  /\ place' = k + 1
  /\ UNCHANGED <<lw_in, cdj, larray, nbsize, words, cpc>>

(* A morpheme with a link of its own keeps a place with no text. *)
JoinMorphemes(k) ==
  /\ At(k) /\ cdj[k] /\ Joins(k)
  /\ LET all  == SameSplit(k)
         end  == Max(all)
         kept == InOrder({m \in k..(end - 1) : show_word(m)})
     IN  /\ chosen' = [j \in 1..num_words |-> IF j = end THEN all ELSE IF j \in all THEN EMPTY ELSE chosen[j]]
         /\ npath' = npath \o [m \in DOMAIN kept |-> Placeholder(kept[m])] \o <<Shown(all)>>
         /\ place' = end + 1
  /\ UNCHANGED <<lw_in, cdj, larray, nbsize, words, cpc>>

-----------------------------------------------------------------------------
(* Mutant: a joined morpheme keeps no place. *)
KeptText(k) == chosen[k] # NULL /\ chosen[k] # EMPTY

Kept(k) == chosen[k] # NULL /\ (chosen[k] # EMPTY \/ ~lw_in.hide \/ show_word(k))

Compact ==
  /\ cpc = "words" /\ place > num_words
  /\ LET kept == {k \in 1..num_words : Kept(k)}
         old == InOrder(kept)
     IN  /\ words' = [j \in DOMAIN old |-> TextOf(chosen[old[j]])]
         /\ cdj' = [j \in DOMAIN old |-> cdj[old[j]]]
         /\ larray' = remap_linkages(larray, Renumber(kept))
  /\ cpc' = "created"
  /\ UNCHANGED <<lw_in, chosen, npath, nbsize, place>>

WNext ==
  \/ RemoveEmptyWords \/ StartCreate \/ Compact
  \/ \E k \in 1..num_words : NullInBlock(k) \/ NullEndsBlock(k) \/ LinkedWord(k) \/ JoinMorphemes(k)

WSpec == WInit /\ [][WNext]_wvars

-----------------------------------------------------------------------------
(* What is displayed fits together: wg_path_display has an element for     *)
(* each word and shows the same text; each gword of the path is in one     *)
(* displayed word, and these are in order; each link that is not hidden    *)
(* joins the words, or places, of the gwords that it linked; and no text   *)
(* is lost, or shown a second time (Repeats) but for what stands before a  *)
(* null alternative in the same sentence word.                             *)
PlaceOf(k) ==
  LET own == {j \in DOMAIN npath : npath[j].kind = "placeholder" /\ npath[j].cover = {k}}
  IN  CHOOSE j \in (IF own # {} THEN own ELSE {m \in DOMAIN npath : k \in npath[m].cover}) : TRUE

Repeats(S) ==
  {m \in 1..num_words : /\ m < Min(S) /\ wg_path[Min(S)].first /\ ~lw_in.cdj[wg_path[Max(S)].idx]
                        /\ wg_path[m].sw = wg_path[Max(S)].sw}

PathPlace(idx) == CHOOSE k \in 1..num_words : wg_path[k].idx = idx

DisplayFits ==
  cpc = "created" =>
    /\ Len(words) = Len(npath)
    /\ \A j \in DOMAIN words :
         words[j] = IF npath[j].kind = "placeholder" THEN EMPTY ELSE TextOf(npath[j].cover)
    /\ \A j \in DOMAIN npath : npath[j].kind = "word" =>
         LET own == npath[j].cover
         IN  own \subseteq TextOf(own) /\ TextOf(own) \subseteq own \cup Repeats(own)
    /\ \A k \in 1..num_words : Cardinality({j \in DOMAIN npath : npath[j].kind = "word" /\ k \in npath[j].cover}) = 1
    /\ \A i, j \in DOMAIN npath : i < j => Min(npath[i].cover) <= Min(npath[j].cover) \/ npath[i].kind = "placeholder"
    /\ {[lw |-> larray[k].lw, rw |-> larray[k].rw, id |-> larray[k].id] : k \in DOMAIN larray}
         = {[lw |-> PlaceOf(PathPlace(lw_in.links[k].lw)), rw |-> PlaceOf(PathPlace(lw_in.links[k].rw)), id |-> k] :
              k \in {m \in DOMAIN lw_in.links : ~(lw_in.hide /\ lw_in.links[m].morph)}}
=============================================================================
